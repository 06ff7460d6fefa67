-------------------------- MODULE RuntimeLifetime ---------------------------
(***************************************************************************)
(* Runtime processes that share one socket path: binding it                *)
(* (transport/uds-listener.ts), admitting clients, the idle grace of an    *)
(* autostarted runtime (server/lifetime.ts), `runtime/stop` and its        *)
(* conditional form (server/rpc/runtime.ts), Ctrl-C (server/sigint.ts) and *)
(* the shutdown that follows (server/main.ts).                             *)
(*                                                                         *)
(* The socket path is a file that names the listener bound last.  A step   *)
(* is one run of a process between two awaits; processes interleave, so a  *)
(* check of the file and the act it allows are separate steps.             *)
(***************************************************************************)
EXTENDS Naturals, FiniteSets

CONSTANTS
    Runtimes,       \* runtime processes, each started once
    Autostarted,    \* those started by the launcher
    Clients,        \* client processes, each connects once
    MaxShutdowns,   \* bound: shutdowns one runtime is asked for
    None

VARIABLES
    proc,       \* runtime -> where it is
    sock,       \* the runtime whose listener the socket file names
    accepting,  \* runtimes whose accept loop admits connections
    backlog,    \* runtime -> clients connected, not yet admitted
    peers,      \* runtime -> connections it has not finished with
    left,       \* clients that have disconnected
    busy,       \* clients whose turn is in flight
    timer,      \* runtimes with their idle timer armed
    stopped,    \* runtimes whose lifetime is over (#stopped)
    begun,      \* runtime -> shutdowns begun
    removed,    \* runtime -> shutdowns whose rm of the socket has run
    pressed,    \* runtimes whose first Ctrl-C has come
    why,        \* history: runtime -> what it was stopped for
    asker,      \* history: runtime -> the client of its conditional stop
    cut         \* history: clients a conditional or idle stop cut off

lifeVars == <<timer, stopped>>
stopVars == <<begun, removed, pressed, why, asker, cut>>
vars == <<proc, sock, accepting, backlog, peers, left, busy, lifeVars, stopVars>>

Up == {"serving", "closing"}
Procs == Up \cup {"off", "clearing", "binding", "dead"}

Init ==
    /\ proc = [r \in Runtimes |-> "off"]
    /\ sock = None
    /\ accepting = {}
    /\ backlog = [r \in Runtimes |-> {}]
    /\ peers = [r \in Runtimes |-> {}]
    /\ left = {}
    /\ busy = {}
    /\ timer = {}
    /\ stopped = {}
    /\ begun = [r \in Runtimes |-> 0]
    /\ removed = [r \in Runtimes |-> 0]
    /\ why = [r \in Runtimes |-> "none"]
    /\ pressed = {}
    /\ asker = [r \in Runtimes |-> None]
    /\ cut = {}

-----------------------------------------------------------------------------
(* Binding the socket.                                                     *)

\* The launcher's start lock: one autostart boots at a time.  `dyfj start`
\* does not take it.
StartLocked(r) ==
    r \in Autostarted /\ \E q \in Autostarted : proc[q] \in {"clearing", "binding"}

\* assertSocketBindable up to its connect: no file, a live listener (the
\* runtime refuses to start), or a stale socket it will clear.
Probe(r) ==
    /\ proc[r] = "off"
    /\ ~StartLocked(r)
    /\ proc' = [proc EXCEPT ![r] =
           IF sock = None THEN "binding"
           ELSE IF sock \in accepting THEN "dead"
           ELSE "clearing"]
    /\ UNCHANGED <<sock, accepting, backlog, peers, left, busy, lifeVars,
                   stopVars>>

\* rmSync: the path is removed, whatever it names by now.
ClearStale(r) ==
    /\ proc[r] = "clearing"
    /\ sock' = None
    /\ proc' = [proc EXCEPT ![r] = "binding"]
    /\ UNCHANGED <<accepting, backlog, peers, left, busy, lifeVars, stopVars>>

\* Mutant: every runtime is armed.
ArmAny(r) == timer' = timer \cup {r}

\* #arm, for an autostarted runtime that is not stopped.
Arm(r) ==
    timer' = IF r \in Autostarted \ stopped THEN timer \cup {r} ELSE timer

\* host.listen and lifetime.start; a path taken meanwhile fails the boot.
Bind(r) ==
    /\ proc[r] = "binding"
    /\ IF sock = None
       THEN /\ sock' = r
            /\ accepting' = accepting \cup {r}
            /\ Arm(r)
            /\ proc' = [proc EXCEPT ![r] = "serving"]
       ELSE /\ proc' = [proc EXCEPT ![r] = "dead"]
            /\ UNCHANGED <<sock, accepting, timer>>
    /\ UNCHANGED <<backlog, peers, left, busy, stopped, stopVars>>

-----------------------------------------------------------------------------
(* Clients and their connections.                                          *)

Unused(c) ==
    /\ c \notin left
    /\ \A r \in Runtimes : c \notin peers[r] \cup backlog[r]

\* A client connects to whatever listens at the path.
Connect(c, r) ==
    /\ Unused(c)
    /\ sock = r
    /\ r \in accepting
    /\ backlog' = [backlog EXCEPT ![r] = @ \cup {c}]
    /\ UNCHANGED <<proc, sock, accepting, peers, left, busy, lifeVars, stopVars>>

\* The accept loop admits it: clientsChanged with a positive count.
AdmitClient(c, r) ==
    /\ c \in backlog[r]
    /\ r \in accepting
    /\ backlog' = [backlog EXCEPT ![r] = @ \ {c}]
    /\ peers' = [peers EXCEPT ![r] = @ \cup {c}]
    /\ timer' = timer \ {r}
    /\ UNCHANGED <<proc, sock, accepting, left, busy, stopped, stopVars>>

StartTurn(c, r) ==
    /\ c \in peers[r] \ (left \cup busy)
    /\ proc[r] \in Up
    /\ busy' = busy \cup {c}
    /\ UNCHANGED <<proc, sock, accepting, backlog, peers, left, lifeVars,
                   stopVars>>

FinishTurn(c) ==
    /\ c \in busy
    /\ busy' = busy \ {c}
    /\ UNCHANGED <<proc, sock, accepting, backlog, peers, left, lifeVars,
                   stopVars>>

ClientLeaves(c, r) ==
    /\ c \in peers[r] \ left
    /\ left' = left \cup {c}
    /\ UNCHANGED <<proc, sock, accepting, backlog, peers, busy, lifeVars,
                   stopVars>>

\* Mutant: the timer is not armed again when the last client leaves.
NeverRearmed(r) == timer' = timer

\* clientsChanged(0).
LastLeft(r) == Arm(r)

\* The client is gone and everything it sent is answered: the connection
\* ends and the count is reported.
EndConnection(c, r) ==
    /\ c \in peers[r] \cap left
    /\ c \notin busy
    /\ peers' = [peers EXCEPT ![r] = @ \ {c}]
    /\ IF peers[r] = {c} THEN LastLeft(r) ELSE UNCHANGED timer
    /\ UNCHANGED <<proc, sock, accepting, backlog, left, busy, stopped, stopVars>>

-----------------------------------------------------------------------------
(* Stopping.                                                               *)

InFlightTurns(r) == busy \cap peers[r]

\* stopAccepting, in the step that decides to stop.
StopAccepting(r) == accepting \ {r}

\* shutdown -> serverInstance.close up to its first await.  A connection not
\* yet admitted is closed.
BeginShutdown(r, reason, disconnectPeers) ==
    /\ proc[r] \in Up
    /\ begun[r] < MaxShutdowns
    /\ begun' = [begun EXCEPT ![r] = @ + 1]
    /\ proc' = [proc EXCEPT ![r] = "closing"]
    /\ accepting' = StopAccepting(r)
    /\ timer' = timer \ {r}
    /\ stopped' = stopped \cup {r}
    /\ backlog' = [backlog EXCEPT ![r] = {}]
    /\ left' = left \cup backlog[r]
    /\ why' = [why EXCEPT ![r] = IF @ = "full" THEN @ ELSE reason]
    /\ peers' = IF disconnectPeers THEN [peers EXCEPT ![r] = {}] ELSE peers
    /\ UNCHANGED <<sock, busy, removed>>

\* #expire: held while a client is connected or a turn is in flight.
Expire(r) ==
    /\ r \in timer
    /\ IF peers[r] # {} \/ InFlightTurns(r) # {}
       THEN /\ timer' = IF peers[r] # {} THEN timer \ {r} ELSE timer
            /\ UNCHANGED <<proc, sock, accepting, backlog, peers, left, busy,
                           stopped, stopVars>>
       ELSE BeginShutdown(r, "idle", TRUE) /\ UNCHANGED <<pressed, asker, cut>>

\* `runtime/stop` from a connected client.
StopRuntime(c, r) ==
    /\ c \in peers[r] \ left
    /\ BeginShutdown(r, "full", FALSE)
    /\ UNCHANGED <<pressed, asker, cut>>

\* Mutant: only the turns in flight refuse a conditional stop.
TurnsOnly(c, r) == InFlightTurns(r) # {}

\* soleClientRefusal.
SoleClientRefusal(c, r) ==
    Cardinality(peers[r]) > 1 \/ InFlightTurns(r) # {}

\* `runtime/stop` with ifSoleClient: declined with no effect, or the check
\* and the end of admission in one step.
StopIfSoleClient(c, r) ==
    /\ c \in peers[r] \ left
    /\ ~SoleClientRefusal(c, r)
    /\ BeginShutdown(r, "sole", FALSE)
    /\ asker' = [asker EXCEPT ![r] = c]
    /\ UNCHANGED <<pressed, cut>>

\* The first Ctrl-C; an autostarted runtime ignores it.  The second changes
\* nothing, the third is a Crash.
Interrupt(r) ==
    /\ r \notin Autostarted \cup pressed
    /\ pressed' = pressed \cup {r}
    /\ BeginShutdown(r, "full", TRUE)
    /\ UNCHANGED <<asker, cut>>

\* transport.close's rm: by path, whatever it names by now.
RemoveSocket(r) ==
    /\ proc[r] = "closing"
    /\ removed[r] < begun[r]
    /\ removed' = [removed EXCEPT ![r] = @ + 1]
    /\ sock' = None
    /\ UNCHANGED <<proc, accepting, backlog, peers, left, busy, lifeVars, begun,
                   pressed, why, asker, cut>>

\* The process ends: everything it held is gone.
Die(r) ==
    /\ proc' = [proc EXCEPT ![r] = "dead"]
    /\ accepting' = accepting \ {r}
    /\ timer' = timer \ {r}
    /\ left' = left \cup peers[r] \cup backlog[r]
    /\ busy' = busy \ peers[r]
    /\ peers' = [peers EXCEPT ![r] = {}]
    /\ backlog' = [backlog EXCEPT ![r] = {}]
    /\ UNCHANGED <<sock, stopped, begun, removed, pressed, why, asker>>

\* process.exit once a shutdown is complete and its answer is written.
Exit(r) ==
    /\ proc[r] = "closing"
    /\ removed[r] > 0
    /\ cut' = IF why[r] \in {"idle", "sole"}
              THEN cut \cup (peers[r] \ {asker[r]}) ELSE cut
    /\ Die(r)

\* An unclean exit, a forced third Ctrl-C included: the file stays.
Crash(r) ==
    /\ proc[r] \in Up
    /\ UNCHANGED cut
    /\ Die(r)

RuntimeStep(r) ==
    \/ Probe(r) \/ ClearStale(r) \/ Bind(r) \/ Expire(r)
    \/ RemoveSocket(r) \/ Exit(r)

Next ==
    \/ \E r \in Runtimes : RuntimeStep(r) \/ Interrupt(r) \/ Crash(r)
    \/ \E c \in Clients : FinishTurn(c)
    \/ \E c \in Clients, r \in Runtimes :
           \/ Connect(c, r) \/ AdmitClient(c, r) \/ StartTurn(c, r)
           \/ ClientLeaves(c, r) \/ EndConnection(c, r)
           \/ StopRuntime(c, r) \/ StopIfSoleClient(c, r)

Spec == Init /\ [][Next]_vars

\* A started process goes on, its timer fires, a finished connection is
\* ended.  Nothing is assumed of clients or of the operator.
Fairness ==
    /\ \A r \in Runtimes : WF_vars(Expire(r)) /\ WF_vars(Exit(r))
                               /\ WF_vars(RemoveSocket(r))
    /\ \A c \in Clients, r \in Runtimes :
           WF_vars(EndConnection(c, r)) /\ WF_vars(AdmitClient(c, r))

FairSpec == Spec /\ Fairness

-----------------------------------------------------------------------------
(* Properties.                                                             *)

TypeOK ==
    /\ proc \in [Runtimes -> Procs]
    /\ sock \in Runtimes \cup {None}
    /\ accepting \subseteq Runtimes
    /\ backlog \in [Runtimes -> SUBSET Clients]
    /\ peers \in [Runtimes -> SUBSET Clients]
    /\ left \subseteq Clients
    /\ busy \subseteq Clients
    /\ timer \subseteq Autostarted
    /\ stopped \subseteq Runtimes
    /\ begun \in [Runtimes -> 0..MaxShutdowns]
    /\ removed \in [Runtimes -> 0..MaxShutdowns]
    /\ why \in [Runtimes -> {"none", "idle", "sole", "full"}]
    /\ pressed \subseteq Runtimes
    /\ asker \in [Runtimes -> Clients \cup {None}]
    /\ cut \subseteq Clients

\* An idle stop cuts no admitted client off, and a conditional stop none but
\* the client that asked for it, however long the shutdown takes and whoever
\* connects meanwhile.
ConditionalStopSparesOthers == cut = {}

\* An autostarted runtime that is left without a client does not keep
\* running: it stops, or a client connects.
IdleRuntimeStops ==
    \A r \in Autostarted :
        proc[r] = "serving" /\ peers[r] = {} ~>
            proc[r] # "serving" \/ peers[r] # {}

\* A live runtime's socket is never unlinked: while a runtime admits
\* connections, the path names it.
LiveSocketKept ==
    \A r \in accepting : sock = r

=============================================================================
