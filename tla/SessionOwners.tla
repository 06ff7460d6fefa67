--------------------------- MODULE SessionOwners ----------------------------
(***************************************************************************)
(* The engine's session owners and the `turn` / `turn/cancel` handlers     *)
(* that use them (prototype/src/engine/session-owner.ts, engine/turn.ts,   *)
(* server/rpc/turn.ts).                                                    *)
(*                                                                         *)
(* A turn request is admitted on a connection, queues behind its session's *)
(* owner, rebuilds its history from the log, appends its events, concludes *)
(* and settles.  Every step below is one run of JavaScript between two     *)
(* awaits, so steps of different turns interleave freely.                  *)
(*                                                                         *)
(* An owner object is identified by the turn whose runTurn created it, and *)
(* a `settled` promise by the turn it belongs to: `owners[s]` is the entry *)
(* of the #owners map, `tail[o]` the #tail of owner o, `home[t]` and       *)
(* `prev[t]` the `current` owner and the tail that runTurn captured for t. *)
(***************************************************************************)
EXTENDS Naturals, Sequences, FiniteSets
LOCAL INSTANCE TLC

CONSTANTS
    Turns,          \* turn requests, each sent once
    Identified,     \* those that carry a client turn id
    Sessions,       \* session ids
    Connections,    \* client connections (RpcContext objects)
    MaxEvents,      \* bound: events one turn appends to the log
    None

ASSUME NoneAssumption == None \notin Turns \cup Sessions \cup Connections
ASSUME TurnsAssumption == IsFiniteSet(Turns)
ASSUME IdentifiedAssumption == Identified \subseteq Turns
ASSUME EventsAssumption == MaxEvents \in Nat

VARIABLES
    phase,      \* turn -> where it is
    sess,       \* turn -> its session id
    conn,       \* turn -> the connection it came in on
    home,       \* turn -> the owner it queued on
    prev,       \* turn -> the turn whose `settled` it waits for
    owners,     \* session -> its owner
    tail,       \* owner -> the turn whose `settled` is its #tail
    inFlight,   \* #inFlightTurns
    active,     \* connection -> its entry in activeTurns
    accepting,  \* tickets whose cancellation window is open
    aborted,    \* tickets whose signal is aborted
    accepted,   \* history: turns a client was told are cancelled
    result,     \* turn -> how it ended
    log,        \* session -> the turns that wrote its events, in order
    saw,        \* turn -> the log it rebuilt its history from
    ahead       \* history: turns unsettled on the session when t queued

lockVars == <<phase, sess, home, prev, owners, tail, inFlight, ahead>>
ticketVars == <<accepting, aborted, accepted, result>>
logVars == <<log, saw>>
vars == <<lockVars, conn, active, ticketVars, logVars>>

Running == {"started", "resumed", "open", "concluded"}
InFlight == Running \cup {"queued", "settled"}
Phases == InFlight \cup {"new", "refused", "gone"}

\* The turns that hold or wait for session s, settled ones whose cleanup has
\* not run included.
OnSession(s) == {t \in Turns : phase[t] \in InFlight /\ sess[t] = s}

Init ==
    /\ phase = [t \in Turns |-> "new"]
    /\ sess = [t \in Turns |-> None]
    /\ conn = [t \in Turns |-> None]
    /\ home = [t \in Turns |-> None]
    /\ prev = [t \in Turns |-> None]
    /\ owners = [s \in Sessions |-> None]
    /\ tail = [t \in Turns |-> None]
    /\ inFlight = 0
    /\ active = [c \in Connections |-> None]
    /\ accepting = {}
    /\ aborted = {}
    /\ accepted = {}
    /\ result = [t \in Turns |-> "none"]
    /\ log = [s \in Sessions |-> <<>>]
    /\ saw = [t \in Turns |-> <<>>]
    /\ ahead = [t \in Turns |-> {}]

-----------------------------------------------------------------------------
(* Admission: the `turn` handler up to its await, one synchronous step.    *)

\* Mutant: the ticket comes with its window closed.
ClosedTicket(t) == accepting

\* owners.admit(): a ticket with its window open.
IssueTicket(t) == accepting \cup {t}

\* The handler's prologue: the ticket is issued and the connection's one
\* active-turn slot is taken.
Admit(t, c) ==
    /\ phase[t] = "new"
    /\ active[c] = None
    /\ active' = [active EXCEPT ![c] = t]
    /\ conn' = [conn EXCEPT ![t] = c]
    /\ accepting' = IssueTicket(t)
    /\ UNCHANGED <<aborted, accepted, result>>

\* Mutant: #tail is set by the first turn only, so a third turn queues
\* behind the first.
FirstTail(o, t) == IF tail[o] = None THEN [tail EXCEPT ![o] = t] ELSE tail

\* The turn's settled promise becomes the owner's #tail.
NewTail(o, t) == [tail EXCEPT ![o] = t]

\* runTurn's bookkeeping: find or create the owner, become its tail.
TakeTail(t, s) ==
    LET owner == IF owners[s] = None THEN t ELSE owners[s] IN
    /\ owners' = [owners EXCEPT ![s] = owner]
    /\ home' = [home EXCEPT ![t] = owner]
    /\ prev' = [prev EXCEPT ![t] = tail[owner]]
    /\ tail' = NewTail(owner, t)
    /\ sess' = [sess EXCEPT ![t] = s]
    /\ ahead' = [ahead EXCEPT ![t] = OnSession(s)]
    /\ inFlight' = inFlight + 1

\* A turn that names its session queues behind the session's last turn.
EnqueueTurn(t, c, s) ==
    /\ Admit(t, c)
    /\ TakeTail(t, s)
    /\ phase' = [phase EXCEPT ![t] = "queued"]
    /\ UNCHANGED logVars

\* A turn with no session id gets a fresh one and starts at once.
StartNewSession(t, c, s) ==
    /\ \A u \in Turns : sess[u] # s
    /\ Admit(t, c)
    /\ TakeTail(t, s)
    /\ phase' = [phase EXCEPT ![t] = "resumed"]
    /\ UNCHANGED logVars

\* "connection already has an active turn": refused, nothing is kept.
RefuseTurn(t, c) ==
    /\ phase[t] = "new"
    /\ active[c] # None
    /\ phase' = [phase EXCEPT ![t] = "refused"]
    /\ UNCHANGED <<sess, home, prev, owners, tail, inFlight, ahead, conn,
                   active, ticketVars, logVars>>

-----------------------------------------------------------------------------
(* The turn under its session's lock.                                      *)

\* Mutants: the turn does not wait; it waits for the conclusion only; it
\* waits for a resolved turn, as then(run) with no second argument would.
AtOnce(t) == TRUE
WhenConcluded(t) ==
    prev[t] # None => phase[prev[t]] \in {"concluded", "settled", "gone"}
AfterSuccess(t) ==
    prev[t] # None => phase[prev[t]] = "gone" /\ result[prev[t]] # "error"

\* #tail.then(run, run): the turn runs once the one before it has settled,
\* resolved or rejected.  The cleanup of that turn was registered on the same
\* promise before this one, so it has run too.
MayStart(t) == prev[t] # None => phase[prev[t]] = "gone"

StartTurn(t) ==
    /\ phase[t] = "queued"
    /\ MayStart(t)
    /\ phase' = [phase EXCEPT ![t] = "started"]
    /\ UNCHANGED <<sess, home, prev, owners, tail, inFlight, ahead, conn,
                   active, ticketVars, logVars>>

\* buildResume: read the session's events from the log.
BuildResume(t) ==
    /\ phase[t] = "started"
    /\ saw' = [saw EXCEPT ![t] = log[sess[t]]]
    /\ phase' = [phase EXCEPT ![t] = "resumed"]
    /\ UNCHANGED <<sess, home, prev, owners, tail, inFlight, ahead, conn,
                   active, ticketVars, log>>

\* The events the turn appends: session_start first, then its tool and
\* response events, session_end last.
WriteEvent(t) ==
    /\ phase[t] \in {"resumed", "open", "concluded"}
    /\ Cardinality({i \in DOMAIN log[sess[t]] : log[sess[t]][i] = t})
           < MaxEvents
    /\ log' = [log EXCEPT ![sess[t]] = Append(@, t)]
    /\ phase' = [phase EXCEPT ![t] = IF @ = "resumed" THEN "open" ELSE @]
    /\ UNCHANGED <<sess, home, prev, owners, tail, inFlight, ahead, conn,
                   active, ticketVars, saw>>

\* Mutant: the window is left open.
WindowKept(t) == accepting

\* closeCancellation, which only a turn with a client turn id reports.
WindowClosed(t) == accepting \ ({t} \cap Identified)

\* The agent loop's last look at the signal and the closing of the
\* cancellation window (completeTurn, failTurn): no await lies between.
Conclude(t) ==
    /\ phase[t] = "open"
    /\ phase' = [phase EXCEPT ![t] = "concluded"]
    /\ accepting' = WindowClosed(t)
    /\ \E r \in {IF t \in aborted THEN "aborted" ELSE "stop", "error"} :
           result' = [result EXCEPT ![t] = r]
    /\ UNCHANGED <<sess, home, prev, owners, tail, inFlight, ahead, conn,
                   active, aborted, accepted, logVars>>

\* The run settles: after finalize, or by an error raised before the native
\* turn opened (buildResume, routing, openSession), which leaves the window
\* open.  A failed integrity write turns any end into an error.
SettleTurn(t) ==
    /\ phase[t] \in {"started", "resumed", "concluded"}
    /\ phase' = [phase EXCEPT ![t] = "settled"]
    /\ \E r \in (IF phase[t] = "concluded" THEN {result[t]} ELSE {})
                    \cup {"error"} :
           result' = [result EXCEPT ![t] = r]
    /\ UNCHANGED <<sess, home, prev, owners, tail, inFlight, ahead, conn,
                   active, accepting, aborted, accepted, logVars>>

\* Mutants: the isTail test is dropped; the owner is kept after a failure.
OwnerRegistered(t) == owners[sess[t]] = home[t]
LastAndResolved(t) ==
    owners[sess[t]] = home[t] /\ tail[home[t]] = t /\ result[t] # "error"

\* The turn's owner is still the registered one and the turn is its tail.
IsLast(t) == owners[sess[t]] = home[t] /\ tail[home[t]] = t

\* Mutants: the cleanup is registered twice; it counts with the owner only.
TwoLess(t) == inFlight - 2
OneLessWhenLast(t) == IF IsLast(t) THEN inFlight - 1 ELSE inFlight

OneLess(t) == inFlight - 1

\* settled.finally: one turn less in flight, and the owner is dropped with
\* its last turn.
CleanUp(t) ==
    /\ phase[t] = "settled"
    /\ phase' = [phase EXCEPT ![t] = "gone"]
    /\ inFlight' = OneLess(t)
    /\ owners' = IF IsLast(t) THEN [owners EXCEPT ![sess[t]] = None]
                  ELSE owners
    /\ UNCHANGED <<sess, home, prev, tail, ahead, conn, active, ticketVars,
                   logVars>>

\* The handler's finally: the connection's slot is freed.
HandlerReturn(t) ==
    /\ phase[t] \in {"settled", "gone"}
    /\ active[conn[t]] = t
    /\ active' = [active EXCEPT ![conn[t]] = None]
    /\ UNCHANGED <<lockVars, conn, ticketVars, logVars>>

-----------------------------------------------------------------------------
(* Cancellation.                                                           *)

\* `turn/cancel`: found by its turn id in the connection's map and honored
\* once, while the window is open.  Declined otherwise, with no effect.
CancelTurn(t, c) ==
    /\ t \in Identified
    /\ active[c] = t
    /\ t \in accepting
    /\ accepting' = accepting \ {t}
    /\ aborted' = aborted \cup {t}
    /\ accepted' = accepted \cup {t}
    /\ UNCHANGED <<lockVars, conn, active, result, logVars>>

\* The client reports an approval of the turn as interrupted: the signal is
\* raised whether or not the window is open.
AbortAtApproval(t) ==
    /\ phase[t] = "open"
    /\ t \notin aborted
    /\ aborted' = aborted \cup {t}
    /\ UNCHANGED <<lockVars, conn, active, accepting, accepted, result,
                   logVars>>

-----------------------------------------------------------------------------
RunTurn(t) ==
    \/ StartTurn(t) \/ BuildResume(t) \/ WriteEvent(t) \/ Conclude(t)
    \/ SettleTurn(t) \/ CleanUp(t) \/ HandlerReturn(t)

Next ==
    \E t \in Turns :
        \/ RunTurn(t)
        \/ AbortAtApproval(t)
        \/ \E c \in Connections :
               \/ RefuseTurn(t, c)
               \/ CancelTurn(t, c)
               \/ \E s \in Sessions :
                      EnqueueTurn(t, c, s) \/ StartNewSession(t, c, s)

Spec == Init /\ [][Next]_vars

\* Turns without an id are interchangeable, and so are connections (for TLC).
Symm == Permutations(Turns \ Identified) \cup Permutations(Connections)

\* Promise reactions always run, and a running turn's awaits settle (a turn
\* waiting on its client is the subject of ApprovalChannel).
Fairness == \A t \in Turns : WF_vars(RunTurn(t))

FairSpec == Spec /\ Fairness

-----------------------------------------------------------------------------
(* Properties.                                                             *)

TypeOK ==
    /\ phase \in [Turns -> Phases]
    /\ sess \in [Turns -> Sessions \cup {None}]
    /\ conn \in [Turns -> Connections \cup {None}]
    /\ home \in [Turns -> Turns \cup {None}]
    /\ prev \in [Turns -> Turns \cup {None}]
    /\ owners \in [Sessions -> Turns \cup {None}]
    /\ tail \in [Turns -> Turns \cup {None}]
    /\ inFlight \in Nat
    /\ active \in [Connections -> Turns \cup {None}]
    /\ accepting \subseteq Turns
    /\ aborted \subseteq Turns
    /\ accepted \subseteq Turns
    /\ result \in [Turns -> {"none", "stop", "aborted", "error"}]
    /\ log \in [Sessions -> Seq(Turns)]
    /\ saw \in [Turns -> Seq(Turns)]
    /\ ahead \in [Turns -> SUBSET Turns]

\* A session runs one turn at a time: two turns between their start and
\* their settling never share a session (SessionOwner.enqueue).
MutualExclusion ==
    \A t, u \in Turns :
        /\ phase[t] \in Running
        /\ phase[u] \in Running
        /\ sess[t] = sess[u]
        => t = u

\* A session's turns run in the order they were admitted: a turn that has
\* started finds every turn that was on the session before it settled and
\* cleaned up, whatever their outcome.
ArrivalOrder ==
    \A t \in Turns : phase[t] \in Running =>
        \A u \in ahead[t] : phase[u] = "gone"

\* The registry holds exactly the sessions with a turn queued, running or
\* not yet cleaned up, and all of a session's turns share its one owner: no
\* turn is left on an owner that was dropped or replaced.
OneOwnerPerSession ==
    \A s \in Sessions :
        /\ owners[s] # None <=> OnSession(s) # {}
        /\ \A t \in OnSession(s) : home[t] = owners[s]

\* #inFlightTurns counts the turns on every session, so runtime/status and
\* the idle timer never see zero while a turn is queued or running.
InFlightCounted ==
    inFlight = Cardinality({t \in Turns : phase[t] \in InFlight})

\* The append-only log is never split: what a turn rebuilt its history from
\* is exactly the log up to its own first event, and its events follow one
\* another with no other turn's event between them.
LogNeverSplit ==
    \A t \in Turns :
        LET l == log[sess[t]]
            own == {i \in DOMAIN l : l[i] = t}
        IN  sess[t] # None /\ own # {} =>
                own = {i \in DOMAIN l :
                          Len(saw[t]) < i /\ i <= Len(saw[t]) + Cardinality(own)}

\* A client told that its turn is cancelled never sees the turn end as an
\* ordinary completion: the window closes in the step that takes the turn's
\* last look at the signal.
CancelHonored ==
    \A t \in accepted : result[t] # "stop"

\* Until a turn with a turn id concludes, its client's first cancel lands, while the turn
\* still waits for the session's lock too: the ticket is open and found
\* through the connection that sent the turn.
CancelReachesTurn ==
    \A t \in Identified \ accepted :
        phase[t] \in {"queued", "started", "resumed", "open"} =>
            t \in accepting /\ active[conn[t]] = t

\* Every admitted turn ends and is cleaned up, whichever of the turns before
\* it failed, and its connection can then send another.
EveryTurnEnds ==
    \A t \in Turns :
        phase[t] = "queued" ~> phase[t] = "gone" /\ active[conn[t]] # t

\* The registry does not keep sessions that have gone idle.
RegistryDrains ==
    \A s \in Sessions :
        owners[s] # None ~> owners[s] = None

-----------------------------------------------------------------------------
(* Refinement: the lock makes the sessions serial.                         *)

Holder(s) ==
    IF \E t \in Turns : phase[t] \in Running /\ sess[t] = s
    THEN CHOOSE t \in Turns : phase[t] \in Running /\ sess[t] = s
    ELSE None

Served == {t \in Turns : phase[t] \in Running \cup {"settled", "gone"}}

Serial == INSTANCE SerialSessions WITH
    holder <- [s \in Sessions |-> Holder(s)],
    served <- Served

\* The session owners implement the serial log: a turn reads and appends
\* only while it alone holds the session.
SerialSpec == Serial!Spec

=============================================================================
