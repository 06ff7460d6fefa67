----------------------------- MODULE MCLiveTurns -----------------------------
(* What must happen in the runtime and in the scripts that run it, for TLC: *)
(* small instances with the fairness the code's scheduling gives.  A        *)
(* behaviour is of one part, named by `part`; the others rest in an initial *)
(* state.                                                                   *)
EXTENDS RuntimeLifetime, Integers

CONSTANTS t1, t2, s1, c1, c2, c3, u1, u2

\* The files an operator saves, as in MCScripts.
File(tree, ts, onWire, reachable, crate, lock) ==
    [tree |-> tree, noise |-> FALSE, target |-> FALSE, workspace |-> FALSE,
     replCrate |-> crate, excluded |-> FALSE, ts |-> ts, wire |-> onWire,
     reachable |-> reachable, lock |-> lock]
MCPaths == {File("src", TRUE, FALSE, TRUE, FALSE, FALSE),
            File("src", TRUE, TRUE, FALSE, FALSE, FALSE),
            File("core", FALSE, FALSE, FALSE, TRUE, FALSE),
            File("root", FALSE, FALSE, FALSE, FALSE, TRUE)}

VARIABLES
    part,
    phase, sess, conn, home, prev, owners, tail, inFlight, active, ownersAccepting,
    aborted, accepted, result, log, saw, ahead, link, inbound, asked,
    answered, cancels, reading, closed, wire, delivered, pending, nextId,
    promise, turn, ask, channelAborted, channelAccepting, ran, call, purpose, retryable, sent, stop, tools,
    text, screen, trail, error, loop, nextWork, toolSteps, todo, tool,
    allRepeats, denied, loopAborted, handoff, refused,
    gate, group, lead, exit, records, reused, strays, work, sup, devProc, repl,
    snap, past, up, child, held, scratchStop, disk, tries, down

ownersVars == <<phase, sess, conn, home, prev, owners, tail, inFlight, active,
                ownersAccepting, aborted, accepted, result, log, saw, ahead>>
channelVars == <<link, inbound, asked, answered, cancels, reading, closed,
                 wire, delivered, pending, nextId, promise, turn, ask,
                 channelAborted, channelAccepting, ran>>
loopVars == <<call, purpose, retryable, sent, stop, tools, text, screen,
              trail, error, loop, nextWork, toolSteps, todo, tool, allRepeats,
              denied, loopAborted, handoff, refused>>
gateVars == <<gate, group, lead, exit, records, reused, strays>>
devVars == <<work, sup, devProc, repl, snap, past>>
scratchVars == <<up, child, held, scratchStop, disk, tries, down>>
turnVars == <<ownersVars, channelVars, vars, loopVars>>
scriptVars == <<gateVars, devVars, scratchVars>>

Owners == INSTANCE SessionOwners WITH
    Turns <- {t1, t2}, Identified <- {}, Sessions <- {s1},
    Connections <- {c1, c2}, MaxEvents <- 1, accepting <- ownersAccepting
Channel == INSTANCE ApprovalChannel WITH
    MaxAsks <- 2, MaxCancels <- 1, MaxAnswers <- 1,
    aborted <- channelAborted, accepting <- channelAccepting
Loop == INSTANCE AgentLoop WITH
    MaxToolSteps <- 3, MaxCalls <- 2, aborted <- loopAborted
Gate == INSTANCE GateLanes WITH
    Gates <- {"g"}, Plans <- [g \in {"g"} |-> {"full", "docs-only"}],
    Faulty <- {"unit"}
Dev == INSTANCE DevLoop WITH
    Paths <- MCPaths, Metadata <- TRUE, MaxSaves <- 1, MaxCommands <- 1,
    proc <- devProc
Scratch == INSTANCE ScratchRuntime WITH MaxBinds <- 2, stop <- scratchStop

SuiteInit ==
    /\ part \in {"owners", "channel", "life", "loop", "gate", "dev", "scratch"}
    /\ Owners!Init
    /\ Channel!Init
    /\ Init
    /\ Loop!Init
    /\ Gate!Init
    /\ Dev!Init
    /\ Scratch!Init
    /\ part # "dev" => snap.st = "none"
    /\ part # "loop" => ~nextWork /\ ~retryable

SuiteNext ==
    /\ UNCHANGED part
    /\ \/ /\ part = "owners" /\ Owners!Next
          /\ UNCHANGED <<channelVars, vars, loopVars, scriptVars>>
       \/ /\ part = "channel" /\ Channel!Next
          /\ UNCHANGED <<ownersVars, vars, loopVars, scriptVars>>
       \/ /\ part = "life" /\ Next
          /\ UNCHANGED <<ownersVars, channelVars, loopVars, scriptVars>>
       \/ /\ part = "loop" /\ Loop!Next
          /\ UNCHANGED <<ownersVars, channelVars, vars, scriptVars>>
       \/ part = "gate" /\ Gate!Next /\ UNCHANGED <<turnVars, devVars, scratchVars>>
       \/ part = "dev" /\ Dev!Next /\ UNCHANGED <<turnVars, gateVars, scratchVars>>
       \/ part = "scratch" /\ Scratch!Next /\ UNCHANGED <<turnVars, gateVars, devVars>>

SuiteVars == <<part, turnVars, scriptVars>>
SuiteFairness ==
    /\ \A t \in {t1, t2} : WF_ownersVars(part = "owners" /\ Owners!RunTurn(t))
    /\ WF_channelVars(part = "channel" /\ Channel!PeerStep)
    /\ WF_channelVars(part = "channel" /\ Channel!TurnStep)
    /\ \A r \in Runtimes : WF_vars(part = "life" /\ Expire(r))
    /\ \A r \in Runtimes : WF_vars(part = "life" /\ Exit(r))
    /\ \A r \in Runtimes : WF_vars(part = "life" /\ RemoveSocket(r))
    /\ \A r \in Runtimes, c \in Clients :
           WF_vars(part = "life" /\ EndConnection(c, r))
    /\ \A r \in Runtimes, c \in Clients :
           WF_vars(part = "life" /\ AdmitClient(c, r))
    /\ WF_loopVars(part = "loop" /\ Loop!LoopStep)
    /\ \A x \in Gate!Groups : WF_gateVars(part = "gate" /\ Gate!LaneStep(x))
    /\ WF_devVars(part = "dev" /\ Dev!Timely)
    /\ WF_devVars(part = "dev" /\ Dev!Boots)
    /\ WF_devVars(part = "dev" /\ Dev!Debounced)
    /\ WF_devVars(part = "dev" /\ Dev!Polled)
    /\ WF_scratchVars(part = "scratch" /\ ~Scratch!Unanswered /\ Scratch!Boot)
    /\ WF_scratchVars(part = "scratch" /\ Scratch!TearDown)

SuiteSpec == SuiteInit /\ [][SuiteNext]_SuiteVars /\ SuiteFairness

-----------------------------------------------------------------------------
(* Properties.                                                             *)

\* session-owner.ts and agent-loop.ts: every admitted turn ends and is cleaned
\* up, whichever of the turns before it failed, and whatever the model asks
\* for, its loop ends.
EveryTurnEnds == Owners!EveryTurnEnds /\ (part = "loop" => Loop!LoopEnds)

\* jsonrpc-peer.ts: an approval that can no longer be answered settles, and a
\* raised signal ends the turn, whatever the client does.  The one exception: an
\* approval asked of a client that ended its sending side before and still reads
\* (settled(), "half-closes its side still gets the response") waits for ever
\* unless the turn is cancelled or the runtime stops.
EveryAskSettles == Channel!EveryAskSettles /\ Channel!CancelEndsTurn

\* lifetime.ts and scripts/: an autostarted runtime left without a client
\* stops, or a client connects; a lane whose gate was killed ends; the
\* development supervisor told to end does and takes each command, unless it
\* waits for cargo, which nothing times, or for a REPL that ignores SIGTERM; and
\* a scratch runtime told to stop stops, unless it waits for the answer of a
\* database or an engine that is alive and mute: no deadline ends those waits.
ProcessesEnd ==
    /\ part = "life" => IdleRuntimeStops
    /\ part = "gate" => Gate!OrphansEnd
    /\ part = "dev" => Dev!ShutdownEnds /\ Dev!CommandTaken
    /\ part = "scratch" => Scratch!StopsWhenTold
=============================================================================
