---------------------------- MODULE MCLiveAgents ----------------------------
(* What must happen in agents, clients and tools, for TLC: small instances *)
(* with the fairness the code's scheduling gives.  A behaviour is of one   *)
(* part, named by `part`; the others rest in an initial state.             *)
EXTENDS AcpSessions, Integers

CONSTANTS t1, t2, k1, k2, r1, p1, p2, s1, c1

\* Each key is a session of its own.
OwnSession == [k \in {k1, k2} |-> k]
Sound == [top |-> TRUE, shape |-> "linked", inPlace |-> TRUE, pointsBack |-> TRUE,
          configWritable |-> FALSE, gitDirDenied |-> TRUE, includes |-> FALSE,
          worktreeConfig |-> FALSE, ref |-> "branch", head |-> "a"]

VARIABLES
    part,
    alive, broken, pc, sent, window, cancelled,
    stop, updates, count, budget, paused, req, trail, outcome, group, killed,
    mayExist, at, abort, route, asks, primary, close, unreached, up, lost,
    closed, gen, wire, chan, waiter, drained, resp, rt, n, kind, cur, mode,
    sending, cancelling, abandoned, replAsks, stage, key, held, line, verdict,
    sig, session, consent, approved, shown, announced, made, tk, tree, run,
    proc, call, passed, gateSaw, pushes, boundedTree, stubborn, stuck,
    boundedPc, step, probes, killer, frozen, writes, late, report, signals

promptVars == <<alive, broken, pc, sent, window, cancelled, stop, updates,
                count, budget, paused, req, trail, outcome>>
childVars == <<group, killed, mayExist, at, abort, route, asks, primary,
               close, unreached>>
replVars == <<up, lost, closed, gen, wire, chan, waiter, drained, resp, rt, n,
              kind, cur, mode, sending, cancelling, abandoned, replAsks,
              stage, key, held, line, verdict, sig, session, consent,
              approved, shown, announced>>
publishVars == <<made, tk, tree, run, proc, call, passed, gateSaw, pushes>>
boundedVars == <<boundedTree, stubborn, stuck, boundedPc, step, probes,
                 killer, frozen, writes, late, report, signals>>

Prompt == INSTANCE AcpPrompt WITH
    Requests <- {r1}, Prompts <- 2, Budget <- 1, MaxUpdates <- 1,
    MaxPermissions <- 1, Asked <- TRUE
Child == INSTANCE AcpChild WITH
    Leader <- p1, Helpers <- {p2}
Repl == INSTANCE ReplLink WITH
    Kinds <- {"turn", "friction", "read"}, MaxRequests <- 1, MaxConns <- 2,
    MaxFrames <- 1, Capacity <- 1, asks <- replAsks
Publish == INSTANCE PublishTickets WITH
    PublishSessions <- {s1}, Callers <- {c1}, MaxTickets <- 2,
    PerSession <- 1, Total <- 2, Worktrees <- {Sound},
    worktree <- tree, gateProc <- proc, pushCall <- call
Bounded == INSTANCE BoundedProcess WITH
    TreeProcs <- {p1, p2}, Leader <- p1, MaxProbes <- 1, MaxWrites <- 0,
    tree <- boundedTree, pc <- boundedPc

SuiteInit ==
    /\ part \in {"map", "prompt", "child", "repl", "publish", "bounded"}
    /\ Init
    /\ Prompt!Init
    /\ Child!ChildInit
    /\ Repl!Init
    /\ Publish!PublishInit
    /\ Bounded!BoundedInit
    /\ part # "child" => ~abort
    /\ part # "bounded" => stubborn = {} /\ stuck = {}

SuiteNext ==
    /\ UNCHANGED part
    /\ \/ /\ part = "map" /\ Next
          /\ UNCHANGED <<promptVars, childVars, replVars, publishVars, boundedVars>>
       \/ /\ part = "prompt" /\ Prompt!Next
          /\ UNCHANGED <<vars, childVars, replVars, publishVars, boundedVars>>
       \/ /\ part = "child" /\ Child!ChildNext
          /\ UNCHANGED <<vars, promptVars, replVars, publishVars, boundedVars>>
       \/ /\ part = "repl" /\ Repl!Next
          /\ UNCHANGED <<vars, promptVars, childVars, publishVars, boundedVars>>
       \/ /\ part = "publish" /\ Publish!PublishNext
          /\ UNCHANGED <<vars, promptVars, childVars, replVars, boundedVars>>
       \/ /\ part = "bounded" /\ Bounded!BoundedNext
          /\ UNCHANGED <<vars, promptVars, childVars, replVars, publishVars>>

SuiteVars == <<part, vars, promptVars, childVars, replVars, publishVars, boundedVars>>
SuiteFairness ==
    /\ \A t \in Turns : WF_vars(part = "map" /\ TurnMoves(t))
    /\ \A e \in Ids : WF_vars(part = "map" /\ OnBroken(e))
    /\ \A e \in Ids : WF_vars(part = "map" /\ CloseSettles(e))
    /\ \A e \in Ids : WF_vars(part = "map" /\ IdleTimeout(e))
    /\ WF_vars(part = "map" /\ ShutdownSettles)
    /\ WF_promptVars(part = "prompt" /\ Prompt!Fails)
    /\ WF_promptVars(part = "prompt" /\ Prompt!Tick)
    /\ WF_promptVars(part = "prompt" /\ Prompt!TimesOut)
    /\ WF_promptVars(part = "prompt" /\ Prompt!Settled)
    /\ WF_promptVars(part = "prompt" /\ Prompt!Return)
    /\ \A r \in {r1} : WF_promptVars(part = "prompt" /\ Prompt!Withdrawn(r))
    /\ \A r \in {r1} : WF_promptVars(part = "prompt" /\ Prompt!Revoked(r))
    /\ \A r \in {r1} : WF_promptVars(part = "prompt" /\ (Prompt!Recorded(r) \/ Prompt!Unrecorded(r)))
    /\ WF_childVars(part = "child" /\ Child!Spawn)
    /\ WF_childVars(part = "child" /\ Child!Initialize)
    /\ WF_childVars(part = "child" /\ Child!Authenticate)
    /\ WF_childVars(part = "child" /\ Child!Verify)
    /\ WF_childVars(part = "child" /\ Child!OpenSession)
    /\ WF_childVars(part = "child" /\ Child!CloseAsked)
    /\ WF_childVars(part = "child" /\ Child!Joined)
    /\ WF_childVars(part = "child" /\ Child!Probe)
    /\ WF_childVars(part = "child" /\ Child!Terminate)
    /\ WF_childVars(part = "child" /\ Child!Wait)
    /\ WF_childVars(part = "child" /\ Child!Kill)
    /\ WF_childVars(part = "child" /\ Child!Reap)
    /\ WF_childVars(part = "child" /\ Child!Reaped)
    /\ WF_replVars(part = "repl" /\ Repl!Dispatch)
    /\ WF_replVars(part = "repl" /\ Repl!ReaderCloses)
    /\ WF_replVars(part = "repl" /\ Repl!Drain)
    /\ WF_replVars(part = "repl" /\ Repl!Terminal)
    /\ WF_replVars(part = "repl" /\ Repl!Loop)
    /\ WF_replVars(part = "repl" /\ Repl!DrainAtPrompt)
    /\ WF_replVars(part = "repl" /\ (\E r \in 1..1 : r = rt.cmd /\ Repl!RtDone(r)))
    /\ \A i \in 1..2 : WF_publishVars(part = "publish" /\ Publish!RunStep(i))
    /\ WF_publishVars(part = "publish" /\ Publish!PushStep(c1))
    /\ WF_boundedVars(part = "bounded" /\ Bounded!Deadline)
    /\ WF_boundedVars(part = "bounded" /\ Bounded!BoundPassed)
    /\ WF_boundedVars(part = "bounded" /\ Bounded!CommandStep)

SuiteSpec == SuiteInit /\ [][SuiteNext]_SuiteVars /\ SuiteFairness

-----------------------------------------------------------------------------
(* Properties.                                                             *)

\* acp-session-map.ts, acp-client.ts, acp-child-io.ts, client.rs, link.rs,
\* publish-phase.ts and bounded-process.ts: once every turn has come, the warm
\* session map empties but for the sessions still being prompted; a prompt ends
\* unless an operator is being asked, who may take for ever, and a cancelled one
\* ends; starting an agent ends, and so does closing it; whoever
\* waits for an answer is failed when the connection ends, and its end is
\* noticed at the prompt; a ticket leaves the running phases, and a bounded
\* command's call returns, whatever its tree and /bin/kill do.
AgentsSettle ==
    /\ part = "map" => MapDrains
    /\ Prompt!PromptEnds /\ Prompt!CancelEndsPrompt
    /\ part = "child" => Child!StartSettles /\ Child!CloseSettles
    /\ Repl!CutShortSettles /\ Repl!DisconnectNoticed
    /\ Publish!RunSettles
    /\ part = "bounded" => Bounded!Returns
=============================================================================
