--------------------------- MODULE ProcessProofs ----------------------------
(***************************************************************************)
(* Proofs about the processes the runtime is, and the ones it starts:      *)
(* RuntimeLifetime for any number of runtimes, clients and shutdowns,      *)
(* BoundedProcess for any process tree, PublishTickets for any number of   *)
(* sessions, tickets, bounds, worktrees and racing calls of publish, and   *)
(* ToolCall for any number of calls, sessions, policies and supervisors.   *)
(*                                                                         *)
(* That a conditional or an idle stop cuts nobody off but its asker is not *)
(* inductive: between the decision and the exit other processes run.  What *)
(* carries it there is that admission ends in the step that decides, that  *)
(* a runtime decided to stop has no timer left to decide again, and that a *)
(* runtime stopped for its sole client keeps at most that one.             *)
(***************************************************************************)
EXTENDS RuntimeLifetime, BoundedProcess, PublishTickets, ToolCall, FiniteSetTheorems, TLAPS

Types ==
    /\ backlog \in [Runtimes -> SUBSET Clients]
    /\ peers \in [Runtimes -> SUBSET Clients]
    /\ why \in [Runtimes -> {"none", "idle", "sole", "full"}]
    /\ asker \in [Runtimes -> Clients \cup {None}]
    /\ proc \in [Runtimes -> Procs]

\* A runtime's connections are counted.
PeersFinite == \A r \in Runtimes : IsFiniteSet(peers[r])

\* A runtime that admits connections has not been stopped.
StoppedAdmitsNone ==
    /\ accepting \cap stopped = {}
    /\ \A r \in Runtimes : why[r] # "none" => r \in stopped

\* Before it is bound a runtime was stopped by nobody.
StoppedWasBound == \A r \in Runtimes :
    proc[r] \in {"off", "clearing", "binding"} => r \notin stopped

\* Whom a stopped runtime still serves.
StoppedServes == \A r \in Runtimes :
    /\ why[r] = "idle" => peers[r] = {}
    /\ why[r] = "sole" => peers[r] \subseteq {asker[r]}

LifeInv ==
    /\ Types /\ PeersFinite /\ StoppedAdmitsNone /\ StoppedWasBound /\ StoppedServes
    /\ ConditionalStopSparesOthers
-----------------------------------------------------------------------------
\* The check of soleClientRefusal: the one that asks is the only one there.
LEMMA SoleClient ==
  ASSUME NEW c, NEW S, IsFiniteSet(S), c \in S, ~(Cardinality(S) > 1)
  PROVE  S = {c}
  <1>1. Cardinality(S) \in Nat /\ Cardinality(S) # 0
    BY FS_CardinalityType, FS_EmptySet
  <1>2. Cardinality(S) = 1
    BY <1>1
  <1>3. PICK x : S = {x}
    BY <1>2, FS_Singleton
  <1> QED
    BY <1>3

\* A shutdown, whatever it is begun for, once it is known whom it serves.
LEMMA ShutdownInv ==
  ASSUME LifeInv, NEW r \in Runtimes, NEW reason \in {"idle", "sole", "full"},
         NEW all \in BOOLEAN, BeginShutdown(r, reason, all),
         asker' \in [Runtimes -> Clients \cup {None}],
         \A q \in Runtimes \ {r} : asker'[q] = asker[q],
         reason = "idle" => peers'[r] = {},
         reason = "sole" => peers'[r] \subseteq {asker'[r]},
         cut' = cut
  PROVE  LifeInv'
  <1>1. /\ proc[r] \in Up /\ proc' = [proc EXCEPT ![r] = "closing"]
        /\ accepting' = accepting \ {r} /\ stopped' = stopped \cup {r}
        /\ backlog' = [backlog EXCEPT ![r] = {}]
        /\ why' = [why EXCEPT ![r] = IF @ = "full" THEN @ ELSE reason]
        /\ peers' = IF all THEN [peers EXCEPT ![r] = {}] ELSE peers
    BY DEF BeginShutdown, StopAccepting
  <1>2. Types'
    BY <1>1 DEF LifeInv, Types, Procs, Up
  <1>3. PeersFinite'
    BY <1>1, FS_EmptySet DEF LifeInv, Types, PeersFinite
  <1>4. StoppedAdmitsNone' /\ StoppedWasBound'
    BY <1>1 DEF LifeInv, Types, StoppedAdmitsNone, StoppedWasBound
  <1>5. \A q \in Runtimes \ {r} : why'[q] = why[q] /\ peers'[q] = peers[q]
    BY <1>1 DEF LifeInv, Types
  <1>6. why'[r] \in {"full", reason}
    BY <1>1 DEF LifeInv, Types
  <1>7. StoppedServes'
    <2> SUFFICES ASSUME NEW q \in Runtimes
                 PROVE  /\ why'[q] = "idle" => peers'[q] = {}
                        /\ why'[q] = "sole" => peers'[q] \subseteq {asker'[q]}
      BY DEF StoppedServes
    <2>1. CASE q = r
      BY <1>6, <2>1
    <2>2. CASE q # r
      BY <1>5, <2>2 DEF LifeInv, StoppedServes
    <2> QED
      BY <2>1, <2>2
  <1>8. ConditionalStopSparesOthers'
    BY DEF LifeInv, ConditionalStopSparesOthers
  <1> QED
    BY <1>2, <1>3, <1>4, <1>7, <1>8 DEF LifeInv

\* Steps that leave who is served and who is stopped as they are.
LEMMA QuietInv ==
  ASSUME LifeInv,
         proc' \in [Runtimes -> Procs],
         \A q \in Runtimes : proc'[q] \in {"off", "clearing", "binding"} =>
                                 proc[q] \in {"off", "clearing", "binding"},
         accepting' \subseteq accepting, backlog' \in [Runtimes -> SUBSET Clients],
         peers' \in [Runtimes -> SUBSET Clients],
         \A q \in Runtimes : peers'[q] \subseteq peers[q],
         UNCHANGED <<stopped, why, asker>>, cut' = {}
  PROVE  LifeInv'
  <1>1. Types' /\ ConditionalStopSparesOthers'
    BY DEF LifeInv, Types, ConditionalStopSparesOthers
  <1>2. PeersFinite'
    <2> SUFFICES ASSUME NEW q \in Runtimes PROVE IsFiniteSet(peers'[q])
      BY DEF PeersFinite
    <2>1. IsFiniteSet(peers[q]) /\ peers'[q] \in SUBSET peers[q]
      BY DEF LifeInv, PeersFinite
    <2> QED
      BY <2>1, FS_Subset
  <1>3. StoppedAdmitsNone' /\ StoppedWasBound'
    BY DEF LifeInv, StoppedAdmitsNone, StoppedWasBound
  <1>4. StoppedServes'
    BY DEF LifeInv, StoppedServes
  <1> QED
    BY <1>1, <1>2, <1>3, <1>4 DEF LifeInv
\* The end of a process: by then a conditional or an idle stop has nobody
\* left to cut off but its asker.
LEMMA ExitInv ==
  ASSUME LifeInv, NEW r \in Runtimes, Exit(r) \/ Crash(r)
  PROVE  LifeInv'
  <1>1. cut = {} /\ (why[r] \in {"idle", "sole"} => peers[r] \ {asker[r]} = {})
    BY DEF LifeInv, ConditionalStopSparesOthers, StoppedServes
  <1>2. cut' = {} /\ Die(r)
    BY <1>1 DEF Exit, Crash
  <1>3. /\ proc' \in [Runtimes -> Procs] /\ accepting' \subseteq accepting
        /\ backlog' \in [Runtimes -> SUBSET Clients] /\ peers' \in [Runtimes -> SUBSET Clients]
    BY <1>2 DEF Die, LifeInv, Types, Procs
  <1>4. \A q \in Runtimes :
            /\ peers'[q] \subseteq peers[q]
            /\ proc'[q] \in {"off", "clearing", "binding"} => proc[q] = proc'[q]
    BY <1>2 DEF Die, LifeInv, Types
  <1>5. UNCHANGED <<stopped, why, asker>>
    BY <1>2 DEF Die
  <1> QED
    BY <1>2, <1>3, <1>4, <1>5, QuietInv

\* A runtime that binds the socket was stopped by nobody.
LEMMA BindInv ==
  ASSUME LifeInv, NEW r \in Runtimes, Bind(r)
  PROVE  LifeInv'
  <1>1. /\ proc[r] = "binding" /\ proc' \in [Runtimes -> Procs]
        /\ proc'[r] \in {"serving", "dead"} /\ \A q \in Runtimes \ {r} : proc'[q] = proc[q]
        /\ accepting' \subseteq accepting \cup {r}
        /\ UNCHANGED <<backlog, peers, stopped, why, asker, cut>>
    BY DEF Bind, stopVars, LifeInv, Types, Procs, Up
  <1>2. Types' /\ PeersFinite' /\ ConditionalStopSparesOthers' /\ StoppedServes'
    BY <1>1 DEF LifeInv, Types, PeersFinite, ConditionalStopSparesOthers, StoppedServes
  <1>3. StoppedWasBound'
    BY <1>1 DEF LifeInv, StoppedWasBound
  <1>4. StoppedAdmitsNone'
    BY <1>1 DEF LifeInv, StoppedAdmitsNone, StoppedWasBound
  <1> QED
    BY <1>2, <1>3, <1>4 DEF LifeInv

\* A client is admitted by a runtime that has not been stopped.
LEMMA AdmitInv ==
  ASSUME LifeInv, NEW r \in Runtimes, NEW c \in Clients, AdmitClient(c, r)
  PROVE  LifeInv'
  <1>1. /\ r \in accepting /\ peers' = [peers EXCEPT ![r] = @ \cup {c}]
        /\ backlog' = [backlog EXCEPT ![r] = @ \ {c}]
        /\ UNCHANGED <<proc, accepting, stopped, why, asker, cut>>
    BY DEF AdmitClient, stopVars
  <1>2. why[r] = "none"
    BY <1>1 DEF LifeInv, StoppedAdmitsNone
  <1>3. Types' /\ ConditionalStopSparesOthers' /\ StoppedWasBound' /\ StoppedAdmitsNone'
    BY <1>1 DEF LifeInv, Types, ConditionalStopSparesOthers, StoppedWasBound, StoppedAdmitsNone
  <1>4. PeersFinite'
    <2> SUFFICES ASSUME NEW q \in Runtimes PROVE IsFiniteSet(peers'[q])
      BY DEF PeersFinite
    <2>1. IsFiniteSet(peers[q]) /\ peers'[q] \in {peers[q], peers[q] \cup {c}}
      BY <1>1 DEF LifeInv, Types, PeersFinite
    <2> QED
      BY <2>1, FS_AddElement
  <1>5. StoppedServes'
    BY <1>1, <1>2 DEF LifeInv, Types, StoppedServes
  <1> QED
    BY <1>3, <1>4, <1>5 DEF LifeInv

LEMMA LifeNext == LifeInv /\ [Next]_vars => LifeInv'
  <1> SUFFICES ASSUME LifeInv, [Next]_vars PROVE LifeInv'
    OBVIOUS
  <1>0. cut = {}
    BY DEF LifeInv, ConditionalStopSparesOthers
  <1>1. ASSUME NEW r \in Runtimes, Probe(r) \/ ClearStale(r) PROVE LifeInv'
    <2>1. /\ proc' \in [Runtimes -> Procs] /\ UNCHANGED <<accepting, backlog, peers, stopped,
                                                          why, asker, cut>>
          /\ \A q \in Runtimes : proc'[q] \in {"off", "clearing", "binding"} =>
                                     proc[q] \in {"off", "clearing", "binding"}
      BY <1>1 DEF Probe, ClearStale, lifeVars, stopVars, LifeInv, Types, Procs
    <2> QED
      BY <1>0, <2>1, QuietInv DEF LifeInv, Types
  <1>2. ASSUME NEW r \in Runtimes, Expire(r) PROVE LifeInv'
    <2>1. CASE peers[r] # {} \/ InFlightTurns(r) # {}
      <3>1. UNCHANGED <<proc, accepting, backlog, peers, stopped, why, asker, cut>>
        BY <1>2, <2>1 DEF Expire, stopVars
      <3> QED
        BY <1>0, <3>1, QuietInv DEF LifeInv, Types
    <2>2. CASE ~(peers[r] # {} \/ InFlightTurns(r) # {})
      <3>1. BeginShutdown(r, "idle", TRUE) /\ UNCHANGED <<asker, cut>>
        BY <1>2, <2>2 DEF Expire
      <3>2. peers'[r] = {}
        BY <3>1 DEF BeginShutdown, LifeInv, Types
      <3> QED
        BY <3>1, <3>2, ShutdownInv DEF LifeInv, Types
    <2> QED
      BY <2>1, <2>2
  <1>3. ASSUME NEW r \in Runtimes, RemoveSocket(r) PROVE LifeInv'
    <2>1. UNCHANGED <<proc, accepting, backlog, peers, stopped, why, asker, cut>>
      BY <1>3 DEF RemoveSocket, lifeVars
    <2> QED
      BY <1>0, <2>1, QuietInv DEF LifeInv, Types
  <1>4. ASSUME NEW r \in Runtimes, Interrupt(r) PROVE LifeInv'
    <2>1. BeginShutdown(r, "full", TRUE) /\ UNCHANGED <<asker, cut>>
      BY <1>4 DEF Interrupt
    <2> QED
      BY <2>1, ShutdownInv DEF LifeInv, Types
  <1>5. ASSUME NEW c \in Clients, NEW r \in Runtimes,
               \/ StartTurn(c, r) \/ Connect(c, r) \/ ClientLeaves(c, r)
               \/ EndConnection(c, r)
        PROVE  LifeInv'
    <2>1. /\ UNCHANGED <<proc, accepting, stopped, why, asker, cut>>
          /\ backlog' \in [Runtimes -> SUBSET Clients]
          /\ peers' \in [Runtimes -> SUBSET Clients]
          /\ \A q \in Runtimes : peers'[q] \subseteq peers[q]
      BY <1>5 DEF StartTurn, Connect, ClientLeaves, EndConnection, lifeVars, stopVars,
                  LifeInv, Types
    <2> QED
      BY <1>0, <2>1, QuietInv DEF LifeInv, Types
  <1>6. ASSUME NEW c \in Clients, NEW r \in Runtimes, StopRuntime(c, r) PROVE LifeInv'
    <2>1. BeginShutdown(r, "full", FALSE) /\ UNCHANGED <<asker, cut>>
      BY <1>6 DEF StopRuntime
    <2> QED
      BY <2>1, ShutdownInv DEF LifeInv, Types
  <1>7. ASSUME NEW c \in Clients, NEW r \in Runtimes, StopIfSoleClient(c, r) PROVE LifeInv'
    <2>1. /\ BeginShutdown(r, "sole", FALSE) /\ cut' = cut
          /\ asker' = [asker EXCEPT ![r] = c] /\ c \in peers[r]
          /\ ~(Cardinality(peers[r]) > 1)
      BY <1>7 DEF StopIfSoleClient, SoleClientRefusal
    <2>2. peers[r] = {c}
      <3>1. IsFiniteSet(peers[r])
        BY DEF LifeInv, PeersFinite
      <3> QED
        BY <2>1, <3>1, SoleClient
    <2>3. peers'[r] = {c}
      BY <2>1, <2>2 DEF BeginShutdown
    <2>4. /\ asker' \in [Runtimes -> Clients \cup {None}] /\ asker'[r] = c
          /\ \A q \in Runtimes \ {r} : asker'[q] = asker[q]
      BY <2>1 DEF LifeInv, Types
    <2> QED
      BY <2>1, <2>3, <2>4, ShutdownInv
  <1>8. CASE UNCHANGED vars
    <2>1. UNCHANGED <<proc, accepting, backlog, peers, stopped, why, asker, cut>>
      BY <1>8 DEF vars, lifeVars, stopVars
    <2> QED
      BY <1>0, <2>1, QuietInv DEF LifeInv, Types
  <1>9. ASSUME NEW c \in Clients, FinishTurn(c) PROVE LifeInv'
    <2>1. UNCHANGED <<proc, accepting, backlog, peers, stopped, why, asker, cut>>
      BY <1>9 DEF FinishTurn, lifeVars, stopVars
    <2> QED
      BY <1>0, <2>1, QuietInv DEF LifeInv, Types
  <1> QED
    BY <1>1, <1>2, <1>3, <1>4, <1>5, <1>6, <1>7, <1>8, <1>9, ExitInv, BindInv, AdmitInv
    DEF Next, RuntimeStep

\* server/lifetime.ts, server/rpc/runtime.ts: an idle stop cuts no client off
\* and a conditional stop none but the client that asked for it, however many
\* runtimes share the path and whoever connects before the process exits.
THEOREM StopSpares == Spec => []ConditionalStopSparesOthers
  <1>1. Init => LifeInv
    <2> SUFFICES ASSUME Init PROVE LifeInv
      OBVIOUS
    <2>1. Types /\ StoppedAdmitsNone /\ StoppedWasBound /\ StoppedServes
          /\ ConditionalStopSparesOthers
      BY DEF Init, Types, Procs, StoppedAdmitsNone, StoppedWasBound, StoppedServes,
             ConditionalStopSparesOthers
    <2>2. PeersFinite
      BY FS_EmptySet DEF Init, PeersFinite
    <2> QED
      BY <2>1, <2>2 DEF LifeInv
  <1>2. LifeInv /\ [Next]_vars => LifeInv'
    BY LifeNext
  <1>3. LifeInv => ConditionalStopSparesOthers
    BY DEF LifeInv
  <1> QED
    BY <1>1, <1>2, <1>3, PTL DEF Spec

-----------------------------------------------------------------------------
(* A bounded command, whatever its tree does.                              *)

Processes == [life : {"unborn", "alive", "dead"}, group : BOOLEAN, pipe : BOOLEAN]
Reports == [group : {"none", "stopped", "survived", "unavailable"},
            exited : BOOLEAN, outputClosed : BOOLEAN, timedOut : BOOLEAN]

\* Once the stop has reported nothing of it is left that could signal, and it
\* does not report again.
StopIsOver == report.group # "none" => /\ killer = "none"
                                       /\ pc \in {"killing", "draining", "returned"}

\* Pipes said to be closed stay closed.
ClosedMeansClosed == report.outputClosed => Holders = {}

BoundedInv ==
    /\ tree \in [TreeProcs -> Processes] /\ report \in Reports
    /\ StopIsOver /\ StoppedMeansEmpty /\ ClosedMeansClosed /\ NothingLate

\* A step that brings no process into the group or to the pipes keeps what
\* was reported of them.
LEMMA TreeShrinks ==
  ASSUME BoundedInv, tree' \in [TreeProcs -> Processes],
         \A p \in Members' : Members # {}, \A p \in Holders' : Holders # {},
         UNCHANGED <<report, late, killer, pc>>
  PROVE  BoundedInv'
  BY DEF BoundedInv, StopIsOver, StoppedMeansEmpty, SaysGroupStopped, ClosedMeansClosed,
         NothingLate

\* The stop reports: it had not before.
LEMMA ReportInv ==
  ASSUME BoundedInv, NEW group \in {"stopped", "survived", "unavailable"}, StopEnds(group),
         report.group = "none", group = "stopped" => Members = {}
  PROVE  BoundedInv'
  <1>1. /\ report' = [report EXCEPT !.group = group, !.timedOut = TRUE]
        /\ killer' = "none" /\ pc' = "killing" /\ UNCHANGED <<tree, late>>
    BY DEF StopEnds, StopEndsAs, output
  <1>2. /\ report' \in Reports /\ report'.group = group
        /\ report'.outputClosed = report.outputClosed
    BY <1>1 DEF BoundedInv, Reports
  <1>3. Members' = Members /\ Holders' = Holders
    BY <1>1 DEF Members, Holders, Alive
  <1> QED
    BY <1>1, <1>2, <1>3 DEF BoundedInv, StopIsOver, StoppedMeansEmpty, SaysGroupStopped,
       ClosedMeansClosed, NothingLate

LEMMA BoundedStep == BoundedInv /\ [BoundedNext]_boundedVars => BoundedInv'
  <1> SUFFICES ASSUME BoundedInv, [BoundedNext]_boundedVars PROVE BoundedInv'
    OBVIOUS
  <1>1. ASSUME NEW p \in TreeProcs, NEW q \in TreeProcs, Fork(p, q) PROVE BoundedInv'
    <2>1. /\ Alive(p) /\ tree' = [tree EXCEPT ![q] = tree[p]]
          /\ UNCHANGED <<report, late, killer, pc>>
      BY <1>1 DEF Fork, output
    <2>2. tree' \in [TreeProcs -> Processes]
      BY <2>1 DEF BoundedInv
    <2>3. (Members = {} => Members' = {}) /\ (Holders = {} => Holders' = {})
      BY <2>1 DEF BoundedInv, Members, Holders, Alive
    <2> QED
      BY <2>1, <2>2, <2>3, TreeShrinks
  <1>2. ASSUME NEW p \in TreeProcs, LeaveGroup(p) \/ CloseOutput(p) \/ ProcessExits(p)
        PROVE  BoundedInv'
    <2>1. /\ Alive(p) /\ UNCHANGED <<report, late, killer, pc>>
          /\ \/ tree' = [tree EXCEPT ![p].group = FALSE]
             \/ tree' = [tree EXCEPT ![p].pipe = FALSE]
             \/ tree' = [tree EXCEPT ![p].life = "dead"]
      BY <1>2 DEF LeaveGroup, CloseOutput, ProcessExits, output
    <2>2. tree' \in [TreeProcs -> Processes]
      BY <2>1 DEF BoundedInv, Processes
    <2>3. Members' \subseteq Members /\ Holders' \subseteq Holders
      BY <2>1 DEF BoundedInv, Processes, Members, Holders, Alive
    <2> QED
      BY <2>1, <2>2, <2>3, TreeShrinks
  <1>3. ASSUME NEW p \in TreeProcs, Write(p) PROVE BoundedInv'
    <2>1. UNCHANGED <<tree, report, killer, pc>> /\ ~late'
      BY <1>3 DEF Write, WriteAs, BoundedInv, NothingLate
    <2>2. Members' = Members /\ Holders' = Holders
      BY <2>1 DEF Members, Holders, Alive
    <2> QED
      BY <2>1, <2>2 DEF BoundedInv, StopIsOver, StoppedMeansEmpty, SaysGroupStopped,
         ClosedMeansClosed, NothingLate
  <1>4. CASE Delivered
    <2>1. /\ killer # "none" /\ killer' = "none" /\ UNCHANGED <<report, late, pc>>
          /\ tree' = [p \in TreeProcs |-> IF p \in Struck(killer)
                                          THEN [tree[p] EXCEPT !.life = "dead"] ELSE tree[p]]
      BY <1>4 DEF Delivered, output
    <2>2. tree' \in [TreeProcs -> Processes]
      BY <2>1 DEF BoundedInv, Processes
    <2>3. Members' \subseteq Members /\ Holders' \subseteq Holders
      BY <2>1 DEF BoundedInv, Processes, Members, Holders, Alive
    <2> QED
      BY <2>1, <2>2, <2>3 DEF BoundedInv, StopIsOver, StoppedMeansEmpty, SaysGroupStopped,
         ClosedMeansClosed, NothingLate
  <1>5. CASE Gone \/ Unavailable \/ SettleOver \/ BoundPassed
    <2>1. report.group = "none"
      BY <1>5 DEF Gone, Unavailable, SettleOver, BoundPassed, BoundedInv, StopIsOver
    <2>2. PICK group \in {"stopped", "survived", "unavailable"} :
             StopEnds(group) /\ (group = "stopped" => Members = {})
      BY <1>5 DEF Gone, Unavailable, SettleOver, BoundPassed
    <2> QED
      BY <2>1, <2>2, ReportInv
  <1>6. CASE SendTerm \/ SendProbe \/ SendKill \/ Failed \/ GraceOver \/ Deadline
    <2>1. report.group = "none" /\ UNCHANGED <<tree, report, late>>
      BY <1>6 DEF SendTerm, SendProbe, SendKill, Failed, GraceOver, Deadline, output,
         BoundedInv, StopIsOver
    <2>2. Members' = Members /\ Holders' = Holders
      BY <2>1 DEF Members, Holders, Alive
    <2> QED
      BY <2>1, <2>2 DEF BoundedInv, StopIsOver, StoppedMeansEmpty, SaysGroupStopped,
         ClosedMeansClosed, NothingLate
  <1>7. CASE Finish
    <2>1. UNCHANGED <<tree, report, late, killer>> /\ pc' = "returned"
      BY <1>7 DEF Finish, output
    <2>2. Members' = Members /\ Holders' = Holders
      BY <2>1 DEF Members, Holders, Alive
    <2> QED
      BY <2>1, <2>2 DEF BoundedInv, StopIsOver, StoppedMeansEmpty, SaysGroupStopped,
         ClosedMeansClosed, NothingLate
  <1>8. CASE KillChild
    <2>1. /\ tree' \in {tree, [tree EXCEPT ![Leader].life = "dead"]}
          /\ report' = [report EXCEPT !.exited = ~(tree'[Leader].life = "alive")]
          /\ pc' = "draining" /\ UNCHANGED <<late, killer>>
      BY <1>8 DEF KillChild, output
    <2>2. tree' \in [TreeProcs -> Processes]
      BY <2>1 DEF BoundedInv, Processes
    <2>3. Members' \subseteq Members /\ Holders' \subseteq Holders
      BY <2>1 DEF BoundedInv, Processes, Members, Holders, Alive
    <2>4. report' \in Reports /\ report'.group = report.group
          /\ report'.outputClosed = report.outputClosed
      BY <2>1 DEF BoundedInv, Reports
    <2> QED
      BY <2>1, <2>2, <2>3, <2>4 DEF BoundedInv, StopIsOver, StoppedMeansEmpty,
         SaysGroupStopped, ClosedMeansClosed, NothingLate
  <1>9. CASE Drain
    <2>1. /\ report' = [report EXCEPT !.outputClosed = OutputClosed]
          /\ pc' = "returned" /\ UNCHANGED <<tree, late, killer>>
      BY <1>9 DEF Drain, DrainAs, output
    <2>2. Members' = Members /\ Holders' = Holders
      BY <2>1 DEF Members, Holders, Alive
    <2>3. report' \in Reports /\ report'.group = report.group
          /\ report'.outputClosed = (Holders = {})
      BY <2>1 DEF BoundedInv, Reports, OutputClosed
    <2> QED
      BY <2>1, <2>2, <2>3 DEF BoundedInv, StopIsOver, StoppedMeansEmpty, SaysGroupStopped,
         ClosedMeansClosed, NothingLate
  <1>10. CASE UNCHANGED boundedVars
    <2>1. UNCHANGED <<tree, report, late, killer, pc>>
      BY <1>10 DEF boundedVars
    <2>2. Members' = Members /\ Holders' = Holders
      BY <2>1 DEF Members, Holders, Alive
    <2> QED
      BY <2>1, <2>2, TreeShrinks DEF BoundedInv
  <1> QED
    BY <1>1, <1>2, <1>3, <1>4, <1>5, <1>6, <1>7, <1>8, <1>9, <1>10
    DEF BoundedNext, TreeStep, StopStep, CommandStep

\* The command has just been started.
LEMMA BoundedStarts == BoundedInit => BoundedInv
  <1> SUFFICES ASSUME BoundedInit PROVE BoundedInv
    OBVIOUS
  <1>1. /\ tree = [p \in TreeProcs |-> IF p = Leader THEN Born ELSE Unborn]
        /\ report = NoReport /\ late = FALSE
    BY DEF BoundedInit
  <1>2. tree \in [TreeProcs -> Processes]
    BY <1>1 DEF Processes, Born, Unborn
  <1>3. report \in Reports /\ report.group = "none" /\ ~report.outputClosed
    BY <1>1 DEF Reports, NoReport
  <1> QED
    BY <1>1, <1>2, <1>3 DEF BoundedInv, StopIsOver, StoppedMeansEmpty, SaysGroupStopped,
       ClosedMeansClosed, NothingLate

\* bounded-process.ts: a group reported stopped is empty and stays so, a
\* timeout reported without a qualification leaves no process that could
\* write into the result or be reached through the group, and nothing written
\* after the deadline is shown, for any tree of processes, however it forks,
\* leaves the group or ignores signals, and however often /bin/kill fails.
THEOREM StopReportIsTrue == BoundedSpec => []StopReportTrue
  <1>1. BoundedInv => StopReportTrue
    <2> SUFFICES ASSUME BoundedInv PROVE UnqualifiedIsClean
      BY DEF BoundedInv, StopReportTrue
    <2> QED
      BY DEF BoundedInv, UnqualifiedIsClean, Unqualified, SaysGroupStopped,
         SaysNothingHeldOpen, StoppedMeansEmpty, ClosedMeansClosed, Members, Holders
  <1> QED
    BY <1>1, BoundedStarts, BoundedStep, PTL DEF BoundedSpec

\* bounded-process.ts: once the stop has reported, no run of /bin/kill of its
\* own is left to signal the group's number, which may be another's by then.
THEOREM SignalsEndWithTheStop == BoundedSpec => NoSignalAfterReport
  <1>1. BoundedInv /\ [BoundedNext]_boundedVars
            => [report.group # "none" => signals' = signals]_boundedVars
    <2> SUFFICES ASSUME BoundedInv, BoundedNext, report.group # "none"
                 PROVE  signals' = signals
      BY DEF boundedVars
    <2>1. killer = "none" /\ pc \in {"killing", "draining", "returned"}
      BY DEF BoundedInv, StopIsOver
    <2>2. CASE TreeStep \/ CommandStep \/ Deadline
      BY <2>2 DEF TreeStep, CommandStep, Fork, LeaveGroup, CloseOutput, Write, WriteAs,
         ProcessExits, Finish, KillChild, Drain, DrainAs, Deadline
    <2>3. CASE StopStep \/ BoundPassed
      BY <2>1, <2>3 DEF StopStep, SendTerm, SendProbe, SendKill, Delivered, Gone, Failed,
         Unavailable, GraceOver, SettleOver, BoundPassed
    <2> QED
      BY <2>2, <2>3 DEF BoundedNext
  <1> QED
    BY <1>1, BoundedStarts, BoundedStep, PTL DEF BoundedSpec, NoSignalAfterReport

-----------------------------------------------------------------------------
(* Publishing.  Every step looks at some tickets, which may expire or drop *)
(* them, and acts on at most one; so the invariant is one of each ticket   *)
(* with its run, and of the calls that hold a claim.                       *)

Shipped == {"ready", "pushing", "pushed", "pr-open"}
BothGates == {"pre-gate", "gate"}
Phases == Running \cup Shipped \cup {Unset, "failed", "expired"}
Layouts == {Unreadable} \cup {[ref |-> w.ref, head |-> w.head] : w \in Worktrees}
Results == {Unset, "ok", "failed", "cancelled"}
Reasons == Results \cup {"outlived", "moved", "not started", "errored", "no report", "push",
                         "open_pr"}
Tickets == [held : BOOLEAN, session : PublishSessions \cup {Unset}, phase : Phases,
            pin : Layouts, old : BOOLEAN, hook : BOOLEAN, claim : BOOLEAN, reason : Reasons]
GateRuns == [at : {"idle", "read", "start", "wait", "append", "judge", "reread", "verdict", "done"},
             phase : BothGates, seen : Layouts, result : Results, wrote : BOOLEAN]
PushCalls == [at : {"idle", "check", "recheck", "push", "pushing", "claim", "opening"},
          t : Nat, seen : Layouts]

\* What is known of one ticket r, its run u and the run's command g, when the
\* gates P have exited 0 and the branch was pushed n times: a run carries the
\* verdicts that its next steps stand for, a command has a run that waits for
\* it, and a ticket that could still be pushed has not been.
TicketOK(r, u, g, P, n) ==
    /\ r \in Tickets /\ u \in GateRuns /\ g \in {Unset, "running", "stopping"}
    /\ P \in SUBSET BothGates /\ n \in {0, 1}
    /\ ~r.held => r = Absent
    /\ r.phase \in Shipped => P = BothGates
    /\ u.phase = "gate" => "pre-gate" \in P
    /\ u.at \in {"reread", "verdict"} => u.phase \in P
    /\ u.at \in {"append", "judge"} /\ u.result = "ok" => u.phase \in P
    /\ g # Unset => u.at = "wait"
    /\ g = "running" => r.hook /\ r.phase = ActivePhase(u.phase)
    /\ r.phase \in Running \cup {"ready"} => n = 0
    /\ r.claim => r.phase = "pushed"

Opening(c, i) == pushCall[c].at = "opening" /\ pushCall[c].t = i

\* A number that is not given out yet names nothing.
UnmadeUnused == \A i \in Ids : i > made =>
    tk[i] = Absent /\ run[i] = NoRun /\ gateProc[i] = Unset /\ pushes[i] = 0

CallsKnown ==
    /\ pushCall \in [Callers -> PushCalls]
    /\ \A c \in Callers : pushCall[c].at # "idle" => pushCall[c].t \in Ids /\ pushCall[c].t <= made

\* The claim on a ticket is held by exactly one call, the one that opens.
ClaimsHeld ==
    /\ \A i \in Ids : tk[i].held => (tk[i].claim <=> \E c \in Callers : Opening(c, i))
    /\ \A c, d \in Callers :
           pushCall[c].at = "opening" /\ pushCall[d].at = "opening" /\ pushCall[c].t = pushCall[d].t
               => c = d

PublishTypes ==
    /\ made \in Nat /\ worktree \in Worktrees
    /\ tk \in [Ids -> Tickets] /\ run \in [Ids -> GateRuns]
    /\ gateProc \in [Ids -> {Unset, "running", "stopping"}]
    /\ passed \in [Ids -> SUBSET BothGates] /\ pushes \in [Ids -> {0, 1}]

PublishInv ==
    /\ PublishTypes
    /\ \A i \in Ids : TicketOK(tk[i], run[i], gateProc[i], passed[i], pushes[i])
    /\ UnmadeUnused /\ CallsKnown /\ ClaimsHeld

\* What a look at the registry may make of a ticket.
LookedAt(r, f) ==
    \/ f = r \/ f = Absent
    \/ Outlived(r) /\ f = [r EXCEPT !.phase = "expired", !.hook = FALSE, !.reason = "outlived"]

\* What becomes of a ticket's command g when its hook is run on the way from r to f.
StoppedOne(r, f, g) == IF r.hook /\ ~f.hook /\ g = "running" THEN "stopping" ELSE g

\* A dead ticket that is still held is dead.
Follows(r, f) == r.phase \in {"failed", "expired"} /\ f.held => f.phase \in {r.phase, "expired"}

LEMMA AbsentTyped == Absent \in Tickets /\ ~Absent.held /\ ~Absent.claim /\ ~Absent.hook
                     /\ Absent.phase = Unset
  BY DEF Absent, Tickets, Phases, Layouts, Reasons, Results, Unset

LEMMA LookTyped ==
  ASSUME NEW r \in Tickets, NEW f, LookedAt(r, f)
  PROVE  /\ f \in Tickets /\ Follows(r, f) /\ (r = Absent => f = Absent)
         /\ f = Absent \/ (f.held = r.held /\ f.claim = r.claim)
  <1>1. CASE f = r
    BY <1>1 DEF Follows
  <1>2. CASE f = Absent
    BY <1>2, AbsentTyped DEF Follows
  <1>3. CASE Outlived(r) /\ f = [r EXCEPT !.phase = "expired", !.hook = FALSE, !.reason = "outlived"]
    <2>1. f \in Tickets /\ f.phase = "expired" /\ f.held = r.held /\ f.claim = r.claim
      BY <1>3 DEF Tickets, Phases, Reasons
    <2>2. r # Absent
      BY <1>3, AbsentTyped DEF Outlived
    <2> QED
      BY <2>1, <2>2 DEF Follows
  <1> QED
    BY <1>1, <1>2, <1>3 DEF LookedAt

LEMMA LookTwice ==
  ASSUME NEW r \in Tickets, NEW f, NEW h, LookedAt(r, f), LookedAt(f, h)
  PROVE  LookedAt(r, h)
  <1>1. CASE f = r
    BY <1>1
  <1>2. CASE f = Absent
    BY <1>2, AbsentTyped DEF LookedAt, Outlived
  <1>3. CASE Outlived(r) /\ f = [r EXCEPT !.phase = "expired", !.hook = FALSE, !.reason = "outlived"]
    <2>1. f.phase = "expired"
      BY <1>3 DEF Tickets
    <2>2. ~Outlived(f)
      BY <2>1 DEF Outlived
    <2> QED
      BY <1>3, <2>2 DEF LookedAt
  <1> QED
    BY <1>1, <1>2, <1>3 DEF LookedAt

\* A look keeps what is known of a ticket: what loses its hook is stopped.
LEMMA LookKeeps ==
  ASSUME NEW r, NEW u, NEW g, NEW P, NEW n, TicketOK(r, u, g, P, n), NEW f, LookedAt(r, f)
  PROVE  TicketOK(f, u, StoppedOne(r, f, g), P, n)
  <1>1. CASE f = r
    BY <1>1 DEF StoppedOne, TicketOK
  <1>2. CASE f = Absent
    <2>1. StoppedOne(r, f, g) \in {Unset, "running", "stopping"} /\ (StoppedOne(r, f, g) # Unset => u.at = "wait")
          /\ StoppedOne(r, f, g) # "running"
      BY <1>2, AbsentTyped DEF TicketOK, StoppedOne, Tickets, Unset
    <2>2. f.phase \notin Shipped /\ f.phase \notin Running \cup {"ready"}
      BY <1>2, AbsentTyped DEF Shipped, Running, Unset
    <2> QED
      BY <1>2, <2>1, <2>2, AbsentTyped DEF TicketOK
  <1>3. CASE Outlived(r) /\ f = [r EXCEPT !.phase = "expired", !.hook = FALSE, !.reason = "outlived"]
    <2>1. f \in Tickets /\ f.phase = "expired" /\ f.held = r.held /\ f.claim = r.claim /\ ~f.hook
      BY <1>3 DEF TicketOK, Tickets, Phases, Reasons
    <2>2. StoppedOne(r, f, g) \in {Unset, "running", "stopping"} /\ (StoppedOne(r, f, g) # Unset => u.at = "wait")
          /\ StoppedOne(r, f, g) # "running"
      BY <2>1 DEF TicketOK, StoppedOne, Unset, Tickets
    <2>3. r.held /\ ~r.claim
      BY <1>3 DEF Outlived, TicketOK
    <2> QED
      BY <2>1, <2>2, <2>3 DEF TicketOK, Shipped, Running
  <1> QED
    BY <1>1, <1>2, <1>3 DEF LookedAt

LEMMA ExpireLooks ==
  ASSUME NEW f \in [Ids -> Tickets], NEW ss
  PROVE  /\ ExpireIn(f, ss) \in [Ids -> Tickets]
         /\ \A j \in Ids : LookedAt(f[j], ExpireIn(f, ss)[j])
  <1>1. \A j \in Ids : LookedAt(f[j], ExpireIn(f, ss)[j])
    BY DEF ExpireIn, LookedAt
  <1>2. \A j \in Ids : ExpireIn(f, ss)[j] \in Tickets
    BY <1>1, LookTyped
  <1>3. ExpireIn(f, ss) = [j \in Ids |-> ExpireIn(f, ss)[j]]
    BY DEF ExpireIn
  <1> QED
    BY <1>1, <1>2, <1>3

LEMMA SweptLooks ==
  ASSUME NEW f \in [Ids -> Tickets]
  PROVE  /\ Swept(f) \in [Ids -> Tickets]
         /\ \A j \in Ids : LookedAt(f[j], Swept(f)[j])
  BY AbsentTyped DEF Swept, LookedAt

LEMMA DropLooks ==
  ASSUME NEW f \in [Ids -> Tickets], NEW ii, NEW max
  PROVE  /\ DropDown(f, ii, max) \in [Ids -> Tickets]
         /\ \A j \in Ids : LookedAt(f[j], DropDown(f, ii, max)[j])
  <1>1. PICK o : o = Oldest(ii)
    OBVIOUS
  <1>2. DropDown(f, ii, max) \in {f, [f EXCEPT ![o] = Absent]}
    BY <1>1 DEF DropDown
  <1> QED
    BY <1>2, AbsentTyped DEF LookedAt

\* create: the new ticket is the session's, and every other one is looked at.
Fresh(s, layout) == [Absent EXCEPT !.held = TRUE, !.session = s, !.phase = "pre-gate", !.pin = layout]

LEMMA CreatedLooks ==
  ASSUME NEW i \in Ids, NEW s \in PublishSessions, NEW layout \in Layouts,
         tk \in [Ids -> Tickets]
  PROVE  /\ Created(i, s, layout) \in [Ids -> Tickets]
         /\ Fresh(s, layout) \in Tickets
         /\ LookedAt(Fresh(s, layout), Created(i, s, layout)[i])
         /\ \A j \in Ids \ {i} : LookedAt(tk[j], Created(i, s, layout)[j])
  <1>1. Fresh(s, layout) \in Tickets
    BY DEF Fresh, Absent, Tickets, Phases, Running, Reasons, Results, Unset
  <1>2. PICK f0 \in [Ids -> Tickets] :
           f0 = ExpireIn(tk, {s}) /\ \A j \in Ids : LookedAt(tk[j], f0[j])
    BY ExpireLooks
  <1>3. PICK f1 \in [Ids -> Tickets] : f1 = [f0 EXCEPT ![i] = Fresh(s, layout)]
    BY <1>1
  <1>4. PICK f2 \in [Ids -> Tickets] :
           f2 = DropDown(f1, Of(f1, s), PerSession) /\ \A j \in Ids : LookedAt(f1[j], f2[j])
    BY DropLooks
  <1>5. PICK f4 \in [Ids -> Tickets] :
           f4 = ExpireIn(f2, PublishSessions) /\ \A j \in Ids : LookedAt(f2[j], f4[j])
    BY ExpireLooks
  <1>6. PICK f3 \in [Ids -> Tickets] :
           f3 = Swept(f4) /\ \A j \in Ids : LookedAt(f4[j], f3[j])
    BY SweptLooks
  <1>7. PICK f5 \in [Ids -> Tickets] :
           f5 = DropDown(f3, Held(f3), Total) /\ \A j \in Ids : LookedAt(f3[j], f5[j])
    BY DropLooks
  <1>8. Created(i, s, layout) = f5
    BY <1>2, <1>3, <1>4, <1>5, <1>6, <1>7 DEF Created, Fresh
  <1>9. \A j \in Ids : LookedAt(f1[j], f5[j])
    <2> SUFFICES ASSUME NEW j \in Ids PROVE LookedAt(f1[j], f5[j])
      OBVIOUS
    <2>1. LookedAt(f1[j], f4[j])
      BY <1>4, <1>5, LookTwice
    <2>2. LookedAt(f1[j], f3[j])
      BY <1>6, <2>1, LookTwice
    <2> QED
      BY <1>7, <2>2, LookTwice
  <1>10. \A j \in Ids \ {i} : LookedAt(tk[j], f5[j])
    <2> SUFFICES ASSUME NEW j \in Ids \ {i} PROVE LookedAt(tk[j], f5[j])
      OBVIOUS
    <2>1. f1[j] = f0[j]
      BY <1>3
    <2> QED
      BY <1>2, <1>9, <2>1, LookTwice
  <1>11. f1[i] = Fresh(s, layout)
    BY <1>3
  <1> QED
    BY <1>1, <1>8, <1>9, <1>10, <1>11

\* The command of a ticket that was looked at.
LEMMA StoppedIs ==
  ASSUME PublishTypes, NEW f \in [Ids -> Tickets], NEW g, g = Stopped(gateProc, HooksRun(f))
  PROVE  /\ g \in [Ids -> {Unset, "running", "stopping"}]
         /\ \A j \in Ids : g[j] = StoppedOne(tk[j], f[j], gateProc[j])
  BY DEF PublishTypes, Stopped, HooksRun, StoppedOne

\* A ticket that a step only looks at.
LEMMA OtherTicket ==
  ASSUME PublishInv, NEW j \in Ids, LookedAt(tk[j], tk'[j]), run'[j] = run[j],
         gateProc'[j] = StoppedOne(tk[j], tk'[j], gateProc[j]),
         passed'[j] = passed[j], pushes'[j] = pushes[j]
  PROVE  /\ TicketOK(tk'[j], run'[j], gateProc'[j], passed'[j], pushes'[j])
         /\ Follows(tk[j], tk'[j])
         /\ j > made => /\ tk'[j] = Absent /\ run'[j] = NoRun /\ gateProc'[j] = Unset
                        /\ pushes'[j] = 0
  <1>1. TicketOK(tk[j], run[j], gateProc[j], passed[j], pushes[j]) /\ tk[j] \in Tickets
    BY DEF PublishInv, PublishTypes
  <1>2. TicketOK(tk'[j], run'[j], gateProc'[j], passed'[j], pushes'[j])
    BY <1>1, LookKeeps
  <1>3. Follows(tk[j], tk'[j]) /\ (tk[j] = Absent => tk'[j] = Absent)
    BY <1>1, LookTyped
  <1>4. gateProc[j] = Unset => gateProc'[j] = Unset
    BY DEF StoppedOne, Unset
  <1> QED
    BY <1>2, <1>3, <1>4 DEF PublishInv, UnmadeUnused

\* A step that looks at tickets and acts on the ones in S.
LEMMA ActsOn ==
  ASSUME PublishInv, NEW S \in SUBSET Ids,
         \A j \in Ids \ S : /\ LookedAt(tk[j], tk'[j]) /\ run'[j] = run[j]
                            /\ gateProc'[j] = StoppedOne(tk[j], tk'[j], gateProc[j])
                            /\ passed'[j] = passed[j] /\ pushes'[j] = pushes[j],
         \A i \in S : /\ TicketOK(tk'[i], run'[i], gateProc'[i], passed'[i], pushes'[i])
                      /\ Follows(tk[i], tk'[i]) /\ i <= made,
         PublishTypes', made' = made, CallsKnown', ClaimsHeld'
  PROVE  PublishInv' /\ \A j \in Ids : Follows(tk[j], tk'[j])
  <1>1. \A j \in Ids : /\ TicketOK(tk'[j], run'[j], gateProc'[j], passed'[j], pushes'[j])
                       /\ Follows(tk[j], tk'[j])
    BY OtherTicket
  <1>2. UnmadeUnused'
    <2> SUFFICES ASSUME NEW j \in Ids, j > made
                 PROVE  /\ tk'[j] = Absent /\ run'[j] = NoRun /\ gateProc'[j] = Unset
                        /\ pushes'[j] = 0
      BY DEF UnmadeUnused
    <2>1. j \notin S
      BY TicketsBounded DEF PublishInv, PublishTypes, Ids
    <2> QED
      BY <2>1, OtherTicket
  <1> QED
    BY <1>1, <1>2 DEF PublishInv

\* Calls that do not take, or give up, a claim.
LEMMA ClaimsFollow ==
  ASSUME PublishInv,
         \A j \in Ids : tk'[j].held => tk[j].held /\ tk'[j].claim = tk[j].claim,
         \A c \in Callers : pushCall[c].at = "opening" \/ pushCall'[c].at = "opening"
                                => pushCall'[c] = pushCall[c]
  PROVE  ClaimsHeld'
  BY DEF PublishInv, ClaimsHeld, Opening

\* What a look makes of the registry keeps the claims.
LEMMA LookClaims ==
  ASSUME PublishInv, NEW j \in Ids, LookedAt(tk[j], tk'[j])
  PROVE  tk'[j].held => tk[j].held /\ tk'[j].claim = tk[j].claim
  BY LookTyped, AbsentTyped DEF PublishInv, PublishTypes
-----------------------------------------------------------------------------
(* What each step of a run does to what is known of its ticket.            *)

\* A run that is not waiting for its command moves on without a verdict.
LEMMA RunMoves ==
  ASSUME NEW r, NEW u, NEW g, NEW P, NEW n, TicketOK(r, u, g, P, n), u.at # "wait",
         NEW v \in GateRuns, v.phase = u.phase, v.at \notin {"append", "judge"},
         v.at = "verdict" => u.at = "reread", v.at = "reread" => u.phase \in P
  PROVE  TicketOK(r, v, g, P, n)
  BY DEF TicketOK

\* A run gives up: markFailed.
LEMMA RunFails ==
  ASSUME NEW r, NEW u, NEW g, NEW P, NEW n, TicketOK(r, u, g, P, n), u.at # "wait",
         NEW v \in GateRuns, v.phase = u.phase, v.at = "done", NEW said \in Reasons,
         NEW h, h = IF r.phase \in Running
                    THEN [r EXCEPT !.phase = "failed", !.hook = FALSE, !.reason = said] ELSE r
  PROVE  TicketOK(h, v, g, P, n)
  <1>1. TicketOK(r, v, g, P, n) /\ g = Unset /\ r \in Tickets
    BY RunMoves DEF TicketOK
  <1>2. CASE r.phase \in Running
    <2>1. /\ h \in Tickets /\ h.phase = "failed" /\ h.held = r.held /\ h.claim = r.claim
      BY <1>1, <1>2 DEF Tickets, Phases
    <2>2. r.held /\ ~r.claim
      BY <1>2, AbsentTyped DEF TicketOK, Running, Unset
    <2> QED
      BY <1>1, <2>1, <2>2 DEF TicketOK, Shipped, Running, Unset
  <1> QED
    BY <1>1, <1>2

\* The command is started, and the ticket has its hook.
LEMMA RunStarts ==
  ASSUME NEW r, NEW u, NEW g, NEW P, NEW n, TicketOK(r, u, g, P, n), u.at = "start",
         r.phase = ActivePhase(u.phase), NEW v \in GateRuns, v.phase = u.phase, v.at = "wait",
         NEW h, h = [r EXCEPT !.hook = TRUE]
  PROVE  TicketOK(h, v, "running", P, n)
  <1>1. h \in Tickets /\ h.phase = r.phase /\ h.held = r.held /\ h.claim = r.claim /\ h.hook
    BY DEF TicketOK, Tickets
  <1>2. r.held
    BY AbsentTyped DEF TicketOK, ActivePhase, Unset
  <1> QED
    BY <1>1, <1>2 DEF TicketOK

\* The command ends: what exited 0 has passed.
LEMMA CommandPasses ==
  ASSUME NEW r, NEW u, NEW g, NEW P, NEW n, TicketOK(r, u, g, P, n), u.at = "wait",
         NEW v \in GateRuns, v.phase = u.phase, v.at = "append",
         NEW Q, Q = IF v.result = "ok" THEN P \cup {u.phase} ELSE P
  PROVE  TicketOK(r, v, Unset, Q, n)
  <1>1. Q \in SUBSET BothGates /\ P \subseteq Q
    BY DEF TicketOK, GateRuns
  <1>2. r.phase \in Shipped => Q = BothGates
    BY <1>1 DEF TicketOK
  <1> QED
    BY <1>1, <1>2 DEF TicketOK, Unset

\* The verdict is written down.
LEMMA VerdictReported ==
  ASSUME NEW r, NEW u, NEW g, NEW P, NEW n, TicketOK(r, u, g, P, n), u.at = "append",
         NEW v \in GateRuns, v.phase = u.phase, v.at = "judge", v.result = u.result
  PROVE  TicketOK(r, v, g, P, n)
  BY DEF TicketOK

\* markGated, markReady: what has passed is one gate more, and ready is both.
LEMMA VerdictGiven ==
  ASSUME NEW r, NEW u, NEW g, NEW P, NEW n, TicketOK(r, u, g, P, n), u.at = "verdict",
         r.phase = ActivePhase(u.phase), NEW h \in Tickets, h.held = r.held, h.claim = r.claim,
         h.phase = IF u.phase = "pre-gate" THEN "gated" ELSE "ready",
         NEW v \in GateRuns, v.phase = "gate", v.at \in {"read", "done"}
  PROVE  TicketOK(h, v, g, P, n)
  <1>1. r \in Tickets /\ u \in GateRuns /\ g = Unset /\ r.held /\ ~r.claim /\ n = 0
    BY AbsentTyped DEF TicketOK, ActivePhase, Unset, Running
  <1>3. P \in SUBSET BothGates /\ u.phase \in P /\ (u.phase = "gate" => "pre-gate" \in P)
        /\ u.phase \in BothGates
    BY <1>1 DEF TicketOK, GateRuns
  <1>4. h.phase = "ready" => P = BothGates
    BY <1>3 DEF BothGates
  <1>5. "pre-gate" \in P
    BY <1>3 DEF BothGates
  <1> QED
    BY <1>1, <1>3, <1>4, <1>5 DEF TicketOK, Shipped, Unset
-----------------------------------------------------------------------------
(* The steps.                                                              *)

StepKept == PublishInv' /\ \A j \in Ids : Follows(tk[j], tk'[j])

\* The calls are known, and no claim is taken or given up.
CallsQuiet ==
    /\ CallsKnown'
    /\ \A c \in Callers : pushCall[c].at = "opening" \/ pushCall'[c].at = "opening"
                              => pushCall'[c] = pushCall[c]

LEMMA SameCalls ==
  ASSUME PublishInv, UNCHANGED <<made, pushCall>>
  PROVE  CallsQuiet
  BY DEF PublishInv, CallsQuiet, CallsKnown

\* A step that only looks.
LEMMA LookStep ==
  ASSUME PublishInv, NEW f \in [Ids -> Tickets], \A j \in Ids : LookedAt(tk[j], f[j]),
         tk' = f, gateProc' = Stopped(gateProc, HooksRun(f)),
         UNCHANGED <<made, worktree, run, passed, pushes>>, CallsQuiet
  PROVE  StepKept
  <1>1. /\ gateProc' \in [Ids -> {Unset, "running", "stopping"}]
        /\ \A j \in Ids : gateProc'[j] = StoppedOne(tk[j], f[j], gateProc[j])
    BY StoppedIs DEF PublishInv
  <1>2. PublishTypes'
    BY <1>1 DEF PublishInv, PublishTypes
  <1>3. ClaimsHeld'
    BY LookClaims, ClaimsFollow DEF CallsQuiet
  <1>4. \A j \in Ids : /\ TicketOK(tk'[j], run'[j], gateProc'[j], passed'[j], pushes'[j])
                       /\ Follows(tk[j], tk'[j])
                       /\ j > made => /\ tk'[j] = Absent /\ run'[j] = NoRun
                                      /\ gateProc'[j] = Unset /\ pushes'[j] = 0
    BY <1>1, OtherTicket
  <1> QED
    BY <1>2, <1>3, <1>4 DEF CallsQuiet, StepKept, PublishInv, UnmadeUnused

\* The other tickets are looked at, at most.
Aside(i) ==
    \A j \in Ids \ {i} : /\ LookedAt(tk[j], tk'[j]) /\ run'[j] = run[j]
                         /\ gateProc'[j] = StoppedOne(tk[j], tk'[j], gateProc[j])
                         /\ passed'[j] = passed[j] /\ pushes'[j] = pushes[j]

\* A step that acts on one ticket.
LEMMA OneStep ==
  ASSUME PublishInv, NEW i \in Ids, i <= made, Aside(i), PublishTypes',
         TicketOK(tk'[i], run'[i], gateProc'[i], passed'[i], pushes'[i]),
         Follows(tk[i], tk'[i]), tk'[i].held => tk[i].held /\ tk'[i].claim = tk[i].claim,
         made' = made, CallsQuiet
  PROVE  StepKept
  <1>1. \A j \in Ids : tk'[j].held => tk[j].held /\ tk'[j].claim = tk[j].claim
    BY LookClaims DEF Aside
  <1>2. ClaimsHeld'
    BY <1>1, ClaimsFollow DEF CallsQuiet
  <1>3. {i} \in SUBSET Ids
    OBVIOUS
  <1>4. \A k \in {i} : /\ TicketOK(tk'[k], run'[k], gateProc'[k], passed'[k], pushes'[k])
                       /\ Follows(tk[k], tk'[k]) /\ k <= made
    OBVIOUS
  <1> QED
    BY <1>2, <1>3, <1>4, ActsOn DEF Aside, CallsQuiet, StepKept

\* A registry that nobody looked at.
LEMMA Unseen ==
  ASSUME PublishInv
  PROVE  /\ tk \in [Ids -> Tickets] /\ \A j \in Ids : LookedAt(tk[j], tk[j])
         /\ gateProc \in [Ids -> {Unset, "running", "stopping"}]
         /\ \A j \in Ids : gateProc[j] = StoppedOne(tk[j], tk[j], gateProc[j])
  BY DEF PublishInv, PublishTypes, LookedAt, StoppedOne

\* A ticket with its session's others looked at: what is known of it then.
LEMMA LiveIs ==
  ASSUME PublishInv, NEW i \in Ids
  PROVE  /\ Live(i) \in [Ids -> Tickets] /\ \A j \in Ids : LookedAt(tk[j], Live(i)[j])
         /\ TicketOK(Live(i)[i], run[i], StoppedOne(tk[i], Live(i)[i], gateProc[i]),
                     passed[i], pushes[i])
         /\ Follows(tk[i], Live(i)[i])
         /\ Live(i)[i].held => tk[i].held /\ Live(i)[i].claim = tk[i].claim
         /\ Live(i)[i].phase \in {"pushing", "pushed", "pr-open", "failed"} \cup Running \cup {"ready"}
              => Live(i)[i] = tk[i]
  <1>1. Live(i) \in [Ids -> Tickets] /\ \A j \in Ids : LookedAt(tk[j], Live(i)[j])
    BY ExpireLooks DEF PublishInv, PublishTypes, Live
  <1>2. TicketOK(tk[i], run[i], gateProc[i], passed[i], pushes[i]) /\ tk[i] \in Tickets
    BY DEF PublishInv, PublishTypes
  <1>3. LookedAt(tk[i], Live(i)[i])
    BY <1>1
  <1>4. TicketOK(Live(i)[i], run[i], StoppedOne(tk[i], Live(i)[i], gateProc[i]), passed[i], pushes[i])
    BY <1>2, <1>3, LookKeeps
  <1>5. Follows(tk[i], Live(i)[i]) /\ (Live(i)[i].held => tk[i].held /\ Live(i)[i].claim = tk[i].claim)
    BY <1>2, <1>3, LookTyped, AbsentTyped
  <1>6. Live(i)[i].phase \in {"pushing", "pushed", "pr-open", "failed"} \cup Running \cup {"ready"}
          => Live(i)[i] = tk[i]
    <2>1. Absent.phase = Unset
      BY AbsentTyped
    <2>2. [tk[i] EXCEPT !.phase = "expired", !.hook = FALSE, !.reason = "outlived"].phase = "expired"
      BY <1>2 DEF Tickets
    <2> QED
      BY <1>3, <2>1, <2>2 DEF LookedAt, Running, Unset
  <1> QED
    BY <1>1, <1>4, <1>5, <1>6

\* Whatever has begun is of a ticket that was made.
LEMMA BegunWasMade ==
  ASSUME PublishInv, NEW i \in Ids, tk[i].held \/ run[i].at # "idle"
  PROVE  i <= made
  BY AbsentTyped, TicketsBounded DEF PublishInv, PublishTypes, UnmadeUnused, NoRun, Ids

\* A run's step that does not touch the ticket.
LEMMA RunOnly ==
  ASSUME PublishInv, NEW i \in Ids, run[i].at # "idle", NEW v, run' = [run EXCEPT ![i] = v],
         TicketOK(tk[i], v, gateProc[i], passed[i], pushes[i]),
         UNCHANGED <<made, tk, worktree, gateProc, pushCall, passed, pushes>>
  PROVE  StepKept
  <1>1. i <= made /\ CallsQuiet
    BY BegunWasMade, SameCalls
  <1>2. run' \in [Ids -> GateRuns] /\ run'[i] = v /\ \A j \in Ids \ {i} : run'[j] = run[j]
    BY DEF PublishInv, PublishTypes, TicketOK
  <1>3. PublishTypes' /\ Aside(i)
    BY <1>2, Unseen DEF PublishInv, PublishTypes, Aside
  <1> QED
    BY <1>1, <1>2, <1>3, OneStep DEF Follows

\* A run's step that looks at its ticket, and moves on.
LEMMA LookAndMove ==
  ASSUME PublishInv, NEW i \in Ids, run[i].at \notin {"idle", "wait"}, NEW v \in GateRuns,
         run' = [run EXCEPT ![i] = v], v.phase = run[i].phase, v.at \notin {"append", "judge"},
         v.at = "verdict" => run[i].at = "reread", v.at = "reread" => run[i].phase \in passed[i],
         Look(i), UNCHANGED <<made, worktree, pushCall, passed, pushes>>
  PROVE  StepKept
  <1>1. PICK f \in [Ids -> Tickets] : f = Live(i)
    BY LiveIs
  <1>2. /\ TicketOK(f[i], run[i], StoppedOne(tk[i], f[i], gateProc[i]), passed[i], pushes[i])
        /\ Follows(tk[i], f[i]) /\ (f[i].held => tk[i].held /\ f[i].claim = tk[i].claim)
        /\ \A j \in Ids : LookedAt(tk[j], f[j])
    BY <1>1, LiveIs
  <1>3. TicketOK(f[i], v, StoppedOne(tk[i], f[i], gateProc[i]), passed[i], pushes[i])
    BY <1>2, RunMoves
  <1>4. tk' = f /\ gateProc' = Stopped(gateProc, HooksRun(f))
    BY <1>1 DEF Look
  <1>5. /\ gateProc' \in [Ids -> {Unset, "running", "stopping"}]
        /\ \A j \in Ids : gateProc'[j] = StoppedOne(tk[j], f[j], gateProc[j])
    BY <1>4, StoppedIs DEF PublishInv
  <1>6. i <= made /\ CallsQuiet
    BY BegunWasMade, SameCalls
  <1>7. run' \in [Ids -> GateRuns] /\ run'[i] = v /\ \A j \in Ids \ {i} : run'[j] = run[j]
    BY DEF PublishInv, PublishTypes
  <1>8. PublishTypes' /\ Aside(i)
    BY <1>2, <1>4, <1>5, <1>7 DEF PublishInv, PublishTypes, Aside
  <1> QED
    BY <1>2, <1>3, <1>4, <1>5, <1>6, <1>7, <1>8, OneStep

\* A run's step that fails its ticket.
LEMMA FailStep ==
  ASSUME PublishInv, NEW i \in Ids, run[i].at \notin {"idle", "wait"}, NEW said \in Reasons,
         Fail(i, said)
  PROVE  StepKept
  <1>1. PICK f \in [Ids -> Tickets] : f = Live(i)
    BY LiveIs
  <1>2. /\ TicketOK(f[i], run[i], StoppedOne(tk[i], f[i], gateProc[i]), passed[i], pushes[i])
        /\ Follows(tk[i], f[i]) /\ (f[i].held => tk[i].held /\ f[i].claim = tk[i].claim)
        /\ \A j \in Ids : LookedAt(tk[j], f[j])
        /\ f[i].phase \in Running => f[i] = tk[i]
    BY <1>1, LiveIs
  <1>3. PICK h : h = IF f[i].phase \in Running
                     THEN [f[i] EXCEPT !.phase = "failed", !.hook = FALSE, !.reason = said]
                     ELSE f[i]
    OBVIOUS
  <1>4. PICK v : v = [run[i] EXCEPT !.at = "done"]
    OBVIOUS
  <1>5. v \in GateRuns /\ v.phase = run[i].phase /\ v.at = "done"
    BY <1>4 DEF PublishInv, PublishTypes, GateRuns
  <1>6. gateProc[i] = Unset /\ StoppedOne(tk[i], f[i], gateProc[i]) = Unset
    BY DEF PublishInv, TicketOK, StoppedOne, Unset
  <1>7. TicketOK(h, v, Unset, passed[i], pushes[i])
    <2>1. TicketOK(f[i], run[i], Unset, passed[i], pushes[i])
      BY <1>2, <1>6
    <2> QED
      BY <1>3, <1>5, <2>1, RunFails
  <1>8. tk' = [f EXCEPT ![i] = h]
    <2>1. tk' = FailedIn(f, i, said)
      BY <1>1 DEF Fail
    <2>2. CASE f[i].phase \in Running
      BY <1>3, <2>1, <2>2 DEF FailedIn
    <2>3. CASE f[i].phase \notin Running
      BY <1>3, <2>1, <2>3 DEF FailedIn
    <2> QED
      BY <2>2, <2>3
  <1>9. h \in Tickets /\ Follows(tk[i], h) /\ (h.held => tk[i].held /\ h.claim = tk[i].claim)
    <2>1. CASE f[i].phase \in Running
      <3>1. h \in Tickets /\ h.held = f[i].held /\ h.claim = f[i].claim
        BY <1>3, <1>7, <2>1 DEF Tickets, TicketOK
      <3>2. tk[i].phase \in Running
        BY <1>2, <2>1
      <3> QED
        BY <1>2, <3>1, <3>2 DEF Follows, Running
    <2>2. CASE f[i].phase \notin Running
      BY <1>2, <1>3, <2>2
    <2> QED
      BY <2>1, <2>2
  <1>10. /\ gateProc' \in [Ids -> {Unset, "running", "stopping"}] /\ gateProc'[i] = Unset
         /\ \A j \in Ids \ {i} : gateProc'[j] = StoppedOne(tk[j], f[j], gateProc[j])
    <2>1. gateProc' = Stopped(gateProc, HooksRun(tk') \ {i})
      BY DEF Fail
    <2>2. \A j \in Ids \ {i} : tk'[j] = f[j]
      BY <1>8
    <2> QED
      BY <1>6, <2>1, <2>2 DEF Stopped, HooksRun, StoppedOne, PublishInv, PublishTypes
  <1>11. /\ run' = [run EXCEPT ![i] = v] /\ UNCHANGED <<made, worktree, pushCall, passed, pushes>>
    BY <1>4 DEF Fail, PublishInv, PublishTypes
  <1>12. i <= made /\ CallsQuiet
    BY <1>11, BegunWasMade, SameCalls
  <1>13. run' \in [Ids -> GateRuns] /\ run'[i] = v /\ \A j \in Ids \ {i} : run'[j] = run[j]
    BY <1>5, <1>11 DEF PublishInv, PublishTypes
  <1>14. tk' \in [Ids -> Tickets] /\ tk'[i] = h /\ \A j \in Ids \ {i} : tk'[j] = f[j]
    BY <1>8, <1>9
  <1>15. PublishTypes' /\ Aside(i)
    BY <1>2, <1>10, <1>11, <1>13, <1>14 DEF PublishInv, PublishTypes, Aside
  <1> QED
    BY <1>7, <1>9, <1>10, <1>11, <1>12, <1>13, <1>14, <1>15, OneStep

LEMMA ReadLayoutTyped == ASSUME PublishTypes PROVE ReadLayout(worktree) \in Layouts
  BY DEF PublishTypes, ReadLayout, Layouts

LEMMA ReadStep ==
  ASSUME PublishInv, NEW i \in Ids, Read(i)
  PROVE  StepKept
  <1>1. PICK w : w = IF run[i].at = "read" THEN "start" ELSE "verdict"
    OBVIOUS
  <1>2. PICK v : v = [run[i] EXCEPT !.seen = ReadLayout(worktree), !.at = w]
    OBVIOUS
  <1>3. /\ run[i].at \in {"read", "reread"}
        /\ UNCHANGED <<made, tk, worktree, gateProc, pushCall, passed, pushes>>
    BY DEF Read
  <1>4. run[i] \in GateRuns /\ ReadLayout(worktree) \in Layouts
    BY ReadLayoutTyped DEF PublishInv, PublishTypes
  <1>5. v \in GateRuns /\ v.phase = run[i].phase /\ v.at = w
    BY <1>1, <1>2, <1>4 DEF GateRuns
  <1>6. run' = [run EXCEPT ![i] = v]
    BY <1>1, <1>2, <1>4 DEF Read, PublishInv, PublishTypes
  <1>7. TicketOK(tk[i], run[i], gateProc[i], passed[i], pushes[i])
    BY DEF PublishInv
  <1>8. TicketOK(tk[i], v, gateProc[i], passed[i], pushes[i])
    BY <1>1, <1>3, <1>5, <1>7, RunMoves
  <1> QED
    BY <1>3, <1>6, <1>8, RunOnly

\* Where a run stops: its phase stays, and it asks nothing more.
LEMMA DoneIs ==
  ASSUME PublishInv, NEW i \in Ids, NEW w \in {"done", "reread"}
  PROVE  /\ [run[i] EXCEPT !.at = w] \in GateRuns
         /\ [run[i] EXCEPT !.at = w].phase = run[i].phase /\ [run[i] EXCEPT !.at = w].at = w
         /\ [run EXCEPT ![i].at = w] = [run EXCEPT ![i] = [run[i] EXCEPT !.at = w]]
  BY DEF PublishInv, PublishTypes, GateRuns

LEMMA StopQuietly ==
  ASSUME PublishInv, NEW i \in Ids, run[i].at \notin {"idle", "wait"},
         run' = [run EXCEPT ![i].at = "done"],
         UNCHANGED <<made, tk, worktree, gateProc, pushCall, passed, pushes>>
  PROVE  StepKept
  <1>1. PICK v : v = [run[i] EXCEPT !.at = "done"]
    OBVIOUS
  <1>2. v \in GateRuns /\ v.phase = run[i].phase /\ v.at = "done" /\ run' = [run EXCEPT ![i] = v]
    BY <1>1, DoneIs
  <1>3. TicketOK(tk[i], run[i], gateProc[i], passed[i], pushes[i])
    BY DEF PublishInv
  <1>4. TicketOK(tk[i], v, gateProc[i], passed[i], pushes[i])
    BY <1>2, <1>3, RunMoves
  <1> QED
    BY <1>2, <1>4, RunOnly

LEMMA StopLooking ==
  ASSUME PublishInv, NEW i \in Ids, run[i].at \notin {"idle", "wait"},
         NEW w \in {"done", "reread"}, w = "reread" => run[i].phase \in passed[i],
         run' = [run EXCEPT ![i].at = w], Look(i),
         UNCHANGED <<made, worktree, pushCall, passed, pushes>>
  PROVE  StepKept
  <1>1. PICK v : v = [run[i] EXCEPT !.at = w]
    OBVIOUS
  <1>2. v \in GateRuns /\ v.phase = run[i].phase /\ v.at = w /\ run' = [run EXCEPT ![i] = v]
    BY <1>1, DoneIs
  <1> QED
    BY <1>2, LookAndMove

\* The command is started in the step that looks at the ticket last.
LEMMA CommandStarts ==
  ASSUME PublishInv, NEW i \in Ids, run[i].at = "start",
         Live(i)[i].phase = ActivePhase(run[i].phase),
         tk' = [Live(i) EXCEPT ![i].hook = TRUE],
         gateProc' = [Stopped(gateProc, HooksRun(Live(i))) EXCEPT ![i] = "running"],
         run' = [run EXCEPT ![i].at = "wait"],
         UNCHANGED <<made, worktree, pushCall, passed, pushes>>
  PROVE  StepKept
  <1>1. PICK f \in [Ids -> Tickets] : f = Live(i)
    BY LiveIs
  <1>2. /\ TicketOK(f[i], run[i], StoppedOne(tk[i], f[i], gateProc[i]), passed[i], pushes[i])
        /\ Follows(tk[i], f[i]) /\ (f[i].held => tk[i].held /\ f[i].claim = tk[i].claim)
        /\ \A j \in Ids : LookedAt(tk[j], f[j])
    BY <1>1, LiveIs
  <1>3. PICK h : h = [f[i] EXCEPT !.hook = TRUE]
    OBVIOUS
  <1>4. PICK v : v = [run[i] EXCEPT !.at = "wait"]
    OBVIOUS
  <1>5. v \in GateRuns /\ v.phase = run[i].phase /\ v.at = "wait"
    BY <1>4 DEF PublishInv, PublishTypes, GateRuns
  <1>6. TicketOK(h, v, "running", passed[i], pushes[i])
    BY <1>1, <1>2, <1>3, <1>5, RunStarts
  <1>7. h \in Tickets /\ h.held = f[i].held /\ h.claim = f[i].claim /\ h.phase = f[i].phase
    BY <1>1, <1>3 DEF Tickets
  <1>8. tk' \in [Ids -> Tickets] /\ tk'[i] = h /\ \A j \in Ids \ {i} : tk'[j] = f[j]
    <2>1. tk' = [f EXCEPT ![i] = h]
      BY <1>1, <1>3
    <2> QED
      BY <1>7, <2>1
  <1>9. run' \in [Ids -> GateRuns] /\ run'[i] = v /\ \A j \in Ids \ {i} : run'[j] = run[j]
    BY <1>4, <1>5 DEF PublishInv, PublishTypes
  <1>10. PICK g : g = Stopped(gateProc, HooksRun(f))
    OBVIOUS
  <1>11. /\ g \in [Ids -> {Unset, "running", "stopping"}]
         /\ \A j \in Ids : g[j] = StoppedOne(tk[j], f[j], gateProc[j])
    BY <1>10, StoppedIs DEF PublishInv
  <1>12. /\ gateProc' \in [Ids -> {Unset, "running", "stopping"}] /\ gateProc'[i] = "running"
         /\ \A j \in Ids \ {i} : gateProc'[j] = StoppedOne(tk[j], f[j], gateProc[j])
    BY <1>1, <1>10, <1>11
  <1>13. PublishTypes' /\ Aside(i)
    BY <1>2, <1>8, <1>9, <1>12 DEF PublishInv, PublishTypes, Aside
  <1>14. i <= made /\ CallsQuiet
    BY BegunWasMade, SameCalls
  <1>15. Follows(tk[i], h)
    BY <1>2, <1>7 DEF Follows
  <1> QED
    BY <1>2, <1>6, <1>7, <1>8, <1>9, <1>12, <1>13, <1>14, <1>15, OneStep

LEMMA StartCommandStep ==
  ASSUME PublishInv, NEW i \in Ids, StartCommand(i)
  PROVE  StepKept
  <1>1. run[i].at = "start"
    BY DEF StartCommand
  <1>2. CASE ~tk[i].held
    <2>1. /\ run' = [run EXCEPT ![i].at = "done"]
          /\ UNCHANGED <<made, tk, worktree, gateProc, pushCall, passed, pushes>>
      BY <1>2 DEF StartCommand
    <2> QED
      BY <1>1, <2>1, StopQuietly
  <1>3. CASE Fail(i, "moved") \/ Fail(i, "not started")
    BY <1>1, <1>3, FailStep DEF Reasons
  <1>4. CASE /\ Live(i)[i].phase # ActivePhase(run[i].phase) /\ Look(i)
             /\ run' = [run EXCEPT ![i].at = "done"]
             /\ UNCHANGED <<made, worktree, pushCall, passed, pushes>>
    BY <1>1, <1>4, StopLooking
  <1>5. CASE /\ Live(i)[i].phase = ActivePhase(run[i].phase)
             /\ tk' = [Live(i) EXCEPT ![i].hook = TRUE]
             /\ gateProc' = [Stopped(gateProc, HooksRun(Live(i))) EXCEPT ![i] = "running"]
             /\ run' = [run EXCEPT ![i].at = "wait"]
             /\ UNCHANGED <<made, worktree, pushCall, passed, pushes>>
    BY <1>1, <1>5, CommandStarts
  <1> QED
    BY <1>2, <1>3, <1>4, <1>5 DEF StartCommand

LEMMA CommandEndsStep ==
  ASSUME PublishInv, NEW i \in Ids, CommandEnds(i)
  PROVE  StepKept
  <1>1. PICK r \in {"ok", "failed", "cancelled"} :
           /\ run' = [run EXCEPT ![i].at = "append", ![i].result = r]
           /\ passed' = IF r = "ok" THEN [passed EXCEPT ![i] = @ \cup {run[i].phase}] ELSE passed
    BY DEF CommandEnds
  <1>2. /\ run[i].at = "wait" /\ gateProc' = [gateProc EXCEPT ![i] = Unset]
        /\ UNCHANGED <<made, tk, worktree, pushCall, pushes>>
    BY DEF CommandEnds
  <1>3. PICK v : v = [run[i] EXCEPT !.at = "append", !.result = r]
    OBVIOUS
  <1>4. v \in GateRuns /\ v.phase = run[i].phase /\ v.at = "append" /\ v.result = r
    BY <1>3 DEF PublishInv, PublishTypes, GateRuns, Results
  <1>5. PICK Q : Q = IF v.result = "ok" THEN passed[i] \cup {run[i].phase} ELSE passed[i]
    OBVIOUS
  <1>6. TicketOK(tk[i], run[i], gateProc[i], passed[i], pushes[i])
    BY DEF PublishInv
  <1>7. TicketOK(tk[i], v, Unset, Q, pushes[i])
    BY <1>2, <1>4, <1>5, <1>6, CommandPasses
  <1>8. Q \in SUBSET BothGates
    BY <1>7 DEF TicketOK
  <1>9. run' \in [Ids -> GateRuns] /\ run'[i] = v /\ \A j \in Ids \ {i} : run'[j] = run[j]
    <2>1. run' = [run EXCEPT ![i] = v]
      BY <1>1, <1>3 DEF PublishInv, PublishTypes
    <2> QED
      BY <1>4, <2>1 DEF PublishInv, PublishTypes
  <1>10. passed' \in [Ids -> SUBSET BothGates] /\ passed'[i] = Q
         /\ \A j \in Ids \ {i} : passed'[j] = passed[j]
    BY <1>1, <1>4, <1>5, <1>8 DEF PublishInv, PublishTypes
  <1>11. PublishTypes' /\ Aside(i) /\ gateProc'[i] = Unset
    BY <1>2, <1>9, <1>10, Unseen DEF PublishInv, PublishTypes, Aside
  <1>12. i <= made /\ CallsQuiet
    BY <1>2, BegunWasMade, SameCalls
  <1> QED
    BY <1>2, <1>7, <1>9, <1>10, <1>11, <1>12, OneStep DEF Follows

LEMMA AppendStep ==
  ASSUME PublishInv, NEW i \in Ids, AppendReport(i)
  PROVE  StepKept
  <1>1. PICK w \in BOOLEAN : run' = [run EXCEPT ![i].at = "judge", ![i].wrote = @ /\ w]
    BY DEF AppendReport
  <1>2. /\ run[i].at = "append"
        /\ UNCHANGED <<made, tk, worktree, gateProc, pushCall, passed, pushes>>
    BY DEF AppendReport
  <1>3. run[i] \in GateRuns
    BY DEF PublishInv, PublishTypes
  <1>4. PICK b \in BOOLEAN : b = (run[i].wrote /\ w)
    BY <1>3 DEF GateRuns
  <1>5. PICK v : v = [run[i] EXCEPT !.at = "judge", !.wrote = b]
    OBVIOUS
  <1>6. v \in GateRuns /\ v.phase = run[i].phase /\ v.at = "judge" /\ v.result = run[i].result
    BY <1>3, <1>5 DEF GateRuns
  <1>7. run' = [run EXCEPT ![i] = v]
    BY <1>1, <1>3, <1>4, <1>5 DEF PublishInv, PublishTypes
  <1>8. TicketOK(tk[i], run[i], gateProc[i], passed[i], pushes[i])
    BY DEF PublishInv
  <1>9. TicketOK(tk[i], v, gateProc[i], passed[i], pushes[i])
    BY <1>2, <1>6, <1>8, VerdictReported
  <1> QED
    BY <1>2, <1>7, <1>9, RunOnly

LEMMA JudgeStep ==
  ASSUME PublishInv, NEW i \in Ids, Judge(i)
  PROVE  StepKept
  <1>1. run[i].at = "judge"
    BY DEF Judge, JudgeAs
  <1>2. CASE ~tk[i].held
    <2>1. /\ run' = [run EXCEPT ![i].at = "done"]
          /\ UNCHANGED <<made, tk, worktree, gateProc, pushCall, passed, pushes>>
      BY <1>2 DEF Judge, JudgeAs
    <2> QED
      BY <1>1, <2>1, StopQuietly
  <1>3. CASE tk[i].held /\ run[i].result # "ok"
    <2>1. Fail(i, run[i].result)
      BY <1>3 DEF Judge, JudgeAs
    <2>2. run[i].result \in Reasons
      BY DEF PublishInv, PublishTypes, GateRuns, Reasons
    <2> QED
      BY <1>1, <2>1, <2>2, FailStep
  <1>4. CASE tk[i].held /\ run[i].result = "ok"
    <2>1. /\ Look(i) /\ run' = [run EXCEPT ![i].at = "reread"]
          /\ UNCHANGED <<made, worktree, pushCall, passed, pushes>>
      BY <1>4 DEF Judge, JudgeAs
    <2>2. run[i].phase \in passed[i]
      BY <1>1, <1>4 DEF PublishInv, TicketOK
    <2> QED
      BY <1>1, <2>1, <2>2, StopLooking
  <1> QED
    BY <1>2, <1>3, <1>4

\* The handle rejects: the hook is dropped with the phase, and the command is gone.
LEMMA CommandErrsStep ==
  ASSUME PublishInv, NEW i \in Ids, CommandErrs(i)
  PROVE  StepKept
  <1>1. PICK f \in [Ids -> Tickets] : f = Live(i)
    BY LiveIs
  <1>2. /\ TicketOK(f[i], run[i], StoppedOne(tk[i], f[i], gateProc[i]), passed[i], pushes[i])
        /\ Follows(tk[i], f[i]) /\ (f[i].held => tk[i].held /\ f[i].claim = tk[i].claim)
        /\ \A j \in Ids : LookedAt(tk[j], f[j])
        /\ f[i].phase \in Running => f[i] = tk[i]
    BY <1>1, LiveIs
  <1>3. /\ run[i].at = "wait" /\ tk' = FailedIn(f, i, "errored")
        /\ gateProc' = [Stopped(gateProc, HooksRun(tk')) EXCEPT ![i] = Unset]
        /\ run' = [run EXCEPT ![i].at = "done"]
        /\ UNCHANGED <<made, worktree, pushCall, passed, pushes>>
    BY <1>1 DEF CommandErrs, CommandErrsTo
  <1>4. PICK h : h = IF f[i].phase \in Running
                     THEN [f[i] EXCEPT !.phase = "failed", !.hook = FALSE, !.reason = "errored"]
                     ELSE f[i]
    OBVIOUS
  <1>5. PICK v : v = [run[i] EXCEPT !.at = "done"]
    OBVIOUS
  <1>6. v \in GateRuns /\ v.phase = run[i].phase /\ v.at = "done"
    BY <1>5 DEF PublishInv, PublishTypes, GateRuns
  <1>7. tk' = [f EXCEPT ![i] = h]
    <2>1. CASE f[i].phase \in Running
      BY <1>3, <1>4, <2>1 DEF FailedIn
    <2>2. CASE f[i].phase \notin Running
      BY <1>3, <1>4, <2>2 DEF FailedIn
    <2> QED
      BY <2>1, <2>2
  <1>8. TicketOK(f[i], v, Unset, passed[i], pushes[i])
    BY <1>2, <1>6 DEF TicketOK, Unset
  <1>10. TicketOK(h, v, Unset, passed[i], pushes[i])
    BY <1>4, <1>6, <1>8, RunFails DEF Reasons
  <1>11. h \in Tickets /\ Follows(tk[i], h) /\ (h.held => tk[i].held /\ h.claim = tk[i].claim)
    <2>1. CASE f[i].phase \in Running
      <3>1. h \in Tickets /\ h.held = f[i].held /\ h.claim = f[i].claim
        BY <1>4, <1>10, <2>1 DEF Tickets, TicketOK
      <3>2. tk[i].phase \in Running
        BY <1>2, <2>1
      <3> QED
        BY <1>2, <3>1, <3>2 DEF Follows, Running
    <2>2. CASE f[i].phase \notin Running
      BY <1>2, <1>4, <2>2
    <2> QED
      BY <2>1, <2>2
  <1>12. tk' \in [Ids -> Tickets] /\ tk'[i] = h /\ \A j \in Ids \ {i} : tk'[j] = f[j]
    BY <1>7, <1>11
  <1>13. PICK g : g = Stopped(gateProc, HooksRun(tk'))
    OBVIOUS
  <1>14. /\ g \in [Ids -> {Unset, "running", "stopping"}]
         /\ \A j \in Ids : g[j] = StoppedOne(tk[j], tk'[j], gateProc[j])
    BY <1>12, <1>13, StoppedIs DEF PublishInv
  <1>15. /\ gateProc' \in [Ids -> {Unset, "running", "stopping"}] /\ gateProc'[i] = Unset
         /\ \A j \in Ids \ {i} : gateProc'[j] = StoppedOne(tk[j], tk'[j], gateProc[j])
    BY <1>3, <1>13, <1>14
  <1>16. run' \in [Ids -> GateRuns] /\ run'[i] = v /\ \A j \in Ids \ {i} : run'[j] = run[j]
    BY <1>3, <1>5, <1>6 DEF PublishInv, PublishTypes
  <1>17. PublishTypes' /\ Aside(i)
    BY <1>2, <1>3, <1>12, <1>15, <1>16 DEF PublishInv, PublishTypes, Aside
  <1>18. i <= made /\ CallsQuiet
    BY <1>3, BegunWasMade, SameCalls
  <1> QED
    BY <1>3, <1>10, <1>11, <1>12, <1>15, <1>16, <1>17, <1>18, OneStep

\* markGated and markReady.
LEMMA VerdictStands ==
  ASSUME PublishInv, NEW i \in Ids, run[i].at = "verdict",
         Live(i)[i].phase = ActivePhase(run[i].phase),
         NEW h \in Tickets, h.held = Live(i)[i].held, h.claim = Live(i)[i].claim,
         h.phase = IF run[i].phase = "pre-gate" THEN "gated" ELSE "ready",
         NEW v \in GateRuns, v.phase = "gate", v.at \in {"read", "done"},
         tk' = [Live(i) EXCEPT ![i] = h], run' = [run EXCEPT ![i] = v],
         gateProc' = Stopped(gateProc, HooksRun(Live(i))),
         UNCHANGED <<made, worktree, pushCall, passed, pushes>>
  PROVE  StepKept
  <1>1. PICK f \in [Ids -> Tickets] : f = Live(i)
    BY LiveIs
  <1>2. /\ TicketOK(f[i], run[i], StoppedOne(tk[i], f[i], gateProc[i]), passed[i], pushes[i])
        /\ Follows(tk[i], f[i]) /\ (f[i].held => tk[i].held /\ f[i].claim = tk[i].claim)
        /\ \A j \in Ids : LookedAt(tk[j], f[j])
        /\ f[i].phase \in Running => f[i] = tk[i]
    BY <1>1, LiveIs
  <1>3. f[i] = tk[i] /\ tk[i].phase \in Running
    BY <1>1, <1>2 DEF ActivePhase, Running
  <1>6. PICK g : g = StoppedOne(tk[i], f[i], gateProc[i])
    OBVIOUS
  <1>7. TicketOK(h, v, g, passed[i], pushes[i])
    <2>1. TicketOK(f[i], run[i], g, passed[i], pushes[i]) /\ f[i].phase = ActivePhase(run[i].phase)
      BY <1>1, <1>2, <1>6
    <2>2. h.held = f[i].held /\ h.claim = f[i].claim
      BY <1>1
    <2> QED
      BY <2>1, <2>2, VerdictGiven
  <1>8. h.held = f[i].held /\ h.claim = f[i].claim
    BY <1>1
  <1>9. tk' \in [Ids -> Tickets] /\ tk'[i] = h /\ \A j \in Ids \ {i} : tk'[j] = f[j]
    BY <1>1, <1>8
  <1>10. run' \in [Ids -> GateRuns] /\ run'[i] = v /\ \A j \in Ids \ {i} : run'[j] = run[j]
    BY DEF PublishInv, PublishTypes
  <1>11. /\ gateProc' \in [Ids -> {Unset, "running", "stopping"}]
         /\ \A j \in Ids : gateProc'[j] = StoppedOne(tk[j], f[j], gateProc[j])
    BY <1>1, StoppedIs DEF PublishInv
  <1>12. PublishTypes' /\ Aside(i)
    BY <1>2, <1>9, <1>10, <1>11 DEF PublishInv, PublishTypes, Aside
  <1>13. i <= made /\ CallsQuiet
    BY BegunWasMade, SameCalls
  <1>14. Follows(tk[i], h) /\ (h.held => tk[i].held /\ h.claim = tk[i].claim)
    BY <1>2, <1>3, <1>8 DEF Follows, Running
  <1>15. TicketOK(tk'[i], run'[i], gateProc'[i], passed'[i], pushes'[i])
    BY <1>6, <1>7, <1>9, <1>10, <1>11
  <1> QED
    BY <1>9, <1>12, <1>13, <1>14, <1>15, OneStep

LEMMA VerdictStep ==
  ASSUME PublishInv, NEW i \in Ids, GateVerdict(i)
  PROVE  StepKept
  <1>1. run[i].at = "verdict"
    BY DEF GateVerdict, VerdictWith
  <1>2. PICK out \in BOOLEAN :
           out = (~tk[i].held \/ (/\ Live(i)[i].phase # ActivePhase(run[i].phase)
                                  /\ LayoutsMatch(run[i].seen, tk[i].pin)))
    OBVIOUS
  <1>3. CASE out
    <2>1. /\ Look(i) /\ run' = [run EXCEPT ![i].at = "done"]
          /\ UNCHANGED <<made, worktree, pushCall, passed, pushes>>
      BY <1>2, <1>3 DEF GateVerdict, VerdictWith
    <2> QED
      BY <1>1, <2>1, StopLooking
  <1>4. CASE ~out /\ ~LayoutsMatch(run[i].seen, tk[i].pin)
    <2>1. Fail(i, "moved")
      BY <1>2, <1>4 DEF GateVerdict, VerdictWith
    <2> QED
      BY <1>1, <2>1, FailStep DEF Reasons
  <1>5. CASE ~out /\ LayoutsMatch(run[i].seen, tk[i].pin)
    <2>1. PICK to : to = IF run[i].phase = "pre-gate" THEN "gated" ELSE "ready"
      OBVIOUS
    <2>2. Live(i)[i].phase = ActivePhase(run[i].phase)
      BY <1>2, <1>5
    <2>3. /\ tk' = [Live(i) EXCEPT ![i].phase = to, ![i].hook = @ /\ to # "ready",
                                  ![i].reason = IF run[i].wrote THEN Unset ELSE "no report"]
          /\ gateProc' = Stopped(gateProc, HooksRun(Live(i)))
          /\ run' = [run EXCEPT ![i].phase = "gate",
                                ![i].at = IF to = "gated" THEN "read" ELSE "done"]
          /\ UNCHANGED <<made, worktree, pushCall, passed, pushes>>
      BY <1>2, <1>5, <2>1 DEF GateVerdict, VerdictWith
    <2>4. Live(i) \in [Ids -> Tickets] /\ run \in [Ids -> GateRuns]
      BY LiveIs DEF PublishInv, PublishTypes
    <2>5. PICK hook \in BOOLEAN : hook = (Live(i)[i].hook /\ to # "ready")
      BY <2>4 DEF Tickets
    <2>6. PICK said \in Reasons : said = IF run[i].wrote THEN Unset ELSE "no report"
      BY DEF Reasons, Results
    <2>7. PICK w \in {"read", "done"} : w = IF to = "gated" THEN "read" ELSE "done"
      OBVIOUS
    <2>8. PICK h : h = [Live(i)[i] EXCEPT !.phase = to, !.hook = hook, !.reason = said]
      OBVIOUS
    <2>9. PICK v : v = [run[i] EXCEPT !.phase = "gate", !.at = w]
      OBVIOUS
    <2>10. tk' = [Live(i) EXCEPT ![i] = h]
      BY <2>3, <2>4, <2>5, <2>6, <2>8
    <2>11. run' = [run EXCEPT ![i] = v]
      BY <2>3, <2>4, <2>7, <2>9
    <2>12. to \in Phases /\ run[i] \in GateRuns /\ Live(i)[i] \in Tickets
      BY <2>1, <2>4 DEF Phases, Running, Shipped
    <2>13. h \in Tickets /\ h.held = Live(i)[i].held /\ h.claim = Live(i)[i].claim /\ h.phase = to
      BY <2>8, <2>12 DEF Tickets
    <2>14. v \in GateRuns /\ v.phase = "gate" /\ v.at = w
      BY <2>7, <2>9, <2>12 DEF GateRuns, BothGates
    <2>15. v.at \in {"read", "done"}
      BY <2>7, <2>14
    <2>16. gateProc' = Stopped(gateProc, HooksRun(Live(i)))
           /\ UNCHANGED <<made, worktree, pushCall, passed, pushes>>
      BY <2>3
    <2>17. h.phase = IF run[i].phase = "pre-gate" THEN "gated" ELSE "ready"
      BY <2>1, <2>13
    <2> QED
      BY <1>1, <2>2, <2>10, <2>11, <2>13, <2>14, <2>15, <2>16, <2>17, VerdictStands
  <1> QED
    BY <1>3, <1>4, <1>5

LEMMA RunStepKept ==
  ASSUME PublishInv, NEW i \in Ids, RunStep(i)
  PROVE  StepKept
  BY ReadStep, StartCommandStep, CommandEndsStep, CommandErrsStep, AppendStep, JudgeStep,
     VerdictStep DEF RunStep

LEMMA AgeStep ==
  ASSUME PublishInv, NEW i \in Ids, Age(i)
  PROVE  StepKept
  <1>1. /\ tk[i].held /\ tk' = [tk EXCEPT ![i].old = TRUE]
        /\ UNCHANGED <<made, worktree, run, gateProc, pushCall, passed, pushes>>
    BY DEF Age
  <1>2. PICK h : h = [tk[i] EXCEPT !.old = TRUE]
    OBVIOUS
  <1>3. /\ h \in Tickets /\ h.held = tk[i].held /\ h.claim = tk[i].claim /\ h.hook = tk[i].hook
        /\ h.phase = tk[i].phase
    BY <1>2 DEF PublishInv, PublishTypes, Tickets
  <1>4. tk' \in [Ids -> Tickets] /\ tk'[i] = h /\ \A j \in Ids \ {i} : tk'[j] = tk[j]
    BY <1>1, <1>2, <1>3 DEF PublishInv, PublishTypes
  <1>5. TicketOK(tk[i], run[i], gateProc[i], passed[i], pushes[i])
    BY DEF PublishInv
  <1>6. TicketOK(h, run[i], gateProc[i], passed[i], pushes[i])
    BY <1>1, <1>3, <1>5 DEF TicketOK
  <1>7. PublishTypes' /\ Aside(i)
    BY <1>1, <1>4, Unseen DEF PublishInv, PublishTypes, Aside
  <1>8. i <= made /\ CallsQuiet
    BY <1>1, BegunWasMade, SameCalls
  <1>9. Follows(tk[i], h)
    BY <1>3 DEF Follows
  <1> QED
    BY <1>1, <1>3, <1>4, <1>6, <1>7, <1>8, <1>9, OneStep

\* publish/cancel: the phase and the hook go in one step.
LEMMA CancelStep ==
  ASSUME PublishInv, NEW i \in Ids, Cancel(i)
  PROVE  StepKept
  <1>1. PICK f \in [Ids -> Tickets] : f = Live(i)
    BY LiveIs
  <1>2. /\ TicketOK(f[i], run[i], StoppedOne(tk[i], f[i], gateProc[i]), passed[i], pushes[i])
        /\ \A j \in Ids : LookedAt(tk[j], f[j])
        /\ f[i].phase \in Running => f[i] = tk[i]
    BY <1>1, LiveIs
  <1>3. /\ tk[i].held /\ f[i].phase \in Running
        /\ tk' = [f EXCEPT ![i].phase = "failed", ![i].hook = FALSE, ![i].reason = "cancelled"]
        /\ gateProc' = Stopped(gateProc, HooksRun(tk'))
        /\ UNCHANGED <<made, worktree, run, pushCall, passed, pushes>>
    BY <1>1 DEF Cancel, CancelWith
  <1>4. f[i] = tk[i]
    BY <1>2, <1>3
  <1>5. PICK h : h = [tk[i] EXCEPT !.phase = "failed", !.hook = FALSE, !.reason = "cancelled"]
    OBVIOUS
  <1>6. /\ h \in Tickets /\ h.phase = "failed" /\ ~h.hook /\ h.held = tk[i].held
        /\ h.claim = tk[i].claim
    <2>1. tk[i] \in Tickets
      BY DEF PublishInv, PublishTypes
    <2>2. "failed" \in Phases /\ "cancelled" \in Reasons
      BY DEF Phases, Reasons, Results
    <2> QED
      BY <1>5, <2>1, <2>2 DEF Tickets
  <1>7. tk' = [f EXCEPT ![i] = h]
    BY <1>3, <1>4, <1>5
  <1>8. tk' \in [Ids -> Tickets] /\ tk'[i] = h /\ \A j \in Ids \ {i} : tk'[j] = f[j]
    BY <1>6, <1>7
  <1>9. /\ gateProc' \in [Ids -> {Unset, "running", "stopping"}]
        /\ \A j \in Ids : gateProc'[j] = StoppedOne(tk[j], tk'[j], gateProc[j])
    BY <1>3, <1>8, StoppedIs DEF PublishInv
  <1>10. TicketOK(tk[i], run[i], gateProc[i], passed[i], pushes[i])
    BY DEF PublishInv
  <1>11. PICK g : g = gateProc'[i]
    OBVIOUS
  <1>12. g # "running" /\ g \in {Unset, "stopping"} /\ (g # Unset => run[i].at = "wait")
    BY <1>6, <1>8, <1>9, <1>10, <1>11 DEF TicketOK, StoppedOne, Unset
  <1>13. ~tk[i].claim
    BY <1>3, <1>4, <1>10 DEF TicketOK, Running
  <1>14. TicketOK(h, run[i], g, passed[i], pushes[i])
    BY <1>3, <1>6, <1>10, <1>12, <1>13 DEF TicketOK, Running, Shipped
  <1>15. PublishTypes' /\ Aside(i)
    BY <1>2, <1>3, <1>8, <1>9 DEF PublishInv, PublishTypes, Aside
  <1>16. i <= made /\ CallsQuiet
    BY <1>3, BegunWasMade, SameCalls
  <1>17. Follows(tk[i], h)
    BY <1>3, <1>4 DEF Follows, Running
  <1> QED
    BY <1>3, <1>6, <1>8, <1>11, <1>14, <1>15, <1>16, <1>17, OneStep

LEMMA StatusStep ==
  ASSUME PublishInv, NEW s \in PublishSessions, Status(s)
  PROVE  StepKept
  <1>1. PICK f \in [Ids -> Tickets] : f = ExpireIn(tk, {s}) /\ \A j \in Ids : LookedAt(tk[j], f[j])
    BY ExpireLooks DEF PublishInv, PublishTypes
  <1>2. /\ tk' = f /\ gateProc' = Stopped(gateProc, HooksRun(f))
        /\ UNCHANGED <<made, worktree, run, passed, pushes, pushCall>>
    BY <1>1 DEF Status
  <1> QED
    BY <1>1, <1>2, SameCalls, LookStep

LEMMA MoveStep ==
  ASSUME PublishInv, Move
  PROVE  StepKept
  <1>1. /\ UNCHANGED <<made, tk, run, gateProc, pushCall, passed, pushes>>
        /\ worktree' \in Worktrees
    BY DEF Move
  <1> QED
    BY <1>1 DEF PublishInv, PublishTypes, UnmadeUnused, CallsKnown, ClaimsHeld, Opening,
       StepKept, Follows

\* publish/start: a ticket with a number of its own, and a run that begins.
LEMMA StartStep ==
  ASSUME PublishInv, NEW s \in PublishSessions, Start(s)
  PROVE  StepKept
  <1>1. PICK i : i = made + 1
    OBVIOUS
  <1>2. PICK layout \in Layouts : layout = ReadLayout(worktree)
    BY ReadLayoutTyped DEF PublishInv
  <1>3. PICK f : f = Created(i, s, layout)
    OBVIOUS
  <1>4. /\ made < MaxTickets /\ made' = i /\ tk' = f
        /\ gateProc' = Stopped(gateProc, HooksRun(f)) /\ run' = [run EXCEPT ![i].at = "read"]
        /\ UNCHANGED <<worktree, pushCall, passed, pushes>>
    BY <1>1, <1>2, <1>3 DEF Start
  <1>5. i \in Ids /\ made \in Nat /\ i \in Nat
    BY <1>1, <1>4, TicketsBounded DEF Ids, PublishInv, PublishTypes
  <1>6. /\ f \in [Ids -> Tickets] /\ Fresh(s, layout) \in Tickets
        /\ LookedAt(Fresh(s, layout), f[i])
        /\ \A j \in Ids \ {i} : LookedAt(tk[j], f[j])
    BY <1>3, <1>5, CreatedLooks DEF PublishInv, PublishTypes
  <1>7. PICK r \in Tickets : r = Fresh(s, layout)
    BY <1>6
  <1>8. r.held /\ r.phase = "pre-gate" /\ ~r.claim /\ ~r.hook
    BY <1>7 DEF Fresh, Absent
  <1>9. tk[i] = Absent /\ run[i] = NoRun /\ gateProc[i] = Unset /\ pushes[i] = 0
    BY <1>1, <1>5 DEF PublishInv, UnmadeUnused
  <1>10. PICK v : v = [NoRun EXCEPT !.at = "read"]
    OBVIOUS
  <1>11. v \in GateRuns /\ v.at = "read" /\ v.phase = "pre-gate"
    BY <1>10 DEF NoRun, GateRuns, BothGates, Layouts, Results, Unset
  <1>12. passed[i] \in SUBSET BothGates
    BY <1>5 DEF PublishInv, PublishTypes
  <1>13. TicketOK(r, v, Unset, passed[i], 0)
    BY <1>8, <1>11, <1>12 DEF TicketOK, Shipped, Unset
  <1>14. StoppedOne(r, f[i], Unset) = Unset /\ StoppedOne(tk[i], f[i], Unset) = Unset
    BY DEF StoppedOne, Unset
  <1>15. TicketOK(f[i], v, Unset, passed[i], 0)
    BY <1>6, <1>7, <1>13, <1>14, LookKeeps
  <1>16. /\ gateProc' \in [Ids -> {Unset, "running", "stopping"}]
         /\ \A j \in Ids : gateProc'[j] = StoppedOne(tk[j], f[j], gateProc[j])
    BY <1>4, <1>6, StoppedIs DEF PublishInv
  <1>17. run' \in [Ids -> GateRuns] /\ run'[i] = v /\ \A j \in Ids \ {i} : run'[j] = run[j]
    BY <1>4, <1>5, <1>9, <1>10, <1>11 DEF PublishInv, PublishTypes
  <1>18. PublishTypes'
    BY <1>4, <1>5, <1>6, <1>16, <1>17 DEF PublishInv, PublishTypes
  <1>19. \A j \in Ids \ {i} :
            /\ TicketOK(tk'[j], run'[j], gateProc'[j], passed'[j], pushes'[j])
            /\ Follows(tk[j], tk'[j])
            /\ j > made => /\ tk'[j] = Absent /\ run'[j] = NoRun /\ gateProc'[j] = Unset
                           /\ pushes'[j] = 0
    BY <1>4, <1>6, <1>16, <1>17, OtherTicket
  <1>20. TicketOK(tk'[i], run'[i], gateProc'[i], passed'[i], pushes'[i]) /\ Follows(tk[i], tk'[i])
    <2>1. Follows(tk[i], f[i])
      BY <1>9, AbsentTyped DEF Follows, Unset
    <2> QED
      BY <1>4, <1>5, <1>9, <1>14, <1>15, <1>16, <1>17, <2>1
  <1>21. UnmadeUnused'
    <2> SUFFICES ASSUME NEW j \in Ids, j > made'
                 PROVE  /\ tk'[j] = Absent /\ run'[j] = NoRun /\ gateProc'[j] = Unset
                        /\ pushes'[j] = 0
      BY DEF UnmadeUnused
    <2>1. j # i /\ j > made
      BY <1>1, <1>4, <1>5 DEF Ids
    <2> QED
      BY <1>19, <2>1
  <1>22. CallsKnown'
    <2>1. \A x \in Ids : x <= made => x <= i
      BY <1>1, <1>5 DEF Ids
    <2> QED
      BY <1>4, <2>1 DEF PublishInv, CallsKnown
  <1>23. ClaimsHeld'
    <2>1. \A j \in Ids \ {i} : tk'[j].held => tk[j].held /\ tk'[j].claim = tk[j].claim
      BY <1>4, <1>6, LookClaims
    <2>2. tk'[i].held => ~tk'[i].claim
      BY <1>4, <1>6, <1>7, <1>8, LookTyped, AbsentTyped
    <2>3. ~(i <= made)
      BY <1>1, <1>5
    <2>4. \A c \in Callers : ~Opening(c, i)
      BY <2>3 DEF PublishInv, CallsKnown, Opening
    <2> QED
      BY <1>4, <2>1, <2>2, <2>4 DEF PublishInv, ClaimsHeld, Opening
  <1> QED
    BY <1>18, <1>19, <1>20, <1>21, <1>22, <1>23 DEF PublishInv, StepKept
-----------------------------------------------------------------------------
(* publish/push.                                                           *)

\* A call that does not take, or give up, a claim moves on.
LEMMA CallMoves ==
  ASSUME PublishInv, NEW c \in Callers, NEW x \in PushCalls,
         pushCall' = [pushCall EXCEPT ![c] = x], made' = made,
         pushCall[c].at # "opening", x.at # "opening",
         x.at # "idle" => x.t \in Ids /\ x.t <= made
  PROVE  CallsQuiet
  BY DEF PublishInv, CallsQuiet, CallsKnown

LEMMA NoCallTyped == NoCall \in PushCalls /\ NoCall.at = "idle"
  BY DEF NoCall, PushCalls, Layouts

\* What a call that has begun is about.
LEMMA CallIs ==
  ASSUME PublishInv, NEW c \in Callers, pushCall[c].at # "idle"
  PROVE  pushCall[c].t \in Ids /\ pushCall[c].t <= made /\ pushCall[c] \in PushCalls
  BY DEF PublishInv, CallsKnown

LEMMA PushApprovedStep ==
  ASSUME PublishInv, NEW c \in Callers, NEW i \in Ids, PushApproved(c, i)
  PROVE  StepKept
  <1>1. PICK x : x = [at |-> "check", t |-> i, seen |-> Unreadable]
    OBVIOUS
  <1>2. /\ pushCall[c].at = "idle" /\ tk[i].held /\ pushCall' = [pushCall EXCEPT ![c] = x]
        /\ UNCHANGED <<made, tk, worktree, run, gateProc, passed, pushes>>
    BY <1>1 DEF PushApproved
  <1>3. i <= made /\ i \in Nat
    BY <1>2, BegunWasMade, TicketsBounded DEF Ids
  <1>4. x \in PushCalls /\ x.at = "check" /\ x.t = i
    BY <1>1, <1>3 DEF PushCalls, Layouts
  <1>5. CallsQuiet
    BY <1>2, <1>3, <1>4, CallMoves
  <1>6. ClaimsHeld'
    BY <1>2, <1>5, ClaimsFollow DEF CallsQuiet
  <1> QED
    BY <1>2, <1>5, <1>6 DEF PublishInv, PublishTypes, UnmadeUnused, CallsQuiet, StepKept, Follows

\* The checks before a push look at the ticket, and go on or return.
LEMMA PushChecks ==
  ASSUME PublishInv, NEW c \in Callers, PushCheck(c) \/ PushRecheck(c)
  PROVE  StepKept
  <1>1. pushCall[c].at \in {"check", "recheck"}
    BY DEF PushCheck, PushRecheck
  <1>2. pushCall[c].t \in Ids /\ pushCall[c].t <= made /\ pushCall[c] \in PushCalls
    BY <1>1, CallIs
  <1>3. PICK f \in [Ids -> Tickets] : f = Live(pushCall[c].t) /\ \A j \in Ids : LookedAt(tk[j], f[j])
    BY <1>2, LiveIs
  <1>4. PICK l \in Layouts : l = ReadLayout(worktree)
    BY ReadLayoutTyped DEF PublishInv
  <1>5. /\ tk' = f /\ gateProc' = Stopped(gateProc, HooksRun(f))
        /\ UNCHANGED <<made, worktree, run, passed, pushes>>
    BY <1>3 DEF PushCheck, PushRecheck
  <1>6. \/ pushCall' = [pushCall EXCEPT ![c].at = "recheck", ![c].seen = l]
        \/ pushCall' = [pushCall EXCEPT ![c].at = "push", ![c].seen = l]
        \/ pushCall' = [pushCall EXCEPT ![c].at = "claim"]
        \/ pushCall' = [pushCall EXCEPT ![c] = NoCall]
    BY <1>4 DEF PushCheck, PushRecheck, Return
  <1>7. pushCall \in [Callers -> PushCalls]
    BY DEF PublishInv, CallsKnown
  <1>8. PICK x \in PushCalls : /\ pushCall' = [pushCall EXCEPT ![c] = x] /\ x.at # "opening"
                               /\ x.at # "idle" => x.t = pushCall[c].t
    <2>1. CASE pushCall' = [pushCall EXCEPT ![c].at = "recheck", ![c].seen = l]
      <3>1. PICK x : x = [pushCall[c] EXCEPT !.at = "recheck", !.seen = l]
        OBVIOUS
      <3>2. x \in PushCalls /\ x.at = "recheck" /\ x.t = pushCall[c].t
        BY <1>2, <3>1 DEF PushCalls
      <3> QED
        BY <1>7, <2>1, <3>1, <3>2
    <2>2. CASE pushCall' = [pushCall EXCEPT ![c].at = "push", ![c].seen = l]
      <3>1. PICK x : x = [pushCall[c] EXCEPT !.at = "push", !.seen = l]
        OBVIOUS
      <3>2. x \in PushCalls /\ x.at = "push" /\ x.t = pushCall[c].t
        BY <1>2, <3>1 DEF PushCalls
      <3> QED
        BY <1>7, <2>2, <3>1, <3>2
    <2>3. CASE pushCall' = [pushCall EXCEPT ![c].at = "claim"]
      <3>1. PICK x : x = [pushCall[c] EXCEPT !.at = "claim"]
        OBVIOUS
      <3>2. x \in PushCalls /\ x.at = "claim" /\ x.t = pushCall[c].t
        BY <1>2, <3>1 DEF PushCalls
      <3> QED
        BY <1>7, <2>3, <3>1, <3>2
    <2>4. CASE pushCall' = [pushCall EXCEPT ![c] = NoCall]
      BY <2>4, NoCallTyped
    <2> QED
      BY <1>6, <2>1, <2>2, <2>3, <2>4
  <1>9. CallsQuiet
    BY <1>1, <1>2, <1>5, <1>8, CallMoves
  <1> QED
    BY <1>3, <1>5, <1>9, LookStep

\* A ticket past its gates has no command: what a push makes of it.
LEMMA PushMoves ==
  ASSUME NEW r, NEW u, NEW g, NEW P, NEW n, TicketOK(r, u, g, P, n),
         r.phase \in {"ready", "pushing"}, NEW h \in Tickets, h.held = r.held,
         h.claim = r.claim, h.phase \in {"pushing", "pushed", "failed"}, NEW m \in {0, 1}
  PROVE  TicketOK(h, u, g, P, m) /\ ~h.claim /\ r.held /\ g # "running"
  <1>1. r.held /\ ~r.claim /\ g # "running" /\ P = BothGates
    BY AbsentTyped DEF TicketOK, Unset, Shipped, ActivePhase
  <1> QED
    BY <1>1 DEF TicketOK, Shipped, Running

\* A registry in which one ticket was changed after a look.
LEMMA PushActs ==
  ASSUME PublishInv, NEW c \in Callers, NEW i \in Ids, i <= made,
         NEW f, f = Live(i), f[i] = tk[i], tk[i].phase \in {"ready", "pushing"},
         NEW h \in Tickets, h.held = tk[i].held, h.claim = tk[i].claim, h.hook = tk[i].hook,
         h.phase \in {"pushing", "pushed", "failed"}, tk' = [f EXCEPT ![i] = h],
         gateProc' = Stopped(gateProc, HooksRun(f)),
         pushes' \in [Ids -> {0, 1}], \A j \in Ids \ {i} : pushes'[j] = pushes[j],
         UNCHANGED <<made, worktree, run, passed>>, CallsQuiet
  PROVE  StepKept
  <1>1. f \in [Ids -> Tickets] /\ \A j \in Ids : LookedAt(tk[j], f[j])
    BY LiveIs
  <1>2. tk' \in [Ids -> Tickets] /\ tk'[i] = h /\ \A j \in Ids \ {i} : tk'[j] = f[j]
    BY <1>1
  <1>3. /\ gateProc' \in [Ids -> {Unset, "running", "stopping"}]
        /\ \A j \in Ids : gateProc'[j] = StoppedOne(tk[j], f[j], gateProc[j])
    BY <1>1, StoppedIs DEF PublishInv
  <1>4. gateProc'[i] = gateProc[i]
    BY <1>3 DEF StoppedOne
  <1>5. TicketOK(tk[i], run[i], gateProc[i], passed[i], pushes[i])
    BY DEF PublishInv
  <1>6. pushes'[i] \in {0, 1}
    OBVIOUS
  <1>7. TicketOK(h, run[i], gateProc[i], passed[i], pushes'[i])
    BY <1>5, <1>6, PushMoves
  <1>8. PublishTypes' /\ Aside(i)
    BY <1>1, <1>2, <1>3 DEF PublishInv, PublishTypes, Aside
  <1>9. Follows(tk[i], h)
    BY DEF Follows
  <1> QED
    BY <1>2, <1>4, <1>7, <1>8, <1>9, OneStep

LEMMA ReturnQuiet ==
  ASSUME PublishInv, NEW c \in Callers, Return(c), made' = made, pushCall[c].at # "opening"
  PROVE  CallsQuiet
  BY NoCallTyped, CallMoves DEF Return

LEMMA AdvanceQuiet ==
  ASSUME PublishInv, NEW c \in Callers, NEW w \in {"pushing", "claim"},
         pushCall' = [pushCall EXCEPT ![c].at = w], made' = made,
         pushCall[c].at \notin {"opening", "idle"}
  PROVE  CallsQuiet
  <1>1. pushCall[c].t \in Ids /\ pushCall[c].t <= made /\ pushCall[c] \in PushCalls
    BY CallIs
  <1>2. PICK x : x = [pushCall[c] EXCEPT !.at = w]
    OBVIOUS
  <1>3. x \in PushCalls /\ x.at = w /\ x.t = pushCall[c].t
    BY <1>1, <1>2 DEF PushCalls
  <1>4. pushCall' = [pushCall EXCEPT ![c] = x]
    BY <1>2 DEF PublishInv, CallsKnown
  <1>5. x.at # "opening"
    BY <1>3
  <1> QED
    BY <1>1, <1>3, <1>4, <1>5, CallMoves

\* markPushing: a ticket that is ready was not pushed before.
LEMMA PushStartStep ==
  ASSUME PublishInv, NEW c \in Callers, PushStart(c)
  PROVE  StepKept
  <1>1. PICK i : i = pushCall[c].t
    OBVIOUS
  <1>2. PICK f : f = Live(i)
    OBVIOUS
  <1>3. /\ pushCall[c].at = "push" /\ gateProc' = Stopped(gateProc, HooksRun(f))
        /\ UNCHANGED <<made, worktree, run, passed>>
    BY <1>1, <1>2 DEF PushStart, PushStartFrom
  <1>4. i \in Ids /\ i <= made
    BY <1>1, <1>3, CallIs
  <1>5. /\ f \in [Ids -> Tickets] /\ \A j \in Ids : LookedAt(tk[j], f[j])
        /\ f[i].phase = "ready" => f[i] = tk[i]
    BY <1>2, <1>4, LiveIs
  <1>6. CASE LayoutsMatch(pushCall[c].seen, tk[i].pin) /\ f[i].phase = "ready"
    <2>1. /\ tk' = [f EXCEPT ![i].phase = "pushing"]
          /\ pushCall' = [pushCall EXCEPT ![c].at = "pushing"]
          /\ pushes' = [pushes EXCEPT ![i] = @ + 1]
      BY <1>1, <1>2, <1>6 DEF PushStart, PushStartFrom
    <2>2. f[i] = tk[i] /\ tk[i].phase = "ready" /\ tk[i] \in Tickets
      BY <1>4, <1>5, <1>6
    <2>3. pushes[i] = 0
      BY <1>4, <2>2 DEF PublishInv, TicketOK
    <2>4. PICK h : h = [tk[i] EXCEPT !.phase = "pushing"]
      OBVIOUS
    <2>5. /\ h \in Tickets /\ h.held = tk[i].held /\ h.claim = tk[i].claim
          /\ h.hook = tk[i].hook /\ h.phase = "pushing"
      BY <2>2, <2>4 DEF Tickets, Phases, Shipped
    <2>6. tk' = [f EXCEPT ![i] = h]
      BY <2>1, <2>2, <2>4, <1>5
    <2>7. pushes' \in [Ids -> {0, 1}] /\ \A j \in Ids \ {i} : pushes'[j] = pushes[j]
      BY <1>4, <2>1, <2>3 DEF PublishInv, PublishTypes
    <2>8. CallsQuiet
      BY <1>3, <2>1, AdvanceQuiet
    <2>9. tk[i].phase \in {"ready", "pushing"} /\ h.phase \in {"pushing", "pushed", "failed"}
      BY <2>2, <2>5
    <2> QED
      BY <1>2, <1>3, <1>4, <2>2, <2>5, <2>6, <2>7, <2>8, <2>9, PushActs
  <1>7. CASE ~(LayoutsMatch(pushCall[c].seen, tk[i].pin) /\ f[i].phase = "ready")
    <2>1. tk' = f /\ Return(c) /\ UNCHANGED pushes
      BY <1>1, <1>2, <1>7 DEF PushStart, PushStartFrom
    <2>2. CallsQuiet
      BY <1>3, <2>1, ReturnQuiet
    <2> QED
      BY <1>3, <1>5, <2>1, <2>2, LookStep
  <1> QED
    BY <1>6, <1>7

\* The end of a push: the ticket that is pushing is this call's.
LEMMA PushEndsStep ==
  ASSUME PublishInv, NEW c \in Callers, PushEnds(c)
  PROVE  StepKept
  <1>1. PICK i : i = pushCall[c].t
    OBVIOUS
  <1>2. PICK f : f = Live(i)
    OBVIOUS
  <1>3. /\ pushCall[c].at = "pushing" /\ gateProc' = Stopped(gateProc, HooksRun(tk'))
        /\ UNCHANGED <<made, worktree, run, passed, pushes>>
    BY <1>1 DEF PushEnds
  <1>4. i \in Ids /\ i <= made
    BY <1>1, <1>3, CallIs
  <1>5. CASE tk[i].phase # "pushing"
    <2>1. tk' = tk /\ Return(c)
      BY <1>1, <1>5 DEF PushEnds
    <2>2. CallsQuiet
      BY <1>3, <2>1, ReturnQuiet
    <2> QED
      BY <1>3, <2>1, <2>2, Unseen, LookStep
  <1>6. CASE tk[i].phase = "pushing"
    <2>1. tk[i] \in Tickets /\ f \in [Ids -> Tickets]
      BY <1>2, <1>4, LiveIs DEF PublishInv, PublishTypes
    <2>2. f[i] = tk[i]
      BY <1>2, <1>4, <1>6 DEF Live, ExpireIn, Outlived
    <2>3. \/ tk' = [f EXCEPT ![i].phase = "failed", ![i].reason = "push"] /\ Return(c)
          \/ /\ tk' = [f EXCEPT ![i].phase = "pushed"]
             /\ pushCall' = [pushCall EXCEPT ![c].at = "claim"]
      BY <1>1, <1>2, <1>6 DEF PushEnds, MarkPushFailed, MarkPushed
    <2>4. CallsQuiet
      BY <1>3, <2>3, ReturnQuiet, AdvanceQuiet
    <2>5. PICK h \in Tickets : /\ h.held = tk[i].held /\ h.claim = tk[i].claim
                               /\ h.hook = tk[i].hook /\ h.phase \in {"pushed", "failed"}
                               /\ tk' = [f EXCEPT ![i] = h]
      <3>1. CASE tk' = [f EXCEPT ![i].phase = "failed", ![i].reason = "push"]
        <4>1. PICK h : h = [tk[i] EXCEPT !.phase = "failed", !.reason = "push"]
          OBVIOUS
        <4>2. /\ h \in Tickets /\ h.held = tk[i].held /\ h.claim = tk[i].claim
              /\ h.hook = tk[i].hook /\ h.phase = "failed"
          BY <2>1, <4>1 DEF Tickets, Phases, Reasons
        <4>3. tk' = [f EXCEPT ![i] = h]
          BY <2>1, <2>2, <3>1, <4>1
        <4> QED
          BY <4>2, <4>3
      <3>2. CASE tk' = [f EXCEPT ![i].phase = "pushed"]
        <4>1. PICK h : h = [tk[i] EXCEPT !.phase = "pushed"]
          OBVIOUS
        <4>2. /\ h \in Tickets /\ h.held = tk[i].held /\ h.claim = tk[i].claim
              /\ h.hook = tk[i].hook /\ h.phase = "pushed"
          BY <2>1, <4>1 DEF Tickets, Phases, Shipped
        <4>3. tk' = [f EXCEPT ![i] = h]
          BY <2>1, <2>2, <3>2, <4>1
        <4> QED
          BY <4>2, <4>3
      <3> QED
        BY <2>3, <3>1, <3>2
    <2>6. tk' \in [Ids -> Tickets] /\ tk'[i] = h /\ \A j \in Ids \ {i} : tk'[j] = f[j]
      BY <1>4, <2>1, <2>5
    <2>7. HooksRun(tk') = HooksRun(f)
      BY <2>2, <2>5, <2>6 DEF HooksRun
    <2>8. gateProc' = Stopped(gateProc, HooksRun(f))
      BY <1>3, <2>7
    <2>9. pushes' \in [Ids -> {0, 1}] /\ \A j \in Ids \ {i} : pushes'[j] = pushes[j]
      BY <1>3 DEF PublishInv, PublishTypes
    <2>10. tk[i].phase \in {"ready", "pushing"} /\ h.phase \in {"pushing", "pushed", "failed"}
      BY <1>6, <2>5
    <2> QED
      BY <1>2, <1>3, <1>4, <2>2, <2>4, <2>5, <2>8, <2>9, <2>10, PushActs
  <1> QED
    BY <1>5, <1>6

\* A step that changes one ticket's claim or phase, and no run.
LEMMA ClaimActs ==
  ASSUME PublishInv, NEW i \in Ids, tk[i].phase = "pushed", NEW h \in Tickets,
         h.held = tk[i].held, h.hook = tk[i].hook, h.phase \in {"pushed", "pr-open"},
         h.claim => h.phase = "pushed", tk' = [tk EXCEPT ![i] = h],
         UNCHANGED <<made, worktree, run, gateProc, passed, pushes>>, CallsKnown', ClaimsHeld'
  PROVE  StepKept
  <1>1. TicketOK(tk[i], run[i], gateProc[i], passed[i], pushes[i])
    BY DEF PublishInv
  <1>2. tk[i].held /\ gateProc[i] # "running" /\ passed[i] = BothGates
    BY <1>1, AbsentTyped DEF TicketOK, Unset, Shipped, ActivePhase
  <1>3. TicketOK(h, run[i], gateProc[i], passed[i], pushes[i])
    BY <1>1, <1>2 DEF TicketOK, Shipped, Running
  <1>4. tk' \in [Ids -> Tickets] /\ tk'[i] = h /\ \A j \in Ids \ {i} : tk'[j] = tk[j]
    BY DEF PublishInv, PublishTypes
  <1>5. PublishTypes'
    BY <1>4 DEF PublishInv, PublishTypes
  <1>6. {i} \in SUBSET Ids /\ i <= made
    BY <1>2, BegunWasMade
  <1>7. \A j \in Ids \ {i} : /\ LookedAt(tk[j], tk'[j]) /\ run'[j] = run[j]
                             /\ gateProc'[j] = StoppedOne(tk[j], tk'[j], gateProc[j])
                             /\ passed'[j] = passed[j] /\ pushes'[j] = pushes[j]
    BY <1>4, Unseen
  <1>8. \A k \in {i} : /\ TicketOK(tk'[k], run'[k], gateProc'[k], passed'[k], pushes'[k])
                       /\ Follows(tk[k], tk'[k]) /\ k <= made
    BY <1>3, <1>4, <1>6 DEF Follows
  <1> QED
    BY <1>5, <1>6, <1>7, <1>8, ActsOn DEF StepKept

\* claimPr: nobody opens when the claim is free.
LEMMA ClaimPrStep ==
  ASSUME PublishInv, NEW c \in Callers, ClaimPr(c)
  PROVE  StepKept
  <1>1. PICK i : i = pushCall[c].t
    OBVIOUS
  <1>2. /\ pushCall[c].at = "claim"
        /\ UNCHANGED <<made, worktree, run, gateProc, passed, pushes>>
    BY DEF ClaimPr, ClaimPrIf
  <1>3. i \in Ids /\ i <= made /\ pushCall[c] \in PushCalls
    BY <1>1, <1>2, CallIs
  <1>4. CASE tk[i].phase = "pushed" /\ ~tk[i].claim
    <2>1. /\ tk' = [tk EXCEPT ![i].claim = TRUE]
          /\ pushCall' = [pushCall EXCEPT ![c].at = "opening"]
      BY <1>1, <1>4 DEF ClaimPr, ClaimPrIf
    <2>2. tk[i] \in Tickets /\ tk \in [Ids -> Tickets] /\ pushCall \in [Callers -> PushCalls]
      BY <1>3 DEF PublishInv, PublishTypes, CallsKnown
    <2>3. PICK h : h = [tk[i] EXCEPT !.claim = TRUE]
      OBVIOUS
    <2>4. /\ h \in Tickets /\ h.held = tk[i].held /\ h.hook = tk[i].hook /\ h.claim
          /\ h.phase = "pushed"
      BY <1>4, <2>2, <2>3 DEF Tickets
    <2>5. PICK x : x = [pushCall[c] EXCEPT !.at = "opening"]
      OBVIOUS
    <2>6. x \in PushCalls /\ x.at = "opening" /\ x.t = i
      BY <1>1, <1>3, <2>5 DEF PushCalls
    <2>7. /\ pushCall' \in [Callers -> PushCalls] /\ pushCall'[c] = x
          /\ \A d \in Callers \ {c} : pushCall'[d] = pushCall[d]
      BY <2>1, <2>2, <2>5, <2>6
    <2>8. /\ tk' = [tk EXCEPT ![i] = h] /\ tk'[i] = h
          /\ \A j \in Ids \ {i} : tk'[j] = tk[j]
      BY <1>3, <2>1, <2>2, <2>3
    <2>9. CallsKnown'
      BY <1>2, <1>3, <2>6, <2>7 DEF PublishInv, CallsKnown
    <2>10. tk[i].held
      BY <1>3, <1>4, AbsentTyped DEF PublishInv, TicketOK, Unset
    <2>11. \A d \in Callers : ~Opening(d, i)
      BY <1>3, <1>4, <2>10 DEF PublishInv, ClaimsHeld
    <2>12. ClaimsHeld'
      <3>1. \A d \in Callers \ {c}, j \in Ids : Opening(d, j)' <=> Opening(d, j)
        BY <2>7 DEF Opening
      <3>2. Opening(c, i)' /\ \A j \in Ids \ {i} : ~Opening(c, j)' /\ ~Opening(c, j)
        BY <1>2, <2>6, <2>7 DEF Opening
      <3>3. \A j \in Ids : tk'[j].held => (tk'[j].claim <=> \E d \in Callers : Opening(d, j)')
        <4> SUFFICES ASSUME NEW j \in Ids, tk'[j].held
                     PROVE  tk'[j].claim <=> \E d \in Callers : Opening(d, j)'
          OBVIOUS
        <4>1. CASE j = i
          BY <2>4, <2>8, <3>2, <4>1
        <4>2. CASE j # i
          BY <2>8, <3>1, <3>2, <4>2 DEF PublishInv, ClaimsHeld
        <4> QED
          BY <4>1, <4>2
      <3>4. \A d, e \in Callers :
                pushCall'[d].at = "opening" /\ pushCall'[e].at = "opening"
                  /\ pushCall'[d].t = pushCall'[e].t => d = e
        BY <2>6, <2>7, <2>11 DEF PublishInv, ClaimsHeld, Opening
      <3> QED
        BY <3>3, <3>4 DEF ClaimsHeld
    <2>13. tk[i].phase = "pushed" /\ h.phase \in {"pushed", "pr-open"}
      BY <1>4, <2>4
    <2> QED
      BY <1>2, <1>3, <2>4, <2>8, <2>9, <2>12, <2>13, ClaimActs
  <1>5. CASE ~(tk[i].phase = "pushed" /\ ~tk[i].claim)
    <2>1. UNCHANGED tk /\ Return(c)
      BY <1>1, <1>5 DEF ClaimPr, ClaimPrIf
    <2>2. CallsQuiet
      BY <1>2, <2>1, ReturnQuiet
    <2>3. ClaimsHeld'
      BY <2>1, <2>2, ClaimsFollow DEF CallsQuiet
    <2> QED
      BY <1>2, <2>1, <2>2, <2>3 DEF PublishInv, PublishTypes, UnmadeUnused, CallsQuiet, StepKept,
         Follows
  <1> QED
    BY <1>4, <1>5

\* open_pr ends: the call that gives the claim up was the only one.
LEMMA OpenEndsStep ==
  ASSUME PublishInv, NEW c \in Callers, OpenEnds(c)
  PROVE  StepKept
  <1>1. PICK i : i = pushCall[c].t
    OBVIOUS
  <1>2. /\ pushCall[c].at = "opening" /\ pushCall' = [pushCall EXCEPT ![c] = NoCall]
        /\ UNCHANGED <<made, worktree, run, gateProc, passed, pushes>>
    BY DEF OpenEnds, OpenEndsTo, Return
  <1>3. i \in Ids /\ i <= made /\ Opening(c, i)
    BY <1>1, <1>2, CallIs DEF Opening
  <1>4. /\ pushCall' \in [Callers -> PushCalls] /\ pushCall'[c] = NoCall
        /\ \A d \in Callers \ {c} : pushCall'[d] = pushCall[d]
    BY <1>2, NoCallTyped DEF PublishInv, CallsKnown
  <1>5. CallsKnown'
    BY <1>2, <1>4, NoCallTyped DEF PublishInv, CallsKnown
  <1>6. \A d \in Callers : ~Opening(d, i)'
    BY <1>1, <1>2, <1>4, NoCallTyped DEF PublishInv, ClaimsHeld, Opening
  <1>7. \A d \in Callers, j \in Ids \ {i} : Opening(d, j)' <=> Opening(d, j)
    BY <1>3, <1>4, NoCallTyped DEF Opening
  <1>8. \A d, e \in Callers :
            pushCall'[d].at = "opening" /\ pushCall'[e].at = "opening"
              /\ pushCall'[d].t = pushCall'[e].t => d = e
    BY <1>4, NoCallTyped DEF PublishInv, ClaimsHeld
  <1>9. TicketOK(tk[i], run[i], gateProc[i], passed[i], pushes[i]) /\ tk[i] \in Tickets
        /\ tk \in [Ids -> Tickets]
    BY <1>3 DEF PublishInv, PublishTypes
  <1>10. CASE tk[i].phase # "pushed"
    <2>1. UNCHANGED tk
      BY <1>1, <1>10 DEF OpenEnds, OpenEndsTo
    <2>2. ~tk[i].held
      BY <1>3, <1>9, <1>10 DEF PublishInv, ClaimsHeld, TicketOK
    <2>3. ClaimsHeld'
      BY <1>7, <1>8, <2>1, <2>2 DEF PublishInv, ClaimsHeld
    <2> QED
      BY <1>2, <1>5, <2>1, <2>3 DEF PublishInv, PublishTypes, UnmadeUnused, StepKept, Follows
  <1>11. CASE tk[i].phase = "pushed"
    <2>1. \/ tk' = [tk EXCEPT ![i].claim = FALSE, ![i].reason = "open_pr"]
          \/ tk' = [tk EXCEPT ![i].claim = FALSE, ![i].reason = Unset, ![i].phase = "pr-open"]
      BY <1>1, <1>11 DEF OpenEnds, OpenEndsTo, NotePrFailed, MarkPrOpen
    <2>2. PICK h \in Tickets : /\ h.held = tk[i].held /\ h.hook = tk[i].hook /\ ~h.claim
                               /\ h.phase \in {"pushed", "pr-open"}
                               /\ tk' = [tk EXCEPT ![i] = h]
      <3>1. CASE tk' = [tk EXCEPT ![i].claim = FALSE, ![i].reason = "open_pr"]
        <4>1. PICK h : h = [tk[i] EXCEPT !.claim = FALSE, !.reason = "open_pr"]
          OBVIOUS
        <4>2. /\ h \in Tickets /\ h.held = tk[i].held /\ h.hook = tk[i].hook /\ ~h.claim
              /\ h.phase = "pushed"
          BY <1>9, <1>11, <4>1 DEF Tickets, Reasons
        <4>3. tk' = [tk EXCEPT ![i] = h]
          BY <1>9, <3>1, <4>1
        <4> QED
          BY <4>2, <4>3
      <3>2. CASE tk' = [tk EXCEPT ![i].claim = FALSE, ![i].reason = Unset, ![i].phase = "pr-open"]
        <4>1. PICK h : h = [tk[i] EXCEPT !.claim = FALSE, !.reason = Unset, !.phase = "pr-open"]
          OBVIOUS
        <4>2. Unset \in Reasons /\ "pr-open" \in Phases
          BY DEF Reasons, Results, Phases, Shipped
        <4>3. /\ h \in Tickets /\ h.held = tk[i].held /\ h.hook = tk[i].hook /\ ~h.claim
              /\ h.phase = "pr-open"
          BY <1>9, <4>1, <4>2 DEF Tickets
        <4>4. tk' = [tk EXCEPT ![i] = h]
          BY <1>9, <3>2, <4>1
        <4> QED
          BY <4>3, <4>4
      <3> QED
        BY <2>1, <3>1, <3>2
    <2>3. tk'[i] = h /\ \A j \in Ids \ {i} : tk'[j] = tk[j]
      BY <1>3, <1>9, <2>2
    <2>4. ClaimsHeld'
      BY <1>6, <1>7, <1>8, <2>2, <2>3 DEF PublishInv, ClaimsHeld
    <2> QED
      BY <1>2, <1>3, <1>5, <1>11, <2>2, <2>4, ClaimActs
  <1> QED
    BY <1>10, <1>11

LEMMA PublishStep == PublishInv /\ [PublishNext]_publishVars => StepKept
  <1> SUFFICES ASSUME PublishInv, [PublishNext]_publishVars PROVE StepKept
    OBVIOUS
  <1>1. CASE UNCHANGED publishVars
    BY <1>1 DEF publishVars, PublishInv, PublishTypes, UnmadeUnused, CallsKnown, ClaimsHeld,
       Opening, StepKept, Follows
  <1>2. ASSUME NEW c \in Callers, PushStep(c) PROVE StepKept
    BY <1>2, PushChecks, PushStartStep, PushEndsStep, ClaimPrStep, OpenEndsStep DEF PushStep
  <1> QED
    BY <1>1, <1>2, MoveStep, StartStep, StatusStep, AgeStep, CancelStep, RunStepKept,
       PushApprovedStep DEF PublishNext

LEMMA PublishStarts == PublishInit => PublishInv
  <1> SUFFICES ASSUME PublishInit PROVE PublishInv
    OBVIOUS
  <1>1. /\ made = 0 /\ tk = [i \in Ids |-> Absent] /\ worktree \in Worktrees
        /\ run = [i \in Ids |-> NoRun] /\ gateProc = [i \in Ids |-> Unset]
        /\ pushCall = [c \in Callers |-> NoCall]
        /\ passed = [i \in Ids |-> {}] /\ pushes = [i \in Ids |-> 0]
    BY DEF PublishInit
  <1>2. NoRun \in GateRuns /\ NoRun.at = "idle" /\ NoRun.phase = "pre-gate"
    BY DEF NoRun, GateRuns, BothGates, Layouts, Results, Unset
  <1>3. PublishTypes
    BY <1>1, <1>2, AbsentTyped DEF PublishTypes
  <1>4. TicketOK(Absent, NoRun, Unset, {}, 0)
    BY <1>2, AbsentTyped DEF TicketOK, Shipped, Running, Unset
  <1>5. UnmadeUnused /\ CallsKnown /\ ClaimsHeld
    BY <1>1, AbsentTyped, NoCallTyped DEF UnmadeUnused, CallsKnown, ClaimsHeld, Opening
  <1> QED
    BY <1>1, <1>3, <1>4, <1>5 DEF PublishInv

\* At most one of a set: it is empty, or a singleton.
LEMMA AtMostOne ==
  ASSUME NEW S, \A c, d \in S : c = d
  PROVE  Cardinality(S) <= 1
  <1>1. CASE S = {}
    BY <1>1, FS_EmptySet
  <1>2. CASE S # {}
    <2>1. PICK c : S = {c}
      BY <1>2
    <2>2. Cardinality({c}) = 1
      BY FS_Singleton
    <2> QED
      BY <2>1, <2>2
  <1> QED
    BY <1>1, <1>2

\* publish-tickets.ts, publish-phase.ts and publish-push.ts: whatever the
\* worktree becomes, whoever cancels or looks, whichever tickets expire or are
\* dropped and however many pushes race, what is ready or pushed had both its
\* gates exit 0, a running gate has a ticket that can stop it, a ticket is
\* pushed at most once, and one call at a time opens its pull request.
THEOREM PublishedWasGated == PublishSpec => []PublishGated
  <1>1. PublishInv => PublishGated
    <2> SUFFICES ASSUME PublishInv PROVE PublishGated
      OBVIOUS
    <2>1. \A i \in Ids : TicketOK(tk[i], run[i], gateProc[i], passed[i], pushes[i])
      BY DEF PublishInv
    <2>2. ShippedWasGated
      BY <2>1 DEF TicketOK, Shipped, BothGates, ShippedWasGated
    <2>3. NoOrphanGate
      BY <2>1 DEF TicketOK, NoOrphanGate
    <2>4. PushedOnce
      BY <2>1 DEF TicketOK, PushedOnce
    <2>5. OnePullRequest
      <3> SUFFICES ASSUME NEW i \in Ids, NEW S,
                          S = {c \in Callers : pushCall[c].at = "opening" /\ pushCall[c].t = i}
                   PROVE  Cardinality(S) <= 1 /\ (tk[i].held => tk[i].claim = (S # {}))
        BY DEF OnePullRequest
      <3>1. \A c, d \in S : c = d
        BY DEF PublishInv, ClaimsHeld
      <3>2. Cardinality(S) <= 1
        BY <3>1, AtMostOne
      <3>3. tk[i].claim \in BOOLEAN
        BY DEF PublishInv, PublishTypes, Tickets
      <3>4. S # {} <=> \E c \in Callers : Opening(c, i)
        BY DEF Opening
      <3> QED
        BY <3>2, <3>3, <3>4 DEF PublishInv, ClaimsHeld
    <2> QED
      BY <2>2, <2>3, <2>4, <2>5 DEF PublishGated
  <1>2. PublishInv /\ [PublishNext]_publishVars => PublishInv'
    BY PublishStep DEF StepKept
  <1> QED
    BY <1>1, <1>2, PublishStarts, PTL DEF PublishSpec

\* publish-tickets.ts: a ticket that failed or expired, cancelled in the
\* middle of a phase, say, gets no later verdict from the run or the push that
\* is still on its way.
THEOREM DeadTicketsStayDead == PublishSpec => DeadStaysDead
  <1>1. PublishInv /\ [PublishNext]_publishVars
            => [\A i \in Ids : tk[i].phase \in {"failed", "expired"} /\ tk'[i].held
                                   => tk'[i].phase \in {tk[i].phase, "expired"}]_publishVars
    BY PublishStep DEF StepKept, Follows
  <1>2. PublishInv /\ [PublishNext]_publishVars => PublishInv'
    BY PublishStep DEF StepKept
  <1> QED
    BY <1>1, <1>2, PublishStarts, PTL DEF PublishSpec, DeadStaysDead

-----------------------------------------------------------------------------
(* A tool call.                                                            *)

PCs == {"idle", "attest", "policy", "approve", "prompt", "execute", "running",
        "record", "done", "gone"}
Bases == {"none", "ask:default", "ask:unsandboxed", "ask:envelope-limit", "deny:default",
          "deny:unsandboxed-without-reason", "deny:unsandboxed-headless",
          "deny:envelope-limit", "deny:precheck", "deny:approval-denied",
          "allow:sandboxed", "allow:attested-envelope",
          "allow:operator-configured-external-read", "allow:operator-configured-recall",
          "allow:read-only-local", "allow:operator-profile", "allow:bash-allowlist",
          "allow:session-grant", "allow:operator-approved",
          "allow:operator-approved-session-grant"}
VerdictSet == [status : {"none", "unattested", "sandboxed", "attested"}, pair : Nat,
               policy : Policies \cup {NONE}, granted : BOOLEAN]
CallRec == [pc : PCs, session : Sessions \cup {NONE}, req : Request \cup {NONE},
            verdict : VerdictSet, basis : Bases, gen : Nat,
            outcome : {"none", "denied", "error", "ok"}, events : Nat]
PairRec == [policy : Policies, live : BOOLEAN, changed : BOOLEAN, probe : BOOLEAN]
KeySet == [id : CommandIds, args : Args, scope : Policies \cup {"native", "srt"},
           flags : BOOLEAN \X BOOLEAN \X {"no", "asked", "fixed"}]

\* What a verdict says of the supervisors that answered it.
VerdictOk(v, ps) ==
    \/ v.status # "attested" /\ v.policy = NONE
    \/ /\ v.status = "attested" /\ v.pair \in 1..Len(ps)
       /\ v.policy = ps[v.pair].policy

\* On what a call may run that nobody was asked about.
AllowOk(r, v, b) ==
    \/ /\ b = "allow:attested-envelope" /\ v.status = "attested" /\ v.granted
       /\ route = "contained" /\ Contained(r.id)
    \/ b = "allow:sandboxed" /\ Contained(r.id)
    \/ b = "allow:bash-allowlist" /\ r.readOnly
    \/ /\ b \in {"allow:operator-configured-external-read",
                 "allow:operator-configured-recall", "allow:read-only-local",
                 "allow:operator-profile"}
       /\ Registry[r.id].effects \cap EXEC_EFFECTS = {}

\* The grant g is for this request, in this session, under this verdict.
Given(g, s, r, v) ==
    /\ g.session = s
    /\ [g.req EXCEPT !.readOnly = FALSE] = [r EXCEPT !.readOnly = FALSE]
    /\ g.verdict.status = v.status /\ g.verdict.policy = v.policy
    /\ g.verdict.status # "unattested"

CallOk(k, ps, gs) ==
    /\ VerdictOk(k.verdict, ps)
    /\ k.pc \notin {"idle", "gone"} =>
         k.session \in Sessions /\ k.req \in Request /\ Admitted(k.req)
    /\ k.pc = "execute" =>
         \/ k.basis \in {"allow:operator-approved", "allow:operator-approved-session-grant"}
         \/ /\ k.basis = "allow:session-grant"
            /\ \E g \in gs : Given(g, k.session, k.req, k.verdict)
         \/ AllowOk(k.req, k.verdict, k.basis)

\* The key k was made of what the grant g allowed.
KeyFor(k, g) ==
    /\ g.req \in Request /\ g.verdict \in VerdictSet
    /\ g.verdict.status = "attested" => g.verdict.policy \in Policies
    /\ g.verdict.status # "attested" => g.verdict.policy = NONE
    /\ grantScope(g.verdict) # NONE
    /\ k = sessionGrantKey(g.req, grantScope(g.verdict))
KeysOk(ks, gs) ==
    \A s \in Sessions : \A i \in DOMAIN ks[s] :
      \E g \in gs : g.session = s /\ KeyFor(ks[s][i], g)

ToolInv ==
    /\ route \in Routes
    /\ pairs \in Seq(PairRec) /\ owner \in 0..Len(pairs)
    /\ call \in [Calls -> CallRec]
    /\ \A c \in Calls : CallOk(call[c], pairs, granted)
    /\ tracked \in Seq(Sessions) /\ gen \in [Sessions -> Nat]
    /\ keys \in [Sessions -> Seq(KeySet)] /\ KeysOk(keys, granted)
    /\ \A e \in executors : e.pair \in 1..Len(pairs) /\ pairs[e.pair].live
    /\ \A e \in executors : e.call \in Calls
    /\ ContainmentKept

-----------------------------------------------------------------------------
(* The policy's verdict and the keys of grants.                            *)

\* What the policy leaves to itself without a containment runs no process.
LEMMA NoProcessUnasked ==
  ASSUME NEW id \in CommandIds,
         \/ configuredExternalRead(Registry[id]) \/ configuredRecall(Registry[id])
         \/ readOnlyLocal(Registry[id]) \/ operatorProfile(Registry[id])
  PROVE  Registry[id].effects \cap EXEC_EFFECTS = {}
  <1>1. CASE operatorProfile(Registry[id])
    BY <1>1 DEF operatorProfile
  <1>2. CASE configuredExternalRead(Registry[id]) \/ configuredRecall(Registry[id])
             \/ readOnlyLocal(Registry[id])
    <2> USE DEF Command, EXEC_EFFECTS, configuredExternalRead, configuredRecall,
                readOnlyLocal
    <2>1. CASE id = "bash"
      <3>1. Registry[id].network = "external" /\ Registry[id].filesystem = "write"
        BY <2>1 DEF Registry
      <3> QED
        BY <1>2, <3>1
    <2>2. CASE id = "write"
      <3>1. Registry[id].network = "none" /\ Registry[id].filesystem = "write"
        BY <2>2 DEF Registry
      <3> QED
        BY <1>2, <3>1
    <2>3. CASE id = "read"
      <3>1. Registry[id].effects = {"read.filesystem", "emit.event"}
        BY <2>3 DEF Registry
      <3> QED
        BY <3>1
    <2>4. CASE id = "search"
      <3>1. Registry[id].effects = {"read.external", "emit.event"}
        BY <2>4 DEF Registry
      <3> QED
        BY <3>1
    <2>5. CASE id = "recall"
      <3>1. Registry[id].effects = {"read.memory", "emit.event"}
        BY <2>5 DEF Registry
      <3> QED
        BY <3>1
    <2>6. CASE id = "push"
      <3>1. Registry[id].default = "ask"
        BY <2>6 DEF Registry
      <3> QED
        BY <1>2, <3>1
    <2>7. CASE id = "cancel"
      <3>1. Registry[id].default = "ask"
        BY <2>7 DEF Registry
      <3> QED
        BY <1>2, <3>1
    <2> QED
      BY <2>1, <2>2, <2>3, <2>4, <2>5, <2>6, <2>7, Bounds
  <1> QED
    BY <1>1, <1>2

RulingOk(ru, r, v) ==
    /\ ru.decision \in {"allow", "deny", "ask"} /\ ru.basis \in Bases
    /\ ru.decision = "allow" => AllowOk(r, v, ru.basis)

LEMMA PolicyRules ==
  ASSUME route \in Routes, NEW r \in Request, NEW v \in VerdictSet
  PROVE  RulingOk(evaluateCommandPolicy(r, v), r, v)
  <1>1. ASSUME NEW b \in Bases, AllowOk(r, v, b)
        PROVE  RulingOk(Ruling("allow", b), r, v)
    BY <1>1 DEF RulingOk, Ruling
  <1>2. ASSUME NEW b \in Bases, NEW d \in {"deny", "ask"}
        PROVE  RulingOk(Ruling(d, b), r, v)
    BY DEF RulingOk, Ruling
  <1>3. /\ RulingOk(AskDefault, r, v)
        /\ RulingOk(Ruling("deny", "deny:default"), r, v)
    BY <1>2 DEF AskDefault, Bases
  <1>4. r.id \in CommandIds
    BY DEF Request
  <1>5. CASE Contained(r.id) /\ route = "sandboxed"
    <2>1. RulingOk(evaluateSandboxedPolicy(r, v), r, v)
      <3>1. /\ RulingOk(Ruling("deny", "deny:unsandboxed-without-reason"), r, v)
            /\ RulingOk(Ruling("deny", "deny:unsandboxed-headless"), r, v)
            /\ RulingOk(Ruling("ask", "ask:unsandboxed"), r, v)
        BY <1>2 DEF Bases
      <3>2. RulingOk(Ruling("allow", "allow:sandboxed"), r, v)
        BY <1>1, <1>5 DEF Bases, AllowOk
      <3> QED
        BY <1>3, <3>1, <3>2 DEF evaluateSandboxedPolicy, evaluateSandboxedPolicyAs
    <2> QED
      BY <1>3, <1>5, <2>1 DEF evaluateCommandPolicy
  <1>6. CASE Contained(r.id) /\ route # "sandboxed"
    <2>1. route = "contained"
      BY <1>6, Bounds DEF Contained
    <2>2. RulingOk(evaluateContainedPolicy(r, v), r, v)
      <3>1. /\ RulingOk(Ruling("deny", "deny:envelope-limit"), r, v)
            /\ RulingOk(Ruling("ask", "ask:envelope-limit"), r, v)
        BY <1>2 DEF Bases
      <3>2. v.status = "attested" /\ v.granted
              => RulingOk(Ruling("allow", "allow:attested-envelope"), r, v)
        BY <1>1, <1>6, <2>1 DEF Bases, AllowOk
      <3> QED
        BY <1>3, <3>1, <3>2 DEF evaluateContainedPolicy, evaluateContainedPolicyAs
    <2> QED
      BY <1>3, <1>6, <2>2 DEF evaluateCommandPolicy
  <1>7. CASE ~Contained(r.id)
    <2>1. configuredExternalRead(Registry[r.id])
            => RulingOk(Ruling("allow", "allow:operator-configured-external-read"), r, v)
      BY <1>1, <1>4, NoProcessUnasked DEF Bases, AllowOk
    <2>2. configuredRecall(Registry[r.id])
            => RulingOk(Ruling("allow", "allow:operator-configured-recall"), r, v)
      BY <1>1, <1>4, NoProcessUnasked DEF Bases, AllowOk
    <2>3. readOnlyLocal(Registry[r.id])
            => RulingOk(Ruling("allow", "allow:read-only-local"), r, v)
      BY <1>1, <1>4, NoProcessUnasked DEF Bases, AllowOk
    <2>4. operatorProfile(Registry[r.id])
            => RulingOk(Ruling("allow", "allow:operator-profile"), r, v)
      BY <1>1, <1>4, NoProcessUnasked DEF Bases, AllowOk
    <2>5. readOnlyAllowlist(r) => RulingOk(Ruling("allow", "allow:bash-allowlist"), r, v)
      BY <1>1 DEF Bases, AllowOk, readOnlyAllowlist
    <2> QED
      BY <1>3, <1>7, <2>1, <2>2, <2>3, <2>4, <2>5 DEF evaluateCommandPolicy
  <1> QED
    BY <1>5, <1>6, <1>7

\* A key tells the executor policy it was made under.
LEMMA SameScope ==
  ASSUME NEW v \in VerdictSet, NEW w \in VerdictSet,
         v.status = "attested" => v.policy \in Policies,
         v.status # "attested" => v.policy = NONE,
         w.status = "attested" => w.policy \in Policies,
         w.status # "attested" => w.policy = NONE,
         grantScope(v) = grantScope(w), grantScope(v) # NONE
  PROVE  v.status = w.status /\ v.policy = w.policy /\ v.status # "unattested"
  <1>1. /\ v.status \in {"none", "unattested", "sandboxed", "attested"}
        /\ w.status \in {"none", "unattested", "sandboxed", "attested"}
    BY DEF VerdictSet
  <1>2. v.status # "unattested" /\ w.status # "unattested"
    BY DEF grantScope
  <1>3. CASE v.status = "attested"
    BY <1>1, <1>2, <1>3, Bounds DEF grantScope
  <1>4. CASE v.status = "none"
    BY <1>1, <1>2, <1>4, Bounds DEF grantScope
  <1>5. CASE v.status = "sandboxed"
    BY <1>1, <1>2, <1>5, Bounds DEF grantScope
  <1> QED
    BY <1>1, <1>2, <1>3, <1>4, <1>5

\* A key tells the request, but for whether it is read-only.
LEMMA SameRequest ==
  ASSUME NEW q \in Request, NEW r \in Request, NEW a, NEW b,
         sessionGrantKey(q, a) = sessionGrantKey(r, b)
  PROVE  [q EXCEPT !.readOnly = FALSE] = [r EXCEPT !.readOnly = FALSE] /\ a = b
  <1> DEFINE k == sessionGrantKey(q, a)
             l == sessionGrantKey(r, b)
  <1>1. /\ k.id = q.id /\ k.args = q.args /\ k.scope = a
        /\ k.flags = <<q.escapes, q.reason, q.long>>
    BY DEF sessionGrantKey, sessionGrantKeyAs
  <1>2. /\ l.id = r.id /\ l.args = r.args /\ l.scope = b
        /\ l.flags = <<r.escapes, r.reason, r.long>>
    BY DEF sessionGrantKey, sessionGrantKeyAs
  <1>3. /\ q.id = r.id /\ q.args = r.args /\ a = b
        /\ <<q.escapes, q.reason, q.long>> = <<r.escapes, r.reason, r.long>>
    BY <1>1, <1>2
  <1>4. q.escapes = r.escapes /\ q.reason = r.reason /\ q.long = r.long
    BY <1>3
  <1>5. q = [id |-> q.id, args |-> q.args, readOnly |-> q.readOnly, escapes |-> q.escapes,
             reason |-> q.reason, long |-> q.long]
    BY DEF Request
  <1>6. r = [id |-> r.id, args |-> r.args, readOnly |-> r.readOnly, escapes |-> r.escapes,
             reason |-> r.reason, long |-> r.long]
    BY DEF Request
  <1> QED
    BY <1>3, <1>4, <1>5, <1>6

-----------------------------------------------------------------------------
(* The steps of one call.                                                  *)

LEMMA ToolCallIs ==
  ASSUME ToolInv, NEW c \in Calls
  PROVE  /\ call[c] \in CallRec /\ CallOk(call[c], pairs, granted)
         /\ call[c].verdict \in VerdictSet /\ call[c].events \in Nat
         /\ call[c].basis \in Bases
         /\ call[c].pc \notin {"idle", "gone"} =>
              /\ call[c].session \in Sessions /\ call[c].req \in Request
              /\ Admitted(call[c].req)
  <1>1. call[c] \in CallRec /\ CallOk(call[c], pairs, granted)
    BY DEF ToolInv
  <1>2. call[c].verdict \in VerdictSet /\ call[c].events \in Nat /\ call[c].basis \in Bases
    BY <1>1 DEF CallRec
  <1> QED
    BY <1>1, <1>2 DEF CallOk

\* A step that changes nothing but one call.
LEMMA CallChange ==
  ASSUME ToolInv, NEW c \in Calls, NEW k \in CallRec, CallOk(k, pairs, granted),
         call' = [call EXCEPT ![c] = k], route' = route, pairs' = pairs, owner' = owner,
         executors' = executors, store' = store, granted' = granted, ran' = ran
  PROVE  ToolInv'
  <1>1. call' \in [Calls -> CallRec]
    BY DEF ToolInv
  <1>2. ASSUME NEW d \in Calls PROVE CallOk(call'[d], pairs, granted)
    BY DEF ToolInv
  <1>3. (\A d \in Calls : CallOk(call[d], pairs, granted))'
    BY <1>2 DEF CallOk, AllowOk, Contained, Admitted
  <1>4. tracked' = tracked /\ keys' = keys /\ gen' = gen
    BY DEF store
  <1>5. KeysOk(keys, granted)'
    BY <1>4 DEF ToolInv, KeysOk
  <1>6. ContainmentKept'
    BY DEF ToolInv, ContainmentKept, EscapeIsAsked, NoUnaskedExec, NoExecutorOutlivesLease,
       EnvelopeRunsWhereAttested, GrantWasGiven
  <1> QED
    BY <1>1, <1>3, <1>4, <1>5, <1>6 DEF ToolInv

\* A call that goes on with the same request under the same verdict.
LEMMA GoesOn ==
  ASSUME ToolInv, NEW c \in Calls, call[c].pc \notin {"idle", "gone"}, NEW k \in CallRec,
         k.session = call[c].session, k.req = call[c].req, k.verdict = call[c].verdict,
         k.pc # "execute"
  PROVE  CallOk(k, pairs, granted)
  BY ToolCallIs DEF CallOk

LEMMA AttestIs ==
  ASSUME ToolInv
  PROVE  attest \in VerdictSet /\ VerdictOk(attest, pairs)
  <1>1. CASE route = "sandboxed"
    BY <1>1 DEF attest, Verdict, VerdictSet, VerdictOk
  <1>2. CASE route # "sandboxed" /\ owner = 0
    BY <1>2 DEF attest, Unattested, Verdict, VerdictSet, VerdictOk
  <1>3. CASE route # "sandboxed" /\ owner # 0
    <2>1. owner \in 1..Len(pairs) /\ owner \in Nat
      BY <1>3 DEF ToolInv
    <2>2. pairs[owner] \in PairRec
      BY <2>1 DEF ToolInv
    <2>3. pairs[owner].policy \in Policies
      BY <2>2 DEF PairRec
    <2> DEFINE a == Answer(owner)
    <2>4. a.pair = owner /\ a.policy = pairs[owner].policy
      BY DEF Answer
    <2> DEFINE v == Verdict("attested", a.pair, a.policy, a.grant = a.policy)
    <2>5. /\ v.status = "attested" /\ v.pair = owner /\ v.policy = pairs[owner].policy
          /\ v \in VerdictSet
      BY <2>1, <2>3, <2>4 DEF Verdict, VerdictSet
    <2>6. Unattested \in VerdictSet /\ VerdictOk(Unattested, pairs)
      BY DEF Unattested, Verdict, VerdictSet, VerdictOk
    <2>7. attest \in {v, Unattested}
      BY <1>3 DEF attest, checkAttestation
    <2> HIDE DEF v
    <2> QED
      BY <2>1, <2>5, <2>6, <2>7 DEF VerdictOk
  <1> QED
    BY <1>1, <1>2, <1>3

LEMMA AttestKeeps ==
  ASSUME ToolInv, NEW c \in Calls, Attest(c)
  PROVE  ToolInv'
  <1> DEFINE v == IF Contained(call[c].req.id) THEN attest ELSE NotContained
  <1>1. v \in VerdictSet /\ VerdictOk(v, pairs)
    <2>1. NotContained \in VerdictSet /\ VerdictOk(NotContained, pairs)
      BY DEF NotContained, Verdict, VerdictSet, VerdictOk
    <2> QED
      BY <2>1, AttestIs
  <1>2. call[c].pc = "attest" /\ call' = [call EXCEPT ![c].pc = "policy", ![c].verdict = v]
    BY DEF Attest
  <1> HIDE DEF v
  <1>3. PICK k : k = [call[c] EXCEPT !.pc = "policy", !.verdict = v]
    OBVIOUS
  <1>4. /\ k \in CallRec /\ k.session = call[c].session /\ k.req = call[c].req
        /\ k.verdict = v /\ k.pc = "policy"
    BY <1>1, <1>3, ToolCallIs DEF CallRec, PCs
  <1>5. call' = [call EXCEPT ![c] = k]
    BY <1>2, <1>3, ToolCallIs DEF CallRec
  <1>6. CallOk(k, pairs, granted)
    BY <1>1, <1>2, <1>4, ToolCallIs DEF CallOk
  <1> QED
    BY <1>4, <1>5, <1>6, CallChange DEF Attest, config

\* Settling a call whose request is in hand.
LEMMA SettleKeeps ==
  ASSUME ToolInv, NEW c \in Calls, call[c].pc \notin {"idle", "gone"},
         NEW o \in {"denied", "error", "ok"}, NEW b \in Bases,
         \/ call' = Settle(c, o)
         \/ call' = [Settle(c, o) EXCEPT ![c].basis = b],
         route' = route, pairs' = pairs, owner' = owner,
         executors' = executors, store' = store, granted' = granted, ran' = ran
  PROVE  ToolInv'
  <1>1. PICK k : \/ k = [call[c] EXCEPT !.pc = "record", !.outcome = o]
                    /\ call' = Settle(c, o)
                 \/ k = [call[c] EXCEPT !.pc = "record", !.outcome = o, !.basis = b]
                    /\ call' = [Settle(c, o) EXCEPT ![c].basis = b]
    OBVIOUS
  <1>2. /\ k \in CallRec /\ k.session = call[c].session /\ k.req = call[c].req
        /\ k.verdict = call[c].verdict /\ k.pc = "record"
    BY <1>1, ToolCallIs DEF CallRec, PCs
  <1>3. call \in [Calls -> CallRec] /\ call[c] \in CallRec
    BY DEF ToolInv
  <1>4. call' = [call EXCEPT ![c] = k]
    BY <1>1, <1>3 DEF Settle, CallRec
  <1>5. CallOk(k, pairs, granted)
    BY <1>2, GoesOn
  <1> QED
    BY <1>2, <1>4, <1>5, CallChange

LEMMA RunCommandKeeps ==
  ASSUME ToolInv, NEW c \in Calls, runCommand(c)
  PROVE  ToolInv'
  <1> DEFINE ru == evaluateCommandPolicy(call[c].req, call[c].verdict)
  <1>1. call[c].pc = "policy" /\ call[c].pc \notin {"idle", "gone"}
    BY DEF runCommand
  <1>2. call[c].req \in Request /\ call[c].verdict \in VerdictSet /\ route \in Routes
    BY <1>1, ToolCallIs DEF ToolInv
  <1>3. RulingOk(ru, call[c].req, call[c].verdict)
    BY <1>2, PolicyRules
  <1> DEFINE q == IF ru.decision = "ask" THEN "approve" ELSE "execute"
  <1>4. \/ ru.decision = "deny" /\ call' = [Settle(c, "denied") EXCEPT ![c].basis = ru.basis]
        \/ call' = [Settle(c, "denied") EXCEPT ![c].basis = "deny:precheck"]
        \/ ru.decision # "deny" /\ call' = [call EXCEPT ![c].basis = ru.basis, ![c].pc = q]
    BY DEF runCommand
  <1>5. /\ route' = route /\ pairs' = pairs /\ owner' = owner /\ executors' = executors
        /\ store' = store /\ granted' = granted /\ ran' = ran
    BY DEF runCommand, config
  <1> HIDE DEF ru
  <1>6. ru.basis \in Bases /\ "deny:precheck" \in Bases
    BY <1>3 DEF RulingOk, Bases
  <1>7. CASE \/ call' = [Settle(c, "denied") EXCEPT ![c].basis = ru.basis]
             \/ call' = [Settle(c, "denied") EXCEPT ![c].basis = "deny:precheck"]
    BY <1>1, <1>5, <1>6, <1>7, SettleKeeps
  <1>8. CASE ru.decision # "deny" /\ call' = [call EXCEPT ![c].basis = ru.basis, ![c].pc = q]
    <2>1. q \in {"approve", "execute"} /\ (q = "execute" => ru.decision = "allow")
      BY <1>3, <1>8 DEF RulingOk
    <2> HIDE DEF q
    <2>2. PICK k : k = [call[c] EXCEPT !.basis = ru.basis, !.pc = q]
      OBVIOUS
    <2>3. /\ k \in CallRec /\ k.session = call[c].session /\ k.req = call[c].req
          /\ k.verdict = call[c].verdict /\ k.pc = q /\ k.basis = ru.basis
      BY <1>6, <2>1, <2>2, ToolCallIs DEF CallRec, PCs
    <2>4. call' = [call EXCEPT ![c] = k]
      BY <1>8, <2>2, ToolCallIs DEF CallRec
    <2>5. q = "execute" => AllowOk(k.req, k.verdict, k.basis)
      BY <1>3, <2>1, <2>3 DEF RulingOk
    <2>6. CallOk(k, pairs, granted)
      BY <1>1, <2>3, <2>5, ToolCallIs DEF CallOk
    <2> QED
      BY <1>5, <2>3, <2>4, <2>6, CallChange
  <1> QED
    BY <1>4, <1>7, <1>8

LEMMA PromptKeeps ==
  ASSUME ToolInv, NEW c \in Calls, Prompt(c) \/ Deny(c) \/ NoReply(c) \/ ApproveOnce(c) \/ Record(c)
  PROVE  ToolInv'
  <1>1. call[c].pc \notin {"idle", "gone"}
    BY DEF Prompt, Deny, NoReply, ApproveOnce, Record
  <1>2. /\ route' = route /\ pairs' = pairs /\ owner' = owner /\ executors' = executors
        /\ store' = store /\ granted' = granted /\ ran' = ran
    BY DEF Prompt, Deny, NoReply, ApproveOnce, Record, config
  <1>3. CASE Deny(c) \/ NoReply(c)
    <2>1. "deny:approval-denied" \in Bases
      BY DEF Bases
    <2>2. \/ call' = [Settle(c, "denied") EXCEPT ![c].basis = "deny:approval-denied"]
          \/ call' = Settle(c, "error")
      BY <1>3 DEF Deny, NoReply
    <2> QED
      BY <1>1, <1>2, <2>1, <2>2, SettleKeeps
  <1>4. CASE Prompt(c) \/ ApproveOnce(c) \/ Record(c)
    <2>1. PICK k : \/ k = [call[c] EXCEPT !.pc = "prompt"] /\ call' = [call EXCEPT ![c].pc = "prompt"]
                   \/ /\ k = [call[c] EXCEPT !.pc = "execute", !.basis = "allow:operator-approved"]
                      /\ call' = [call EXCEPT ![c].pc = "execute", ![c].basis = "allow:operator-approved"]
                   \/ /\ k = [call[c] EXCEPT !.pc = "done", !.events = call[c].events + 1]
                      /\ call' = [call EXCEPT ![c].pc = "done", ![c].events = call[c].events + 1]
      BY <1>4, ToolCallIs DEF Prompt, ApproveOnce, Record
    <2>2. call[c].events + 1 \in Nat
      BY ToolCallIs
    <2>3. /\ k \in CallRec /\ k.session = call[c].session /\ k.req = call[c].req
          /\ k.verdict = call[c].verdict
          /\ k.pc = "execute" => k.basis = "allow:operator-approved"
          /\ k.pc \notin {"idle", "gone"}
      <3>1. CASE k = [call[c] EXCEPT !.pc = "prompt"]
        BY <3>1, ToolCallIs DEF CallRec, PCs
      <3>2. CASE k = [call[c] EXCEPT !.pc = "execute", !.basis = "allow:operator-approved"]
        BY <3>2, ToolCallIs DEF CallRec, PCs, Bases
      <3>3. CASE k = [call[c] EXCEPT !.pc = "done", !.events = call[c].events + 1]
        BY <2>2, <3>3, ToolCallIs DEF CallRec, PCs
      <3> QED
        BY <2>1, <3>1, <3>2, <3>3
    <2>4. call' = [call EXCEPT ![c] = k]
      BY <2>1, ToolCallIs DEF CallRec
    <2>5. CallOk(k, pairs, granted)
      BY <1>1, <2>3, ToolCallIs DEF CallOk
    <2> QED
      BY <1>2, <2>3, <2>4, <2>5, CallChange
  <1> QED
    BY <1>3, <1>4

\* The grant whose key a call finds is for its very request.
LEMMA KeyMatches ==
  ASSUME ToolInv, NEW c \in Calls, call[c].pc \notin {"idle", "gone"}, MyKey(c) # NONE,
         NEW g, KeyFor(MyKey(c), g), g.session = call[c].session
  PROVE  Given(g, call[c].session, call[c].req, call[c].verdict)
  <1> DEFINE r == call[c].req
             v == call[c].verdict
  <1>1. r \in Request /\ v \in VerdictSet /\ VerdictOk(v, pairs)
    BY ToolCallIs DEF CallOk
  <1>2. MyKey(c) = sessionGrantKey(r, grantScope(v)) /\ grantScope(v) # NONE
    BY DEF MyKey, KeyOf
  <1>3. v.status = "attested" => v.policy \in Policies
    <2> SUFFICES ASSUME v.status = "attested" PROVE v.policy \in Policies
      OBVIOUS
    <2>1. v.pair \in 1..Len(pairs) /\ v.policy = pairs[v.pair].policy
      BY <1>1 DEF VerdictOk
    <2>2. pairs[v.pair] \in PairRec
      BY <2>1 DEF ToolInv
    <2> QED
      BY <2>1, <2>2 DEF PairRec
  <1>4. v.status # "attested" => v.policy = NONE
    BY <1>1 DEF VerdictOk
  <1>5. /\ g.req \in Request /\ g.verdict \in VerdictSet
        /\ g.verdict.status = "attested" => g.verdict.policy \in Policies
        /\ g.verdict.status # "attested" => g.verdict.policy = NONE
        /\ grantScope(g.verdict) # NONE
        /\ MyKey(c) = sessionGrantKey(g.req, grantScope(g.verdict))
    BY DEF KeyFor
  <1> HIDE DEF r, v
  <1>6. /\ [g.req EXCEPT !.readOnly = FALSE] = [r EXCEPT !.readOnly = FALSE]
        /\ grantScope(g.verdict) = grantScope(v)
    <2>1. sessionGrantKey(g.req, grantScope(g.verdict)) = sessionGrantKey(r, grantScope(v))
      BY <1>2, <1>5
    <2>2. r \in Request /\ g.req \in Request
      BY <1>1, <1>5
    <2> QED
      BY <2>1, <2>2, SameRequest
  <1>7. /\ g.verdict.status = v.status /\ g.verdict.policy = v.policy
        /\ g.verdict.status # "unattested"
    BY <1>1, <1>3, <1>4, <1>5, <1>6, SameScope
  <1> QED
    BY <1>6, <1>7 DEF Given, r, v

LEMMA UseGrantKeeps ==
  ASSUME ToolInv, NEW c \in Calls, UseGrant(c)
  PROVE  ToolInv'
  <1>1. call[c].pc \notin {"idle", "gone"} /\ Granted(c)
    BY DEF UseGrant
  <1>2. PICK i \in DOMAIN keys[call[c].session] : MyKey(c) = keys[call[c].session][i]
    BY <1>1 DEF Granted, ToSet
  <1>3. call[c].session \in Sessions
    BY <1>1, ToolCallIs
  <1>4. PICK g \in granted : /\ g.session = call[c].session
                             /\ KeyFor(keys[call[c].session][i], g)
    BY <1>2, <1>3 DEF ToolInv, KeysOk
  <1>5. Given(g, call[c].session, call[c].req, call[c].verdict)
    BY <1>1, <1>2, <1>4, KeyMatches DEF Granted
  <1>6. PICK k : k = [call[c] EXCEPT !.pc = "execute", !.basis = "allow:session-grant"]
    OBVIOUS
  <1>7. /\ k \in CallRec /\ k.session = call[c].session /\ k.req = call[c].req
        /\ k.verdict = call[c].verdict /\ k.basis = "allow:session-grant"
    BY <1>6, ToolCallIs DEF CallRec, PCs, Bases
  <1>8. call' = [call EXCEPT ![c] = k]
    BY <1>6, ToolCallIs DEF CallRec, UseGrant
  <1>9. CallOk(k, pairs, granted)
    BY <1>1, <1>4, <1>5, <1>7, ToolCallIs DEF CallOk
  <1> QED
    BY <1>7, <1>8, <1>9, CallChange DEF UseGrant, config

\* More grants excuse what fewer did.
LEMMA MoreGrants ==
  ASSUME NEW k, NEW ps, NEW gs, NEW hs, gs \subseteq hs, CallOk(k, ps, gs)
  PROVE  CallOk(k, ps, hs)
  BY DEF CallOk

LEMMA KeyIs ==
  ASSUME NEW r \in Request, NEW s \in Policies \cup {"native", "srt"}
  PROVE  sessionGrantKey(r, s) \in KeySet
  BY DEF sessionGrantKey, sessionGrantKeyAs, KeySet, Request

LEMMA BackAgain ==
  ASSUME NEW a \in Nat, NEW b, b = a - 1
  PROVE  b + 1 = a
  OBVIOUS

\* A key added to a full store pushes the oldest out.
LEMMA KeyAppended ==
  ASSUME NEW T, NEW q \in Seq(T), NEW k \in T, NEW m \in Nat \ {0}, NEW t,
         t = Append(IF Len(q) >= m THEN Tail(q) ELSE q, k)
  PROVE  t \in Seq(T) /\ \A i \in DOMAIN t : t[i] = k \/ \E j \in DOMAIN q : t[i] = q[j]
  <1>1. CASE Len(q) >= m
    <2>1. Len(q) \in Nat /\ Len(q) >= 1 /\ q # <<>>
      BY <1>1
    <2>2. Tail(q) \in Seq(T)
      BY <2>1
    <2>3. Len(Tail(q)) = Len(q) - 1
      BY <2>1
    <2>4. t = Append(Tail(q), k)
      BY <1>1
    <2>5. t \in Seq(T)
      BY <2>2, <2>4
    <2>6. DOMAIN t = 1..Len(q)
      <3>1. Len(t) = Len(Tail(q)) + 1
        BY <2>2, <2>4
      <3>2. Len(t) = Len(q)
        BY <2>1, <2>3, <3>1, BackAgain, Zenon
      <3> QED
        BY <2>5, <3>2
    <2>7. ASSUME NEW i \in DOMAIN t, i # Len(q) PROVE \E j \in DOMAIN q : t[i] = q[j]
      <3>1. i \in 1..Len(q) - 1 /\ i + 1 \in DOMAIN q
        BY <2>1, <2>6, <2>7
      <3>2. t[i] = Tail(q)[i]
        BY <2>2, <2>3, <2>4, <3>1
      <3>3. Tail(q)[i] = q[i + 1]
        BY <2>1, <2>3, <3>1
      <3> QED
        BY <3>1, <3>2, <3>3
    <2>8. t[Len(q)] = k
      <3>1. t[Len(Tail(q)) + 1] = k
        BY <2>2, <2>4
      <3> QED
        BY <2>1, <2>3, <3>1, BackAgain, Zenon
    <2> QED
      BY <2>5, <2>7, <2>8
  <1>2. CASE ~(Len(q) >= m)
    <2>1. t = Append(q, k)
      BY <1>2
    <2>2. t \in Seq(T)
      BY <2>1
    <2>3. ASSUME NEW i \in DOMAIN t PROVE t[i] = k \/ \E j \in DOMAIN q : t[i] = q[j]
      BY <2>1, <2>3
    <2> QED
      BY <2>2, <2>3
  <1> QED
    BY <1>1, <1>2

LEMMA ApproveForSessionKeeps ==
  ASSUME ToolInv, NEW c \in Calls, ApproveForSession(c)
  PROVE  ToolInv'
  <1> DEFINE s == call[c].session
             v == call[c].verdict
             g == [session |-> s, req |-> call[c].req, verdict |-> v]
  <1>1. call[c].pc \notin {"idle", "gone"} /\ MyKey(c) # NONE /\ GrantsAdd(c, MyKey(c))
    BY DEF ApproveForSession
  <1>2. /\ s \in Sessions /\ call[c].req \in Request /\ v \in VerdictSet
        /\ VerdictOk(v, pairs)
    BY <1>1, ToolCallIs DEF CallOk
  <1>3. MyKey(c) = sessionGrantKey(call[c].req, grantScope(v)) /\ grantScope(v) # NONE
    BY <1>1 DEF MyKey, KeyOf
  <1>4. /\ v.status = "attested" => v.policy \in Policies
        /\ v.status # "attested" => v.policy = NONE
    <2> SUFFICES ASSUME v.status = "attested" PROVE v.policy \in Policies
      BY <1>2 DEF VerdictOk
    <2>1. v.pair \in 1..Len(pairs) /\ v.policy = pairs[v.pair].policy
      BY <1>2 DEF VerdictOk
    <2>2. pairs[v.pair] \in PairRec
      BY <2>1 DEF ToolInv
    <2> QED
      BY <2>1, <2>2 DEF PairRec
  <1>5. g.session = s /\ KeyFor(MyKey(c), g)
    BY <1>2, <1>3, <1>4 DEF KeyFor
  <1>6. MyKey(c) \in KeySet
    <2>1. v.status \in {"none", "unattested", "sandboxed", "attested"}
      BY <1>2 DEF VerdictSet
    <2>2. grantScope(v) \in Policies \cup {"native", "srt"}
      BY <1>3, <1>4, <2>1 DEF grantScope
    <2> QED
      BY <1>2, <1>3, <2>2, KeyIs
  <1>7. granted' = granted \cup {g}
    BY DEF ApproveForSession
  <1>8. /\ route' = route /\ pairs' = pairs /\ owner' = owner /\ executors' = executors
        /\ ran' = ran
    BY DEF ApproveForSession, config
  <1> HIDE DEF g, v, s
  <1>9. keys \in [Sessions -> Seq(KeySet)] /\ keys[s] \in Seq(KeySet)
    BY <1>2 DEF ToolInv, s
  <1>10. ASSUME NEW a \in Sessions, NEW i \in DOMAIN keys[a]
         PROVE  \E h \in granted : h.session = a /\ KeyFor(keys[a][i], h)
    BY DEF ToolInv, KeysOk
  <1>11. /\ tracked' = tracked /\ gen' = gen /\ keys' \in [Sessions -> Seq(KeySet)]
         /\ KeysOk(keys', granted')
    <2>1. CASE UNCHANGED store
      BY <1>7, <1>9, <1>10, <2>1 DEF store, KeysOk
    <2>2. CASE ~UNCHANGED store
      <3>1. PICK t : t = Append(IF Len(keys[s]) >= MaxGrants THEN Tail(keys[s]) ELSE keys[s], MyKey(c))
        OBVIOUS
      <3>2. keys' = [keys EXCEPT ![s] = t] /\ tracked' = tracked /\ gen' = gen
        BY <1>1, <2>2, <3>1 DEF GrantsAdd, s
      <3>3. MaxGrants \in Nat \ {0}
        BY Bounds
      <3>4. /\ t \in Seq(KeySet)
            /\ \A i \in DOMAIN t : t[i] = MyKey(c) \/ \E j \in DOMAIN keys[s] : t[i] = keys[s][j]
        BY <1>6, <1>9, <3>1, <3>3, KeyAppended
      <3>5. keys' \in [Sessions -> Seq(KeySet)]
        BY <1>9, <3>2, <3>4
      <3>6. ASSUME NEW a \in Sessions, NEW i \in DOMAIN keys'[a]
            PROVE  \E h \in granted' : h.session = a /\ KeyFor(keys'[a][i], h)
        <4>1. CASE a = s
          <5>1. keys'[a] = t
            BY <1>9, <3>2, <4>1
          <5>2. CASE t[i] = MyKey(c)
            BY <1>5, <1>7, <4>1, <5>1, <5>2
          <5>3. CASE t[i] # MyKey(c)
            BY <1>7, <1>10, <3>4, <3>6, <4>1, <5>1, <5>3
          <5> QED
            BY <5>2, <5>3
        <4>2. CASE a # s
          BY <1>7, <1>9, <1>10, <3>2, <3>6, <4>2
        <4> QED
          BY <4>1, <4>2
      <3> QED
        BY <3>2, <3>5, <3>6 DEF KeysOk
    <2> QED
      BY <2>1, <2>2
  <1>12. PICK k : k = [call[c] EXCEPT !.pc = "execute",
                                      !.basis = "allow:operator-approved-session-grant"]
    OBVIOUS
  <1>13. /\ k \in CallRec /\ k.session = call[c].session /\ k.req = call[c].req
         /\ k.verdict = call[c].verdict /\ k.basis = "allow:operator-approved-session-grant"
    BY <1>12, ToolCallIs DEF CallRec, PCs, Bases
  <1>14. call' = [call EXCEPT ![c] = k]
    BY <1>12, ToolCallIs DEF CallRec, ApproveForSession
  <1>15. CallOk(k, pairs, granted)
    BY <1>1, <1>13, ToolCallIs DEF CallOk
  <1>16. call' \in [Calls -> CallRec]
    BY <1>13, <1>14 DEF ToolInv
  <1>17. ASSUME NEW d \in Calls PROVE CallOk(call'[d], pairs, granted')
    <2>1. CallOk(call'[d], pairs, granted)
      BY <1>14, <1>15 DEF ToolInv
    <2> QED
      BY <1>7, <2>1, MoreGrants
  <1>18. (\A d \in Calls : CallOk(call[d], pairs, granted))'
    BY <1>8, <1>17 DEF CallOk, AllowOk, Contained, Admitted
  <1>19. ContainmentKept'
    <2>1. GrantWasGiven /\ granted \subseteq granted'
      BY <1>7 DEF ToolInv, ContainmentKept
    <2>2. GrantWasGiven'
      BY <1>8, <2>1, Zenon DEF GrantWasGiven
    <2> QED
      BY <1>8, <2>2 DEF ToolInv, ContainmentKept, EscapeIsAsked, NoUnaskedExec,
         NoExecutorOutlivesLease, EnvelopeRunsWhereAttested
  <1>20. KeysOk(keys, granted)'
    BY <1>11 DEF KeysOk
  <1> QED
    BY <1>8, <1>11, <1>16, <1>18, <1>19, <1>20 DEF ToolInv

-----------------------------------------------------------------------------
(* A call begins.                                                          *)

\* A session that enters a full store empties the oldest one's keys.
LEMMA StoreKeeps ==
  ASSUME ToolInv, NEW s \in Sessions, UNCHANGED store \/ StoreFor(s)
  PROVE  /\ tracked' \in Seq(Sessions) /\ gen' \in [Sessions -> Nat]
         /\ keys' \in [Sessions -> Seq(KeySet)] /\ KeysOk(keys', granted)
  <1>1. /\ tracked \in Seq(Sessions) /\ gen \in [Sessions -> Nat]
        /\ keys \in [Sessions -> Seq(KeySet)] /\ KeysOk(keys, granted)
    BY DEF ToolInv
  <1>2. CASE UNCHANGED store
    BY <1>1, <1>2 DEF store
  <1>3. CASE ~UNCHANGED store
    <2>1. /\ tracked' = Append(IF Len(tracked) >= MaxTracked THEN Tail(tracked) ELSE tracked, s)
          /\ gen' = IF Len(tracked) >= MaxTracked THEN [gen EXCEPT ![Head(tracked)] = @ + 1] ELSE gen
          /\ keys' = IF Len(tracked) >= MaxTracked
                     THEN [keys EXCEPT ![Head(tracked)] = <<>>, ![s] = <<>>]
                     ELSE [keys EXCEPT ![s] = <<>>]
      BY <1>3 DEF StoreFor
    <2>2. MaxTracked \in Nat \ {0}
      BY Bounds
    <2>3. PICK t : t = Append(IF Len(tracked) >= MaxTracked THEN Tail(tracked) ELSE tracked, s)
      OBVIOUS
    <2>4. tracked' \in Seq(Sessions)
      <3>1. t \in Seq(Sessions)
        BY <1>1, <2>2, <2>3, KeyAppended
      <3> QED
        BY <2>1, <2>3, <3>1
    <2>5. gen' \in [Sessions -> Nat]
      <3>1. CASE Len(tracked) >= MaxTracked
        <4>1. Head(tracked) \in Sessions
          BY <1>1, <2>2, <3>1
        <4>2. gen[Head(tracked)] + 1 \in Nat
          BY <1>1, <4>1
        <4> QED
          BY <1>1, <2>1, <3>1, <4>2
      <3>2. CASE ~(Len(tracked) >= MaxTracked)
        BY <1>1, <2>1, <3>2
      <3> QED
        BY <3>1, <3>2
    <2>6. \A a \in Sessions : keys'[a] \in {keys[a], <<>>}
      BY <1>1, <2>1
    <2>7. keys' \in [Sessions -> Seq(KeySet)]
      <3>1. <<>> \in Seq(KeySet)
        OBVIOUS
      <3> HIDE DEF KeySet
      <3> QED
        BY <1>1, <2>1, <3>1
    <2>8. ASSUME NEW a \in Sessions, NEW i \in DOMAIN keys'[a]
          PROVE  \E g \in granted : g.session = a /\ KeyFor(keys'[a][i], g)
      <3>1. keys'[a] # <<>>
        BY <2>8
      <3>2. keys'[a] = keys[a]
        BY <2>6, <3>1
      <3> QED
        BY <1>1, <2>8, <3>2 DEF KeysOk
    <2> QED
      BY <2>4, <2>5, <2>7, <2>8 DEF KeysOk
  <1> QED
    BY <1>2, <1>3

LEMMA BeginKeeps ==
  ASSUME ToolInv, NEW c \in Calls, Begin(c)
  PROVE  ToolInv'
  <1>1. PICK s \in Sessions, r \in Request :
          /\ Admitted(r)
          /\ IF loopback THEN StoreFor(s) ELSE UNCHANGED store
          /\ call' = [call EXCEPT ![c] = [Idle EXCEPT !.pc = "attest", !.session = s, !.req = r,
                        !.gen = IF loopback THEN gen'[s] ELSE 0]]
    BY DEF Begin
  <1>2. /\ route' = route /\ pairs' = pairs /\ owner' = owner /\ executors' = executors
        /\ granted' = granted /\ ran' = ran
    BY DEF Begin, config
  <1>3. /\ tracked' \in Seq(Sessions) /\ gen' \in [Sessions -> Nat]
        /\ keys' \in [Sessions -> Seq(KeySet)] /\ KeysOk(keys', granted)
    BY <1>1, StoreKeeps
  <1>4. PICK n : n = IF loopback THEN gen'[s] ELSE 0
    OBVIOUS
  <1>5. n \in Nat
    BY <1>3, <1>4
  <1>6. PICK k : k = [Idle EXCEPT !.pc = "attest", !.session = s, !.req = r, !.gen = n]
    OBVIOUS
  <1>7. call' = [call EXCEPT ![c] = k]
    BY <1>1, <1>4, <1>6
  <1>8. NotContained \in VerdictSet /\ VerdictOk(NotContained, pairs)
    BY DEF NotContained, Verdict, VerdictSet, VerdictOk
  <1>9. /\ k \in CallRec /\ k.session = s /\ k.req = r /\ k.verdict = NotContained
        /\ k.pc = "attest"
    BY <1>5, <1>6, <1>8 DEF Idle, CallRec, PCs, Bases
  <1>10. CallOk(k, pairs, granted)
    BY <1>1, <1>8, <1>9 DEF CallOk
  <1>11. call' \in [Calls -> CallRec]
    BY <1>7, <1>9 DEF ToolInv
  <1>12. ASSUME NEW d \in Calls PROVE CallOk(call'[d], pairs, granted)
    BY <1>7, <1>10 DEF ToolInv
  <1>13. (\A d \in Calls : CallOk(call[d], pairs, granted))'
    BY <1>2, <1>12 DEF CallOk, AllowOk, Contained, Admitted
  <1>14. KeysOk(keys, granted)'
    BY <1>2, <1>3 DEF KeysOk
  <1>15. ContainmentKept'
    BY <1>2 DEF ToolInv, ContainmentKept, EscapeIsAsked, NoUnaskedExec, NoExecutorOutlivesLease,
       EnvelopeRunsWhereAttested, GrantWasGiven
  <1> QED
    BY <1>2, <1>3, <1>11, <1>13, <1>14, <1>15 DEF ToolInv

-----------------------------------------------------------------------------
(* A command starts.                                                       *)

\* What one command that was started shows.
RunOk(r, gs) ==
    /\ (r.req.escapes /\ r.req.id = "bash") =>
         r.basis = "allow:operator-approved" /\ r.where = "runtime"
    /\ (r.where = "runtime" /\ Registry[r.req.id].effects \cap EXEC_EFFECTS # {}) =>
         \/ r.basis \in {"allow:operator-approved", "allow:session-grant",
                         "allow:operator-approved-session-grant"}
         \/ r.basis = "allow:bash-allowlist" /\ r.req.readOnly
    /\ r.basis = "allow:attested-envelope" =>
         /\ r.where = "executor"
         /\ r.pair = r.verdict.pair /\ r.policy = r.verdict.policy
         /\ r.verdict.granted
    /\ r.basis = "allow:session-grant" =>
         \E g \in gs : Given(g, r.session, r.req, r.verdict)

LEMMA RunsOk ==
  ContainmentKept <=> /\ NoExecutorOutlivesLease
                      /\ \A r \in ran : RunOk(r, granted)
  BY DEF ContainmentKept, EscapeIsAsked, NoUnaskedExec, EnvelopeRunsWhereAttested,
     GrantWasGiven, RunOk, Given

\* A step of one call that starts no executor but may start a command.
LEMMA StartKeeps ==
  ASSUME ToolInv, NEW c \in Calls, NEW k \in CallRec, CallOk(k, pairs, granted),
         call' = [call EXCEPT ![c] = k], route' = route, pairs' = pairs, owner' = owner,
         store' = store, granted' = granted,
         NEW t, RunOk(t, granted), ran' = ran \cup {t},
         \A e \in executors' : /\ e.pair \in 1..Len(pairs) /\ pairs[e.pair].live
                               /\ e.call \in Calls
  PROVE  ToolInv'
  <1>1. call' \in [Calls -> CallRec]
    BY DEF ToolInv
  <1>2. ASSUME NEW d \in Calls PROVE CallOk(call'[d], pairs, granted)
    BY DEF ToolInv
  <1>3. (\A d \in Calls : CallOk(call[d], pairs, granted))'
    BY <1>2 DEF CallOk, AllowOk, Contained, Admitted
  <1>4. tracked' = tracked /\ keys' = keys /\ gen' = gen
    BY DEF store
  <1>5. KeysOk(keys, granted)'
    BY <1>4 DEF ToolInv, KeysOk
  <1>6. \A r \in ran : RunOk(r, granted)
    BY RunsOk DEF ToolInv
  <1>7. ContainmentKept'
    <2>1. NoExecutorOutlivesLease'
      BY DEF NoExecutorOutlivesLease
    <2>2. \A r \in ran' : RunOk(r, granted')
      BY <1>6
    <2>3. (\A r \in ran : RunOk(r, granted))'
      BY <2>2 DEF RunOk
    <2> QED
      BY <2>1, <2>3, RunsOk, PTL
  <1>8. (\A e \in executors : e.pair \in 1..Len(pairs) /\ pairs[e.pair].live)'
    OBVIOUS
  <1>9. (\A e \in executors : e.call \in Calls)'
    OBVIOUS
  <1> QED
    BY <1>1, <1>3, <1>4, <1>5, <1>7, <1>8, <1>9 DEF ToolInv

\* Where a command runs that the runtime starts itself.
LEMMA RunHereKeeps ==
  ASSUME ToolInv, NEW c \in Calls, RunHere(c)
  PROVE  ToolInv'
  <1>1. call[c].pc = "execute" /\ call[c].pc \notin {"idle", "gone"}
    BY DEF RunHere
  <1>2. /\ call[c] \in CallRec /\ call[c].session \in Sessions /\ call[c].req \in Request
        /\ Admitted(call[c].req) /\ CallOk(call[c], pairs, granted)
    BY <1>1, ToolCallIs
  <1>3. /\ route' = route /\ pairs' = pairs /\ owner' = owner /\ executors' = executors
        /\ store' = store /\ granted' = granted
    BY DEF RunHere, config
  <1>4. CASE ran' = ran /\ call' = Settle(c, "error")
    <2>1. "none" \in Bases
      BY DEF Bases
    <2> QED
      BY <1>1, <1>3, <1>4, <2>1, SettleKeeps
  <1>5. CASE /\ MayEscape(c) /\ call' = Settle(c, "ok")
             /\ Started(c, IF Contained(call[c].req.id) /\ ~Escapes(c) THEN "sandbox" ELSE "runtime", 0)
    <2> DEFINE w == IF Contained(call[c].req.id) /\ ~Escapes(c) THEN "sandbox" ELSE "runtime"
    <2>1. PICK t : t = [call |-> c, session |-> call[c].session, req |-> call[c].req,
                        basis |-> call[c].basis, verdict |-> call[c].verdict, where |-> w,
                        pair |-> 0, policy |-> NONE]
      OBVIOUS
    <2>2. ran' = ran \cup {t}
      BY <1>5, <2>1 DEF Started
    <2>3. /\ t.session = call[c].session /\ t.req = call[c].req /\ t.basis = call[c].basis
          /\ t.verdict = call[c].verdict /\ t.where = w
      BY <2>1
    <2>4. \/ call[c].basis \in {"allow:operator-approved", "allow:operator-approved-session-grant"}
          \/ /\ call[c].basis = "allow:session-grant"
             /\ \E g \in granted : Given(g, call[c].session, call[c].req, call[c].verdict)
          \/ AllowOk(call[c].req, call[c].verdict, call[c].basis)
      BY <1>1, <1>2 DEF CallOk
    <2>5. ~(route = "contained" /\ Contained(call[c].req.id))
      BY DEF RunHere
    <2>6. (t.req.escapes /\ t.req.id = "bash") =>
            t.basis = "allow:operator-approved" /\ t.where = "runtime"
      <3>1. call[c].req.escapes => route = "sandboxed"
        BY <1>2 DEF Admitted
      <3> QED
        BY <1>5, <2>3, <3>1 DEF MayEscape, Escapes
    <2>7. (t.where = "runtime" /\ Registry[t.req.id].effects \cap EXEC_EFFECTS # {}) =>
            \/ t.basis \in {"allow:operator-approved", "allow:session-grant",
                            "allow:operator-approved-session-grant"}
            \/ t.basis = "allow:bash-allowlist" /\ t.req.readOnly
      <3>1. CASE w = "sandbox"
        BY <2>3, <3>1
      <3>2. CASE Escapes(c)
        BY <1>5, <2>3, <3>2 DEF MayEscape
      <3>3. CASE ~Contained(call[c].req.id)
        BY <2>3, <2>4, <3>3 DEF AllowOk
      <3> QED
        BY <3>1, <3>2, <3>3
    <2>8. t.basis # "allow:attested-envelope"
      BY <2>3, <2>4, <2>5 DEF AllowOk
    <2>9. t.basis = "allow:session-grant" =>
            \E g \in granted : Given(g, t.session, t.req, t.verdict)
      BY <2>3, <2>4 DEF AllowOk
    <2>10. RunOk(t, granted)
      BY <2>6, <2>7, <2>8, <2>9 DEF RunOk
    <2>11. PICK k : k = [call[c] EXCEPT !.pc = "record", !.outcome = "ok"]
      OBVIOUS
    <2>12. /\ k \in CallRec /\ k.session = call[c].session /\ k.req = call[c].req
           /\ k.verdict = call[c].verdict /\ k.pc = "record"
      BY <1>2, <2>11 DEF CallRec, PCs
    <2>13. call' = [call EXCEPT ![c] = k]
      BY <1>2, <1>5, <2>11 DEF Settle, CallRec
    <2>14. CallOk(k, pairs, granted)
      BY <1>1, <2>12, GoesOn
    <2>15. \A e \in executors' : /\ e.pair \in 1..Len(pairs) /\ pairs[e.pair].live
                                 /\ e.call \in Calls
      BY <1>3 DEF ToolInv
    <2> HIDE DEF w
    <2> QED
      BY <1>3, <2>2, <2>10, <2>12, <2>13, <2>14, <2>15, StartKeeps
  <1> QED
    BY <1>4, <1>5 DEF RunHere

\* The socket's owner starts the executor under its own lease.
LEMMA ExecKeeps ==
  ASSUME ToolInv, NEW c \in Calls, Exec(c)
  PROVE  ToolInv'
  <1>1. call[c].pc = "execute" /\ call[c].pc \notin {"idle", "gone"}
    BY DEF Exec
  <1>2. /\ call[c] \in CallRec /\ call[c].session \in Sessions /\ call[c].req \in Request
        /\ Admitted(call[c].req) /\ CallOk(call[c], pairs, granted)
    BY <1>1, ToolCallIs
  <1>3. /\ route' = route /\ pairs' = pairs /\ owner' = owner
        /\ store' = store /\ granted' = granted
    BY DEF Exec, config
  <1>4. CASE ran' = ran /\ executors' = executors /\ call' = Settle(c, "error")
    <2>1. "none" \in Bases
      BY DEF Bases
    <2> QED
      BY <1>1, <1>3, <1>4, <2>1, SettleKeeps
  <1>5. CASE /\ owner # 0 /\ BindingOf(c) \in {0, owner} /\ pairs[owner].live
             /\ executors' = executors \cup {[call |-> c, pair |-> owner, reaped |-> FALSE]}
             /\ Started(c, "executor", owner)
             /\ call' = [call EXCEPT ![c].pc = "running"]
    <2>1. PICK t : t = [call |-> c, session |-> call[c].session, req |-> call[c].req,
                        basis |-> call[c].basis, verdict |-> call[c].verdict,
                        where |-> "executor", pair |-> owner, policy |-> pairs[owner].policy]
      OBVIOUS
    <2>2. ran' = ran \cup {t}
      BY <1>5, <2>1 DEF Started
    <2>3. /\ t.session = call[c].session /\ t.req = call[c].req /\ t.basis = call[c].basis
          /\ t.verdict = call[c].verdict /\ t.where = "executor" /\ t.pair = owner
          /\ t.policy = pairs[owner].policy
      BY <2>1
    <2>4. \/ call[c].basis \in {"allow:operator-approved", "allow:operator-approved-session-grant"}
          \/ /\ call[c].basis = "allow:session-grant"
             /\ \E g \in granted : Given(g, call[c].session, call[c].req, call[c].verdict)
          \/ AllowOk(call[c].req, call[c].verdict, call[c].basis)
      BY <1>1, <1>2 DEF CallOk
    <2>5. owner \in 1..Len(pairs)
      BY <1>5 DEF ToolInv
    <2>6. ~t.req.escapes
      BY <1>2, <2>3 DEF Admitted, Exec, Request
    <2>7. t.basis = "allow:attested-envelope" =>
            t.pair = t.verdict.pair /\ t.policy = t.verdict.policy /\ t.verdict.granted
      <3> SUFFICES ASSUME call[c].basis = "allow:attested-envelope"
                   PROVE  /\ call[c].verdict.pair = owner /\ call[c].verdict.granted
                          /\ call[c].verdict.policy = pairs[owner].policy
        BY <2>3
      <3>1. call[c].verdict.status = "attested" /\ call[c].verdict.granted
        BY <2>4 DEF AllowOk
      <3>2. /\ call[c].verdict.pair \in 1..Len(pairs)
            /\ call[c].verdict.policy = pairs[call[c].verdict.pair].policy
        BY <1>2, <3>1 DEF CallOk, VerdictOk
      <3>3. call[c].verdict.pair = owner
        BY <1>5, <3>2 DEF BindingOf
      <3> QED
        BY <3>1, <3>2, <3>3
    <2>8. t.basis = "allow:session-grant" =>
            \E g \in granted : Given(g, t.session, t.req, t.verdict)
      BY <2>3, <2>4 DEF AllowOk
    <2>9. RunOk(t, granted)
      BY <2>3, <2>6, <2>7, <2>8 DEF RunOk
    <2>10. PICK k : k = [call[c] EXCEPT !.pc = "running"]
      OBVIOUS
    <2>11. /\ k \in CallRec /\ k.session = call[c].session /\ k.req = call[c].req
           /\ k.verdict = call[c].verdict /\ k.pc = "running"
      BY <1>2, <2>10 DEF CallRec, PCs
    <2>12. call' = [call EXCEPT ![c] = k]
      BY <1>2, <1>5, <2>10 DEF CallRec
    <2>13. CallOk(k, pairs, granted)
      BY <1>1, <2>11, GoesOn
    <2>14. \A e \in executors' : /\ e.pair \in 1..Len(pairs) /\ pairs[e.pair].live
                                 /\ e.call \in Calls
      BY <1>5, <2>5 DEF ToolInv
    <2> QED
      BY <1>3, <2>2, <2>9, <2>11, <2>12, <2>13, <2>14, StartKeeps
  <1> QED
    BY <1>4, <1>5 DEF Exec

-----------------------------------------------------------------------------
(* The supervisors and the operator.                                       *)

\* A call is left as it is, goes with its runtime or is settled.
CallEnds(k, l) ==
    \/ l = k
    \/ /\ l.verdict = k.verdict
       /\ \/ l.pc = "gone"
          \/ /\ l.pc = "record" /\ k.pc \notin {"idle", "gone"}
             /\ l.session = k.session /\ l.req = k.req

\* A step that starts no command and takes no policy from a supervisor.
LEMMA WorldKeeps ==
  ASSUME ToolInv, route' = route, store' = store, granted' = granted, ran' = ran,
         pairs' \in Seq(PairRec), owner' \in 0..Len(pairs'), Len(pairs) <= Len(pairs'),
         \A p \in 1..Len(pairs) : pairs'[p].policy = pairs[p].policy,
         \A e \in executors' : /\ e.pair \in 1..Len(pairs') /\ pairs'[e.pair].live
                               /\ e.call \in Calls,
         call' \in [Calls -> CallRec], \A d \in Calls : CallEnds(call[d], call'[d])
  PROVE  ToolInv'
  <1>1. Len(pairs) \in Nat /\ Len(pairs') \in Nat
    BY DEF ToolInv
  <1>2. ASSUME NEW v, VerdictOk(v, pairs) PROVE VerdictOk(v, pairs')
    BY <1>1, <1>2 DEF VerdictOk
  <1>3. ASSUME NEW d \in Calls PROVE CallOk(call'[d], pairs', granted)
    <2>1. CallOk(call[d], pairs, granted) /\ VerdictOk(call[d].verdict, pairs')
      BY <1>2 DEF ToolInv, CallOk
    <2>2. CASE call'[d] = call[d]
      BY <2>1, <2>2 DEF CallOk
    <2>3. CASE call'[d].pc = "gone" /\ call'[d].verdict = call[d].verdict
      BY <2>1, <2>3 DEF CallOk
    <2>4. CASE /\ call'[d].pc = "record" /\ call[d].pc \notin {"idle", "gone"}
               /\ call'[d].verdict = call[d].verdict
               /\ call'[d].session = call[d].session /\ call'[d].req = call[d].req
      BY <2>1, <2>4 DEF CallOk
    <2> QED
      BY <2>2, <2>3, <2>4 DEF CallEnds
  <1>4. (\A d \in Calls : CallOk(call[d], pairs, granted))'
    BY <1>3 DEF CallOk, AllowOk, Contained, Admitted
  <1>5. tracked' = tracked /\ keys' = keys /\ gen' = gen
    BY DEF store
  <1>6. KeysOk(keys, granted)'
    BY <1>5 DEF ToolInv, KeysOk
  <1>7. ContainmentKept'
    <2>1. NoExecutorOutlivesLease'
      BY DEF NoExecutorOutlivesLease
    <2> QED
      BY <2>1 DEF ToolInv, ContainmentKept, EscapeIsAsked, NoUnaskedExec,
         EnvelopeRunsWhereAttested, GrantWasGiven
  <1>8. /\ (\A e \in executors : e.pair \in 1..Len(pairs) /\ pairs[e.pair].live)'
        /\ (\A e \in executors : e.call \in Calls)'
    OBVIOUS
  <1> QED
    BY <1>4, <1>5, <1>6, <1>7, <1>8 DEF ToolInv

LEMMA ReapKeeps ==
  ASSUME ToolInv, NEW e \in executors, Reap(e) \/ Release(e)
  PROVE  ToolInv'
  <1>1. /\ route' = route /\ pairs' = pairs /\ owner' = owner /\ store' = store
        /\ granted' = granted /\ ran' = ran
    BY DEF Reap, Release, config
  <1>2. \A f \in executors : /\ f.pair \in 1..Len(pairs) /\ pairs[f.pair].live /\ f.call \in Calls
    BY DEF ToolInv
  <1>3. \A f \in executors' : /\ f.pair \in 1..Len(pairs) /\ pairs[f.pair].live /\ f.call \in Calls
    <2>1. PICK h : h = [e EXCEPT !.reaped = TRUE]
      OBVIOUS
    <2>2. h.pair = e.pair /\ h.call = e.call
      BY <2>1
    <2>3. executors' \subseteq executors \cup {h}
      BY <2>1 DEF Reap, Release
    <2> QED
      BY <1>2, <2>2, <2>3
  <1>4. CASE call' = call
    BY <1>1, <1>3, <1>4, WorldKeeps DEF ToolInv, CallEnds
  <1>5. CASE call[e.call].pc = "running" /\ call' = Settle(e.call, "ok")
    <2>1. e.call \in Calls /\ call \in [Calls -> CallRec]
      BY DEF ToolInv
    <2>2. PICK k : k = [call[e.call] EXCEPT !.pc = "record", !.outcome = "ok"]
      OBVIOUS
    <2>3. call[e.call] \in CallRec
      BY <2>1
    <2>4. /\ k \in CallRec /\ k.verdict = call[e.call].verdict /\ k.pc = "record"
          /\ k.session = call[e.call].session /\ k.req = call[e.call].req
      BY <2>2, <2>3 DEF CallRec, PCs
    <2>5. call' = [call EXCEPT ![e.call] = k]
      BY <1>5, <2>1, <2>2, <2>3 DEF Settle, CallRec
    <2>6. call' \in [Calls -> CallRec]
      BY <2>1, <2>4, <2>5
    <2>7. \A d \in Calls : CallEnds(call[d], call'[d])
      BY <1>5, <2>1, <2>4, <2>5 DEF CallEnds
    <2> QED
      BY <1>1, <1>3, <2>6, <2>7, WorldKeeps DEF ToolInv
  <1> QED
    BY <1>4, <1>5 DEF Reap, Release

LEMMA OperatorKeeps ==
  ASSUME ToolInv, EditGrant \/ Serve \/ \E p \in 1..Len(pairs) : ChangePlan(p)
  PROVE  ToolInv'
  <1>1. /\ route' = route /\ executors' = executors /\ call' = call /\ store' = store
        /\ granted' = granted /\ ran' = ran
    BY DEF EditGrant, Serve, ChangePlan, config
  <1>2. call' \in [Calls -> CallRec] /\ \A d \in Calls : CallEnds(call[d], call'[d])
    BY <1>1 DEF ToolInv, CallEnds
  <1>3. /\ pairs \in Seq(PairRec) /\ Len(pairs) \in Nat /\ owner \in 0..Len(pairs)
        /\ \A e \in executors : e.pair \in 1..Len(pairs) /\ pairs[e.pair].live /\ e.call \in Calls
    BY DEF ToolInv
  <1>4. CASE EditGrant
    BY <1>1, <1>2, <1>3, <1>4, WorldKeeps DEF EditGrant
  <1>5. CASE Serve
    <2>1. PICK pol \in Policies, probe \in BOOLEAN : pairs' = Append(pairs, NewPair(pol, probe))
      BY <1>5 DEF Serve
    <2>2. NewPair(pol, probe) \in PairRec
      BY DEF NewPair, PairRec
    <2>3. pairs' \in Seq(PairRec)
      BY <1>3, <2>1, <2>2
    <2>4. Len(pairs') = Len(pairs) + 1
      BY <1>3, <2>1
    <2>5. \A p \in 1..Len(pairs) : pairs'[p] = pairs[p]
      BY <1>3, <2>1
    <2>6. owner' \in 0..Len(pairs') /\ Len(pairs) <= Len(pairs') /\ 1..Len(pairs) \subseteq 1..Len(pairs')
      BY <1>3, <1>5, <2>4 DEF Serve
    <2>7. \A e \in executors' : e.pair \in 1..Len(pairs') /\ pairs'[e.pair].live /\ e.call \in Calls
      BY <1>1, <1>3, <2>5, <2>6
    <2>8. \A p \in 1..Len(pairs) : pairs'[p].policy = pairs[p].policy
      BY <2>5
    <2> QED
      BY <1>1, <1>2, <2>3, <2>6, <2>7, <2>8, WorldKeeps
  <1>6. ASSUME NEW p \in 1..Len(pairs), ChangePlan(p) PROVE ToolInv'
    <2>1. pairs[p] \in PairRec
      BY <1>3
    <2>2. PICK k : k = [pairs[p] EXCEPT !.changed = TRUE]
      OBVIOUS
    <2>3. k \in PairRec /\ k.policy = pairs[p].policy /\ k.live = pairs[p].live
      BY <2>1, <2>2 DEF PairRec
    <2>4. pairs' = [pairs EXCEPT ![p] = k]
      BY <1>3, <1>6, <2>1, <2>2 DEF ChangePlan, PairRec
    <2>5. pairs' \in Seq(PairRec)
      BY <1>3, <2>3, <2>4
    <2>6. Len(pairs') = Len(pairs)
      BY <1>3, <2>4
    <2>7. \A q \in 1..Len(pairs) : /\ pairs'[q].policy = pairs[q].policy
                                   /\ pairs'[q].live = pairs[q].live
      BY <1>3, <2>3, <2>4
    <2>8. owner' \in 0..Len(pairs')
      BY <1>3, <1>6, <2>6 DEF ChangePlan
    <2>9. \A e \in executors' : e.pair \in 1..Len(pairs') /\ pairs'[e.pair].live /\ e.call \in Calls
      BY <1>1, <1>3, <2>6, <2>7
    <2>10. Len(pairs) <= Len(pairs')
      BY <1>3, <2>6
    <2> QED
      BY <1>1, <1>2, <2>5, <2>7, <2>8, <2>9, <2>10, WorldKeeps
  <1> QED
    BY <1>4, <1>5, <1>6

\* The lease takes its executors with it, and the calls that waited on them.
LEMMA ExpireLeaseKeeps ==
  ASSUME ToolInv, NEW p \in 1..Len(pairs), ExpireLease(p)
  PROVE  ToolInv'
  <1>1. /\ route' = route /\ store' = store /\ granted' = granted /\ ran' = ran /\ owner' = 0
        /\ executors' = {e \in executors : e.pair # p}
        /\ pairs' = [pairs EXCEPT ![p].live = FALSE]
    BY DEF ExpireLease, ExpireLeaseAs, config
  <1>2. /\ pairs \in Seq(PairRec) /\ Len(pairs) \in Nat
        /\ \A e \in executors : e.pair \in 1..Len(pairs) /\ pairs[e.pair].live /\ e.call \in Calls
        /\ call \in [Calls -> CallRec]
    BY DEF ToolInv
  <1>3. pairs[p] \in PairRec
    BY <1>2
  <1>4. PICK k : k = [pairs[p] EXCEPT !.live = FALSE]
    OBVIOUS
  <1>5. k \in PairRec /\ k.policy = pairs[p].policy
    BY <1>3, <1>4 DEF PairRec
  <1>6. pairs' = [pairs EXCEPT ![p] = k]
    BY <1>1, <1>2, <1>3, <1>4 DEF PairRec
  <1>7. pairs' \in Seq(PairRec)
    BY <1>2, <1>5, <1>6
  <1>8. Len(pairs') = Len(pairs)
    BY <1>2, <1>6
  <1>9. /\ \A q \in 1..Len(pairs) : pairs'[q].policy = pairs[q].policy
        /\ \A q \in 1..Len(pairs) : q # p => pairs'[q] = pairs[q]
    BY <1>2, <1>5, <1>6
  <1>10. owner' \in 0..Len(pairs') /\ Len(pairs) <= Len(pairs')
    BY <1>1, <1>2, <1>8
  <1>11. \A e \in executors' : e.pair \in 1..Len(pairs') /\ pairs'[e.pair].live /\ e.call \in Calls
    BY <1>1, <1>2, <1>8, <1>9
  <1>12. ASSUME NEW d \in Calls
         PROVE  /\ [call[d] EXCEPT !.pc = "gone"] \in CallRec
                /\ CallEnds(call[d], [call[d] EXCEPT !.pc = "gone"])
                /\ CallEnds(call[d], call[d])
                /\ call[d].pc = "running" =>
                     Settle(d, "error")[d] \in CallRec /\ CallEnds(call[d], Settle(d, "error")[d])
    <2>1. call[d] \in CallRec
      BY <1>2
    <2>2. PICK g : g = [call[d] EXCEPT !.pc = "gone"]
      OBVIOUS
    <2>3. g \in CallRec /\ g.pc = "gone" /\ g.verdict = call[d].verdict
      BY <2>1, <2>2 DEF CallRec, PCs
    <2>4. PICK h : h = [call[d] EXCEPT !.pc = "record", !.outcome = "error"]
      OBVIOUS
    <2>5. /\ h \in CallRec /\ h.pc = "record" /\ h.verdict = call[d].verdict
          /\ h.session = call[d].session /\ h.req = call[d].req
      BY <2>1, <2>4 DEF CallRec, PCs
    <2>6. Settle(d, "error")[d] = h
      BY <1>2, <2>1, <2>4 DEF Settle, CallRec
    <2> QED
      BY <2>2, <2>3, <2>5, <2>6 DEF CallEnds
  <1>13. call' \in [Calls -> CallRec] /\ \A d \in Calls : CallEnds(call[d], call'[d])
    <2>1. CASE p = 1
      <3>1. call' = [c \in Calls |-> [call[c] EXCEPT !.pc = "gone"]]
        BY <2>1 DEF ExpireLease, ExpireLeaseAs
      <3> QED
        BY <1>12, <3>1, Zenon
    <2>2. CASE p # 1
      <3>1. call' = [c \in Calls |-> IF call[c].pc = "running"
                                        /\ \E e \in executors : e.call = c /\ e.pair = p
                                     THEN Settle(c, "error")[c] ELSE call[c]]
        BY <2>2 DEF ExpireLease, ExpireLeaseAs
      <3>2. ASSUME NEW d \in Calls PROVE call'[d] \in CallRec /\ CallEnds(call[d], call'[d])
        <4>1. call'[d] = IF call[d].pc = "running"
                            /\ \E e \in executors : e.call = d /\ e.pair = p
                         THEN Settle(d, "error")[d] ELSE call[d]
          BY <3>1, Zenon
        <4> QED
          BY <1>2, <1>12, <4>1
      <3> QED
        BY <3>1, <3>2, Zenon
    <2> QED
      BY <2>1, <2>2
  <1> QED
    BY <1>1, <1>7, <1>9, <1>10, <1>11, <1>13, WorldKeeps

LEMMA ToolInitHolds == ASSUME ToolInit PROVE ToolInv
  <1>1. NotContained \in VerdictSet /\ VerdictOk(NotContained, pairs)
    BY DEF NotContained, Verdict, VerdictSet, VerdictOk
  <1>2. Idle \in CallRec /\ Idle.pc = "idle" /\ Idle.verdict = NotContained
    BY <1>1 DEF Idle, CallRec, PCs, Bases
  <1>3. CallOk(Idle, pairs, granted)
    BY <1>1, <1>2 DEF CallOk
  <1>4. call = [c \in Calls |-> Idle]
    BY DEF ToolInit
  <1>5. call \in [Calls -> CallRec] /\ \A c \in Calls : CallOk(call[c], pairs, granted)
    BY <1>2, <1>3, <1>4
  <1>6. pairs \in Seq(PairRec) /\ owner \in 0..Len(pairs)
    <2>1. PICK pol \in Policies, probe \in BOOLEAN :
            pairs = IF route = "contained" THEN <<NewPair(pol, probe)>> ELSE <<>>
      BY DEF ToolInit
    <2>2. PICK k : k = NewPair(pol, probe)
      OBVIOUS
    <2>3. k \in PairRec
      BY <2>2 DEF NewPair, PairRec
    <2>4. pairs = <<k>> \/ pairs = <<>>
      BY <2>1, <2>2
    <2>5. pairs \in Seq(PairRec)
      <3>1. <<k>> \in Seq(PairRec)
        BY <2>3
      <3>2. <<>> \in Seq(PairRec)
        OBVIOUS
      <3> QED
        BY <2>4, <3>1, <3>2
    <2>6. Len(pairs) \in Nat
      BY <2>5
    <2> QED
      BY <2>5, <2>6 DEF ToolInit
  <1>7. /\ tracked \in Seq(Sessions) /\ gen \in [Sessions -> Nat]
        /\ keys \in [Sessions -> Seq(KeySet)]
    BY DEF ToolInit
  <1>8. KeysOk(keys, granted)
    <2>1. \A s \in Sessions : keys[s] = <<>>
      BY DEF ToolInit
    <2> QED
      BY <2>1 DEF KeysOk
  <1>9. ContainmentKept
    BY DEF ToolInit, ContainmentKept, EscapeIsAsked, NoUnaskedExec, NoExecutorOutlivesLease,
       EnvelopeRunsWhereAttested, GrantWasGiven
  <1> QED
    BY <1>5, <1>6, <1>7, <1>8, <1>9 DEF ToolInit, ToolInv

LEMMA ToolStutter == ASSUME ToolInv, UNCHANGED toolVars PROVE ToolInv'
  <1>1. /\ route' = route /\ pairs' = pairs /\ owner' = owner /\ executors' = executors
        /\ call' = call /\ store' = store /\ granted' = granted /\ ran' = ran
    BY DEF toolVars, store
  <1> QED
    BY <1>1, WorldKeeps DEF ToolInv, CallEnds

(***************************************************************************)
(* For any number of calls, sessions and supervisors: a command leaves the *)
(* sandbox, or runs in the runtime itself, only as its route and the       *)
(* operator's approval of it allow (tools/policy.ts, builtin/exec.ts); a   *)
(* call the attested envelope allowed runs only in the supervisor that     *)
(* attested it (executor-transport.ts), one that ran on a session grant    *)
(* had this exact request allowed under the same executor policy           *)
(* (engine/session-grants.ts), and no executor outlives its lease          *)
(* (core/dyfj-sandbox).                                                    *)
(***************************************************************************)
THEOREM ContainmentIsKept == ToolSpec => []ContainmentKept
  <1>1. ToolInit => ToolInv
    BY ToolInitHolds
  <1>2. ToolInv /\ [ToolNext]_toolVars => ToolInv'
    <2> SUFFICES ASSUME ToolInv, [ToolNext]_toolVars PROVE ToolInv'
      OBVIOUS
    <2>1. ASSUME NEW c \in Calls, CallStep(c) PROVE ToolInv'
      BY <2>1, BeginKeeps, AttestKeeps, RunCommandKeeps, UseGrantKeeps, PromptKeeps,
         ApproveForSessionKeeps, RunHereKeeps, ExecKeeps DEF CallStep
    <2>2. ASSUME NEW e \in executors, Reap(e) \/ Release(e) PROVE ToolInv'
      BY <2>2, ReapKeeps
    <2>3. ASSUME NEW p \in 1..Len(pairs), ChangePlan(p) \/ ExpireLease(p) PROVE ToolInv'
      BY <2>3, OperatorKeeps, ExpireLeaseKeeps
    <2>4. CASE EditGrant \/ Serve
      BY <2>4, OperatorKeeps
    <2>5. CASE UNCHANGED toolVars
      BY <2>5, ToolStutter
    <2> QED
      BY <2>1, <2>2, <2>3, <2>4, <2>5 DEF ToolNext
  <1>3. ToolInv => ContainmentKept
    BY DEF ToolInv
  <1> QED
    BY <1>1, <1>2, <1>3, PTL DEF ToolSpec
=============================================================================
