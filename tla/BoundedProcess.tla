--------------------------- MODULE BoundedProcess ---------------------------
(***************************************************************************)
(* A deadline-bounded command (tools/builtin/bounded-process.ts): the      *)
(* command leads its own process group; at its deadline output collection  *)
(* freezes and the group is stopped by runs of /bin/kill (TERM, probes for *)
(* a grace, KILL, probes again), all inside one bound after which the      *)
(* signaller itself is given up; then the child is killed, its exit and    *)
(* its pipes are awaited for a bounded time, and the result says how the   *)
(* stop went.                                                              *)
(*                                                                         *)
(* The tree is free meanwhile: a member forks, leaves the group, closes    *)
(* its output, writes, exits, ignores TERM or is stuck in the kernel; a    *)
(* run of /bin/kill may hang or fail.                                      *)
(***************************************************************************)
EXTENDS Integers, FiniteSets

CONSTANTS
  TreeProcs, Leader,   \* the command is Leader; the others are its descendants
  MaxProbes,       \* probes that fit in one wait for the group to empty
  MaxWrites        \* chunks the tree writes

VARIABLES
  tree,        \* each process: unborn, alive or dead; in the group; holding the output
  stubborn,    \* processes that ignore SIGTERM
  stuck,       \* processes that SIGKILL does not end (uninterruptible I/O)
  pc,          \* runBounded: running, stopping, killing, draining, returned
  step,        \* createGroupStopper's steps: term, grace, kill, settle, end
  probes,      \* probes left in the current wait
  killer,      \* the /bin/kill run in flight: the signal it carries, or none
  frozen, writes, late,  \* collection frozen; chunks written; a chunk kept after the freeze
  report,      \* the result's termination
  signals      \* signals that reached the group

boundedVars == <<tree, stubborn, stuck, pc, step, probes, killer, frozen, writes, late, report, signals>>
world == <<stubborn, stuck>>
output == <<frozen, writes, late>>

-----------------------------------------------------------------------------
Unborn == [life |-> "unborn", group |-> FALSE, pipe |-> FALSE]
Born == [life |-> "alive", group |-> TRUE, pipe |-> TRUE]
Alive(p) == tree[p].life = "alive"
Members == {p \in TreeProcs : Alive(p) /\ tree[p].group}
Holders == {p \in TreeProcs : Alive(p) /\ tree[p].pipe}
OutputClosed == Holders = {}
Exited == ~Alive(Leader)

NoReport == [group |-> "none", exited |-> FALSE, outputClosed |-> FALSE, timedOut |-> FALSE]

BoundedInit ==
  /\ tree = [p \in TreeProcs |-> IF p = Leader THEN Born ELSE Unborn]
  /\ stubborn \in SUBSET TreeProcs /\ stuck \in SUBSET TreeProcs
  /\ pc = "running" /\ step = "none" /\ probes = 0 /\ killer = "none"
  /\ frozen = FALSE /\ writes = 0 /\ late = FALSE
  /\ report = NoReport /\ signals = 0

-----------------------------------------------------------------------------
(* The command's tree. *)

Fork(p, q) ==
  /\ Alive(p) /\ tree[q].life = "unborn"
  /\ tree' = [tree EXCEPT ![q] = tree[p]]
  /\ UNCHANGED <<world, pc, step, probes, killer, output, report, signals>>

\* setsid or setpgrp: out of the group's reach. The leader cannot leave its own.
LeaveGroup(p) ==
  /\ p # Leader /\ Alive(p) /\ tree[p].group
  /\ tree' = [tree EXCEPT ![p].group = FALSE]
  /\ UNCHANGED <<world, pc, step, probes, killer, output, report, signals>>

CloseOutput(p) ==
  /\ Alive(p) /\ tree[p].pipe
  /\ tree' = [tree EXCEPT ![p].pipe = FALSE]
  /\ UNCHANGED <<world, pc, step, probes, killer, output, report, signals>>

\* collect: a chunk read after the freeze is drained, not kept.
WriteAs(p, keepsLate) ==
  /\ Alive(p) /\ tree[p].pipe /\ writes < MaxWrites /\ pc # "returned"
  /\ writes' = writes + 1
  /\ late' = (late \/ (keepsLate /\ frozen))
  /\ UNCHANGED <<tree, world, pc, step, probes, killer, frozen, report, signals>>
Write_keepsLate(p) == WriteAs(p, TRUE)
Write(p) == WriteAs(p, FALSE)

ProcessExits(p) ==
  /\ Alive(p)
  /\ tree' = [tree EXCEPT ![p].life = "dead"]
  /\ UNCHANGED <<world, pc, step, probes, killer, output, report, signals>>

-----------------------------------------------------------------------------
(* runBounded. *)

\* The exit and both streams' ends came before the deadline.
Finish ==
  /\ pc = "running" /\ Exited /\ OutputClosed
  /\ pc' = "returned"
  /\ UNCHANGED <<tree, world, step, probes, killer, output, report, signals>>

\* The deadline: freeze, then stop the group.
Deadline ==
  /\ pc = "running"
  /\ pc' = "stopping" /\ step' = "term" /\ frozen' = TRUE
  /\ UNCHANGED <<tree, world, probes, killer, writes, late, report, signals>>

\* The stop reported, was refused or ran out of its bound; given.abort() kills the run in flight.
StopEndsAs(group, abort) ==
  /\ report' = [report EXCEPT !.group = group, !.timedOut = TRUE]
  /\ step' = "end" /\ pc' = "killing"
  /\ killer' = IF abort THEN "none" ELSE killer
  /\ UNCHANGED <<tree, world, probes, output, signals>>
StopEnds_leavesKiller(group) == StopEndsAs(group, FALSE)
StopEnds(group) == StopEndsAs(group, TRUE)

\* send: one run of /bin/kill.
Send(sig) == killer' = sig
SendTerm ==
  /\ pc = "stopping" /\ step = "term" /\ killer = "none"
  /\ Send("TERM")
  /\ UNCHANGED <<tree, world, pc, step, probes, output, report, signals>>
SendProbe ==
  /\ pc = "stopping" /\ step \in {"grace", "settle"} /\ killer = "none" /\ probes > 0
  /\ Send("0")
  /\ UNCHANGED <<tree, world, pc, step, probes, output, report, signals>>
SendKill ==
  /\ pc = "stopping" /\ step = "kill" /\ killer = "none"
  /\ Send("KILL")
  /\ UNCHANGED <<tree, world, pc, step, probes, output, report, signals>>

Struck(sig) ==
  {p \in Members \ stuck : sig = "KILL" \/ (sig = "TERM" /\ p \notin stubborn)}

NextStep(sig) == IF sig = "TERM" THEN "grace" ELSE IF sig = "KILL" THEN "settle" ELSE step
ProbesFor(sig) == IF sig = "0" THEN probes - 1 ELSE MaxProbes

\* The run ended with its signal delivered: on to the next step of the stop.
Delivered ==
  /\ killer # "none" /\ Members # {}
  /\ tree' = [p \in TreeProcs |-> IF p \in Struck(killer) THEN [tree[p] EXCEPT !.life = "dead"] ELSE tree[p]]
  /\ signals' = IF killer = "0" THEN signals ELSE signals + 1
  /\ killer' = "none"
  /\ IF step = "end" THEN UNCHANGED <<step, probes>>
     ELSE step' = NextStep(killer) /\ probes' = ProbesFor(killer)
  /\ UNCHANGED <<world, pc, output, report>>

\* "No such process": nothing is left in the group, which answers any of the three.
Gone ==
  /\ killer # "none" /\ step # "end" /\ Members = {}
  /\ StopEnds("stopped")

\* The run failed, or hung and was given up on: not an answer, the steps go on.
Failed_readsAsGone ==
  /\ killer # "none" /\ step # "end"
  /\ StopEnds("stopped")
Failed ==
  /\ killer # "none" /\ step # "end"
  /\ killer' = "none"
  /\ step' = NextStep(killer) /\ probes' = ProbesFor(killer)
  /\ UNCHANGED <<tree, world, pc, output, report, signals>>

\* /bin/kill could not be started for TERM or KILL.
Unavailable ==
  /\ killer \in {"TERM", "KILL"} /\ step # "end"
  /\ StopEnds("unavailable")

\* emptiesWithin ran out.
GraceOver ==
  /\ pc = "stopping" /\ step = "grace" /\ probes = 0 /\ killer = "none"
  /\ step' = "kill"
  /\ UNCHANGED <<tree, world, pc, probes, killer, output, report, signals>>
SettleOver ==
  /\ pc = "stopping" /\ step = "settle" /\ probes = 0 /\ killer = "none"
  /\ StopEnds("survived")

\* The bound of the whole stop: grace, settle and one start-up.
BoundPassed_awaitsTheRun ==
  /\ pc = "stopping" /\ step # "end" /\ killer = "none"
  /\ StopEnds("unavailable")
BoundPassed ==
  /\ pc = "stopping" /\ step # "end"
  /\ StopEnds("unavailable")

\* child.kill("SIGKILL"), then its exit within a bound.
KillChild ==
  /\ pc = "killing"
  /\ tree' = IF Alive(Leader) /\ Leader \notin stuck
             THEN [tree EXCEPT ![Leader].life = "dead"] ELSE tree
  /\ report' = [report EXCEPT !.exited = ~(tree'[Leader].life = "alive")]
  /\ pc' = "draining"
  /\ UNCHANGED <<world, step, probes, killer, output, signals>>

\* The drain's bound: cut the reads, say whether the pipes had closed, return.
DrainAs(closed) ==
  /\ pc = "draining"
  /\ report' = [report EXCEPT !.outputClosed = closed]
  /\ pc' = "returned"
  /\ UNCHANGED <<tree, world, step, probes, killer, output, signals>>
Drain_groupSettlesIt == DrainAs(OutputClosed \/ report.group = "stopped")
Drain == DrainAs(OutputClosed)

-----------------------------------------------------------------------------
TreeStep ==
  \/ \E p, q \in TreeProcs : Fork(p, q)
  \/ \E p \in TreeProcs : LeaveGroup(p) \/ CloseOutput(p) \/ Write(p) \/ ProcessExits(p)

StopStep ==
  \/ SendTerm \/ SendProbe \/ SendKill \/ Delivered \/ Gone \/ Failed \/ Unavailable
  \/ GraceOver \/ SettleOver

CommandStep == Finish \/ KillChild \/ Drain

BoundedNext == TreeStep \/ StopStep \/ CommandStep \/ Deadline \/ BoundPassed

BoundedSpec == BoundedInit /\ [][BoundedNext]_boundedVars

\* Timers fire: the deadline, the stop's bound and the drain's. Nothing is assumed of the tree
\* or of /bin/kill.
BoundedFairSpec == BoundedSpec /\ WF_boundedVars(Deadline) /\ WF_boundedVars(BoundPassed) /\ WF_boundedVars(CommandStep)

-----------------------------------------------------------------------------
(* describeTimeout's words: what the result lets a reader conclude. *)
SaysGroupStopped == report.group = "stopped"
SaysNothingHeldOpen == report.outputClosed
Unqualified == pc = "returned" /\ report.timedOut /\ SaysGroupStopped
               /\ report.exited /\ SaysNothingHeldOpen

(* A stop reported as "stopped" left nothing in the group, and nothing     *)
(* comes back into it: whatever still runs had left the group first.       *)
StoppedMeansEmpty == SaysGroupStopped => Members = {}

(* A timeout reported without a warning leaves no process that could still *)
(* write into the result's output or be reached through the group.         *)
UnqualifiedIsClean == Unqualified => \A p \in TreeProcs : Alive(p) => ~tree[p].group /\ ~tree[p].pipe

(* Nothing written after the deadline is shown as the command's output.    *)
NothingLate == ~late

(* Once the stop has reported, no signal of it lands on the group: the id  *)
(* may be another's by then.                                               *)
NoSignalAfterReport == [][report.group # "none" => signals' = signals]_boundedVars

(* bounded-process.ts: a group reported stopped is empty, a result given    *)
(* without a qualification has nothing of its command left that could      *)
(* write into it, and nothing written after the deadline is shown.         *)
StopReportTrue == StoppedMeansEmpty /\ UnqualifiedIsClean /\ NothingLate

(* The call returns, whatever the tree does and even when /bin/kill hangs  *)
(* or a process cannot be killed.                                          *)
Returns == <>(pc = "returned")
=============================================================================
