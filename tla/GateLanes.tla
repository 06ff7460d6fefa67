----------------------------- MODULE GateLanes -----------------------------
(* The aggregate test gate (scripts/aggregate-test-gate.ts) and the         *)
(* supervision its test lanes run under (prototype/scripts/                 *)
(* lane-supervision.ts).  A gate runs its lanes one after another, each in  *)
(* a process group of its own; gates run concurrently, and a gate or a lane *)
(* leader may be killed at any point.                                       *)
(*                                                                          *)
(* A group is the processes of one lane of one gate run.  Its members are   *)
(* the leader (the lane's runner), a worker, a stubborn descendant that     *)
(* ignores TERM, and in a supervised lane the token carrier and the helper  *)
(* that stops the group.  Once a group is empty and its leader reaped, its  *)
(* id may be taken by a group of somebody else's at any time.               *)
EXTENDS Naturals, Sequences, FiniteSets

CONSTANTS
    Gates,     \* runs of the gate
    Plans,     \* the modes planGate may choose for each run
    Faulty     \* lanes whose commands cannot start or do not pass

VARIABLES
    gate,      \* each run: where it is, its plan, and what it has found
    group,     \* the live members of each lane's process group
    lead,      \* how far each lane's leader is
    exit,      \* each leader's exit: "none", "zero" or "bad"
    records,   \* the lane records on disk: whose, and torn, partial or named
    reused,    \* groups whose id now names somebody else's group
    strays     \* signals to a group that was not the signaller's to stop

vars == <<gate, group, lead, exit, records, reused, strays>>

\* productionLanes: a policy lane, the unit suite under a deadline, and for
\* the docs-only plan a Markdown-reading lane that reports under the suite's
\* check id.
Lanes == {"policy", "unit", "links"}
CheckOf(l) == IF l = "policy" THEN "policy" ELSE "aggregate"
Supervised(l) == l = "unit"
REQUIRED_CHECK_IDS == {"policy", "aggregate"}
Groups == Gates \X Lanes

\* planGate: the fast and docs-only subsets are production lanes.
PlanOf(mode) ==
    CASE mode = "full" -> <<"policy", "unit">>
      [] mode = "docs-only" -> <<"policy", "links">>
      [] mode = "fast" -> <<"unit">>
requiredCheckIds(mode) ==
    IF mode = "fast" THEN {CheckOf(PlanOf(mode)[k]) : k \in DOMAIN PlanOf(mode)}
    ELSE REQUIRED_CHECK_IDS

Gone(at) ==
    [at |-> at, mode |-> "full", lane |-> 0, results |-> <<>>, names |-> {},
     alive |-> {}, carried |-> {}, aborted |-> FALSE, code |-> 0]
Init ==
    /\ gate = [g \in Gates |-> Gone("idle")]
    /\ group = [x \in Groups |-> {}]
    /\ lead = [x \in Groups |-> "none"]
    /\ exit = [x \in Groups |-> "none"]
    /\ records = {} /\ reused = {} /\ strays = {}

\* A gate that is neither done nor killed.
Running(g) == gate[g].at \notin {"idle", "done", "killed"}
LaneOf(g) == PlanOf(gate[g].mode)[gate[g].lane]
Mine(g) == <<g, LaneOf(g)>>

-----------------------------------------------------------------------------
(* composeGateStatus and finish.                                           *)

WorstFirst == <<"fail", "unavailable", "interrupted", "skipped", "pass">>
Outcomes(g) ==
    {<<PlanOf(gate[g].mode)[k], gate[g].results[k]>> : k \in DOMAIN gate[g].results}
ResultOf(g, id) ==
    LET found == {o[2] : o \in {p \in Outcomes(g) : CheckOf(p[1]) = id}}
    IN  IF found = {} THEN "skipped"
        ELSE WorstFirst[CHOOSE n \in DOMAIN WorstFirst :
                WorstFirst[n] \in found /\ \A m \in 1..(n - 1) : WorstFirst[m] \notin found]

Composed(g, seen) ==
    IF "interrupted" \in seen \/ (gate[g].aborted /\ gate[g].at = "finish") THEN "interrupted"
    ELSE IF seen \cap {"fail", "unavailable", "skipped"} # {} THEN "fail" ELSE "pass"
WithRequired(g) == {o[2] : o \in Outcomes(g)}
                     \cup {ResultOf(g, id) : id \in requiredCheckIds(gate[g].mode)}
composeGateStatus(g) == Composed(g, WithRequired(g))

\* The first failing lane's code, else the interruption's, else the status's.
FirstFailure(g) == \E o \in Outcomes(g) : o[2] \in {"fail", "unavailable"}
ExitCode(g) ==
    IF FirstFailure(g) THEN 1
    ELSE IF composeGateStatus(g) = "interrupted" THEN 130
    ELSE IF composeGateStatus(g) = "fail" THEN 1 ELSE 0

-----------------------------------------------------------------------------
(* Signals to a lane's group.                                              *)

\* TERM ends a worker, and a leader or carrier that does not ignore it; the
\* carrier holds on while anything but the leader is left.
Termed(members, leader) ==
    LET left == members \ ({"worker"} \cup (IF leader = "dies" THEN {"leader"} ELSE {}))
    IN  IF left \subseteq {"leader", "carrier"} THEN left \ {"carrier"} ELSE left

\* Whose group is it?  Its gate's while that gate runs, its own members', and
\* anyone's once its gate is gone.  A signal to another's group is remembered,
\* with whether the group was the signaller's to stop when it last looked: its
\* own lane's, or one seen to carry the token of a dead gate's lane.
Trespass(by, x) ==
    IF x \in reused \/ (Running(x[1]) /\ by # x[1])
    THEN {[by |-> by, of |-> x,
           seen |-> by = x[1] \/ (x \in gate[by].carried /\ x[1] \notin gate[by].alive)]}
    ELSE {}

-----------------------------------------------------------------------------
(* A gate's start: recovery of what earlier runs left.                     *)

Start(g, mode) ==
    /\ gate[g].at = "idle"
    /\ gate' = [gate EXCEPT ![g].at = "readdir", ![g].mode = mode,
                            ![g].results = [k \in DOMAIN PlanOf(mode) |-> "skipped"]]
    /\ UNCHANGED <<group, lead, exit, records, reused, strays>>

\* A record that is torn, or written and not yet renamed, is named .partial.
FileOf(r) == <<r.of, r.at = "named">>

\* recoverOrphanedLaneGroups reads the record names, then lists processes.
ReadNames(g) ==
    /\ gate[g].at = "readdir"
    /\ gate' = [gate EXCEPT ![g].at = IF records = {} THEN "lanes" ELSE "listing",
                            ![g].names = {FileOf(r) : r \in records}]
    /\ UNCHANGED <<group, lead, exit, records, reused, strays>>

listProcesses(g) ==
    /\ gate[g].at = "listing"
    /\ \/ gate' = [gate EXCEPT ![g].at = "recovering",
                     ![g].alive = {h \in Gates : Running(h)},
                     ![g].carried = {x \in Groups : "carrier" \in group[x] /\ x \notin reused}]
       \/ gate' = [gate EXCEPT ![g].at = "lanes", ![g].names = {}]
    /\ UNCHANGED <<group, lead, exit, records, reused, strays>>

\* orphanedLaneGroup: a live gate's record is left alone, and a group is
\* stopped only when one of its members was seen to carry the token.
AnyLiveGroup(g, x) == "recover"
ByToken(g, x) ==
    IF x[1] \in gate[g].alive THEN "gate-alive"
    ELSE IF x \in gate[g].carried THEN "recover" ELSE "drop"
orphanedLaneGroup(g, x) == ByToken(g, x)

\* A record that is gone or was renamed meanwhile is passed over.  A complete one
\* is judged whatever its name.  A torn one is dropped once it is too old to be
\* in the middle of being written.
BeingWritten(x) == gate[x[1]].at = "recording" /\ Mine(x[1]) = x
RecoverOne(g, f) ==
    LET x == f[1]
        found == {r \in records : FileOf(r) = f}
        verdict == IF found = {} THEN "gone"
                   ELSE IF \E r \in found : r.at = "torn" THEN "torn"
                   ELSE orphanedLaneGroup(g, x)
    IN  /\ gate[g].at = "recovering" /\ f \in gate[g].names
        /\ gate' = [gate EXCEPT ![g].names = @ \ {f}]
        /\ IF verdict = "recover"
           THEN /\ group' = [group EXCEPT ![x] = IF x \in reused THEN @ ELSE {}]
                /\ strays' = strays \cup Trespass(g, x)
           ELSE UNCHANGED <<group, strays>>
        /\ \/ /\ \/ verdict \in {"recover", "drop"}
                 \/ verdict = "torn" /\ ~BeingWritten(x)
              /\ records' = records \ found
           \/ UNCHANGED records   \* left alone, or its rm fails
        /\ UNCHANGED <<lead, exit, reused>>

Recovered(g) ==
    /\ gate[g].at = "recovering" /\ gate[g].names = {}
    /\ gate' = [gate EXCEPT ![g].at = "lanes", ![g].alive = {}, ![g].carried = {}]
    /\ UNCHANGED <<group, lead, exit, records, reused, strays>>

-----------------------------------------------------------------------------
(* A gate's lanes.                                                         *)

\* The operator's SIGINT or SIGTERM.
Abort(g) ==
    /\ Running(g) /\ ~gate[g].aborted
    /\ gate' = [gate EXCEPT ![g].aborted = TRUE]
    /\ UNCHANGED <<group, lead, exit, records, reused, strays>>

Ended(g, result) ==
    gate' = [gate EXCEPT ![g].at = IF result = "interrupted" THEN "finish" ELSE "lanes",
                         ![g].results[gate[g].lane] = result]

\* The next lane: refused when aborted, unavailable when it cannot start, and
\* otherwise the leader of a new group.
NextLane(g) ==
    LET n == gate[g].lane + 1
        lane == PlanOf(gate[g].mode)[n]
    IN  /\ gate[g].at = "lanes" /\ n <= Len(PlanOf(gate[g].mode))
        /\ \/ gate[g].aborted
                /\ gate' = [gate EXCEPT ![g].lane = n, ![g].at = "finish",
                                        ![g].results[n] = "interrupted"]
                /\ UNCHANGED <<group, lead>>
           \/ ~gate[g].aborted /\ lane \in Faulty
                /\ gate' = [gate EXCEPT ![g].lane = n, ![g].results[n] = "unavailable"]
                /\ UNCHANGED <<group, lead>>
           \/ ~gate[g].aborted
                /\ gate' = [gate EXCEPT ![g].lane = n,
                              ![g].at = IF Supervised(lane) THEN "recording" ELSE "waiting"]
                /\ group' = [group EXCEPT ![<<g, lane>>] = {"leader"}]
                /\ lead' = [lead EXCEPT ![<<g, lane>>] = "fresh"]
        /\ UNCHANGED <<exit, records, reused, strays>>

\* writeLaneRecord: under another name, then renamed.  A step of it may fail, and
\* what it has written by then stays.
Record(x, state) == [of |-> x, at |-> state]
WriteRecord(g) ==
    LET x == Mine(g) IN
    /\ gate[g].at = "recording"
    /\ \/ /\ \A r \in records : r.of # x
          /\ records' = records \cup {Record(x, "torn")}
          /\ UNCHANGED gate
       \/ /\ Record(x, "torn") \in records
          /\ records' = (records \ {Record(x, "torn")}) \cup {Record(x, "partial")}
          /\ UNCHANGED gate
       \/ /\ Record(x, "partial") \in records
          /\ records' = (records \ {Record(x, "partial")}) \cup {Record(x, "named")}
          /\ gate' = [gate EXCEPT ![g].at = "waiting"]
       \/ gate' = [gate EXCEPT ![g].at = "waiting"] /\ UNCHANGED records
    /\ UNCHANGED <<group, lead, exit, reused, strays>>

\* statusOrAbort: the abort or the deadline comes before the leader's exit is
\* seen; the leader is stopped and reaped.
stopChild(g) ==
    LET x == Mine(g) IN
    /\ gate[g].at = "waiting" /\ (gate[g].aborted \/ Supervised(x[2]))
    /\ gate' = [gate EXCEPT ![g].at = IF gate[g].aborted THEN "abandon" ELSE "expired"]
    /\ group' = [group EXCEPT ![x] =
                   Termed(@, IF lead[x] \in {"fresh", "running"} THEN "dies" ELSE "stays")]
    /\ IF lead[x] \in {"fresh", "running"}
       THEN lead' = [lead EXCEPT ![x] = "gone"] /\ exit' = [exit EXCEPT ![x] = "bad"]
       ELSE UNCHANGED <<lead, exit>>
    /\ strays' = strays \cup Trespass(g, x)
    /\ UNCHANGED <<records, reused>>

\* tearDownLaneGroup: TERM, then KILL to what is left after the grace; the
\* renamed record goes with the lane, unless its rm fails, and a .partial one
\* stays.  The lane's result is its leader's own exit.
LeftRunning(g) == group
Emptied(g) == [group EXCEPT ![Mine(g)] = {}]
tearDownLaneGroup(g) == Emptied(g)

LaneResult(g) ==
    CASE gate[g].at = "abandon" -> "interrupted"
      [] gate[g].at = "expired" -> "fail"
      [] gate[g].at = "waiting" -> IF exit[Mine(g)] = "zero" THEN "pass" ELSE "fail"
LaneDone(g) ==
    LET x == Mine(g) IN
    /\ \/ gate[g].at \in {"abandon", "expired"}
       \/ gate[g].at = "waiting" /\ lead[x] = "gone"
    /\ group' = tearDownLaneGroup(g)
    /\ IF lead[x] = "gone" THEN UNCHANGED <<lead, exit>>
       ELSE lead' = [lead EXCEPT ![x] = "gone"] /\ exit' = [exit EXCEPT ![x] = "bad"]
    /\ strays' = strays \cup Trespass(g, x)
    /\ records' \in {records, records \ {Record(x, "named")}}
    /\ Ended(g, LaneResult(g))
    /\ UNCHANGED reused

Finish(g) ==
    \/ /\ gate[g].at = "lanes" /\ gate[g].lane = Len(PlanOf(gate[g].mode))
       /\ gate' = [gate EXCEPT ![g].at = "finish"]
       /\ UNCHANGED <<group, lead, exit, records, reused, strays>>
    \/ /\ gate[g].at = "finish"
       /\ gate' = [gate EXCEPT ![g].at = "done", ![g].code = ExitCode(g)]
       /\ UNCHANGED <<group, lead, exit, records, reused, strays>>

-----------------------------------------------------------------------------
(* A lane's own processes.                                                 *)

NoCarrier(x) == {}
CarrierIfAsked(x) == IF Supervised(x[2]) THEN {"carrier"} ELSE {}
startTokenCarrier(x) == CarrierIfAsked(x)

\* The runner: its token carrier first, then its work, unless its parent is
\* no longer the gate that started it.
RunnerStart(x) ==
    LET orphaned == Supervised(x[2]) /\ ~Running(x[1]) IN
    /\ lead[x] = "fresh" /\ "leader" \in group[x]
    /\ \E s \in SUBSET {"stubborn"} :
         group' = [group EXCEPT ![x] = @
                     \cup startTokenCarrier(x)
                     \cup (IF orphaned THEN {} ELSE {"worker"} \cup s)]
    /\ lead' = [lead EXCEPT ![x] = IF orphaned THEN "expired" ELSE "running"]
    /\ UNCHANGED <<gate, exit, records, reused, strays>>

\* The work ends, well or not; a plain lane's leader then just exits.
WorkEnds(x, code) ==
    /\ lead[x] = "running" /\ (x[2] \in Faulty \/ code = "zero")
    /\ exit' = [exit EXCEPT ![x] = code]
    /\ IF Supervised(x[2])
       THEN /\ lead' = [lead EXCEPT ![x] = "worked"]
            /\ group' = [group EXCEPT ![x] = @ \ {"worker"}]
       ELSE /\ lead' = [lead EXCEPT ![x] = "gone"]
            /\ group' = [group EXCEPT ![x] = @ \ {"worker", "leader"}]
    /\ UNCHANGED <<gate, records, reused, strays>>

\* startBackstop: the deadline has passed with no gate to enforce it, or the
\* parent is not the gate; the step in progress is ended.
BackstopFires(x) ==
    /\ lead[x] = "running" /\ Supervised(x[2]) /\ ~Running(x[1])
    /\ lead' = [lead EXCEPT ![x] = "expired"]
    /\ group' = [group EXCEPT ![x] = @ \ {"worker"}]
    /\ UNCHANGED <<gate, exit, records, reused, strays>>

\* stopOwnGroup: a helper of the same group carries the signals.
stopOwnGroup(x) ==
    /\ lead[x] \in {"worked", "expired"} /\ "leader" \in group[x]
    /\ lead' = [lead EXCEPT ![x] = "stopping"]
    /\ exit' = [exit EXCEPT ![x] = IF lead[x] = "expired" THEN "bad" ELSE @]
    /\ group' = [group EXCEPT ![x] = @ \cup {"helper"}]
    /\ UNCHANGED <<gate, records, reused, strays>>

\* stopGroup, by the helper: KILL to each member but the leader and itself.
\* A listing that fails leaves the group to a gate that is there to end it,
\* and otherwise KILLs everything.
gateIsAlive(x) == Running(x[1])
LeaveToGate(x) == gateIsAlive(x)

HelperStops(x) ==
    /\ "helper" \in group[x]
    /\ \/ group' = [group EXCEPT ![x] = @ \cap {"leader"}] /\ UNCHANGED <<lead, exit>>
       \/ /\ LeaveToGate(x)
          /\ group' = [group EXCEPT ![x] = @ \ {"helper"}] /\ UNCHANGED <<lead, exit>>
       \/ /\ ~LeaveToGate(x)
          /\ group' = [group EXCEPT ![x] = {}]
          /\ lead' = [lead EXCEPT ![x] = "gone"] /\ exit' = [exit EXCEPT ![x] = "bad"]
    /\ UNCHANGED <<gate, records, reused, strays>>

RunnerExits(x) ==
    /\ lead[x] = "stopping" /\ "leader" \in group[x] /\ "helper" \notin group[x]
    /\ lead' = [lead EXCEPT ![x] = "gone"]
    /\ group' = [group EXCEPT ![x] = @ \ {"leader"}]
    /\ UNCHANGED <<gate, exit, records, reused, strays>>

\* The carrier's watchParent: with the runner gone, it stops the group.
CarrierStops(x) ==
    /\ "carrier" \in group[x] /\ "leader" \notin group[x]
    /\ group' = [group EXCEPT ![x] = {}]
    /\ UNCHANGED <<gate, lead, exit, records, reused, strays>>

-----------------------------------------------------------------------------
(* Faults.                                                                 *)

KillGate(g) ==
    /\ Running(g)
    /\ gate' = [gate EXCEPT ![g] = Gone("killed")]
    /\ UNCHANGED <<group, lead, exit, records, reused, strays>>

KillLeader(x) ==
    /\ "leader" \in group[x]
    /\ group' = [group EXCEPT ![x] = @ \ {"leader"}]
    /\ lead' = [lead EXCEPT ![x] = "gone"] /\ exit' = [exit EXCEPT ![x] = "bad"]
    /\ UNCHANGED <<gate, records, reused, strays>>

\* The id of an empty group that a gate may still signal is taken by somebody
\* else's group: while its own gate runs the lane, or as long as it is recorded.
Reuse(x) ==
    /\ lead[x] = "gone" /\ group[x] = {} /\ x \notin reused
    /\ \/ \E r \in records : r.of = x
       \/ gate[x[1]].at \in {"waiting", "abandon", "expired"} /\ Mine(x[1]) = x
    /\ reused' = reused \cup {x}
    /\ UNCHANGED <<gate, group, lead, exit, records, strays>>

GateStep(g) ==
    \/ ReadNames(g) \/ listProcesses(g) \/ Recovered(g)
    \/ \E f \in gate[g].names : RecoverOne(g, f)
    \/ NextLane(g) \/ WriteRecord(g) \/ stopChild(g) \/ LaneDone(g) \/ Finish(g)
LaneStep(x) ==
    \/ RunnerStart(x) \/ BackstopFires(x) \/ stopOwnGroup(x)
    \/ HelperStops(x) \/ RunnerExits(x) \/ CarrierStops(x)

Next ==
    \/ \E g \in Gates : GateStep(g) \/ Abort(g) \/ KillGate(g)
    \/ \E g \in Gates : \E mode \in Plans[g] : Start(g, mode)
    \/ \E x \in Groups : LaneStep(x) \/ KillLeader(x) \/ Reuse(x)
    \/ \E x \in Groups, code \in {"zero", "bad"} : WorkEnds(x, code)

Spec == Init /\ [][Next]_vars

\* The processes of a lane keep running; a gate and a lane's work may stop.
FairSpec == Spec /\ \A x \in Groups : WF_vars(LaneStep(x))

-----------------------------------------------------------------------------
(* Properties.                                                             *)

\* runGate: it exits 0 only when every lane of its plan ran to an exit of
\* zero of its own leader, and those lanes report every required check.
ZeroMeansPassed ==
    \A g \in Gates : gate[g].at = "done" /\ gate[g].code = 0 =>
        /\ \A k \in DOMAIN PlanOf(gate[g].mode) :
             exit[<<g, PlanOf(gate[g].mode)[k]>>] = "zero"
        /\ requiredCheckIds(gate[g].mode) \subseteq
             {CheckOf(PlanOf(gate[g].mode)[k]) : k \in DOMAIN PlanOf(gate[g].mode)}

\* The per-lane teardown: a gate that returns leaves no process of its lanes,
\* whatever it could not record; its records may stay, .partial ones of a failed
\* write and named ones that rm did not remove.
NothingLeft ==
    \A g \in Gates : gate[g].at = "done" => \A l \in Lanes : group[<<g, l>>] = {}

\* "so a reused process or group id is never signalled", and a concurrent
\* gate's lanes are left alone.  Not so between a look and the signal that
\* follows it: an id taken after the process listing, or after the gate reaped
\* its own lane's leader, is signalled.
OthersSpared == \A s \in strays : s.seen

LanesHold == ZeroMeansPassed /\ NothingLeft /\ OthersSpared

\* A supervised lane's group ends however its gate and its runner do: each
\* of them may be killed at any point.
OrphansEnd ==
    \A x \in Groups : Supervised(x[2]) =>
        (~Running(x[1]) /\ group[x] # {} ~> group[x] = {})
=============================================================================
