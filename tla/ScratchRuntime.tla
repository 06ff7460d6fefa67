--------------------------- MODULE ScratchRuntime ---------------------------
(***************************************************************************)
(* The disposable runtime: `scratch-runtime up` boots a private database,  *)
(* fake servers and an engine under one root, and takes them down again    *)
(* whatever step fails and whenever it is told to stop; `down` tells it    *)
(* to, and reports the teardown.  A child may be deaf to SIGTERM, and the  *)
(* engine may leave a process of its group behind.                         *)
(***************************************************************************)
EXTENDS Integers, Sequences, FiniteSets, SequencesExt

CONSTANT MaxBinds  \* bindAttempts: tries at a free port

VARIABLES up,     \* the supervisor: its step, told to stop?, failed?, crashed?
          child,  \* the processes it started
          held,   \* what close() will undo, oldest first
          stop,   \* the child being stopped, how far, and the step that follows
          disk,   \* the root, the fixture's directory in it, the state file
          tries,  \* binds attempted
          down    \* the other command

vars == <<up, child, held, stop, disk, tries, down>>

Children == {"cmd", "dolt", "engine", "kid"}
Alive == {"up", "deaf"}
Living(c) == child[c] \in Alive
At(step) == up.at = step /\ stop.who = "none" /\ ~up.crashed
Go(step) == up' = [up EXCEPT !.at = step]
Fails(step) == up' = [up EXCEPT !.at = step, !.failed = TRUE]

NotStopping == [who |-> "none", phase |-> "none", next |-> "none"]

Init ==
  /\ up = [at |-> "root", aborted |-> FALSE, failed |-> FALSE, crashed |-> FALSE]
  /\ child = [c \in Children |-> "none"] /\ held = <<>> /\ stop = NotStopping
  /\ disk = [root |-> FALSE, fixture |-> FALSE, state |-> FALSE]
  /\ tries = 0 /\ down = "idle"

-----------------------------------------------------------------------------
(* Stopping a child: SIGTERM, a grace period, SIGKILL, and for the engine its whole group *)

Stopping(who, next) == stop' = [who |-> who, phase |-> "term", next |-> next]
Group(who) == IF who = "engine" THEN {"engine", "kid"} ELSE {who}
\* The exit the stop waits for: a process of the group may hold the engine's stderr open.
Closed(who) == \A c \in Group(who) : ~Living(c)

\* SIGTERM ends the processes that listen to it; an exited child is not signalled.
StopTerm ==
  /\ stop.phase = "term" /\ ~up.crashed
  /\ child' = [c \in Children |-> IF c \in Group(stop.who) /\ child[c] = "up" THEN "gone" ELSE child[c]]
  /\ stop' = [stop EXCEPT !.phase = "wait"]
  /\ UNCHANGED <<up, held, disk, tries, down>>

Killed(who, whole) ==
  [c \in Children |-> IF c \in (IF whole THEN Group(who) ELSE {who}) /\ Living(c) THEN "gone" ELSE child[c]]
LeaderOnly(who) == Killed(who, FALSE)
groupKill(who) == Killed(who, TRUE)

\* The stop ends with the child's exit, in time or by SIGKILL; a process of its group that kept no hold of
\* the engine's stderr may still run then, so the group is killed once more.
StopEnds ==
  /\ stop.phase = "wait" /\ ~up.crashed
  /\ \/ Closed(stop.who) /\ child' = child
     \/ stop.who = "engine" /\ ~Living("engine") /\ child' = groupKill("engine")
     \/ ~Closed(stop.who) /\ child' = groupKill(stop.who)
  /\ stop' = NotStopping /\ Go(stop.next)
  /\ UNCHANGED <<held, disk, tries, down>>

-----------------------------------------------------------------------------
(* up: every step may fail *)

MakeRoot ==
  /\ At("root")
  /\ \/ disk' = [disk EXCEPT !.root = TRUE] /\ (Go("dirs") \/ Fails("remove"))
     \/ UNCHANGED disk /\ Fails("return")
  /\ UNCHANGED <<child, held, stop, tries, down>>

MakeDirs ==
  /\ At("dirs")
  /\ \/ disk' = [disk EXCEPT !.fixture = TRUE] /\ (IF up.aborted THEN Fails("fixture failed") ELSE Go("sql"))
     \/ UNCHANGED disk /\ Fails("closing")
  /\ UNCHANGED <<child, held, stop, tries, down>>

\* runChecked: one dolt command at a time, none once told to stop.
RunChecked ==
  /\ At("sql") /\ ~Living("cmd")
  /\ \/ /\ up.aborted /\ Fails("fixture failed") /\ UNCHANGED child
     \/ /\ ~up.aborted /\ UNCHANGED up
        /\ \E c \in Alive : child' = [child EXCEPT !.cmd = c]
  /\ UNCHANGED <<held, stop, disk, tries, down>>

\* outputOrAbort: the command ends by itself, or is stopped when the supervisor is told to stop.
CommandEnds ==
  /\ At("sql") /\ Living("cmd")
  /\ \/ /\ child' = [child EXCEPT !.cmd = "gone"]
        /\ (Go("server") \/ Go("sql") \/ Fails("fixture failed"))
        /\ UNCHANGED stop
     \/ /\ up.aborted /\ Stopping("cmd", "fixture failed")
        /\ up' = [up EXCEPT !.failed = TRUE] /\ UNCHANGED child
  /\ UNCHANGED <<held, disk, tries, down>>

\* startSqlServer: a server that is not ready in time is stopped before the next bind is tried.
Bind ==
  /\ At("server") /\ ~Living("dolt")
  /\ \/ /\ (up.aborted \/ tries = MaxBinds) /\ Fails("fixture failed") /\ UNCHANGED <<child, tries>>
     \/ /\ ~up.aborted /\ tries < MaxBinds /\ UNCHANGED up
        /\ tries' = tries + 1
        /\ \E c \in Alive \cup {"gone"} : child' = [child EXCEPT !.dolt = c]
  /\ UNCHANGED <<held, stop, disk, down>>

WaitForSql ==
  /\ At("server") /\ tries > 0
  /\ \/ Living("dolt") /\ UNCHANGED stop /\ Go("ready")
     \/ /\ Stopping("dolt", IF up.aborted THEN "fixture failed" ELSE "server")
        /\ up' = [up EXCEPT !.failed = @ \/ up.aborted]
  /\ UNCHANGED <<child, held, disk, tries, down>>

\* The last look at the signal; then the fixture is close()'s to undo.
FixtureReady ==
  /\ At("ready")
  /\ \/ up.aborted /\ Fails("fixture failed") /\ UNCHANGED held
     \/ ~up.aborted /\ Go("pool") /\ held' = Append(held, "fixture")
  /\ UNCHANGED <<child, stop, disk, tries, down>>

\* startIsolatedDoltFixture's catch: its server is stopped and its directory removed, or left to the root's removal.
FixtureFailed ==
  /\ At("fixture failed")
  /\ IF Living("dolt") THEN Stopping("dolt", "fixture failed") /\ UNCHANGED <<up, disk>>
     ELSE UNCHANGED stop /\ Go("closing") /\ \E gone \in BOOLEAN : disk' = [disk EXCEPT !.fixture = @ /\ ~gone]
  /\ UNCHANGED <<child, held, tries, down>>

Servers == [pool |-> "model", model |-> "linear", linear |-> "seed"]
StartServer ==
  /\ up.at \in DOMAIN Servers /\ At(up.at)
  /\ \/ held' = Append(held, up.at) /\ Go(Servers[up.at])
     \/ up.at # "pool" /\ held' = held /\ Fails("closing")
  /\ UNCHANGED <<child, stop, disk, tries, down>>

SeedModels ==
  /\ At("seed")
  /\ \/ Living("dolt") /\ Go("engine")
     \/ Fails("closing")
  /\ UNCHANGED <<child, held, stop, disk, tries, down>>

\* startEngineServer: the directory may not be made; the engine may die at once, or never answer.
StartEngine ==
  /\ At("engine")
  /\ \/ Fails("closing") /\ UNCHANGED child
     \/ Go("liveness") /\ \E e, k \in Alive \cup {"gone"} :
                            child' = [child EXCEPT !.engine = e, !.kid = k]
  /\ UNCHANGED <<held, stop, disk, tries, down>>

WaitForLiveness ==
  /\ At("liveness")
  /\ \/ Living("engine") /\ Go("git") /\ held' = Append(held, "engine") /\ UNCHANGED stop
     \/ Stopping("engine", "closing") /\ up' = [up EXCEPT !.failed = TRUE] /\ UNCHANGED held
  /\ UNCHANGED <<child, disk, tries, down>>

\* The state file is written only if nobody said stop; then up waits to be told.
WriteState ==
  /\ At("git")
  /\ \/ up.aborted /\ Go("closing") /\ UNCHANGED disk
     \/ Fails("closing") /\ UNCHANGED disk
     \/ ~up.aborted /\ disk' = [disk EXCEPT !.state = TRUE] /\ Go("serving")
  /\ UNCHANGED <<child, held, stop, tries, down>>

Serve ==
  /\ At("serving") /\ up.aborted /\ Go("closing")
  /\ UNCHANGED <<child, held, stop, disk, tries, down>>

-----------------------------------------------------------------------------
(* close() and the removal of the root *)

AfterStep(rest, failed) == rest
StopAtError(rest, failed) == IF failed THEN <<>> ELSE rest
afterStep(rest, failed) == AfterStep(rest, failed)

\* The cleanups in reverse; one that fails does not keep the others from running.
CloseStep ==
  /\ At("closing") /\ held # <<>>
  /\ LET last == Last(held)
         who == IF last = "engine" THEN "engine" ELSE IF last = "fixture" THEN "dolt" ELSE "none"
     IN IF who # "none" /\ ~Closed(who)
        THEN Stopping(who, "closing") /\ UNCHANGED <<up, held, disk>>
        ELSE \E failed \in BOOLEAN :
               /\ failed => last \in {"fixture", "pool"}
               /\ held' = afterStep(Front(held), failed)
               /\ disk' = [disk EXCEPT !.fixture = @ /\ (last = "fixture" => failed)]
               /\ up' = [up EXCEPT !.failed = @ \/ failed]
               /\ UNCHANGED stop
  /\ UNCHANGED <<child, tries, down>>

CloseEnds ==
  /\ At("closing") /\ held = <<>> /\ Go("remove")
  /\ UNCHANGED <<child, held, stop, disk, tries, down>>

\* rm --recursive --force, state file and all; it may be refused.
RemoveRoot ==
  /\ At("remove")
  /\ \/ disk' = [root |-> FALSE, fixture |-> FALSE, state |-> FALSE] /\ Go("return")
     \/ UNCHANGED disk /\ Fails("return")
  /\ UNCHANGED <<child, held, stop, tries, down>>

\* Node exits once nothing in the process keeps it up: an open pool or listener would.
Exit ==
  /\ At("return") /\ held = <<>> /\ Go("exited")
  /\ UNCHANGED <<child, held, stop, disk, tries, down>>

-----------------------------------------------------------------------------
(* The world: SIGTERM or SIGINT, a child that dies by itself, the supervisor killed outright *)

Signal ==
  /\ up.at # "exited" /\ ~up.crashed /\ ~up.aborted
  /\ up' = [up EXCEPT !.aborted = TRUE]
  /\ UNCHANGED <<child, held, stop, disk, tries, down>>

Dies ==
  /\ \E c \in {"dolt", "engine", "kid"} : Living(c) /\ child' = [child EXCEPT ![c] = "gone"]
  /\ UNCHANGED <<up, held, stop, disk, tries, down>>

Crash ==
  /\ up.at # "exited" /\ ~up.crashed
  /\ up' = [up EXCEPT !.crashed = TRUE]
  /\ UNCHANGED <<child, held, stop, disk, tries, down>>

(* down: reads the state file, makes sure the pid is a supervisor, signals it, and waits *)

Running == up.at # "exited" /\ ~up.crashed
LoadState == /\ down = "idle" /\ disk.state /\ down' = "loaded" /\ UNCHANGED <<up, child, held, stop, disk, tries>>

VerifySupervisor ==
  /\ down = "loaded" /\ down' = IF Running THEN "verified" ELSE "failed"
  /\ UNCHANGED <<up, child, held, stop, disk, tries>>

KillSupervisor ==
  /\ down = "verified"
  /\ down' = IF Running THEN "waiting" ELSE "failed"
  /\ up' = [up EXCEPT !.aborted = @ \/ Running]
  /\ UNCHANGED <<child, held, stop, disk, tries>>

Recorded == {"dolt", "engine"}
ConfirmAll == ~disk.root /\ ~Running /\ \A c \in Recorded : ~Living(c)
ConfirmRoot == ~disk.root
confirmed == ConfirmAll
ConfirmTeardown ==
  /\ down = "waiting" /\ down' = IF confirmed THEN "complete" ELSE "failed"
  /\ UNCHANGED <<up, child, held, stop, disk, tries>>

Boot == \/ MakeRoot \/ MakeDirs \/ RunChecked \/ CommandEnds \/ Bind \/ WaitForSql \/ FixtureReady
        \/ FixtureFailed \/ StartServer \/ SeedModels \/ StartEngine \/ WaitForLiveness \/ WriteState
        \/ Serve
TearDown == StopTerm \/ StopEnds \/ CloseStep \/ CloseEnds \/ RemoveRoot \/ Exit
Next == \/ Boot \/ TearDown \/ Signal \/ Dies \/ Crash
        \/ LoadState \/ VerifySupervisor \/ KillSupervisor \/ ConfirmTeardown
Spec == Init /\ [][Next]_vars

\* The waits of up that neither a deadline nor the signal ends: a statement of seedModels, the end of a
\* readiness connection, and a liveness probe's answer, each of a process that lives and does not answer.
Unanswered == /\ ~up.crashed /\ stop.who = "none"
              /\ \/ up.at = "seed" /\ Living("dolt")
                 \/ up.at = "server" /\ tries > 0 /\ Living("dolt")
                 \/ up.at = "liveness" /\ Living("engine")

\* Every other wait of up and of its teardown has a deadline; files, git and the fake servers' closes return.
FairSpec == Spec /\ WF_vars(~Unanswered /\ Boot) /\ WF_vars(TearDown)

-----------------------------------------------------------------------------
\* However the boot failed and whenever it was told to stop, a supervisor that exits by itself leaves no
\* process of its own, the engine's descendants included, and no root that it could remove.
NothingOutlives ==
  up.at = "exited" => /\ \A c \in Children : ~Living(c)
                      /\ disk.root => up.failed

\* "Teardown: complete" is printed only when it is: no root, no supervisor, none of its processes.
TeardownTrue == down = "complete" => ~disk.root /\ ~Running /\ \A c \in Children : ~Living(c)

\* A supervisor told to stop does stop, wherever it was, unless it waits for an answer the database or the
\* engine, alive, does not give: no wait for a command, a port, a stopped child or a close is for ever.
StopsWhenTold == up.aborted ~> (up.at = "exited" \/ up.crashed \/ Unanswered)

\* The teardown leaves nothing and says so only when it is true.
ScratchHolds == NothingOutlives /\ TeardownTrue
=============================================================================
