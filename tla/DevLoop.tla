------------------------------ MODULE DevLoop ------------------------------
(***************************************************************************)
(* `dyfj dev`: the supervisor that turns saved files into runtime restarts *)
(* and REPL re-execs, the runtime and REPL processes it drives, and the    *)
(* last good snapshot it falls back to (prototype/scripts/dev-*.ts,        *)
(* dyfj-dev.ts).                                                           *)
(*                                                                         *)
(* The supervisor runs on one thread: between two awaits it is atomic, and *)
(* sup.at names the await it is in.  A save reaches it through the file    *)
(* watcher's queue; the operator's commands, the processes' exits and the  *)
(* signals arrive at any await.  A version of the code is the number of    *)
(* the save that made it.                                                  *)
(***************************************************************************)
EXTENDS Naturals, FiniteSets

CONSTANTS Paths,       \* the files the operator saves, with what decides their class
          Metadata,    \* whether `cargo metadata` answered
          MaxSaves,    \* the most saves of a behaviour
          MaxCommands  \* the most /reload and /rollback of a behaviour


VARIABLES work,   \* the checkout: [rt, ui, lock], versions of server, REPL, lock file
          sup,    \* the supervisor
          proc,   \* the runtime process it started
          repl,   \* the REPL process
          snap,   \* the published last good code
          past    \* what the properties remember

devVars == <<work, sup, proc, repl, snap, past>>

(***************************************************************************)
(* What a saved file asks for.                                             *)
(***************************************************************************)
isEditorNoise(p) == p.noise

classifyCore(p) == IF p.target THEN "none"
                   ELSE IF ~Metadata \/ p.workspace \/ p.replCrate THEN "repl"
                   ELSE "none"

classifySource(p) == IF p.excluded THEN "none"
                     ELSE IF ~p.ts THEN "runtime"
                     ELSE IF p.wire THEN "both"
                     ELSE IF p.reachable THEN "runtime" ELSE "none"

classifyPath(p) == IF p.tree = "core" THEN classifyCore(p)
                   ELSE IF p.tree = "src" THEN classifySource(p) ELSE "none"

classifyBatch(ps) ==
  [runtime |-> \E p \in ps : classifyPath(p) \in {"runtime", "both"},
   repl    |-> \E p \in ps : classifyPath(p) \in {"repl", "both"}]

(***************************************************************************)
(* The supervisor's bookkeeping, as functions of its state.              *)
(***************************************************************************)
nothingPending == [runtime |-> FALSE, repl |-> FALSE, rollback |-> FALSE, forced |-> FALSE]

Asked(p) == p.runtime \/ p.repl \/ p.rollback

Flush(s) ==
  LET kind == classifyBatch(s.batch)
      rt   == kind.runtime \/ ~s.up \/ s.mode = "last-good"
      none == s.batch = {} \/ (~rt /\ ~kind.repl)
      emptied == [s EXCEPT !.batch = {}]
  IN IF none THEN emptied
     ELSE [emptied EXCEPT !.pending.runtime = @ \/ rt,
                          !.pending.rollback = @ /\ ~rt,
                          !.pending.repl = @ \/ kind.repl,
                          !.awaiting = FALSE]

\* Where the restart of a job begins: a runtime that is up is stopped first.
Restart(s) == [s EXCEPT !.at = IF s.up THEN "stop" ELSE "launch"]

\* #apply once it has the job.  A build reads the REPL's sources from here on.
TakeJob(s) ==
  LET t == [s EXCEPT !.job = s.pending, !.pending = nothingPending,
                     !.want = "tree", !.staged = IF s.pending.repl THEN work.ui ELSE 0]
  IN IF t.job.rollback THEN [t EXCEPT !.at = "check"]
     ELSE IF t.job.repl THEN [t EXCEPT !.at = "build"]
     ELSE Restart(t)

Drain(s) ==
  IF s.busy \/ s.stopping \/ s.awaiting \/ s.poll \/ ~Asked(s.pending) THEN s
  ELSE LET b == [s EXCEPT !.busy = TRUE]
       IN IF ~s.pending.forced /\ s.up THEN [b EXCEPT !.at = "asking"] ELSE TakeJob(b)

FinishShutdown(s) == IF s.replGone THEN [s EXCEPT !.at = "finstop"]
                     ELSE [s EXCEPT !.at = "finexit", !.expected = TRUE]

Ended(s) == [s EXCEPT !.busy = FALSE, !.at = "idle", !.staged = 0, !.lock = 0,
                      !.want = "tree", !.job = nothingPending]

EndDrains(s) == Drain(Ended(s))

EndFinishes(s) == IF s.stopping THEN FinishShutdown(Ended(s)) ELSE Drain(Ended(s))

\* The `finally` of #drain: the attempt is over.
EndApply(s) == EndFinishes(s)

KeepJobless(s, job, awaitSave) ==
  [s EXCEPT !.pending.runtime = @ \/ job.runtime, !.awaiting = @ \/ awaitSave]

KeepJob(s, job, awaitSave) ==
  [s EXCEPT !.pending.runtime = @ \/ job.runtime,
            !.pending.repl = @ \/ job.repl,
            !.awaiting = @ \/ awaitSave]

Keep(s, job, awaitSave) == KeepJob(s, job, awaitSave)

BeginShutdown(s) ==
  IF s.stopping THEN s
  ELSE LET t == [s EXCEPT !.stopping = TRUE, !.debounce = FALSE, !.poll = FALSE]
       IN IF t.busy THEN t ELSE FinishShutdown(t)

\* What follows the runtime half of a job: the REPL half, if it has one.
AfterRuntime(s) == IF s.job.repl THEN [s EXCEPT !.at = "exit", !.expected = TRUE]
                   ELSE EndApply(s)

(***************************************************************************)
(* The processes.  A runtime loads its modules, hashes its source          *)
(* directory, then answers; code is what it loaded, hash what it reports.  *)
(***************************************************************************)
NoProc == [st |-> "none", code |-> 0, hash |-> 0, lock |-> 0, good |-> FALSE, turn |-> FALSE]
NoRepl == [st |-> "none", code |-> 0]
NoSnap == [st |-> "none", code |-> 0, lock |-> 0]

\* A supervisor that has just begun its first boot.
Supervisor ==
  [batch |-> {}, debounce |-> FALSE, poll |-> FALSE, pending |-> nothingPending,
   up |-> TRUE, mode |-> "tree", busy |-> TRUE, awaiting |-> FALSE,
   expected |-> FALSE, stopping |-> FALSE, replGone |-> FALSE,
   at |-> "launch", job |-> nothingPending, want |-> "tree", boot |-> TRUE,
   staged |-> 0, lock |-> 0, hash |-> 0, old |-> NoSnap, cmds |-> 0]

Init ==
  /\ work = [rt |-> 1, ui |-> 1, lock |-> 1, saves |-> 0, bin |-> 1, queue |-> {}]
  /\ \E st \in {"none", "whole", "corrupt"} :
       snap = [st |-> st, code |-> 0, lock |-> IF st = "none" THEN 0 ELSE 1]
  /\ proc = NoProc /\ repl = NoRepl
  /\ sup = Supervisor
  /\ past = [reports |-> {}, missed |-> {}]

(***************************************************************************)
(* The operator: saves, commands, and leaving the REPL.                    *)
(***************************************************************************)
Watching == ~sup.boot /\ sup.at \notin {"over", "crashed"}

\* A save that nobody watches yet (the watcher starts after the first boot)
\* is remembered as missed.
Save(p) ==
  /\ sup.at \notin {"over", "crashed"}
  /\ work.saves < MaxSaves
  /\ LET n == work.saves + 2
         kind == classifyPath(p)
     IN /\ work' = [work EXCEPT !.saves = @ + 1,
                                !.rt = IF kind \in {"runtime", "both"} THEN n ELSE @,
                                !.ui = IF kind \in {"repl", "both"} THEN n ELSE @,
                                !.lock = IF p.lock THEN n ELSE @,
                                !.queue = IF Watching /\ ~isEditorNoise(p) /\ p.tree # "root"
                                          THEN @ \union {p} ELSE @]
        /\ past' = [past EXCEPT !.missed = IF Watching THEN @ ELSE @ \union
                        ((IF kind \in {"runtime", "both"} THEN {"rt"} ELSE {}) \union
                         (IF kind \in {"repl", "both"} THEN {"ui"} ELSE {}))]
  /\ UNCHANGED <<sup, proc, repl, snap>>

\* The watcher's callback: `changed` restarts the debounce.
Changed(p) ==
  /\ Watching
  /\ p \in work.queue
  /\ work' = [work EXCEPT !.queue = @ \ {p}]
  /\ sup' = IF sup.stopping THEN sup
            ELSE [sup EXCEPT !.batch = @ \union {p}, !.debounce = TRUE]
  /\ UNCHANGED <<proc, repl, snap, past>>

Debounced ==
  /\ sup.debounce
  /\ sup' = Drain(Flush([sup EXCEPT !.debounce = FALSE]))
  /\ UNCHANGED <<work, proc, repl, snap, past>>

\* /reload and /rollback: the batch is flushed and the job is forced.  A
\* rollback drops a reload of the tree that was pending.
ReplMessage(kind) ==
  /\ Watching
  /\ repl.st = "live"
  /\ sup.cmds < MaxCommands
  /\ ~sup.stopping
  /\ LET s == Flush([sup EXCEPT !.debounce = FALSE, !.cmds = @ + 1])
     IN sup' = Drain([s EXCEPT !.pending.runtime = kind = "reload",
                               !.pending.rollback = kind = "rollback",
                               !.pending.forced = TRUE,
                               !.awaiting = FALSE])
  /\ UNCHANGED <<work, proc, repl, snap, past>>

\* The REPL leaves: expected while the supervisor asked for it, otherwise the
\* operator quitting.
ReplExits ==
  /\ repl.st = "live"
  /\ sup.at # "crashed"
  /\ repl' = NoRepl
  /\ sup' = IF sup.expected THEN sup ELSE BeginShutdown([sup EXCEPT !.replGone = TRUE])
  /\ UNCHANGED <<work, proc, snap, past>>

Signalled ==
  /\ Watching
  /\ ~sup.stopping
  /\ sup' = BeginShutdown(sup)
  /\ UNCHANGED <<work, proc, repl, snap, past>>

TurnBegins == /\ proc.st = "serving" /\ ~proc.turn /\ repl.st = "live"
              /\ proc' = [proc EXCEPT !.turn = TRUE]
              /\ UNCHANGED <<work, sup, repl, snap, past>>

TurnEnds == /\ proc.turn
            /\ proc' = [proc EXCEPT !.turn = FALSE]
            /\ UNCHANGED <<work, sup, repl, snap, past>>

(***************************************************************************)
(* One attempt to apply what is pending.                                   *)
(***************************************************************************)
\* The status answered, or did not: a turn in flight puts the reload off.
StatusAnswered ==
  /\ sup.at = "asking"
  /\ \E inFlight \in {proc.turn, FALSE} :
       sup' = IF sup.stopping THEN EndApply(sup)
              ELSE IF inFlight /\ ~sup.pending.forced
                   THEN EndApply([sup EXCEPT !.poll = TRUE])
                   ELSE TakeJob(sup)
  /\ UNCHANGED <<work, proc, repl, snap, past>>

Polled ==
  /\ sup.poll
  /\ sup' = Drain([sup EXCEPT !.poll = FALSE])
  /\ UNCHANGED <<work, proc, repl, snap, past>>

\* cargo read the sources as they were at some time of the build.
Built(ok) ==
  /\ sup.at = "build"
  /\ \E v \in {sup.staged, work.ui} : work' = [work EXCEPT !.bin = IF ok THEN v ELSE @]
  /\ past' = IF ok THEN [past EXCEPT !.missed = @ \ {"ui"}] ELSE past
  /\ sup' = IF sup.stopping THEN EndApply(sup)
            ELSE IF ~ok THEN EndApply(Keep(sup, sup.job, TRUE))
            ELSE IF sup.job.runtime THEN Restart(sup)
            ELSE AfterRuntime(sup)
  /\ UNCHANGED <<proc, repl, snap>>

\* runtime.stop(): asked, then signalled; it returns when the process is gone.
Stopped ==
  /\ sup.at = "stop"
  /\ proc' = NoProc
  /\ sup' = LET s == [sup EXCEPT !.up = FALSE]
            IN IF s.stopping THEN EndApply(s) ELSE [s EXCEPT !.at = "launch"]
  /\ UNCHANGED <<work, repl, snap, past>>

\* #launch samples the lock file, then spawns.
Sampled ==
  /\ sup.at = "launch"
  /\ sup' = [sup EXCEPT !.at = "spawn", !.lock = work.lock]
  /\ UNCHANGED <<work, proc, repl, snap, past>>

Spawned ==
  /\ sup.at = "spawn"
  /\ proc' = [NoProc EXCEPT !.st = "spawned", !.lock = work.lock,
                            !.good = sup.want = "last-good"]
  /\ sup' = [sup EXCEPT !.at = "starting"]
  /\ UNCHANGED <<work, repl, snap, past>>

Source == IF proc.good THEN snap.code ELSE work.rt

Loads == /\ proc.st = "spawned"
         /\ proc' = [proc EXCEPT !.st = "loaded", !.code = Source]
         /\ past' = IF proc.good THEN past ELSE [past EXCEPT !.missed = @ \ {"rt"}]
         /\ UNCHANGED <<work, sup, repl, snap>>

Fingerprints == /\ proc.st = "loaded"
                /\ proc' = [proc EXCEPT !.st = "hashed", !.hash = Source]
                /\ UNCHANGED <<work, sup, repl, snap, past>>

\* The outcome of a start once nobody asked to stop.
LastGoodRuns(s) == [s EXCEPT !.up = TRUE, !.mode = "last-good"]

\* After a fallback the rest of the job waits for a save; after a rollback a
\* queued REPL rebuild runs next.
Resume(s) == IF s.job.rollback
             THEN EndApply(IF s.job.repl
                           THEN Keep(s, [s.job EXCEPT !.runtime = FALSE], FALSE) ELSE s)
             ELSE EndApply(Keep(s, [s.job EXCEPT !.runtime = FALSE], TRUE))

\* boot() ends: the watcher starts and the REPL is launched, or main returns 1.
Booted(s) == [s EXCEPT !.boot = FALSE, !.busy = FALSE, !.at = "idle"]
NotBooted(s) == [Supervisor EXCEPT !.at = "over"]

Answers ==
  /\ sup.at = "starting" /\ proc.st = "hashed"
  /\ proc' = [proc EXCEPT !.st = "serving"]
  /\ LET stopped == sup.stopping
         tree == sup.want = "tree"
     IN /\ sup' = IF stopped THEN EndApply(sup)
                  ELSE IF tree THEN [sup EXCEPT !.up = TRUE, !.mode = "tree", !.at = "copy",
                                         !.hash = proc.hash, !.staged = work.rt]
                  ELSE IF sup.boot THEN Booted(LastGoodRuns(sup))
                  ELSE Resume(LastGoodRuns(sup))
        /\ past' = IF tree THEN [past EXCEPT !.reports = @ \union
                                               {[code |-> proc.code, hash |-> proc.hash, lock |-> proc.lock]}]
                   ELSE past
        /\ repl' = IF sup.boot /\ ~tree THEN [st |-> "live", code |-> work.bin] ELSE repl
  /\ UNCHANGED <<work, snap>>

\* The process exits while it boots, or is terminated when it does not answer.
StartFails ==
  /\ sup.at \in {"spawn", "starting"}
  /\ proc' = NoProc
  /\ sup' = IF sup.stopping THEN EndApply(sup)
            ELSE IF sup.want = "tree" THEN [sup EXCEPT !.at = "check"]
            ELSE IF sup.boot THEN NotBooted(sup)
            ELSE Resume(sup)
  /\ UNCHANGED <<work, repl, snap, past>>

\* checkSnapshot: whole, and on the current lock file.
SnapshotRuns == snap.st = "whole" /\ snap.lock = work.lock

\* A rollback that is refused changes nothing, and the reload it took the place of is missed.
Checked ==
  /\ sup.at = "check"
  /\ LET ok == SnapshotRuns
         s  == [sup EXCEPT !.want = "last-good"]
     IN /\ sup' = IF sup.stopping THEN EndApply(sup)
                  ELSE IF ~ok THEN (IF sup.boot THEN NotBooted(sup) ELSE Resume(sup))
                  ELSE IF sup.job.rollback THEN Restart(s)
                  ELSE [s EXCEPT !.at = "launch"]
        /\ past' = IF ~ok /\ sup.job.rollback
                   THEN [past EXCEPT !.missed = @ \union {"rt"}] ELSE past
  /\ UNCHANGED <<work, proc, repl, snap>>

(***************************************************************************)
(* Promotion: copy, compare with what the runtime reported, retire the     *)
(* current snapshot, move the copy into place.                             *)
(***************************************************************************)
AfterPromotion(s) == IF s.boot THEN Booted(s) ELSE AfterRuntime(s)

Promoted(s) ==
  /\ sup' = AfterPromotion([s EXCEPT !.staged = 0, !.hash = 0, !.lock = 0, !.old = NoSnap])
  /\ repl' = IF s.boot THEN [st |-> "live", code |-> work.bin] ELSE repl

\* A copy that is not the code the runtime reported is refused, a save that
\* landed while it was copied included.
Copied(v) == IF v = sup.hash THEN /\ sup' = [sup EXCEPT !.at = "retire", !.staged = v]
                                  /\ UNCHANGED repl
             ELSE Promoted(sup)

CopiedUnchecked == /\ sup.at = "copy"
                   /\ \E v \in {sup.staged, work.rt} :
                        sup' = [sup EXCEPT !.at = "retire", !.staged = v]
                   /\ UNCHANGED <<work, proc, repl, snap, past>>

CopiedChecked == /\ sup.at = "copy"
                 /\ \E v \in {sup.staged, work.rt} : Copied(v)
                 /\ UNCHANGED <<work, proc, snap, past>>

CopyStep == CopiedChecked

\* No fingerprint was reported, or a file operation failed.
NotPromoted == /\ sup.at \in {"copy", "retire"}
               /\ Promoted(sup)
               /\ UNCHANGED <<work, proc, snap, past>>

Retired == /\ sup.at = "retire"
           /\ snap' = NoSnap
           /\ sup' = [sup EXCEPT !.at = "publish", !.old = snap]
           /\ UNCHANGED <<work, proc, repl, past>>

Published == /\ sup.at = "publish"
             /\ snap' = [st |-> "whole", code |-> sup.staged, lock |-> sup.lock]
             /\ Promoted(sup)
             /\ UNCHANGED <<work, proc, past>>

\* The second rename failed: the retired copy is moved back, or is not.
NotPublished == /\ sup.at = "publish"
                /\ snap' \in {sup.old, NoSnap}
                /\ Promoted(sup)
                /\ UNCHANGED <<work, proc, past>>

(***************************************************************************)
(* The REPL half of a job, the shutdown, and the processes dying.          *)
(***************************************************************************)
\* The REPL left as asked; the rebuilt one takes its place.
Reexecs ==
  /\ sup.at = "exit"
  /\ LET s == [sup EXCEPT !.expected = FALSE]
     IN /\ sup' = EndApply(s)
        /\ repl' = IF s.stopping THEN NoRepl ELSE [st |-> "live", code |-> work.bin]
  /\ UNCHANGED <<work, proc, snap, past>>

ReplStopped == /\ sup.at = "finexit"
               /\ repl' = NoRepl
               /\ sup' = [sup EXCEPT !.at = "finstop"]
               /\ UNCHANGED <<work, proc, snap, past>>

StopChild(p) == NoProc
StopIfUp(p) == IF sup.up THEN NoProc ELSE p

\* The supervisor's last runtime.stop(): the child it started, whatever it
\* believes of it.
LastStop(p) == StopChild(p)

RuntimeStopped == /\ sup.at = "finstop"
                  /\ proc' = LastStop(proc)
                  /\ sup' = [Supervisor EXCEPT !.at = "over"]
                  /\ UNCHANGED <<work, repl, snap, past>>

\* The runtime dies on its own.  An exit while the supervisor is busy or
\* stopping is taken for one it asked for.
RuntimeExits ==
  /\ proc.st = "serving"
  /\ sup.at \notin {"stop", "finstop", "crashed"}
  /\ proc' = NoProc
  /\ sup' = IF sup.stopping \/ sup.busy THEN sup ELSE [sup EXCEPT !.up = FALSE]
  /\ UNCHANGED <<work, repl, snap, past>>

\* The supervisor is killed; the processes go on without it.
Crash == /\ sup.at \notin {"over", "crashed"}
         /\ sup' = [Supervisor EXCEPT !.at = "crashed"]
         /\ work' = [work EXCEPT !.queue = {}]
         /\ UNCHANGED <<proc, repl, snap, past>>

\* The steps that end an await of the supervisor.
Stage == \/ StatusAnswered
         \/ \E ok \in BOOLEAN : Built(ok)
         \/ Stopped \/ Sampled \/ Spawned \/ Answers \/ StartFails
         \/ Checked \/ CopyStep \/ NotPromoted \/ Retired \/ Published \/ NotPublished
         \/ Reexecs \/ ReplStopped \/ RuntimeStopped

Boots == Loads \/ Fingerprints

Operator == \/ \E p \in Paths : Save(p)
            \/ \E kind \in {"reload", "rollback"} : ReplMessage(kind)
            \/ ReplExits \/ Signalled \/ TurnBegins

Over == sup.at \in {"over", "crashed"}

\* Nothing more happens once the supervisor is gone.
Rests == Over /\ UNCHANGED devVars

Next == \/ Stage \/ Boots \/ Debounced \/ Polled \/ Operator
        \/ TurnEnds \/ RuntimeExits \/ Crash \/ Rests
        \/ \E p \in Paths : Changed(p)

Spec == Init /\ [][Next]_devVars

\* The waits of the supervisor that nothing bounds: for `cargo build`, neither
\* timed nor killed, and for the exit of a REPL that is sent SIGTERM only.
Unbounded == sup.at = "build" \/ (sup.at \in {"exit", "finexit"} /\ repl.st = "live")

\* Every other wait is bounded by a timer or by SIGKILL, and timers fire.
Timely == ~Unbounded /\ Stage
FairSpec == /\ Spec
            /\ WF_devVars(Timely) /\ WF_devVars(Boots)
            /\ WF_devVars(Debounced) /\ WF_devVars(Polled)

(***************************************************************************)
(* Properties.                                                             *)
(***************************************************************************)
\* The last good code is code a runtime of the working tree reported when it
\* answered, whole, with a lock file no newer than the one it started on; and
\* what runs as the last good code is nothing else.
SnapshotTrue ==
  /\ snap.st = "whole" /\ snap.code # 0 =>
       \E r \in past.reports : r.hash = snap.code /\ snap.lock <= r.lock
  /\ proc.good /\ proc.st \notin {"none", "spawned"} =>
       proc.code = 0 \/ \E r \in past.reports : r.hash = proc.code

\* A runtime is spawned only when the one before it is gone, and when the
\* supervisor ends nothing it started is left running.
NothingLeft ==
  /\ sup.at = "spawn" => proc.st = "none"
  /\ sup.at = "over" => proc.st = "none" /\ repl.st = "none"

Quiet == /\ sup.at = "idle" /\ ~sup.debounce /\ ~sup.poll /\ ~sup.awaiting
         /\ ~Asked(sup.pending) /\ work.queue = {} /\ sup.batch = {}

\* A supervisor with nothing left to do has applied every save it was told
\* of: the working tree's runtime runs the tree's server code and the REPL the
\* tree's REPL code.
QuietIsCurrent ==
  Quiet =>
    /\ proc.st = "serving" /\ sup.mode = "tree" /\ "rt" \notin past.missed =>
         proc.code = work.rt
    /\ repl.st = "live" /\ "ui" \notin past.missed => repl.code = work.ui

DevHolds == SnapshotTrue /\ NothingLeft /\ QuietIsCurrent

\* A shutdown ends unless the supervisor is left in one of its unbounded waits:
\* asked to stop in the middle of an attempt it first waits that attempt's build
\* or REPL out.  But for those waits a /reload or /rollback is taken up, or waits
\* for a save behind a build or boot that failed.
ShutdownEnds == sup.stopping ~> Over \/ Unbounded
CommandTaken == sup.pending.forced ~> \/ ~sup.pending.forced \/ sup.awaiting
                                      \/ sup.stopping \/ Over \/ Unbounded
============================================================================
