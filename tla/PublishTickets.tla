--------------------------- MODULE PublishTickets ---------------------------
(***************************************************************************)
(* Publishing a session's branch: the ticket registry                      *)
(* (publish-tickets.ts), the detached run of the pre-gate and the gate     *)
(* (publish-phase.ts, publish-run.ts), the push and the pull request       *)
(* (publish-push.ts), the tools over them (publish.ts) and the reading of  *)
(* a worktree that a sandboxed command goes on writing (publish-git.ts).   *)
(*                                                                         *)
(* Every await lets the others in: a run or a call reads the layout in one *)
(* step and acts on what it read in a later one.                           *)
(***************************************************************************)
EXTENDS Integers, FiniteSets

CONSTANTS PublishSessions, Callers,      \* sessions, calls of publish/push
          MaxTickets,             \* bound on publish/start
          PerSession, Total,      \* MAX_TICKETS_PER_SESSION, MAX_TICKETS_TOTAL
          Worktrees               \* what the sandbox can make of the worktree

ASSUME TicketsBounded == MaxTickets \in Nat

VARIABLES
    made,     \* tickets created so far; a ticket is known by its number
    tk,       \* the registry
    worktree,     \* the worktree as it is
    run,      \* the run of a ticket
    gateProc,     \* its command: none, running, stopping
    pushCall,     \* the publish/push calls
    passed, gateSaw, pushes     \* for the properties

publishVars == <<made, tk, worktree, run, gateProc, pushCall, passed, gateSaw, pushes>>

Ids == 1..MaxTickets
Unset == "none"
Unreadable == [ref |-> Unset, head |-> "unreadable"]
Absent == [held |-> FALSE, session |-> Unset, phase |-> Unset, pin |-> Unreadable, old |-> FALSE,
           hook |-> FALSE, claim |-> FALSE, reason |-> Unset]
NoRun == [at |-> "idle", phase |-> "pre-gate", seen |-> Unreadable, result |-> Unset, wrote |-> TRUE]
NoCall == [at |-> "idle", t |-> 0, seen |-> Unreadable]

Running == {"pre-gate", "gated"}

-----------------------------------------------------------------------------
(* Reading the worktree *)

\* A main checkout's git dir is the workspace's own, a linked worktree's is
\* where the shared git dir keeps it and points back; the sandbox may write
\* neither the shared config nor, in a main checkout, the git dir.
TrustedLayout(w) ==
    /\ w.inPlace /\ (w.shape = "linked" => w.pointsBack)
    /\ ~w.configWritable /\ (w.shape = "main" => w.gitDirDenied)
    /\ ~w.includes /\ ~w.worktreeConfig

ReadLayout(w) == IF w.top /\ TrustedLayout(w) THEN [ref |-> w.ref, head |-> w.head]
                 ELSE Unreadable

LayoutsMatch(a, b) == a # Unreadable /\ a = b

-----------------------------------------------------------------------------
(* The registry *)

Outlived(r) == r.held /\ r.old /\ r.phase \notin {"expired", "pr-open", "pushing", "pushed"}

\* Expiry is applied to a session's tickets whenever one of them is looked
\* at; a ticket takes its command with it.
ExpireIn(f, ss) == [i \in Ids |-> IF f[i].session \in ss /\ Outlived(f[i])
                                  THEN [f[i] EXCEPT !.phase = "expired", !.hook = FALSE,
                                                    !.reason = "outlived"]
                                  ELSE f[i]]
Live(i) == ExpireIn(tk, {tk[i].session})

\* A cancel hook stops the command it was made for.
Stopped(p, ii) == [i \in Ids |-> IF i \in ii /\ p[i] = "running" THEN "stopping" ELSE p[i]]

\* The commands whose hooks were run on the way from tk to f.
HooksRun(f) == {i \in Ids : tk[i].hook /\ ~f[i].hook}

Held(f) == {i \in Ids : f[i].held}
Oldest(ii) == CHOOSE i \in ii : \A j \in ii : i <= j
Swept(f) == [i \in Ids |-> IF f[i].phase = "expired" THEN Absent ELSE f[i]]
Of(f, s) == {i \in Held(f) : f[i].session = s}

DropDown(f, ii, max) ==
    IF Cardinality(ii) <= max THEN f ELSE [f EXCEPT ![Oldest(ii)] = Absent]

\* create: one more ticket at most is over either bound.
Created(i, s, layout) ==
    LET f1 == [ExpireIn(tk, {s}) EXCEPT
                 ![i] = [Absent EXCEPT !.held = TRUE, !.session = s, !.phase = "pre-gate",
                                       !.pin = layout]]
        f2 == DropDown(f1, Of(f1, s), PerSession)
        f3 == Swept(ExpireIn(f2, PublishSessions))
    IN DropDown(f3, Held(f3), Total)

\* markFailed: only a running phase can fail.
FailedIn(f, i, why) ==
    IF f[i].phase \in Running
    THEN [f EXCEPT ![i].phase = "failed", ![i].hook = FALSE, ![i].reason = why] ELSE f

-----------------------------------------------------------------------------

PublishInit == /\ made = 0 /\ tk = [i \in Ids |-> Absent] /\ worktree \in Worktrees
               /\ run = [i \in Ids |-> NoRun] /\ gateProc = [i \in Ids |-> Unset]
               /\ pushCall = [c \in Callers |-> NoCall]
               /\ passed = [i \in Ids |-> {}] /\ gateSaw = [i \in Ids |-> {}]
               /\ pushes = [i \in Ids |-> 0]

\* A command in the sandbox, or the operator, moves the worktree on.  A gate
\* that runs sees what it finds.
Move == \E w \in Worktrees \ {worktree} :
    /\ worktree' = w
    /\ gateSaw' = [i \in Ids |-> IF run[i].at = "wait" /\ gateProc[i] = "running"
                                 THEN gateSaw[i] \cup {w.head} ELSE gateSaw[i]]
    /\ UNCHANGED <<made, tk, run, gateProc, pushCall, passed, pushes>>

\* Time passes: a ticket is past its TTL.
Age(i) == /\ tk[i].held /\ ~tk[i].old
          /\ tk' = [tk EXCEPT ![i].old = TRUE]
          /\ UNCHANGED <<made, worktree, run, gateProc, pushCall, passed, gateSaw, pushes>>

\* publish/start.  The pins resolved after the approval are the ticket's; a
\* session without a known implementer, and a detached or unborn head, start
\* nothing.
Start(s) ==
    LET i == made + 1
        layout == ReadLayout(worktree)
        f == Created(i, s, layout)
    IN /\ made < MaxTickets
       /\ layout # Unreadable /\ layout.head # Unset /\ layout.ref # Unset
       /\ made' = i /\ tk' = f
       /\ gateProc' = Stopped(gateProc, HooksRun(f))
       /\ run' = [run EXCEPT ![i].at = "read"]
       /\ UNCHANGED <<worktree, pushCall, passed, gateSaw, pushes>>

\* publish/status, and any other look at a session's tickets.
Status(s) ==
    /\ tk' = ExpireIn(tk, {s}) /\ tk' # tk
    /\ gateProc' = Stopped(gateProc, HooksRun(tk'))
    /\ UNCHANGED <<made, worktree, run, pushCall, passed, gateSaw, pushes>>

\* publish/cancel.
CancelWith(i, stops) ==
    LET f == Live(i)
        g == [f EXCEPT ![i].phase = "failed", ![i].hook = FALSE, ![i].reason = "cancelled"]
    IN /\ tk[i].held /\ f[i].phase \in Running
       /\ tk' = g
       /\ gateProc' = Stopped(gateProc, IF stops THEN HooksRun(g) ELSE HooksRun(g) \ {i})
       /\ UNCHANGED <<made, worktree, run, pushCall, passed, gateSaw, pushes>>

CancelOnly(i) == CancelWith(i, FALSE)

Cancel(i) == CancelWith(i, TRUE)

-----------------------------------------------------------------------------
(* runGates *)

\* A run reads the layout before each command and before each verdict.
Read(i) ==
    /\ run[i].at \in {"read", "reread"}
    /\ run' = [run EXCEPT ![i].seen = ReadLayout(worktree),
                          ![i].at = IF @ = "read" THEN "start" ELSE "verdict"]
    /\ UNCHANGED <<made, tk, worktree, gateProc, pushCall, passed, gateSaw, pushes>>

ActivePhase(p) == IF p = "pre-gate" THEN "pre-gate" ELSE "gated"

\* The run gives up: a ticket that is gone is let be, one that still runs fails.
Fail(i, why) == /\ tk' = FailedIn(Live(i), i, why)
                /\ gateProc' = Stopped(gateProc, HooksRun(tk') \ {i})
                /\ run' = [run EXCEPT ![i].at = "done"]
                /\ UNCHANGED <<made, worktree, pushCall, passed, gateSaw, pushes>>

Look(i) == tk' = Live(i) /\ gateProc' = Stopped(gateProc, HooksRun(tk'))

\* The last look at the ticket, the start of the command and the hook are one
\* step.
StartCommand(i) ==
    /\ run[i].at = "start"
    /\ \/ ~tk[i].held /\ run' = [run EXCEPT ![i].at = "done"]
          /\ UNCHANGED <<made, tk, worktree, gateProc, pushCall, passed, gateSaw, pushes>>
       \/ tk[i].held /\ ~LayoutsMatch(run[i].seen, tk[i].pin) /\ Fail(i, "moved")
       \/ \* an argument too long, a command outside the policy
          tk[i].held /\ LayoutsMatch(run[i].seen, tk[i].pin) /\ Fail(i, "not started")
       \/ /\ tk[i].held /\ LayoutsMatch(run[i].seen, tk[i].pin)
          /\ LET f == Live(i) IN
             IF f[i].phase # ActivePhase(run[i].phase)
             THEN Look(i) /\ run' = [run EXCEPT ![i].at = "done"] /\ UNCHANGED gateSaw
             ELSE /\ tk' = [f EXCEPT ![i].hook = TRUE]
                  /\ gateProc' = [Stopped(gateProc, HooksRun(f)) EXCEPT ![i] = "running"]
                  /\ run' = [run EXCEPT ![i].at = "wait"]
                  /\ gateSaw' = [gateSaw EXCEPT ![i] = {worktree.head}]
          /\ UNCHANGED <<made, worktree, pushCall, passed, pushes>>

\* The command exits, or is stopped by its deadline or its hook.
CommandEnds(i) ==
    /\ run[i].at = "wait" /\ gateProc' = [gateProc EXCEPT ![i] = Unset]
    /\ \E r \in IF gateProc[i] = "stopping" THEN {"cancelled"} ELSE {"ok", "failed"} :
         /\ run' = [run EXCEPT ![i].at = "append", ![i].result = r]
         /\ passed' = IF r = "ok" THEN [passed EXCEPT ![i] = @ \cup {run[i].phase}] ELSE passed
    /\ UNCHANGED <<made, tk, worktree, pushCall, gateSaw, pushes>>

\* The handle rejects: the phase's failure.
CommandErrsTo(i, f) ==
    /\ run[i].at = "wait" /\ gateProc[i] = "running"
    /\ tk' = f
    /\ gateProc' = [Stopped(gateProc, HooksRun(tk')) EXCEPT ![i] = Unset]
    /\ run' = [run EXCEPT ![i].at = "done"]
    /\ UNCHANGED <<made, worktree, pushCall, passed, gateSaw, pushes>>

CommandErrsUncaught(i) == CommandErrsTo(i, tk)

CommandErrs(i) == CommandErrsTo(i, FailedIn(Live(i), i, "errored"))

\* The report is written or not; the verdict stands.
AppendReport(i) ==
    /\ run[i].at = "append"
    /\ \E w \in BOOLEAN : run' = [run EXCEPT ![i].at = "judge", ![i].wrote = @ /\ w]
    /\ UNCHANGED <<made, tk, worktree, gateProc, pushCall, passed, gateSaw, pushes>>

JudgeAs(i, ok) ==
    /\ run[i].at = "judge"
    /\ IF ~tk[i].held
       THEN /\ run' = [run EXCEPT ![i].at = "done"]
            /\ UNCHANGED <<made, tk, worktree, gateProc, pushCall, passed, gateSaw, pushes>>
       ELSE IF run[i].result \notin ok THEN Fail(i, run[i].result)
       ELSE /\ Look(i) /\ run' = [run EXCEPT ![i].at = "reread"]
            /\ UNCHANGED <<made, worktree, pushCall, passed, gateSaw, pushes>>

JudgeIgnoresExit(i) == JudgeAs(i, {"ok", "failed"})

Judge(i) == JudgeAs(i, {"ok"})

\* markGated and markReady refuse a ticket that left its phase.
VerdictWith(i, checks) ==
    /\ run[i].at = "verdict"
    /\ LET f == Live(i)
           from == ActivePhase(run[i].phase)
           to == IF run[i].phase = "pre-gate" THEN "gated" ELSE "ready"
       IN IF ~tk[i].held \/ (checks /\ f[i].phase # from /\ LayoutsMatch(run[i].seen, tk[i].pin))
          THEN /\ Look(i) /\ run' = [run EXCEPT ![i].at = "done"]
               /\ UNCHANGED <<made, worktree, pushCall, passed, gateSaw, pushes>>
          ELSE IF ~LayoutsMatch(run[i].seen, tk[i].pin) THEN Fail(i, "moved")
          ELSE /\ tk' = [f EXCEPT ![i].phase = to, ![i].hook = @ /\ to # "ready",
                                  ![i].reason = IF run[i].wrote THEN Unset ELSE "no report"]
               /\ gateProc' = Stopped(gateProc, HooksRun(f))
               /\ run' = [run EXCEPT ![i].phase = "gate",
                                     ![i].at = IF to = "gated" THEN "read" ELSE "done"]
               /\ UNCHANGED <<made, worktree, pushCall, passed, gateSaw, pushes>>

VerdictUnchecked(i) == VerdictWith(i, FALSE)

GateVerdict(i) == VerdictWith(i, TRUE)

-----------------------------------------------------------------------------
(* publish/push *)

Pushable == {"ready", "pushed"}

\* The arguments are the ticket's pins, or the call is refused before it asks;
\* the operator approves them.
PushApproved(c, i) ==
    /\ pushCall[c].at = "idle" /\ tk[i].held /\ ~Outlived(tk[i]) /\ tk[i].phase \in Pushable
    /\ tk[i].phase = "ready" => LayoutsMatch(ReadLayout(worktree), tk[i].pin)
    /\ pushCall' = [pushCall EXCEPT ![c] = [at |-> "check", t |-> i, seen |-> Unreadable]]
    /\ UNCHANGED <<made, tk, worktree, run, gateProc, passed, gateSaw, pushes>>

Return(c) == pushCall' = [pushCall EXCEPT ![c] = NoCall]

\* The executor checks again, and a ticket that is ready has its layout read
\* twice more; one that is pushed has only its pull request left.
PushCheck(c) ==
    LET i == pushCall[c].t
        f == Live(i)
    IN /\ pushCall[c].at = "check"
       /\ tk' = f /\ gateProc' = Stopped(gateProc, HooksRun(f))
       /\ IF f[i].phase = "ready"
          THEN pushCall' = [pushCall EXCEPT ![c].at = "recheck", ![c].seen = ReadLayout(worktree)]
          ELSE IF f[i].phase = "pushed" THEN pushCall' = [pushCall EXCEPT ![c].at = "claim"]
          ELSE Return(c)
       /\ UNCHANGED <<made, worktree, run, passed, gateSaw, pushes>>

PushRecheck(c) ==
    LET i == pushCall[c].t
        f == Live(i)
    IN /\ pushCall[c].at = "recheck"
       /\ tk' = f /\ gateProc' = Stopped(gateProc, HooksRun(f))
       /\ IF ~LayoutsMatch(pushCall[c].seen, tk[i].pin) \/ f[i].phase \notin Pushable THEN Return(c)
          ELSE IF f[i].phase = "pushed" THEN pushCall' = [pushCall EXCEPT ![c].at = "claim"]
          ELSE pushCall' = [pushCall EXCEPT ![c].at = "push", ![c].seen = ReadLayout(worktree)]
       /\ UNCHANGED <<made, worktree, run, passed, gateSaw, pushes>>

\* markPushing: only a ready ticket goes.
PushStartFrom(c, phases) ==
    LET i == pushCall[c].t
        f == Live(i)
    IN /\ pushCall[c].at = "push"
       /\ gateProc' = Stopped(gateProc, HooksRun(f))
       /\ IF LayoutsMatch(pushCall[c].seen, tk[i].pin) /\ f[i].phase \in phases
          THEN /\ tk' = [f EXCEPT ![i].phase = "pushing"]
               /\ pushCall' = [pushCall EXCEPT ![c].at = "pushing"]
               /\ pushes' = [pushes EXCEPT ![i] = @ + 1]
          ELSE tk' = f /\ Return(c) /\ UNCHANGED pushes
       /\ UNCHANGED <<made, worktree, run, passed, gateSaw>>

PushStartAgain(c) == PushStartFrom(c, {"ready", "pushing", "pushed"})

PushStart(c) == PushStartFrom(c, {"ready"})

\* A push that failed is final.
MarkPushFailed(f, i) == [f EXCEPT ![i].phase = "failed", ![i].reason = "push"]
MarkPushed(f, i) == [f EXCEPT ![i].phase = "pushed"]

\* The end of a push finds the ticket, or nothing.
PushEnds(c) ==
    LET i == pushCall[c].t IN
    /\ pushCall[c].at = "pushing"
    /\ IF tk[i].phase # "pushing" THEN tk' = tk /\ Return(c)
       ELSE \/ tk' = MarkPushFailed(Live(i), i) /\ Return(c)
            \/ tk' = MarkPushed(Live(i), i) /\ pushCall' = [pushCall EXCEPT ![c].at = "claim"]
    /\ gateProc' = Stopped(gateProc, HooksRun(tk'))
    /\ UNCHANGED <<made, worktree, run, passed, gateSaw, pushes>>

ClaimPrIf(c, free) ==
    LET i == pushCall[c].t IN
    /\ pushCall[c].at = "claim"
    /\ IF tk[i].phase = "pushed" /\ free
       THEN tk' = [tk EXCEPT ![i].claim = TRUE] /\ pushCall' = [pushCall EXCEPT ![c].at = "opening"]
       ELSE UNCHANGED tk /\ Return(c)
    /\ UNCHANGED <<made, worktree, run, gateProc, passed, gateSaw, pushes>>

ClaimPrAnyway(c) == ClaimPrIf(c, TRUE)

ClaimPr(c) == ClaimPrIf(c, ~tk[pushCall[c].t].claim)

NotePrFailed(i, held) == [tk EXCEPT ![i].claim = held, ![i].reason = "open_pr"]
MarkPrOpen(i) == [tk EXCEPT ![i].claim = FALSE, ![i].reason = Unset, ![i].phase = "pr-open"]

\* open_pr fails, prints no address, or opens the pull request.
OpenEndsTo(c, held) ==
    LET i == pushCall[c].t IN
    /\ pushCall[c].at = "opening" /\ Return(c)
    /\ IF tk[i].phase # "pushed" THEN UNCHANGED tk
       ELSE tk' \in {NotePrFailed(i, held), MarkPrOpen(i)}
    /\ UNCHANGED <<made, worktree, run, gateProc, passed, gateSaw, pushes>>

OpenEndsClaimed(c) == OpenEndsTo(c, TRUE)

OpenEnds(c) == OpenEndsTo(c, FALSE)

-----------------------------------------------------------------------------

RunStep(i) == \/ Read(i) \/ StartCommand(i) \/ CommandEnds(i) \/ CommandErrs(i)
              \/ AppendReport(i) \/ Judge(i) \/ GateVerdict(i)
PushStep(c) == PushCheck(c) \/ PushRecheck(c) \/ PushStart(c) \/ PushEnds(c) \/ ClaimPr(c)
               \/ OpenEnds(c)

PublishNext == \/ Move
               \/ \E s \in PublishSessions : Start(s) \/ Status(s)
               \/ \E i \in Ids : Age(i) \/ Cancel(i) \/ RunStep(i)
               \/ \E c \in Callers : PushStep(c) \/ \E i \in Ids : PushApproved(c, i)

PublishSpec == PublishInit /\ [][PublishNext]_publishVars

\* A run goes on, its command ends by itself or by its deadline, and so does a
\* push.
PublishLiveSpec == /\ PublishSpec /\ \A i \in Ids : WF_publishVars(RunStep(i))
                   /\ \A c \in Callers : WF_publishVars(PushStep(c))

-----------------------------------------------------------------------------
(* Properties *)

\* publish-tickets.ts: a ticket that waits for a push, or went past it, had
\* both its gates exit 0; no cancel, expiry or late verdict takes it there.
ShippedWasGated == \A i \in Ids :
    tk[i].phase \in {"ready", "pushing", "pushed", "pr-open"}
        => passed[i] = {"pre-gate", "gate"}

\* A ticket that failed or expired, by a cancel in the middle of a phase, say,
\* stays dead: the run that is still on its way gives it no later verdict.
DeadStaysDead == [][\A i \in Ids :
    tk[i].phase \in {"failed", "expired"} /\ tk'[i].held
        => tk'[i].phase \in {tk[i].phase, "expired"}]_publishVars

\* A gate's command that nobody told to stop belongs to a ticket that is in
\* that phase and can stop it: eviction, expiry and cancel leave none behind.
NoOrphanGate == \A i \in Ids :
    gateProc[i] = "running" => tk[i].hook /\ tk[i].phase = ActivePhase(run[i].phase)

\* publish-push.ts: a ticket is pushed at most once, whatever calls race.
PushedOnce == \A i \in Ids : pushes[i] <= 1

\* claimPr: one open_pr at a time, and a pushed ticket is claimed exactly
\* while one runs, so that a failed one can be tried again.
OnePullRequest == \A i \in Ids :
    LET opening == {c \in Callers : pushCall[c].at = "opening" /\ pushCall[c].t = i}
    IN Cardinality(opening) <= 1 /\ (tk[i].held => tk[i].claim = (opening # {}))

\* publish-tickets.ts and publish-push.ts: what is ready or pushed had both
\* gates exit 0, no gate's command is left without a ticket that can stop it,
\* a ticket is pushed at most once and one pull request is opened at a time.
PublishGated == ShippedWasGated /\ NoOrphanGate /\ PushedOnce /\ OnePullRequest

\* publish-phase.ts: a run never stays behind: a ticket leaves the running
\* phases, though its command is stopped, its report cannot be written or the
\* worktree moves.
RunSettles == \A i \in Ids : tk[i].phase \in Running ~> tk[i].phase \notin Running

\* #drop says a run whose ticket is gone "would have nowhere to report, so it
\* is stopped".
NoRunWithoutTicket ==
    /\ \A i \in Ids : gateProc[i] = "running" => tk[i].held
    /\ \A c \in Callers : pushCall[c].at \in {"pushing", "opening"} => tk[pushCall[c].t].held

\* publish-phase.ts: "a gate that ran against one commit must not vouch for
\* another".
GateSawThePin == \A i \in Ids : tk[i].phase = "ready" => gateSaw[i] = {tk[i].pin.head}
=============================================================================
