----------------------------- MODULE SpendGate ------------------------------
(***************************************************************************)
(* The spend limits of concurrent turns: the budget tracker                *)
(* (budget/tracker.ts), the gate with its operator prompts                 *)
(* (budget/envelope-gate.ts), the marks shared between turns               *)
(* (budget/confirmations.ts) and the gated, recorded provider call         *)
(* (engine/observed-turn.ts, observed-call.ts, budget-gate.ts).            *)
(*                                                                         *)
(* Money is counted in whole units.  A session's turns run one at a time   *)
(* (SessionOwners); turns of different sessions interleave at every await: *)
(* the database read, the operator's prompt, the call, the event write.    *)
(* All turns are of one local day and on a paid model: a tier-0 turn       *)
(* spends nothing, reads no baseline and is never asked.                   *)
(***************************************************************************)
EXTENDS Integers, FiniteSets, FiniteSetsExt

CONSTANTS
    Turns,
    Sessions,
    SessionOf,      \* turn -> its session
    Limit,          \* turn -> scope -> the limit in force (BudgetConfig)
    Estimates,      \* estimated costs of calls
    Costs,          \* costs of calls
    MaxExcess,      \* bound: how far a call's cost may pass its estimate
    MaxCalls        \* bound: provider calls of a turn

\* SCOPE_ORDER; the order only frames the prompt.
Scopes == {"daily_limit", "session_limit", "turn_limit", "runaway_stall",
           "per_call_limit"}

ASSUME TurnsAssumption == IsFiniteSet(Turns) /\ Turns # {} /\ IsFiniteSet(Sessions)
ASSUME SessionOfAssumption == SessionOf \in [Turns -> Sessions]
ASSUME LimitAssumption == Limit \in [Turns -> [Scopes -> Nat]]
ASSUME CostAssumption ==
    /\ Estimates \subseteq Nat /\ IsFiniteSet(Estimates) /\ Estimates # {}
    /\ Costs \subseteq Nat /\ MaxExcess \in Nat
ASSUME MaxCallsAssumption == MaxCalls \in [Turns -> Nat]

VARIABLES
    phase,      \* turn -> where it is
    calls,      \* turn -> provider calls begun
    sessionBase,\* turn -> baselines.sessionSpentUsd, read once
    dailyOther, \* turn -> baselines.dailyOtherSessionsUsd, refreshed
    total,      \* turn -> _totalCost
    atProgress, \* turn -> _costAtProgress
    preCall,    \* turn -> scope -> the projection its check measured
    asked,      \* turn -> the scopes its open prompt names
    cost,       \* turn -> cost of the call that returned, not yet recorded
    marks,      \* key -> approved level and the limit it was approved against
    logged,     \* session -> provider_call costs in the events table
    loggedDay,  \* those of every session together
    grants      \* history: the levels the operator approved

vars == <<phase, calls, sessionBase, dailyOther, total, atProgress, preCall,
          asked, cost, marks, logged, loggedDay, grants>>
turnVars == <<calls, sessionBase, dailyOther, total, atProgress>>
table == <<logged, loggedDay>>

Phases == {"new", "entry", "entryPrompt", "ready", "read", "prompt", "calling",
           "returned", "done"}

\* Whose mark a scope's is: the turn and runaway marks are in the turn's
\* gate, the session and per-call marks under the session id, the daily mark
\* under the day.
Holder(t, scope) ==
    IF scope \in {"turn_limit", "runaway_stall"} THEN t
    ELSE IF scope = "daily_limit" THEN "day"
    ELSE SessionOf[t]

Key(t, scope) == <<scope, Holder(t, scope)>>

Keys == {Key(t, scope) : t \in Turns, scope \in Scopes}

NoCall == [scope \in Scopes |-> 0]
NoMark == [basis |-> -1, level |-> 0]
Mark == [basis : Nat \cup {-1}, level : Nat]
Grant == [key : Keys, basis : Nat, level : Nat]

Init ==
    /\ phase = [t \in Turns |-> "new"]
    /\ calls = [t \in Turns |-> 0]
    /\ sessionBase = [t \in Turns |-> 0]
    /\ dailyOther = [t \in Turns |-> 0]
    /\ total = [t \in Turns |-> 0]
    /\ atProgress = [t \in Turns |-> 0]
    /\ preCall = [t \in Turns |-> NoCall]
    /\ asked = [t \in Turns |-> {}]
    /\ cost = [t \in Turns |-> 0]
    /\ marks = [k \in Keys |-> NoMark]
    /\ logged = [s \in Sessions |-> 0]
    /\ loggedDay = 0
    /\ grants = {}

-----------------------------------------------------------------------------
(* The tracker's check and the gate's reading of it.                       *)

\* Mutant: the session limit measures this turn's spend only.
FreshSession(t) == total[t]

\* sessionSpentUsd: the earlier turns' spend and this turn's.
SessionSpent(t) == sessionBase[t] + total[t]

\* Mutant: the turn limit measures the spend since the last progress.
SpentSinceProgress(t) == total[t] - atProgress[t]

\* turnCostSoFar.
TurnSpent(t) == total[t]

\* What each limit has seen spent.  The session's own spend is all of today.
SpentSoFar(t) ==
    [per_call_limit |-> 0,
     runaway_stall  |-> total[t] - atProgress[t],
     turn_limit     |-> TurnSpent(t),
     session_limit  |-> SessionSpent(t),
     daily_limit    |-> dailyOther[t] + sessionBase[t] + total[t]]

\* checkPreCall: what each limit measures for a call.
Projection(t, est) == [scope \in Scopes |-> SpentSoFar(t)[scope] + est]

\* Mutant: the basis of the mark is not compared.
AnyBasis(t, scope) == marks[Key(t, scope)].level

\* approvedLevel; 0 stands for undefined, which no projection that crosses
\* its limit is below.
ApprovedLevel(t, scope) ==
    LET m == marks[Key(t, scope)] IN
    IF m.basis = Limit[t][scope] THEN m.level ELSE 0

\* newlyExceededScopes.
NewlyExceeded(t, p) ==
    {scope \in Scopes :
        p[scope] > Limit[t][scope] /\ p[scope] > ApprovedLevel(t, scope)}

\* approvalRaises: PER_CALL_HEADROOM and TURN_APPROVAL_MULTIPLE are 2.
Raise(t, p, scope) ==
    IF scope \in {"per_call_limit", "turn_limit", "runaway_stall"}
    THEN 2 * p[scope]
    ELSE p[scope] + Limit[t][scope]

\* Mutant: the level of the approval that lands last.
LastRaise(t, p, scope) == Raise(t, p, scope)

\* recordApprovals: a level never drops against the same limit.
RaisedLevel(t, p, scope) ==
    IF ApprovedLevel(t, scope) > Raise(t, p, scope)
    THEN ApprovedLevel(t, scope) ELSE Raise(t, p, scope)

-----------------------------------------------------------------------------
(* A turn.                                                                 *)

\* dailyOtherSessions: the day's spend of the other sessions.
SpentByOthers(t) == loggedDay - logged[SessionOf[t]]

\* openSession: the baselines are read, the tracker is new.
OpenTurn(t) ==
    /\ phase[t] = "new"
    /\ \A u \in Turns :
           SessionOf[u] = SessionOf[t] => phase[u] \in {"new", "done"}
    /\ phase' = [phase EXCEPT ![t] = "entry"]
    /\ sessionBase' = [sessionBase EXCEPT ![t] = logged[SessionOf[t]]]
    /\ dailyOther' = [dailyOther EXCEPT ![t] = SpentByOthers(t)]
    /\ UNCHANGED <<calls, total, atProgress, preCall, asked, cost, marks,
                   table, grants>>

\* ensureAllowed up to its await: the turn goes on, or its prompt opens.
Check(t, p, clear, prompt) ==
    LET scopes == NewlyExceeded(t, p)
        next == IF scopes = {} THEN clear ELSE prompt
    IN  /\ asked' = [asked EXCEPT ![t] = scopes]
        /\ phase' = [phase EXCEPT ![t] = next]
        /\ preCall' = IF next = "ready" THEN preCall
                      ELSE [preCall EXCEPT ![t] = p]

\* gateEntry: the check before the first call, on the baselines as opened.
EntryCheck(t, est) ==
    /\ phase[t] = "entry"
    /\ Check(t, Projection(t, est), "ready", "entryPrompt")
    /\ UNCHANGED <<turnVars, cost, marks, table, grants>>

\* Mutant: the daily figure is the one read when the turn opened.
AsOpened(t) == dailyOther[t]

\* refreshDailyOtherSessions.
Refreshed(t) == SpentByOthers(t)

\* gateCall's read of the daily figure, for a call that will be paid.
ReadDaily(t) ==
    /\ phase[t] = "ready"
    /\ calls[t] < MaxCalls[t]
    /\ calls' = [calls EXCEPT ![t] = @ + 1]
    /\ phase' = [phase EXCEPT ![t] = "read"]
    /\ dailyOther' = [dailyOther EXCEPT ![t] = Refreshed(t)]
    /\ UNCHANGED <<sessionBase, total, atProgress, preCall, asked, cost,
                   marks, table, grants>>

\* gateCall after its read: the check, in a later step than the read.
CallCheck(t, est) ==
    /\ phase[t] = "read"
    /\ Check(t, Projection(t, est), "calling", "prompt")
    /\ UNCHANGED <<turnVars, cost, marks, table, grants>>

\* The operator approves: the scopes the prompt named are raised, from the
\* projection the prompt showed, onto the marks as they are now.
Approve(t) ==
    /\ phase[t] \in {"entryPrompt", "prompt"}
    /\ LET p == preCall[t] IN
       /\ marks' = [k \in Keys |->
              IF \E scope \in asked[t] : Key(t, scope) = k
              THEN LET scope == CHOOSE x \in asked[t] : Key(t, x) = k
                   IN  [basis |-> Limit[t][scope],
                        level |-> RaisedLevel(t, p, scope)]
              ELSE marks[k]]
       /\ grants' = grants \cup
              {[key |-> Key(t, scope), basis |-> Limit[t][scope],
                level |-> Raise(t, p, scope)] : scope \in asked[t]}
    /\ phase' = [phase EXCEPT ![t] =
                    IF @ = "entryPrompt" THEN "ready" ELSE "calling"]
    /\ asked' = [asked EXCEPT ![t] = {}]
    /\ preCall' = IF phase[t] = "prompt" THEN preCall
                  ELSE [preCall EXCEPT ![t] = NoCall]
    /\ UNCHANGED <<turnVars, cost, table>>

\* Denied, or no one to ask: the call is not made.  At entry the turn ends;
\* later it may go on, without a compression or with a truncated reply.
Decline(t) ==
    /\ phase[t] \in {"entryPrompt", "prompt"}
    /\ phase' = [phase EXCEPT ![t] =
                    IF @ = "entryPrompt" THEN "done" ELSE "ready"]
    /\ asked' = [asked EXCEPT ![t] = {}]
    /\ preCall' = [preCall EXCEPT ![t] = NoCall]
    /\ UNCHANGED <<turnVars, cost, marks, table, grants>>

\* The call returns, at a cost; its provider_call event is written, or the
\* best-effort write fails.
CallReturns(t, paid, written) ==
    /\ phase[t] = "calling"
    /\ paid <= preCall[t]["per_call_limit"] + MaxExcess
    /\ cost' = [cost EXCEPT ![t] = paid]
    /\ logged' = IF written THEN [logged EXCEPT ![SessionOf[t]] = @ + paid]
                 ELSE logged
    /\ loggedDay' = IF written THEN loggedDay + paid ELSE loggedDay
    /\ phase' = [phase EXCEPT ![t] = "returned"]
    /\ preCall' = [preCall EXCEPT ![t] = NoCall]
    /\ UNCHANGED <<turnVars, asked, marks, grants>>

\* The call throws, or was never dispatched: nothing is recorded.  The turn
\* retries it refitted, or ends.
CallFails(t) ==
    /\ phase[t] = "calling"
    /\ phase' = [phase EXCEPT ![t] = "ready"]
    /\ preCall' = [preCall EXCEPT ![t] = NoCall]
    /\ UNCHANGED <<turnVars, asked, cost, marks, table, grants>>

\* Mutant: the last call's cost replaces the total.
LastCost(t) == cost[t]

RecordedTotal(t) == total[t] + cost[t]

\* budget.record, once the event write has settled.
Record(t) ==
    /\ phase[t] = "returned"
    /\ total' = [total EXCEPT ![t] = RecordedTotal(t)]
    /\ cost' = [cost EXCEPT ![t] = 0]
    /\ phase' = [phase EXCEPT ![t] = "ready"]
    /\ UNCHANGED <<calls, sessionBase, dailyOther, atProgress, preCall, asked,
                   marks, table, grants>>

\* noteToolProgress: a tool step that made progress.
NoteToolProgress(t) ==
    /\ phase[t] = "ready"
    /\ atProgress[t] # total[t]
    /\ atProgress' = [atProgress EXCEPT ![t] = total[t]]
    /\ UNCHANGED <<phase, calls, sessionBase, dailyOther, total, preCall, asked,
                   cost, marks, table, grants>>

EndTurn(t) ==
    /\ phase[t] = "ready"
    /\ phase' = [phase EXCEPT ![t] = "done"]
    /\ UNCHANGED <<turnVars, preCall, asked, cost, marks, table, grants>>

Next ==
    \E t \in Turns :
        \/ OpenTurn(t) \/ ReadDaily(t)
        \/ \E est \in Estimates : EntryCheck(t, est) \/ CallCheck(t, est)
        \/ Approve(t) \/ Decline(t)
        \/ \E paid \in Costs, written \in BOOLEAN : CallReturns(t, paid, written)
        \/ CallFails(t) \/ Record(t) \/ NoteToolProgress(t) \/ EndTurn(t)

Spec == Init /\ [][Next]_vars

-----------------------------------------------------------------------------
(* Properties.                                                             *)

TypeOK ==
    /\ phase \in [Turns -> Phases]
    /\ calls \in [Turns -> Nat] /\ \A t \in Turns : calls[t] <= MaxCalls[t]
    /\ sessionBase \in [Turns -> Nat]
    /\ dailyOther \in [Turns -> Nat]
    /\ total \in [Turns -> Nat]
    /\ atProgress \in [Turns -> Nat]
    /\ \A t \in Turns : atProgress[t] <= total[t]
    /\ preCall \in [Turns -> [Scopes -> Nat]]
    /\ asked \in [Turns -> SUBSET Scopes]
    /\ cost \in [Turns -> Nat]
    /\ marks \in [Keys -> Mark]
    /\ logged \in [Sessions -> Nat]
    /\ loggedDay \in Nat
    /\ grants \subseteq Grant

\* A call is made only within each limit, or within a level the operator
\* approved for that scope against the very limit in force: an approval never
\* leaks to another scope, session or turn, nor survives a changed limit.
SpendApproved ==
    \A t \in Turns : phase[t] = "calling" =>
        \A scope \in Scopes :
            \/ preCall[t][scope] <= Limit[t][scope]
            \/ \E g \in grants :
                   /\ g.key = Key(t, scope)
                   /\ g.basis = Limit[t][scope]
                   /\ preCall[t][scope] <= g.level

\* An approval that lands late, computed from an older projection, never
\* lowers a level already approved against the same limit.
LevelsNeverDrop ==
    [][\A k \in Keys :
           marks'[k].basis = marks[k].basis =>
               marks'[k].level >= marks[k].level]_vars

\* The highest level spend of a scope may reach by decision: a limit in force
\* for one of the turns T, or one the operator raised.
Ceiling(scope, T, K) ==
    Max({Limit[t][scope] : t \in T} \cup {g.level : g \in {h \in grants : h.key \in K}})

\* A session spends past its ceiling by at most the part of one call that its
\* estimate left out, over all of its turns: what earlier turns recorded is
\* counted again by every later one.
SessionEnvelopeHeld ==
    \A s \in Sessions :
        LET T == {t \in Turns : SessionOf[t] = s} IN
        T # {} => logged[s] <= MaxExcess +
            Ceiling("session_limit", T, {<<"session_limit", s>>})

\* So does a turn, whatever of its spend the events table missed.
TurnEnvelopeHeld ==
    \A t \in Turns :
        total[t] <= MaxExcess + Ceiling("turn_limit", {t}, {<<"turn_limit", t>>})

\* Simultaneous sessions overshoot the day's ceiling by at most the calls in
\* flight: one per other session and the excess of the last.
DailyOvershootBounded ==
    loggedDay <= MaxExcess
        + (Cardinality(Sessions) - 1) * (Max(Estimates) + MaxExcess)
        + Ceiling("daily_limit", Turns, {<<"daily_limit", "day">>})


\* A session's and a turn's spend stay within their limit or what was
\* approved for them, though events are lost and limits change.
EnvelopesHeld == SessionEnvelopeHeld /\ TurnEnvelopeHeld
=============================================================================
