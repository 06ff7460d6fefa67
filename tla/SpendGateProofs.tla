-------------------------- MODULE SpendGateProofs ---------------------------
(***************************************************************************)
(* Proofs about SpendGate, for any number of turns and sessions, any       *)
(* limits and any costs.                                                   *)
(*                                                                         *)
(* SpendApproved is not inductive: a prompt names only the scopes that     *)
(* were over their approved level when it opened, and the call goes out    *)
(* when it is answered, with the marks of that moment.  The invariant adds *)
(* that every mark stands for a grant, and that the scopes an open prompt  *)
(* leaves out stay covered.                                                *)
(***************************************************************************)
EXTENDS SpendGate, FiniteSetTheorems, WellFoundedInduction, TLAPS

\* A level of the scope at least this high was approved against the limit.
Granted(t, scope, amount) ==
    \E g \in grants : /\ g.key = Key(t, scope)
                      /\ g.basis = Limit[t][scope]
                      /\ amount <= g.level

\* The projection in hand is within the limit or within a grant.
Covered(t, scope) ==
    preCall[t][scope] <= Limit[t][scope] \/ Granted(t, scope, preCall[t][scope])

\* What the table holds of one session is part of the day's.
DayHoldsSession == \A s \in Sessions : logged[s] <= loggedDay

\* Every mark stands for a grant of its key, basis and level.
MarksGranted ==
    \A k \in Keys : marks[k].basis # -1 =>
        \E g \in grants : /\ g.key = k
                          /\ g.basis = marks[k].basis
                          /\ marks[k].level <= g.level

\* The scopes an open prompt does not name are covered.
PromptCovers ==
    \A t \in Turns : phase[t] = "prompt" =>
        \A scope \in Scopes \ asked[t] : Covered(t, scope)

\* SpendApproved, in terms of Covered.
CallCovered ==
    \A t \in Turns : phase[t] = "calling" =>
        \A scope \in Scopes : Covered(t, scope)

GateInv == /\ TypeOK
           /\ DayHoldsSession
           /\ MarksGranted
           /\ PromptCovers
           /\ CallCovered

-----------------------------------------------------------------------------
(* The operators.                                                          *)

\* A scope is the first part of its key, so two scopes of a turn never share
\* a mark.
LEMMA KeyOfScope ==
    ASSUME NEW t \in Turns, NEW scope \in Scopes
    PROVE  Key(t, scope) \in Keys /\ Key(t, scope)[1] = scope
BY DEF Key, Keys

\* What every limit measures is a natural number.
LEMMA ProjectionType ==
    ASSUME TypeOK, NEW t \in Turns, NEW est \in Nat
    PROVE  Projection(t, est) \in [Scopes -> Nat]
<1>1. /\ dailyOther[t] \in Nat /\ sessionBase[t] \in Nat /\ total[t] \in Nat
      /\ atProgress[t] \in Nat /\ atProgress[t] <= total[t]
  BY DEF TypeOK
<1>2. ASSUME NEW scope \in Scopes
      PROVE  SpentSoFar(t)[scope] \in Nat
  BY <1>1 DEF SpentSoFar, TurnSpent, SessionSpent, Scopes
<1> QED
  BY <1>2 DEF Projection

\* An approved level, and what an approval raises it to, are natural
\* numbers; the raise covers the projection it is made from.
LEMMA LevelType ==
    ASSUME TypeOK, NEW t \in Turns, NEW scope \in Scopes,
           NEW p \in [Scopes -> Nat]
    PROVE  /\ ApprovedLevel(t, scope) \in Nat
           /\ Raise(t, p, scope) \in Nat
           /\ p[scope] <= Raise(t, p, scope)
           /\ RaisedLevel(t, p, scope) \in Nat
           /\ RaisedLevel(t, p, scope) >= ApprovedLevel(t, scope)
           /\ \/ RaisedLevel(t, p, scope) = Raise(t, p, scope)
              \/ /\ RaisedLevel(t, p, scope) = ApprovedLevel(t, scope)
                 /\ ApprovedLevel(t, scope) > Raise(t, p, scope)
<1>1. marks[Key(t, scope)] \in Mark
  BY KeyOfScope DEF TypeOK
<1>2. ApprovedLevel(t, scope) \in Nat
  BY <1>1 DEF ApprovedLevel, Mark
<1>3. Limit[t][scope] \in Nat /\ p[scope] \in Nat
  BY LimitAssumption
<1>4. Raise(t, p, scope) \in Nat /\ p[scope] <= Raise(t, p, scope)
  BY <1>3 DEF Raise
<1> QED
  BY <1>2, <1>4 DEF RaisedLevel

\* A scope the check does not name is covered by the limit or by a mark.
LEMMA NotExceeded ==
    ASSUME GateInv, NEW t \in Turns, NEW p \in [Scopes -> Nat],
           NEW scope \in Scopes \ NewlyExceeded(t, p)
    PROVE  p[scope] <= Limit[t][scope] \/ Granted(t, scope, p[scope])
<1>1. /\ Limit[t][scope] \in Nat /\ p[scope] \in Nat
      /\ ApprovedLevel(t, scope) \in Nat
  BY LevelType, LimitAssumption DEF GateInv
<1>2. CASE p[scope] <= Limit[t][scope]
  BY <1>2
<1>3. CASE p[scope] > Limit[t][scope]
  <2>1. p[scope] <= ApprovedLevel(t, scope) /\ p[scope] > 0
    BY <1>1, <1>3 DEF NewlyExceeded
  <2>2. /\ marks[Key(t, scope)].basis = Limit[t][scope]
        /\ ApprovedLevel(t, scope) = marks[Key(t, scope)].level
    BY <2>1, <1>1 DEF ApprovedLevel
  <2>3. PICK g \in grants : /\ g.key = Key(t, scope)
                            /\ g.basis = marks[Key(t, scope)].basis
                            /\ marks[Key(t, scope)].level <= g.level
    BY <2>2, <1>1, KeyOfScope DEF GateInv, MarksGranted
  <2>4. g.level \in Nat
    BY <2>3 DEF GateInv, TypeOK, Grant
  <2>5. p[scope] <= g.level
    BY <2>1, <2>2, <2>3, <2>4, <1>1
  <2> QED
    BY <2>2, <2>3, <2>5 DEF Granted
<1> QED
  BY <1>1, <1>2, <1>3

-----------------------------------------------------------------------------
(* The invariant is inductive.                                             *)

LEMMA GateInit == Init => GateInv
<1> SUFFICES ASSUME Init PROVE GateInv
  OBVIOUS
<1>1. TypeOK
  BY SessionOfAssumption, MaxCallsAssumption
  DEF Init, TypeOK, Phases, NoCall, NoMark, Mark, Grant
<1>2. DayHoldsSession
  BY DEF Init, DayHoldsSession
<1>3. MarksGranted
  BY DEF Init, MarksGranted, NoMark
<1>4. PromptCovers /\ CallCovered
  BY DEF Init, PromptCovers, CallCovered
<1> QED
  BY <1>1, <1>2, <1>3, <1>4 DEF GateInv

\* A turn outside its call check leaves the others' prompts and calls alone,
\* and has neither itself.
LEMMA OthersKeepCover ==
    ASSUME GateInv, TypeOK', NEW t \in Turns,
           grants \subseteq grants',
           \A u \in Turns \ {t} : /\ phase'[u] = phase[u]
                                  /\ preCall'[u] = preCall[u]
                                  /\ asked'[u] = asked[u],
           phase'[t] \notin {"prompt", "calling"}
    PROVE  PromptCovers' /\ CallCovered'
<1>1. ASSUME NEW u \in Turns \ {t}, NEW scope \in Scopes, Covered(u, scope)
      PROVE  Covered(u, scope)'
  BY <1>1 DEF Covered, Granted
<1> QED
  BY <1>1 DEF GateInv, PromptCovers, CallCovered

\* Marks are those of the grants while no approval lands.
LEMMA MarksKept ==
    ASSUME GateInv, UNCHANGED <<marks, grants>>
    PROVE  MarksGranted'
BY DEF GateInv, MarksGranted

LEMMA CheckStep ==
    ASSUME GateInv, NEW t \in Turns, NEW p \in [Scopes -> Nat],
           NEW clear \in Phases, NEW prompt \in Phases,
           Check(t, p, clear, prompt)
    PROVE  /\ phase' \in [Turns -> Phases]
           /\ asked' \in [Turns -> SUBSET Scopes]
           /\ preCall' \in [Turns -> [Scopes -> Nat]]
BY DEF Check, GateInv, TypeOK, NewlyExceeded

LEMMA OpenTurnStep ==
    ASSUME GateInv, NEW t \in Turns, OpenTurn(t)
    PROVE  GateInv'
<1>1. SpentByOthers(t) \in Nat
  BY SessionOfAssumption DEF GateInv, TypeOK, DayHoldsSession, SpentByOthers
<1>2. TypeOK'
  BY <1>1, SessionOfAssumption
  DEF GateInv, TypeOK, OpenTurn, table, Phases
<1>3. DayHoldsSession' /\ MarksGranted'
  BY MarksKept DEF GateInv, OpenTurn, table, DayHoldsSession
<1>4. PromptCovers' /\ CallCovered'
  BY <1>2, OthersKeepCover DEF GateInv, TypeOK, OpenTurn
<1> QED
  BY <1>2, <1>3, <1>4 DEF GateInv

LEMMA EntryCheckStep ==
    ASSUME GateInv, NEW t \in Turns, NEW est \in Estimates, EntryCheck(t, est)
    PROVE  GateInv'
<1> DEFINE p == Projection(t, est)
<1>1. p \in [Scopes -> Nat]
  BY ProjectionType, CostAssumption DEF GateInv
<1> HIDE DEF p
<1>2. Check(t, p, "ready", "entryPrompt")
  BY DEF EntryCheck, p
<1>3. TypeOK'
  BY <1>1, <1>2, CheckStep
  DEF GateInv, TypeOK, EntryCheck, turnVars, table, Phases
<1>4. DayHoldsSession' /\ MarksGranted'
  BY MarksKept DEF GateInv, EntryCheck, table, DayHoldsSession
<1>5. PromptCovers' /\ CallCovered'
  BY <1>2, <1>3, OthersKeepCover DEF GateInv, TypeOK, EntryCheck, Check
<1> QED
  BY <1>3, <1>4, <1>5 DEF GateInv

LEMMA ReadDailyStep ==
    ASSUME GateInv, NEW t \in Turns, ReadDaily(t)
    PROVE  GateInv'
<1>1. Refreshed(t) \in Nat
  BY SessionOfAssumption
  DEF GateInv, TypeOK, DayHoldsSession, SpentByOthers, Refreshed
<1>2. calls' \in [Turns -> Nat] /\ \A u \in Turns : calls'[u] <= MaxCalls[u]
  <2>1. /\ calls \in [Turns -> Nat] /\ \A u \in Turns : calls[u] <= MaxCalls[u]
        /\ calls' = [calls EXCEPT ![t] = @ + 1] /\ calls[t] < MaxCalls[t]
    BY DEF GateInv, TypeOK, ReadDaily
  <2>2. MaxCalls[t] \in Nat
    BY MaxCallsAssumption
  <2> QED
    BY <2>1, <2>2
<1>3. TypeOK'
  BY <1>1, <1>2 DEF GateInv, TypeOK, ReadDaily, table, Phases
<1>4. DayHoldsSession' /\ MarksGranted'
  BY MarksKept DEF GateInv, ReadDaily, table, DayHoldsSession
<1>5. PromptCovers' /\ CallCovered'
  BY <1>3, OthersKeepCover DEF GateInv, TypeOK, ReadDaily
<1> QED
  BY <1>3, <1>4, <1>5 DEF GateInv

\* The check that opens the call or its prompt: what it does not name is
\* covered.
LEMMA CallCheckStep ==
    ASSUME GateInv, NEW t \in Turns, NEW est \in Estimates, CallCheck(t, est)
    PROVE  GateInv'
<1> DEFINE p == Projection(t, est)
<1>1. p \in [Scopes -> Nat]
  BY ProjectionType, CostAssumption DEF GateInv
<1> HIDE DEF p
<1>2. Check(t, p, "calling", "prompt")
  BY DEF CallCheck, p
<1>3. TypeOK'
  BY <1>1, <1>2, CheckStep
  DEF GateInv, TypeOK, CallCheck, turnVars, table, Phases
<1>4. DayHoldsSession' /\ MarksGranted'
  BY MarksKept DEF GateInv, CallCheck, table, DayHoldsSession
<1>5. ASSUME NEW u \in Turns \ {t}, NEW scope \in Scopes, Covered(u, scope)
      PROVE  Covered(u, scope)'
  BY <1>2, <1>5 DEF Covered, Granted, CallCheck, Check, GateInv, TypeOK
<1>6. /\ asked'[t] = NewlyExceeded(t, p) /\ preCall'[t] = p
      /\ phase'[t] = "calling" => asked'[t] = {}
  BY <1>2 DEF Check, GateInv, TypeOK
<1>7. ASSUME NEW scope \in Scopes \ asked'[t]
      PROVE  Covered(t, scope)'
  <2>1. p[scope] <= Limit[t][scope] \/ Granted(t, scope, p[scope])
    BY <1>1, <1>6, <1>7, NotExceeded
  <2>2. UNCHANGED grants
    BY DEF CallCheck
  <2> QED
    BY <2>1, <2>2, <1>6 DEF Covered, Granted
<1>8. \A u \in Turns \ {t} : phase'[u] = phase[u] /\ asked'[u] = asked[u]
  BY <1>2 DEF Check, GateInv, TypeOK
<1>9. PromptCovers' /\ CallCovered'
  BY <1>5, <1>6, <1>7, <1>8 DEF GateInv, PromptCovers, CallCovered
<1> QED
  BY <1>3, <1>4, <1>9 DEF GateInv

\* An approval turns the scopes the prompt named into grants at least as high
\* as the projection; the other scopes were covered already.
LEMMA ApproveStep ==
    ASSUME GateInv, NEW t \in Turns, Approve(t)
    PROVE  GateInv'
<1> DEFINE p == preCall[t]
           made(scope) == [key |-> Key(t, scope), basis |-> Limit[t][scope],
                           level |-> Raise(t, p, scope)]
           raised(scope) == [basis |-> Limit[t][scope],
                             level |-> RaisedLevel(t, p, scope)]
<1>1. p \in [Scopes -> Nat] /\ asked[t] \in SUBSET Scopes
  BY DEF GateInv, TypeOK
<1>2. grants' = grants \cup {made(scope) : scope \in asked[t]}
  BY DEF Approve
<1>3. ASSUME NEW scope \in Scopes
      PROVE  made(scope) \in Grant /\ raised(scope) \in Mark
  BY <1>1, LevelType, KeyOfScope, LimitAssumption DEF Grant, Mark, GateInv
<1>4. ASSUME NEW k \in Keys
      PROVE  \/ marks'[k] = marks[k]
             \/ \E scope \in asked[t] : Key(t, scope) = k /\ marks'[k] = raised(scope)
  BY <1>4 DEF Approve
<1>5. marks' \in [Keys -> Mark]
  <2>1. \A k \in Keys : marks'[k] \in Mark
    BY <1>1, <1>3, <1>4 DEF GateInv, TypeOK
  <2>2. marks' = [k \in Keys |-> marks'[k]]
    BY DEF Approve
  <2> QED
    BY <2>1, <2>2
<1>6. grants' \subseteq Grant
  BY <1>1, <1>2, <1>3 DEF GateInv, TypeOK
<1>7. TypeOK'
  BY <1>5, <1>6 DEF GateInv, TypeOK, Approve, turnVars, table, Phases, NoCall
<1>8. DayHoldsSession'
  BY DEF GateInv, Approve, table, DayHoldsSession
<1>9. MarksGranted'
  <2> SUFFICES ASSUME NEW k \in Keys, marks'[k].basis # -1
               PROVE  \E g \in grants' : /\ g.key = k
                                         /\ g.basis = marks'[k].basis
                                         /\ marks'[k].level <= g.level
    BY DEF MarksGranted
  <2>1. CASE marks'[k] = marks[k]
    BY <2>1, <1>2 DEF GateInv, MarksGranted
  <2>2. CASE marks'[k] # marks[k]
    <3>1. PICK scope \in asked[t] : Key(t, scope) = k /\ marks'[k] = raised(scope)
      BY <1>4, <2>2
    <3>2. CASE RaisedLevel(t, p, scope) = Raise(t, p, scope)
      <4>1. made(scope) \in grants'
        BY <1>2, <3>1
      <4>2. Raise(t, p, scope) \in Nat
        BY <1>1, <3>1, LevelType DEF GateInv
      <4> QED
        BY <3>1, <3>2, <4>1, <4>2
    <3>3. CASE /\ RaisedLevel(t, p, scope) = ApprovedLevel(t, scope)
               /\ ApprovedLevel(t, scope) > Raise(t, p, scope)
      <4>1. ApprovedLevel(t, scope) > 0
        BY <3>3, <3>1, <1>1, LevelType DEF GateInv
      <4>2. /\ marks[k].basis = Limit[t][scope]
            /\ ApprovedLevel(t, scope) = marks[k].level
        BY <4>1, <3>1 DEF ApprovedLevel
      <4>3. Limit[t][scope] \in Nat
        BY <3>1, <1>1, LimitAssumption
      <4>4. PICK g \in grants : /\ g.key = k /\ g.basis = marks[k].basis
                                /\ marks[k].level <= g.level
        BY <4>2, <4>3 DEF GateInv, MarksGranted
      <4> QED
        BY <4>2, <4>4, <3>1, <3>3, <1>2
    <3> QED
      BY <3>1, <3>2, <3>3, <1>1, LevelType DEF GateInv
  <2> QED
    BY <2>1, <2>2
<1>10. ASSUME NEW u \in Turns, phase'[u] \in {"prompt", "calling"},
              NEW scope \in Scopes, Covered(u, scope)
       PROVE  Covered(u, scope)'
  <2>1. preCall'[u] = preCall[u]
    BY <1>10 DEF Approve, GateInv, TypeOK
  <2> QED
    BY <2>1, <1>10, <1>2 DEF Covered, Granted
<1>11. ASSUME NEW scope \in asked[t], phase'[t] = "calling"
       PROVE  Covered(t, scope)'
  <2>1. preCall'[t] = p
    BY <1>11 DEF Approve, GateInv, TypeOK
  <2>2. made(scope) \in grants'
    BY <1>2
  <2>3. p[scope] <= Raise(t, p, scope)
    BY <1>1, LevelType DEF GateInv
  <2> QED
    BY <2>1, <2>2, <2>3 DEF Covered, Granted
<1>12. /\ \A u \in Turns \ {t} : phase'[u] = phase[u] /\ asked'[u] = asked[u]
       /\ phase'[t] = "ready" \/ (phase'[t] = "calling" /\ phase[t] = "prompt")
  BY DEF Approve, GateInv, TypeOK
<1>13. PromptCovers'
  BY <1>10, <1>12 DEF GateInv, PromptCovers
<1>14. CallCovered'
  BY <1>10, <1>11, <1>12 DEF GateInv, PromptCovers, CallCovered
<1> QED
  BY <1>7, <1>8, <1>9, <1>13, <1>14 DEF GateInv

LEMMA DeclineStep ==
    ASSUME GateInv, NEW t \in Turns, Decline(t)
    PROVE  GateInv'
<1>1. TypeOK'
  BY DEF GateInv, TypeOK, Decline, turnVars, table, Phases, NoCall
<1>2. DayHoldsSession' /\ MarksGranted'
  BY MarksKept DEF GateInv, Decline, table, DayHoldsSession
<1>3. PromptCovers' /\ CallCovered'
  BY <1>1, OthersKeepCover DEF GateInv, TypeOK, Decline
<1> QED
  BY <1>1, <1>2, <1>3 DEF GateInv

LEMMA CallReturnsStep ==
    ASSUME GateInv, NEW t \in Turns, NEW paid \in Costs, NEW written \in BOOLEAN,
           CallReturns(t, paid, written)
    PROVE  GateInv'
<1>1. paid \in Nat /\ SessionOf[t] \in Sessions
  BY CostAssumption, SessionOfAssumption
<1>2. /\ logged' \in [Sessions -> Nat] /\ loggedDay' \in Nat
      /\ DayHoldsSession'
  BY <1>1 DEF GateInv, TypeOK, DayHoldsSession, CallReturns
<1>3. TypeOK'
  BY <1>1, <1>2 DEF GateInv, TypeOK, CallReturns, turnVars, Phases, NoCall
<1>4. MarksGranted'
  BY MarksKept DEF GateInv, CallReturns
<1>5. PromptCovers' /\ CallCovered'
  BY <1>3, OthersKeepCover DEF GateInv, TypeOK, CallReturns
<1> QED
  BY <1>2, <1>3, <1>4, <1>5 DEF GateInv

LEMMA CallFailsStep ==
    ASSUME GateInv, NEW t \in Turns, CallFails(t)
    PROVE  GateInv'
<1>1. TypeOK'
  BY DEF GateInv, TypeOK, CallFails, turnVars, table, Phases, NoCall
<1>2. DayHoldsSession' /\ MarksGranted'
  BY MarksKept DEF GateInv, CallFails, table, DayHoldsSession
<1>3. PromptCovers' /\ CallCovered'
  BY <1>1, OthersKeepCover DEF GateInv, TypeOK, CallFails
<1> QED
  BY <1>1, <1>2, <1>3 DEF GateInv

LEMMA RecordStep ==
    ASSUME GateInv, NEW t \in Turns, Record(t)
    PROVE  GateInv'
<1>1. TypeOK'
  BY DEF GateInv, TypeOK, Record, turnVars, table, Phases, NoCall, RecordedTotal
<1>2. DayHoldsSession' /\ MarksGranted'
  BY MarksKept DEF GateInv, Record, table, DayHoldsSession
<1>3. PromptCovers' /\ CallCovered'
  BY <1>1, OthersKeepCover DEF GateInv, TypeOK, Record
<1> QED
  BY <1>1, <1>2, <1>3 DEF GateInv

LEMMA NoteToolProgressStep ==
    ASSUME GateInv, NEW t \in Turns, NoteToolProgress(t)
    PROVE  GateInv'
<1>1. TypeOK'
  BY DEF GateInv, TypeOK, NoteToolProgress, turnVars, table, Phases, NoCall
<1>2. DayHoldsSession' /\ MarksGranted'
  BY MarksKept DEF GateInv, NoteToolProgress, table, DayHoldsSession
<1>3. PromptCovers' /\ CallCovered'
  BY <1>1, OthersKeepCover DEF GateInv, TypeOK, NoteToolProgress
<1> QED
  BY <1>1, <1>2, <1>3 DEF GateInv

LEMMA EndTurnStep ==
    ASSUME GateInv, NEW t \in Turns, EndTurn(t)
    PROVE  GateInv'
<1>1. TypeOK'
  BY DEF GateInv, TypeOK, EndTurn, turnVars, table, Phases, NoCall
<1>2. DayHoldsSession' /\ MarksGranted'
  BY MarksKept DEF GateInv, EndTurn, table, DayHoldsSession
<1>3. PromptCovers' /\ CallCovered'
  BY <1>1, OthersKeepCover DEF GateInv, TypeOK, EndTurn
<1> QED
  BY <1>1, <1>2, <1>3 DEF GateInv

LEMMA GateStep == GateInv /\ [Next]_vars => GateInv'
<1> SUFFICES ASSUME GateInv, [Next]_vars PROVE GateInv'
  OBVIOUS
<1>1. CASE UNCHANGED vars
  BY <1>1
  DEF vars, GateInv, TypeOK, DayHoldsSession, MarksGranted, PromptCovers,
      CallCovered, Covered, Granted
<1>2. CASE Next
  <2>1. PICK t \in Turns :
            \/ OpenTurn(t) \/ ReadDaily(t)
            \/ \E est \in Estimates : EntryCheck(t, est) \/ CallCheck(t, est)
            \/ Approve(t) \/ Decline(t)
            \/ \E paid \in Costs, written \in BOOLEAN :
                   CallReturns(t, paid, written)
            \/ CallFails(t) \/ Record(t) \/ NoteToolProgress(t) \/ EndTurn(t)
    BY <1>2 DEF Next
  <2> QED
    BY <2>1, OpenTurnStep, ReadDailyStep, EntryCheckStep, CallCheckStep,
       ApproveStep, DeclineStep, CallReturnsStep, CallFailsStep, RecordStep,
       NoteToolProgressStep, EndTurnStep
<1> QED
  BY <1>1, <1>2

-----------------------------------------------------------------------------
(* The theorems.                                                           *)

\* The invariant holds of every reachable state.
THEOREM GateInvariant == Spec => []GateInv
BY GateInit, GateStep, PTL DEF Spec

\* The tracker's counters, the marks and the event table keep their types; no
\* turn's spend since its last progress is negative.
THEOREM TypeCorrect == Spec => []TypeOK
<1>1. GateInv => TypeOK
  BY DEF GateInv
<1> QED
  BY <1>1, GateInvariant, PTL

\* However turns interleave at their prompts, every provider call is within
\* each limit or within a level the operator approved for that very limit.
THEOREM EverySpendIsApproved == Spec => []SpendApproved
<1>1. GateInv => SpendApproved
  BY DEF GateInv, CallCovered, Covered, Granted, SpendApproved
<1> QED
  BY <1>1, GateInvariant, PTL

\* recordApprovals never lowers a level approved against the same limit,
\* whichever prompt is answered last.
THEOREM ApprovalsOnlyRaise == Spec => LevelsNeverDrop
<1>1. ASSUME GateInv, [Next]_vars, NEW k \in Keys,
             marks'[k].basis = marks[k].basis
      PROVE  marks'[k].level >= marks[k].level
  <2>1. marks[k] \in Mark
    BY <1>1 DEF GateInv, TypeOK
  <2>2. CASE marks'[k] = marks[k]
    BY <2>1, <2>2 DEF Mark
  <2>3. CASE marks'[k] # marks[k]
    <3>1. PICK t \in Turns : Approve(t)
      BY <1>1, <2>3
      DEF Next, vars, OpenTurn, ReadDaily, EntryCheck, CallCheck, Decline,
          CallReturns, CallFails, Record, NoteToolProgress, EndTurn
    <3>2. PICK scope \in asked[t] :
              /\ Key(t, scope) = k
              /\ marks'[k] = [basis |-> Limit[t][scope],
                              level |-> RaisedLevel(t, preCall[t], scope)]
      BY <2>3, <3>1 DEF Approve
    <3>3. scope \in Scopes /\ preCall[t] \in [Scopes -> Nat]
      BY <1>1, <3>2 DEF GateInv, TypeOK
    <3>4. ApprovedLevel(t, scope) = marks[k].level
      BY <1>1, <3>2 DEF ApprovedLevel
    <3> QED
      BY <1>1, <3>2, <3>3, <3>4, LevelType DEF GateInv
  <2> QED
    BY <2>2, <2>3
<1>2. GateInv /\ [Next]_vars =>
          [\A k \in Keys : marks'[k].basis = marks[k].basis =>
               marks'[k].level >= marks[k].level]_vars
  BY <1>1
<1> QED
  BY <1>2, GateInvariant, PTL DEF Spec, LevelsNeverDrop

-----------------------------------------------------------------------------
(* The envelopes.  What a call may add to a session's or a turn's spend is  *)
(* in the projection that was checked, but for the excess over its          *)
(* estimate; and the projection counts everything the table holds.          *)

\* The turn is open: between its baselines' read and its end.
Opened(t) == phase[t] \notin {"new", "done"}

\* All levels ever approved have a bound.
GrantsBounded == \E b \in Nat : \A g \in grants : g.level <= b

\* A call's cost is in hand only until it is recorded.
CostInHand == \A t \in Turns : cost[t] # 0 => phase[t] = "returned"

\* The projection of the call asked for or made: the figures it was taken
\* from have not moved.
ProjectionInHand ==
    \A t \in Turns : phase[t] \in {"prompt", "calling"} =>
        /\ preCall[t]["turn_limit"] = total[t] + preCall[t]["per_call_limit"]
        /\ preCall[t]["session_limit"] =
               sessionBase[t] + total[t] + preCall[t]["per_call_limit"]

\* A session has one open turn.
OneOpen ==
    \A t, u \in Turns :
        Opened(t) /\ Opened(u) /\ SessionOf[t] = SessionOf[u] => t = u

\* The open turn counts all that the table holds of its session.
TableCounted ==
    \A t \in Turns : Opened(t) =>
        logged[SessionOf[t]] <= sessionBase[t] + total[t] + cost[t]

\* An amount of the scope is within a limit of one of the turns T, or within
\* a level approved for the key k, but for the excess of one call.
Within(amount, scope, T, k) ==
    \/ \E t \in T : amount <= MaxExcess + Limit[t][scope]
    \/ \E g \in grants : g.key = k /\ amount <= MaxExcess + g.level

TurnsWithin ==
    \A t \in Turns :
        Within(total[t] + cost[t], "turn_limit", {t}, <<"turn_limit", t>>)

SessionsWithin ==
    \A s \in Sessions :
        LET T == {t \in Turns : SessionOf[t] = s} IN
        T # {} => Within(logged[s], "session_limit", T, <<"session_limit", s>>)

EnvelopeInv == /\ GrantsBounded
               /\ CostInHand
               /\ ProjectionInHand
               /\ OneOpen
               /\ TableCounted
               /\ TurnsWithin
               /\ SessionsWithin

-----------------------------------------------------------------------------
(* Greatest members.  The library's induction cannot be applied here, but   *)
(* its least counterexample can.                                            *)

Less == {p \in Nat \X Nat : p[1] < p[2]}
LEMMA NatLeast ==
  ASSUME NEW T, T \subseteq Nat, T # {}
  PROVE  \E n \in T : \A m \in T : n <= m
  <1>1. OpToRel(<, Nat) = Less
    BY Zenon DEF OpToRel, Less
  <1>2. IsWellFoundedOn(Less, Nat)
    BY <1>1, NatLessThanWellFounded
  <1>3. PICK n \in T : \A m \in T : <<m, n>> \notin Less
    BY <1>2, WFMin
  <1>4. ASSUME NEW m \in T PROVE n <= m
    <2>1. m \in Nat /\ n \in Nat
      BY <1>4
    <2>2. m < n => <<m, n>> \in Less
      BY <2>1 DEF Less
    <2> QED
      BY <1>3, <2>1, <2>2
  <1> QED BY <1>4

\* A non-empty set of naturals with an upper bound has a greatest member.
LEMMA NatGreatest ==
  ASSUME NEW S, S \subseteq Nat, S # {}, NEW b \in Nat, \A x \in S : x <= b
  PROVE  \E m \in S : \A x \in S : x <= m
  <1> DEFINE U == {u \in Nat : \A x \in S : x <= u}
  <1>1. b \in U
    OBVIOUS
  <1>2. PICK m \in U : \A u \in U : m <= u
    <2>1. U \subseteq Nat /\ U # {}
      BY <1>1
    <2> HIDE DEF U
    <2> QED
      BY <2>1, NatLeast
  <1>3. m \in S
    <2> SUFFICES ASSUME m \notin S PROVE FALSE
      OBVIOUS
    <2>1. \A x \in S : x \in Nat /\ x < m
      BY <1>2
    <2>2. m - 1 \in Nat
      <3>1. PICK x \in S : TRUE
        OBVIOUS
      <3> QED
        BY <1>2, <2>1, <3>1
    <2>3. m - 1 \in U
      BY <2>1, <2>2
    <2> QED
      BY <1>2, <2>2, <2>3
  <1> QED
    BY <1>2, <1>3

\* A finite set of naturals has an upper bound.
LEMMA FiniteBounded ==
  ASSUME NEW S, S \subseteq Nat, IsFiniteSet(S)
  PROVE  \E b \in Nat : \A x \in S : x <= b
  <1> DEFINE Unbounded == {R \in SUBSET S : \A b \in Nat : \E x \in R : x > b}
             Sizes == {Cardinality(R) : R \in Unbounded}
  <1> SUFFICES ASSUME S \in Unbounded PROVE FALSE
    OBVIOUS
  <1>1. \A R \in Unbounded : IsFiniteSet(R) /\ Cardinality(R) \in Nat
    BY FS_Subset, FS_CardinalityType
  <1>2. Sizes \subseteq Nat /\ Sizes # {}
    BY <1>1
  <1>3. PICK n \in Sizes : \A m \in Sizes : n <= m
    BY <1>2, NatLeast
  <1>4. PICK R \in Unbounded : n = Cardinality(R)
    BY <1>3
  <1>5. PICK x \in R : x > 0
    OBVIOUS
  <1>6. R \ {x} \in Unbounded
    <2> SUFFICES ASSUME NEW b \in Nat PROVE \E y \in R \ {x} : y > b
      BY <1>4
    <2>1. b + x \in Nat /\ x \in Nat
      BY <1>4, <1>5
    <2>2. PICK y \in R : y > b + x
      BY <1>4, <2>1
    <2> QED
      BY <1>4, <2>1, <2>2
  <1>7. Cardinality(R \ {x}) = n - 1
    BY <1>1, <1>4, <1>5, FS_RemoveElement
  <1>8. n - 1 \in Sizes
    BY <1>6, <1>7
  <1>9. n \in Nat
    BY <1>2, <1>3
  <1> HIDE DEF Sizes
  <1> QED
    BY <1>3, <1>8, <1>9

\* The greatest of a set of limits of finitely many turns and of the levels
\* approved.
Highest(scope, T, H) == Max({Limit[t][scope] : t \in T} \cup {g.level : g \in H})

LEMMA HighestIs ==
  ASSUME NEW scope \in Scopes, NEW T, T \subseteq Turns, T # {},
         NEW H, H \subseteq Grant, NEW c \in Nat, \A g \in H : g.level <= c
  PROVE  /\ Highest(scope, T, H) \in Nat
         /\ \A t \in T : Limit[t][scope] <= Highest(scope, T, H)
         /\ \A g \in H : g.level <= Highest(scope, T, H)
         /\ \/ \E t \in T : Highest(scope, T, H) = Limit[t][scope]
            \/ \E g \in H : Highest(scope, T, H) = g.level
  <1> DEFINE L == {Limit[t][scope] : t \in T}
             G == {g.level : g \in H}
             S == L \cup G
  <1>1. L \subseteq Nat /\ L # {}
    BY LimitAssumption
  <1>2. IsFiniteSet(L)
    <2>1. IsFiniteSet(T)
      BY TurnsAssumption, FS_Subset
    <2> DEFINE f == [t \in T |-> Limit[t][scope]]
    <2>2. f \in Surjection(T, L)
      BY DEF Surjection
    <2> HIDE DEF f, L
    <2> QED
      BY <2>1, <2>2, FS_Surjection
  <1>3. G \subseteq Nat
    BY DEF Grant
  <1>4. PICK b \in Nat : \A x \in L : x <= b
    BY <1>1, <1>2, FiniteBounded
  <1>5. \A x \in S : x <= b + c
    <2>1. ASSUME NEW x \in L PROVE x <= b + c
      <3>1. x \in Nat /\ x <= b
        BY <1>1, <1>4
      <3> QED
        BY <1>4, <3>1
    <2>2. ASSUME NEW x \in G PROVE x <= b + c
      <3>1. x \in Nat /\ x <= c
        BY <1>3
      <3> QED
        BY <1>4, <3>1
    <2> QED
      BY <2>1, <2>2
  <1>6. S \subseteq Nat /\ S # {} /\ b + c \in Nat
    <2>1. b + c \in Nat
      BY <1>4
    <2> QED
      BY <1>1, <1>3, <2>1
  <1>7. Highest(scope, T, H) = Max(S)
    BY DEF Highest
  <1>8. /\ \A t \in T : Limit[t][scope] \in S
        /\ \A g \in H : g.level \in S
        /\ \A x \in S : \/ \E t \in T : x = Limit[t][scope]
                        \/ \E g \in H : x = g.level
    OBVIOUS
  <1>9. Max(S) \in S /\ \A x \in S : x <= Max(S)
    <2> HIDE DEF S
    <2>1. PICK m \in S : \A x \in S : x <= m
      BY <1>5, <1>6, NatGreatest
    <2>2. \A x \in S : m >= x
      BY <1>6, <2>1
    <2>3. Max(S) \in S /\ \A x \in S : Max(S) >= x
      BY <2>2 DEF Max
    <2> QED
      BY <1>6, <2>3
  <1> HIDE DEF S
  <1> QED
    BY <1>6, <1>7, <1>8, <1>9

LEMMA CeilingIs ==
  ASSUME GateInv, GrantsBounded, NEW scope \in Scopes, NEW K,
         NEW T, T \subseteq Turns, T # {}
  PROVE  /\ Ceiling(scope, T, K) \in Nat
         /\ \A t \in T : Limit[t][scope] <= Ceiling(scope, T, K)
         /\ \A g \in grants : g.key \in K => g.level <= Ceiling(scope, T, K)
  <1> DEFINE H == {h \in grants : h.key \in K}
  <1>1. Ceiling(scope, T, K) = Highest(scope, T, H)
    BY DEF Ceiling, Highest
  <1>2. PICK c \in Nat : \A g \in H : g.level <= c
    BY DEF GrantsBounded
  <1>3. H \subseteq Grant /\ \A g \in grants : g.key \in K => g \in H
    BY DEF GateInv, TypeOK
  <1> HIDE DEF H
  <1> QED
    BY <1>1, <1>2, <1>3, HighestIs

\* An amount within a limit or a level stays within the ceiling.
LEMMA WithinCeiling ==
  ASSUME GateInv, GrantsBounded, NEW scope \in Scopes, NEW k, NEW amount \in Nat,
         NEW T, T \subseteq Turns, T # {}, Within(amount, scope, T, k)
  PROVE  amount <= MaxExcess + Ceiling(scope, T, {k})
  <1>1. /\ Ceiling(scope, T, {k}) \in Nat
        /\ \A t \in T : Limit[t][scope] <= Ceiling(scope, T, {k})
        /\ \A g \in grants : g.key \in {k} => g.level <= Ceiling(scope, T, {k})
    BY CeilingIs
  <1>2. /\ \A t \in T : Limit[t][scope] \in Nat
        /\ \A g \in grants : g.level \in Nat
        /\ MaxExcess \in Nat
    BY LimitAssumption, CostAssumption DEF GateInv, TypeOK, Grant
  <1> DEFINE c == Ceiling(scope, T, {k})
  <1> HIDE DEF c
  <1>3. CASE \E t \in T : amount <= MaxExcess + Limit[t][scope]
    <2>1. PICK t \in T : amount <= MaxExcess + Limit[t][scope]
      BY <1>3
    <2>2. Limit[t][scope] \in Nat /\ Limit[t][scope] <= c /\ c \in Nat
      BY <1>1, <1>2 DEF c
    <2>3. amount <= MaxExcess + c
      BY <1>2, <2>1, <2>2
    <2> QED
      BY <2>3 DEF c
  <1>4. CASE \E g \in grants : g.key = k /\ amount <= MaxExcess + g.level
    <2>1. PICK g \in grants : g.key = k /\ amount <= MaxExcess + g.level
      BY <1>4
    <2>2. g.level \in Nat /\ g.level <= c /\ c \in Nat
      BY <1>1, <1>2, <2>1 DEF c
    <2>3. amount <= MaxExcess + c
      BY <1>2, <2>1, <2>2
    <2> QED
      BY <2>3 DEF c
  <1> QED
    BY <1>3, <1>4 DEF Within

-----------------------------------------------------------------------------
(* The envelopes' invariant is inductive.                                   *)

LEMMA EnvelopeInit == Init => EnvelopeInv
  <1> SUFFICES ASSUME Init PROVE EnvelopeInv
    OBVIOUS
  <1>1. GrantsBounded
    BY DEF Init, GrantsBounded
  <1>2. CostInHand /\ ProjectionInHand /\ OneOpen /\ TableCounted
    BY DEF Init, CostInHand, ProjectionInHand, OneOpen, TableCounted, Opened
  <1>3. MaxExcess \in Nat /\ \A t \in Turns, scope \in Scopes : Limit[t][scope] \in Nat
    BY LimitAssumption, CostAssumption
  <1>4. TurnsWithin
    BY <1>3 DEF Init, TurnsWithin, Within, Scopes
  <1>5. SessionsWithin
    BY <1>3 DEF Init, SessionsWithin, Within, Scopes
  <1> QED
    BY <1>1, <1>2, <1>4, <1>5 DEF EnvelopeInv

\* More grants, and the same or less spent: still within.
LEMMA WithinKept ==
  ASSUME NEW amount, NEW scope, NEW T, NEW k, grants \subseteq grants',
         Within(amount, scope, T, k)
  PROVE  Within(amount, scope, T, k)'
  BY DEF Within

\* A step of an open turn that spends nothing.
LEMMA EnvelopeMove ==
  ASSUME GateInv, EnvelopeInv, NEW t \in Turns, Opened(t), phase[t] # "returned",
         UNCHANGED <<sessionBase, total, cost, logged>>,
         grants \subseteq grants', GrantsBounded',
         \A u \in Turns \ {t} : phase'[u] = phase[u] /\ preCall'[u] = preCall[u],
         phase'[t] \in {"prompt", "calling"} =>
             /\ preCall'[t]["turn_limit"] = total[t] + preCall'[t]["per_call_limit"]
             /\ preCall'[t]["session_limit"] =
                    sessionBase[t] + total[t] + preCall'[t]["per_call_limit"]
  PROVE  EnvelopeInv'
  <1>1. CostInHand' /\ ProjectionInHand'
    BY DEF EnvelopeInv, CostInHand, ProjectionInHand
  <1>2. \A u \in Turns : Opened(u)' => Opened(u)
    BY DEF Opened
  <1>3. OneOpen' /\ TableCounted'
    BY <1>2 DEF EnvelopeInv, OneOpen, TableCounted
  <1>4. TurnsWithin'
    BY WithinKept DEF EnvelopeInv, TurnsWithin
  <1>5. SessionsWithin'
    BY WithinKept DEF EnvelopeInv, SessionsWithin
  <1> QED
    BY <1>1, <1>3, <1>4, <1>5 DEF EnvelopeInv

\* The scopes named in the envelopes and what they project.
LEMMA Projected ==
  ASSUME TypeOK, NEW t \in Turns, NEW est \in Nat
  PROVE  LET p == Projection(t, est) IN
         /\ p["per_call_limit"] = est
         /\ p["turn_limit"] = total[t] + p["per_call_limit"]
         /\ p["session_limit"] = sessionBase[t] + total[t] + p["per_call_limit"]
  <1>1. total[t] \in Nat /\ sessionBase[t] \in Nat
    BY DEF TypeOK
  <1> QED
    BY <1>1 DEF Projection, SpentSoFar, TurnSpent, SessionSpent, Scopes

\* An approval raises five levels at most, so the bound moves.
LEMMA ApproveBounded ==
  ASSUME GateInv, EnvelopeInv, NEW t \in Turns, Approve(t)
  PROVE  GrantsBounded'
  <1> DEFINE p == preCall[t]
             r(scope) == Raise(t, p, scope)
  <1>1. p \in [Scopes -> Nat] /\ asked[t] \subseteq Scopes
    BY DEF GateInv, TypeOK
  <1>2. \A scope \in Scopes : r(scope) \in Nat
    BY <1>1, LevelType DEF GateInv
  <1>3. PICK b \in Nat : \A g \in grants : g.level <= b
    BY DEF EnvelopeInv, GrantsBounded
  <1> DEFINE c == b + r("daily_limit") + r("session_limit") + r("turn_limit")
                    + r("runaway_stall") + r("per_call_limit")
  <1> HIDE DEF r
  <1>4. c \in Nat /\ b <= c /\ \A scope \in Scopes : r(scope) <= c
    BY <1>2, <1>3 DEF Scopes
  <1>5. ASSUME NEW g \in grants'
        PROVE  g.level <= c
    <2>1. g \in grants \/ \E scope \in asked[t] : g.level = r(scope)
      BY <1>5 DEF Approve, r
    <2>2. CASE g \in grants
      <3>1. g.level \in Nat /\ g.level <= b
        BY <1>3, <2>2 DEF GateInv, TypeOK, Grant
      <3> HIDE DEF c
      <3> QED
        BY <1>3, <1>4, <3>1
    <2>3. CASE \E scope \in asked[t] : g.level = r(scope)
      BY <1>1, <1>4, <2>3
    <2> QED
      BY <2>1, <2>2, <2>3
  <1> QED
    BY <1>4, <1>5 DEF GrantsBounded

\* The call spends what its projection allowed for, and at most the excess
\* over its estimate more; written or not, the turn counts it.
LEMMA CallReturnsEnvelope ==
  ASSUME GateInv, EnvelopeInv, NEW t \in Turns, NEW paid \in Costs,
         NEW written \in BOOLEAN, CallReturns(t, paid, written)
  PROVE  EnvelopeInv'
  <1> DEFINE s == SessionOf[t]
  <1>1. /\ phase[t] = "calling" /\ phase' = [phase EXCEPT ![t] = "returned"]
        /\ paid <= preCall[t]["per_call_limit"] + MaxExcess
        /\ cost' = [cost EXCEPT ![t] = paid]
        /\ preCall' = [preCall EXCEPT ![t] = NoCall]
        /\ logged' = IF written THEN [logged EXCEPT ![s] = @ + paid] ELSE logged
        /\ UNCHANGED <<sessionBase, total, grants>>
    BY DEF CallReturns, turnVars
  <1>2. /\ paid \in Nat /\ s \in Sessions /\ MaxExcess \in Nat
        /\ total[t] \in Nat /\ sessionBase[t] \in Nat /\ logged[s] \in Nat
        /\ preCall[t] \in [Scopes -> Nat] /\ cost[t] = 0
    BY <1>1, CostAssumption, SessionOfAssumption DEF GateInv, TypeOK, EnvelopeInv, CostInHand
  <1>3. /\ total[t] + paid <= MaxExcess + preCall[t]["turn_limit"]
        /\ sessionBase[t] + total[t] + paid <= MaxExcess + preCall[t]["session_limit"]
    BY <1>1, <1>2 DEF EnvelopeInv, ProjectionInHand, Scopes
  <1>4. logged[s] <= sessionBase[t] + total[t]
    BY <1>1, <1>2 DEF EnvelopeInv, TableCounted, Opened
  <1>5. logged'[s] <= sessionBase[t] + total[t] + paid /\ logged'[s] \in Nat
    BY <1>1, <1>2, <1>4 DEF GateInv, TypeOK
  <1>6. ASSUME NEW scope \in {"turn_limit", "session_limit"}, NEW amount \in Nat,
               amount <= MaxExcess + preCall[t][scope], NEW T, t \in T
        PROVE  Within(amount, scope, T, Key(t, scope))'
    <2>1. /\ preCall[t][scope] \in Nat /\ Limit[t][scope] \in Nat
          /\ \A g \in grants : g.level \in Nat
      BY <1>2, LimitAssumption DEF Scopes, GateInv, TypeOK, Grant
    <2>2. Covered(t, scope)
      BY <1>1 DEF GateInv, CallCovered, Scopes
    <2>3. CASE preCall[t][scope] <= Limit[t][scope]
      BY <1>2, <1>6, <2>1, <2>3 DEF Within
    <2>4. CASE Granted(t, scope, preCall[t][scope])
      <3>1. PICK g \in grants : g.key = Key(t, scope) /\ preCall[t][scope] <= g.level
        BY <2>4 DEF Granted
      <3>2. amount <= MaxExcess + g.level
        BY <1>2, <1>6, <2>1, <3>1
      <3> QED
        BY <1>1, <3>1, <3>2 DEF Within
    <2> QED
      BY <2>2, <2>3, <2>4 DEF Covered
  <1>7. Key(t, "turn_limit") = <<"turn_limit", t>> /\ Key(t, "session_limit") = <<"session_limit", s>>
    BY DEF Key, Holder
  <1>8. TurnsWithin'
    <2>1. Within(total[t] + paid, "turn_limit", {t}, <<"turn_limit", t>>)'
      <3>1. total[t] + paid \in Nat /\ t \in {t}
        BY <1>2
      <3>2. Within(total[t] + paid, "turn_limit", {t}, Key(t, "turn_limit"))'
        <4>1. \A amount \in Nat : amount <= MaxExcess + preCall[t]["turn_limit"]
                => Within(amount, "turn_limit", {t}, Key(t, "turn_limit"))'
          BY <1>6, <3>1
        <4> QED
          BY <1>1, <1>3, <3>1, <4>1
      <3> QED
        BY <1>7, <3>2
    <2>2. cost'[t] = paid /\ \A u \in Turns \ {t} : cost'[u] = cost[u]
      BY <1>1 DEF GateInv, TypeOK
    <2> QED
      BY <1>1, <2>1, <2>2, WithinKept DEF EnvelopeInv, TurnsWithin
  <1>9. SessionsWithin'
    <2> SUFFICES ASSUME NEW r \in Sessions, {u \in Turns : SessionOf[u] = r} # {}
                 PROVE  Within(logged[r], "session_limit",
                               {u \in Turns : SessionOf[u] = r}, <<"session_limit", r>>)'
      BY DEF SessionsWithin
    <2>1. CASE r # s
      <3>1. logged'[r] = logged[r]
        BY <1>1, <2>1 DEF GateInv, TypeOK
      <3> QED
        BY <1>1, <3>1, WithinKept DEF EnvelopeInv, SessionsWithin
    <2>2. CASE r = s
      <3>1. logged'[r] <= MaxExcess + preCall[t]["session_limit"]
        BY <1>2, <1>3, <1>5, <2>2 DEF Scopes
      <3> QED
        BY <1>5, <1>6, <1>7, <2>2, <3>1
    <2> QED
      BY <2>1, <2>2
  <1>10. \A u \in Turns : Opened(u)' <=> Opened(u)
    BY <1>1 DEF Opened, GateInv, TypeOK
  <1>11. OneOpen'
    BY <1>10 DEF EnvelopeInv, OneOpen
  <1>12. TableCounted'
    <2> SUFFICES ASSUME NEW u \in Turns, Opened(u)
                 PROVE  logged'[SessionOf[u]] <= sessionBase[u] + total[u] + cost'[u]
      BY <1>1, <1>10 DEF TableCounted
    <2>1. CASE u = t
      BY <1>1, <1>5, <2>1 DEF GateInv, TypeOK
    <2>2. CASE u # t
      <3>1. SessionOf[u] # s
        BY <1>1, <2>2 DEF EnvelopeInv, OneOpen, Opened
      <3>2. logged'[SessionOf[u]] = logged[SessionOf[u]] /\ cost'[u] = cost[u]
        BY <1>1, <2>2, <3>1, SessionOfAssumption DEF GateInv, TypeOK
      <3> QED
        BY <3>2 DEF EnvelopeInv, TableCounted
    <2> QED
      BY <2>1, <2>2
  <1>13. CostInHand' /\ ProjectionInHand' /\ GrantsBounded'
    BY <1>1 DEF EnvelopeInv, CostInHand, ProjectionInHand, GrantsBounded, GateInv, TypeOK
  <1> QED
    BY <1>8, <1>9, <1>11, <1>12, <1>13 DEF EnvelopeInv

\* A turn opens on all that the table holds of its session.
LEMMA OpenTurnEnvelope ==
  ASSUME GateInv, EnvelopeInv, NEW t \in Turns, OpenTurn(t)
  PROVE  EnvelopeInv'
  <1> DEFINE s == SessionOf[t]
  <1>1. /\ phase' = [phase EXCEPT ![t] = "entry"]
        /\ sessionBase' = [sessionBase EXCEPT ![t] = logged[s]]
        /\ UNCHANGED <<total, cost, preCall, logged, grants>>
        /\ \A u \in Turns : SessionOf[u] = s => ~Opened(u)
    BY DEF OpenTurn, table, Opened
  <1>2. /\ phase \in [Turns -> Phases] /\ sessionBase \in [Turns -> Nat]
        /\ logged[s] \in Nat /\ total[t] \in Nat /\ cost[t] \in Nat
    BY SessionOfAssumption DEF GateInv, TypeOK
  <1>3. CostInHand' /\ ProjectionInHand' /\ GrantsBounded'
    BY <1>1, <1>2 DEF EnvelopeInv, CostInHand, ProjectionInHand, GrantsBounded, OpenTurn
  <1>4. \A u \in Turns : Opened(u)' <=> (Opened(u) \/ u = t)
    BY <1>1, <1>2 DEF Opened
  <1>5. OneOpen'
    BY <1>1, <1>4 DEF EnvelopeInv, OneOpen
  <1>6. TableCounted'
    BY <1>1, <1>2, <1>4 DEF EnvelopeInv, TableCounted
  <1>7. TurnsWithin' /\ SessionsWithin'
    BY <1>1, WithinKept DEF EnvelopeInv, TurnsWithin, SessionsWithin
  <1> QED
    BY <1>3, <1>5, <1>6, <1>7 DEF EnvelopeInv

\* The cost in hand moves into the total.
LEMMA RecordEnvelope ==
  ASSUME GateInv, EnvelopeInv, NEW t \in Turns, Record(t)
  PROVE  EnvelopeInv'
  <1>1. /\ phase[t] = "returned" /\ phase' = [phase EXCEPT ![t] = "ready"]
        /\ total' = [total EXCEPT ![t] = @ + cost[t]]
        /\ cost' = [cost EXCEPT ![t] = 0]
        /\ UNCHANGED <<sessionBase, preCall, logged, grants>>
    BY DEF Record, RecordedTotal, table
  <1>2. /\ phase \in [Turns -> Phases]
        /\ total \in [Turns -> Nat] /\ cost \in [Turns -> Nat]
        /\ \A u \in Turns : sessionBase[u] \in Nat
    BY DEF GateInv, TypeOK
  <1>3. \A u \in Turns : total'[u] + cost'[u] = total[u] + cost[u]
    BY <1>1, <1>2
  <1>4. \A u \in Turns :
            sessionBase[u] + total'[u] + cost'[u] = sessionBase[u] + total[u] + cost[u]
    BY <1>1, <1>2
  <1>5. \A u \in Turns : Opened(u)' <=> Opened(u)
    BY <1>1, <1>2 DEF Opened
  <1>6. CostInHand' /\ ProjectionInHand' /\ GrantsBounded'
    BY <1>1, <1>2 DEF EnvelopeInv, CostInHand, ProjectionInHand, GrantsBounded
  <1>7. OneOpen' /\ TableCounted'
    BY <1>1, <1>4, <1>5 DEF EnvelopeInv, OneOpen, TableCounted
  <1>8. TurnsWithin'
    BY <1>1, <1>3, WithinKept DEF EnvelopeInv, TurnsWithin
  <1>9. SessionsWithin'
    BY <1>1, WithinKept DEF EnvelopeInv, SessionsWithin
  <1> QED
    BY <1>6, <1>7, <1>8, <1>9 DEF EnvelopeInv

\* A check leaves the projection of the call it lets through or asks for.
LEMMA CheckEnvelope ==
  ASSUME GateInv, EnvelopeInv, NEW t \in Turns, NEW est \in Estimates,
         EntryCheck(t, est) \/ CallCheck(t, est)
  PROVE  EnvelopeInv'
  <1> DEFINE p == Projection(t, est)
  <1>1. /\ phase[t] \in {"entry", "read"}
        /\ UNCHANGED <<sessionBase, total, cost, logged, grants>>
        /\ \A u \in Turns \ {t} : phase'[u] = phase[u] /\ preCall'[u] = preCall[u]
    BY DEF EntryCheck, CallCheck, Check, turnVars, table, GateInv, TypeOK
  <1>2. phase'[t] \in {"prompt", "calling"} => preCall'[t] = p
    BY DEF EntryCheck, CallCheck, Check, GateInv, TypeOK
  <1>3. /\ p["turn_limit"] = total[t] + p["per_call_limit"]
        /\ p["session_limit"] = sessionBase[t] + total[t] + p["per_call_limit"]
    BY Projected, CostAssumption DEF GateInv
  <1>4. Opened(t) /\ phase[t] # "returned" /\ GrantsBounded'
    BY <1>1 DEF Opened, EnvelopeInv, GrantsBounded
  <1> HIDE DEF p
  <1> QED
    BY <1>1, <1>2, <1>3, <1>4, EnvelopeMove

\* An approval raises levels and spends nothing.
LEMMA ApproveEnvelope ==
  ASSUME GateInv, EnvelopeInv, NEW t \in Turns, Approve(t)
  PROVE  EnvelopeInv'
  <1>1. /\ phase[t] \in {"entryPrompt", "prompt"}
        /\ UNCHANGED <<sessionBase, total, cost, logged>>
        /\ grants \subseteq grants'
        /\ \A u \in Turns \ {t} : phase'[u] = phase[u] /\ preCall'[u] = preCall[u]
    BY DEF Approve, turnVars, table, GateInv, TypeOK
  <1>2. phase'[t] \in {"prompt", "calling"} =>
            phase[t] = "prompt" /\ preCall'[t] = preCall[t]
    BY <1>1 DEF Approve, GateInv, TypeOK
  <1>3. phase'[t] \in {"prompt", "calling"} =>
            /\ preCall'[t]["turn_limit"] = total[t] + preCall'[t]["per_call_limit"]
            /\ preCall'[t]["session_limit"] =
                   sessionBase[t] + total[t] + preCall'[t]["per_call_limit"]
    BY <1>2 DEF EnvelopeInv, ProjectionInHand
  <1>4. Opened(t) /\ phase[t] # "returned" /\ GrantsBounded'
    BY <1>1, ApproveBounded DEF Opened
  <1> QED
    BY <1>1, <1>3, <1>4, EnvelopeMove

\* The other steps of an open turn leave no call asked for or made.
LEMMA OtherEnvelope ==
  ASSUME GateInv, EnvelopeInv, NEW t \in Turns,
         \/ ReadDaily(t) \/ Decline(t) \/ CallFails(t)
         \/ NoteToolProgress(t) \/ EndTurn(t)
  PROVE  EnvelopeInv'
  <1>1. /\ phase[t] \in {"ready", "entryPrompt", "prompt", "calling"}
        /\ UNCHANGED <<sessionBase, total, cost, logged, grants>>
        /\ \A u \in Turns \ {t} : phase'[u] = phase[u] /\ preCall'[u] = preCall[u]
        /\ phase'[t] \notin {"prompt", "calling"}
    BY DEF ReadDaily, Decline, CallFails, NoteToolProgress, EndTurn, turnVars,
           table, GateInv, TypeOK
  <1>2. Opened(t) /\ phase[t] # "returned" /\ GrantsBounded'
    BY <1>1 DEF Opened, EnvelopeInv, GrantsBounded
  <1> QED
    BY <1>1, <1>2, EnvelopeMove

LEMMA EnvelopeStep == GateInv /\ EnvelopeInv /\ [Next]_vars => EnvelopeInv'
  <1> SUFFICES ASSUME GateInv, EnvelopeInv, [Next]_vars PROVE EnvelopeInv'
    OBVIOUS
  <1>1. CASE UNCHANGED vars
    BY <1>1
    DEF vars, EnvelopeInv, GrantsBounded, CostInHand, ProjectionInHand, OneOpen,
        TableCounted, TurnsWithin, SessionsWithin, Within, Opened
  <1>2. CASE Next
    <2>1. PICK t \in Turns :
              \/ OpenTurn(t) \/ ReadDaily(t)
              \/ \E est \in Estimates : EntryCheck(t, est) \/ CallCheck(t, est)
              \/ Approve(t) \/ Decline(t)
              \/ \E paid \in Costs, written \in BOOLEAN :
                     CallReturns(t, paid, written)
              \/ CallFails(t) \/ Record(t) \/ NoteToolProgress(t) \/ EndTurn(t)
      BY <1>2 DEF Next
    <2> QED
      BY <2>1, OpenTurnEnvelope, RecordEnvelope, CheckEnvelope, ApproveEnvelope,
         CallReturnsEnvelope, OtherEnvelope
  <1> QED
    BY <1>1, <1>2

\* For any number of turns and sessions and whatever the operator approves, a
\* session's recorded spend and a turn's counted spend pass the limit in force
\* or the level approved for them by the excess of one call at most, though
\* the write of a call's event may fail and a session's turns may run under
\* different limits.
THEOREM EnvelopesAreHeld == Spec => []EnvelopesHeld
  <1>1. GateInv /\ EnvelopeInv => SessionEnvelopeHeld
    <2> SUFFICES ASSUME GateInv, EnvelopeInv, NEW s \in Sessions,
                        {t \in Turns : SessionOf[t] = s} # {}
                 PROVE  logged[s] <= MaxExcess + Ceiling("session_limit",
                            {t \in Turns : SessionOf[t] = s}, {<<"session_limit", s>>})
      BY DEF SessionEnvelopeHeld
    <2> DEFINE T == {t \in Turns : SessionOf[t] = s}
    <2>1. /\ logged[s] \in Nat /\ "session_limit" \in Scopes /\ GrantsBounded
          /\ T \subseteq Turns /\ T # {}
          /\ Within(logged[s], "session_limit", T, <<"session_limit", s>>)
      BY DEF GateInv, TypeOK, Scopes, EnvelopeInv, SessionsWithin
    <2> HIDE DEF T
    <2>2. logged[s] <= MaxExcess + Ceiling("session_limit", T, {<<"session_limit", s>>})
      BY <2>1, WithinCeiling
    <2> QED
      BY <2>2 DEF T
  <1>2. GateInv /\ EnvelopeInv => TurnEnvelopeHeld
    <2> SUFFICES ASSUME GateInv, EnvelopeInv, NEW t \in Turns
                 PROVE  total[t] <= MaxExcess
                            + Ceiling("turn_limit", {t}, {<<"turn_limit", t>>})
      BY DEF TurnEnvelopeHeld
    <2> DEFINE c == Ceiling("turn_limit", {t}, {<<"turn_limit", t>>})
    <2>1. /\ total[t] \in Nat /\ cost[t] \in Nat /\ MaxExcess \in Nat
          /\ "turn_limit" \in Scopes /\ GrantsBounded /\ {t} \subseteq Turns /\ {t} # {}
          /\ Within(total[t] + cost[t], "turn_limit", {t}, <<"turn_limit", t>>)
      BY CostAssumption DEF GateInv, TypeOK, Scopes, EnvelopeInv, TurnsWithin
    <2>2. total[t] + cost[t] \in Nat
      BY <2>1
    <2>3. total[t] + cost[t] <= MaxExcess + c
      BY <2>1, <2>2, WithinCeiling
    <2>4. c \in Nat
      BY <2>1, CeilingIs
    <2> HIDE DEF c
    <2>5. total[t] <= MaxExcess + c
      BY <2>1, <2>3, <2>4
    <2> QED
      BY <2>5 DEF c
  <1> QED
    BY <1>1, <1>2, EnvelopeInit, EnvelopeStep, GateInvariant, PTL
    DEF Spec, EnvelopesHeld

-----------------------------------------------------------------------------
(* The day.  A turn's call goes out on the day's spend as it was read, and  *)
(* what other sessions spend meanwhile is not in the figure.  The invariant *)
(* counts, for every figure x the day's spend had, the sessions that have   *)
(* no call in flight on a read of x or less: each may have added one call   *)
(* to it, or the last that was added was itself checked against the ceiling.*)

\* A call is in flight from its read of the daily figure to its return.
InFlight(t) == phase[t] \in {"read", "prompt", "calling"}

\* The day's spend when the call in flight read it.
ReadAt(t) == dailyOther[t] + logged[SessionOf[t]]

\* The sessions with no call in flight on a read of x or less.
Fresh(x) ==
    {s \in Sessions :
        \A t \in Turns : SessionOf[t] = s /\ InFlight(t) => ReadAt(t) > x}

\* The most one call spends.
OneCall == Max(Estimates) + MaxExcess

DayCeiling == Ceiling("daily_limit", Turns, {<<"daily_limit", "day">>})

\* Each fresh session has added a call to x at most, or the bound is kept
\* with one call to spare for every session that is not.
DayAhead(x) ==
    \/ loggedDay <= x + Cardinality(Fresh(x)) * OneCall
    \/ loggedDay + OneCall <=
           MaxExcess + DayCeiling + Cardinality(Fresh(x)) * OneCall

\* DailyOvershootBounded, with one call on each side.
DayBounded ==
    loggedDay + OneCall <=
        MaxExcess + DayCeiling + Cardinality(Sessions) * OneCall

\* What a call in flight read was spent by then, and its projection is of it.
ReadsHold ==
    \A t \in Turns :
        /\ InFlight(t) => ReadAt(t) <= loggedDay
        /\ phase[t] \in {"prompt", "calling"} =>
               /\ preCall[t]["per_call_limit"] \in Estimates
               /\ preCall[t]["daily_limit"] =
                      dailyOther[t] + sessionBase[t] + total[t]
                          + preCall[t]["per_call_limit"]

DayInv == /\ ReadsHold
          /\ \A x \in Nat : DayAhead(x)
          /\ DayBounded

\* A product of naturals grows with its factor.
LEMMA TimesGrows ==
    ASSUME NEW a \in Nat, NEW b \in Nat, NEW m \in Nat
    PROVE  /\ a * m \in Nat
           /\ a <= b => a * m <= b * m
           /\ a + 1 <= b => a * m + m <= b * m
<1>1. a * m \in Nat /\ b * m \in Nat
  OBVIOUS
<1>2. ASSUME NEW k \in Nat PROVE k * m \in Nat /\ (a + k) * m = a * m + k * m
  OBVIOUS
<1>3. ASSUME a <= b PROVE a * m <= b * m
  <2>1. b - a \in Nat /\ a + (b - a) = b
    BY <1>3
  <2>2. (b - a) * m \in Nat /\ (a + (b - a)) * m = a * m + (b - a) * m
    BY <1>2, <2>1
  <2>3. b * m = a * m + (b - a) * m
    BY <2>1, <2>2
  <2> QED
    BY <1>1, <2>2, <2>3
<1>4. ASSUME a + 1 <= b PROVE a * m + m <= b * m
  <2>1. b - (a + 1) \in Nat /\ (a + 1) + (b - (a + 1)) = b /\ a + 1 \in Nat
    BY <1>4
  <2>2. (a + 1) * m = a * m + m
    OBVIOUS
  <2>3. (b - (a + 1)) * m \in Nat
    BY <2>1
  <2>4. b * m = (a + 1) * m + (b - (a + 1)) * m
    BY <2>1
  <2> QED
    BY <1>1, <2>2, <2>3, <2>4
<1> QED
  BY <1>1, <1>3, <1>4

\* A larger part makes a larger sum.
LEMMA AddMore ==
    ASSUME NEW a \in Nat, NEW m \in Nat, NEW e \in Nat, NEW c \in Nat, NEW d \in Nat,
           NEW b \in Nat, c <= d, a + m <= e + c + b
    PROVE  a + m <= e + d + b
OBVIOUS

\* No call spends more than OneCall.
LEMMA OneCallIs ==
    /\ OneCall \in Nat
    /\ \A est \in Estimates : est \in Nat /\ est + MaxExcess <= OneCall
<1>1. Estimates \subseteq Nat /\ IsFiniteSet(Estimates) /\ Estimates # {} /\ MaxExcess \in Nat
  BY CostAssumption
<1>2. PICK b \in Nat : \A x \in Estimates : x <= b
  BY <1>1, FiniteBounded
<1>3. PICK m \in Estimates : \A x \in Estimates : x <= m
  BY <1>1, <1>2, NatGreatest
<1>4. \A x \in Estimates : m >= x
  BY <1>1, <1>3
<1> DEFINE e == Max(Estimates)
<1>5. e \in Estimates /\ \A x \in Estimates : e >= x
  BY <1>4 DEF Max
<1>6. OneCall = e + MaxExcess
  BY DEF OneCall
<1> HIDE DEF e
<1> QED
  BY <1>1, <1>5, <1>6

\* The sessions are finite, so their parts have a size.
LEMMA FreshSize ==
    ASSUME NEW F \in SUBSET Sessions, NEW G \in SUBSET F
    PROVE  /\ IsFiniteSet(F) /\ Cardinality(F) \in Nat /\ Cardinality(G) \in Nat
           /\ Cardinality(G) <= Cardinality(F)
           /\ G # F => Cardinality(G) + 1 <= Cardinality(F)
<1>1. IsFiniteSet(F)
  BY TurnsAssumption, FS_Subset
<1>2. /\ IsFiniteSet(G) /\ Cardinality(F) \in Nat /\ Cardinality(G) \in Nat
      /\ Cardinality(G) <= Cardinality(F)
      /\ Cardinality(G) = Cardinality(F) => G = F
  BY <1>1, FS_Subset, FS_CardinalityType
<1> QED
  BY <1>1, <1>2

\* The ceiling of the day, and that approvals only raise it.
LEMMA DayCeilingGrows ==
    ASSUME GateInv, GrantsBounded, GateInv', GrantsBounded', grants \subseteq grants'
    PROVE  /\ DayCeiling \in Nat /\ DayCeiling' \in Nat
           /\ DayCeiling <= DayCeiling'
<1> DEFINE H(G) == {h \in G : h.key \in {<<"daily_limit", "day">>}}
<1>1. "daily_limit" \in Scopes /\ Turns \subseteq Turns /\ Turns # {}
  BY TurnsAssumption DEF Scopes
<1>2. /\ H(grants) \subseteq Grant /\ H(grants') \subseteq Grant
      /\ \A g \in H(grants) : g \in H(grants')
  BY DEF GateInv, TypeOK
<1>3. /\ \E c \in Nat : \A g \in H(grants) : g.level <= c
      /\ \E c \in Nat : \A g \in H(grants') : g.level <= c
  BY DEF GrantsBounded
<1>4. /\ DayCeiling = Highest("daily_limit", Turns, H(grants))
      /\ DayCeiling' = Highest("daily_limit", Turns, H(grants'))
  BY DEF DayCeiling, Ceiling, Highest
<1> HIDE DEF H
<1>5. /\ DayCeiling \in Nat
      /\ \/ \E t \in Turns : DayCeiling = Limit[t]["daily_limit"]
         \/ \E g \in H(grants) : DayCeiling = g.level
  BY <1>1, <1>2, <1>3, <1>4, HighestIs
<1>6. /\ DayCeiling' \in Nat
      /\ \A t \in Turns : Limit[t]["daily_limit"] <= DayCeiling'
      /\ \A g \in H(grants') : g.level <= DayCeiling'
  BY <1>1, <1>2, <1>3, <1>4, HighestIs
<1> QED
  BY <1>2, <1>5, <1>6

\* More fresh sessions, a higher ceiling and no more spent: still ahead.
LEMMA AheadKept ==
    ASSUME NEW F \in SUBSET Sessions, NEW G \in SUBSET F,
           NEW c \in Nat, NEW d \in Nat, c <= d, NEW day \in Nat, NEW x \in Nat,
           \/ day <= x + Cardinality(G) * OneCall
           \/ day + OneCall <= MaxExcess + c + Cardinality(G) * OneCall
    PROVE  \/ day <= x + Cardinality(F) * OneCall
           \/ day + OneCall <= MaxExcess + d + Cardinality(F) * OneCall
<1> DEFINE a == Cardinality(G) * OneCall
           b == Cardinality(F) * OneCall
<1>1. a \in Nat /\ b \in Nat /\ a <= b
  BY FreshSize, OneCallIs, TimesGrows
<1>2. MaxExcess \in Nat /\ OneCall \in Nat
  BY CostAssumption, OneCallIs
<1> HIDE DEF a, b
<1>3. \/ day <= x + a
      \/ day + OneCall <= MaxExcess + c + a
  BY DEF a
<1>4. \/ day <= x + b
      \/ day + OneCall <= MaxExcess + d + b
  BY <1>1, <1>2, <1>3
<1> QED
  BY <1>4 DEF b

\* A step that adds nothing to the table: a call that takes flight reads the
\* day's spend as it is.
LEMMA DayQuiet ==
    ASSUME GateInv, GateInv', EnvelopeInv, EnvelopeInv', DayInv, ReadsHold',
           grants \subseteq grants', UNCHANGED <<logged, loggedDay>>,
           \A t \in Turns : InFlight(t)' =>
               \/ InFlight(t) /\ dailyOther'[t] = dailyOther[t]
               \/ ReadAt(t)' = loggedDay
    PROVE  DayInv'
<1>1. /\ DayCeiling \in Nat /\ DayCeiling' \in Nat /\ DayCeiling <= DayCeiling'
      /\ loggedDay \in Nat /\ OneCall \in Nat /\ MaxExcess \in Nat
  BY DayCeilingGrows, OneCallIs, CostAssumption DEF EnvelopeInv, GateInv, TypeOK
<1>2. ASSUME NEW x \in Nat PROVE DayAhead(x)'
  <2>1. /\ Fresh(x)' \in SUBSET Sessions
        /\ Cardinality(Fresh(x)') \in Nat
    <3>1. Fresh(x)' \in SUBSET Sessions
      BY DEF Fresh
    <3> QED
      BY <3>1, FreshSize
  <2>2. CASE loggedDay <= x
    <3> DEFINE b == Cardinality(Fresh(x)') * OneCall
    <3>1. b \in Nat
      BY <1>1, <2>1, TimesGrows
    <3> HIDE DEF b
    <3>2. loggedDay' <= x + b
      BY <1>1, <2>2, <3>1
    <3> QED
      BY <3>2 DEF DayAhead, b
  <2>3. CASE x < loggedDay
    <3>1. Fresh(x) \in SUBSET Fresh(x)'
      <4>1. \A t \in Turns : InFlight(t)' =>
                ReadAt(t)' = loggedDay \/ (InFlight(t) /\ ReadAt(t)' = ReadAt(t))
        BY DEF ReadAt
      <4> QED
        BY <2>3, <4>1 DEF Fresh
    <3>2. DayAhead(x)
      BY DEF DayInv
    <3> DEFINE F == Fresh(x)'
    <3> HIDE DEF F
    <3>3. \/ loggedDay <= x + Cardinality(F) * OneCall
          \/ loggedDay + OneCall <= MaxExcess + DayCeiling' + Cardinality(F) * OneCall
      <4>1. F \in SUBSET Sessions /\ Fresh(x) \in SUBSET F
        BY <2>1, <3>1 DEF F
      <4>2. \/ loggedDay <= x + Cardinality(Fresh(x)) * OneCall
            \/ loggedDay + OneCall <=
                   MaxExcess + DayCeiling + Cardinality(Fresh(x)) * OneCall
        BY <3>2 DEF DayAhead
      <4> QED
        BY <1>1, <4>1, <4>2, AheadKept
    <3> QED
      BY <3>3 DEF DayAhead, F
  <2> QED
    BY <1>1, <2>2, <2>3
<1>3. DayBounded'
  <2> DEFINE b == Cardinality(Sessions) * OneCall
  <2>1. b \in Nat
    BY FreshSize, OneCallIs, TimesGrows
  <2> HIDE DEF b
  <2>2. loggedDay + OneCall <= MaxExcess + DayCeiling + b
    BY DEF DayInv, DayBounded, b
  <2>3. loggedDay + OneCall <= MaxExcess + DayCeiling' + b
    BY <1>1, <2>1, <2>2, AddMore
  <2> QED
    BY <2>3 DEF DayBounded, b
<1> QED
  BY <1>2, <1>3 DEF DayInv

\* The figures of the other calls in flight stay as they were read.
LEMMA ReadsMove ==
    ASSUME ReadsHold, NEW t \in Turns, UNCHANGED <<logged, loggedDay>>,
           \A u \in Turns \ {t} :
               /\ phase'[u] = phase[u] /\ preCall'[u] = preCall[u]
               /\ dailyOther'[u] = dailyOther[u] /\ sessionBase'[u] = sessionBase[u]
               /\ total'[u] = total[u],
           InFlight(t)' => ReadAt(t)' <= loggedDay,
           phase'[t] \in {"prompt", "calling"} =>
               /\ preCall'[t]["per_call_limit"] \in Estimates
               /\ preCall'[t]["daily_limit"] =
                      dailyOther'[t] + sessionBase'[t] + total'[t]
                          + preCall'[t]["per_call_limit"]
    PROVE  ReadsHold'
<1>1. ASSUME NEW u \in Turns \ {t}
      PROVE  /\ InFlight(u)' <=> InFlight(u)
             /\ ReadAt(u)' = ReadAt(u)
  BY <1>1 DEF InFlight, ReadAt
<1> QED
  BY <1>1 DEF ReadsHold

\* What a call's check measures of the day.
LEMMA ProjectedDay ==
    ASSUME TypeOK, NEW t \in Turns, NEW est \in Nat
    PROVE  /\ Projection(t, est)["per_call_limit"] = est
           /\ Projection(t, est)["daily_limit"] =
                  dailyOther[t] + sessionBase[t] + total[t] + est
<1>1. dailyOther[t] \in Nat /\ total[t] \in Nat /\ sessionBase[t] \in Nat
  BY DEF TypeOK
<1> QED
  BY <1>1 DEF Projection, SpentSoFar, Scopes

LEMMA CheckDay ==
    ASSUME GateInv, GateInv', EnvelopeInv, EnvelopeInv', DayInv,
           NEW t \in Turns, NEW est \in Estimates,
           EntryCheck(t, est) \/ CallCheck(t, est)
    PROVE  DayInv'
<1> DEFINE p == Projection(t, est)
<1>1. /\ UNCHANGED <<dailyOther, sessionBase, total, logged, loggedDay, grants>>
      /\ \A u \in Turns \ {t} : phase'[u] = phase[u] /\ preCall'[u] = preCall[u]
      /\ phase'[t] \in {"read", "prompt", "calling"} => phase[t] = "read"
      /\ phase'[t] \in {"prompt", "calling"} => preCall'[t] = p
  BY DEF EntryCheck, CallCheck, Check, turnVars, table, GateInv, TypeOK
<1>2. /\ p["per_call_limit"] \in Estimates
      /\ p["daily_limit"] = dailyOther[t] + sessionBase[t] + total[t] + p["per_call_limit"]
  BY ProjectedDay, CostAssumption DEF GateInv
<1> HIDE DEF p
<1>3. \A u \in Turns : InFlight(u)' => InFlight(u) /\ ReadAt(u)' = ReadAt(u)
  BY <1>1 DEF InFlight, ReadAt
<1>4. ReadsHold'
  BY <1>1, <1>2, <1>3, ReadsMove DEF DayInv, ReadsHold
<1> QED
  BY <1>1, <1>3, <1>4, DayQuiet

LEMMA ApproveDay ==
    ASSUME GateInv, GateInv', EnvelopeInv, EnvelopeInv', DayInv,
           NEW t \in Turns, Approve(t)
    PROVE  DayInv'
<1>1. /\ UNCHANGED <<dailyOther, sessionBase, total, logged, loggedDay>>
      /\ grants \subseteq grants'
      /\ \A u \in Turns \ {t} : phase'[u] = phase[u] /\ preCall'[u] = preCall[u]
      /\ phase'[t] \in {"read", "prompt", "calling"} =>
             phase[t] = "prompt" /\ preCall'[t] = preCall[t]
  BY DEF Approve, turnVars, table, GateInv, TypeOK
<1>2. \A u \in Turns : InFlight(u)' => InFlight(u) /\ ReadAt(u)' = ReadAt(u)
  BY <1>1 DEF InFlight, ReadAt
<1>3. ReadsHold'
  BY <1>1, <1>2, ReadsMove DEF DayInv, ReadsHold
<1> QED
  BY <1>1, <1>2, <1>3, DayQuiet

\* The read that a call takes flight on is of the day's spend as it is.
LEMMA ReadDailyDay ==
    ASSUME GateInv, GateInv', EnvelopeInv, EnvelopeInv', DayInv,
           NEW t \in Turns, ReadDaily(t)
    PROVE  DayInv'
<1>1. /\ UNCHANGED <<sessionBase, total, logged, loggedDay, grants, preCall>>
      /\ \A u \in Turns \ {t} : phase'[u] = phase[u] /\ dailyOther'[u] = dailyOther[u]
      /\ phase'[t] = "read"
      /\ dailyOther'[t] = loggedDay - logged[SessionOf[t]]
  BY DEF ReadDaily, Refreshed, SpentByOthers, table, GateInv, TypeOK
<1>2. loggedDay \in Nat /\ logged[SessionOf[t]] \in Nat
  BY SessionOfAssumption DEF GateInv, TypeOK
<1>3. ReadAt(t)' = loggedDay
  BY <1>1, <1>2 DEF ReadAt
<1>4. ReadsHold'
  BY <1>1, <1>2, <1>3, ReadsMove DEF DayInv
<1>5. \A u \in Turns \ {t} : InFlight(u)' => InFlight(u)
  BY <1>1 DEF InFlight
<1> QED
  BY <1>1, <1>3, <1>4, <1>5, DayQuiet

\* A step that leaves its turn with no call in flight and writes nothing.
LEMMA OtherDay ==
    ASSUME GateInv, GateInv', EnvelopeInv, EnvelopeInv', DayInv,
           NEW t \in Turns,
           \/ OpenTurn(t) \/ Decline(t) \/ CallFails(t) \/ Record(t)
           \/ NoteToolProgress(t) \/ EndTurn(t)
           \/ \E paid \in Costs : CallReturns(t, paid, FALSE)
    PROVE  DayInv'
<1>1. /\ UNCHANGED <<logged, loggedDay, grants>>
      /\ phase'[t] \notin {"read", "prompt", "calling"}
      /\ \A u \in Turns \ {t} : phase'[u] = phase[u] /\ preCall'[u] = preCall[u]
  BY DEF OpenTurn, Decline, CallFails, Record, NoteToolProgress, EndTurn,
         CallReturns, turnVars, table, GateInv, TypeOK
<1>2. \A u \in Turns \ {t} :
          /\ dailyOther'[u] = dailyOther[u] /\ sessionBase'[u] = sessionBase[u]
          /\ total'[u] = total[u]
  BY DEF OpenTurn, Decline, CallFails, Record, NoteToolProgress, EndTurn,
         CallReturns, turnVars, GateInv, TypeOK
<1>3. ~InFlight(t)' /\ \A u \in Turns \ {t} : InFlight(u)' => InFlight(u)
  BY <1>1 DEF InFlight
<1>4. ReadsHold'
  BY <1>1, <1>2, <1>3, ReadsMove DEF DayInv
<1> QED
  BY <1>1, <1>2, <1>3, <1>4, DayQuiet

\* A call that goes out is within the day's ceiling by what it read.
LEMMA CallWithinDay ==
    ASSUME GateInv, EnvelopeInv, DayInv, NEW t \in Turns, phase[t] = "calling"
    PROVE  /\ ReadAt(t) \in Nat /\ preCall[t]["per_call_limit"] \in Estimates
           /\ ReadAt(t) + preCall[t]["per_call_limit"] <= DayCeiling
<1> DEFINE est == preCall[t]["per_call_limit"]
           p == preCall[t]["daily_limit"]
           s == SessionOf[t]
<1>1. /\ est \in Estimates /\ p = dailyOther[t] + sessionBase[t] + total[t] + est
      /\ est \in Nat /\ p \in Nat
  BY OneCallIs DEF DayInv, ReadsHold, GateInv, TypeOK, Scopes
<1>2. /\ dailyOther[t] \in Nat /\ sessionBase[t] \in Nat /\ total[t] \in Nat
      /\ logged[s] \in Nat /\ cost[t] = 0
  BY SessionOfAssumption DEF GateInv, TypeOK, EnvelopeInv, CostInHand
<1>3. logged[s] <= sessionBase[t] + total[t]
  BY <1>2 DEF EnvelopeInv, TableCounted, Opened
<1>4. ReadAt(t) = dailyOther[t] + logged[s]
  BY DEF ReadAt
<1>5. p <= DayCeiling /\ DayCeiling \in Nat
  <2>1. Covered(t, "daily_limit") /\ "daily_limit" \in Scopes
    BY DEF GateInv, CallCovered, Scopes
  <2>2. Key(t, "daily_limit") = <<"daily_limit", "day">>
    BY DEF Key, Holder
  <2>3. /\ DayCeiling \in Nat /\ Limit[t]["daily_limit"] <= DayCeiling
        /\ \A g \in grants : g.key = <<"daily_limit", "day">> => g.level <= DayCeiling
    BY <2>1, CeilingIs, TurnsAssumption DEF DayCeiling, EnvelopeInv
  <2>4. Limit[t]["daily_limit"] \in Nat /\ \A g \in grants : g.level \in Nat
    BY <2>1, LimitAssumption DEF GateInv, TypeOK, Grant
  <2>5. CASE p <= Limit[t]["daily_limit"]
    BY <1>1, <2>3, <2>4, <2>5
  <2>6. CASE Granted(t, "daily_limit", p)
    <3>1. PICK g \in grants : g.key = <<"daily_limit", "day">> /\ p <= g.level
      BY <2>2, <2>6 DEF Granted
    <3> QED
      BY <1>1, <2>3, <2>4, <3>1
  <2> QED
    BY <2>1, <2>3, <2>5, <2>6 DEF Covered
<1> HIDE DEF est, p
<1>6. ReadAt(t) \in Nat /\ ReadAt(t) + est <= DayCeiling
  BY <1>1, <1>2, <1>3, <1>4, <1>5
<1> QED
  BY <1>1, <1>6 DEF est

\* The arithmetic of a call's return: a is the size of the fresh sessions at
\* its read in calls, f of those after it, one more at least.
LEMMA ReturnAdds ==
    ASSUME NEW day \in Nat, NEW paid \in Nat, NEW est \in Nat, NEW r \in Nat,
           NEW m \in Nat, NEW e \in Nat, NEW c \in Nat, NEW a \in Nat, NEW f \in Nat,
           paid <= est + e, est + e <= m, r + est <= c, a + m <= f,
           day <= r + a \/ day + m <= e + c + a
    PROVE  (day + paid) + m <= e + c + f
<1>1. CASE day <= r + a
  BY <1>1
<1>2. CASE day + m <= e + c + a
  BY <1>2
<1> QED
  BY <1>1, <1>2

LEMMA MoreAdds ==
    ASSUME NEW day \in Nat, NEW paid \in Nat, NEW est \in Nat, NEW x \in Nat,
           NEW m \in Nat, NEW e \in Nat, NEW c \in Nat, NEW a \in Nat, NEW f \in Nat,
           paid <= est + e, est + e <= m, a + m <= f,
           day <= x + a \/ day + m <= e + c + a
    PROVE  day + paid <= x + f \/ (day + paid) + m <= e + c + f
<1>1. CASE day <= x + a
  BY <1>1
<1>2. CASE day + m <= e + c + a
  BY <1>2
<1> QED
  BY <1>1, <1>2

\* A call returns and is written: its session is fresh again, for every
\* figure, and what it read was within the ceiling.
LEMMA ReturnDay ==
    ASSUME GateInv, GateInv', EnvelopeInv, EnvelopeInv', DayInv,
           NEW t \in Turns, NEW paid \in Costs, CallReturns(t, paid, TRUE)
    PROVE  DayInv'
<1> DEFINE s == SessionOf[t]
           r == ReadAt(t)
           est == preCall[t]["per_call_limit"]
<1>1. /\ phase[t] = "calling" /\ phase' = [phase EXCEPT ![t] = "returned"]
      /\ paid <= est + MaxExcess
      /\ logged' = [logged EXCEPT ![s] = @ + paid]
      /\ loggedDay' = loggedDay + paid
      /\ preCall' = [preCall EXCEPT ![t] = NoCall]
      /\ UNCHANGED <<dailyOther, sessionBase, total, grants>>
  BY DEF CallReturns, turnVars
<1>2. /\ paid \in Nat /\ MaxExcess \in Nat /\ loggedDay \in Nat /\ s \in Sessions
      /\ OneCall \in Nat
  BY CostAssumption, SessionOfAssumption, OneCallIs DEF GateInv, TypeOK
<1>3. /\ r \in Nat /\ est \in Estimates /\ est \in Nat /\ r + est <= DayCeiling
      /\ est + MaxExcess <= OneCall
  BY <1>1, CallWithinDay, OneCallIs
<1>4. DayCeiling' = DayCeiling /\ DayCeiling \in Nat
  <2>1. DayCeiling' = DayCeiling
    BY <1>1 DEF DayCeiling, Ceiling
  <2>2. DayCeiling \in Nat
    BY <1>1, DayCeilingGrows DEF EnvelopeInv
  <2> QED
    BY <2>1, <2>2
<1>5. ASSUME NEW u \in Turns, InFlight(u)'
      PROVE  /\ u # t /\ InFlight(u) /\ SessionOf[u] # s
             /\ ReadAt(u)' = ReadAt(u) /\ ReadAt(u) \in Nat
  <2>1. u # t /\ InFlight(u)
    BY <1>1, <1>5 DEF InFlight, GateInv, TypeOK
  <2>2. SessionOf[u] # s
    BY <1>1, <2>1 DEF EnvelopeInv, OneOpen, Opened, InFlight
  <2>3. logged'[SessionOf[u]] = logged[SessionOf[u]]
    BY <1>1, <2>2, SessionOfAssumption DEF GateInv, TypeOK
  <2>4. dailyOther[u] \in Nat /\ logged[SessionOf[u]] \in Nat
    BY SessionOfAssumption DEF GateInv, TypeOK
  <2> QED
    BY <1>1, <2>1, <2>2, <2>3, <2>4 DEF ReadAt
<1>6. ReadsHold'
  <2> SUFFICES ASSUME NEW u \in Turns
               PROVE  /\ InFlight(u)' => ReadAt(u)' <= loggedDay'
                      /\ phase'[u] \in {"prompt", "calling"} =>
                           /\ preCall'[u]["per_call_limit"] \in Estimates
                           /\ preCall'[u]["daily_limit"] =
                                  dailyOther'[u] + sessionBase'[u] + total'[u]
                                      + preCall'[u]["per_call_limit"]
    BY DEF ReadsHold
  <2>1. ASSUME InFlight(u)' PROVE ReadAt(u)' <= loggedDay'
    <3>1. ReadAt(u) <= loggedDay /\ ReadAt(u)' = ReadAt(u) /\ ReadAt(u) \in Nat
      BY <1>5, <2>1 DEF DayInv, ReadsHold
    <3> QED
      BY <1>1, <1>2, <3>1
  <2>2. ASSUME phase'[u] \in {"prompt", "calling"}
        PROVE  /\ preCall'[u]["per_call_limit"] \in Estimates
               /\ preCall'[u]["daily_limit"] =
                      dailyOther'[u] + sessionBase'[u] + total'[u]
                          + preCall'[u]["per_call_limit"]
    <3>1. u # t /\ phase[u] = phase'[u]
      BY <1>1, <2>2 DEF GateInv, TypeOK
    <3>2. preCall'[u] = preCall[u]
      BY <1>1, <3>1 DEF GateInv, TypeOK
    <3> QED
      BY <1>1, <2>2, <3>1, <3>2 DEF DayInv, ReadsHold
  <2> QED
    BY <2>1, <2>2
<1> HIDE DEF r, est
<1>7. s \notin Fresh(r) /\ Fresh(r) \in SUBSET Sessions
  BY <1>1, <1>2, <1>3 DEF Fresh, InFlight, r
<1>8. ASSUME NEW F \in SUBSET Sessions, Fresh(r) \subseteq F, s \in F
      PROVE  loggedDay' + OneCall <= MaxExcess + DayCeiling + Cardinality(F) * OneCall
  <2> DEFINE a == Cardinality(Fresh(r)) * OneCall
             f == Cardinality(F) * OneCall
  <2>1. Cardinality(Fresh(r)) + 1 <= Cardinality(F)
        /\ Cardinality(F) \in Nat /\ Cardinality(Fresh(r)) \in Nat
    BY <1>7, <1>8, FreshSize
  <2>2. a \in Nat /\ f \in Nat /\ a + OneCall <= f
    BY <1>2, <2>1, TimesGrows
  <2>3. loggedDay <= r + a \/ loggedDay + OneCall <= MaxExcess + DayCeiling + a
    BY <1>3 DEF DayInv, DayAhead
  <2> HIDE DEF a, f
  <2>4. (loggedDay + paid) + OneCall <= MaxExcess + DayCeiling + f
    BY <1>1, <1>2, <1>3, <1>4, <2>2, <2>3, ReturnAdds
  <2> QED
    BY <1>1, <2>4 DEF f
<1>9. DayBounded'
  BY <1>2, <1>4, <1>7, <1>8 DEF DayBounded
<1>10. ASSUME NEW x \in Nat PROVE DayAhead(x)'
  <2> DEFINE F == Fresh(x)'
  <2>1. F \in SUBSET Sessions /\ s \in F /\ Fresh(x) \subseteq F
    BY <1>2, <1>5 DEF Fresh
  <2>2. CASE x < r
    <3>1. Fresh(r) \subseteq Fresh(x)
      <4>1. \A u \in Turns : InFlight(u) => ReadAt(u) \in Nat
        BY SessionOfAssumption DEF ReadAt, GateInv, TypeOK
      <4> QED
        BY <1>3, <2>2, <4>1 DEF Fresh
    <3>2. Fresh(r) \subseteq F
      BY <2>1, <3>1
    <3> HIDE DEF F
    <3>3. loggedDay' + OneCall <= MaxExcess + DayCeiling + Cardinality(F) * OneCall
      BY <1>8, <2>1, <3>2
    <3> QED
      BY <1>4, <3>3 DEF DayAhead, F
  <2>3. CASE r <= x
    <3>1. s \notin Fresh(x) /\ Fresh(x) \in SUBSET Sessions
      BY <1>1, <1>2, <1>3, <2>3 DEF Fresh, InFlight, r
    <3> DEFINE a == Cardinality(Fresh(x)) * OneCall
               f == Cardinality(F) * OneCall
    <3>2. loggedDay <= x + a \/ loggedDay + OneCall <= MaxExcess + DayCeiling + a
      BY DEF DayInv, DayAhead
    <3> HIDE DEF F
    <3>3. Cardinality(Fresh(x)) + 1 <= Cardinality(F)
          /\ Cardinality(F) \in Nat /\ Cardinality(Fresh(x)) \in Nat
      BY <2>1, <3>1, FreshSize
    <3>4. a \in Nat /\ f \in Nat /\ a + OneCall <= f
      BY <1>2, <3>3, TimesGrows
    <3> HIDE DEF a, f
    <3>5. \/ loggedDay + paid <= x + f
          \/ (loggedDay + paid) + OneCall <= MaxExcess + DayCeiling + f
      BY <1>1, <1>2, <1>3, <1>4, <3>2, <3>4, MoreAdds
    <3>6. \/ loggedDay' <= x + f
          \/ loggedDay' + OneCall <= MaxExcess + DayCeiling + f
      BY <1>1, <3>5
    <3> QED
      BY <1>4, <3>6 DEF DayAhead, f, F
  <2> QED
    BY <1>3, <2>2, <2>3
<1> QED
  BY <1>6, <1>9, <1>10 DEF DayInv

LEMMA DayInit == Init => DayInv
<1> SUFFICES ASSUME Init PROVE DayInv
  OBVIOUS
<1>1. loggedDay = 0 /\ \A t \in Turns : phase[t] = "new"
  BY DEF Init
<1>2. ReadsHold
  BY <1>1 DEF ReadsHold, InFlight
<1>3. OneCall \in Nat /\ MaxExcess \in Nat
  BY OneCallIs, CostAssumption
<1>4. ASSUME NEW x \in Nat PROVE DayAhead(x)
  <2> DEFINE a == Cardinality(Fresh(x)) * OneCall
  <2>1. Fresh(x) \in SUBSET Sessions
    BY DEF Fresh
  <2>2. a \in Nat
    BY <1>3, <2>1, FreshSize, TimesGrows
  <2> HIDE DEF a
  <2>3. loggedDay <= x + a
    BY <1>1, <2>2
  <2> QED
    BY <2>3 DEF DayAhead, a
<1>5. DayBounded
  <2> DEFINE b == Cardinality(Sessions) * OneCall
  <2>1. DayCeiling \in Nat
    <3>1. GateInv /\ GrantsBounded
      BY GateInit, EnvelopeInit DEF EnvelopeInv
    <3> QED
      BY <3>1, CeilingIs, TurnsAssumption DEF DayCeiling, Scopes
  <2>2. Cardinality({}) + 1 <= Cardinality(Sessions) /\ Cardinality(Sessions) \in Nat
    <3>1. Sessions # {}
      BY TurnsAssumption, SessionOfAssumption
    <3> QED
      BY <3>1, FreshSize
  <2>3. b \in Nat /\ 0 + OneCall <= b
    BY <1>3, <2>2, TimesGrows, FS_EmptySet
  <2> HIDE DEF b
  <2>4. loggedDay + OneCall <= MaxExcess + DayCeiling + b
    BY <1>1, <1>3, <2>1, <2>3
  <2> QED
    BY <2>4 DEF DayBounded, b
<1> QED
  BY <1>2, <1>4, <1>5 DEF DayInv

LEMMA DayStep ==
    ASSUME GateInv, EnvelopeInv, DayInv, [Next]_vars
    PROVE  DayInv'
<1>1. GateInv' /\ EnvelopeInv'
  BY GateStep, EnvelopeStep
<1>2. CASE UNCHANGED vars
  BY <1>2
  DEF vars, DayInv, ReadsHold, DayAhead, DayBounded, InFlight, ReadAt, Fresh,
      DayCeiling, Ceiling
<1>3. CASE Next
  <2>1. PICK t \in Turns :
            \/ OpenTurn(t) \/ ReadDaily(t)
            \/ \E est \in Estimates : EntryCheck(t, est) \/ CallCheck(t, est)
            \/ Approve(t) \/ Decline(t)
            \/ \E paid \in Costs, written \in BOOLEAN :
                   CallReturns(t, paid, written)
            \/ CallFails(t) \/ Record(t) \/ NoteToolProgress(t) \/ EndTurn(t)
    BY <1>3 DEF Next
  <2>2. CASE \E est \in Estimates : EntryCheck(t, est) \/ CallCheck(t, est)
    BY <1>1, <2>2, CheckDay
  <2>3. CASE \E paid \in Costs, written \in BOOLEAN : CallReturns(t, paid, written)
    <3>1. PICK paid \in Costs, written \in BOOLEAN : CallReturns(t, paid, written)
      BY <2>3
    <3>2. CASE written = TRUE
      BY <1>1, <3>1, <3>2, ReturnDay
    <3>3. CASE written = FALSE
      BY <1>1, <3>1, <3>3, OtherDay
    <3> QED
      BY <3>1, <3>2, <3>3
  <2> QED
    BY <1>1, <2>1, <2>2, <2>3, ReadDailyDay, ApproveDay, OtherDay
<1> QED
  BY <1>2, <1>3

\* For any number of sessions and turns: though a turn checks its call against
\* a daily figure other sessions have since moved, the day's recorded spend
\* passes the highest daily limit or approved level by one call of every other
\* session and the excess of one call at most.
THEOREM DayOvershootIsBounded == Spec => []DailyOvershootBounded
<1>1. GateInv /\ EnvelopeInv /\ DayInv => DailyOvershootBounded
  <2> SUFFICES ASSUME GateInv, EnvelopeInv, DayInv PROVE DailyOvershootBounded
    OBVIOUS
  <2> DEFINE k == Cardinality(Sessions)
             m == OneCall
             c == DayCeiling
  <2>1. k \in Nat /\ k - 1 \in Nat
    <3>1. Sessions # {}
      BY TurnsAssumption, SessionOfAssumption
    <3>2. k \in Nat /\ Cardinality({}) + 1 <= k
      BY <3>1, FreshSize
    <3> HIDE DEF k
    <3> QED
      BY <3>2, FS_EmptySet
  <2>2. m \in Nat /\ MaxExcess \in Nat /\ loggedDay \in Nat
    BY OneCallIs, CostAssumption DEF GateInv, TypeOK
  <2>3. c \in Nat
    BY CeilingIs, TurnsAssumption DEF DayCeiling, Scopes, EnvelopeInv
  <2>4. loggedDay + m <= MaxExcess + c + k * m
    BY DEF DayInv, DayBounded
  <2>5. DailyOvershootBounded <=> loggedDay <= MaxExcess + (k - 1) * m + c
    BY DEF DailyOvershootBounded, DayCeiling, OneCall
  <2> HIDE DEF k, m, c
  <2>6. k * m = (k - 1) * m + m /\ (k - 1) * m \in Nat
    BY <2>1, <2>2
  <2>7. loggedDay <= MaxExcess + (k - 1) * m + c
    <3> DEFINE j == (k - 1) * m
    <3>1. j \in Nat /\ loggedDay + m <= MaxExcess + c + (j + m)
      BY <2>4, <2>6
    <3> HIDE DEF j
    <3>2. loggedDay <= MaxExcess + j + c
      BY <2>2, <2>3, <3>1
    <3> QED
      BY <3>2 DEF j
  <2> QED
    BY <2>5, <2>7
<1>2. GateInv /\ EnvelopeInv /\ DayInv /\ [Next]_vars => DayInv'
  BY DayStep
<1> QED
  BY <1>1, <1>2, DayInit, EnvelopeInit, EnvelopeStep, GateInvariant, PTL DEF Spec
=============================================================================
