-------------------------- MODULE AcpPromptProofs ---------------------------
(***************************************************************************)
(* Proofs about AcpPrompt, for any number of prompts, permission requests  *)
(* and limits.                                                             *)
(*                                                                         *)
(* What makes PromptHonest inductive is where a request may still be under *)
(* way: while its own prompt runs or settles, or after that prompt failed, *)
(* which ends the session.  So a verdict that finds no prompt to be        *)
(* written to belongs to a failed one, and an answer that differs from the *)
(* last verdict written belongs to a prompt that can only fail.            *)
(***************************************************************************)
EXTENDS AcpPrompt, AcpChild, SequenceTheorems, TLAPS

\* The prompt's window is open only while it runs and is not cancelled; once
\* it is over the terminal message has given its reason.
WindowHolds ==
    /\ window => pc = "running" /\ ~cancelled
    /\ pc \in {"settling", "acknowledging"} => stop.reason \in Stops

\* A prompt under way has no outcome yet, and there is none after it.
OutcomeHolds ==
    /\ pc # "none" => sent > 0 /\ outcome[sent] = "none"
    /\ \A p \in 1..Prompts : p > sent => outcome[p] = "none"

UnderWay(r) == req[r].at \in {"confirming", "recording", "revoking"}

\* A request under way is its prompt's, or its prompt failed and the session
\* with it.
PromptOf(r) ==
    /\ req[r].prompt <= sent
    /\ UnderWay(r) =>
           /\ req[r].prompt > 0
           /\ pc # "none" => req[r].prompt = sent /\ pc # "acknowledging"
           /\ pc = "none" => ~alive /\ outcome[req[r].prompt] = "failed"

\* A verdict is written unless its prompt has failed.
VerdictOf(r) ==
    /\ req[r].at \in {"recording", "revoking"} /\ ~req[r].kept => pc = "none"
    /\ req[r].at \in {"none", "confirming", "recording"} => trail[r] = <<>>
    /\ req[r].at # "answered" => req[r].told = "none"

\* An answer other than the last verdict written is of a prompt that failed,
\* or that is broken and will.
MatchOf(r) ==
    req[r].at = "answered" /\ req[r].prompt > 0 /\ trail[r] # <<>>
        /\ Last(trail[r]) # req[r].told
    => \/ outcome[req[r].prompt] = "failed"
       \/ req[r].prompt = sent /\ pc \in {"running", "settling"} /\ broken

AllowedOf(r) ==
    req[r].told = "approve" => trail[r] # <<>> /\ Last(trail[r]) = "approve"

RequestOk(r) == PromptOf(r) /\ VerdictOf(r) /\ MatchOf(r) /\ AllowedOf(r)

PromptInv ==
    /\ TypeOK /\ WindowHolds /\ OutcomeHolds
    /\ \A r \in Requests : RequestOk(r)
    /\ DeadlinePaused /\ CancelledNeverSucceeds

-----------------------------------------------------------------------------
(* What the invariant says.                                                *)

LEMMA InvHonest == PromptInv => PromptHonest
  <1> SUFFICES ASSUME PromptInv PROVE PromptHonest
    OBVIOUS
  <1>1. AllowedIsRecorded
    BY DEF PromptInv, RequestOk, AllowedOf, AllowedIsRecorded
  <1>2. ASSUME NEW r \in Open, req[r].prompt > 0
        PROVE  outcome[req[r].prompt] \in {"none", "failed"}
    <2>1. r \in Requests /\ UnderWay(r) /\ PromptOf(r)
      BY <1>2 DEF Open, UnderWay, PromptInv, RequestOk
    <2> QED
      BY <2>1 DEF PromptOf, PromptInv, OutcomeHolds
  <1>3. ASSUME NEW r \in Requests, req[r].at = "answered", req[r].prompt > 0,
               trail[r] # <<>>, outcome[req[r].prompt] \notin {"none", "failed"}
        PROVE  Last(trail[r]) = req[r].told
    <2>1. MatchOf(r)
      BY DEF PromptInv, RequestOk
    <2>2. pc # "none" => outcome[sent] = "none"
      BY DEF PromptInv, OutcomeHolds
    <2> QED
      BY <1>3, <2>1, <2>2 DEF MatchOf
  <1> QED
    BY <1>1, <1>2, <1>3
    DEF PromptInv, PromptHonest, ReturnedIsSettled, TrailMatchesAnswers

\* One request's handler moves on: what it does to the others' is nothing.
LEMMA OneRequest ==
  ASSUME PromptInv, NEW r \in Requests, TypeOK', UNCHANGED <<promptVars, alive>>,
         broken => broken',
         \A q \in Requests \ {r} : req'[q] = req[q] /\ trail'[q] = trail[q],
         RequestOk(r)', DeadlinePaused'
  PROVE  PromptInv'
  <1>1. WindowHolds' /\ OutcomeHolds' /\ CancelledNeverSucceeds'
    BY DEF PromptInv, promptVars, WindowHolds, OutcomeHolds, CancelledNeverSucceeds
  <1>2. ASSUME NEW q \in Requests PROVE RequestOk(q)'
    <2>1. CASE q = r
      BY <2>1
    <2>2. CASE q # r
      <3>1. RequestOk(q) /\ req'[q] = req[q] /\ trail'[q] = trail[q]
        BY <2>2 DEF PromptInv
      <3>2. PromptOf(q)' /\ VerdictOf(q)'
        BY <3>1 DEF RequestOk, PromptOf, VerdictOf, UnderWay, promptVars
      <3>3. MatchOf(q)' /\ AllowedOf(q)'
        BY <3>1 DEF RequestOk, MatchOf, AllowedOf, promptVars, Last
      <3> QED
        BY <3>2, <3>3 DEF RequestOk
    <2> QED
      BY <2>1, <2>2
  <1> QED
    BY <1>1, <1>2 DEF PromptInv
-----------------------------------------------------------------------------
(* The steps of prompt().                                                  *)

\* Only a prompt whose requests are all settled ends in anything but a
\* failure.
LEMMA EndsInv ==
  ASSUME PromptInv, pc # "none", NEW o \in Outcomes, Ends(o),
         o # "failed" => pc = "acknowledging" /\ (stop.late => o = "aborted")
  PROVE  PromptInv'
  <1>1. /\ outcome' = [outcome EXCEPT ![sent] = o] /\ pc' = "none" /\ window' = FALSE
        /\ alive' = (alive /\ o # "failed")
        /\ UNCHANGED <<broken, sent, cancelled, stop, updates, budget, paused, count, req, trail>>
    BY DEF Ends, clockVars, requestVars
  <1>2. sent \in 1..Prompts /\ outcome \in [1..Prompts -> Outcomes] /\ outcome[sent] = "none"
    BY LimitsAssumption DEF PromptInv, OutcomeHolds, TypeOK
  <1>3. outcome'[sent] = o /\ \A p \in 1..Prompts : p # sent => outcome'[p] = outcome[p]
    BY <1>1, <1>2
  <1>4. TypeOK'
    BY <1>1, <1>2 DEF PromptInv, TypeOK, Phases
  <1>5. WindowHolds' /\ OutcomeHolds'
    BY <1>1, <1>2, <1>3 DEF PromptInv, TypeOK, WindowHolds, OutcomeHolds
  <1>6. ASSUME NEW r \in Requests PROVE RequestOk(r)'
    <2>1. RequestOk(r) /\ req[r].prompt \in 0..Prompts
      BY DEF PromptInv, TypeOK
    <2>2. PromptOf(r)'
      <3>1. ASSUME UnderWay(r) PROVE o = "failed" /\ req[r].prompt = sent
        BY <2>1, <3>1 DEF RequestOk, PromptOf
      <3> QED
        BY <1>1, <1>3, <2>1, <3>1 DEF RequestOk, PromptOf, UnderWay
    <2>3. VerdictOf(r)' /\ AllowedOf(r)'
      BY <1>1, <2>1 DEF RequestOk, VerdictOf, AllowedOf, Last
    <2>4. MatchOf(r)'
      <3> SUFFICES ASSUME req[r].at = "answered", req[r].prompt > 0, trail[r] # <<>>,
                          Last(trail[r]) # req[r].told
                   PROVE  outcome'[req[r].prompt] = "failed"
        BY <1>1 DEF MatchOf, Last
      <3>1. CASE req[r].prompt = sent
        BY <1>2, <1>3, <2>1, <3>1 DEF RequestOk, MatchOf
      <3>2. CASE req[r].prompt # sent
        <4>1. req[r].prompt \in 1..Prompts
          BY <2>1, LimitsAssumption
        <4> QED
          BY <1>3, <2>1, <3>2, <4>1 DEF RequestOk, MatchOf
      <3> QED
        BY <3>1, <3>2
    <2> QED
      BY <2>2, <2>3, <2>4 DEF RequestOk
  <1>7. DeadlinePaused'
    BY <1>1 DEF PromptInv, DeadlinePaused, Confirming
  <1>8. CancelledNeverSucceeds'
    BY <1>1, <1>3 DEF CancelledNeverSucceeds
  <1> QED
    BY <1>4, <1>5, <1>6, <1>7, <1>8 DEF PromptInv

\* A prompt goes on: its requests stay as they are.
LEMMA GoesOn ==
  ASSUME PromptInv, TypeOK', WindowHolds', pc # "none", pc' # "none",
         pc' = "acknowledging" => pc = "acknowledging" \/ (~broken /\ Open = {}),
         pc = "acknowledging" => pc' = "acknowledging",
         UNCHANGED <<sent, outcome, broken, alive, req, trail>>, DeadlinePaused'
  PROVE  PromptInv'
  <1>1. OutcomeHolds' /\ CancelledNeverSucceeds'
    BY DEF PromptInv, OutcomeHolds, CancelledNeverSucceeds
  <1>2. ASSUME NEW r \in Requests PROVE RequestOk(r)'
    <2>1. RequestOk(r) /\ (UnderWay(r) => r \in Open)
      BY DEF PromptInv, UnderWay, Open
    <2>2. PromptOf(r)' /\ VerdictOf(r)'
      BY <2>1 DEF RequestOk, PromptOf, VerdictOf, UnderWay
    <2>3. AllowedOf(r)'
      BY <2>1 DEF RequestOk, AllowedOf, Last
    <2>4. MatchOf(r)'
      <3>1. pc' \in {"running", "settling", "acknowledging"}
        BY DEF TypeOK, Phases
      <3> QED
        BY <2>1, <3>1 DEF RequestOk, MatchOf, Last
    <2> QED
      BY <2>2, <2>3, <2>4 DEF RequestOk
  <1> QED
    BY <1>1, <1>2 DEF PromptInv
\* A prompt starts on a live session only, so with no request under way.
LEMMA StartPromptInv ==
  ASSUME PromptInv, NEW aborted \in BOOLEAN, StartPrompt(aborted)
  PROVE  PromptInv'
  <1>1. /\ alive /\ ~broken /\ pc = "none" /\ sent < Prompts /\ sent' = sent + 1
        /\ cancelled' = FALSE /\ count' = 0 /\ updates' = 0
        /\ stop' = [reason |-> "none", late |-> FALSE] /\ window' = ~aborted
        /\ pc' = IF aborted THEN "none" ELSE "running"
        /\ outcome' = IF aborted THEN [outcome EXCEPT ![sent + 1] = "aborted"] ELSE outcome
        /\ UNCHANGED <<alive, broken, req, trail>>
    BY DEF StartPrompt, sessionVars
  <1>2. sent \in 0..Prompts /\ sent + 1 \in 1..Prompts /\ outcome \in [1..Prompts -> Outcomes]
    BY <1>1, LimitsAssumption DEF PromptInv, TypeOK
  <1>3. \A r \in Requests : ~UnderWay(r)
    BY <1>1 DEF PromptInv, RequestOk, PromptOf
  <1>4. Confirming = {} /\ Confirming' = {}
    BY <1>1, <1>3 DEF UnderWay, Confirming
  <1>5. ~paused
    BY <1>4 DEF PromptInv, DeadlinePaused
  <1>6. budget' \in 0..Budget /\ paused' = FALSE
    <2>1. CASE aborted
      BY <1>5, <2>1 DEF StartPrompt, clockVars, PromptInv, TypeOK
    <2>2. CASE ~aborted
      BY <1>4, <2>2, LimitsAssumption DEF StartPrompt
    <2> QED
      BY <2>1, <2>2
  <1>7. TypeOK'
    <2>1. stop' \in [reason : Stops \cup {"none"}, late : BOOLEAN]
      BY <1>1
    <2>2. updates' \in 0..MaxUpdates /\ count' \in 0..(MaxPermissions + 1)
      BY <1>1, LimitsAssumption
    <2>3. outcome' \in [1..Prompts -> Outcomes] /\ sent' \in 0..Prompts
      BY <1>1, <1>2 DEF Outcomes
    <2> QED
      BY <1>1, <1>6, <2>1, <2>2, <2>3 DEF PromptInv, TypeOK, Phases
  <1>8. WindowHolds'
    BY <1>1 DEF WindowHolds
  <1>9. \A p \in 1..Prompts : p # sent + 1 => outcome'[p] = outcome[p]
    BY <1>1, <1>2
  <1>10. outcome[sent + 1] = "none"
    BY <1>2 DEF PromptInv, OutcomeHolds
  <1>11. OutcomeHolds'
    <2>1. \A p \in 1..Prompts : p > sent' => outcome'[p] = "none"
      BY <1>1, <1>2, <1>9 DEF PromptInv, OutcomeHolds
    <2>2. pc' # "none" => sent' > 0 /\ outcome'[sent'] = "none"
      BY <1>1, <1>2, <1>10
    <2> QED
      BY <2>1, <2>2 DEF OutcomeHolds
  <1>12. ASSUME NEW r \in Requests PROVE RequestOk(r)'
    <2>1. RequestOk(r) /\ ~UnderWay(r) /\ req[r].prompt \in 0..Prompts
      BY <1>3 DEF PromptInv, TypeOK
    <2>2. req[r].prompt # sent + 1 /\ req[r].prompt <= sent
      BY <1>2, <2>1 DEF RequestOk, PromptOf
    <2>3. PromptOf(r)'
      BY <1>1, <1>2, <2>1, <2>2 DEF PromptOf, UnderWay
    <2>4. VerdictOf(r)' /\ AllowedOf(r)'
      BY <1>1, <2>1 DEF RequestOk, VerdictOf, AllowedOf, UnderWay, Last
    <2>5. MatchOf(r)'
      <3> SUFFICES ASSUME req[r].at = "answered", req[r].prompt > 0, trail[r] # <<>>,
                          Last(trail[r]) # req[r].told
                   PROVE  outcome'[req[r].prompt] = "failed"
        BY <1>1 DEF MatchOf, Last
      <3>1. outcome[req[r].prompt] = "failed"
        BY <1>1, <2>1 DEF RequestOk, MatchOf
      <3>2. req[r].prompt \in 1..Prompts
        BY <2>1, LimitsAssumption
      <3> QED
        BY <1>9, <2>2, <3>1, <3>2
    <2> QED
      BY <2>3, <2>4, <2>5 DEF RequestOk
  <1>13. DeadlinePaused'
    BY <1>4, <1>6 DEF DeadlinePaused
  <1>14. CancelledNeverSucceeds'
    BY <1>1 DEF CancelledNeverSucceeds
  <1> QED
    BY <1>7, <1>8, <1>11, <1>12, <1>13, <1>14 DEF PromptInv

LEMMA AbortInv ==
  ASSUME PromptInv, Abort
  PROVE  PromptInv'
  <1>1. pc # "none" /\ cancelled' = TRUE /\ window' = FALSE
        /\ UNCHANGED <<alive, broken, pc, sent, stop, updates, outcome, budget, paused, count,
                       req, trail>>
    BY DEF Abort, sessionVars, clockVars, requestVars
  <1>2. TypeOK' /\ WindowHolds' /\ DeadlinePaused'
    BY <1>1 DEF PromptInv, TypeOK, WindowHolds, DeadlinePaused, Confirming
  <1> QED
    BY <1>1, <1>2, GoesOn

LEMMA UpdateInv ==
  ASSUME PromptInv, Update
  PROVE  PromptInv'
  <1>1. pc = "running"
    BY DEF Update, UpdateUpTo
  <1>2. CASE Ends("failed")
    BY <1>1, <1>2, EndsInv DEF Outcomes
  <1>3. CASE ~Ends("failed")
    <2>1. updates < MaxUpdates /\ updates' = updates + 1
          /\ UNCHANGED <<alive, broken, pc, sent, window, cancelled, stop, outcome, budget, paused,
                         count, req, trail>>
      BY <1>3 DEF Update, UpdateUpTo, sessionVars, clockVars, requestVars
    <2>2. updates' \in 0..MaxUpdates
      BY <2>1, LimitsAssumption DEF PromptInv, TypeOK
    <2>3. TypeOK'
      BY <2>1, <2>2 DEF PromptInv, TypeOK
    <2>4. WindowHolds' /\ DeadlinePaused'
      BY <2>1 DEF PromptInv, WindowHolds, DeadlinePaused, Confirming
    <2> QED
      BY <1>1, <2>1, <2>3, <2>4, GoesOn
  <1> QED
    BY <1>2, <1>3

\* The clock runs only while nobody is being asked.
LEMMA TickInv ==
  ASSUME PromptInv, Tick
  PROVE  PromptInv'
  <1>1. pc = "running" /\ ~paused /\ budget > 0 /\ budget' = budget - 1
        /\ UNCHANGED <<alive, broken, pc, sent, window, cancelled, stop, updates, outcome, paused,
                       count, req, trail>>
    BY DEF Tick, sessionVars, promptVars, requestVars
  <1>2. budget \in 0..Budget /\ Confirming = {}
    BY <1>1, LimitsAssumption DEF PromptInv, TypeOK, DeadlinePaused
  <1>3. budget' \in 0..Budget
    BY <1>1, <1>2, LimitsAssumption
  <1>4. TypeOK'
    BY <1>1, <1>3 DEF PromptInv, TypeOK
  <1>5. WindowHolds' /\ DeadlinePaused'
    BY <1>1, <1>2 DEF PromptInv, WindowHolds, DeadlinePaused, Confirming
  <1> QED
    BY <1>1, <1>4, <1>5, GoesOn

LEMMA TerminalInv ==
  ASSUME PromptInv, NEW reason \in Stops, Terminal(reason)
  PROVE  PromptInv'
  <1>1. pc = "running" /\ pc' = "settling" /\ window' = FALSE
        /\ stop' = [reason |-> reason, late |-> cancelled]
        /\ UNCHANGED <<alive, broken, sent, cancelled, updates, outcome, budget, paused, count,
                       req, trail>>
    BY DEF Terminal, TerminalAs, sessionVars, clockVars, requestVars
  <1>2. TypeOK'
    <2>1. stop' \in [reason : Stops \cup {"none"}, late : BOOLEAN]
      BY <1>1 DEF PromptInv, TypeOK
    <2> QED
      BY <1>1, <2>1 DEF PromptInv, TypeOK, Phases
  <1>3. WindowHolds' /\ DeadlinePaused'
    BY <1>1 DEF PromptInv, WindowHolds, DeadlinePaused, Confirming
  <1> QED
    BY <1>1, <1>2, <1>3, GoesOn

LEMMA SettledInv ==
  ASSUME PromptInv, Settled
  PROVE  PromptInv'
  <1>1. pc = "settling" /\ Open = {}
    BY DEF Settled
  <1>2. CASE broken
    <2>1. Ends("failed")
      BY <1>2 DEF Settled
    <2> QED
      BY <1>1, <2>1, EndsInv DEF Outcomes
  <1>3. CASE ~broken
    <2>1. pc' = "acknowledging"
          /\ UNCHANGED <<alive, broken, sent, window, cancelled, stop, updates, outcome, budget,
                         paused, count, req, trail>>
      BY <1>3 DEF Settled, sessionVars, clockVars, requestVars
    <2>2. TypeOK'
      BY <2>1 DEF PromptInv, TypeOK, Phases
    <2>3. WindowHolds' /\ DeadlinePaused'
      BY <1>1, <2>1 DEF PromptInv, WindowHolds, DeadlinePaused, Confirming
    <2> QED
      BY <1>1, <1>3, <2>1, <2>2, <2>3, GoesOn
  <1> QED
    BY <1>2, <1>3

LEMMA ReturnInv ==
  ASSUME PromptInv, Return
  PROVE  PromptInv'
  <1>1. pc = "acknowledging"
    BY DEF Return
  <1>2. CASE Ends("failed")
    BY <1>1, <1>2, EndsInv DEF Outcomes
  <1>3. CASE Ends("aborted")
    BY <1>1, <1>3, EndsInv DEF Outcomes
  <1>4. CASE ~stop.late /\ Ends(Normalized(stop.reason))
    <2>1. stop.reason \in Stops
      BY <1>1 DEF PromptInv, WindowHolds
    <2>2. Normalized(stop.reason) \in Outcomes
      BY <2>1, Zenon DEF Normalized, Stops, Outcomes
    <2> QED
      BY <1>1, <1>4, <2>2, EndsInv
  <1> QED
    BY <1>2, <1>3, <1>4 DEF Return, Concluded

LEMMA ProtocolErrorInv ==
  ASSUME PromptInv, ProtocolError \/ AgentExits
  PROVE  PromptInv'
  <1>1. broken' \in BOOLEAN /\ (broken => broken') /\ alive' = FALSE
        /\ UNCHANGED <<pc, sent, window, cancelled, stop, updates, outcome, budget, paused, count,
                       req, trail>>
    BY DEF ProtocolError, AgentExits, promptVars, clockVars, requestVars, PromptInv, TypeOK
  <1>2. TypeOK' /\ WindowHolds' /\ OutcomeHolds' /\ DeadlinePaused' /\ CancelledNeverSucceeds'
    BY <1>1 DEF PromptInv, TypeOK, WindowHolds, OutcomeHolds, DeadlinePaused, Confirming,
                CancelledNeverSucceeds
  <1>3. ASSUME NEW r \in Requests PROVE RequestOk(r)'
    <2>1. RequestOk(r)
      BY DEF PromptInv
    <2> QED
      BY <1>1, <2>1 DEF RequestOk, PromptOf, VerdictOf, MatchOf, AllowedOf, UnderWay, Last
  <1> QED
    BY <1>2, <1>3 DEF PromptInv

-----------------------------------------------------------------------------
(* The steps of a request's handler.                                       *)

Request == [at : Steps, prompt : 0..Prompts, decision : Decisions,
            told : Decisions \cup {"none", "error"}, kept : BOOLEAN]

LEMMA RequestTypes ==
  ASSUME PromptInv
  PROVE  /\ req \in [Requests -> Request] /\ trail \in [Requests -> Seq(Decisions)]
         /\ sent \in 0..Prompts /\ Prompts \in Nat
         /\ (pc # "none" => sent > 0)
  BY LimitsAssumption DEF PromptInv, TypeOK, Request, OutcomeHolds

\* The types after a step of one handler.
LEMMA HandlerTypes ==
  ASSUME PromptInv, UNCHANGED <<promptVars, alive, budget>>, req' \in [Requests -> Request],
         trail' \in [Requests -> Seq(Decisions)], broken' \in BOOLEAN, paused' \in BOOLEAN,
         count' \in Nat
  PROVE  TypeOK'
  BY DEF PromptInv, TypeOK, promptVars, Request

\* A confirmation that ends lets the clock run when it was the last.
LEMMA ConfirmationEnds ==
  ASSUME PromptInv, NEW r \in Requests, req[r].at = "confirming", req'[r].at # "confirming",
         \A q \in Requests \ {r} : req'[q] = req[q],
         ResumeAfter(Confirming \ {r}), UNCHANGED <<pc, budget>>
  PROVE  DeadlinePaused' /\ paused' \in BOOLEAN
  <1>1. Confirming' = Confirming \ {r}
    BY DEF Confirming
  <1>2. paused' = (paused /\ Confirming \ {r} # {})
    BY DEF ResumeAfter
  <1>3. r \in Confirming
    BY DEF Confirming
  <1> QED
    BY <1>1, <1>2, <1>3 DEF PromptInv, DeadlinePaused

LEMMA ConfirmationStays ==
  ASSUME PromptInv, NEW r \in Requests, req[r].at # "confirming", req'[r].at # "confirming",
         \A q \in Requests \ {r} : req'[q] = req[q], UNCHANGED <<pc, budget, paused>>
  PROVE  DeadlinePaused' /\ paused' \in BOOLEAN
  <1>1. Confirming' = Confirming
    BY DEF Confirming
  <1> QED
    BY <1>1 DEF PromptInv, TypeOK, DeadlinePaused

\* A handler goes on to write a verdict.
LEMMA Decides ==
  ASSUME PromptInv, NEW r \in Requests, NEW a \in Steps, NEW d \in Decisions, NEW k \in BOOLEAN,
         req' = [req EXCEPT ![r].at = a, ![r].decision = d, ![r].kept = k]
  PROVE  /\ req' \in [Requests -> Request]
         /\ \A q \in Requests \ {r} : req'[q] = req[q]
         /\ req'[r].at = a /\ req'[r].decision = d /\ req'[r].kept = k
         /\ req'[r].prompt = req[r].prompt /\ req'[r].told = req[r].told
  <1>1. req[r] \in Request /\ req \in [Requests -> Request]
    BY RequestTypes
  <1>2. [req[r] EXCEPT !.at = a, !.decision = d, !.kept = k] \in Request
    BY <1>1 DEF Request
  <1>3. req' = [req EXCEPT ![r] = [req[r] EXCEPT !.at = a, !.decision = d, !.kept = k]]
    BY <1>1
  <1> QED
    BY <1>1, <1>2, <1>3 DEF Request

\* A handler goes on to write a cancel.
LEMMA Revokes ==
  ASSUME PromptInv, NEW r \in Requests, Revoke(r)
  PROVE  /\ req' \in [Requests -> Request]
         /\ \A q \in Requests \ {r} : req'[q] = req[q]
         /\ req'[r].at = "revoking" /\ req'[r].kept = (pc # "none")
         /\ req'[r].prompt = req[r].prompt /\ req'[r].told = req[r].told
  <1> DEFINE k == pc # "none"
  <1>1. "revoking" \in Steps /\ "cancel" \in Decisions /\ k \in BOOLEAN
    BY DEF Steps, Decisions
  <1>2. req' = [req EXCEPT ![r].at = "revoking", ![r].decision = "cancel", ![r].kept = k]
    BY DEF Revoke
  <1>3. k = (pc # "none")
    OBVIOUS
  <1> HIDE DEF k
  <1>4. /\ req' \in [Requests -> Request] /\ \A q \in Requests \ {r} : req'[q] = req[q]
        /\ req'[r].at = "revoking" /\ req'[r].kept = k
        /\ req'[r].prompt = req[r].prompt /\ req'[r].told = req[r].told
    BY <1>1, <1>2, Decides
  <1> QED
    BY <1>3, <1>4

\* A handler answers the agent.
LEMMA Answers ==
  ASSUME PromptInv, NEW r \in Requests, NEW w \in Decisions \cup {"none", "error"}, Told(r, w)
  PROVE  /\ req' \in [Requests -> Request]
         /\ \A q \in Requests \ {r} : req'[q] = req[q]
         /\ req'[r].at = "answered" /\ req'[r].told = w /\ req'[r].prompt = req[r].prompt
  <1>1. req[r] \in Request /\ req \in [Requests -> Request]
    BY RequestTypes
  <1>2. [req[r] EXCEPT !.at = "answered", !.told = w] \in Request
    BY <1>1 DEF Request, Steps
  <1>3. req' = [req EXCEPT ![r] = [req[r] EXCEPT !.at = "answered", !.told = w]]
    BY <1>1 DEF Told
  <1> QED
    BY <1>1, <1>2, <1>3 DEF Request

\* A verdict is written under the prompt the handler holds.
LEMMA Journals ==
  ASSUME PromptInv, NEW r \in Requests, NEW d \in Decisions, Journal(r, d)
  PROVE  /\ trail' \in [Requests -> Seq(Decisions)]
         /\ \A q \in Requests \ {r} : trail'[q] = trail[q]
         /\ req[r].kept => trail'[r] # <<>> /\ Last(trail'[r]) = d
         /\ ~req[r].kept => trail' = trail
  <1>1. trail \in [Requests -> Seq(Decisions)] /\ trail[r] \in Seq(Decisions)
    BY RequestTypes
  <1>2. CASE ~req[r].kept
    BY <1>1, <1>2 DEF Journal
  <1>3. CASE req[r].kept
    <2>1. trail' = [trail EXCEPT ![r] = Append(trail[r], d)]
      BY <1>3 DEF Journal
    <2>2. Append(trail[r], d) \in Seq(Decisions)
      BY <1>1
    <2>3. Len(Append(trail[r], d)) = Len(trail[r]) + 1 /\ Len(trail[r]) \in Nat
      BY <1>1
    <2>4. Append(trail[r], d)[Len(trail[r]) + 1] = d
      BY <1>1
    <2>5. Append(trail[r], d) # <<>>
      BY <2>3
    <2>6. trail'[r] = Append(trail[r], d)
      BY <1>1, <2>1
    <2>7. Last(trail'[r]) = d
      BY <2>3, <2>4, <2>6 DEF Last
    <2>8. trail' \in [Requests -> Seq(Decisions)]
      BY <1>1, <2>1, <2>2
    <2>9. \A q \in Requests \ {r} : trail'[q] = trail[q]
      BY <1>1, <2>1
    <2> QED
      BY <1>3, <2>5, <2>6, <2>7, <2>8, <2>9
  <1> QED
    BY <1>2, <1>3
LEMMA SelectsInv ==
  ASSUME PromptInv, NEW r \in Requests, NEW d \in Decisions, Selects(r, d)
  PROVE  PromptInv'
  <1> DEFINE a == IF cancelled THEN "revoking" ELSE "recording"
             v == IF cancelled THEN "cancel" ELSE d
             k == pc # "none"
  <1>0. a \in Steps /\ v \in Decisions /\ k \in BOOLEAN /\ a \in {"revoking", "recording"}
    BY DEF Steps, Decisions
  <1>1. /\ req[r].at = "confirming" /\ RequestOk(r)
        /\ req' = [req EXCEPT ![r].at = a, ![r].decision = v, ![r].kept = k]
        /\ ResumeAfter(Confirming \ {r})
        /\ UNCHANGED <<promptVars, alive, broken, budget, count, trail>>
    BY DEF Selects, sessionVars, PromptInv
  <1> HIDE DEF a, v, k
  <1>2. /\ req' \in [Requests -> Request] /\ \A q \in Requests \ {r} : req'[q] = req[q]
        /\ req'[r].at = a /\ req'[r].kept = k
        /\ req'[r].prompt = req[r].prompt /\ req'[r].told = req[r].told
    BY <1>0, <1>1, Decides
  <1>3. req'[r].at # "confirming" /\ UNCHANGED <<pc, budget>>
    BY <1>0, <1>1, <1>2 DEF promptVars
  <1>4. DeadlinePaused' /\ paused' \in BOOLEAN
    BY <1>1, <1>2, <1>3, ConfirmationEnds
  <1>5. TypeOK'
    BY <1>1, <1>2, <1>4, HandlerTypes, RequestTypes DEF PromptInv, TypeOK
  <1>6. RequestOk(r)'
    BY <1>0, <1>1, <1>2 DEF RequestOk, PromptOf, VerdictOf, MatchOf, AllowedOf, UnderWay,
                            promptVars, a, k
  <1> QED
    BY <1>1, <1>2, <1>4, <1>5, <1>6, OneRequest

\* A handler gives up its confirmation or its verdict and writes a cancel.
LEMMA RevokeInv ==
  ASSUME PromptInv, NEW r \in Requests, Revoke(r), req[r].at \in {"confirming", "recording"},
         UNCHANGED <<promptVars, alive, broken, budget, count>>,
         DeadlinePaused', paused' \in BOOLEAN, trail' \in [Requests -> Seq(Decisions)],
         \A q \in Requests \ {r} : trail'[q] = trail[q]
  PROVE  PromptInv'
  <1>1. RequestOk(r)
    BY DEF PromptInv
  <1>2. /\ req' \in [Requests -> Request] /\ \A q \in Requests \ {r} : req'[q] = req[q]
        /\ req'[r].at = "revoking" /\ req'[r].kept = (pc # "none")
        /\ req'[r].prompt = req[r].prompt /\ req'[r].told = req[r].told
    BY Revokes
  <1>3. TypeOK'
    BY <1>2, HandlerTypes DEF PromptInv, TypeOK
  <1>4. RequestOk(r)'
    BY <1>1, <1>2 DEF RequestOk, PromptOf, VerdictOf, MatchOf, AllowedOf, UnderWay, promptVars
  <1> QED
    BY <1>2, <1>3, <1>4, OneRequest

\* Where the clock is and what a confirmation that is revoked does to it.
LEMMA RevokedAt ==
  ASSUME PromptInv, NEW r \in Requests, Revoke(r)
  PROVE  req'[r].at = "revoking" /\ \A q \in Requests \ {r} : req'[q] = req[q]
  BY Revokes

LEMMA WithdrawnInv ==
  ASSUME PromptInv, NEW r \in Requests, Withdrawn(r)
  PROVE  PromptInv'
  <1>1. /\ req[r].at = "confirming" /\ Revoke(r) /\ ResumeAfter(Confirming \ {r})
        /\ UNCHANGED <<promptVars, alive, broken, budget, count, trail>>
    BY DEF Withdrawn, sessionVars
  <1>2. req'[r].at = "revoking" /\ \A q \in Requests \ {r} : req'[q] = req[q]
    BY <1>1, RevokedAt
  <1>3. req'[r].at # "confirming" /\ UNCHANGED <<pc, budget>>
    BY <1>1, <1>2 DEF promptVars
  <1>4. DeadlinePaused' /\ paused' \in BOOLEAN
    BY <1>1, <1>2, <1>3, ConfirmationEnds
  <1> QED
    BY <1>1, <1>4, RevokeInv, RequestTypes

\* A handler answers the agent with a refusal or an error, which may break the
\* session; anything else it says is what the journal holds.
LEMMA AnswerInv ==
  ASSUME PromptInv, NEW r \in Requests, NEW w \in Decisions \cup {"error"}, Told(r, w),
         UNCHANGED <<promptVars, alive, budget, count>>, broken => broken', broken' \in BOOLEAN,
         DeadlinePaused', paused' \in BOOLEAN, trail' \in [Requests -> Seq(Decisions)],
         \A q \in Requests \ {r} : trail'[q] = trail[q],
         \/ trail'[r] # <<>> /\ Last(trail'[r]) = w
         \/ w # "approve" /\ trail'[r] = <<>>
         \/ w # "approve" /\ req[r].prompt > 0 /\ outcome[req[r].prompt] = "failed"
         \/ w # "approve" /\ req[r].prompt = sent /\ pc \in {"running", "settling"} /\ broken'
  PROVE  PromptInv'
  <1>1. RequestOk(r)
    BY DEF PromptInv
  <1>2. /\ req' \in [Requests -> Request] /\ \A q \in Requests \ {r} : req'[q] = req[q]
        /\ req'[r].at = "answered" /\ req'[r].told = w /\ req'[r].prompt = req[r].prompt
    BY Answers
  <1>3. TypeOK'
    BY <1>2, HandlerTypes DEF PromptInv, TypeOK
  <1>4. PromptOf(r)' /\ VerdictOf(r)'
    BY <1>1, <1>2 DEF RequestOk, PromptOf, VerdictOf, UnderWay, promptVars
  <1>5. MatchOf(r)' /\ AllowedOf(r)'
    BY <1>1, <1>2 DEF MatchOf, AllowedOf, promptVars, Last
  <1> QED
    BY <1>2, <1>3, <1>4, <1>5, OneRequest DEF RequestOk

LEMMA ConfirmFailsInv ==
  ASSUME PromptInv, NEW r \in Requests, ConfirmFails(r)
  PROVE  PromptInv'
  <1>1. /\ req[r].at = "confirming" /\ Told(r, "error") /\ broken' = TRUE
        /\ ResumeAfter(Confirming \ {r})
        /\ UNCHANGED <<promptVars, alive, budget, count, trail>>
    BY DEF ConfirmFails
  <1>2. req'[r].at # "confirming" /\ \A q \in Requests \ {r} : req'[q] = req[q]
    BY <1>1, Answers
  <1>3. UNCHANGED <<pc, budget>>
    BY <1>1 DEF promptVars
  <1>4. DeadlinePaused' /\ paused' \in BOOLEAN
    BY <1>1, <1>2, <1>3, ConfirmationEnds
  <1>5. trail'[r] = <<>> /\ trail' \in [Requests -> Seq(Decisions)]
    BY <1>1, RequestTypes DEF PromptInv, RequestOk, VerdictOf
  <1> QED
    BY <1>1, <1>4, <1>5, AnswerInv

\* The clock does not move when no confirmation starts or ends.
LEMMA ClockStays ==
  ASSUME PromptInv, NEW r \in Requests, req[r].at # "confirming", req'[r].at # "confirming",
         \A q \in Requests \ {r} : req'[q] = req[q], UNCHANGED <<promptVars, clockVars>>
  PROVE  DeadlinePaused' /\ paused' \in BOOLEAN /\ UNCHANGED budget
  BY ConfirmationStays DEF promptVars, clockVars
LEMMA RecordedInv ==
  ASSUME PromptInv, NEW r \in Requests, Recorded(r)
  PROVE  PromptInv'
  <1> DEFINE d == req[r].decision
  <1>1. /\ req[r].at = "recording" /\ Journal(r, d) /\ d \in Decisions /\ RequestOk(r)
        /\ UNCHANGED <<promptVars, clockVars, alive, broken, count>>
        /\ window => Told(r, d)
        /\ ~window => Revoke(r)
    BY RequestTypes DEF Recorded, RecordedAs, Request, sessionVars, PromptInv
  <1> HIDE DEF d
  <1>2. /\ trail' \in [Requests -> Seq(Decisions)]
        /\ \A q \in Requests \ {r} : trail'[q] = trail[q]
        /\ req[r].kept => trail'[r] # <<>> /\ Last(trail'[r]) = d
    BY <1>1, Journals
  <1>3. req'[r].at # "confirming" /\ \A q \in Requests \ {r} : req'[q] = req[q]
    BY <1>1, Answers, RevokedAt
  <1>4. DeadlinePaused' /\ paused' \in BOOLEAN /\ UNCHANGED budget
    BY <1>1, <1>3, ClockStays
  <1>5. CASE window
    <2>1. req[r].kept
      BY <1>1, <1>5 DEF RequestOk, VerdictOf, PromptInv, WindowHolds
    <2>2. broken' \in BOOLEAN
      BY <1>1 DEF PromptInv, TypeOK
    <2> QED
      BY <1>1, <1>2, <1>4, <1>5, <2>1, <2>2, AnswerInv
  <1>6. CASE ~window
    BY <1>1, <1>2, <1>4, <1>6, RevokeInv
  <1> QED
    BY <1>5, <1>6

LEMMA UnrecordedInv ==
  ASSUME PromptInv, NEW r \in Requests, Unrecorded(r)
  PROVE  PromptInv'
  <1>1. /\ req[r].at = "recording" /\ RequestOk(r)
        /\ UNCHANGED <<promptVars, clockVars, alive, count, trail>>
        /\ window => Told(r, "error") /\ broken' = TRUE
        /\ ~window => Revoke(r) /\ UNCHANGED broken
    BY DEF Unrecorded, UnrecordedAs, PromptInv
  <1>2. trail' \in [Requests -> Seq(Decisions)] /\ trail'[r] = <<>>
    BY <1>1, RequestTypes DEF RequestOk, VerdictOf
  <1>3. req'[r].at # "confirming" /\ \A q \in Requests \ {r} : req'[q] = req[q]
    BY <1>1, Answers, RevokedAt
  <1>4. DeadlinePaused' /\ paused' \in BOOLEAN /\ UNCHANGED budget
    BY <1>1, <1>3, ClockStays
  <1>5. CASE window
    BY <1>1, <1>2, <1>4, <1>5, AnswerInv
  <1>6. CASE ~window
    BY <1>1, <1>2, <1>4, <1>6, RevokeInv
  <1> QED
    BY <1>5, <1>6

LEMMA RevokedInv ==
  ASSUME PromptInv, NEW r \in Requests, Revoked(r)
  PROVE  PromptInv'
  <1>1. /\ req[r].at = "revoking" /\ RequestOk(r)
        /\ UNCHANGED <<promptVars, clockVars, alive, count>>
    BY DEF Revoked, PromptInv
  <1>2. \/ Journal(r, "cancel") /\ Told(r, "cancel") /\ UNCHANGED broken
        \/ Told(r, "error") /\ broken' = TRUE /\ UNCHANGED trail
    BY DEF Revoked
  <1>3. "cancel" \in Decisions
    BY DEF Decisions
  <1>4. req'[r].at # "confirming" /\ \A q \in Requests \ {r} : req'[q] = req[q]
    BY <1>2, <1>3, Answers
  <1>5. DeadlinePaused' /\ paused' \in BOOLEAN /\ UNCHANGED budget
    BY <1>1, <1>4, ClockStays
  <1>6. /\ req[r].prompt > 0
        /\ \/ outcome[req[r].prompt] = "failed"
           \/ req[r].prompt = sent /\ pc \in {"running", "settling"}
    BY <1>1 DEF RequestOk, PromptOf, UnderWay, PromptInv, TypeOK, Phases
  <1>7. broken' \in BOOLEAN
    BY <1>2 DEF PromptInv, TypeOK
  <1>8. CASE Journal(r, "cancel") /\ Told(r, "cancel") /\ UNCHANGED broken
    <2>1. /\ trail' \in [Requests -> Seq(Decisions)]
          /\ \A q \in Requests \ {r} : trail'[q] = trail[q]
          /\ req[r].kept => trail'[r] # <<>> /\ Last(trail'[r]) = "cancel"
      BY <1>3, <1>8, Journals
    <2>2. ~req[r].kept => outcome[req[r].prompt] = "failed"
      BY <1>1, <1>6 DEF RequestOk, VerdictOf
    <2> QED
      BY <1>1, <1>3, <1>5, <1>6, <1>7, <1>8, <2>1, <2>2, AnswerInv
  <1>9. CASE Told(r, "error") /\ broken' = TRUE /\ UNCHANGED trail
    BY <1>1, <1>5, <1>6, <1>9, AnswerInv, RequestTypes
  <1> QED
    BY <1>2, <1>8, <1>9

-----------------------------------------------------------------------------
(* A request arrives.                                                      *)

\* The record of a request taken up under the prompt.
LEMMA TakenUp ==
  ASSUME PromptInv, NEW r \in Requests, NEW v \in Request, req' = [req EXCEPT ![r] = v]
  PROVE  /\ req' \in [Requests -> Request] /\ req'[r] = v
         /\ \A q \in Requests \ {r} : req'[q] = req[q]
  BY RequestTypes

\* The clock stands still when the first confirmation starts.
LEMMA ConfirmationStarts ==
  ASSUME PromptInv, NEW r \in Requests, req[r].at = "none", req'[r].at = "confirming",
         \A q \in Requests \ {r} : req'[q] = req[q], PauseFor(Confirming),
         UNCHANGED <<pc, budget>>, pc = "running"
  PROVE  DeadlinePaused' /\ paused' \in BOOLEAN
  <1>1. Confirming' = Confirming \cup {r}
    BY DEF Confirming
  <1>2. paused' = (paused \/ (Confirming = {} /\ budget > 0))
    BY DEF PauseFor
  <1>3. budget \in Nat /\ paused \in BOOLEAN
    BY LimitsAssumption DEF PromptInv, TypeOK
  <1>4. budget > 0 \/ budget = 0
    BY <1>3
  <1> QED
    BY <1>1, <1>2, <1>3, <1>4 DEF PromptInv, DeadlinePaused
LEMMA AskInv ==
  ASSUME PromptInv, NEW r \in Requests, Ask(r)
  PROVE  PromptInv'
  <1>1. /\ req[r].at = "none" /\ alive /\ RequestOk(r)
        /\ UNCHANGED <<alive, promptVars, budget, trail>>
    BY DEF Ask, PromptInv
  <1>2. trail' \in [Requests -> Seq(Decisions)] /\ trail'[r] = <<>> /\ count \in Nat
    BY <1>1, RequestTypes DEF RequestOk, VerdictOf, PromptInv, TypeOK
  <1>3. UNCHANGED <<pc, budget>> /\ broken \in BOOLEAN
    BY <1>1 DEF promptVars, PromptInv, TypeOK
  <1>4. window => pc = "running" /\ sent \in 0..Prompts /\ sent > 0 /\ outcome[sent] = "none"
    BY RequestTypes DEF PromptInv, WindowHolds, OutcomeHolds
  <1>5. CASE ~window /\ Told(r, "cancel") /\ UNCHANGED <<broken, count, paused>>
    <2>1. "cancel" \in Decisions
      BY DEF Decisions
    <2>2. req'[r].at # "confirming" /\ \A q \in Requests \ {r} : req'[q] = req[q]
      BY <1>5, <2>1, Answers
    <2>3. DeadlinePaused' /\ paused' \in BOOLEAN
      BY <1>1, <1>3, <1>5, <2>2, ConfirmationStays
    <2> QED
      BY <1>1, <1>2, <1>3, <1>5, <2>1, <2>3, AnswerInv
  <1>6. CASE /\ window
             /\ req' = [req EXCEPT ![r] = [Fresh EXCEPT !.at = "answered",
                                           !.prompt = sent, !.told = "cancel"]]
             /\ count' \in {count, count + 1} /\ broken' = TRUE /\ UNCHANGED paused
    <2> DEFINE v == [Fresh EXCEPT !.at = "answered", !.prompt = sent, !.told = "cancel"]
    <2>1. v \in Request /\ v.at = "answered" /\ v.prompt = sent /\ v.told = "cancel"
      BY <1>4, <1>6 DEF Request, Fresh, Steps, Decisions
    <2> HIDE DEF v
    <2>2. /\ req' \in [Requests -> Request] /\ req'[r] = v
          /\ \A q \in Requests \ {r} : req'[q] = req[q]
      BY <1>6, <2>1, TakenUp DEF v
    <2>3. req'[r].at # "confirming"
      BY <2>1, <2>2
    <2>4. DeadlinePaused' /\ paused' \in BOOLEAN
      BY <1>1, <1>3, <1>6, <2>2, <2>3, ConfirmationStays
    <2>5. TypeOK'
      BY <1>1, <1>2, <1>6, <2>2, <2>4, HandlerTypes
    <2>6. RequestOk(r)'
      BY <1>1, <1>2, <1>4, <1>6, <2>1, <2>2
      DEF RequestOk, PromptOf, VerdictOf, MatchOf, AllowedOf, UnderWay, promptVars
    <2> QED
      BY <1>1, <1>6, <2>2, <2>4, <2>5, <2>6, OneRequest
  <1>7. CASE /\ window /\ count' = count + 1
             /\ req' = [req EXCEPT ![r] = [Fresh EXCEPT !.prompt = sent,
                          !.at = IF Asked THEN "confirming" ELSE "recording",
                          !.decision = "deny", !.kept = TRUE]]
             /\ UNCHANGED broken
             /\ IF Asked THEN PauseFor(Confirming) ELSE UNCHANGED paused
    <2> DEFINE a == IF Asked THEN "confirming" ELSE "recording"
               v == [Fresh EXCEPT !.prompt = sent, !.at = a, !.decision = "deny", !.kept = TRUE]
    <2>0. a \in {"confirming", "recording"}
      OBVIOUS
    <2>1. v \in Request /\ v.at = a /\ v.prompt = sent /\ v.told = "none" /\ v.kept = TRUE
      BY <1>4, <1>7, <2>0 DEF Request, Fresh, Steps, Decisions
    <2> HIDE DEF v
    <2>2. /\ req' \in [Requests -> Request] /\ req'[r] = v
          /\ \A q \in Requests \ {r} : req'[q] = req[q]
      BY <1>7, <2>1, TakenUp DEF v
    <2>3. DeadlinePaused' /\ paused' \in BOOLEAN
      <3>1. CASE Asked
        BY <1>1, <1>3, <1>4, <1>7, <2>1, <2>2, <3>1, ConfirmationStarts
      <3>2. CASE ~Asked
        <4>1. req'[r].at # "confirming" /\ UNCHANGED paused
          BY <1>7, <2>1, <2>2, <3>2
        <4> QED
          BY <1>1, <1>3, <2>2, <4>1, ConfirmationStays
      <3> QED
        BY <3>1, <3>2
    <2> HIDE DEF a
    <2>4. TypeOK'
      BY <1>1, <1>2, <1>3, <1>7, <2>2, <2>3, HandlerTypes
    <2>5. RequestOk(r)'
      <3>1. /\ req'[r].at \in {"confirming", "recording"} /\ req'[r].prompt = sent
            /\ req'[r].told = "none" /\ req'[r].kept = TRUE
        BY <2>0, <2>1, <2>2
      <3>2. pc' = "running" /\ sent' = sent /\ sent > 0
        BY <1>1, <1>4, <1>7 DEF promptVars
      <3>3. PromptOf(r)'
        BY <1>4, <1>7, <3>1, <3>2 DEF PromptOf, UnderWay
      <3>4. VerdictOf(r)'
        BY <1>2, <3>1 DEF VerdictOf
      <3>5. MatchOf(r)' /\ AllowedOf(r)'
        BY <3>1 DEF MatchOf, AllowedOf
      <3> QED
        BY <3>3, <3>4, <3>5 DEF RequestOk
    <2> QED
      BY <1>1, <1>7, <2>2, <2>3, <2>4, <2>5, OneRequest
  <1> QED
    BY <1>5, <1>6, <1>7 DEF Ask

-----------------------------------------------------------------------------
(* The theorems.                                                           *)

LEMMA PromptInit == Init => PromptInv
  <1> SUFFICES ASSUME Init PROVE PromptInv
    OBVIOUS
  <1>1. Fresh \in Request /\ Fresh.prompt = 0 /\ Fresh.at = "none" /\ Fresh.told = "none"
    BY LimitsAssumption DEF Fresh, Request, Steps, Decisions
  <1>2. <<>> \in Seq(Decisions)
    OBVIOUS
  <1>3. \A r \in Requests : req[r] = Fresh /\ trail[r] = <<>>
    BY DEF Init
  <1>4. /\ req \in [Requests -> Request] /\ trail \in [Requests -> Seq(Decisions)]
        /\ outcome \in [1..Prompts -> Outcomes]
    BY <1>1, <1>2 DEF Init, Outcomes
  <1>5. TypeOK
    <2>1. stop \in [reason : Stops \cup {"none"}, late : BOOLEAN]
      BY DEF Init
    <2>2. sent \in 0..Prompts /\ updates \in 0..MaxUpdates /\ budget \in 0..Budget /\ count \in Nat
      BY LimitsAssumption DEF Init
    <2>3. /\ alive \in BOOLEAN /\ broken \in BOOLEAN /\ window \in BOOLEAN /\ cancelled \in BOOLEAN
          /\ paused \in BOOLEAN /\ pc \in Phases
      BY DEF Init, Phases
    <2> QED
      BY <1>4, <2>1, <2>2, <2>3 DEF TypeOK, Request
  <1>6. \A r \in Requests : RequestOk(r)
    BY <1>1, <1>3 DEF Init, RequestOk, PromptOf, VerdictOf, MatchOf, AllowedOf, UnderWay
  <1>7. Confirming = {}
    BY <1>1, <1>3 DEF Confirming
  <1> QED
    BY <1>5, <1>6, <1>7
    DEF Init, PromptInv, WindowHolds, OutcomeHolds, DeadlinePaused, CancelledNeverSucceeds

LEMMA PromptNext == PromptInv /\ [Next]_vars => PromptInv'
  <1> SUFFICES ASSUME PromptInv, [Next]_vars PROVE PromptInv'
    OBVIOUS
  <1>1. ASSUME NEW a \in BOOLEAN, StartPrompt(a) PROVE PromptInv'
    BY <1>1, StartPromptInv
  <1>2. CASE Abort
    BY <1>2, AbortInv
  <1>3. CASE Update
    BY <1>3, UpdateInv
  <1>4. CASE Fails
    BY <1>4, EndsInv DEF Fails, Outcomes
  <1>5. CASE Tick
    BY <1>5, TickInv
  <1>6. CASE TimesOut
    BY <1>6, EndsInv DEF TimesOut, TimesOutWhen, Outcomes
  <1>7. CASE Settled
    BY <1>7, SettledInv
  <1>8. CASE Return
    BY <1>8, ReturnInv
  <1>9. ASSUME NEW reason \in Stops, Terminal(reason) PROVE PromptInv'
    BY <1>9, TerminalInv
  <1>10. ASSUME NEW r \in Requests,
                Ask(r) \/ Withdrawn(r) \/ ConfirmFails(r) \/ Recorded(r) \/ Unrecorded(r)
                \/ Revoked(r) \/ \E d \in Decisions : Selects(r, d)
         PROVE  PromptInv'
    BY <1>10, AskInv, WithdrawnInv, ConfirmFailsInv, RecordedInv, UnrecordedInv, RevokedInv,
       SelectsInv
  <1>11. CASE ProtocolError \/ AgentExits
    BY <1>11, ProtocolErrorInv
  <1>12. CASE UNCHANGED vars
    <2>1. UNCHANGED <<alive, broken, pc, sent, window, cancelled, stop, updates, outcome, budget,
                      paused, count, req, trail>>
      BY <1>12 DEF vars, sessionVars, promptVars, clockVars, requestVars
    <2> QED
      BY <2>1 DEF PromptInv, TypeOK, WindowHolds, OutcomeHolds, RequestOk, PromptOf, VerdictOf,
                  MatchOf, AllowedOf, UnderWay, DeadlinePaused, Confirming,
                  CancelledNeverSucceeds, Last
  <1> QED
    BY <1>1, <1>2, <1>3, <1>4, <1>5, <1>6, <1>7, <1>8, <1>9, <1>10, <1>11, <1>12 DEF Next

\* The inductive invariant holds: the prompt's window is open only while it
\* runs, and each permission request agrees with its trail and its prompt.
THEOREM PromptInvariant == Spec => []PromptInv
  BY PromptInit, PromptNext, PTL DEF Spec

\* PromptHonest, for any number of prompts and permission requests: an allowed
\* request is in the journal first, a prompt that returned has nothing under
\* way and the trail its answers had, and a cancelled one is no success.
THEOREM PromptIsHonest == Spec => []PromptHonest
  BY PromptInvariant, InvHonest, PTL

\* Once the operator cancelled, no handler under way tells the agent to go on:
\* what it is told is a cancel or an error.
THEOREM NoConsent == Spec => NoConsentAfterCancel
  <1>1. PromptInv /\ [Next]_vars
        => [\A r \in Requests : req'[r].told # req[r].told /\ cancelled
                                => req'[r].told \in {"cancel", "error"}]_vars
    <2> SUFFICES ASSUME PromptInv, Next, NEW r \in Requests, req'[r].told # req[r].told, cancelled
                 PROVE  req'[r].told \in {"cancel", "error"}
      BY DEF NoConsentAfterCancel
    <2>1. ~window /\ req \in [Requests -> Request]
      BY RequestTypes DEF PromptInv, WindowHolds
    <2>2. PICK q \in Requests :
            Ask(q) \/ Withdrawn(q) \/ ConfirmFails(q) \/ Recorded(q) \/ Unrecorded(q)
            \/ Revoked(q) \/ \E d \in Decisions : Selects(q, d)
      <3>1. req' # req
        OBVIOUS
      <3> QED
        BY <3>1 DEF Next, StartPrompt, Abort, Update, UpdateUpTo, Ends, Fails, Tick, TimesOut,
             TimesOutWhen, Settled, Return, Concluded, Terminal, TerminalAs, ProtocolError,
             AgentExits, requestVars
    <2>3. CASE Told(q, "cancel") \/ Told(q, "error")
      <3>1. "cancel" \in Decisions \cup {"none", "error"}
        BY DEF Decisions
      <3>2. \A p \in Requests \ {q} : req'[p] = req[p]
        BY <2>3, <3>1, Answers
      <3>3. req'[q].told \in {"cancel", "error"}
        BY <2>3, <3>1, Answers
      <3> QED
        BY <3>2, <3>3
    <2>4. CASE Revoke(q)
      BY <2>4, Revokes
    <2>5. ASSUME NEW d \in Decisions, Selects(q, d) PROVE FALSE
      <3> DEFINE k == pc # "none"
      <3>1. "revoking" \in Steps /\ "cancel" \in Decisions /\ k \in BOOLEAN
        BY DEF Steps, Decisions
      <3>2. req' = [req EXCEPT ![q].at = "revoking", ![q].decision = "cancel", ![q].kept = k]
        BY <2>5 DEF Selects
      <3> HIDE DEF k
      <3>3. req'[q].told = req[q].told /\ \A p \in Requests \ {q} : req'[p] = req[p]
        BY <3>1, <3>2, Decides
      <3> QED
        BY <3>3
    <2> QED
      BY <2>1, <2>2, <2>3, <2>4, <2>5
      DEF Ask, Withdrawn, ConfirmFails, Recorded, RecordedAs, Unrecorded, UnrecordedAs, Revoked
  <1> QED
    BY <1>1, PromptInvariant, PTL DEF Spec, NoConsentAfterCancel

-----------------------------------------------------------------------------
(* The agent's process (AcpChild).  What a close has found out about the    *)
(* group stays true while it goes on: an empty group has no leader to fork, *)
(* and after the SIGKILL nothing forks.                                     *)

\* Before the spawn there is no process, and nothing closes until the start
\* has ended.
StartFirst ==
    /\ at = "spawning" => group = {} /\ close = "none"
    /\ at \notin {"ready", "failed"} => close = "none"

\* The route is verified before the session is opened.
RouteFirst == at \in {"opening", "ready"} => route

\* The exit is waited for only once the group is gone, and polled for only
\* after the SIGKILL unless it is.
CloseKnows ==
    /\ close = "joiningExit" => group = {}
    /\ close = "reaping" => killed \/ group = {}

ChildInv ==
    /\ ChildTypeOK /\ StartFirst /\ RouteFirst /\ CloseKnows
    /\ ClosedLeavesNothing /\ LeftBehindIsReported /\ ReadyIsVerified /\ GoneIsGone

\* What the signal command reports of a group: that there is none is true.
LEMMA SignalTrue ==
    ASSUME ChildInv, at # "spawning", NEW probe \in BOOLEAN, NEW there \in CloseSteps,
           NEW gone \in CloseSteps, NEW failed \in CloseSteps,
           Signal(probe, there, gone, failed)
    PROVE  /\ UNCHANGED <<group, killed, startVars, primary>>
           /\ mayExist' \in BOOLEAN /\ unreached' \in BOOLEAN
           /\ unreached => unreached'
           /\ ~mayExist' => group = {}
           /\ \/ close' = there /\ group # {}
              \/ close' = gone /\ group = {}
              \/ close' = failed /\ (group # {} => unreached')
<1>1. PICK out \in SignalOutcomes :
          /\ mayExist' = (mayExist /\ ~(probe /\ out = "none"))
          /\ unreached' = (unreached \/ (out = "failed" /\ group # {}))
          /\ primary' = primary
          /\ close' = CASE out = "sent" -> there
                        [] out = "none" -> gone
                        [] out = "failed" -> failed
          /\ UNCHANGED <<group, killed, startVars>>
  BY DEF Signal
<1>2. mayExist \in BOOLEAN /\ unreached \in BOOLEAN /\ (~mayExist => group = {})
  BY DEF ChildInv, ChildTypeOK, GoneIsGone
<1>3. CASE out = "sent"
  <2>1. group # {}
    BY <1>1, <1>3 DEF SignalOutcomes
  <2>2. close' = there
    BY <1>1, <1>3
  <2> QED
    BY <1>1, <1>2, <1>3, <2>1, <2>2
<1>4. CASE out = "none"
  <2>1. group = {}
    BY <1>1, <1>2, <1>4 DEF SignalOutcomes
  <2>2. close' = gone
    BY <1>1, <1>4
  <2> QED
    BY <1>1, <1>2, <1>4, <2>1, <2>2
<1>5. CASE out = "failed"
  <2>1. close' = failed
    BY <1>1, <1>5
  <2> QED
    BY <1>1, <1>2, <1>5, <2>1
<1> QED
  BY <1>1, <1>3, <1>4, <1>5 DEF SignalOutcomes

LEMMA ChildStarts == ChildInit => ChildInv
BY DEF ChildInit, ChildInv, ChildTypeOK, StartFirst, RouteFirst, CloseKnows,
       ClosedLeavesNothing, LeftBehindIsReported, ReadyIsVerified, GoneIsGone,
       StartSteps, CloseSteps, Failures, Processes

\* The steps of the start, which signal nothing.
LEMMA StartStep ==
    ASSUME ChildInv,
           Spawn \/ Initialize \/ Authenticate \/ Verify \/ OpenSession \/ AbortStart
    PROVE  ChildInv'
<1> USE DEF ChildInv, ChildTypeOK, StartFirst, RouteFirst, CloseKnows,
        ClosedLeavesNothing, LeftBehindIsReported, ReadyIsVerified, GoneIsGone,
        StartSteps, CloseSteps, processVars, closeVars
<1>1. CASE Spawn
  BY <1>1 DEF Spawn, Processes
<1>2. CASE Initialize
  BY <1>2 DEF Initialize, FailStart
<1>3. CASE Authenticate
  BY <1>3 DEF Authenticate, Step, FailStart
<1>4. CASE Verify
  BY <1>4 DEF Verify, FailStart
<1>5. CASE OpenSession
  <2>1. /\ at = "opening" /\ route /\ UNCHANGED <<processVars, abort, route, asks, primary, unreached>>
        /\ \/ ~abort /\ at' = "ready" /\ close' = close
           \/ at' = "failed" /\ close' = "joining"
    BY <1>5 DEF OpenSession, Step, FailStart
  <2>2. CASE ~abort /\ at' = "ready" /\ close' = close
    BY <2>1, <2>2
  <2>3. CASE at' = "failed" /\ close' = "joining"
    BY <2>1, <2>3
  <2> QED
    BY <2>1, <2>2, <2>3
<1>6. CASE AbortStart
  BY <1>6 DEF AbortStart
<1> QED
  BY <1>1, <1>2, <1>3, <1>4, <1>5, <1>6

\* The agent's own steps.
LEMMA AgentStep ==
    ASSUME ChildInv, NEW p \in Processes, Fork(p) \/ Exit(p)
    PROVE  ChildInv'
<1> USE DEF ChildInv, ChildTypeOK, StartFirst, RouteFirst, CloseKnows,
        ClosedLeavesNothing, LeftBehindIsReported, ReadyIsVerified, GoneIsGone,
        startVars, closeVars
<1>1. CASE Fork(p)
  <2>1. group # {}
    BY <1>1 DEF Fork
  <2> QED
    BY <1>1, <2>1 DEF Fork
<1>2. CASE Exit(p)
  BY <1>2 DEF Exit
<1> QED
  BY <1>1, <1>2

\* The steps of the close that signal.
LEMMA SignalStep ==
    ASSUME ChildInv, Probe \/ Terminate \/ Wait \/ Reap
    PROVE  ChildInv'
<1>1. at # "spawning"
  BY DEF ChildInv, StartFirst, Probe, Terminate, Wait, WaitTo, Reap
<1> DEFINE Sent(there, gone, failed) ==
        \/ close' = there /\ group # {}
        \/ close' = gone /\ group = {}
        \/ close' = failed /\ (group # {} => unreached')
<1>2. /\ UNCHANGED <<group, killed, startVars, primary>>
      /\ mayExist' \in BOOLEAN /\ unreached' \in BOOLEAN
      /\ unreached => unreached'
      /\ ~mayExist' => group = {}
      /\ \/ close = "probing" /\ Sent("terminating", "joiningExit", "error")
         \/ close = "terminating" /\ Sent("waiting", "waiting", "killing")
         \/ close = "waiting" /\ Sent("killing", "joiningExit", "killing")
         \/ close = "reaping" /\ Sent("error", "joiningExit", "error")
  <2>1. CASE Probe
    BY <1>1, <2>1, SignalTrue DEF Probe, CloseSteps
  <2>2. CASE Terminate
    BY <1>1, <2>2, SignalTrue DEF Terminate, CloseSteps
  <2>3. CASE Wait
    BY <1>1, <2>3, SignalTrue DEF Wait, WaitTo, CloseSteps
  <2>4. CASE Reap
    BY <1>1, <2>4, SignalTrue DEF Reap, CloseSteps
  <2> QED
    BY <2>1, <2>2, <2>3, <2>4
<1>3. UNCHANGED <<at, abort, route, asks>>
  BY <1>2 DEF startVars
<1> USE DEF ChildInv, ChildTypeOK, StartFirst, RouteFirst, CloseKnows,
        ClosedLeavesNothing, LeftBehindIsReported, ReadyIsVerified, GoneIsGone
<1>4. ChildTypeOK'
  BY <1>2, <1>3 DEF CloseSteps
<1>5. StartFirst' /\ RouteFirst' /\ ReadyIsVerified' /\ GoneIsGone'
  BY <1>2, <1>3
<1>6. CloseKnows' /\ ClosedLeavesNothing' /\ LeftBehindIsReported'
  BY <1>2
<1> QED
  BY <1>4, <1>5, <1>6

\* The other steps of a session in use and of its close.
LEMMA CloseStep ==
    ASSUME ChildInv, PromptFails \/ Close \/ CloseAsked \/ Joined \/ Kill \/ Reaped
    PROVE  ChildInv'
<1> USE DEF ChildInv, ChildTypeOK, StartFirst, RouteFirst, CloseKnows,
        ClosedLeavesNothing, LeftBehindIsReported, ReadyIsVerified, GoneIsGone,
        processVars, startVars
<1>1. CASE PromptFails
  BY <1>1 DEF PromptFails, Failures
<1>2. CASE Close
  BY <1>2 DEF Close, Advance, CloseSteps
<1>3. CASE CloseAsked
  BY <1>3 DEF CloseAsked, CloseSteps, Failures
<1>4. CASE Joined
  BY <1>4 DEF Joined, JoinedTo, Advance, CloseSteps
<1>5. CASE Kill
  BY <1>5 DEF Kill, Advance, CloseSteps
<1>6. CASE Reaped
  BY <1>6 DEF Reaped, Advance, CloseSteps
<1> QED
  BY <1>1, <1>2, <1>3, <1>4, <1>5, <1>6

LEMMA ChildSteps == ChildInv /\ [ChildNext]_childVars => ChildInv'
<1> SUFFICES ASSUME ChildInv, [ChildNext]_childVars PROVE ChildInv'
  OBVIOUS
<1>1. CASE UNCHANGED childVars
  BY <1>1 DEF childVars, processVars, startVars, closeVars, ChildInv, ChildTypeOK,
              StartFirst, RouteFirst, CloseKnows, ClosedLeavesNothing,
              LeftBehindIsReported, ReadyIsVerified, GoneIsGone
<1>2. CASE ChildNext
  BY <1>2, StartStep, AgentStep, SignalStep, CloseStep DEF ChildNext
<1> QED
  BY <1>1, <1>2

\* For any helpers the agent forks, whoever of them exits or outlives a signal
\* and however the start or the close fails: a close that reports success
\* leaves no process of the group, what is left otherwise was killed or could
\* not be reached, and a session is ready only with its route verified.
THEOREM ChildIsReaped == ChildSpec => []ChildReaped
<1>1. ChildInv => ChildReaped
  BY DEF ChildInv, ChildReaped
<1> QED
  BY <1>1, ChildStarts, ChildSteps, PTL DEF ChildSpec
=============================================================================
