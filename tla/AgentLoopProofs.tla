-------------------------- MODULE AgentLoopProofs ---------------------------
(***************************************************************************)
(* Proofs about AgentLoop, its calls and its loop, for any step limit and  *)
(* number of tool calls in a step.                                         *)
(*                                                                         *)
(* TurnSound is not inductive.  Whether the client's screen shows the      *)
(* reply and the trail is closed follows from what both hold at each stage *)
(* of the recovery; that no call is left behind and the limit is reported  *)
(* follow from the ways to the end of a step: below the limit a reply's    *)
(* calls make another step, at the limit there is no ordinary call left.   *)
(***************************************************************************)
EXTENDS AgentLoop, SequenceTheorems, TLAPS

\* What the caller's text, the client's screen and the trail hold while the
\* call is made, refitted, retried or continued.
StageHolds ==
    /\ call = "first" => sent = 0 /\ screen = <<>> /\ trail = <<>>
    /\ call \in {"refit", "refitRetry"} => sent = 1 /\ screen = <<>> /\ trail = <<>>
    /\ call \in {"plan", "supersede"} => sent = 1 /\ screen = <<1>> /\ trail = <<"detected">>
    /\ call = "overflowRetry" => sent = 1 /\ screen = <<>> /\ trail = <<"detected">>
    /\ call \in {"continue", "continueRetry"} =>
           /\ sent = 1 /\ stop = "length"
           /\ screen = <<1>> /\ text = <<1>> /\ trail = <<"detected">>

\* No call is in progress but while the loop waits for one.
CallInHand ==
    loop \in {"start", "between", "step", "ended"} => call = "idle"

\* An ordinary call is made below the limit only, so the calls of its reply
\* can be run.
BelowLimit ==
    /\ loop \in {"start", "calling"} => toolSteps < MaxToolSteps \/ MaxToolSteps = 0
    /\ loop = "between" /\ tools => toolSteps < MaxToolSteps \/ MaxToolSteps = 0

\* Once the limit is reached a handoff is made, or the turn was cancelled.
LimitSeen ==
    /\ handoff # "none" => toolSteps = MaxToolSteps
    /\ loop = "handingOff" => toolSteps = MaxToolSteps
    /\ loop \in {"between", "ended"} /\ toolSteps = MaxToolSteps /\ MaxToolSteps > 0
           => handoff # "none" \/ stop = "aborted"

\* After a call that was not approved nothing is left that can begin a step:
\* only a conclusion is asked for, and its calls are dropped.
RefusalHolds ==
    /\ loop = "step" \/ (loop = "between" /\ tools) =>
           purpose \in {"initial", "tool_followup"} /\ ~refused
    /\ loop = "start" => ~refused
    /\ loop = "calling" =>
           /\ purpose # "step_limit_handoff"
           /\ refused => purpose = "forced_conclusion"

LoopInv ==
    /\ TypeOK
    /\ StageHolds /\ TruncatedPlanNeverRuns /\ ScreenShowsReply /\ TrailClosed
    /\ CallInHand /\ BelowLimit /\ NoCallLeftBehind /\ LimitSeen
    /\ RefusalHolds

-----------------------------------------------------------------------------
(* The call and its recovery.                                              *)

CallInv ==
    /\ CallTypeOK
    /\ StageHolds /\ TruncatedPlanNeverRuns /\ ScreenShowsReply /\ TrailClosed

\* The two ways a trail ends.
Closed(s) ==
    s \in Seq(Frames) /\ Len(s) \in {0, 2} /\ (Len(s) = 2 => s[1] = "detected")

\* Short sequences.
LEMMA OneSeq ==
  ASSUME NEW S, NEW a \in S
  PROVE  <<a>> \in Seq(S)
  OBVIOUS

LEMMA TwoSeq ==
  ASSUME NEW S, NEW a \in S, NEW b \in S
  PROVE  <<a, b>> \in Seq(S)
  OBVIOUS

LEMMA DetectedFrame == "detected" \in Frames /\ <<"detected">> \in Seq(Frames)
  <1>1. "detected" \in Frames
    BY DEF Frames
  <1> QED
    BY <1>1, OneSeq, Zenon

LEMMA ClosedEmpty == Closed(<<>>)
  BY DEF Closed

LEMMA ClosedPair ==
  ASSUME NEW o \in Frames
  PROVE  Closed(<<"detected", o>>)
  <1>1. <<"detected", o>> \in Seq(Frames)
    BY DetectedFrame, TwoSeq, Zenon
  <1>2. Len(<<"detected", o>>) = 2
    OBVIOUS
  <1>3. <<"detected", o>>[1] = "detected"
    OBVIOUS
  <1> QED
    BY <1>1, <1>2, <1>3 DEF Closed

\* A stop that was reported takes one outcome.
LEMMA ClosedAppend ==
  ASSUME NEW o \in Frames
  PROVE  Closed(Append(<<"detected">>, o))
  <1> DEFINE s == <<"detected">>
  <1>1. s \in Seq(Frames) /\ Len(s) = 1 /\ s[1] = "detected"
    BY DetectedFrame
  <1> HIDE DEF s
  <1>2. Append(s, o) \in Seq(Frames)
    BY <1>1
  <1>3. Len(Append(s, o)) = Len(s) + 1
    BY <1>1
  <1>4. Append(s, o)[1] = s[1]
    BY <1>1
  <1>5. Closed(Append(s, o))
    BY <1>1, <1>2, <1>3, <1>4 DEF Closed
  <1> QED
    BY <1>5 DEF s

LEMMA ClosedConcat ==
  ASSUME NEW o \in Frames
  PROVE  Closed(<<"detected">> \o <<o>>)
  <1>1. Append(<<"detected">>, o) = <<"detected">> \o <<o>>
    BY DetectedFrame, AppendIsConcat, Zenon
  <1> QED
    BY <1>1, ClosedAppend

LEMMA ClosedConcatPair ==
  ASSUME NEW o \in Frames
  PROVE  Closed(<<>> \o <<"detected", o>>)
  <1>1. <<"detected", o>> \in Seq(Frames)
    BY DetectedFrame, TwoSeq, Zenon
  <1>2. <<>> \o <<"detected", o>> = <<"detected", o>>
    BY <1>1, ConcatEmptySeq, Zenon
  <1> QED
    BY <1>2, ClosedPair

LEMMA ClosedConcatEmpty == Closed(<<>> \o <<>>)
  BY ClosedEmpty

\* What the client shows after one attempt, and after a continuation.
LEMMA ShownOne ==
  ASSUME NEW n \in 1..2
  PROVE  Append(<<>>, n) = <<n>> /\ <<n>> \in Seq(1..2)
  <1>1. Append(<<>>, n) = <<n>>
    OBVIOUS
  <1>2. <<n>> \in Seq(1..2)
    BY OneSeq
  <1> QED
    BY <1>1, <1>2

LEMMA ShownTwo == <<1>> \in Seq(1..2) /\ Append(<<1>>, 2) \in Seq(1..2)
  <1>1. 1 \in 1..2 /\ 2 \in 1..2
    OBVIOUS
  <1>2. <<1>> \in Seq(1..2)
    BY <1>1, OneSeq
  <1> QED
    BY <1>1, <1>2, AppendProperties

\* A call that throws.
LEMMA Thrown ==
  ASSUME CallInv, call' = "threw", Closed(trail'), error' \in Errors \cup {"none"},
         sent' \in 0..2, screen' \in Seq(1..2),
         UNCHANGED <<purpose, retryable, stop, tools, text>>
  PROVE  CallInv'
  <1>1. CallTypeOK'
    BY DEF CallInv, CallTypeOK, Calls, Closed
  <1> QED
    BY <1>1 DEF CallInv, StageHolds, TruncatedPlanNeverRuns, ScreenShowsReply, TrailClosed,
                Closed

\* A call that goes on to another stage, or ends.
LEMMA AttemptFailsInv ==
  ASSUME CallInv, NEW e \in Errors, AttemptFails(e)
  PROVE  CallInv'
  <1>1. Closed(trail')
    <2>1. CASE call \in {"overflowRetry", "continueRetry"}
      <3>1. trail' = Append(<<"detected">>, "retry_errored")
        BY <2>1 DEF AttemptFails, CallInv, StageHolds
      <3> QED
        BY <3>1, ClosedAppend DEF Frames
    <2>2. CASE call \in {"first", "refitRetry"}
      <3>1. trail' = <<>>
        BY <2>2 DEF AttemptFails, CallInv, StageHolds
      <3> QED
        BY <3>1, ClosedEmpty
    <2> QED
      BY <2>1, <2>2 DEF AttemptFails, Attempts
  <1>2. error' \in Errors \cup {"none"}
    BY DEF AttemptFails, Throw, Mapped, Errors
  <1>3. sent' \in 0..2 /\ screen' \in Seq(1..2) /\ call' = "threw"
        /\ UNCHANGED <<purpose, retryable, stop, tools, text>>
    BY DEF AttemptFails, Throw, CallInv, CallTypeOK
  <1> QED
    BY <1>1, <1>2, <1>3, Thrown

LEMMA ReplyInv ==
  ASSUME CallInv, NEW reason \in Stops, NEW asked \in BOOLEAN, Reply(reason, asked)
  PROVE  CallInv'
  <1>1. call \in Attempts /\ call' = "returned" /\ stop' = reason /\ sent' = sent + 1
        /\ tools' = (asked /\ reason # "length")
        /\ UNCHANGED <<purpose, retryable, error>>
    BY DEF Reply, Delivered
  <1>2. screen' \in Seq(1..2) /\ text' = screen' /\ sent' \in 0..2
    <2>1. CASE call = "continueRetry"
      <3>1. sent = 1 /\ screen = <<1>> /\ text = <<1>>
        BY <2>1 DEF CallInv, StageHolds
      <3>2. sent + 1 = 2
        BY <3>1
      <3>3. screen' = Append(<<1>>, 2) /\ text' = Append(<<1>>, 2)
        BY <2>1, <3>1, <3>2 DEF Reply
      <3> QED
        BY <1>1, <3>2, <3>3, ShownTwo
    <2>2. CASE call # "continueRetry"
      <3>1. sent \in {0, 1} /\ screen' = Append(<<>>, sent + 1) /\ text' = <<sent + 1>>
        BY <1>1, <2>2 DEF Reply, CallInv, StageHolds, Attempts
      <3>2. sent + 1 \in 1..2
        BY <3>1
      <3> QED
        BY <1>1, <3>1, <3>2, ShownOne
    <2> QED
      BY <2>1, <2>2
  <1>3. Closed(trail')
    <2>1. CASE call \in {"first", "refitRetry"}
      <3>1. trail' = <<>> \o <<>> \/ trail' = <<>> \o <<"detected", "still_truncated">>
        BY <2>1 DEF Reply, ReplyTrail, CallInv, StageHolds
      <3> QED
        BY <3>1, ClosedConcatEmpty, ClosedConcatPair DEF Frames
    <2>2. CASE call \in {"overflowRetry", "continueRetry"}
      <3>1. \/ trail' = <<"detected">> \o <<"still_truncated">>
            \/ trail' = <<"detected">> \o <<"recovered">>
        BY <2>2 DEF Reply, ReplyTrail, CallInv, StageHolds
      <3> QED
        BY <3>1, ClosedConcat DEF Frames
    <2> QED
      BY <1>1, <2>1, <2>2 DEF Attempts
  <1>4. CallTypeOK'
    BY <1>1, <1>2, <1>3 DEF CallInv, CallTypeOK, Calls, Closed
  <1> QED
    BY <1>1, <1>2, <1>3, <1>4
    DEF CallInv, StageHolds, TruncatedPlanNeverRuns, ScreenShowsReply, TrailClosed, Closed

LEMMA TruncatedInv ==
  ASSUME CallInv, NEW asked \in BOOLEAN, Truncated(asked)
  PROVE  CallInv'
  <1>1. /\ call' \in {"plan", "continue"} /\ stop' = "length" /\ sent' = 1 /\ tools' = asked
        /\ text' = <<1>> /\ screen' = Append(<<>>, 1) /\ trail' = Append(<<>>, "detected")
        /\ UNCHANGED <<purpose, retryable, error>>
    BY DEF Truncated, CallInv, StageHolds
  <1>2. screen' = <<1>> /\ trail' = <<"detected">>
    BY <1>1
  <1>3. screen' \in Seq(1..2) /\ text' \in Seq(1..2) /\ trail' \in Seq(Frames)
    BY <1>1, <1>2, ShownTwo, DetectedFrame
  <1>4. CallTypeOK'
    BY <1>1, <1>3 DEF CallInv, CallTypeOK, Calls, Stops
  <1> QED
    BY <1>1, <1>2, <1>4
    DEF CallInv, StageHolds, TruncatedPlanNeverRuns, ScreenShowsReply, TrailClosed

LEMMA DeliverPartialInv ==
  ASSUME CallInv, NEW outcome \in Frames, call \in {"continue", "continueRetry"},
         DeliverPartial(outcome)
  PROVE  CallInv'
  <1>1. /\ call' = "returned" /\ tools' = FALSE /\ trail' = Append(<<"detected">>, outcome)
        /\ UNCHANGED <<purpose, retryable, sent, stop, text, screen, error>>
        /\ screen = text
    BY DEF DeliverPartial, Delivered, CallInv, StageHolds
  <1>2. Closed(trail')
    BY <1>1, ClosedAppend
  <1>3. CallTypeOK'
    BY <1>1, <1>2 DEF CallInv, CallTypeOK, Calls, Closed
  <1> QED
    BY <1>1, <1>2, <1>3
    DEF CallInv, StageHolds, TruncatedPlanNeverRuns, ScreenShowsReply, TrailClosed, Closed

LEMMA CallStepInv == CallInv /\ CallStep => CallInv'
  <1> SUFFICES ASSUME CallInv, CallStep PROVE CallInv'
    OBVIOUS
  <1>1. ASSUME NEW e \in Errors, AttemptFails(e) PROVE CallInv'
    BY <1>1, AttemptFailsInv
  <1>2. ASSUME NEW reason \in Stops, NEW asked \in BOOLEAN, Reply(reason, asked) PROVE CallInv'
    BY <1>2, ReplyInv
  <1>3. ASSUME NEW asked \in BOOLEAN, Truncated(asked) PROVE CallInv'
    BY <1>3, TruncatedInv
  <1>4. CASE FirstRejected
    <2>1. CallTypeOK'
      BY <1>4 DEF FirstRejected, CallInv, CallTypeOK, Calls, StageHolds
    <2> QED
      BY <1>4, <2>1 DEF FirstRejected, CallInv, StageHolds, TruncatedPlanNeverRuns,
                        ScreenShowsReply, TrailClosed
  \* A stage that follows another with nothing sent.
  <1>5. ASSUME UNCHANGED <<purpose, retryable, sent, stop, tools, text, trail, error>>,
               \/ call = "refit" /\ call' = "refitRetry" /\ screen' = screen
               \/ call = "plan" /\ call' = "supersede" /\ screen' = screen
               \/ call = "supersede" /\ call' = "overflowRetry" /\ screen' = <<>>
               \/ call = "continue" /\ call' = "continueRetry" /\ screen' = screen
        PROVE  CallInv'
    <2>1. screen' \in Seq(1..2)
      BY <1>5, EmptySeq DEF CallInv, CallTypeOK
    <2>2. CallTypeOK'
      BY <1>5, <2>1 DEF CallInv, CallTypeOK, Calls, Attempts
    <2> QED
      BY <1>5, <2>2 DEF CallInv, StageHolds, TruncatedPlanNeverRuns, ScreenShowsReply,
                        TrailClosed
  <1>6. ASSUME NEW e \in Errors, Throw(e), Closed(trail') PROVE CallInv'
    <2>1. error' \in Errors \cup {"none"}
      BY <1>6 DEF Throw, Errors
    <2> QED
      BY <1>6, <2>1, Thrown DEF Throw, CallInv, CallTypeOK
  <1>7. CASE Refit
    <2>1. Throw("rejected") \/ Throw("uncertain") => Closed(trail')
      BY <1>7, ClosedEmpty DEF Refit, CallInv, StageHolds, Throw
    <2> QED
      BY <1>5, <1>6, <1>7, <2>1 DEF Refit, Errors
  <1>8. CASE OverflowsAgain
    <2>1. sent = 1 /\ screen = <<>>
      BY <1>8 DEF OverflowsAgain, CallInv, StageHolds
    <2>2. screen' \in Seq(1..2) /\ sent' \in 0..2
      <3>1. sent' = 2 /\ sent + 1 = 2
        BY <1>8, <2>1 DEF OverflowsAgain
      <3>2. screen' = Append(<<>>, 2)
        BY <1>8, <2>1, <3>1 DEF OverflowsAgain
      <3>3. 2 \in 1..2 /\ 2 \in 0..2
        OBVIOUS
      <3> QED
        BY <3>1, <3>2, <3>3, ShownOne
    <2>3. \/ trail' = <<>> \o <<"detected", "overflow_failed">>
          \/ trail' = <<"detected">> \o <<"overflow_failed">>
      BY <1>8 DEF OverflowsAgain, CallInv, StageHolds
    <2>4. Closed(trail')
      BY <2>3, ClosedConcat, ClosedConcatPair DEF Frames
    <2> QED
      BY <1>8, <2>2, <2>4, Thrown DEF OverflowsAgain, Errors
  <1>9. CASE PlanRecovery
    <2>1. call = "plan" /\ trail = <<"detected">>
      BY <1>9 DEF PlanRecovery, CallInv, StageHolds
    <2>2. CASE Throw("overflow") /\ trail' = Append(trail, "overflow_failed")
      BY <1>6, <2>1, <2>2, ClosedAppend DEF Errors, Frames
    <2>3. CASE Throw("uncertain") /\ trail' = Append(trail, "retry_errored")
      BY <1>6, <2>1, <2>3, ClosedAppend DEF Errors, Frames
    <2> QED
      BY <1>5, <1>9, <2>1, <2>2, <2>3 DEF PlanRecovery
  <1>10. CASE Supersede
    <2>1. call = "supersede" /\ trail = <<"detected">>
      BY <1>10 DEF Supersede, CallInv, StageHolds
    <2>2. CASE Throw("signal") /\ trail' = Append(trail, "retry_errored")
      BY <1>6, <2>1, <2>2, ClosedAppend DEF Errors, Frames
    <2> QED
      BY <1>5, <1>10, <2>1, <2>2 DEF Supersede, ShownDropped
  <1>11. CASE PlanTooLarge
    <2>1. trail = <<"detected">> /\ Throw("overflow") /\ trail' = Append(trail, "overflow_failed")
      BY <1>11 DEF PlanTooLarge, CallInv, StageHolds
    <2> QED
      BY <1>6, <2>1, ClosedAppend DEF Errors, Frames
  <1>12. CASE ContinueTruncated
    BY <1>5, <1>12, DeliverPartialInv DEF ContinueTruncated, Frames
  <1>13. CASE ContinuationRefused
    BY <1>13, DeliverPartialInv DEF ContinuationRefused, RefusedPartial, Frames
  <1> QED
    BY <1>1, <1>2, <1>3, <1>4, <1>7, <1>8, <1>9, <1>10, <1>11, <1>12, <1>13 DEF CallStep
-----------------------------------------------------------------------------
(* The loop.                                                               *)

\* What holds of the call holds as long as nothing of it changes, when the
\* next one begins, and when its reply is taken.
LEMMA CallKept ==
  ASSUME CallInv, UNCHANGED callVars
  PROVE  CallInv'
  BY DEF CallInv, callVars, CallTypeOK, StageHolds, TruncatedPlanNeverRuns, ScreenShowsReply,
         TrailClosed

LEMMA CallBegun ==
  ASSUME CallInv, NEW p \in Purposes, BeginCall(p)
  PROVE  CallInv'
  <1>1. CallTypeOK'
    <2>1. text' \in Seq(1..2) /\ screen' \in Seq(1..2)
      BY EmptySeq DEF BeginCall
    <2>2. trail' \in Seq(Frames)
      BY EmptySeq DEF BeginCall
    <2>3. call' \in Calls /\ stop' \in Stops
      BY DEF BeginCall, Calls, Attempts, Stops
    <2>4. sent' \in 0..2
      BY DEF BeginCall
    <2>5. /\ purpose' \in Purposes /\ retryable' \in BOOLEAN /\ tools' \in BOOLEAN
          /\ error' \in Errors \cup {"none"}
      BY DEF BeginCall, CallInv, CallTypeOK
    <2> QED
      BY <2>1, <2>2, <2>3, <2>4, <2>5 DEF CallTypeOK
  <1> QED
    BY <1>1 DEF BeginCall, CallInv, StageHolds, TruncatedPlanNeverRuns, ScreenShowsReply,
                TrailClosed

LEMMA CallTaken ==
  ASSUME CallInv, call' = "idle", stop' \in Stops, tools' \in BOOLEAN,
         UNCHANGED <<purpose, retryable, sent, text, screen, trail, error>>
  PROVE  CallInv'
  <1>1. CallTypeOK'
    BY DEF CallInv, CallTypeOK, Calls
  <1> QED
    BY <1>1 DEF CallInv, StageHolds, TruncatedPlanNeverRuns, ScreenShowsReply, TrailClosed

\* What LoopInv says of the loop, once the call is known to be in order.
LoopTypes ==
    /\ loop \in {"start", "calling", "between", "step", "handingOff", "ended", "failed"}
    /\ nextWork \in BOOLEAN
    /\ toolSteps \in 0..MaxToolSteps
    /\ todo \in 0..MaxCalls
    /\ tool \in {"none", "running", "bounded"}
    /\ allRepeats \in BOOLEAN
    /\ denied \in BOOLEAN
    /\ aborted \in BOOLEAN
    /\ handoff \in {"none", "model", "notice"}
    /\ refused \in BOOLEAN

Ways == CallInHand /\ BelowLimit /\ NoCallLeftBehind /\ LimitSeen /\ RefusalHolds

LEMMA LoopInvParts == LoopInv <=> CallInv /\ LoopTypes /\ Ways
  BY DEF LoopInv, CallInv, TypeOK, LoopTypes, Ways

\* A turn that fails has nothing more to keep.
LEMMA FailInv ==
  ASSUME CallInv, LoopTypes, Ways, Fail
  PROVE  CallInv' /\ LoopTypes' /\ Ways'
  <1>1. CallInv'
    BY CallKept DEF Fail
  <1>2. LoopTypes'
    BY DEF Fail, LoopTypes
  <1>3. Ways'
    BY DEF Fail, Ways, CallInHand, BelowLimit, NoCallLeftBehind, LimitSeen, RefusalHolds
  <1> QED
    BY <1>1, <1>2, <1>3

LEMMA FirstCallInv ==
  ASSUME CallInv, LoopTypes, Ways, FirstCall
  PROVE  CallInv' /\ LoopTypes' /\ Ways'
  <1>1. CASE Fail
    BY <1>1, FailInv
  <1>2. CASE ~Fail
    <2>1. /\ loop = "start" /\ loop' = "calling" /\ BeginCall("initial")
          /\ UNCHANGED <<nextWork, toolSteps, todo, tool, allRepeats, denied, aborted,
                         handoff, refused>>
      BY <1>2 DEF FirstCall
    <2>2. CallInv'
      BY <2>1, CallBegun DEF Purposes
    <2>3. LoopTypes'
      BY <2>1 DEF LoopTypes
    <2>4. Ways'
      BY <2>1 DEF BeginCall, Ways, CallInHand, BelowLimit, NoCallLeftBehind, LimitSeen,
                  RefusalHolds
    <2> QED
      BY <2>2, <2>3, <2>4
  <1> QED
    BY <1>1, <1>2

LEMMA InCallInv ==
  ASSUME CallInv, LoopTypes, Ways, InCall
  PROVE  CallInv' /\ LoopTypes' /\ Ways'
  <1>1. CallInv'
    BY CallStepInv DEF InCall
  <1>2. LoopTypes'
    BY DEF InCall, loopVars, LoopTypes
  <1>3. purpose' = purpose
    BY DEF InCall, CallStep, AttemptFails, Throw, Reply, Truncated, FirstRejected, Refit,
           OverflowsAgain, PlanRecovery, Supersede, PlanTooLarge, ContinueTruncated,
           ContinuationRefused, RefusedPartial, DeliverPartial
  <1>4. Ways'
    BY <1>3 DEF InCall, loopVars, Ways, CallInHand, BelowLimit, NoCallLeftBehind, LimitSeen,
                RefusalHolds
  <1> QED
    BY <1>1, <1>2, <1>4

LEMMA CallReturnedInv ==
  ASSUME CallInv, LoopTypes, Ways, CallReturned
  PROVE  CallInv' /\ LoopTypes' /\ Ways'
  <1>1. stop' \in Stops /\ tools' \in BOOLEAN
    BY DEF CallReturned, StopAfter, Cancelled, UnlessCancelled, ToolsAfter, CallInv,
           CallTypeOK, LoopTypes, Stops
  <1>2. tools' => tools /\ purpose # "forced_conclusion"
    BY DEF CallReturned, UnlessCancelled, ToolsAfter
  <1>3. CallInv'
    BY <1>1, CallTaken DEF CallReturned
  <1>4. LoopTypes'
    BY DEF CallReturned, LoopTypes
  <1>5. Ways'
    <2>1. CallInHand' /\ NoCallLeftBehind'
      BY DEF CallReturned, CallInHand, NoCallLeftBehind
    <2>2. BelowLimit' /\ LimitSeen'
      BY StepsAssumption DEF CallReturned, Ways, BelowLimit, LimitSeen, LoopTypes
    <2>3. RefusalHolds'
      BY <1>2 DEF CallReturned, Ways, RefusalHolds, CallInv, CallTypeOK, Purposes
    <2> QED
      BY <2>1, <2>2, <2>3 DEF Ways
  <1> QED
    BY <1>3, <1>4, <1>5
LEMMA BeginStepInv ==
  ASSUME CallInv, LoopTypes, Ways, BeginStep
  PROVE  CallInv' /\ LoopTypes' /\ Ways'
  <1>1. toolSteps < MaxToolSteps /\ toolSteps' = toolSteps + 1 /\ tools
    BY DEF BeginStep, MayStep, StepCounted
  <1>2. CallInv'
    BY CallKept DEF BeginStep
  <1>3. LoopTypes'
    <2>1. toolSteps' \in 0..MaxToolSteps
      BY <1>1, StepsAssumption DEF LoopTypes
    <2>2. todo' \in 0..MaxCalls /\ allRepeats' \in BOOLEAN
      BY StepsAssumption DEF BeginStep
    <2> QED
      BY <2>1, <2>2 DEF BeginStep, LoopTypes
  <1>4. Ways'
    <2>1. handoff = "none"
      BY <1>1, StepsAssumption DEF Ways, LimitSeen, LoopTypes
    <2>2. CallInHand' /\ BelowLimit' /\ NoCallLeftBehind'
      BY DEF BeginStep, callVars, Ways, CallInHand, BelowLimit, NoCallLeftBehind
    <2>3. LimitSeen'
      BY <2>1 DEF BeginStep, LimitSeen
    <2>4. RefusalHolds'
      BY <1>1 DEF BeginStep, callVars, Ways, RefusalHolds
    <2> QED
      BY <2>2, <2>3, <2>4 DEF Ways
  <1> QED
    BY <1>2, <1>3, <1>4

LEMMA InvokeToolInv ==
  ASSUME CallInv, LoopTypes, Ways, InvokeTool
  PROVE  CallInv' /\ LoopTypes' /\ Ways'
  <1>1. CallInv'
    BY CallKept DEF InvokeTool
  <1>2. LoopTypes'
    <2>1. todo' \in 0..MaxCalls
      BY StepsAssumption DEF InvokeTool, LoopTypes
    <2> QED
      BY <2>1 DEF InvokeTool, LoopTypes
  <1>3. Ways'
    BY DEF InvokeTool, callVars, Ways, CallInHand, BelowLimit, NoCallLeftBehind, LimitSeen,
           RefusalHolds
  <1> QED
    BY <1>1, <1>2, <1>3

\* A step the signal cuts short.
LEMMA AbortStepInv ==
  ASSUME CallInv, LoopTypes, Ways, loop = "step", AbortStep
  PROVE  CallInv' /\ LoopTypes' /\ Ways'
  <1>1. CallInv'
    <2>1. call' = "idle"
      BY DEF AbortStep, Ways, CallInHand
    <2> QED
      BY <2>1, CallTaken DEF AbortStep, Stops
  <1>2. LoopTypes'
    <2>1. todo' \in 0..MaxCalls
      BY StepsAssumption DEF AbortStep
    <2> QED
      BY <2>1 DEF AbortStep, LoopTypes
  <1>3. Ways'
    BY DEF AbortStep, Ways, CallInHand, BelowLimit, NoCallLeftBehind, LimitSeen, RefusalHolds
  <1> QED
    BY <1>1, <1>2, <1>3

LEMMA ToolReturnsInv ==
  ASSUME CallInv, LoopTypes, Ways, ToolReturns
  PROVE  CallInv' /\ LoopTypes' /\ Ways'
  <1>1. CASE Fail
    BY <1>1, FailInv
  <1>2. CASE AbortStep
    BY <1>2, AbortStepInv DEF ToolReturns
  <1>3. CASE ~Fail /\ ~AbortStep
    <2>1. /\ loop = "step" /\ tool' = "bounded" /\ denied' \in {denied, TRUE}
          /\ UNCHANGED <<callVars, loop, nextWork, toolSteps, todo, allRepeats, aborted,
                         handoff, refused>>
      BY <1>3 DEF ToolReturns
    <2>2. CallInv'
      BY <2>1, CallKept
    <2>3. LoopTypes'
      BY <2>1 DEF LoopTypes
    <2>4. Ways'
      BY <2>1 DEF callVars, Ways, CallInHand, BelowLimit, NoCallLeftBehind, LimitSeen,
                  RefusalHolds
    <2> QED
      BY <2>2, <2>3, <2>4
  <1> QED
    BY <1>1, <1>2, <1>3

\* After a step: at the limit the handoff, below it another call, which asks
\* for a conclusion once a call was not approved.
LEMMA FollowUpInv ==
  ASSUME CallInv, LoopTypes, Ways, FollowUp
  PROVE  CallInv' /\ LoopTypes' /\ Ways'
  <1>1. /\ loop = "step" /\ tool' = "none" /\ refused' = (refused \/ denied)
        /\ UNCHANGED <<nextWork, toolSteps, todo, allRepeats, denied, aborted>>
    BY DEF FollowUp
  <1>2. ~refused /\ call = "idle"
    BY <1>1 DEF Ways, RefusalHolds, CallInHand
  <1>3. AtCap => toolSteps = MaxToolSteps
    BY StepsAssumption DEF AtCap, LoopTypes
  <1>4. ASSUME handoff' \in {"none", "model", "notice"},
               loop' \in {"calling", "between", "handingOff", "failed"}
        PROVE  LoopTypes'
    BY <1>1, <1>4 DEF LoopTypes
  <1>5. CASE AtCap /\ loop' = "handingOff" /\ BeginCall("step_limit_handoff")
             /\ UNCHANGED handoff
    <2>1. CallInv'
      BY <1>5, CallBegun DEF Purposes
    <2>2. LoopTypes'
      BY <1>4, <1>5 DEF LoopTypes
    <2>3. Ways'
      BY <1>1, <1>3, <1>5 DEF Ways, CallInHand, BelowLimit, NoCallLeftBehind, LimitSeen,
                              RefusalHolds
    <2> QED
      BY <2>1, <2>2, <2>3
  <1>6. CASE AtCap /\ loop' = "between" /\ handoff' = "notice" /\ stop' = "stop"
             /\ tools' = FALSE
             /\ UNCHANGED <<call, purpose, retryable, sent, text, screen, trail, error>>
    <2>1. CallInv'
      BY <1>2, <1>6, CallTaken DEF Stops
    <2>2. LoopTypes'
      BY <1>4, <1>6
    <2>3. Ways'
      BY <1>1, <1>2, <1>3, <1>6 DEF Ways, CallInHand, BelowLimit, NoCallLeftBehind,
                                    LimitSeen, RefusalHolds
    <2> QED
      BY <2>1, <2>2, <2>3
  <1>7. CASE /\ ~AtCap /\ loop' = "calling" /\ UNCHANGED handoff
             /\ BeginCall(IF ForceConclude THEN "forced_conclusion" ELSE "tool_followup")
    <2>1. CallInv'
      BY <1>7, CallBegun DEF Purposes
    <2>2. LoopTypes'
      BY <1>4, <1>7 DEF LoopTypes
    <2>3. toolSteps < MaxToolSteps
      BY <1>7, StepsAssumption DEF AtCap, LoopTypes
    <2>4. purpose' # "step_limit_handoff" /\ (denied => purpose' = "forced_conclusion")
      BY <1>7 DEF BeginCall, ForceConclude
    <2>5. Ways'
      BY <1>1, <1>2, <1>7, <2>3, <2>4
      DEF Ways, CallInHand, BelowLimit, NoCallLeftBehind, LimitSeen, RefusalHolds
    <2> QED
      BY <2>1, <2>2, <2>5
  <1>8. CASE loop' = "failed" /\ UNCHANGED <<callVars, handoff>>
    <2>1. CallInv'
      BY <1>8, CallKept
    <2>2. LoopTypes'
      BY <1>4, <1>8 DEF LoopTypes
    <2>3. Ways'
      BY <1>1, <1>8 DEF Ways, CallInHand, BelowLimit, NoCallLeftBehind, LimitSeen,
                        RefusalHolds
    <2> QED
      BY <2>1, <2>2, <2>3
  <1> QED
    BY <1>5, <1>6, <1>7, <1>8 DEF FollowUp
LEMMA EndHandoffInv ==
  ASSUME CallInv, LoopTypes, Ways, loop = "handingOff",
         NEW source \in {"none", "model", "notice"}, NEW reason \in Stops,
         source = "none" => reason = "aborted",
         EndHandoff(source, reason)
  PROVE  CallInv' /\ LoopTypes' /\ Ways'
  <1>1. CallInv'
    BY CallTaken DEF EndHandoff
  <1>2. LoopTypes'
    BY DEF EndHandoff, LoopTypes
  <1>3. Ways'
    BY DEF EndHandoff, Ways, CallInHand, BelowLimit, NoCallLeftBehind, LimitSeen, RefusalHolds
  <1> QED
    BY <1>1, <1>2, <1>3

LEMMA HandoffReturnedInv ==
  ASSUME CallInv, LoopTypes, Ways, HandoffReturned
  PROVE  CallInv' /\ LoopTypes' /\ Ways'
  <1>1. loop = "handingOff" /\ stop \in Stops
    BY DEF HandoffReturned, CallInv, CallTypeOK
  <1>2. CASE EndHandoff("model", IF aborted THEN "aborted" ELSE IF tools THEN "stop" ELSE stop)
    BY <1>1, <1>2, EndHandoffInv DEF Stops
  <1>3. CASE EndHandoff("notice", IF aborted THEN "aborted" ELSE "stop")
    BY <1>1, <1>3, EndHandoffInv DEF Stops
  <1>4. CASE EndHandoff("none", "aborted")
    BY <1>1, <1>4, EndHandoffInv DEF Stops
  <1> QED
    BY <1>2, <1>3, <1>4 DEF HandoffReturned

LEMMA HandoffThrewInv ==
  ASSUME CallInv, LoopTypes, Ways, HandoffThrew
  PROVE  CallInv' /\ LoopTypes' /\ Ways'
  <1>1. CASE EndHandoff("notice", "stop")
    BY <1>1, EndHandoffInv DEF HandoffThrew, Stops
  <1> QED
    BY <1>1, FailInv DEF HandoffThrew

\* The end: calls are left only where no step could begin.
LEMMA EndLoopInv ==
  ASSUME CallInv, LoopTypes, Ways, EndLoop
  PROVE  CallInv' /\ LoopTypes' /\ Ways'
  <1>1. stop \in Stops /\ tools \in BOOLEAN /\ call = "idle"
    BY DEF EndLoop, CallInv, CallTypeOK, Ways, CallInHand
  <1>2. stop' \in Stops /\ tools' \in BOOLEAN /\ (stop = "aborted" => stop' = "aborted")
    BY <1>1 DEF EndLoop, Cancelled, UnlessCancelled, Stops
  <1>3. CallInv'
    BY <1>1, <1>2, CallTaken DEF EndLoop
  <1>4. LoopTypes'
    BY DEF EndLoop, LoopTypes
  <1>5. NoCallLeftBehind'
    <2>1. ASSUME ~nextWork, MaxToolSteps > 0, stop' # "error", tools'
          PROVE  FALSE
      <3>1. tools /\ ~Cancelled(stop) /\ stop' = stop
        BY <2>1 DEF EndLoop, UnlessCancelled
      <3>2. ~aborted
        BY <2>1, <3>1 DEF Cancelled
      <3>3. toolSteps < MaxToolSteps
        BY <2>1, <3>1, StepsAssumption DEF EndLoop, Ways, BelowLimit
      <3> QED
        BY <2>1, <3>1, <3>2, <3>3 DEF EndLoop, MayStep
    <2> QED
      BY <2>1 DEF EndLoop, NoCallLeftBehind
  <1>6. CallInHand' /\ BelowLimit' /\ RefusalHolds'
    BY <1>1 DEF EndLoop, CallInHand, BelowLimit, RefusalHolds
  <1>7. LimitSeen'
    BY <1>2 DEF EndLoop, Ways, LimitSeen
  <1> QED
    BY <1>3, <1>4, <1>5, <1>6, <1>7 DEF Ways

-----------------------------------------------------------------------------
(* The theorems.                                                           *)

LEMMA LoopInit == Init => LoopInv
  <1> SUFFICES ASSUME Init PROVE LoopInv
    OBVIOUS
  <1>1. CallTypeOK
    <2>1. text \in Seq(1..2) /\ screen \in Seq(1..2)
      BY EmptySeq DEF Init, CallInit
    <2>2. trail \in Seq(Frames)
      BY EmptySeq DEF Init, CallInit
    <2>3. sent \in 0..2
      BY DEF Init, CallInit
    <2> QED
      BY <2>1, <2>2, <2>3 DEF Init, CallInit, CallTypeOK, Calls, Purposes, Stops
  <1>2. CallInv
    BY <1>1 DEF Init, CallInit, CallInv, StageHolds, TruncatedPlanNeverRuns,
                ScreenShowsReply, TrailClosed
  <1>3. LoopTypes
    <2>1. toolSteps \in 0..MaxToolSteps /\ todo \in 0..MaxCalls
      BY StepsAssumption DEF Init
    <2> QED
      BY <2>1 DEF Init, LoopTypes
  <1>4. toolSteps < MaxToolSteps \/ MaxToolSteps = 0
    BY StepsAssumption DEF Init
  <1>5. Ways
    BY <1>4 DEF Init, CallInit, Ways, CallInHand, BelowLimit, NoCallLeftBehind, LimitSeen,
                RefusalHolds
  <1> QED
    BY <1>2, <1>3, <1>5, LoopInvParts

LEMMA LoopNext == LoopInv /\ [Next]_vars => LoopInv'
  <1> SUFFICES ASSUME CallInv, LoopTypes, Ways, [Next]_vars
               PROVE  CallInv' /\ LoopTypes' /\ Ways'
    BY LoopInvParts
    DEF LoopInv, CallInv, TypeOK, LoopTypes, Ways
  <1>1. CASE FirstCall
    BY <1>1, FirstCallInv
  <1>2. CASE InCall
    BY <1>2, InCallInv
  <1>3. CASE CallThrew
    BY <1>3, FailInv DEF CallThrew
  <1>4. CASE CallReturned
    BY <1>4, CallReturnedInv
  <1>5. CASE BeginStep
    BY <1>5, BeginStepInv
  <1>6. CASE InvokeTool
    BY <1>6, InvokeToolInv
  <1>7. CASE CancelStep
    BY <1>7, AbortStepInv DEF CancelStep
  <1>8. CASE ToolReturns
    BY <1>8, ToolReturnsInv
  <1>9. CASE FollowUp
    BY <1>9, FollowUpInv
  <1>10. CASE HandoffReturned
    BY <1>10, HandoffReturnedInv
  <1>11. CASE HandoffThrew
    BY <1>11, HandoffThrewInv
  <1>12. CASE EndLoop
    BY <1>12, EndLoopInv
  <1>13. CASE RaiseSignal \/ UNCHANGED vars
    <2>1. UNCHANGED <<callVars, loop, nextWork, toolSteps, todo, tool, allRepeats, denied,
                      handoff, refused>>
          /\ aborted' \in BOOLEAN
      BY <1>13 DEF RaiseSignal, vars, loopVars, LoopTypes
    <2>2. CallInv'
      BY <2>1, CallKept
    <2>3. LoopTypes'
      BY <2>1 DEF LoopTypes
    <2>4. Ways'
      BY <2>1 DEF callVars, Ways, CallInHand, BelowLimit, NoCallLeftBehind, LimitSeen,
                  RefusalHolds
    <2> QED
      BY <2>2, <2>3, <2>4
  <1> QED
    BY <1>1, <1>2, <1>3, <1>4, <1>5, <1>6, <1>7, <1>8, <1>9, <1>10, <1>11, <1>12, <1>13
    DEF Next, LoopStep

\* The inductive invariant holds in every state of a turn.
THEOREM LoopInvariant == Spec => []LoopInv
  <1>1. Init => LoopInv
    BY LoopInit
  <1>2. LoopInv /\ [Next]_vars => LoopInv'
    BY LoopNext
  <1> QED
    BY <1>1, <1>2, PTL DEF Spec

\* Every variable of a turn keeps its type; the step limit is never exceeded.
THEOREM LoopTypesHold == Spec => []TypeOK
  <1>1. LoopInv => TypeOK
    BY DEF LoopInv
  <1> QED
    BY <1>1, LoopInvariant, PTL

\* recovered-turn.ts and agent-loop.ts: whichever way a truncated reply is
\* recovered, its tool plan never runs, the client shows the text the caller
\* gets and a reported stop is closed by one outcome; a turn that ends leaves
\* no requested call behind and reports that it reached its step limit.
THEOREM TurnIsSound == Spec => []TurnSound
  <1>1. LoopInv => TurnSound
    BY StepsAssumption DEF LoopInv, TurnSound, LimitSeen, LimitIsReported
  <1> QED
    BY <1>1, LoopInvariant, PTL

\* agent-loop.ts, runToolStep: no tool starts once the turn is cancelled, in a
\* step after one whose call was not approved, or out of a forced conclusion
\* or a handoff.
THEOREM ToolsKeptInHand == Spec => ToolsStayInHand
  <1> DEFINE Kept == tool # "running" /\ tool' = "running" =>
                         /\ aborted => stop = "error"
                         /\ ~refused
                         /\ purpose \in {"initial", "tool_followup"}
  <1>1. LoopInv /\ [Next]_vars => Kept
    <2> SUFFICES ASSUME LoopInv, Next, tool # "running", tool' = "running" PROVE Kept
      BY DEF vars, loopVars
    <2>1. InvokeTool
      BY DEF Next, LoopStep, FirstCall, InCall, CallThrew, CallReturned, BeginStep, CancelStep,
             AbortStep, ToolReturns, FollowUp, HandoffReturned, HandoffThrew, EndHandoff,
             EndLoop, RaiseSignal, Fail, loopVars
    <2> QED
      BY <2>1 DEF InvokeTool, StepCancelled, Cancelled, LoopInv, RefusalHolds
  <1> QED
    BY <1>1, LoopInvariant, PTL DEF Spec, ToolsStayInHand

=============================================================================
