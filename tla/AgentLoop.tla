----------------------------- MODULE AgentLoop ------------------------------
(***************************************************************************)
(* The agent loop of a native turn.                                        *)
(*                                                                         *)
(* A provider call with its bounded recovery (engine/recovered-turn.ts):   *)
(* the observed call, one refit of a request the provider rejected as too  *)
(* large, one superseding retry of a context overflow, or one continuation *)
(* of a truncated reply.  Text is the sequence of attempts that produced   *)
(* it; sizes are left out: whether a request fits and how a length stop is *)
(* classified are choices.                                                 *)
(*                                                                         *)
(* The loop itself (engine/agent-loop.ts): those calls, tool steps whose   *)
(* calls run in order, the follow-up after each step, the forced           *)
(* conclusion and the step-limit handoff, with the turn's cancel signal    *)
(* raised at any await.                                                    *)
(*                                                                         *)
(* A tool call is told apart only by whether an equal one was made before: *)
(* a model can always ask for something new.                               *)
(***************************************************************************)
EXTENDS Naturals, Sequences

CONSTANTS
    MaxToolSteps,   \* session.maxToolSteps
    MaxCalls        \* bound: tool calls one reply requests

ASSUME StepsAssumption == MaxToolSteps \in Nat /\ MaxCalls \in Nat \ {0}

-----------------------------------------------------------------------------
(* A call with its recovery.                                               *)

VARIABLES
    call,       \* where the call is
    purpose,    \* what the agent loop makes it for
    retryable,  \* modelSupportsTranscriptRetry
    sent,       \* attempts begun
    stop,       \* stop reason of the latest reply
    tools,      \* whether that reply requests tools
    text,       \* attempts whose text the caller gets
    screen,     \* attempts whose text the client shows
    trail,      \* lengthStopDetected / lengthRecoveryFinished frames
    error       \* what it threw

callVars == <<call, purpose, retryable, sent, stop, tools, text, screen, trail,
              error>>

Purposes == {"initial", "tool_followup", "forced_conclusion",
             "step_limit_handoff"}
Attempts == {"first", "refitRetry", "overflowRetry", "continueRetry"}
Calls == Attempts \cup {"idle", "refit", "plan", "supersede", "continue",
                        "returned", "threw"}
Stops == {"stop", "tool_use", "length", "error", "aborted"}
Errors == {"provider", "conclusion", "rejected", "overflow", "budget", "signal",
           "uncertain"}
Frames == {"detected", "recovered", "still_truncated", "overflow_failed",
           "retry_errored", "retry_unsupported", "retry_would_overflow",
           "retry_refused_budget"}

CallInit ==
    /\ call = "idle"
    /\ purpose = "initial"
    /\ retryable \in BOOLEAN
    /\ sent = 0
    /\ stop = "stop"
    /\ tools = FALSE
    /\ text = <<>>
    /\ screen = <<>>
    /\ trail = <<>>
    /\ error = "none"

\* recoveredTurn is called.  What the client showed of an earlier call is
\* that call's.
BeginCall(p) ==
    /\ call' = "first"
    /\ purpose' = p
    /\ sent' = 0
    /\ stop' = "stop"
    /\ tools' = FALSE
    /\ text' = <<>>
    /\ screen' = <<>>
    /\ trail' = <<>>
    /\ error' = "none"
    /\ UNCHANGED retryable

\* The error recoveredTurn lets out: a rejection that outlived its refit is
\* a context overflow.
Throw(e) ==
    /\ call' = "threw"
    /\ error' = IF e = "rejected" THEN "overflow" ELSE e
    /\ UNCHANGED <<purpose, retryable, sent, stop, tools, text, screen>>

\* The mapping the agent loop passes with its handoff call: a provider
\* failure becomes the handoff's, a rejection keeps its class.  The
\* continuation retry is made without it.
Mapped(e) ==
    IF e = "provider" /\ purpose = "step_limit_handoff"
           /\ call # "continueRetry"
    THEN "conclusion" ELSE e

\* A gate refuses the attempt, or the provider fails it.  A first attempt or
\* a refit retry that fails has no trail to close.
AttemptFails(e) ==
    /\ call \in Attempts
    /\ e \in {"budget", "provider", "rejected"}
    /\ ~(call = "first" /\ e = "rejected")
    /\ ~(call = "continueRetry" /\ e = "budget")
    /\ Throw(Mapped(e))
    /\ trail' = IF call \in {"overflowRetry", "continueRetry"}
                THEN Append(trail, "retry_errored") ELSE trail

\* The provider rejects the first request as over its window.
FirstRejected ==
    /\ call = "first"
    /\ call' = "refit"
    /\ sent' = sent + 1
    /\ UNCHANGED <<purpose, retryable, stop, tools, text, screen, trail, error>>

\* refitRejected: the request is made smaller and sent again, or nothing
\* smaller can be made of it, or a summary may or may not have been saved.
Refit ==
    /\ call = "refit"
    /\ \/ /\ call' = "refitRetry"
          /\ UNCHANGED <<purpose, retryable, sent, stop, tools, text, screen,
                         trail, error>>
       \/ Throw("rejected") /\ UNCHANGED trail
       \/ Throw("uncertain") /\ UNCHANGED trail

\* Mutant: the tools a reply asked for are kept.
ToolsKept(reason, asked) == asked

\* A reply that ends truncated is delivered without its tool plan.
Delivered(reason, asked) == asked /\ reason # "length"

\* The frames a reply adds to the trail: a retry's outcome, and the stop
\* itself when a refitted request's reply is the first to be truncated.
ReplyTrail(reason) ==
    IF call = "first" \/ (call = "refitRetry" /\ reason # "length") THEN <<>>
    ELSE IF call = "refitRetry" THEN <<"detected", "still_truncated">>
    ELSE IF reason = "length" THEN <<"still_truncated">> ELSE <<"recovered">>

\* A reply arrives and is the call's result: not truncated, or truncated
\* after the one retry.
Reply(reason, asked) ==
    /\ call \in Attempts
    /\ sent' = sent + 1
    /\ stop' = reason
    /\ screen' = Append(screen, sent + 1)
    /\ text' = IF call = "continueRetry" THEN Append(text, sent + 1)
               ELSE <<sent + 1>>
    /\ tools' = Delivered(reason, asked)
    /\ call' = "returned"
    /\ trail' = trail \o ReplyTrail(reason)
    /\ ~(call = "first" /\ reason = "length")
    /\ UNCHANGED <<purpose, retryable, error>>

\* A retry's reply is truncated because the window is full: no third call.
OverflowsAgain ==
    /\ call \in {"refitRetry", "overflowRetry"}
    /\ call' = "threw"
    /\ error' = "overflow"
    /\ sent' = sent + 1
    /\ screen' = Append(screen, sent + 1)
    /\ trail' = trail \o (IF call = "refitRetry"
                          THEN <<"detected", "overflow_failed">>
                          ELSE <<"overflow_failed">>)
    /\ UNCHANGED <<purpose, retryable, stop, tools, text>>

\* The first reply is truncated: classifyStop, then recovery by its class.
Truncated(asked) ==
    /\ call = "first"
    /\ sent' = sent + 1
    /\ stop' = "length"
    /\ tools' = asked
    /\ text' = <<sent + 1>>
    /\ screen' = Append(screen, sent + 1)
    /\ trail' = Append(trail, "detected")
    /\ call' \in {"plan", "continue"}
    /\ UNCHANGED <<purpose, retryable, error>>

\* recoverOverflow up to its plan: no transcript retry, no plan, a plan
\* whose making failed, or a plan.
PlanRecovery ==
    /\ call = "plan"
    /\ \/ /\ retryable
          /\ call' = "supersede"
          /\ UNCHANGED <<purpose, retryable, sent, stop, tools, text, screen,
                         trail, error>>
       \/ Throw("overflow") /\ trail' = Append(trail, "overflow_failed")
       \/ /\ retryable
          /\ Throw("uncertain")
          /\ trail' = Append(trail, "retry_errored")

\* Mutant: the client is not told.
ShownKept == screen

\* The client drops the text it shows.
ShownDropped == <<>>

\* deliverSupersedingRetrySignal, before any text of the retry; undelivered,
\* there is no retry.
Supersede ==
    /\ call = "supersede"
    /\ \/ /\ call' = "overflowRetry"
          /\ screen' = ShownDropped
          /\ UNCHANGED <<purpose, retryable, sent, stop, tools, text, trail,
                         error>>
       \/ Throw("signal") /\ trail' = Append(trail, "retry_errored")

\* The announced plan is sized like any request, and does not fit.
PlanTooLarge ==
    /\ call = "overflowRetry"
    /\ Throw("overflow")
    /\ trail' = Append(trail, "overflow_failed")

\* The truncated partial is the result, without its tools.
DeliverPartial(outcome) ==
    /\ call' = "returned"
    /\ tools' = Delivered("length", tools)
    /\ trail' = Append(trail, outcome)
    /\ UNCHANGED <<purpose, retryable, sent, stop, text, screen, error>>

\* continueTruncated up to its retry.
ContinueTruncated ==
    /\ call = "continue"
    /\ \/ ~retryable /\ DeliverPartial("retry_unsupported")
       \/ retryable /\ DeliverPartial("retry_would_overflow")
       \/ /\ retryable
          /\ call' = "continueRetry"
          /\ UNCHANGED <<purpose, retryable, sent, stop, tools, text, screen,
                         trail, error>>

\* Mutant: the refusal leaves its trail open.
PartialUnreported ==
    /\ call' = "returned"
    /\ tools' = Delivered("length", tools)
    /\ UNCHANGED <<purpose, retryable, sent, stop, text, screen, trail, error>>

\* The operator's envelope refuses the retry, not the turn.
RefusedPartial == DeliverPartial("retry_refused_budget")

ContinuationRefused ==
    /\ call = "continueRetry"
    /\ RefusedPartial

CallStep ==
    \/ \E e \in Errors : AttemptFails(e)
    \/ \E reason \in Stops, asked \in BOOLEAN : Reply(reason, asked)
    \/ \E asked \in BOOLEAN : Truncated(asked)
    \/ FirstRejected \/ Refit \/ OverflowsAgain \/ PlanRecovery \/ Supersede
    \/ PlanTooLarge \/ ContinueTruncated \/ ContinuationRefused

-----------------------------------------------------------------------------
(* The loop.                                                               *)

VARIABLES
    loop,       \* where the loop is
    nextWork,   \* session.isNextWork: the reply is data, its tools never run
    toolSteps,  \* state.toolSteps
    todo,       \* calls of the step not yet run
    tool,       \* the call in hand: none, running, or its result to bound
    allRepeats, \* every call of the step repeats an earlier one
    denied,     \* a call of the step was not approved
    aborted,    \* the turn's signal
    handoff,    \* state.stepLimitHandoff
    refused     \* history: a call of an earlier step was not approved

loopVars == <<loop, nextWork, toolSteps, todo, tool, allRepeats, denied,
              aborted, handoff, refused>>
vars == <<callVars, loopVars>>

Init ==
    /\ CallInit
    /\ loop = "start"
    /\ nextWork \in BOOLEAN
    /\ toolSteps = 0
    /\ todo = 0
    /\ tool = "none"
    /\ allRepeats = FALSE
    /\ denied = FALSE
    /\ aborted = FALSE
    /\ handoff = "none"
    /\ refused = FALSE

-----------------------------------------------------------------------------
\* The turn is cancelled.
RaiseSignal ==
    /\ ~aborted
    /\ loop \notin {"ended", "failed"}
    /\ aborted' = TRUE
    /\ UNCHANGED <<callVars, loop, nextWork, toolSteps, todo, tool, allRepeats,
                   denied, handoff, refused>>

Fail ==
    /\ loop' = "failed"
    /\ UNCHANGED <<callVars, nextWork, toolSteps, todo, tool, allRepeats, denied,
                   aborted, handoff, refused>>

\* The request is fitted to the window, which may throw, and sent.
FirstCall ==
    /\ loop = "start"
    /\ \/ Fail
       \/ /\ loop' = "calling"
          /\ BeginCall("initial")
          /\ UNCHANGED <<nextWork, toolSteps, todo, tool, allRepeats, denied,
                         aborted, handoff, refused>>

\* The provider call and its recovery run.  Only a cancelled call ends aborted.
InCall ==
    /\ loop \in {"calling", "handingOff"}
    /\ CallStep
    /\ stop' = "aborted" => aborted
    /\ UNCHANGED loopVars

CallThrew ==
    /\ loop = "calling"
    /\ call = "threw"
    /\ Fail

\* abortedIfCancelled's condition, on a reply that stopped for this reason.
Cancelled(reason) == aborted /\ reason # "error"

\* Mutant: a cancelled reply keeps its tool calls.
Regardless(asked, reason) == asked

\* What abortedIfCancelled leaves of a reply's tool calls.
UnlessCancelled(asked, reason) == asked /\ ~Cancelled(reason)

\* Mutant: one step late.
PastCap == toolSteps > MaxToolSteps

\* nextRequestShape.
AtCap == toolSteps >= MaxToolSteps
ForceConclude == AtCap \/ allRepeats \/ denied

\* withoutToolCalls, for a forced conclusion.
ToolsAfter == tools /\ purpose # "forced_conclusion"

\* withoutToolCalls, on the stop reason.
StopAfter == IF tools /\ ~ToolsAfter THEN "stop" ELSE stop

\* A reply came back: a forced conclusion loses its tools, then a cancelled
\* turn.
CallReturned ==
    /\ loop = "calling"
    /\ call = "returned"
    /\ call' = "idle"
    /\ stop' = IF Cancelled(StopAfter) THEN "aborted" ELSE StopAfter
    /\ tools' = UnlessCancelled(ToolsAfter, StopAfter)
    /\ loop' = "between"
    /\ UNCHANGED <<purpose, retryable, sent, text, screen, trail, error,
                   nextWork, toolSteps, todo, tool, allRepeats, denied, aborted,
                   handoff, refused>>

\* Mutants: the step is not counted, or twice.
StepUncounted == toolSteps
StepCountedTwice == toolSteps + 2

StepCounted == toolSteps + 1

MayStep == ~nextWork /\ ~aborted /\ tools /\ toolSteps < MaxToolSteps

\* runToolStep, up to its first await.
BeginStep ==
    /\ loop = "between"
    /\ MayStep
    /\ toolSteps' = StepCounted
    /\ \E n \in 1..MaxCalls, repeats \in BOOLEAN :
           /\ repeats => toolSteps > 0
           /\ todo' = n
           /\ allRepeats' = repeats
    /\ denied' = FALSE
    /\ loop' = "step"
    /\ UNCHANGED <<callVars, nextWork, tool, aborted, handoff, refused>>

\* A step cut short by the signal ends the loop.
AbortStep ==
    /\ loop' = "between"
    /\ tool' = "none"
    /\ todo' = 0
    /\ stop' = "aborted"
    /\ tools' = FALSE
    /\ UNCHANGED <<call, purpose, retryable, sent, text, screen, trail, error,
                   nextWork, toolSteps, allRepeats, denied, aborted, handoff,
                   refused>>

\* Mutant: the signal is read between steps only.
NotLooked == FALSE

\* runToolStep's cancelled().
StepCancelled == Cancelled(stop)

\* Before each call, and after each result is bounded: the signal, then the
\* next call, which starts in the same step.
InvokeTool ==
    /\ loop = "step"
    /\ tool \in {"none", "bounded"}
    /\ ~StepCancelled
    /\ todo > 0
    /\ tool' = "running"
    /\ todo' = todo - 1
    /\ UNCHANGED <<callVars, loop, nextWork, toolSteps, allRepeats, denied,
                   aborted, handoff, refused>>

CancelStep ==
    /\ loop = "step"
    /\ tool \in {"none", "bounded"}
    /\ StepCancelled
    /\ AbortStep

\* The call ends: a result (an error included), a refusal, an approval the
\* cancel interrupted, or an unexpected error that fails the turn.
ToolReturns ==
    /\ loop = "step"
    /\ tool = "running"
    /\ \/ /\ tool' = "bounded"
          /\ denied' \in {denied, TRUE}
          /\ UNCHANGED <<callVars, loop, nextWork, toolSteps, todo, allRepeats,
                         aborted, handoff, refused>>
       \/ aborted /\ AbortStep
       \/ Fail

\* followUp: the ordinary call, the forced conclusion, or the handoff.  The
\* request is fitted first: at the cap one that cannot fit is noticed, and a
\* summary that may or may not have been saved fails the turn.
FollowUp ==
    /\ loop = "step"
    /\ tool = "bounded"
    /\ todo = 0
    /\ ~StepCancelled
    /\ tool' = "none"
    /\ refused' = (refused \/ denied)
    /\ \/ /\ AtCap
          /\ loop' = "handingOff"
          /\ BeginCall("step_limit_handoff")
          /\ UNCHANGED handoff
       \/ /\ AtCap /\ ~aborted \* the handoff cannot be made to fit
          /\ loop' = "between"
          /\ handoff' = "notice"
          /\ stop' = "stop"
          /\ tools' = FALSE
          /\ UNCHANGED <<call, purpose, retryable, sent, text, screen, trail,
                         error>>
       \/ /\ ~AtCap
          /\ loop' = "calling"
          /\ BeginCall(IF ForceConclude THEN "forced_conclusion"
                       ELSE "tool_followup")
          /\ UNCHANGED handoff
       \/ loop' = "failed" /\ UNCHANGED <<callVars, handoff>>
    /\ UNCHANGED <<nextWork, toolSteps, todo, allRepeats, denied, aborted>>

\* isHandoffFailure.
IsHandoffFailure(e) == e \in {"conclusion", "overflow", "budget"}

\* stepLimitHandoff after its call.
EndHandoff(source, reason) ==
    /\ handoff' = source
    /\ stop' = reason
    /\ tools' = FALSE
    /\ call' = "idle"
    /\ loop' = "between"
    /\ UNCHANGED <<purpose, retryable, sent, text, screen, trail, error,
                   nextWork, toolSteps, todo, tool, allRepeats, denied, aborted,
                   refused>>

\* The reply is a handoff, is none, or was aborted.
HandoffReturned ==
    /\ loop = "handingOff"
    /\ call = "returned"
    /\ \/ stop # "error" /\ stop # "aborted" /\ EndHandoff("model",
              IF aborted THEN "aborted" ELSE IF tools THEN "stop" ELSE stop)
       \/ stop # "aborted" /\ EndHandoff("notice",
              IF aborted THEN "aborted" ELSE "stop")
       \/ stop = "aborted" /\ EndHandoff("none", "aborted")

HandoffThrew ==
    /\ loop = "handingOff"
    /\ call = "threw"
    /\ IF ~aborted /\ IsHandoffFailure(error)
       THEN EndHandoff("notice", "stop")
       ELSE Fail

\* The loop's condition fails: its last look at the signal, and its result.
EndLoop ==
    /\ loop = "between"
    /\ ~MayStep
    /\ loop' = "ended"
    /\ stop' = IF Cancelled(stop) THEN "aborted" ELSE stop
    /\ tools' = UnlessCancelled(tools, stop)
    /\ UNCHANGED <<call, purpose, retryable, sent, text, screen, trail, error,
                   nextWork, toolSteps, todo, tool, allRepeats, denied, aborted,
                   handoff, refused>>

LoopStep ==
    \/ FirstCall \/ InCall \/ CallThrew \/ CallReturned \/ BeginStep
    \/ InvokeTool \/ CancelStep \/ ToolReturns \/ FollowUp \/ HandoffReturned
    \/ HandoffThrew \/ EndLoop

Next == LoopStep \/ RaiseSignal

Spec == Init /\ [][Next]_vars

\* Provider calls and tools settle, so the loop's own steps go on.
FairSpec == Spec /\ WF_vars(LoopStep)

-----------------------------------------------------------------------------
(* Properties.                                                             *)

CallTypeOK ==
    /\ call \in Calls
    /\ purpose \in Purposes
    /\ retryable \in BOOLEAN
    /\ sent \in 0..2
    /\ stop \in Stops
    /\ tools \in BOOLEAN
    /\ text \in Seq(1..2)
    /\ screen \in Seq(1..2)
    /\ trail \in Seq(Frames)
    /\ error \in Errors \cup {"none"}

\* A truncated reply is never run: whichever way recovery ends, a result
\* that stopped for length carries no tool calls.
TruncatedPlanNeverRuns == call = "returned" /\ stop = "length" => ~tools

\* What a streaming client shows at the end is the text the caller gets: a
\* superseded partial is dropped before its replacement arrives, a continued
\* one is kept.
ScreenShowsReply == call = "returned" => screen = text

\* A reported length stop is always closed by exactly one outcome, also when
\* recovery throws.
TrailClosed ==
    /\ call \in {"returned", "threw"} =>
           Len(trail) \in {0, 2} /\ (Len(trail) = 2 => trail[1] = "detected")
    /\ call \in {"plan", "supersede", "overflowRetry", "continue",
                 "continueRetry"} => trail = <<"detected">>

TypeOK ==
    /\ CallTypeOK
    /\ loop \in {"start", "calling", "between", "step", "handingOff", "ended",
                 "failed"}
    /\ nextWork \in BOOLEAN
    /\ toolSteps \in 0..MaxToolSteps
    /\ todo \in 0..MaxCalls
    /\ tool \in {"none", "running", "bounded"}
    /\ allRepeats \in BOOLEAN
    /\ denied \in BOOLEAN
    /\ aborted \in BOOLEAN
    /\ handoff \in {"none", "model", "notice"}
    /\ refused \in BOOLEAN

\* A tool never starts once the turn is cancelled (a reply the provider
\* failed excepted), nor in a step after one whose call was not approved,
\* nor out of a forced conclusion or a handoff.
ToolsStayInHand ==
    [][tool # "running" /\ tool' = "running" =>
           /\ aborted => stop = "error"
           /\ ~refused
           /\ purpose \in {"initial", "tool_followup"}]_vars

\* A turn that ends without failing leaves no requested tool call behind in
\* its result, except the data of a next-work reply, a runtime with no tool
\* steps and a reply the provider failed.
NoCallLeftBehind ==
    loop = "ended" /\ ~nextWork /\ MaxToolSteps > 0 /\ stop # "error" => ~tools

\* Reaching the step limit is never silent: the turn ends with the model's
\* handoff or with the runtime's notice, unless it was cancelled or failed.
LimitIsReported ==
    /\ loop = "ended" /\ toolSteps = MaxToolSteps /\ stop # "aborted"
           /\ MaxToolSteps > 0 => handoff # "none"
    /\ handoff # "none" => toolSteps = MaxToolSteps

\* Whatever the model asks for, the loop ends.
LoopEnds == <>(loop \in {"ended", "failed"})

\* A handoff call the provider fails ends in the notice, not in a failed turn,
\* unless the turn was cancelled.
HandoffFailureIsNoticed ==
    loop = "failed" /\ purpose = "step_limit_handoff" /\ call = "threw" =>
        aborted \/ error \in {"signal", "uncertain"}


\* recovered-turn.ts and agent-loop.ts: whichever way a truncated reply is
\* recovered, its tool plan never runs, the client ends up showing the text
\* the caller gets and the reported stop is closed by exactly one outcome; a
\* turn that ends leaves no requested call behind, and says when it reached
\* its step limit.
TurnSound ==
    /\ TruncatedPlanNeverRuns /\ ScreenShowsReply /\ TrailClosed
    /\ NoCallLeftBehind /\ LimitIsReported
=============================================================================
