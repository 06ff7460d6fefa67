----------------------------- MODULE AcpPrompt ------------------------------
(***************************************************************************)
(* The prompts of one live external-agent session and the permission       *)
(* requests the agent makes meanwhile (LiveAcpSession.prompt and           *)
(* #handlePermissionRequest of prototype/src/acp-client.ts).               *)
(*                                                                         *)
(* The agent is the environment: it asks for permission, streams updates,  *)
(* ends the prompt for a reason of its own, breaks the protocol or exits.  *)
(* So are the operator, who may never answer, the turn's abort signal and  *)
(* the journal that a verdict is written to.                               *)
(***************************************************************************)
EXTENDS Naturals, Sequences, FiniteSets

CONSTANTS
    Requests,       \* permission requests, each made at most once
    Prompts,        \* bound: prompts sent to the session
    Budget,         \* active time of one prompt, in ticks
    MaxUpdates,     \* session-update limit of a prompt
    MaxPermissions, \* MAX_PERMISSION_REQUESTS
    Asked           \* TRUE when the turn has an approver

ASSUME LimitsAssumption == {Prompts, Budget, MaxUpdates, MaxPermissions} \subseteq Nat

VARIABLES
    alive,      \* isAlive
    broken,     \* #protocolError is set
    pc,         \* where prompt() is
    sent,       \* prompts begun
    window,     \* ~#permissionsClosed
    cancelled,  \* #cancelRequested
    stop,       \* the terminal message and whether the cancel preceded it
    updates,    \* updateCount of this prompt
    count,      \* #permissionCount
    budget,     \* remaining active time
    paused,     \* the prompt deadline is paused
    req,        \* request -> where its handler is, and what it will say
    trail,      \* request -> verdicts journalled for it
    outcome     \* prompt -> how it ended

sessionVars == <<alive, broken>>
promptVars == <<pc, sent, window, cancelled, stop, updates, outcome>>
clockVars == <<budget, paused>>
requestVars == <<count, req, trail>>
vars == <<sessionVars, promptVars, clockVars, requestVars>>

Phases == {"none", "running", "settling", "acknowledging"}
Stops == {"end_turn", "max_tokens", "max_turn_requests", "cancelled", "refusal"}
Outcomes == {"none", "stop", "length", "error", "aborted", "failed"}
Steps == {"none", "confirming", "recording", "revoking", "answered"}
Decisions == {"approve", "deny", "cancel"}
Fresh == [at |-> "none", prompt |-> 0, decision |-> "cancel", told |-> "none",
          kept |-> FALSE]   \* kept: the verdict's write has a prompt to go to

Confirming == {r \in Requests : req[r].at = "confirming"}
Open == {r \in Requests : req[r].at \in {"confirming", "recording", "revoking"}}

TypeOK ==
    /\ alive \in BOOLEAN /\ broken \in BOOLEAN
    /\ pc \in Phases /\ sent \in 0..Prompts
    /\ window \in BOOLEAN /\ cancelled \in BOOLEAN
    /\ stop \in [reason : Stops \cup {"none"}, late : BOOLEAN]
    /\ updates \in 0..MaxUpdates /\ count \in Nat
    /\ budget \in 0..Budget /\ paused \in BOOLEAN
    /\ req \in [Requests -> [at : Steps, prompt : 0..Prompts,
                             decision : Decisions,
                             told : Decisions \cup {"none", "error"},
                             kept : BOOLEAN]]
    /\ trail \in [Requests -> Seq(Decisions)]
    /\ outcome \in [1..Prompts -> Outcomes]

Init ==
    /\ alive = TRUE /\ broken = FALSE /\ pc = "none" /\ sent = 0
    /\ window = FALSE /\ cancelled = FALSE
    /\ stop = [reason |-> "none", late |-> FALSE]
    /\ updates = 0 /\ count = 0 /\ budget = 0 /\ paused = FALSE
    /\ req = [r \in Requests |-> Fresh]
    /\ trail = [r \in Requests |-> <<>>]
    /\ outcome = [p \in 1..Prompts |-> "none"]

-----------------------------------------------------------------------------
(* prompt() *)

\* A prompt resets the exchange; one whose signal is aborted returns at once.
StartPrompt(aborted) ==
    /\ alive /\ ~broken /\ pc = "none" /\ sent < Prompts
    /\ sent' = sent + 1
    /\ cancelled' = FALSE /\ count' = 0 /\ updates' = 0
    /\ stop' = [reason |-> "none", late |-> FALSE]
    /\ window' = ~aborted
    /\ pc' = IF aborted THEN "none" ELSE "running"
    /\ outcome' = IF aborted THEN [outcome EXCEPT ![sent + 1] = "aborted"]
                  ELSE outcome
    /\ IF aborted THEN UNCHANGED clockVars
       ELSE budget' = Budget /\ paused' = (Confirming # {} /\ Budget > 0)
    /\ UNCHANGED <<sessionVars, req, trail>>

\* requestCancelAndWake
Abort ==
    /\ pc # "none" /\ ~cancelled
    /\ cancelled' = TRUE /\ window' = FALSE
    /\ UNCHANGED <<sessionVars, pc, sent, stop, updates, outcome, clockVars,
                   requestVars>>

\* prompt() returns or throws; a throw breaks the session, for onBroken and
\* the caller close it.
Ends(o) ==
    /\ outcome' = [outcome EXCEPT ![sent] = o]
    /\ pc' = "none" /\ window' = FALSE
    /\ alive' = (alive /\ o # "failed")
    /\ UNCHANGED <<broken, sent, cancelled, stop, updates, clockVars,
                   requestVars>>

\* A session update within the limit; one past it ends the prompt.
UpdateUpTo(limit) ==
    /\ pc = "running"
    /\ \/ /\ updates < limit /\ updates' = updates + 1
          /\ UNCHANGED <<sessionVars, pc, sent, window, cancelled, stop,
                         outcome, clockVars, requestVars>>
       \/ updates = limit /\ Ends("failed")

UpdateOneOver == UpdateUpTo(MaxUpdates + 1)

Update == UpdateUpTo(MaxUpdates)

\* The protocol error, the agent's exit or a failed prompt request wakes the
\* loop and the prompt throws.
Fails ==
    /\ pc = "running" /\ (broken \/ ~alive)
    /\ Ends("failed")

\* Active time passes, and the prompt times out when none is left; a cancelled
\* prompt has the cancellation timeout instead.
Tick ==
    /\ pc = "running" /\ ~cancelled /\ ~paused /\ budget > 0
    /\ budget' = budget - 1
    /\ UNCHANGED <<sessionVars, promptVars, paused, requestVars>>

TimesOutWhen(late) == pc = "running" /\ late /\ Ends("failed")

TimesOutActive == TimesOutWhen(~cancelled /\ ~paused /\ budget = 0)
TimesOutCancelled == TimesOutWhen(cancelled)

TimesOut == TimesOutWhen(cancelled \/ (~paused /\ budget = 0))

\* The agent's terminal message, which may be read after the agent exited: the window closes and prompt() waits for the
\* requests and verdicts under way.
TerminalAs(reason, settle) ==
    /\ pc = "running" /\ ~broken
    /\ stop' = [reason |-> reason, late |-> cancelled]
    /\ window' = FALSE /\ pc' = settle
    /\ UNCHANGED <<sessionVars, sent, cancelled, updates, outcome, clockVars,
                   requestVars>>

TerminalAtOnce(reason) == TerminalAs(reason, "acknowledging")

Terminal(reason) == TerminalAs(reason, "settling")

\* #waitForPendingPermissionWork is over.
Settled ==
    /\ pc = "settling" /\ Open = {}
    /\ IF broken THEN Ends("failed")
       ELSE /\ pc' = "acknowledging"
            /\ UNCHANGED <<sessionVars, sent, window, cancelled, stop, updates,
                           outcome, clockVars, requestVars>>

\* normalizeStopReason
Normalized(reason) ==
    CASE reason = "end_turn" -> "stop"
      [] reason \in {"max_tokens", "max_turn_requests"} -> "length"
      [] reason = "cancelled" -> "aborted"
      [] reason = "refusal" -> "error"

\* A cancel that came before the terminal message must be acknowledged by it,
\* and its notification must have been sent in time.
Concluded(late) ==
    \/ late /\ Ends("failed")
    \/ late /\ stop.reason = "cancelled" /\ Ends("aborted")
    \/ ~late /\ Ends(Normalized(stop.reason))

UnacknowledgedReturn ==
    pc = "acknowledging" /\ Concluded(FALSE)

Return == pc = "acknowledging" /\ Concluded(stop.late)

-----------------------------------------------------------------------------
(* #handlePermissionRequest, under #trackPermissionRequest *)

\* A cancel verdict is to be written, if the prompt is still there to take it.
Revoke(r) ==
    req' = [req EXCEPT ![r].at = "revoking", ![r].decision = "cancel",
                       ![r].kept = (pc # "none")]
Told(r, what) ==
    req' = [req EXCEPT ![r].at = "answered", ![r].told = what]

\* #beginPermissionConfirmation, #endPermissionConfirmation
PauseFor(others) == paused' = (paused \/ (others = {} /\ budget > 0))
ResumeEach(others) == paused' = FALSE
ResumeAfter(others) == paused' = (paused /\ others # {})

\* The request is refused at once outside a prompt's window; a foreign session
\* (not counted), a malformed option list or one request too many is a protocol
\* error.
Ask(r) ==
    /\ req[r].at = "none" /\ alive
    /\ \/ /\ ~window
          /\ Told(r, "cancel")
          /\ UNCHANGED <<broken, count, paused>>
       \/ /\ window
          /\ \/ /\ req' = [req EXCEPT ![r] = [Fresh EXCEPT !.at = "answered",
                                              !.prompt = sent, !.told = "cancel"]]
                /\ count' \in {count, count + 1}
                /\ broken' = TRUE
                /\ UNCHANGED paused
             \/ /\ count < MaxPermissions /\ count' = count + 1
                /\ req' = [req EXCEPT ![r] = [Fresh EXCEPT !.prompt = sent,
                             !.at = IF Asked THEN "confirming" ELSE "recording",
                             !.decision = "deny", !.kept = TRUE]]
                /\ UNCHANGED broken
                /\ IF Asked THEN PauseFor(Confirming) ELSE UNCHANGED paused
    /\ UNCHANGED <<alive, promptVars, budget, trail>>

\* The operator selects an option; an unknown or empty selection is refused
\* with a reject option, or cancelled when the agent offers none.
Selects(r, d) ==
    /\ req[r].at = "confirming"
    /\ req' = [req EXCEPT ![r].at = IF cancelled THEN "revoking" ELSE "recording",
                          ![r].decision = IF cancelled THEN "cancel" ELSE d,
                          ![r].kept = (pc # "none")]
    /\ ResumeAfter(Confirming \ {r})
    /\ UNCHANGED <<sessionVars, promptVars, budget, count, trail>>

\* The window closes under a confirmation.
Withdrawn(r) ==
    /\ req[r].at = "confirming" /\ ~window
    /\ Revoke(r)
    /\ ResumeAfter(Confirming \ {r})
    /\ UNCHANGED <<sessionVars, promptVars, budget, count, trail>>

\* The confirmation itself throws: #trackPermissionRequest breaks the exchange.
ConfirmFails(r) ==
    /\ req[r].at = "confirming"
    /\ Told(r, "error") /\ broken' = TRUE
    /\ ResumeAfter(Confirming \ {r})
    /\ UNCHANGED <<alive, promptVars, budget, count, trail>>

\* onPermissionVerdict of the prompt the write began under; without a prompt
\* nothing is written.
Journal(r, d) ==
    trail' = IF req[r].kept THEN [trail EXCEPT ![r] = Append(@, d)] ELSE trail

\* The verdict is written.  A window that closed meanwhile turns the answer
\* into a cancel, which is written too.
RecordedAs(r, open) ==
    /\ req[r].at = "recording"
    /\ Journal(r, req[r].decision)
    /\ IF open THEN Told(r, req[r].decision)
       ELSE Revoke(r)
    /\ UNCHANGED <<sessionVars, promptVars, clockVars, count>>

RecordedUnchecked(r) == RecordedAs(r, TRUE)

Recorded(r) == RecordedAs(r, window)

\* The write fails or times out: the exchange is broken, unless it was
\* abandoned because the window closed.
UnrecordedAs(r, open) ==
    /\ req[r].at = "recording"
    /\ IF open THEN Told(r, "error") /\ broken' = TRUE
       ELSE Revoke(r) /\ UNCHANGED broken
    /\ UNCHANGED <<alive, promptVars, clockVars, count, trail>>

UnrecordedAnswered(r) ==
    /\ req[r].at = "recording"
    /\ Told(r, req[r].decision)
    /\ UNCHANGED <<sessionVars, promptVars, clockVars, count, trail>>

Unrecorded(r) == UnrecordedAs(r, window)

\* The cancel verdict is written, or its write fails and breaks the exchange.
RevokedSilently(r) ==
    /\ req[r].at = "revoking" /\ Told(r, "cancel")
    /\ UNCHANGED <<sessionVars, promptVars, clockVars, count, trail>>

Revoked(r) ==
    /\ req[r].at = "revoking"
    /\ \/ Journal(r, "cancel") /\ Told(r, "cancel") /\ UNCHANGED broken
       \/ Told(r, "error") /\ broken' = TRUE /\ UNCHANGED trail
    /\ UNCHANGED <<alive, promptVars, clockVars, count>>

\* #noteProtocolError: a malformed or foreign message, or a limit passed.
ProtocolError ==
    /\ alive /\ ~broken /\ broken' = TRUE /\ alive' = FALSE
    /\ UNCHANGED <<promptVars, clockVars, requestVars>>

\* The agent exits or its connection fails, which is no protocol error: the
\* session is no longer alive, and a prompt that is running fails.
AgentExits ==
    /\ alive /\ alive' = FALSE
    /\ UNCHANGED <<broken, promptVars, clockVars, requestVars>>

-----------------------------------------------------------------------------

Next ==
    \/ \E a \in BOOLEAN : StartPrompt(a)
    \/ Abort \/ Update \/ Fails \/ Tick \/ TimesOut \/ Settled \/ Return
    \/ \E reason \in Stops : Terminal(reason)
    \/ \E r \in Requests :
         \/ Ask(r) \/ Withdrawn(r) \/ ConfirmFails(r)
         \/ Recorded(r) \/ Unrecorded(r) \/ Revoked(r)
         \/ \E d \in Decisions : Selects(r, d)
    \/ ProtocolError \/ AgentExits

Spec == Init /\ [][Next]_vars

\* Timers fire and promises whose wait is bounded settle.  Nothing makes the
\* agent speak, the operator answer or the turn be cancelled.
Fairness ==
    /\ WF_vars(Fails) /\ WF_vars(Tick) /\ WF_vars(TimesOut)
    /\ WF_vars(Settled) /\ WF_vars(Return)
    /\ \A r \in Requests : /\ WF_vars(Withdrawn(r)) /\ WF_vars(Revoked(r))
                           /\ WF_vars(Recorded(r) \/ Unrecorded(r))

LiveSpec == Spec /\ Fairness

-----------------------------------------------------------------------------
(* Properties *)

Last(s) == s[Len(s)]

\* The agent is told to go ahead only when the operator's approval is in the
\* journal, and nothing was written after it.
AllowedIsRecorded ==
    \A r \in Requests :
        req[r].told = "approve" => trail[r] # <<>> /\ Last(trail[r]) = "approve"

\* A prompt that returned a result leaves no permission request under way: its
\* audit trail is complete when the turn goes on.
ReturnedIsSettled ==
    \A r \in Open : req[r].prompt > 0
                    => outcome[req[r].prompt] \in {"none", "failed"}

\* The journal agrees with the agent: of a prompt that returned, the last
\* verdict written for a request is the answer the agent got.
TrailMatchesAnswers ==
    \A r \in Requests :
        /\ req[r].at = "answered" /\ req[r].prompt > 0 /\ trail[r] # <<>>
        /\ outcome[req[r].prompt] \notin {"none", "failed"}
        => Last(trail[r]) = req[r].told

\* No permission is given once the operator has cancelled the turn.
NoConsentAfterCancel ==
    [][\A r \in Requests : req'[r].told # req[r].told /\ cancelled
                           => req'[r].told \in {"cancel", "error"}]_vars

\* The operator's thinking time is not the agent's: the deadline stands still
\* exactly while a confirmation is pending, unless it had already run out.
DeadlinePaused ==
    /\ paused => Confirming # {}
    /\ Confirming # {} /\ pc = "running" => paused \/ budget = 0

\* A cancelled prompt never reports success: it is aborted or it fails.
CancelledNeverSucceeds ==
    \A p \in 1..Prompts :
        p = sent /\ stop.late /\ pc = "none"
        => outcome[p] \in {"aborted", "failed"}

\* acp-client.ts: a prompt returns with every permission request settled and
\* with the trail that says how: an answer that allowed something was recorded
\* first, and a cancelled prompt is never a success.
PromptHonest ==
    /\ AllowedIsRecorded /\ ReturnedIsSettled /\ TrailMatchesAnswers
    /\ DeadlinePaused /\ CancelledNeverSucceeds

\* A cancelled prompt ends, whatever the agent and the operator do.
CancelEndsPrompt == cancelled ~> pc = "none"

\* A prompt whose agent is silent ends too, unless an operator is asked.
PromptEnds == pc # "none" ~> (pc = "none" \/ Confirming # {})
=============================================================================
