------------------------------ MODULE AcpTurn ------------------------------
(***************************************************************************)
(* A turn of an external agent, from its first event to its last: what the *)
(* runtime captures of the agent's tool calls (acp-tool-evidence.ts), what *)
(* it makes of each call when the agent is done                            *)
(* (acp-tool-evidence-record.ts), the events it writes and in which order  *)
(* (external-agent-runtime.ts), and the history a later turn projects for  *)
(* a replacement agent.                                                    *)
(*                                                                         *)
(* A value the agent sends is known by its shape alone.  A patch carries   *)
(* one field: one of several fields is the same as a run of patches, an    *)
(* announcement first.                                                     *)
(***************************************************************************)
EXTENDS Integers, Sequences, FiniteSets, SequencesExt

CONSTANTS Calls,        \* usable call ids
          SecretIds,    \* the ones that look like a credential
          NoCall,       \* an update without a usable id
          Labels,       \* of {"title", "name", "kind"}
          Texts,        \* shapes of a label: "clean", "secret", "bad", "null"
          Raws,         \* shapes of a raw value: "clean", "secret", "big", "bigsecret"
          Statuses,     \* "completed", "failed", "pending", "other"
          MaxPatches,   \* bound on the updates of a turn
          MaxTurns,     \* bound on the turns of the session
          MaxPrior,     \* MAX_RECONSTRUCTED_PRIOR_MESSAGES
          Faults        \* whether a write may fail

VARIABLES pc,       \* where the turn is
          entries,  \* AcpToolEvidenceAccumulator.entries
          todo,     \* the prepared calls that are still to be written
          log,      \* the turn's events
          past,     \* of earlier turns: their number, their messages, the ids they recorded
          stop,     \* the agent's stop reason
          begun,    \* sessionStartWritten
          frame,    \* the last runtime event of the turn
          count,    \* patches seen
          sent      \* per call: the last values the agent sent, for the properties

vars == <<pc, entries, todo, log, past, stop, begun, frame, count, sent>>
traceVars == <<log, past, begun, frame>>

-----------------------------------------------------------------------------
(* Capture *)

NewEntry(c, malformed) ==
    [id |-> c, malformed |-> malformed, labels |-> [f \in Labels |-> "none"],
     status |-> "none", input |-> "none", inputProblem |-> "none",
     output |-> "none", outputProblem |-> "none"]

IndexOf(c) == {i \in DOMAIN entries : entries[i].id = c}

PatchString(e, f, v, update) ==
    IF v \in {"clean", "secret"} THEN [e EXCEPT !.labels[f] = v]
    ELSE IF f = "name" /\ update /\ v = "null" THEN e
    ELSE [e EXCEPT !.labels[f] = "none",
                   !.malformed = @ \/ v # "null"]

PatchStatus(e, v) ==
    [e EXCEPT !.status = IF v = "other" THEN "none" ELSE v]

\* An oversized input is measured before it is looked at and nothing of it is
\* kept.
InputProblem(v) ==
    IF v \in {"big", "bigsecret"} THEN "oversized_input"
    ELSE IF v = "secret" THEN "credential_shaped" ELSE "none"

\* An oversized output is kept cut, after the whole of it was looked at.
OutputProblemOf(v, looked) ==
    IF v \in looked THEN "credential_shaped"
    ELSE IF v \in {"big", "bigsecret"} THEN "oversized_output" ELSE "none"

LookedAfterCut(v) == OutputProblemOf(v, {"secret"})

OutputProblem(v) == OutputProblemOf(v, {"secret", "bigsecret"})

Cut(v) == CASE v = "big" -> "cut" [] v = "bigsecret" -> "cutsecret" [] OTHER -> v

PatchInput(e, v) ==
    [e EXCEPT !.inputProblem = InputProblem(v),
              !.input = IF InputProblem(v) = "none" THEN v ELSE "none"]

PatchOutput(e, v) ==
    [e EXCEPT !.outputProblem = OutputProblem(v),
              !.output = IF OutputProblem(v) = "credential_shaped" THEN "none" ELSE Cut(v)]

Fields == {<<f, v>> : f \in Labels, v \in Texts}
          \cup ({"status"} \X Statuses) \cup ({"input", "output"} \X Raws)

Patched(e, f, v, update) ==
    IF f = "status" THEN PatchStatus(e, v)
    ELSE IF f = "input" THEN PatchInput(e, v)
    ELSE IF f = "output" THEN PatchOutput(e, v)
    ELSE PatchString(e, f, v, update)

AgainSame(e, update) == e

\* A second announcement of an id cannot be told from another call.
Again(e, update) == [e EXCEPT !.malformed = @ \/ ~update]

PatchCall(c, f, v, update) ==
    IF IndexOf(c) = {}
    THEN entries' = Append(entries, Patched(NewEntry(c, update), f, v, update))
    ELSE LET i == CHOOSE j \in IndexOf(c) : TRUE
         IN entries' = [entries EXCEPT ![i] = Patched(Again(@, update), f, v, update)]

\* Every update without a usable id is in the one entry of all of them.
Unattributed == IF IndexOf(NoCall) = {} THEN Append(entries, NewEntry(NoCall, TRUE))
                ELSE entries

NothingSent == [heard |-> FALSE, announced |-> 0, late |-> FALSE,
                status |-> "none", input |-> "none", output |-> "none"]

Noted(c, f, v, update) ==
    [sent EXCEPT ![c] =
        [f2 \in DOMAIN @ |->
            CASE f2 = f -> v
              [] f2 = "heard" -> TRUE
              [] f2 = "announced" -> IF update THEN @[f2] ELSE IF @[f2] = 0 THEN 1 ELSE 2
              [] f2 = "late" -> @[f2] \/ (update /\ ~@.heard)
              [] OTHER -> @[f2]]]

Patch ==
    /\ pc = "agent" /\ count < MaxPatches
    /\ count' = count + 1
    /\ \/ \E c \in Calls, p \in Fields, update \in BOOLEAN :
             /\ PatchCall(c, p[1], p[2], update)
             /\ sent' = Noted(c, p[1], p[2], update)
       \/ /\ entries' = Unattributed
          /\ sent' = [sent EXCEPT ![NoCall].heard = TRUE]
    /\ UNCHANGED <<pc, todo, stop, traceVars>>

-----------------------------------------------------------------------------
(* Preparation *)

Reasons == <<"credential_shaped", "malformed", "oversized_input", "missing_raw_input",
             "incomplete_status", "missing_raw_output", "oversized_output">>
Rejecting == {"credential_shaped", "malformed", "oversized_input", "missing_raw_input"}

Has(e, f) == f \in Labels /\ e.labels[f] # "none"

CallProblems(e) ==
    (IF e.malformed \/ ~(Has(e, "name") \/ Has(e, "kind")) THEN {"malformed"} ELSE {})
    \cup (IF e.inputProblem # "none" THEN {e.inputProblem}
          ELSE IF e.input = "none" THEN {"missing_raw_input"} ELSE {})
    \cup (IF e.outputProblem # "none" THEN {e.outputProblem}
          ELSE IF e.output = "none" THEN {"missing_raw_output"} ELSE {})
    \cup (IF e.status \in {"completed", "failed"} THEN {} ELSE {"incomplete_status"})

\* finishAcpToolEvidence: a call with a credential in either raw value keeps
\* neither.
KeptRaw(e) ==
    IF "credential_shaped" \in CallProblems(e)
    THEN [e EXCEPT !.input = "none", !.output = "none"] ELSE e

\* What the identity and the labels add when the call is prepared.
LabelProblems(e) ==
    (IF (\E f \in Labels : e.labels[f] = "secret") \/ e.id \in SecretIds
     THEN {"credential_shaped"} ELSE {})
    \cup (IF e.id \in SecretIds \/ e.id = NoCall THEN {"malformed"} ELSE {})

FirstReason(ps) == Reasons[CHOOSE i \in DOMAIN Reasons :
    Reasons[i] \in ps /\ \A j \in 1..(i - 1) : Reasons[j] \notin ps]

Shown(v, keep) == IF keep THEN v ELSE "none"

PreparedOf(e, ps) ==
    LET recorded == ps = {}
        rejected == ~recorded /\ FirstReason(ps) \in Rejecting
        raw == KeptRaw(e)
    IN [kind |-> "tool", bare |-> FALSE,
        outcome |-> IF recorded THEN "recorded" ELSE IF rejected THEN "rejected" ELSE "partial",
        id |-> IF e.id \in SecretIds THEN NoCall ELSE e.id,
        labels |-> {e.labels[f] : f \in Labels} \ {"none", "secret"},
        status |-> e.status,
        input |-> Shown(raw.input, ~rejected), output |-> Shown(raw.output, ~rejected)]

Prepared(e) == PreparedOf(e, CallProblems(e) \cup LabelProblems(e))

-----------------------------------------------------------------------------
(* The turn *)

Event(kind) == [kind |-> kind, bare |-> FALSE, outcome |-> "none", id |-> NoCall,
                labels |-> {}, status |-> "none", input |-> "none", output |-> "none"]
BareGap == [Event("tool") EXCEPT !.bare = TRUE, !.outcome = "rejected"]

Init == /\ pc = "idle" /\ entries = <<>> /\ todo = <<>> /\ log = <<>>
        /\ past = [turns |-> 0, messages |-> 0, ids |-> <<>>]
        /\ stop = "none" /\ begun = FALSE /\ frame = "none" /\ count = 0
        /\ sent = [c \in Calls \cup {NoCall} |-> NothingSent]

\* A write that succeeds, one that fails, and one that is reported as failed
\* although the row is there.
Written(e) == log' = Append(log, e)
Lost(e) == Faults /\ log' \in {log, Append(log, e)}

\* What buildConversationMessages makes of the turn's events: a message for
\* the prompt and the answer, two for a recorded call, none for a gap marker.
Recorded == SelectSeq(log, LAMBDA e : e.outcome = "recorded")
Folded ==
    [turns |-> past.turns + 1,
     messages |-> past.messages + 2 * Len(Recorded)
        + Len(SelectSeq(log, LAMBDA e : e.kind \in {"session_start", "agent_response"})),
     ids |-> past.ids \o [i \in DOMAIN Recorded |-> Recorded[i].id]]

\* A turn that is refused first (a remote caller, a workspace that is not
\* trusted or is gone, a prompt too long) leaves no trace and is not a turn.
Begin ==
    /\ pc = "idle" /\ past.turns < MaxTurns
    /\ pc' = "start" /\ entries' = <<>> /\ todo' = <<>> /\ log' = <<>> /\ past' = Folded
    /\ stop' = "none" /\ begun' = FALSE /\ frame' = "none" /\ count' = 0
    /\ sent' = [c \in Calls \cup {NoCall} |-> NothingSent]

\* The session's start, and the session itself when it is new.
Opened ==
    /\ pc = "start"
    /\ \/ Written(Event("session_start")) /\ begun' = TRUE /\ pc' = "created"
       \/ Lost(Event("session_start")) /\ pc' = "failed" /\ UNCHANGED begun
    /\ UNCHANGED <<entries, todo, past, stop, frame, count, sent>>

Created ==
    /\ pc = "created"
    /\ pc' \in {"connect"} \cup (IF Faults /\ past.turns = 1 THEN {"failed"} ELSE {})
    /\ UNCHANGED <<entries, todo, stop, count, sent, traceVars>>

\* reconstructAcpContinuityPrompt stops at a history that is too long, and at
\* a call id it has seen.
Refused ==
    \/ past.messages > MaxPrior
    \/ \E i, j \in DOMAIN past.ids : i < j /\ past.ids[i] = past.ids[j]

\* The route is on record before the agent is prompted. A live handle of the
\* session map is prompted as it is. A replacement gets the projection: the map
\* makes it once the new agent's route is on record, a direct run before the
\* agent is started. A history that cannot be projected stops the turn there.
Warm == /\ pc = "connect" /\ past.turns > 1
        /\ pc' = "route"
        /\ UNCHANGED <<entries, todo, stop, count, sent, traceVars>>

Replace == /\ pc = "connect"
           /\ pc' = "newroute"
           /\ UNCHANGED <<entries, todo, stop, count, sent, traceVars>>

Direct == /\ pc = "connect"
          /\ pc' = IF Refused THEN "failed" ELSE "route"
          /\ UNCHANGED <<entries, todo, stop, count, sent, traceVars>>

RouteVerified ==
    /\ pc \in {"route", "newroute"}
    /\ \/ /\ Written(Event("runner_selected"))
          /\ pc' = IF pc = "route" THEN "agent" ELSE "project"
       \/ Lost(Event("runner_selected")) /\ pc' = "failed"
    /\ UNCHANGED <<entries, todo, past, stop, begun, frame, count, sent>>

Project == /\ pc = "project"
           /\ pc' = IF Refused THEN "failed" ELSE "agent"
           /\ UNCHANGED <<entries, todo, stop, count, sent, traceVars>>

\* An abort before the prompt is sent is an answer without text or calls. The
\* route's row may just have been written.
AbortedEarly ==
    /\ pc \in {"connect", "route", "newroute", "project"}
    /\ stop' = "aborted" /\ todo' = <<>> /\ pc' = "tools"
    /\ \/ UNCHANGED log
       \/ pc \in {"route", "newroute"} /\ Written(Event("runner_selected"))
    /\ UNCHANGED <<entries, past, begun, frame, count, sent>>

AgentFails == /\ pc = "agent" /\ pc' = "failed"
              /\ UNCHANGED <<entries, todo, stop, count, sent, traceVars>>

\* The agent is done, and each call is judged by itself, after an acknowledged
\* cancel too: finishAcpToolEvidence is applied to whatever was captured.
AgentDone ==
    /\ pc = "agent"
    /\ stop' \in {"stop", "error", "aborted"}
    /\ todo' = [i \in DOMAIN entries |-> Prepared(entries[i])]
    /\ pc' = "tools"
    /\ UNCHANGED <<entries, log, past, begun, frame, count, sent>>

\* A tool event that cannot be written leaves a bare marker, if that can be,
\* and fails the turn.
WriteToolTo(failed) ==
    /\ pc = "tools" /\ todo # <<>>
    /\ \/ Written(Head(todo)) /\ todo' = Tail(todo) /\ UNCHANGED pc
       \/ Lost(Head(todo)) /\ pc' = failed /\ todo' = Tail(todo)
    /\ UNCHANGED <<entries, past, stop, begun, frame, count, sent>>

WriteToolIgnored == WriteToolTo("tools")

WriteTool == WriteToolTo("gap")

WriteGap ==
    /\ pc = "gap"
    /\ (Written(BareGap) \/ Lost(BareGap))
    /\ pc' = "failed"
    /\ UNCHANGED <<entries, todo, past, stop, begun, frame, count, sent>>

Respond ==
    /\ pc = "tools" /\ todo = <<>>
    /\ \/ Written(Event("agent_response")) /\ pc' = "end"
       \/ Lost(Event("agent_response")) /\ pc' = "failed"
    /\ UNCHANGED <<entries, todo, past, stop, begun, frame, count, sent>>

EndSessionTo(failed) ==
    /\ pc = "end"
    /\ \/ Written(Event("session_end")) /\ pc' = "report"
       \/ Lost(Event("session_end")) /\ pc' = failed
    /\ UNCHANGED <<entries, todo, past, stop, begun, frame, count, sent>>

EndSessionQuietly == EndSessionTo("report")

EndSession == EndSessionTo("failed")

\* The projection's update may be skipped; the client hears how it ended.
Report ==
    /\ pc = "report" /\ pc' = "idle"
    /\ frame' = CASE stop = "aborted" -> "turnAborted" [] stop = "error" -> "turnFailed"
                  [] OTHER -> "turnCompleted"
    /\ UNCHANGED <<entries, todo, log, past, stop, begun, count, sent>>

\* The failure path: an error and an end where a start was written, either of
\* which may be lost, and the client is told.
Failure ==
    /\ pc = "failed"
    /\ frame' = "turnFailed" /\ pc' = "idle"
    /\ IF begun
       THEN \E err, end \in {TRUE, ~Faults} :
               log' = log \o (IF err THEN <<Event("error")>> ELSE <<>>)
                          \o (IF end THEN <<Event("session_end")>> ELSE <<>>)
       ELSE UNCHANGED log
    /\ UNCHANGED <<entries, todo, past, stop, begun, count, sent>>

Next == \/ Begin \/ Opened \/ Created \/ Warm \/ Replace \/ Direct \/ RouteVerified
        \/ Project \/ AbortedEarly \/ Patch \/ AgentFails \/ AgentDone \/ WriteTool \/ WriteGap \/ Respond \/ EndSession
        \/ Report \/ Failure

Spec == Init /\ [][Next]_vars

-----------------------------------------------------------------------------
(* Properties *)

ToolEvents == SelectSeq(log, LAMBDA e : e.kind = "tool")
Said(kind) == \E i \in DOMAIN log : log[i].kind = kind

\* acp-tool-evidence.ts scans a raw value before any cut and
\* acp-tool-evidence-record.ts every label: nothing that looks like a
\* credential reaches an event, by whatever field, patch order or outcome.
NoSecretPersisted ==
    \A i \in DOMAIN log :
        /\ log[i].input \notin {"secret", "bigsecret"}
        /\ log[i].output \notin {"secret", "bigsecret", "cutsecret"}
        /\ log[i].labels \cap {"secret"} = {}
        /\ log[i].id \notin SecretIds

\* A call that is recorded in full, and will be replayed, is one the agent
\* announced once, before anything else of it, with the very input, output and
\* status it sent last.
RecordedIsFaithful ==
    \A i \in DOMAIN ToolEvents : LET e == ToolEvents[i] IN
        e.outcome = "recorded" =>
            LET s == sent[e.id] IN
            /\ s.announced = 1 /\ ~s.late
            /\ e.input = s.input /\ e.output = s.output /\ e.status = s.status

\* A problem with one call never drops another: where the agent's answer is in
\* the log, every call heard of is too, once, in whatever state, however the
\* turn stopped; and a bare marker is only where a write was reported lost, with
\* no answer after it.
EveryCallAccounted ==
    Said("agent_response") =>
        /\ Len(ToolEvents) = Cardinality({c \in DOMAIN sent : sent[c].heard})
        /\ \A i \in DOMAIN ToolEvents : ~ToolEvents[i].bare

\* The client is told a turn is complete only when its answer and its end are
\* in the log, and an answer in the log with an end was never refused because
\* a tool event got lost.
CompletedIsDurable ==
    frame \in {"turnCompleted", "turnAborted"} =>
        /\ Said("agent_response") /\ ~Said("error")
        /\ log[Len(log)].kind = "session_end"
=============================================================================
