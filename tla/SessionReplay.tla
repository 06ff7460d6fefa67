--------------------------- MODULE SessionReplay ----------------------------
(***************************************************************************)
(* The transcript of a session: the live one a turn works on and the one   *)
(* that a later turn rebuilds from the session's event log                 *)
(* (context/conversation.ts, context/compression.ts, engine/compression.ts,*)
(* engine/load-transcript.ts and engine/fit-request.ts).                   *)
(*                                                                         *)
(* Compression replaces elder turns by a summary.  Its event records how   *)
(* many turns were kept verbatim; the rebuild counts that many back from   *)
(* the event.  Both sides count user-role messages.  A message is its kind *)
(* and the turn it belongs to, or the number of the summary it is.  What   *)
(* fits and what does not is a choice.                                     *)
(***************************************************************************)
EXTENDS Integers, Sequences, FiniteSets, SequencesExt

CONSTANTS
    MaxTurns,       \* turns a rebuilt transcript keeps
    TailTurns,      \* VERBATIM_TAIL_TURNS
    LastTurn,       \* bound: turns of the session
    MaxTools,       \* bound: tool calls of a turn
    MaxSummaries,   \* bound: compressions of the session
    MaxEvents       \* events a resume reads, the newest

VARIABLES
    log,        \* the session's events, oldest first
    live,       \* the transcript of the turn under way
    phase,      \* where that turn is: idle, loading, running, concluding
    turn,       \* its number
    tools,      \* its tool calls so far
    covers,     \* summary -> turns it stands for
    apart,      \* for the properties: a retry's compression left `live` as it was
    twice       \* for the properties: the turns compressions of a handoff kept

vars == <<log, live, phase, turn, tools, covers, apart, twice>>

UserKinds == {"user", "summary", "request"}
IsUser(m) == m[1] \in UserKinds

-----------------------------------------------------------------------------
(* Turns of a transcript: one begins at each user-role message. *)

UserAt(s) == {i \in DOMAIN s : IsUser(s[i])}
CountTurns(s) == Cardinality(UserAt(s))

\* Where the last k turns begin.
CutMessages(s, k) == Len(s) - k + 1
CutAt(s, k) == CHOOSE i \in UserAt(s) :
                   Cardinality({j \in UserAt(s) : j >= i}) = k

\* keepTrailingProjectionTurns, sliceProjectionToRecentTurns
KeepTrailing(s, k) ==
    IF k = 0 THEN <<>>
    ELSE IF CountTurns(s) <= k THEN s ELSE SubSeq(s, CutAt(s, k), Len(s))

\* partitionForCompression
Elder(s) == IF CountTurns(s) <= TailTurns THEN <<>>
            ELSE SubSeq(s, 1, CutAt(s, TailTurns) - 1)
TailOf(s) == SubSeq(s, Len(Elder(s)) + 1, Len(s))

\* compressibleSlice: whole turns from the front, not merely a summary.
SliceEnds(elder) ==
    {e \in 1..Len(elder) : /\ e = Len(elder) \/ IsUser(elder[e + 1])
                           /\ \E i \in 1..e : elder[i][1] # "summary"}

-----------------------------------------------------------------------------
(* buildConversationMessages *)

Project(items, e) ==
    CASE e.type = "session_start" -> Append(items, <<"user", e.of>>)
      [] e.type = "model_response" -> Append(items, <<"assistant", e.of>>)
      [] e.type = "tool_call" -> items \o <<<<"call", e.of>>, <<"result", e.of>>>>
      [] e.type = "gap" -> Append(items, <<"withheld", e.of>>)
      [] e.type = "context_compressed" ->
           <<<<"summary", e.of>>>> \o KeepTrailing(items, e.retained)

Items(events) == FoldLeft(Project, <<>>, events)

Pinned(items) == items # <<>> /\ items[1][1] = "summary"

\* The most recent turns, behind the summary if there is one.
RecentUnpinned(items) == KeepTrailing(items, MaxTurns)
Recent(items) == IF Pinned(items)
                 THEN <<items[1]>> \o KeepTrailing(Tail(items), MaxTurns)
                 ELSE KeepTrailing(items, MaxTurns)

Messages(items) == SelectSeq(items, LAMBDA m : m[1] # "withheld")

\* readSessionEvents, of which buildResume makes the transcript.
Newest(events) ==
    SubSeq(events, IF Len(events) > MaxEvents THEN Len(events) - MaxEvents + 1 ELSE 1,
           Len(events))

Rebuilt(events) == Messages(Recent(Items(Newest(events))))

-----------------------------------------------------------------------------

Init ==
    /\ log = <<>> /\ live = <<>> /\ phase = "idle" /\ turn = 0 /\ tools = 0
    /\ covers = <<>> /\ apart = FALSE /\ twice = {}

\* buildResume, then the session_start event.
StartTurn ==
    /\ phase = "idle" /\ turn < LastTurn
    /\ turn' = turn + 1 /\ tools' = 0
    /\ live' = Rebuilt(log)
    /\ log' = Append(log, [type |-> "session_start", of |-> turn + 1])
    /\ phase' = "loading" /\ apart' = FALSE
    /\ UNCHANGED <<covers, twice>>

\* The turns a run of messages stands for.
Covered(s) ==
    {s[i][2] : i \in {j \in DOMAIN s : s[j][1] = "user"}}
      \cup UNION {covers[s[i][2]] : i \in {j \in DOMAIN s : s[j][1] = "summary"}}

\* compressTranscript of the first `end` messages of `elder`: the event is
\* written before the transcript is replaced.  A rejected write is probed for;
\* found, it counts as written.  What is kept verbatim besides the tail is
\* counted here, what the caller kept is the caller's to count.
Persist(elder, end, kept) ==
    /\ Len(covers) < MaxSummaries
    /\ covers' = Append(covers, Covered(SubSeq(elder, 1, end)))
    /\ log' = Append(log, [type |-> "context_compressed",
                           of |-> Len(covers) + 1,
                           retained |-> kept
                             + CountTurns(SubSeq(elder, end + 1, Len(elder)))])
    \* The request for a handoff is counted as a turn, so that the log keeps
    \* one more than the transcript: the youngest of those summarized.
    /\ twice' = IF phase # "concluding" THEN twice
                ELSE LET gone == Covered(SubSeq(elder, 1, end))
                     IN twice \cup {t \in gone : \A u \in gone : u <= t}

Shortened(elder, end, tail) ==
    <<<<"summary", Len(covers) + 1>>>>
      \o SubSeq(elder, end + 1, Len(elder)) \o tail

\* The write is rejected and the probe fails too: the event may be there or
\* not, and the turn fails.
UncertainPersist(s, kept) ==
    /\ \E end \in SliceEnds(Elder(s)) :
           \/ Persist(Elder(s), end, kept)
           \/ Len(covers) < MaxSummaries /\ UNCHANGED <<log, covers, twice>>
    /\ phase' = "idle" /\ live' = <<>>
    /\ UNCHANGED <<turn, tools, apart>>

\* loadTranscript: proactive compression of the seed, to whose tail the prompt,
\* already in the log, is added.
ProactiveAs(extra) ==
    /\ phase = "loading"
    /\ \E end \in SliceEnds(Elder(live)) :
        /\ Persist(Elder(live), end, CountTurns(TailOf(live)) + extra)
        /\ live' = Append(Shortened(Elder(live), end, TailOf(live)),
                          <<"user", turn>>)
    /\ phase' = "running"
    /\ UNCHANGED <<turn, tools, apart>>

ProactiveUncounted == ProactiveAs(0)

Proactive == ProactiveAs(1)

ProactiveUncertain ==
    phase = "loading" /\ UncertainPersist(live, CountTurns(TailOf(live)) + 1)

\* Nothing to compress, or compression declined.
Load ==
    /\ phase = "loading" /\ phase' = "running"
    /\ live' = Append(live, <<"user", turn>>)
    /\ UNCHANGED <<log, turn, tools, covers, apart, twice>>

\* A tool call is recorded, or recorded so badly that the rebuild withholds it.
ToolCall ==
    /\ phase = "running" /\ tools < MaxTools
    /\ tools' = tools + 1
    /\ \E type \in {"tool_call", "gap"} :
           log' = Append(log, [type |-> type, of |-> turn])
    /\ live' = live \o <<<<"call", turn>>, <<"result", turn>>>>
    /\ UNCHANGED <<phase, turn, covers, apart, twice>>

\* fitRequest before a call, or before a call the provider found too large is
\* sent again: the prompt is in the tail.
Fits == phase \in {"running", "concluding"}

FitAs(kept) ==
    /\ Fits
    /\ \E end \in SliceEnds(Elder(live)) :
        /\ Persist(Elder(live), end, kept)
        /\ live' = Shortened(Elder(live), end, TailOf(live))
    /\ UNCHANGED <<phase, turn, tools, apart>>

FitLeading == FitAs(CountTurns(Elder(live)))

Fit == FitAs(CountTurns(TailOf(live)))

FitUncertain == Fits /\ UncertainPersist(live, CountTurns(TailOf(live)))

\* recoverOverflow: the compressed transcript is the retry's, the loop goes on
\* with its own.
Overflow ==
    /\ Fits
    /\ \E end \in SliceEnds(Elder(live)) :
           Persist(Elder(live), end, CountTurns(TailOf(live)))
    /\ apart' = TRUE
    /\ UNCHANGED <<live, phase, turn, tools>>

\* stepLimitHandoff asks for a handoff in a user-role message that no event
\* stands for.
Handoff ==
    /\ phase = "running" /\ tools = MaxTools
    /\ live' = Append(live, <<"request", turn>>)
    /\ phase' = "concluding"
    /\ UNCHANGED <<log, turn, tools, covers, apart, twice>>

Respond ==
    /\ phase \in {"running", "concluding"}
    /\ log' = Append(log, [type |-> "model_response", of |-> turn])
    /\ phase' = "idle" /\ live' = <<>>
    /\ UNCHANGED <<turn, tools, covers, apart, twice>>

\* The turn fails or the runtime dies: what is in the log stays.
Fail ==
    /\ phase # "idle" /\ phase' = "idle" /\ live' = <<>>
    /\ UNCHANGED <<log, turn, tools, covers, apart, twice>>

Next ==
    \/ StartTurn \/ Load \/ Proactive \/ ProactiveUncertain \/ ToolCall \/ Fit
    \/ FitUncertain \/ Overflow \/ Handoff \/ Respond \/ Fail

Spec == Init /\ [][Next]_vars

-----------------------------------------------------------------------------
(* Properties *)

Verbatim(s) == {s[i][2] : i \in {j \in DOMAIN s : s[j][1] = "user"}}

\* A rebuilt transcript carries a turn both verbatim and in its summary only
\* after a compression of a handoff request, and then one turn for each: where
\* countTurns counts a message no session_start stands for.
SummarizedOnce ==
    LET items == Items(Newest(log))
    IN Pinned(items) => Verbatim(items) \cap covers[items[1][2]] \subseteq twice

\* What a later turn would rebuild is what the running turn sees, but for the
\* cap on turns. After a compression that served a retry only, the running turn
\* goes on with the longer transcript ("never diverges" of persistCompression
\* does not hold there); what it still sees is then in the log, verbatim or
\* summarized.
Plain(s) == SelectSeq(s, LAMBDA m : m[1] \in {"user", "assistant"})
LiveMatchesResume ==
    Fits => LET items == Items(Newest(log))
            IN  IF apart THEN Covered(live) \subseteq Covered(items)
                ELSE /\ Pinned(items) = Pinned(live)
                     /\ Pinned(live) => live[1] = items[1]
                     /\ IsSuffix(Plain(live), Plain(items))

\* assertRepresentableToolHistory never fires: no cut separates a tool call from
\* its result, in the rebuilt transcript or the live one.
PairsIntact ==
    \A s \in {Rebuilt(log), live} : \A i \in DOMAIN s :
        /\ s[i][1] = "call" => i < Len(s) /\ s[i + 1] = <<"result", s[i][2]>>
        /\ s[i][1] = "result" => i > 1 /\ s[i - 1] = <<"call", s[i][2]>>

\* The summary survives however many turns follow it, as long as its event is
\* one of the newest a resume reads.
SummaryPinned ==
    (\E i \in DOMAIN Newest(log) : Newest(log)[i].type = "context_compressed")
        => Pinned(Rebuilt(log))
=============================================================================
