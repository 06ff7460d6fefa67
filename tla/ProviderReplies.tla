--------------------------- MODULE ProviderReplies --------------------------
(***************************************************************************)
(* Tool calls a model writes as text, and what the operator sees of them.  *)
(* The OpenAI-compatible reader receives the reply's text in deltas cut    *)
(* anywhere.  Its presenter forwards prose as it arrives and withholds a   *)
(* <tool_call> wrapper around an offered tool until it closes; the adapter *)
(* then recovers the wrapped calls from the whole text, merges them with   *)
(* the structured ones, and reports markup that ran nothing.               *)
(*                                                                         *)
(* Text is a sequence of glyphs: the pieces of the markup a delta boundary *)
(* can fall between.  "<tool" "_call" ">" is a wrapper's opening and       *)
(* "</tool" "_call" ">" its closing; "<function=" is followed by "read"    *)
(* (an offered name) or "other"; "param" and "huge" are whole parameter    *)
(* elements, the second one over the argument budget; " " is white space   *)
(* within the 32-character bound.                                          *)
(***************************************************************************)
EXTENDS Integers, Sequences, FiniteSets, SequencesExt

CONSTANTS Replies,     \* the texts a model may write
          Structured,  \* the structured calls it may send beside them
          MaxMarkers,  \* MAX_TEXT_TOOL_MARKUP_CANDIDATES
          MaxDelta     \* glyphs in one delta, unless it carries all the rest

VARIABLES reply,   \* what the model is writing: its text, its calls, tools offered?
          taken,   \* how many glyphs have been received
          screen,  \* the presenter of a streamed reply
          split,   \* did a delta end between "<tool" and "_call"?
          result   \* what the adapter returned

textVars == <<reply, taken, screen, split, result>>

Offered == {"read"}
Open == <<"<tool", "_call", ">">>
Close == <<"</tool", "_call", ">">>
Params == {"param", "huge"}

Least(S) == IF S = {} THEN 0 ELSE CHOOSE x \in S : \A y \in S : x <= y
At(t, i, piece) == i + Len(piece) - 1 <= Len(t) /\ SubSeq(t, i, i + Len(piece) - 1) = piece
Glyph(t, i) == IF i \in 1..Len(t) THEN t[i] ELSE "end"
Skip(t, i) == IF Glyph(t, i) = " " THEN i + 1 ELSE i
From(t, i) == SubSeq(t, i, Len(t))
Before(t, i) == SubSeq(t, 1, i - 1)

-----------------------------------------------------------------------------
(* Recovery over a whole text *)

exceedsTextToolMarkupCandidateLimits(t) ==
  \/ Cardinality({i \in 1..Len(t) : t[i] = "<function="}) > MaxMarkers
  \/ Cardinality({i \in 1..Len(t) : t[i] \in Params}) > MaxMarkers

\* The opening tag of a function element at i: "<function=", a name, white space, ">".
FunctionOpens(t, i) ==
  /\ Glyph(t, i) = "<function="
  /\ Glyph(t, i + 1) \in {"read", "other"}
  /\ Glyph(t, Skip(t, i + 2)) = ">"

FunctionCloses(t, i) == Least({x \in (i + 2)..Len(t) : t[x] = "</function>"})

\* The opening wrapper that a function element at i directly follows, or 0.
WrapperOf(t, i) ==
  LET at == IF Glyph(t, i - 1) = " " THEN i - 4 ELSE i - 3
  IN IF at >= 1 /\ At(t, at, Open) THEN at ELSE 0

NoCalls(t, bad) == [calls |-> <<>>, cleaned |-> t, unrecoverable |-> bad]

\* One element of the scan: the elements are disjoint, in order; one that is offered and wrapped is taken out.
ExtractAt(t, i, s) ==
  IF i < s.next \/ ~FunctionOpens(t, i) \/ FunctionCloses(t, i) = 0 THEN s
  ELSE LET x == FunctionCloses(t, i)
           c == Skip(t, x + 1)
           w == WrapperOf(t, i)
           body == {t[k] : k \in (i + 2)..x}
           past == [s EXCEPT !.next = x + 1]
       IN IF t[i + 1] \notin Offered \/ w < s.kept \/ ~At(t, c, Close) THEN past
          ELSE IF "huge" \in body THEN [past EXCEPT !.bad = TRUE]
          ELSE [past EXCEPT !.calls = Append(@, [id |-> Len(@) + 1, name |-> t[i + 1],
                                     args |-> IF "param" \in body THEN "given" ELSE "none"]),
                            !.cleaned = @ \o SubSeq(t, s.kept, w - 1),
                            !.kept = c + Len(Close)]

extractTextToolCallsInternal(t) ==
  LET Scan(s, i) == ExtractAt(t, i, s)
      end == FoldLeft(Scan, [next |-> 1, kept |-> 1, calls |-> <<>>, cleaned |-> <<>>,
                             bad |-> FALSE], [i \in 1..Len(t) |-> i])
  IN IF exceedsTextToolMarkupCandidateLimits(t) THEN NoCalls(t, FALSE)
     ELSE IF end.bad \/ end.calls = <<>> THEN NoCalls(t, end.bad)
     ELSE [calls |-> end.calls, cleaned |-> end.cleaned \o From(t, end.kept),
           unrecoverable |-> FALSE]

(* Where a wrapper around an offered tool starts: certainly, possibly, cut off *)

confirmedTextToolMarkupStart(t) ==
  Least({i \in 1..Len(t) : LET f == Skip(t, i + 3) IN
           At(t, i, Open) /\ FunctionOpens(t, f) /\ t[f + 1] \in Offered})

\* The text ends before it is decided whether the wrapper at i is around an offered tool.
Undecided(t, i) ==
  LET f == Skip(t, i + 3)
      g == Skip(t, f + 2)
  IN /\ At(t, i, Open)
     /\ \/ f > Len(t)
        \/ /\ t[f] = "<function="
           /\ f = Len(t) \/ (t[f + 1] \in Offered /\ (g > Len(t) \/ t[g] = ">"))

NoPartial(t) == 0
\* Of an opening that is itself cut, only "<tool_call" is held back.
PartialStart(t) ==
  IF Len(t) >= 2 /\ At(t, Len(t) - 1, <<"<tool", "_call">>) THEN Len(t) - 1 ELSE 0

textToolMarkupStart(t) ==
  LET open == {i \in 1..Len(t) : Undecided(t, i)}
  IN IF open # {} THEN Least(open) ELSE PartialStart(t)

recognizedIncompleteTextToolMarkupStart(t) ==
  Least({i \in 1..Len(t) : LET f == Skip(t, i + 3)
                               g == Skip(t, f + 2) IN
           /\ At(t, i, Open) /\ Glyph(t, f) = "<function="
           /\ Glyph(t, f + 1) \in Offered /\ (g > Len(t) \/ t[g] = ">")})

stripIncompleteTextToolCallSuffix(t) ==
  LET found == extractTextToolCallsInternal(t)
      text == found.cleaned
      sure == confirmedTextToolMarkupStart(text)
      cut == IF sure > 0 THEN sure ELSE recognizedIncompleteTextToolMarkupStart(text)
  IN IF exceedsTextToolMarkupCandidateLimits(t) \/ found.unrecoverable THEN t
     ELSE IF cut = 0 THEN text ELSE Before(text, cut)

-----------------------------------------------------------------------------
(* The presenter *)

RECURSIVE forwardAvailableText(_)

\* The wrapper being withheld closed at c: shown after all when it holds nothing to run.
Reveal(p, c) ==
  LET candidate == SubSeq(p.text, p.fwd + 1, c + 2)
      runs == extractTextToolCallsInternal(candidate).calls # <<>>
  IN [p EXCEPT !.shown = IF runs THEN @ ELSE @ \o candidate,
               !.saw = @ \/ runs, !.fwd = c + 2, !.from = c + 2, !.hiding = FALSE]

SearchFromEnd(p) == Len(p.text)
ClosingSearchFrom(p) ==
  IF Len(p.text) - Len(Close) + 1 > p.fwd THEN Len(p.text) - Len(Close) + 1 ELSE p.fwd

forwardAvailableText(p) ==
  LET pending == From(p.text, p.fwd + 1)
      closing == Least({i \in (p.from + 1)..Len(p.text) : At(p.text, i, Close)})
      sure == confirmedTextToolMarkupStart(pending)
      maybe == textToolMarkupStart(pending)
      Show(n) == [p EXCEPT !.shown = @ \o SubSeq(pending, 1, n), !.fwd = @ + n]
  IN IF pending = <<>> THEN p
     ELSE IF p.off THEN Show(Len(pending))
     ELSE IF p.hiding THEN IF closing = 0 THEN [p EXCEPT !.from = ClosingSearchFrom(p)]
                           ELSE forwardAvailableText(Reveal(p, closing))
     ELSE IF sure > 0 THEN forwardAvailableText(
                             [Show(sure - 1) EXCEPT !.hiding = TRUE, !.from = p.fwd + sure - 1])
     ELSE Show(IF maybe > 0 THEN maybe - 1 ELSE Len(pending))

\* append: past the marker limit recovery is given up, or the call fails when markup was already hidden.
append(p, delta) ==
  LET q == [p EXCEPT !.text = @ \o delta]
      over == ~p.off /\ exceedsTextToolMarkupCandidateLimits(q.text)
  IN IF over /\ p.saw THEN [q EXCEPT !.failed = TRUE]
     ELSE forwardAvailableText(IF over THEN [q EXCEPT !.off = TRUE, !.hiding = FALSE] ELSE q)

\* finish: what may still be shown is shown, and the deliverable text returned.
FinishedAs(p, deliverable) ==
  IF ~IsPrefix(p.shown, deliverable) THEN [p EXCEPT !.failed = TRUE]
  ELSE [p EXCEPT !.shown = deliverable]
FinishedRaw(p, aborted) == FinishedAs(p, p.text)
finish(p, aborted) ==
  FinishedAs(p, IF reply.tools /\ (aborted \/ p.hiding \/ p.saw)
                THEN stripIncompleteTextToolCallSuffix(p.text) ELSE p.text)

-----------------------------------------------------------------------------
(* The adapter's result *)

Signed(c) == c.args # "deep"
SameCall(c, d) == c.name = d.name /\ c.args = d.args
Ids(cs) == {cs[i].id : i \in 1..Len(cs)}
KeptId(id, cs, existing) == id
freeId(id, cs, existing) ==
  IF id \notin Ids(cs) THEN id
  ELSE CHOOSE n \in (existing + 1)..(existing + Len(cs) + 1) :
         n \notin Ids(cs) /\ \A m \in (existing + 1)..(n - 1) : m \in Ids(cs)

MergedAll(s, c, existing) == [s EXCEPT !.calls = Append(@, c)]
\* One recovered call against the ones kept so far: the same call is dropped, and one that cannot be
\* compared with a call of its name fails the whole reply.
MergeCall(s, c, existing) ==
  LET dup == \E d \in Range(s.calls) : Signed(d) /\ Signed(c) /\ SameCall(d, c)
      unclear == \E d \in Range(s.calls) : d.name = c.name /\ (~Signed(d) \/ ~Signed(c))
  IN IF s.ambiguous \/ dup THEN s
     ELSE IF unclear THEN [s EXCEPT !.ambiguous = TRUE]
     ELSE [s EXCEPT !.calls = Append(@, [c EXCEPT !.id = freeId(c.id, s.calls, existing)])]

merged(existing, recovered) ==
  LET Fold(s, c) == MergeCall(s, c, Len(existing))
  IN IF existing = <<>> THEN [calls |-> recovered, ambiguous |-> FALSE]
     ELSE FoldLeft(Fold, [calls |-> existing, ambiguous |-> FALSE], recovered)

\* Markup left in the delivered text: function elements in closed wrappers, and unmatched openings from two on.
MarkupAt(t, i, s) ==
  LET top == Len(s.open)
  IN IF At(t, i, Open) THEN [s EXCEPT !.open = Append(@, [pending |-> FALSE, closed |-> 0])]
     ELSE IF top = 0 THEN s
     ELSE IF At(t, i, Close) THEN [s EXCEPT !.unrun = @ + s.open[top].closed,
                                           !.open = SubSeq(@, 1, top - 1)]
     ELSE IF FunctionOpens(t, i) THEN [s EXCEPT !.open[top].pending = TRUE]
     ELSE IF t[i] = "</function>" /\ s.open[top].pending
          THEN [s EXCEPT !.open[top] = [pending |-> FALSE, closed |-> @.closed + 1]]
     ELSE s

detectUnparsedToolCallMarkup(t) ==
  LET Scan(s, i) == MarkupAt(t, i, s)
      end == FoldLeft(Scan, [open |-> <<>>, unrun |-> 0], [i \in 1..Len(t) |-> i])
  IN end.unrun + (IF Len(end.open) >= 2 THEN Len(end.open) ELSE 0)

Failed(why) == [kind |-> why, text |-> <<>>, calls |-> <<>>, unparsed |-> 0]

\* text is all that was generated; visible is what the presenter delivered, or "none" when buffered.
ResultOf(text, streamed, visible, aborted, stop) ==
  LET found == extractTextToolCallsInternal(text)
      recovering == ~aborted /\ stop # "error" /\ reply.tools
      recovered == recovering /\ found.calls # <<>>
      plan == IF recovered THEN merged(reply.calls, found.calls)
              ELSE [calls |-> reply.calls, ambiguous |-> FALSE]
      out == IF streamed THEN visible ELSE IF recovered THEN found.cleaned ELSE text
      dead == aborted \/ stop = "error"
  IN IF plan.ambiguous THEN Failed("ambiguous")
     ELSE [kind |-> IF stop = "error" THEN "error" ELSE IF aborted THEN "aborted" ELSE "ok",
           text |-> out, calls |-> IF dead THEN <<>> ELSE plan.calls,
           unparsed |-> IF dead THEN 0 ELSE detectUnparsedToolCallMarkup(out)]
RunsAnyway(text, streamed, visible, aborted, stop) ==
  [ResultOf(text, streamed, visible, FALSE, "stop") EXCEPT
     !.kind = IF stop = "error" THEN "error" ELSE IF aborted THEN "aborted" ELSE "ok"]
executeOpenAICompatibleTurn(text, streamed, visible, aborted, stop) ==
  ResultOf(text, streamed, visible, aborted, stop)

-----------------------------------------------------------------------------
Presenter(tools) == [text |-> <<>>, shown |-> <<>>, fwd |-> 0, from |-> 0, hiding |-> FALSE,
                     saw |-> FALSE, off |-> ~tools, failed |-> FALSE]
Pending == [kind |-> "pending", text |-> <<>>, calls |-> <<>>, unparsed |-> 0]
Nothing == [text |-> <<>>, calls |-> <<>>, tools |-> FALSE]

TextInit ==
  /\ reply = Nothing /\ taken = 0 /\ split = FALSE
  /\ screen = Presenter(FALSE) /\ result = Failed("none")

Begin ==
  /\ result.kind = "none"
  /\ \E t \in Replies, cs \in Structured, tools \in BOOLEAN :
       /\ reply' = [text |-> t, calls |-> cs, tools |-> tools]
       /\ screen' = Presenter(tools)
  /\ result' = Pending
  /\ UNCHANGED <<taken, split>>

\* A frame's text delta: any number of glyphs, cut anywhere.
Delta ==
  /\ result = Pending
  /\ \E n \in (taken + 1)..Len(reply.text) :
       /\ n <= taken + MaxDelta \/ n = Len(reply.text)
       /\ taken' = n
       /\ screen' = append(screen, SubSeq(reply.text, taken + 1, n))
       /\ split' = (split \/ (reply.text[n] = "<tool" /\ n < Len(reply.text)))
  /\ result' = IF screen'.failed THEN Failed("too many") ELSE result
  /\ UNCHANGED reply

\* The stream ends: cleanly, wherever the model stopped; with an error reported by the provider; or
\* by the caller's cancellation.
End ==
  /\ result = Pending
  /\ \E aborted \in BOOLEAN, stop \in {"stop", "error"} :
       /\ screen' = finish(screen, aborted)
       /\ result' = IF screen'.failed THEN Failed("diverged")
                    ELSE executeOpenAICompatibleTurn(screen.text, TRUE, screen'.shown, aborted, stop)
  /\ UNCHANGED <<reply, taken, split>>

\* A buffered reply is read whole and presented once.
Buffered ==
  /\ result = Pending /\ taken = 0
  /\ \E stop \in {"stop", "error"} :
       result' = executeOpenAICompatibleTurn(reply.text, FALSE, <<>>, FALSE, stop)
  /\ screen' = [screen EXCEPT !.text = reply.text, !.shown = result'.text]
  /\ taken' = Len(reply.text)
  /\ UNCHANGED <<reply, split>>

TextNext == Begin \/ Delta \/ End \/ Buffered
TextSpec == TextInit /\ [][TextNext]_textVars

-----------------------------------------------------------------------------
Settled == result.kind \in {"ok", "aborted", "error"}

\* However the text was cut, what was streamed to the operator is, glyph for glyph, the text the adapter returns.
ShownIsDelivered == Settled => screen.shown = result.text

\* Every call runs once: the structured ones all run, under ids that stay theirs alone; a call recovered
\* from the text runs unless a structured call is the same one; and a cancelled or failed reply runs none.
CallsOnce ==
  /\ result.kind \in {"aborted", "error"} => result.calls = <<>>
  /\ result.kind = "ok" =>
       /\ IsPrefix(reply.calls, result.calls)
       /\ \A i, j \in 1..Len(result.calls) :
            i < j /\ j > Len(reply.calls) => result.calls[i].id # result.calls[j].id
       /\ reply.calls # <<>> =>
            \A i, j \in 1..Len(result.calls) : i < j /\ j > Len(reply.calls) =>
              ~SameCall(result.calls[i], result.calls[j])
       /\ reply.tools => \A c \in Range(extractTextToolCallsInternal(screen.text).calls) :
                           \E d \in Range(result.calls) : SameCall(c, d)

\* A function element whose wrapper closes inside the element, as text quoting the markup does.
Entangled(t) ==
  \E i, j \in 1..Len(t) : /\ FunctionOpens(t, i) /\ At(t, j, Close)
                          /\ i < j /\ \A k \in i..j : t[k] # "</function>"
\* A wrapper opening directly before another: taking the inner block out joins what is around it.
Joined(t) == \E i \in 1..Len(t) : At(t, i, Open) /\ At(t, Skip(t, i + 3), Open)

Plain(t) == ~Entangled(t) /\ ~Joined(t) /\ ~extractTextToolCallsInternal(t).unrecoverable

\* The stream never contradicts what it already showed, cancelled or not, and the markup of a call that
\* ran is never shown, with four exceptions, in each of which the code does show it or fail the reply:
\* an opening cut inside its first half ("<tool" | "_call"), a wrapper that closes inside its own
\* function or opens directly before another, and a call over the argument budget.
RunMarkupHidden ==
  (~split /\ Plain(screen.text)) =>
    /\ result.kind # "diverged"
    /\ result.kind = "ok" /\ reply.tools =>
         LET found == extractTextToolCallsInternal(screen.text)
         IN found.calls # <<>> => IsPrefix(result.text, found.cleaned)

\* The three together: what is shown, what runs, what stays hidden.
TextHolds == ShownIsDelivered /\ CallsOnce /\ RunMarkupHidden

-----------------------------------------------------------------------------
(***************************************************************************)
(* The conversation an Anthropic request carries.  A reply's thinking      *)
(* blocks may go back only while everything the model saw before them is   *)
(* unchanged, so each reply records a digest of the request it answered    *)
(* and a later request sends its blocks only when the digest of what now   *)
(* precedes them is the same.  Cache markers move with every request, and  *)
(* user turns join the tool results they follow: neither may break the     *)
(* comparison.  A digest is modelled by what it is taken over.             *)
(***************************************************************************)

CONSTANTS ReplyBlocks,   \* the block sequences a model may answer with
          MaxSends,  \* requests in one conversation
          MaxEdits   \* times the engine rewrites history

VARIABLES history,  \* the engine's messages
          sent,     \* the last request: its messages, its tools, which replies went back as blocks
          count     \* requests sent, edits made

replayVars == <<history, sent, count>>

Block(t, v) == [type |-> t, v |-> v, mark |-> FALSE]
Text(v) == Block("text", v)
Str(v) == [role |-> "user", str |-> TRUE, blocks |-> <<Text(v)>>]
Wire(role, bs) == [role |-> role, str |-> FALSE, blocks |-> bs]

OfType(bs, t) == SelectSeq(bs, LAMBDA b : b.type = t)
Values(bs) == [i \in 1..Len(bs) |-> bs[i].v]
NoReplay == [kept |-> FALSE, under |-> <<>>, blocks |-> <<>>, saw |-> <<>>]
Message(role, text, uses) == [role |-> role, text |-> text, uses |-> uses, replay |-> NoReplay]
PlainMessage(m) == [role |-> m.role, text |-> m.text, uses |-> m.uses]
PlainAll(ms) == [i \in 1..Len(ms) |-> PlainMessage(ms[i])]

-----------------------------------------------------------------------------
(* Digests and cache markers *)

\* A prompt sent as one marked block is the string again; other blocks only lose their marker.
Unmarked(w) ==
  IF ~w.str /\ Len(w.blocks) = 1 /\ w.blocks[1].type = "text" /\ w.blocks[1].mark
  THEN Str(w.blocks[1].v)
  ELSE [w EXCEPT !.blocks = [i \in 1..Len(@) |-> [@[i] EXCEPT !.mark = FALSE]]]
MarksStripped(w) == [w EXCEPT !.blocks = [i \in 1..Len(@) |-> [@[i] EXCEPT !.mark = FALSE]]]
withoutCacheControl(w) == Unmarked(w)

PrefixDigest(tools, ws) == <<tools, ws>>
anthropicReplyPrefixDigest(tools, ws) ==
  PrefixDigest(tools, [i \in 1..Len(ws) |-> withoutCacheControl(ws[i])])

\* Breakpoints: the last message, and the user message before the latest reply.
MarkLast(w) ==
  LET n == Len(w.blocks)
  IN IF w.role = "user" /\ w.blocks[n].v # <<>>
     THEN [w EXCEPT !.str = FALSE, !.blocks[n].mark = TRUE] ELSE w
markHistoryCacheBreakpoints(ws) ==
  LET last == Len(ws)
      replies == {i \in 2..(last - 1) : ws[i].role = "assistant"}
      latest == IF replies = {} THEN 0 ELSE CHOOSE i \in replies : \A j \in replies : j <= i
      ends == {last} \cup (IF latest = 0 THEN {} ELSE {latest - 1})
  IN [i \in 1..last |-> IF i \in ends THEN MarkLast(ws[i]) ELSE ws[i]]

-----------------------------------------------------------------------------
(* The request *)

\* The reply's blocks, while they still say what the engine's message says.
replayContent(m) ==
  /\ FoldLeft(LAMBDA s, v : s \o v, <<>>, Values(OfType(m.replay.blocks, "text"))) = m.text
  /\ Values(OfType(m.replay.blocks, "use")) = m.uses

JoinsResults(ws) ==
  ws # <<>> /\ Last(ws).role = "user" /\ ~Last(ws).str /\ Head(Last(ws).blocks).type = "result"
JoinedBlock(ws, b) == [ws EXCEPT ![Len(ws)].blocks = Append(@, b)]

\* The first reply that cannot go back as it was ends the replaying, for it and for every later one.
AddReply(s, m, tools) ==
  LET same == m.replay.kept /\ m.replay.under = PrefixDigest(tools, s.wire) /\ replayContent(m)
      whole == s.replaying /\ same
      rebuilt == (IF m.text = <<>> THEN <<>> ELSE <<Text(m.text)>>)
                   \o [i \in 1..Len(m.uses) |-> Block("use", m.uses[i])]
  IN [s EXCEPT !.wire = Append(@, Wire("assistant", IF whole THEN m.replay.blocks ELSE rebuilt)),
               !.replaying = @ /\ (m.replay.kept => whole), !.back = Append(@, whole)]
\* Only the reply's own words are compared.
AddUnchecked(s, m, tools) ==
  LET whole == m.replay.kept /\ replayContent(m)
  IN [AddReply(s, m, tools) EXCEPT !.wire[Len(s.wire) + 1].blocks = IF whole THEN m.replay.blocks ELSE @,
                                   !.back[Len(s.back) + 1] = whole]
addReply(s, m, tools) == AddReply(s, m, tools)

toAnthropicWireMessages(ms, tools) ==
  LET Add(s, m) ==
        IF m.role = "assistant" THEN addReply(s, m, tools)
        ELSE IF m.role = "user"
             THEN [s EXCEPT !.back = Append(@, FALSE),
                            !.wire = IF JoinsResults(@) THEN JoinedBlock(@, Text(m.text))
                                     ELSE Append(@, Str(m.text))]
        ELSE [s EXCEPT !.back = Append(@, FALSE),
                       !.wire = IF JoinsResults(@) THEN JoinedBlock(@, Block("result", m.text))
                                ELSE Append(@, Wire("user", <<Block("result", m.text)>>))]
  IN FoldLeft(Add, [wire |-> <<>>, replaying |-> TRUE, back |-> <<>>], ms)

buildAnthropicMessagesRequest(ms, tools) ==
  LET s == toAnthropicWireMessages(ms, tools)
  IN [wire |-> IF tools # "none" THEN markHistoryCacheBreakpoints(s.wire) ELSE s.wire,
      tools |-> tools, back |-> s.back, of |-> ms]

\* readAnthropicMessagesJson: kept for replay when there is thinking and every block can be sent back.
Kept(bs) == OfType(bs, "think") # <<>> /\ OfType(bs, "unknown") = <<>>
readAnthropicMessagesJson(bs, request) ==
  [role |-> "assistant", text |-> FoldLeft(LAMBDA s, v : s \o v, <<>>, Values(OfType(bs, "text"))),
   uses |-> Values(OfType(bs, "use")),
   replay |-> IF ~Kept(bs) THEN NoReplay
              ELSE [kept |-> TRUE, blocks |-> bs, saw |-> PlainAll(request.of),
                    under |-> anthropicReplyPrefixDigest(request.tools, request.wire)]]

-----------------------------------------------------------------------------
Unsent == [wire |-> <<>>, tools |-> "none", back |-> <<>>, of |-> <<>>]
ReplayInit == history = <<>> /\ sent = Unsent /\ count = [sends |-> 0, edits |-> 0]

RequestOpen == history # <<>> /\ (Last(history).role = "user" \/ Last(history).role = "tool")
CallsPending == history # <<>> /\ Last(history).role = "assistant" /\ Last(history).uses # <<>>

\* withoutReplay: every kept reply dropped.
withoutReplay(ms) == [i \in 1..Len(ms) |-> [ms[i] EXCEPT !.replay = NoReplay]]

\* A turn opens on the logged history, which holds no kept reply; a cancelled turn may have left its
\* results last.
Ask ==
  /\ ~CallsPending /\ count.sends < MaxSends
  /\ history # <<>> => Last(history).role # "user"
  /\ history' = Append(withoutReplay(history), Message("user", <<"hi">>, <<>>))
  /\ UNCHANGED <<sent, count>>

\* The turn's first call, or the follow-up of a step: every one offers the turn's tools.
Call ==
  /\ RequestOpen /\ count.sends < MaxSends
  /\ \E bs \in ReplyBlocks :
       /\ sent' = buildAnthropicMessagesRequest(history, "tools")
       /\ history' = Append(history, readAnthropicMessagesJson(bs, sent'))
  /\ count' = [count EXCEPT !.sends = @ + 1]

\* A forced conclusion, or at the step cap the handoff request after the results: no tools, no kept
\* reply, and the turn's last call.
Conclude ==
  /\ RequestOpen /\ Last(history).role = "tool" /\ count.sends < MaxSends
  /\ \E note \in {<<>>, <<Message("user", <<"handoff">>, <<>>)>>} :
       LET bare == withoutReplay(history) \o note
       IN /\ sent' = buildAnthropicMessagesRequest(bare, "none")
          /\ history' = Append(bare, Message("assistant", <<"done">>, <<>>))
  /\ count' = [count EXCEPT !.sends = @ + 1]

\* toolStepToMessages: the results of the calls of the last reply, one message each.
Results ==
  /\ CallsPending
  /\ history' = history \o [i \in 1..Len(Last(history).uses) |-> Message("tool", <<"full">>, <<>>)]
  /\ UNCHANGED <<sent, count>>

Rewritten(i, text) ==
  /\ count.edits < MaxEdits
  /\ history' = [history EXCEPT ![i].text = text]
  /\ count' = [count EXCEPT !.edits = @ + 1]
  /\ UNCHANGED sent

\* fitRequest: a result already in the transcript is cut to fit.
Shrink(i) == history[i].role = "tool" /\ Rewritten(i, <<"cut">>)

\* continueTruncated: the text of the last reply is joined with its continuation's.
Merge(i) == i = Len(history) /\ CallsPending /\ Rewritten(i, history[i].text \o <<"more">>)

Rewrite == \E i \in 1..Len(history) : Shrink(i) \/ Merge(i)

ReplayNext == Ask \/ Call \/ Conclude \/ Results \/ Rewrite
ReplaySpec == ReplayInit /\ [][ReplayNext]_replayVars

-----------------------------------------------------------------------------
\* The reply at i still stands: it says what it said, and the model would read before it what it read then.
Stands(ms, tools, i) ==
  /\ ms[i].replay.kept /\ replayContent(ms[i]) /\ ms[i].replay.under[1] = tools
  /\ PlainAll(SubSeq(ms, 1, i - 1)) = ms[i].replay.saw

\* A reply's blocks go back exactly while nothing the model saw before them changed: never after a cut or a
\* merge, where the provider would refuse them, and always otherwise, so that moving cache markers and
\* a prompt joined to results it follows lose no thinking.
ReplayedWhileUnchanged ==
  \A i \in 1..Len(sent.of) :
    sent.back[i] <=> /\ Stands(sent.of, sent.tools, i)
                     /\ \A j \in 1..(i - 1) : sent.of[j].replay.kept => sent.back[j]
=============================================================================
