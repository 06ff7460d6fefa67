----------------------------- MODULE TurnContext -----------------------------
(* What a native turn sends the model. First the workspace context is read,   *)
(* while someone edits the workspace (engine/build-context.ts,                *)
(* context/repo-context.ts); then every request of the turn is made to fit    *)
(* the model's window (engine/fit-request.ts, context/request-fit.ts,         *)
(* engine/compression.ts). A text is its number of characters. Between turns, *)
(* what the log holds only redacted is kept for the session's later turns      *)
(* (engine/tool-history.ts).                                                   *)
EXTENDS Integers, Sequences, SequencesExt, FiniteSetsExt

CONSTANTS
    Groups,         \* files read, in order; of a group the first that loads
    Nested,         \* those of them in a directory of the workspace
    Slugs,          \* memories of the operator's corpus
    Large,          \* characters of a file grown past the bounded read
    Totals,         \* context budgets, in tokens
    MaxEdits,       \* bound: edits of the workspace
    Histories,      \* transcripts a turn starts from
    Sizes,          \* characters of a tool result
    Reports,        \* what a provider's rejection may report
    Lim,            \* the sizes the fit is made of, see below
    MaxSteps,       \* the turn's tool-step limit
    Sessions,       \* sessions of the engine, numbered as they first record something
    HistoryMax,     \* the evidence kept: [sessions, entries, chars]
    MaxEvidence     \* bound: calls whose evidence is recorded

\* Lim: window, the default output reserve, the system prompt, the tool
\* definitions, the instruction of a forced conclusion, the handoff request, a
\* reply, a trim marker, and SHRUNK_TOOL_RESULT_CHARS,
\* TRIM_MARKER_ALLOWANCE_CHARS and MIN_TOOL_RESULT_CHARS. A marker fits its
\* allowance, and is shorter than the smallest result.

VARIABLES
    disk,       \* what the workspace path names, its files, and the memories
    turn,       \* the turn's mode and the operator's choices
    load,       \* the reading of the context
    edits, flicker,
    msgs,       \* the transcript
    req,        \* the request being made and the step being run
    evidence    \* the redacted results kept, the log they stand in for, and a replay of it

loading == <<disk, turn, load, edits, flicker>>
fitting == <<msgs, req>>
vars == <<loading, fitting, evidence>>

CHARS_PER_TOKEN == 4
estimateContextTokens(chars) == (chars + 3) \div CHARS_PER_TOKEN
Files == UNION {Range(Groups[g]) : g \in DOMAIN Groups}
Ask == turn.mode = "ask"

-----------------------------------------------------------------------------
(* The workspace: the directory its path names, "gone" when none, and the    *)
(* files of the directory the operator keeps there ("own"). A leaf is a       *)
(* regular file, a link, or a file reached through a linked directory; the    *)
(* last two are read from outside. Another directory put there has every file.*)

Leaf(kind, ino) == [kind |-> kind, ino |-> ino, large |-> FALSE]
At(f) == IF disk.root = "own" THEN disk.leaf[f] ELSE Leaf("file", 0)
Content(f) == [file |-> f, kind |-> At(f).kind, ino |-> At(f).ino,
               root |-> disk.root, large |-> At(f).large]

\* `flicker`: a change seen by no check may have been undone in between.
MoveRoot == \E d \in {"own", "other", "gone"} \ {disk.root} :
    /\ disk' = [disk EXCEPT !.root = d]
    /\ flicker' = (flicker \/ (load.id \notin {"none", disk.root} /\ d = load.id))
MoveLeaf == \E f \in Files, k \in {"absent", "file", "link", "dirlink"} :
    /\ k = "dirlink" => f \in Nested
    /\ k = "absent" => disk.leaf[f].kind # "absent"
    /\ disk' = [disk EXCEPT !.leaf[f] = Leaf(k, edits + 2)]
    /\ flicker' = (flicker \/ disk.leaf[f].kind = "dirlink")
Grow == \E f \in Files :
    /\ disk.leaf[f].kind = "file" /\ ~disk.leaf[f].large
    /\ disk' = [disk EXCEPT !.leaf[f].large = TRUE]
    /\ UNCHANGED flicker
\* A memory is given another visibility.
Reclassify == \E m \in Slugs, v \in {"private", "client_safe"} :
    /\ disk.memories[m] # v
    /\ disk' = [disk EXCEPT !.memories[m] = v]
    /\ UNCHANGED flicker
Edit ==
    /\ edits < MaxEdits
    /\ edits' = edits + 1
    /\ \/ load.pc \notin {"built", "error"} /\ (MoveRoot \/ MoveLeaf \/ Grow)
       \/ ~Ask /\ req.pc = "none" /\ Reclassify
    /\ UNCHANGED <<turn, load, fitting>>

-----------------------------------------------------------------------------
(* buildContext.                                                             *)

Idle == [pc |-> "select", id |-> "none", failed |-> FALSE, group |-> 1,
         try |-> 1, checked |-> 0, body |-> 0, got |-> <<>>, total |-> 0,
         packed |-> <<>>, index |-> {}, shown |-> {}]

Goto(pc) == load' = [load EXCEPT !.pc = pc] /\ UNCHANGED <<disk, turn, edits, flicker, fitting>>
Step(l) == load' = l /\ UNCHANGED <<disk, turn, edits, flicker, fitting>>

\* applyAgentsInstructions: only under the operator's standing elevation, and
\* never from the root a failed selection fell back to.
Elevated(failed) == turn.loopback /\ turn.trust /\ ~failed
\* Mutant: the fallback root is as good.
ElevatedAnyway(failed) == turn.loopback /\ turn.trust
applyAgentsInstructions(failed) == Elevated(failed)

\* buildAskContext: an ask turn ends where its root could not be resolved; its other
\* steps are loadAskRepoContext's, and the prompt made of what that found.
buildAskContext(failed) == IF failed THEN "error" ELSE "root"
\* resolveWorkspace: the root's identity is taken once, when it is selected.
resolveWorkspace ==
    /\ load.pc = "select"
    /\ LET failed == turn.loopback /\ (turn.lost \/ (turn.picked /\ disk.root = "gone"))
           id == IF turn.picked /\ ~turn.lost THEN disk.root ELSE "none"
       IN  Step([load EXCEPT
                   !.failed = failed,
                   !.id = IF id = "gone" THEN "none" ELSE id,
                   !.pc = IF Ask THEN buildAskContext(failed) ELSE "memories"])

\* buildCompanionContext: the memories the caller may have and, for the operator
\* alone, external recall, the model catalog and the boot failure of `dyfj dev`.
memoryClearanceFor(loopback) ==
    IF loopback THEN {"private", "client_safe"} ELSE {"client_safe"}
Cleared == {m \in Slugs : disk.memories[m] \in memoryClearanceFor(turn.loopback)}
Operators == IF turn.loopback
             THEN {"memory.search", "workbench.models", "boot failure"} ELSE {}
Record(m) == [what |-> m, visibility |-> disk.memories[m]]
buildCompanionContext ==
    /\ load.pc = "memories"
    /\ Step([load EXCEPT !.index = Cleared,
                         !.shown = {Record(m) : m \in Cleared}
                           \cup [what : Operators, visibility : {"private"}],
                         !.pc = IF applyAgentsInstructions(load.failed) THEN "agents"
                                ELSE "built"])

\* memory.read, of a slug the index listed: the clearance is applied again.
ReadsMemory(may) ==
    /\ load.pc = "built" /\ ~Ask /\ req.pc = "none"
    /\ \E m \in load.index \cap may :
         Step([load EXCEPT !.shown = @ \cup {Record(m)}])
\* Mutant: the index was cleared.
ReadIndexed == ReadsMemory(Slugs)
executeReadMemory == ReadsMemory(Cleared)

\* loadAskRepoContext: the root must still be the one selected.
loadAskRepoContext ==
    /\ load.pc = "root"
    /\ IF disk.root = "gone" \/ load.id \notin {"none", disk.root}
       THEN Goto("error")
       ELSE Step([load EXCEPT !.id = disk.root, !.pc = "agents"])

\* What follows a group: a companion turn reads AGENTS.md alone.
After(l) ==
    IF ~Ask THEN [l EXCEPT !.pc = "built"]
    ELSE [l EXCEPT !.pc = IF l.group = Len(Groups) THEN "verify" ELSE "lstat",
                   !.group = @ + 1, !.try = 1, !.checked = 0, !.body = 0]
\* A file skipped: the next of its group.
Skipped(l) ==
    IF l.try < Len(Groups[l.group])
    THEN [l EXCEPT !.try = @ + 1, !.pc = "lstat", !.checked = 0, !.body = 0]
    ELSE After(l)
File == Groups[load.group][load.try]
Agents == load.group = 1

\* loadAgentsInstructions: anchor the root, to the selection if there was one.
AnchorRoot ==
    /\ load.pc = "agents"
    /\ IF disk.root = "gone" \/ load.id \notin {"none", disk.root}
       THEN Step(After(load))
       ELSE Step([load EXCEPT !.id = disk.root, !.pc = "lstat"])

\* lstat: a regular file, not a link. A link in the path above is not seen.
Lstat ==
    /\ load.pc = "lstat"
    /\ IF disk.root = "gone" \/ At(File).kind \in {"absent", "link"}
       THEN Step(Skipped(load))
       ELSE Step([load EXCEPT !.checked = Content(File), !.pc = "open"])

\* open and fstat: the open handle must be what lstat saw, then it is read.
Reads(same) ==
    /\ load.pc = "open"
    /\ IF disk.root = "gone" \/ At(File).kind = "absent" \/ ~same
       THEN Step(Skipped(load))
       ELSE Step([load EXCEPT !.body = Content(File),
                              !.pc = IF Agents THEN "after" ELSE "realpath"])
\* Mutant: the name was checked.
OpenByName == Reads(TRUE)
OpenAndRead == Reads(/\ At(File).ino = load.checked.ino
                     /\ disk.root = load.checked.root)

\* realpath(candidate): no linked directory on the way.
Realpath ==
    /\ load.pc = "realpath"
    /\ IF disk.root = "gone" \/ At(File).kind # "file"
       THEN Step(Skipped(load)) ELSE Goto("after")

\* The root once more: AGENTS.md is dropped, any other file fails the turn.
RootAfter(held) ==
    /\ load.pc = "after"
    /\ IF held THEN Step(After([load EXCEPT !.got = Append(@, load.body)]))
       ELSE IF Agents THEN Step(After(load)) ELSE Goto("error")
\* Mutant: a directory is there.
AnyRoot == RootAfter(disk.root # "gone")
VerifyAfterRead == RootAfter(disk.root = load.id)

-----------------------------------------------------------------------------
(* packContextSections. A section is its title and its body.                 *)

TitleChars == 6
BodyChars(c) == IF c.large THEN Large ELSE Lim.floor
\* AGENTS.md and the README share one bucket, the rest another.
Bucket(g) == IF g <= 2 THEN "system" ELSE "active_repo"
Percent(b) == IF b = "system" THEN 20 ELSE 50
limitTokens(total, b) == (total * Percent(b)) \div 100
headroomTokens(total) == (total * 10) \div 100
estimateSectionTokens(body) == estimateContextTokens(TitleChars + body)

Cut(limit, title) ==
    LET room == Max({0, limit - title}) IN room * CHARS_PER_TOKEN
\* Mutant: the title takes no room.
CutUntitled(limit) == Cut(limit, 0)
truncateSectionBody(limit) == Cut(limit, estimateContextTokens(TitleChars))

Sections == [i \in DOMAIN load.got |->
               LET c == load.got[i] IN
               [bucket |-> Bucket(CHOOSE g \in DOMAIN Groups : c.file \in Range(Groups[g])),
                body |-> BodyChars(c), from |-> c]]
Used(packed, b) == MapThenSumSet(LAMBDA i : IF packed[i].bucket = b
                                            THEN packed[i].tokens ELSE 0, DOMAIN packed)
PackOne(total, packed, s) ==
    LET remaining == limitTokens(total, s.bucket) - Used(packed, s.bucket)
        body == IF estimateSectionTokens(s.body) <= remaining THEN s.body
                ELSE Min({s.body, truncateSectionBody(remaining)})
        tokens == estimateSectionTokens(body)
    IN  IF remaining <= 0 \/ body = 0 THEN packed
        ELSE Append(packed, [bucket |-> s.bucket, tokens |-> tokens, from |-> s.from])
packContextSections(total) ==
    FoldLeft(LAMBDA packed, s : PackOne(total, packed, s), <<>>, Sections)

\* The root a last time, then the prompt.
FinishContext ==
    /\ load.pc = "verify"
    /\ IF disk.root # load.id THEN Goto("error")
       ELSE \E total \in Totals :
              Step([load EXCEPT !.pc = "built", !.total = total,
                                !.packed = packContextSections(total)])

-----------------------------------------------------------------------------
(* The request. A message is a role, its characters, what a trimmed result   *)
(* says it had (trimmedFrom, 0 for none) and what it really had.             *)

Msg(role, chars) == [role |-> role, chars |-> chars, trimmedFrom |-> 0, had |-> chars]
Users == {i \in DOMAIN msgs : msgs[i].role \in {"user", "handoff", "summary"}}
currentTurnStart == Max(Users)
Chars(m) == MapThenSumSet(LAMBDA i : m[i].chars + 1, DOMAIN m)

\* requestInputBudget of a row that sends no output cap.
requestInputBudget(window) ==
    LET reserve == Min({Lim.reserve, window \div 4})
    IN  Max({0, ((window - reserve) * 95) \div 100})

\* nextRequestShape: a forced conclusion has an instruction and no tools.
Shape(force) == IF force THEN Lim.system + Lim.instruction ELSE Lim.system + Lim.tools
\* requestEstimateText: an adapter without a transcript sends the prompt alone.
estimateRequest(m) ==
    estimateContextTokens(
      IF req.wire = "prompt_only"
      THEN Lim.system + 1 + m[Max({i \in DOMAIN m : m[i].role \in {"user", "handoff", "summary"}})].chars
      ELSE Shape(req.force) + Chars(m))
Fits(m) == estimateRequest(m) <= req.budget

\* cutResult of a result's payload.
Trim(m, keep, marked) ==
    [m EXCEPT !.chars = Min({keep, marked}) + Lim.marker,
              !.trimmedFrom = IF @ = 0 THEN m.chars ELSE @]
Payload(m) == IF m.trimmedFrom = 0 THEN m.chars ELSE m.chars - Lim.marker
Shrinks(m) ==
    /\ m.role = "tool"
    /\ Payload(m) > Lim.shrunk + (IF m.trimmedFrom = 0 THEN Lim.allowance ELSE 0)
\* Mutant: a marker is payload like any other text.
TrimmedAnew(m) == [Trim(m, Lim.shrunk, m.chars) EXCEPT !.trimmedFrom = m.chars]
trimToolResult(m) == Trim(m, Lim.shrunk, Payload(m))

\* shrinkToolResults of messages a..b, oldest first, until the request fits.
shrinkToolResults(a, b) ==
    LET one(m, i) == IF ~Fits(m) /\ Shrinks(m[i])
                     THEN [m EXCEPT ![i] = trimToolResult(m[i])] ELSE m
    IN  FoldLeft(one, msgs, [k \in 1 .. Max({0, b - a + 1}) |-> a + k - 1])

\* The requests are the same whatever the context: they are run after one.
Built == /\ load.pc = "built" /\ edits = 0
         /\ turn = [mode |-> "turn", loopback |-> FALSE, trust |-> FALSE,
                    picked |-> FALSE, lost |-> FALSE]
At0(pc) == Built /\ req.pc = pc /\ UNCHANGED loading

\* The turn's transcript, its prompt last, and the first request.
BeginLoop ==
    /\ Built /\ req.pc = "none" /\ UNCHANGED loading
    /\ \E h \in Histories, w \in {"transcript", "prompt_only"}, l \in BOOLEAN :
         /\ msgs' = h
         /\ req' = [req EXCEPT !.pc = "fit", !.wire = w, !.local = l]

\* fitRequest: nothing to do, nothing that can be done, or the earlier turns'
\* results first.
fitRequest ==
    /\ At0("fit")
    /\ IF Fits(msgs) THEN req' = [req EXCEPT !.pc = "send"] /\ UNCHANGED msgs
       ELSE IF req.wire = "prompt_only"
       THEN req' = [req EXCEPT !.pc = "overflow"] /\ UNCHANGED msgs
       ELSE /\ msgs' = shrinkToolResults(1, currentTurnStart - 1)
            /\ req' = [req EXCEPT !.pc = "compress", !.changed = @ \/ msgs' # msgs]

\* A pass of compressTranscript: the oldest whole turns of the elder that the
\* compressor's window takes, replaced by a summary smaller than they are. A
\* summary alone is nothing to compress.
VERBATIM_TAIL_TURNS == 2
Cuts == LET tail == CHOOSE i \in Users :
                      Cardinality({j \in Users : j >= i}) = VERBATIM_TAIL_TURNS
        IN  {i \in Users \ {1} : i <= tail /\ (\E j \in 1 .. i - 1 : msgs[j].role # "summary")}
\* An on-machine model of tier 0, or none: compression never leaves the machine.
compressionModel == req.local
\* What validation lets back in: one marked message.
Summary == Msg("summary", Lim.reply)
MayCompress == Cardinality(Users) > VERBATIM_TAIL_TURNS /\ ~Fits(msgs)
Compress ==
    /\ At0("compress") /\ MayCompress /\ compressionModel
    /\ \E i \in Cuts :
         /\ estimateContextTokens(Summary.chars) <
              estimateContextTokens(Chars(SubSeq(msgs, 1, i - 1)) - 1)
         /\ msgs' = <<Summary>> \o SubSeq(msgs, i, Len(msgs))
         /\ req' = [req EXCEPT !.changed = TRUE]
\* Every other outcome declines: no model, an elder too large for it, a budget
\* refusal, an abort, a malformed summary, one no smaller, no event written.
CompressDeclined ==
    /\ At0("compress") /\ MayCompress
    /\ req' = [req EXCEPT !.pc = "current"] /\ UNCHANGED msgs
CompressDone ==
    /\ At0("compress") /\ ~MayCompress
    /\ req' = [req EXCEPT !.pc = "current"] /\ UNCHANGED msgs

\* The current turn's own results, as the last resort.
FitsLast(shrunk) ==
    /\ At0("current")
    /\ msgs' = shrunk
    /\ req' = [req EXCEPT !.pc = IF Fits(msgs') THEN "send" ELSE "overflow",
                          !.changed = @ \/ msgs' # msgs]
\* Mutant: the turn's own results are never touched.
FitSpared == FitsLast(msgs)
FitCurrent == FitsLast(shrinkToolResults(currentTurnStart, Len(msgs)))

-----------------------------------------------------------------------------
(* The loop around it (engine/agent-loop.ts, engine/recovered-turn.ts).      *)

\* refitRejected, once for a request: the budget shrinks by what the provider
\* reports, and below what it refused.
budgetTokens(r) ==
    LET est == estimateRequest(msgs)
        own == requestInputBudget(Min({r.limit, Lim.window}))
        b == IF r.requested > est THEN (own * est) \div r.requested ELSE own
    IN  IF b >= est THEN est \div 2 ELSE b

Send ==
    /\ At0("send") /\ UNCHANGED msgs
    /\ IF req.refused # 0 /\ ~req.changed
       THEN req' = [req EXCEPT !.pc = "overflow"]
       ELSE req' = [req EXCEPT !.pc = "sent"]
\* The provider refuses the request as over its window.
refitRejected ==
    /\ At0("sent") /\ req.refused = 0 /\ UNCHANGED msgs
    /\ \E r \in Reports :
         req' = [req EXCEPT !.pc = "fit", !.refused = estimateRequest(msgs),
                            !.changed = FALSE, !.budget = budgetTokens(r)]

Replies == /\ At0("sent")
           /\ req' = [req EXCEPT !.pc = "done"] /\ UNCHANGED msgs

\* The model asks for n tools. A step at the cap, or one that repeats earlier
\* calls, is followed by a forced conclusion.
RequestTools ==
    /\ At0("sent") /\ ~req.force /\ req.wire = "transcript"
    /\ \E n \in 1 .. 2, repeats \in BOOLEAN :
         LET cap == req.steps + 1 >= MaxSteps
         IN  /\ msgs' = Append(msgs, Msg("assistant", Lim.reply))
             /\ req' = [req EXCEPT !.pc = "tools", !.calls = n, !.steps = @ + 1,
                                   !.atCap = cap, !.force = cap \/ repeats,
                                   !.budget = requestInputBudget(Lim.window),
                                   !.refused = 0, !.changed = FALSE, !.tight = FALSE]

\* toolResultShareChars of what the request so far leaves. `force` is how the
\* next request is shaped, read afresh after each call.
Share(force) ==
    LET sofar == estimateContextTokens(
                   Shape(force) + Chars(msgs) + (IF req.atCap THEN Lim.handoff + 1 ELSE 0))
        left == Max({0, req.budget - sofar}) * CHARS_PER_TOKEN
    IN  Max({Lim.floor, left \div Max({1, req.calls})})
\* Mutant: the shape the step began with.
ShareAsBegun(denied) == Share(req.force)
shareChars(denied) == Share(req.force \/ denied)

\* trimToolResultWithin: the whole result, marker and newline included.
Bound(m, max) ==
    IF m.chars <= max THEN m ELSE Trim(m, Max({0, max - Lim.marker}), Payload(m))
boundToolResult ==
    /\ At0("tools") /\ req.calls > 0
    /\ \E size \in Sizes, denied \in BOOLEAN :
         LET share == shareChars(denied)
         IN  /\ msgs' = Append(msgs, Bound(Msg("tool", IF denied THEN Lim.reply ELSE size),
                                           share - 1))
             /\ req' = [req EXCEPT !.calls = @ - 1, !.force = @ \/ denied,
                                   !.tight = (share = Lim.floor)]

\* followUp, with the handoff request at the cap.
FollowUp ==
    /\ At0("tools") /\ req.calls = 0
    /\ msgs' = IF req.atCap THEN Append(msgs, Msg("handoff", Lim.handoff)) ELSE msgs
    /\ req' = [req EXCEPT !.pc = "fit"]

-----------------------------------------------------------------------------
(* ToolHistoryStore: sessions oldest first, each with its entries oldest      *)
(* first. A text is the call that printed it and its length; <<>> is none.    *)

Scopes == {"loopback", "none"}
KEY_CHARS == 1
Length(text) == IF text = <<>> THEN 0 ELSE text[2]
CallKey(e) == <<e.turn, e.call>>
KeyedByCall(e) == <<0, e.call>>
entryKey(e) == CallKey(e)
entryOf(entries, key) == SelectSeq(entries, LAMBDA x : x.key = key)
EvidenceChars(entries) == FoldLeft(LAMBDA n, x : n + x.chars, 0, entries)

\* Oldest first until both limits hold.
DropOldest(ses) ==
    LET over(d) == \/ Len(ses.entries) - d > HistoryMax.entries
                   \/ ses.chars - EvidenceChars(SubSeq(ses.entries, 1, d)) > HistoryMax.chars
        d == CHOOSE k \in 0 .. Len(ses.entries) : ~over(k) /\ \A j \in 0 .. k - 1 : over(j)
    IN [ses EXCEPT !.entries = SubSeq(@, d + 1, Len(@)),
                   !.chars = @ - EvidenceChars(SubSeq(ses.entries, 1, d))]

\* `gives`: a replaced entry's characters are given back.
Recorded(kept, e, part, text, gives) ==
    LET at == SelectInSeq(kept, LAMBDA x : x.id = e.session)
        ses == IF at = 0 THEN [id |-> e.session, entries |-> <<>>, chars |-> 0] ELSE kept[at]
        held == entryOf(ses.entries, entryKey(e))
        prior == IF held # <<>> /\ held[1].scope = e.scope THEN held[1]
                 ELSE [key |-> entryKey(e), scope |-> e.scope, text |-> <<>>, args |-> <<>>, chars |-> 0]
        body == [prior EXCEPT ![part] = text]
        chars == KEY_CHARS + Length(body.text) + Length(body.args)
        room == IF at = 0 /\ Len(kept) >= HistoryMax.sessions THEN Tail(kept) ELSE kept
        written == DropOldest(
            [ses EXCEPT !.entries = Append(SelectSeq(@, LAMBDA x : x.key # entryKey(e)),
                                           [body EXCEPT !.chars = chars]),
                        !.chars = @ + chars - IF gives THEN EvidenceChars(held) ELSE 0])
    IN IF chars > HistoryMax.chars THEN kept
       ELSE IF at = 0 THEN Append(room, written) ELSE [kept EXCEPT ![at] = written]
KeepsCount(kept, e, part, text) == Recorded(kept, e, part, text, FALSE)
record(kept, e, part, text) == Recorded(kept, e, part, text, TRUE)

\* lookup, lookupArguments: only in the clearance that recorded it.
Looked(kept, e, scope, part) ==
    LET at == SelectInSeq(kept, LAMBDA x : x.id = e.session)
        held == IF at = 0 THEN <<>> ELSE entryOf(kept[at].entries, entryKey(e))
    IN IF held # <<>> /\ held[1].scope = scope THEN held[1][part] ELSE <<>>
LookedAnyway(kept, e, scope, part) == Looked(kept, e, e.scope, part)
lookup(kept, e, scope, part) == Looked(kept, e, scope, part)

\* The choices of the turn that will load are not read here.
BetweenTurns == load.pc = "select" /\ edits = 0 /\ turn.mode = "turn" /\ turn.loopback /\ ~turn.trust /\ ~turn.picked /\ ~turn.lost

NoEvidence == [kept |-> <<>>, log |-> <<>>, replay |-> <<>>, by |-> "none"]

\* recordRedactedEvidence: a call of the turn under way or of a later one. Its arguments are kept
\* whether or not it failed, its result only when it did not; the log keeps a sentinel for each.
recordRedactedEvidence ==
    /\ BetweenTurns /\ Len(evidence.log) < MaxEvidence
    /\ \E s \in Sessions, scope \in Scopes, args, fails \in BOOLEAN, n \in {1, 2}, more \in BOOLEAN :
         /\ s <= 1 + Cardinality({evidence.log[i].session : i \in DOMAIN evidence.log})
         /\ LET log == evidence.log
                turns == IF log = <<>> THEN 0 ELSE Last(log).turn
                goes == more /\ log # <<>> /\ Last(log).session = s /\ Last(log).scope = scope
                e == [session |-> s, scope |-> scope, turn |-> IF goes THEN turns ELSE turns + 1,
                      call |-> IF goes THEN Last(log).call + 1 ELSE 1, args |-> args, fails |-> fails, size |-> n]
                asked == IF args THEN record(evidence.kept, e, "args", <<CallKey(e), 1>>) ELSE evidence.kept
            IN evidence' = [evidence EXCEPT
                 !.log = Append(log, e), !.replay = <<>>, !.by = "none",
                 !.kept = IF fails THEN asked ELSE record(asked, e, "text", <<CallKey(e), n>>)]
    /\ UNCHANGED <<loading, fitting>>

\* buildResume: a later turn's history, an exchange per call; <<>> is the withheld label.
buildResume ==
    /\ BetweenTurns /\ evidence.by = "none"
    /\ \E s \in {evidence.log[i].session : i \in DOMAIN evidence.log}, scope \in Scopes :
         evidence' = [evidence EXCEPT !.by = scope, !.replay =
             [i \in {j \in DOMAIN evidence.log : evidence.log[j].session = s} |->
                LET e == evidence.log[i]
                IN [result |-> IF e.fails THEN <<CallKey(e), 0>> ELSE lookup(evidence.kept, e, scope, "text"),
                    args |-> IF e.args THEN lookup(evidence.kept, e, scope, "args") ELSE <<CallKey(e), 0>>]]]
    /\ UNCHANGED <<loading, fitting>>

-----------------------------------------------------------------------------
NoRequest == [pc |-> "none", wire |-> "transcript", local |-> FALSE, force |-> FALSE, atCap |-> FALSE,
              budget |-> requestInputBudget(Lim.window), refused |-> 0, changed |-> FALSE,
              calls |-> 0, steps |-> 0, tight |-> TRUE]
Init ==
    /\ disk = [root |-> "own", leaf |-> [f \in Files |-> Leaf("file", 1)],
               memories |-> [m \in Slugs |-> "client_safe"]]
    /\ turn \in [mode : {"ask", "turn"}, loopback : BOOLEAN, trust : BOOLEAN,
                 picked : BOOLEAN, lost : BOOLEAN]
    /\ turn.picked => turn.loopback /\ ~turn.lost
    /\ load = Idle /\ edits = 0 /\ flicker = FALSE
    /\ msgs = <<>> /\ req = NoRequest /\ evidence = NoEvidence

Sending ==
    \/ Edit
    \/ resolveWorkspace \/ buildCompanionContext \/ executeReadMemory \/ loadAskRepoContext \/ AnchorRoot \/ Lstat \/ OpenAndRead
    \/ Realpath \/ VerifyAfterRead \/ FinishContext
    \/ BeginLoop \/ fitRequest \/ Compress \/ CompressDeclined \/ CompressDone
    \/ FitCurrent \/ Send \/ refitRejected \/ Replies
    \/ RequestTools \/ boundToolResult \/ FollowUp
Next ==
    \/ Sending /\ evidence.log = <<>> /\ UNCHANGED evidence
    \/ recordRedactedEvidence \/ buildResume
Spec == Init /\ [][Next]_vars

-----------------------------------------------------------------------------
(* Properties.                                                              *)

\* repo-context.ts "Instructions discovery": what enters the prompt is a
\* regular file of the directory the operator selected, however the workspace
\* changes meanwhile, except for a change undone between two checks, which the
\* code says it cannot see.
ContextFromRoot ==
    load.pc = "built" /\ ~flicker =>
      \A i \in DOMAIN load.got :
        /\ load.got[i].root = load.id /\ load.got[i].kind = "file"

\* build-context.ts: "trust binds to the workspace the operator selected": a
\* turn whose selection failed reads nothing, and an ask turn fails.
SelectionBinds ==
    load.failed =>
      /\ load.got = <<>>
      /\ Ask => load.pc = "error"

\* store/memories.ts: a caller that is not the operator at the machine is shown
\* no memory that was not cleared for it when it was read, whenever the
\* operator reclassified it, and none of the operator's own tools.
ShownCleared ==
    ~turn.loopback => \A r \in load.shown : r.visibility = "client_safe"

\* The packed context keeps each bucket's limit and the headroom, and lists no
\* source it has no room for.
PackedWithin ==
    load.packed # <<>> =>
      /\ \A b \in {"system", "active_repo"} :
           Used(load.packed, b) <= limitTokens(load.total, b)
      /\ Used(load.packed, "system") + Used(load.packed, "active_repo")
           + headroomTokens(load.total) <= load.total

\* fit-request.ts:1-8: no request over its budget is sent, the retry of a
\* refused one is smaller than it, and only a request with nothing left to
\* shrink fails.
FitTrue ==
    /\ req.pc = "sent" => Fits(msgs)
    /\ req.pc = "sent" /\ req.refused # 0 => estimateRequest(msgs) < req.refused
    /\ req.pc = "overflow" /\ req.wire = "transcript" /\ ~Fits(msgs) =>
         \A i \in DOMAIN msgs : ~Shrinks(msgs[i])

\* fit-request.ts:258-261: results bounded to their share never put the
\* follow-up over its budget, so the fit leaves them alone, unless the window
\* was so full that the last of them got the floor.
FreshKept == req.pc = "fit" /\ ~req.tight /\ req.refused = 0 => Fits(msgs)

\* A trimmed result says how long it was, however often it was trimmed, and
\* is shorter than that.
TrimsTrue ==
    \A i \in DOMAIN msgs :
      msgs[i].trimmedFrom # 0 => /\ msgs[i].trimmedFrom = msgs[i].had
                                 /\ msgs[i].chars < msgs[i].had

\* fit-request.ts:153-154, "stale evidence goes before anything the current
\* turn gathered": the current turn's results are shrunk when no earlier one is
\* left to shrink. (The handoff request counts as a turn of its own.)
StaleFirst ==
    req.pc = "current" /\ ~Fits(msgs) =>
      \A j \in 1 .. currentTurnStart - 1 : ~Shrinks(msgs[j])

\* tool-history.ts:20-25: what a later turn replays in place of a sentinel is what that very call printed or
\* was asked, and only to the clearance it ran under, however the bounds dropped entries and however call
\* ids repeat from turn to turn; the evidence recorded last is never the one dropped, and the character
\* account the bounds are kept by stays exact.
ReplayTrue ==
    /\ \A i \in DOMAIN evidence.replay :
         LET e == evidence.log[i]  r == evidence.replay[i]
         IN /\ r.result # <<>> => r.result[1] = CallKey(e) /\ (e.fails \/ evidence.by = e.scope)
            /\ r.args # <<>> => r.args[1] = CallKey(e) /\ (~e.args \/ evidence.by = e.scope)
            /\ i = Len(evidence.log) /\ evidence.by = e.scope /\ KEY_CHARS + e.size + 1 <= HistoryMax.chars =>
                 r.result # <<>> /\ r.args # <<>>
    /\ Len(evidence.kept) <= HistoryMax.sessions
    /\ \A k \in DOMAIN evidence.kept :
         /\ evidence.kept[k].chars = EvidenceChars(evidence.kept[k].entries)
         /\ evidence.kept[k].chars <= HistoryMax.chars
         /\ Len(evidence.kept[k].entries) <= HistoryMax.entries

ContextHolds ==
    /\ ReplayTrue
    /\ ContextFromRoot /\ SelectionBinds /\ ShownCleared /\ PackedWithin
    /\ FitTrue /\ FreshKept /\ TrimsTrue /\ StaleFirst
=============================================================================
