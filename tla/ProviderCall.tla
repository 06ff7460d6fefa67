---------------------------- MODULE ProviderCall ----------------------------
(***************************************************************************)
(* One turn's call to a model provider: the request body, the session's    *)
(* recorded model, the catalog read once to choose the runner and again to *)
(* choose the model, the paid consent, the request and its header deadline *)
(* racing the caller's cancellation, the refusals the classifier sorts,    *)
(* and the three readers (OpenAI-compatible, Anthropic, Gemini) whose      *)
(* usage frames decide what the call is metered and billed at.  Characters *)
(* are counted, four to a token; -1 is a count the provider did not report.*)
(***************************************************************************)
EXTENDS Integers, Sequences, FiniteSets, SequencesExt

CONSTANTS Catalogs,    \* what the model registry may hold, whenever it is read
          Requests,    \* what a body may ask of the route: [id, tier, hint, fast, default]
          Transports,  \* is the caller on the loopback transport? The one socket is
          Completions, \* completion counts a usage frame may report
          MaxReads     \* MAX_OPENAI_RESPONSE_READS

VARIABLES route,   \* the selected row, its reason, streamed or buffered
          sig,     \* has the caller cancelled?
          net,     \* where the request stands
          got,     \* what the reader has received
          out      \* how the call ended

vars == <<route, sig, net, got, out>>

None == -1
Ceil4(n) == (n + 3) \div 4
Over(n) == IF n > 0 THEN n ELSE 0
Greater(a, b) == IF a > b THEN a ELSE b

-----------------------------------------------------------------------------
(* Routing: catalog rows are [slug, provider, url, tier, priced, code, fast] *)

Locals == {"llama-cpp", "mlx-lm"}
Acp == {"codex-chatgpt", "claude-acp", "fixture"}
\* url "own" is the loopback of a local provider, the pinned host of a hosted one.
isLocalWorkbenchModel(m) == m.provider \in Locals /\ m.url = "own"
getModelAccessModality(m) ==
  IF m.provider \in Acp THEN "subscription"
  ELSE IF m.url # "own" THEN "custom" ELSE IF m.provider \in Locals THEN "local" ELSE "hosted"
modelHasCatalogPricing(m) ==
  m.tier = 0 \/ getModelAccessModality(m) = "subscription" \/ m.priced

Chosen(m, reason) == [ok |-> TRUE, row |-> m, reason |-> reason]
NoModel(why) == [ok |-> FALSE, row |-> [slug |-> "none"], reason |-> why]

preferredModelFrom(ms) ==
  LET best == SelectSeq(ms, LAMBDA m : m.slug = "default") IN Head(best \o ms)

Named(ms, slug, reason) ==
  LET found == SelectSeq(ms, LAMBDA m : m.slug = slug)
  IN IF found = <<>> THEN NoModel("not found")
     ELSE IF ~modelHasCatalogPricing(Head(found)) THEN NoModel("unpriced")
     ELSE Chosen(Head(found), reason)

TierRows(ms, tier) ==
  SelectSeq(ms, LAMBDA m : m.tier = tier /\ (tier = 0 => isLocalWorkbenchModel(m)))
TierByNumber(ms, tier) == SelectSeq(ms, LAMBDA m : m.tier = tier)
tierCandidates(ms, tier) == TierRows(ms, tier)

ByTier(ms, tier) ==
  LET all == tierCandidates(ms, tier)
      priced == SelectSeq(all, modelHasCatalogPricing)
  IN IF priced # <<>> THEN Chosen(preferredModelFrom(priced), "tier")
     ELSE NoModel(IF all # <<>> THEN "unpriced" ELSE "not found")

Ambient(ms, hint) ==
  LET here == SelectSeq(ms, LAMBDA m : m.tier = 0 /\ isLocalWorkbenchModel(m))
      coders == SelectSeq(here, LAMBDA m : m.code)
  IN IF here = <<>> THEN NoModel("not found")
     ELSE IF hint = "code" THEN Chosen(Head(coders \o here), "hint")
     ELSE Chosen(preferredModelFrom(here), "ambient")

selectWorkbenchModel(ms, q) ==
  LET pick == IF q.id # "none" THEN Named(ms, q.id, "named")
              ELSE IF q.tier # None THEN ByTier(ms, q.tier)
              ELSE IF q.hint = "none" /\ q.default # "none" THEN Named(ms, q.default, "configured")
              ELSE Ambient(ms, q.hint)
  IN IF pick.ok /\ q.fast /\ ~pick.row.fast THEN NoModel("not fast") ELSE pick

-----------------------------------------------------------------------------
(* From a request body to a consented row *)

DefaultRow == [slug |-> "default", provider |-> "llama-cpp", url |-> "own", tier |-> 0,
               priced |-> FALSE, code |-> TRUE, fast |-> FALSE]
defaultLocalWorkbenchModels == <<DefaultRow>>
\* A registry is its active rows and whether the operator deactivated the built-in one.
withDefaultLocalWorkbenchModels(registry) ==
  IF registry.off \/ \E k \in DOMAIN registry.rows : registry.rows[k].slug = DefaultRow.slug
  THEN registry.rows ELSE defaultLocalWorkbenchModels \o registry.rows

paidEscalationVerdict(loopback, approved) == loopback /\ approved

\* maxToolSteps: "over" is above the ceiling, "raised" above the standing limit and within it.
resolveMaxToolSteps(steps, loopback) ==
  IF steps \in {"malformed", "over"} \/ (steps = "raised" /\ ~loopback) THEN "refused" ELSE "taken"

\* The body's checks in order; the shapes a parser refuses are one value, malformed.
resolveTurnFromBody(b, loopback) ==
  IF b.shape = "malformed" \/ (b.runner # "none" /\ b.routed) THEN "bad request"
  ELSE IF b.runner # "none" /\ ~loopback THEN "remote"
  ELSE IF b.runner = "codex" /\ ~b.trust THEN "untrusted"
  ELSE resolveMaxToolSteps(b.steps, loopback)
approvePaidInference(b, loopback) ==
  IF b.approve # "unset" THEN b.approve = "yes" ELSE loopback /\ b.posture

Routed(q) == q.id # "none" \/ q.tier # None \/ q.hint # "none" \/ q.fast

\* A turn that resumes a session and chooses nothing runs on the session's last completed model.
withSessionModel(q, runner, last) ==
  IF runner # "none" \/ q.id # "none" \/ q.tier # None \/ q.hint # "none" \/ last = "none" THEN q
  ELSE [q EXCEPT !.id = last]

acpProfile(m) == IF m.provider = "codex-chatgpt" THEN "codex"
                 ELSE IF m.slug = "fixture" THEN "fixture" ELSE "unsupported"
Explained(reason, pinned) ==
  IF pinned /\ reason \in {"not found", "unpriced"} THEN "session model unavailable" ELSE reason

-----------------------------------------------------------------------------
(* Usage *)

NoUsage == [comp |-> None, rsn |-> None, cost |-> None]
Silent == [text |-> 0, rsn |-> 0, tool |-> 0, usage |-> NoUsage, finish |-> "none"]

\* A count advances when it is new, larger, or repeated on the frame that finishes the reply.
advanced(before, now, finishing) ==
  now # None /\ (before = None \/ now > before \/ (now = before /\ finishing))
KeepsLast(a, b) == b
mergeCount(a, b) == Greater(a, b)

Fresh == [text |-> 0, rsn |-> 0, tool |-> 0, finish |-> "none", usage |-> NoUsage, reads |-> 0,
          genAt |-> None, rsnAt |-> None, compRsnAt |-> None, costComp |-> None,
          lateGen |-> 0, lateRsn |-> 0, most |-> None]

\* The snapshots move with the counts they belong to; late counts what no reported
\* completion has seen, most the largest one.
applyStreamUsage(g, f) ==
  LET fin == f.finish # "none"
      comp == advanced(g.usage.comp, f.usage.comp, fin)
      rsn == advanced(g.usage.rsn, f.usage.rsn, fin)
      cost == advanced(g.usage.cost, f.usage.cost, fin)
  IN [g EXCEPT !.usage = [k \in DOMAIN @ |-> mergeCount(@[k], f.usage[k])],
               !.most = Greater(@, f.usage.comp),
               !.costComp = IF cost THEN f.usage.comp ELSE @,
               !.genAt = IF comp THEN g.text + g.tool ELSE @,
               !.compRsnAt = IF comp THEN g.rsn ELSE @,
               !.rsnAt = IF rsn THEN g.rsn ELSE @,
               !.lateGen = IF f.usage.comp # None THEN 0 ELSE @,
               !.lateRsn = IF (IF route.row.provider = "google" THEN f.usage.rsn ELSE f.usage.comp) # None
                           THEN 0 ELSE @]
\* The snapshot is taken at the last frame, whatever its count says.
SnapshotAlways(g, f) ==
  [applyStreamUsage(g, f) EXCEPT !.genAt = g.text + g.tool, !.compRsnAt = g.rsn]
applyUsage(g, f) == applyStreamUsage(g, f)

applyEvent(g, f) ==
  LET h == [g EXCEPT !.text = @ + f.text, !.rsn = @ + f.rsn, !.tool = @ + f.tool,
                     !.lateGen = @ + f.text + f.tool, !.lateRsn = @ + f.rsn,
                     !.finish = IF f.finish = "none" THEN @ ELSE f.finish]
  IN IF f.usage = NoUsage THEN h ELSE applyUsage(h, f)

\* What a reported count misses: the characters past the ones it was reported at.
PastSnapshot(total, at) == Ceil4(Over(total - Over(at)))

BillWhenever(g, streamed) == TRUE
\* The bill is trusted only when it rode on the final count.
billedCoversCall(g, streamed) == streamed => g.costComp = g.usage.comp

openAIChatUsage(g, streamed, aborted) ==
  LET gen == g.text + g.tool
      covers(at, total) == ~aborted /\ (streamed => at = total)
      comp == g.usage.comp
      rsn == IF g.usage.rsn = None THEN Ceil4(g.rsn)
             ELSE IF covers(g.rsnAt, g.rsn) THEN g.usage.rsn
             ELSE g.usage.rsn + PastSnapshot(g.rsn, g.rsnAt)
      whole == covers(g.genAt, gen) /\ covers(g.compRsnAt, g.rsn)
      kept == IF comp # None /\ whole /\ rsn > comp THEN comp ELSE rsn
      billable == IF comp = None THEN Ceil4(gen) + rsn
                  ELSE IF whole THEN comp
                  ELSE Greater(comp + PastSnapshot(gen, g.genAt) + PastSnapshot(g.rsn, g.compRsnAt),
                               rsn + Ceil4(gen))
      billed == /\ route.row.provider = "openrouter" /\ g.usage.cost # None
                /\ comp # None /\ whole /\ billedCoversCall(g, streamed)
  IN [output |-> billable - kept, reasoning |-> kept, billable |-> billable,
      basis |-> IF billed THEN "billed" ELSE "estimate"]

geminiUsage(g, streamed, aborted) ==
  LET covers(at, total) == ~aborted /\ (streamed => at = total)
      output == IF g.usage.comp = None THEN Ceil4(g.text)
                ELSE IF covers(g.genAt, g.text) THEN g.usage.comp
                ELSE g.usage.comp + PastSnapshot(g.text, g.genAt)
      rsn == IF g.usage.rsn = None THEN Ceil4(g.rsn)
             ELSE IF covers(g.rsnAt, g.rsn) \/ (~aborted /\ g.rsnAt = None) THEN g.usage.rsn
             ELSE g.usage.rsn + PastSnapshot(g.rsn, g.rsnAt)
  IN [output |-> output, reasoning |-> rsn, billable |-> output + rsn, basis |-> "estimate"]

anthropicCost(g) ==
  LET output == IF g.usage.comp = None THEN Ceil4(g.text) ELSE g.usage.comp
  IN [output |-> output, reasoning |-> 0, billable |-> output, basis |-> "estimate"]

Metered(g, streamed, aborted) ==
  IF route.row.provider = "google" THEN geminiUsage(g, streamed, aborted)
  ELSE IF route.row.provider = "anthropic" THEN anthropicCost(g)
  ELSE openAIChatUsage(g, streamed, aborted)

-----------------------------------------------------------------------------
(* How a call ends *)

Nil == [output |-> 0, reasoning |-> 0, billable |-> 0, basis |-> "none"]
Ended(kind, cause, input, used) == [kind |-> kind, cause |-> cause, input |-> input, used |-> used]
Running == Ended("running", "none", FALSE, Nil)

\* abortedWorkbenchTurnResult: the prompt is charged once the request went out.
abortedWorkbenchTurnResult(dispatched) == Ended("aborted", "caller", dispatched, Nil)

classifyContextExceeded(status, marks) == status \in {400, 413, 422} /\ "context" \in marks
ModelFirst(marks) ==
  IF "model" \in marks THEN "model" ELSE IF "price" \in marks THEN "price cap" ELSE "unclassified"
\* A refused price is worded like an unserved model, and is read first.
notFoundVerdict(marks) ==
  IF "price" \in marks THEN "price cap" ELSE IF "model" \in marks THEN "model" ELSE "unclassified"
ClassifiedBy(status, marks) ==
  IF classifyContextExceeded(status, marks) THEN "context"
  ELSE IF status >= 500
       THEN IF status = 529 \/ (status = 503 /\ "overloaded" \in marks) THEN "rate" ELSE "unclassified"
  ELSE IF status \in {401, 403} THEN "auth"
  ELSE IF status = 429 THEN "rate"
  ELSE IF status = 404 THEN notFoundVerdict(marks)
  ELSE IF status = 413 THEN "large"
  ELSE IF status \in {400, 422} /\ "auth" \in marks THEN "auth"
  ELSE IF status \in {400, 422} /\ "model" \in marks THEN "model"
  ELSE IF status \in {400, 422} /\ "large" \in marks THEN "large"
  ELSE "unclassified"
classifyProviderResponse(status, marks) == ClassifiedBy(status, marks)

\* fetchWithHeaderTimeout and providerFetchFailure: which of the racing causes the rejection is blamed on.
Blame(cause, callerFirst) ==
  IF callerFirst /\ cause = "signal" THEN abortedWorkbenchTurnResult(TRUE)
  ELSE IF ~callerFirst /\ net.timedOut THEN Ended("timeout", net.first, FALSE, Nil)
  ELSE Ended(IF cause = "signal" THEN "unclassified" ELSE cause, net.first, FALSE, Nil)
BlamedOnCaller(cause) == Blame(cause, sig)
fetchRejected(cause) == Blame(cause, sig /\ net.first = "caller")

AbortWins(aborted, finish) == IF aborted THEN "aborted" ELSE IF finish = "error" THEN "error" ELSE "done"
stopReasonWithAbort(aborted, finish) ==
  IF finish = "error" THEN "error" ELSE IF aborted THEN "aborted" ELSE "done"

Result(g, streamed, aborted) ==
  Ended(stopReasonWithAbort(aborted, g.finish), IF aborted THEN "caller" ELSE "none", TRUE,
        Metered(g, streamed, aborted))

-----------------------------------------------------------------------------
Idle == [at |-> "start", first |-> "none", timedOut |-> FALSE, status |-> 200, marks |-> {}]
NoAsk == [q |-> "none", runner |-> "none", approved |-> FALSE, trust |-> FALSE, ask |-> FALSE,
          loopback |-> TRUE, pinned |-> "none"]
NoRoute == [row |-> [slug |-> "none", provider |-> "none", tier |-> 0], reason |-> "none", stream |-> FALSE,
            key |-> FALSE, url |-> "none", fit |-> TRUE, for |-> NoAsk]

Init == route = NoRoute /\ sig = FALSE /\ net = Idle /\ got = Fresh /\ out = Running

At(stage) == net.at = stage /\ out = Running
Refuse(why) == out' = Ended(why, "none", FALSE, Nil) /\ UNCHANGED <<route, net>>
Reach(stage) == net' = [net EXCEPT !.at = stage] /\ UNCHANGED out

Bodies ==
  [shape : {"fine", "malformed"}, runner : {"none", "codex", "fixture"}, approve : {"unset", "yes", "no"},
   posture : BOOLEAN, trust : BOOLEAN, steps : {"unset", "malformed", "over", "raised"}, routed : BOOLEAN]

\* The turn method reads the body; nothing is admitted or routed before it is whole.
Ask ==
  /\ At("start")
  /\ \E b \in Bodies, loopback \in Transports, ask \in BOOLEAN :
       \E q \in {r \in Requests : Routed(r) = b.routed} :
         LET verdict == resolveTurnFromBody(b, loopback)
         IN IF verdict # "taken" THEN Refuse(verdict)
            ELSE /\ route' = [route EXCEPT !.for =
                       [NoAsk EXCEPT !.q = q, !.runner = b.runner, !.trust = b.trust, !.ask = ask,
                                     !.loopback = loopback, !.approved = approvePaidInference(b, loopback)]]
                 /\ Reach("asked")
  /\ UNCHANGED <<sig, got>>

\* The session's last run is read from the log: none, a model, or an external agent's.
Restore ==
  /\ At("asked")
  /\ \E last \in {"none", "r", "codex", "a runner", "unread"} :
       LET f == route.for
           q == withSessionModel(f.q, f.runner, last)
       IN IF q # f.q /\ last \in {"a runner", "unread"} THEN Refuse(last)
          ELSE /\ route' = [route EXCEPT !.for.q = q, !.for.pinned = IF q = f.q THEN "none" ELSE last]
               /\ Reach("restored")
  /\ UNCHANGED <<sig, got>>

\* The paid preflight: anything above tier 0 needs the caller's approval.
confirmPaidRoute(tier, f) == tier = 0 \/ paidEscalationVerdict(f.loopback, f.approved)

\* An external agent's turn ends this module's part of it.
StartAgent(profile, tier, slug, checked) ==
  IF profile = "codex" /\ checked /\ ~route.for.trust THEN Refuse("untrusted")
  ELSE IF ~confirmPaidRoute(tier, route.for) THEN Refuse("declined")
  ELSE /\ out' = Ended("agent", profile, FALSE, Nil)
       /\ route' = [route EXCEPT !.row = [slug |-> slug, provider |-> profile, tier |-> tier]]
       /\ UNCHANGED net

\* The selection's own errors are thrown; an error of any other kind falls to the native route.
selectedAcpRoute(ms, checked) ==
  LET pick == selectWorkbenchModel(ms, route.for.q)
      profile == acpProfile(pick.row)
  IN \/ IF ~pick.ok THEN Refuse(Explained(pick.reason, route.for.pinned # "none"))
        ELSE IF pick.row.provider \notin Acp THEN Reach("native") /\ UNCHANGED route
        ELSE IF profile = "unsupported" THEN Refuse("unsupported runner")
        ELSE StartAgent(profile, pick.row.tier, pick.row.slug, checked)
     \/ Reach("native") /\ UNCHANGED route

\* An explicit codex runner bills as its fixed tier-2 row; the fixture has no model to bill.
ResolvedBy(ms, checked) ==
  IF route.for.runner # "none"
  THEN StartAgent(route.for.runner, IF route.for.runner = "codex" THEN 2 ELSE 0, "none", checked)
  ELSE selectedAcpRoute(ms, checked)
TrustedAtTheBody(ms) == ResolvedBy(ms, FALSE)
resolveRoute(ms) == ResolvedBy(ms, TRUE)

\* The runner is chosen over the registry as it stands, or over the built-in row when it cannot be read.
Resolve ==
  /\ At("restored")
  /\ \/ \E c \in Catalogs : resolveRoute(withDefaultLocalWorkbenchModels(c))
     \/ resolveRoute(defaultLocalWorkbenchModels)
  /\ UNCHANGED <<sig, got>>

\* A native turn reads the registry again; a companion turn has neither overlay nor fallback.
SelectedFrom(ms) ==
  LET f == route.for
      pick == selectWorkbenchModel(ms, f.q)
  IN IF ~pick.ok THEN Refuse(Explained(pick.reason, f.pinned # "none"))
     ELSE /\ route' = [route EXCEPT
                 !.row = [slug |-> pick.row.slug, provider |-> pick.row.provider, tier |-> pick.row.tier],
                 !.reason = pick.reason, !.url = pick.row.url,
                 !.fit = pick.reason \in {"ambient", "hint"} \/ (pick.reason = "tier" /\ f.q.tier = 0)
                           => isLocalWorkbenchModel(pick.row)]
          /\ Reach("chosen")
selectModelRoute(c) ==
  SelectedFrom(IF route.for.ask THEN withDefaultLocalWorkbenchModels(c) ELSE c.rows)

Select ==
  /\ At("native")
  /\ \/ \E c \in Catalogs : selectModelRoute(c)
     \/ IF route.for.ask THEN SelectedFrom(defaultLocalWorkbenchModels) ELSE Refuse("registry unread")
  /\ UNCHANGED <<sig, got>>

ConfirmNamedOnly(f) == f.q.id = "none" \/ confirmPaidRoute(route.row.tier, f)
gateEntry(f) == confirmPaidRoute(route.row.tier, f)

\* budgetGate: the spend check is SpendGate's; then consent for the row that was selected.
Confirm ==
  /\ At("chosen")
  /\ IF ~gateEntry(route.for) THEN Refuse("declined")
     ELSE \E stream, key \in BOOLEAN :
            /\ route' = [route EXCEPT !.stream = stream, !.key = key]
            /\ Reach("selected")
  /\ UNCHANGED <<sig, got>>

\* The gates before the request leaves: cancelled, no adapter, wrong base URL, no key.
Dispatch ==
  /\ net.at = "selected" /\ out = Running
  /\ IF sig THEN out' = abortedWorkbenchTurnResult(FALSE) /\ UNCHANGED net
     ELSE IF route.row.provider \in Acp THEN out' = Ended("no adapter", "none", FALSE, Nil) /\ UNCHANGED net
     ELSE IF route.url # "own" THEN out' = Ended("base url", "none", FALSE, Nil) /\ UNCHANGED net
     ELSE IF route.row.provider \notin Locals /\ ~route.key
          THEN out' = Ended("no key", "none", FALSE, Nil) /\ UNCHANGED net
     ELSE net' = [net EXCEPT !.at = "fetching"] /\ UNCHANGED out
  /\ route' = [route EXCEPT !.reason = "none", !.row.slug = "none", !.key = TRUE,
                            !.for = [NoAsk EXCEPT !.approved = paidEscalationVerdict(route.for.loopback, route.for.approved)]]
  /\ UNCHANGED <<sig, got>>

\* The caller cancels, at any time.
Cancel ==
  /\ out = Running /\ ~sig
  /\ sig' = TRUE
  /\ net' = IF net.at = "fetching" /\ net.first = "none" THEN [net EXCEPT !.first = "caller"] ELSE net
  /\ UNCHANGED <<route, got, out>>

\* The header deadline passes; it is cleared once fetch settles.
HeaderTimeout ==
  /\ net.at = "fetching" /\ out = Running /\ ~net.timedOut
  /\ net' = [net EXCEPT !.timedOut = TRUE, !.first = IF @ = "none" THEN "timer" ELSE @]
  /\ UNCHANGED <<route, sig, got, out>>

FetchRejects ==
  /\ net.at = "fetching" /\ out = Running
  /\ \E cause \in {"unreachable", "egress", "redirected", "unclassified"}
                  \cup (IF net.first = "none" THEN {} ELSE {"signal"}) :
       out' = fetchRejected(cause)
  /\ UNCHANGED <<route, sig, net, got>>

Statuses == {200, 400, 401, 404, 413, 422, 429, 500, 503, 529}
Marks == {"context", "auth", "model", "large", "price", "overloaded"}

Headers ==
  /\ net.at = "fetching" /\ out = Running
  /\ \E status \in Statuses :
       \E marks \in IF status = 200 THEN {{}} ELSE SUBSET Marks :
         net' = [Idle EXCEPT !.at = IF status = 200 THEN "reading" ELSE "refused",
                             !.status = status, !.marks = marks]
  /\ UNCHANGED <<route, sig, got, out>>

\* readBoundedErrorBody: whole, or cut short by the cap, a reset or the caller; what arrived classifies.
ErrorBody ==
  /\ net.at = "refused" /\ out = Running
  /\ \E seen \in {net.marks, {}} :
       out' = Ended(classifyProviderResponse(net.status, seen), "none", FALSE, Nil)
  /\ UNCHANGED <<route, sig, net, got>>

\* What a line of each provider's stream carries: text, reasoning, an end, a tool call (the
\* OpenAI-compatible ones), usage (a cost from OpenRouter alone, no reasoning count from Anthropic).
Usages(rsn, cost) == [comp : Completions \cup {None}, rsn : rsn, cost : cost] \ {NoUsage}
FramesWith(usages) ==
  {[Silent EXCEPT !.text = 3], [Silent EXCEPT !.rsn = 3], [Silent EXCEPT !.finish = "error"]}
    \cup {[Silent EXCEPT !.usage = u, !.finish = fin] : u \in usages, fin \in {"none", "stop"}}
parseOpenAIChatStreamLine ==
  FramesWith(Usages({None, 1}, IF route.row.provider = "openrouter" THEN {None, 1, 2} ELSE {None}))
    \cup {[Silent EXCEPT !.tool = 5]}
parseAnthropicStreamLine == FramesWith(Usages({None}, {None}))
parseGeminiStreamLine == FramesWith(Usages({None, 1}, {None}))

Reading == net.at = "reading" /\ out = Running
Bounded == route.row.provider \in Locals \cup {"openrouter"}
Frames == CASE Bounded -> parseOpenAIChatStreamLine
            [] route.row.provider = "anthropic" -> parseAnthropicStreamLine
            [] OTHER -> parseGeminiStreamLine

\* A complete line of the stream: a frame, or an error envelope that fails the call.
StreamFrame ==
  /\ Reading /\ route.stream /\ got.reads < MaxReads
  /\ \E f \in Frames : got' = [applyEvent(got, f) EXCEPT !.reads = @ + 1]
  /\ UNCHANGED <<route, sig, net, out>>

\* An error envelope, a body that resets, or (OpenAI-compatible only) the read limit fails the call.
StreamFails ==
  /\ Reading /\ route.stream
  /\ \/ out' = Ended("failed", "none", FALSE, Nil)
     \/ Bounded /\ got.reads = MaxReads /\ out' = Ended("limit", "none", FALSE, Nil)
  /\ UNCHANGED <<route, sig, net, got>>

\* The body ends, or the caller's cancellation ends the read. The unterminated rest is a whole frame,
\* nothing, or a frame cut mid-JSON: dropped when cancelled, an error otherwise.
ReadEnds(rest, g) ==
  \E stopped \in IF sig THEN BOOLEAN ELSE {FALSE} :
    out' = IF rest = "cut" /\ ~stopped THEN Ended("failed", "none", FALSE, Nil)
           ELSE Result(g, TRUE, stopped \/ sig)

StreamEnds ==
  /\ Reading /\ route.stream
  /\ \/ got' = got /\ \E rest \in {"none", "cut"} : ReadEnds(rest, got)
     \/ /\ got.reads < MaxReads
        /\ \E f \in Frames : got' = [applyEvent(got, f) EXCEPT !.reads = @ + 1] /\ ReadEnds("whole", got')
  /\ UNCHANGED <<route, sig, net>>

\* A buffered reply: one body, with its usage; or the read fails, by the caller's own signal or not.
BufferedBody ==
  /\ Reading /\ ~route.stream
  /\ \/ \E f \in Frames, text \in {0, 3} :
          /\ got' = applyEvent(got, [f EXCEPT !.text = text, !.rsn = 0])
          /\ out' = Result(got', FALSE, FALSE)
     \/ /\ out' \in {Ended("failed", "none", FALSE, Nil)}
                    \cup (IF Bounded THEN {Ended("limit", "none", FALSE, Nil)} ELSE {})
                    \cup (IF sig THEN {abortedWorkbenchTurnResult(TRUE)} ELSE {})
        /\ UNCHANGED got
  /\ UNCHANGED <<route, sig, net>>

Next == \/ Ask \/ Restore \/ Resolve \/ Select \/ Confirm \/ Dispatch \/ Cancel \/ HeaderTimeout \/ FetchRejects \/ Headers \/ ErrorBody
        \/ StreamFrame \/ StreamFails \/ StreamEnds \/ BufferedBody
Spec == Init /\ [][Next]_vars

-----------------------------------------------------------------------------
\* A failure is blamed on who caused it, whichever of cancel and timer fires second before the rejection is
\* handled: what is reported cancelled the caller did cancel, a timeout is the timer's and it did fire, and
\* what the caller caused is never reported as a timeout, a rate limit or a refusal of the provider's (though
\* it may come out as unreachable, redirected or unclassified); a reply in which the provider reported an
\* error is no cancellation, and a streamed reply is not reported complete once the caller cancelled it.
BlameTrue ==
  /\ out.kind = "aborted" => sig /\ out.cause = "caller"
  /\ out.cause = "timer" => out.kind = "timeout"
  /\ out.cause = "caller" => out.kind \in {"aborted", "error", "unreachable", "egress", "redirected", "unclassified"}
  /\ out.kind = "timeout" => net.timedOut
  /\ got.finish = "error" => out.kind \in {"running", "error", "failed", "limit"}
  /\ out.kind = "done" /\ route.stream => ~sig

\* Nothing received goes unmetered: a cancelled or cut-off reply costs at least the last completion count
\* the provider reported and an estimate of everything that arrived after it. Anthropic's adapter
\* estimates only a reply without any count, and then only its text: of its replies only the sums are claimed.
MeteredEnough ==
  out.kind \in {"done", "aborted", "error"} /\ route.stream /\ net.at = "reading" =>
    /\ out.used.output >= 0 /\ out.used.reasoning >= 0
    /\ out.used.billable = out.used.output + out.used.reasoning
    /\ route.row.provider # "anthropic" =>
         IF got.most = None THEN out.used.billable >= Ceil4(got.text + got.tool)
         ELSE out.used.billable >= got.most + Ceil4(got.lateGen + got.lateRsn)

\* The provider's own bill is taken only for a reply it covers: nothing arrived after the last count it
\* reported, and the bill came with that count.
BilledCovers ==
  out.used.basis = "billed" /\ route.stream =>
    /\ ~sig /\ got.lateGen = 0 /\ got.lateRsn = 0
    /\ got.costComp = got.usage.comp

\* A turn that names no model stays on this machine: the tier-0, hinted and default routes only ever
\* reach a local provider over loopback; and no key or prompt leaves for a host that is not the row's own.
AmbientStaysLocal ==
  /\ route.fit
  /\ net.at \in {"fetching", "reading", "refused"} => route.url = "own" /\ route.row.provider \notin Acp

\* A request refused over its price is never mistaken for a missing model, and only a refusal over the
\* context window is one the engine shrinks the request for.
RefusalSorted ==
  net.at = "refused" /\ out # Running =>
    /\ out.kind = "context" => net.status \in {400, 413, 422}
    /\ net.status >= 500 => out.kind \in {"rate", "unclassified"}
    /\ net.status = 404 /\ "price" \in net.marks => out.kind \in {"price cap", "unclassified"}

\* Nothing paid runs unapproved, though the registry is read twice and may change in between: the row a call
\* leaves for, and the agent a turn is handed to, is one the caller's own consent covers; an agent that reads
\* the workspace's configuration needs the operator's trust however it was named; and a session resumed
\* without a choice runs on the model it last completed on or not at all.
ConsentCovers ==
  /\ net.at \in {"fetching", "reading", "refused"} => route.row.tier = 0 \/ route.for.approved
  /\ out.kind = "agent" =>
       /\ route.row.tier > 0 \/ out.cause = "codex" => route.for.approved /\ route.for.loopback
       /\ out.cause = "codex" => route.for.trust
  /\ (out.kind = "agent" \/ net.at \in {"chosen", "selected"}) /\ route.for.pinned # "none" =>
       route.row.slug = route.for.pinned

\* The six together: consent, blame, metering, the bill, where a call may go, and how a refusal is sorted.
CallHolds == ConsentCovers /\ BlameTrue /\ MeteredEnough /\ BilledCovers /\ AmbientStaysLocal /\ RefusalSorted
=============================================================================
