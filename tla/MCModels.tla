------------------------------ MODULE MCModels ------------------------------
(* What a turn asks a model through, for TLC: the prompt of an ACP agent    *)
(* and its process, the provider adapters, and a turn's context.            *)
(* A behaviour is of one part, named by `part`; the others rest in an       *)
(* initial state.                                                           *)
EXTENDS AcpPrompt, AcpChild, Integers

CONSTANTS r1, r2, leader, h1, h2

-----------------------------------------------------------------------------
(* Replies with call markup, whole, cut, nested and misplaced, and the      *)
(* structured calls beside them.                                            *)

TagOpen == <<"<tool", "_call", ">">>
TagClose == <<"</tool", "_call", ">">>
Written(n, body) == TagOpen \o <<"<function=", n, ">">> \o body \o <<"</function>">> \o TagClose
Plainer == {<<"text">>, Written("read", <<>>), TagOpen,
            <<"<function=", "read", ">", "</function>">> \o TagClose}
Pieces ==
    Plainer \cup
    {Written("read", <<"param">>), Written("other", <<>>),
     Written("read", <<"huge">>), Written("read", TagClose),
     TagOpen \o <<" ", "<function=", "read", " ", ">", "</function>", " ">> \o TagClose}
MCReplies == {<<>>} \cup Pieces \cup {p \o q : p, q \in Pieces}
                 \cup {p \o q \o r : p, q, r \in Plainer}
Called(i, a) == [id |-> i, name |-> "read", args |-> a]
MCStructured == {<<>>, <<Called(1, "none")>>, <<Called(9, "deep")>>,
                 <<Called(2, "given"), Called(1, "none")>>}

-----------------------------------------------------------------------------
(* Registries with mis-tiered, unpriced and disabled rows, and what a body  *)
(* may ask of the route.                                                    *)

Row(s, p, u, t, pr, f) ==
    [slug |-> s, provider |-> p, url |-> u, tier |-> t, priced |-> pr, code |-> f, fast |-> f]
Catalog(o, rs) == [off |-> o, rows |-> rs]
MCCatalogs ==
    {Catalog(FALSE, <<Row("r", "openrouter", "own", 1, TRUE, TRUE),
                      Row("default", "llama-cpp", "own", 0, FALSE, FALSE),
                      Row("g", "google", "own", 1, TRUE, FALSE)>>),
     Catalog(TRUE, <<Row("r", "google", "own", 0, FALSE, TRUE),
                     Row("l", "mlx-lm", "own", 0, FALSE, FALSE),
                     Row("a", "anthropic", "own", 2, TRUE, FALSE)>>),
     Catalog(FALSE, <<Row("default", "mlx-lm", "other", 0, FALSE, TRUE),
                      Row("codex", "codex-chatgpt", "acp", 2, FALSE, TRUE),
                      Row("a", "anthropic", "own", 2, FALSE, FALSE)>>),
     Catalog(FALSE, <<Row("r", "codex-chatgpt", "acp", 2, FALSE, TRUE),
                      Row("codex", "claude-acp", "acp", 2, FALSE, FALSE),
                      Row("fixture", "fixture", "acp", 1, FALSE, FALSE)>>)}
MCRequests == [id : {"none", "r"}, tier : {-1, 0, 1, 2}, hint : {"none", "code"},
               fast : BOOLEAN, default : {"none", "default", "codex"}]

\* Replies with and without thinking blocks, and one with a block the adapter
\* does not know.
Block(type, v) == [type |-> type, v |-> v, mark |-> FALSE]
Think == Block("think", <<"t">>)
Say == Block("text", <<"say">>)
Use(u) == Block("use", <<u>>)
MCBlocks == {<<Think, Use("a")>>, <<Think, Say, Use("a"), Use("b")>>, <<Say, Use("a")>>,
             <<Think, Say>>, <<Think, Block("unknown", <<"x">>), Use("a")>>}

-----------------------------------------------------------------------------
(* A workspace of four files, transcripts that fit and that do not, and a   *)
(* window of eight messages or so.                                          *)

MCGroups == <<<<"agents">>, <<"readme", "rst">>, <<"note">>>>
MCLim == [window |-> 32, reserve |-> 6, system |-> 8, tools |-> 4, instruction |-> 12,
          handoff |-> 6, reply |-> 6, marker |-> 4, shrunk |-> 6, allowance |-> 5, floor |-> 10]
Msg(role, chars) == [role |-> role, chars |-> chars, trimmedFrom |-> 0, had |-> chars]
Past(r) == <<Msg("user", 4), Msg("assistant", 4), Msg("tool", r), Msg("assistant", 4)>>
MCHistories ==
    {<<Msg("user", 4)>>, <<Msg("user", 110)>>}
    \cup {Past(r) \o <<Msg("user", 6)>> : r \in {8, 90}}
    \cup {Past(r) \o Past(40) \o Past(30) \o <<Msg("user", 6)>> : r \in {8, 40}}
    \cup {<<Msg("summary", 6)>> \o Past(40) \o Past(40) \o <<Msg("user", 6)>>}
MCReports == [requested : {0, 40}, limit : {32, 20, 60}]

-----------------------------------------------------------------------------
VARIABLES
    part,
    reply, taken, screen, split, result, callRoute, sig, net, got, out,
    history, replaySent, replayCount,
    disk, ctxTurn, load, edits, flicker, msgs, ctxReq, evidence

agentVars == <<vars, childVars>>
textVars == <<reply, taken, screen, split, result>>
callVars == <<callRoute, sig, net, got, out>>
replayVars == <<history, replaySent, replayCount>>
ctxVars == <<disk, ctxTurn, load, edits, flicker, msgs, ctxReq, evidence>>
modelVars == <<textVars, callVars, replayVars, ctxVars>>

Reply == INSTANCE ProviderReplies WITH
    Replies <- MCReplies, Structured <- MCStructured, MaxMarkers <- 2,
    MaxDelta <- 3, ReplyBlocks <- MCBlocks, MaxSends <- 4, MaxEdits <- 1,
    sent <- replaySent, count <- replayCount
Call == INSTANCE ProviderCall WITH
    Catalogs <- MCCatalogs, Requests <- MCRequests, Transports <- {TRUE},
    Completions <- {1, 2}, MaxReads <- 4, route <- callRoute
Context == INSTANCE TurnContext WITH
    Groups <- MCGroups, Nested <- {"note"}, Slugs <- {"m"}, Large <- 40,
    Totals <- {5, 60, 500}, MaxEdits <- 2, Histories <- MCHistories,
    Sizes <- {14, 90}, Reports <- MCReports, Lim <- MCLim, MaxSteps <- 3,
    Sessions <- {1, 2, 3},
    HistoryMax <- [sessions |-> 2, entries |-> 2, chars |-> 6],
    MaxEvidence <- 3, turn <- ctxTurn, req <- ctxReq

SuiteInit ==
    /\ part \in {"prompt", "child", "text", "call", "replay", "context"}
    /\ Init /\ ChildInit
    /\ Reply!TextInit /\ Call!Init /\ Reply!ReplayInit /\ Context!Init
    /\ part # "child" => ~abort
    /\ part # "context" => /\ ctxTurn.mode = "ask" /\ ctxTurn.trust /\ ctxTurn.lost
                           /\ ctxTurn.loopback

SuiteNext ==
    /\ UNCHANGED part
    /\ \/ /\ part = "prompt" /\ Next
          /\ UNCHANGED <<childVars, modelVars>>
       \/ /\ part = "child" /\ ChildNext
          /\ UNCHANGED <<vars, modelVars>>
       \/ /\ part = "text" /\ Reply!TextNext
          /\ UNCHANGED <<agentVars, callVars, replayVars, ctxVars>>
       \/ /\ part = "call" /\ Call!Next
          /\ UNCHANGED <<agentVars, textVars, replayVars, ctxVars>>
       \/ /\ part = "replay" /\ Reply!ReplayNext
          /\ UNCHANGED <<agentVars, textVars, callVars, ctxVars>>
       \/ /\ part = "context" /\ Context!Next
          /\ UNCHANGED <<agentVars, textVars, callVars, replayVars>>

SuiteSpec == SuiteInit /\ [][SuiteNext]_<<part, agentVars, modelVars>>

-----------------------------------------------------------------------------
(* Properties.                                                             *)

\* provider/openai-compatible and provider/anthropic: however a reply is cut
\* into deltas, what is shown is what is kept and a call in it runs once.  The
\* markup of a call that runs is not shown either, unless the deltas cut its
\* opening between "<tool" and "_call", a wrapper closes inside its own function
\* or opens directly before another, or a call is over the argument budget:
\* there "recoverable markup stays hidden" (openai-compatible/stream.ts:289)
\* does not hold, and only the first two clauses are claimed.  Thinking blocks
\* go back only while what preceded them is unchanged.
RepliesKept ==
    /\ part = "text" => Reply!TextHolds
    /\ part = "replay" => Reply!ReplayedWhileUnchanged

\* engine/route.ts and provider/: a paid route was consented to though the
\* registry changed after the body was read, a failure is blamed on who caused
\* it, what is metered and billed covers what was generated, and a turn that
\* named no model stays local.
CallKept == part = "call" => Call!CallHolds

\* context/ and engine/: what is read as context comes from the checked root
\* and is cleared for the model, what is packed and sent fits its window,
\* trimming is stated and takes the stalest first, and a result replayed from
\* the redacted evidence is of its own call.
ContextKept == part = "context" => Context!ContextHolds
=============================================================================
