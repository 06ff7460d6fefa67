------------------------------ MODULE MCEngine ------------------------------
(* The engine's turn for TLC: the agent loop, a session's transcript over   *)
(* several turns, the turn of an external agent, the MCP and web tools it   *)
(* calls, and the store its events are committed to.  A behaviour is of one *)
(* part, named by `part`; the others rest in an initial state.              *)
EXTENDS AgentLoop, TLC

CONSTANTS c1, c2, noid

\* What an ACP agent may send of a call's label, raw values and status.
MCLabels == {"title", "name"}
MCTexts == {"clean", "secret", "null"}
MCRaws == {"clean", "secret", "big", "bigsecret"}
MCStatuses == {"completed", "pending", "other"}

-----------------------------------------------------------------------------
(* Store: two sessions that commit, one of them twice; a slug both insert,  *)
(* and a batch with a row the store refuses.                                *)

Event(id, s, type, model, end, usd) ==
    [id |-> id, session |-> s, type |-> type, model |-> model, stop |-> end,
     purpose |-> "", cost |-> usd]
Row(rowKind, id, slug, status, content) ==
    [kind |-> rowKind, id |-> id, slug |-> slug, status |-> status, content |-> content]
Batch(name, ev, mu, sig) ==
    [name |-> name, events |-> ev, mutations |-> mu, signal |-> sig]
MCBatches ==
    ("s1" :> {Batch("a", <<Event(9, "s1", "provider_call", "m1", "stop", 2),
                           Event(3, "s1", "agent_response", "r", "", 0)>>,
                    <<Row("session_insert", "s1", "k", "active", "c0")>>, TRUE),
              Batch("b", <<Event(1, "s1", "model_response", "m2", "stop", 0)>>, <<>>, FALSE),
              Batch("c", <<Event(5, "s1", "provider_call", "m3", "error", 3)>>,
                    <<Row("session_update", "s1", "k", "completed", ""),
                      Row("memory_upsert", "x", "note", "", "v1")>>, FALSE)})
    @@
    ("s2" :> {Batch("d", <<Event(2, "s2", "provider_call", "m1", "length", 1)>>,
                    <<Row("session_insert", "s2", "k", "active", "c0"),
                      Row("memory_upsert", "y", "note", "", "v2")>>, FALSE),
              Batch("e", <<>>, <<Row("model_insert", "q", "", "", "")>>, FALSE)})

-----------------------------------------------------------------------------
(* MCP: tables an operator writes, six of them refused, what a server may   *)
(* list, and what the creation command is passed and may be answered.       *)

Remote(name, effect, approval) == [name |-> name, effect |-> effect, approval |-> approval]
Reads(name) == Remote(name, "read", "allow")
Writes(name) == Remote(name, "write_external", "ask")
Https == [protocol |-> "https", loopback |-> FALSE, credentials |-> FALSE, comma |-> FALSE]
Http == [Https EXCEPT !.protocol = "http"]
Table(id, remotes, search, fetch, bound) ==
    [id |-> id, url |-> Https, clearance |-> "loopback", declared |-> TRUE, tools |-> remotes,
     caps |-> search # "none" \/ fetch # "none", search |-> search, fetch |-> fetch,
     bound |-> bound, team |-> "T1", projects |-> "Web" :> "P1" @@ "App" :> "P2"]
TableA == Table("a", <<Reads("find"), Writes("get")>>, "find", "find", FALSE)
MCTables ==
    {TableA, Table("b", <<Reads("find"), Reads("get")>>, "find", "get", FALSE),
     [Table("b", <<Reads("find"), Writes("get")>>, "none", "get", FALSE)
        EXCEPT !.clearance = "remote"],
     Table("l", <<Reads("get"), Writes("create_issue")>>, "none", "none", TRUE),
     Table("l", <<Writes("save_issue"), Reads("find")>>, "find", "none", TRUE),
     Table("l", <<Writes("save_issue"), Writes("create_issue")>>, "none", "none", FALSE)}
    \cup
    {Table("x", <<Writes("save_issue"), Writes("create_issue")>>, "none", "none", TRUE),
     Table("x", <<Remote("get", "write_external", "allow")>>, "get", "none", FALSE),
     [TableA EXCEPT !.url = Http], [TableA EXCEPT !.url.credentials = TRUE],
     [TableA EXCEPT !.search = "gone"],
     [TableA EXCEPT !.url = [Http EXCEPT !.loopback = TRUE], !.declared = FALSE]}

Node(type) == [type |-> type, ref |-> FALSE, anyOf |-> FALSE, properties |-> "ok",
               required |-> "declared", additional |-> "none", enum |-> "none"]
Schema(chain) == [big |-> FALSE, chain |-> chain, otherKeys |-> FALSE, fields |-> {"title", "description", "team", "project", "priority", "relatedTo"},
                  required |-> {"title", "team"}, teams |-> {}, projects |-> {}]
Good == Schema(<<Node("object"), Node("array"), [Node("none") EXCEPT !.anyOf = TRUE],
                 [Node("string") EXCEPT !.ref = TRUE]>>)
Bad == {Schema(<<Node("object"), Node("array")>>),
        Schema(<<Node("object"), Node("object"), Node("object"), Node("object"), Node("string")>>),
        [Schema(<<[Node("object") EXCEPT !.enum = "long"]>>) EXCEPT !.required = {"relatedTo"}],
        [Schema(<<Node("string")>>) EXCEPT !.projects = {"P1"}]}
BadOne == CHOOSE s \in Bad : TRUE
Lists(name, schema) == [name |-> name, schema |-> schema]
MCOffers ==
    {<<>>, <<Lists("find", Good)>>, <<Lists("get", Good), Lists("find", Good)>>,
     <<Lists("find", BadOne), Lists("find", Good), Lists("get", BadOne)>>,
     <<Lists("save_issue", Good), Lists("get", Good)>>}
    \cup {<<Lists("create_issue", s), Lists("get", s), Lists("find", s)>> : s \in Bad \cup {Good}}

MCArguments ==
    [extra : {FALSE}, title : {"ok", "blank"}, project : {"Web", "App", "P1"},
     priority : {0, 5}, related : {"none", "repeated"}]
    \cup {[extra |-> TRUE, title |-> "ok", project |-> "Web", priority |-> 0, related |-> "none"]}

\* Ids are true; a text is a name, or the id; both, one or neither given.
Made(t, p) == <<[team |-> t, project |-> p]>>
Assoc(id, name) == [ids : {{}, {id}}, text : {"", id, name}]
Answered(t, p) ==
    {[kind |-> "result", identifier |-> i, team |-> a, project |-> b, made |-> Made(t, p)] :
        i \in {"given", "conflict"}, a \in Assoc(t, "Team"), b \in Assoc(p, "Web")}
MovedTo == {[kind |-> "result", identifier |-> "alias", team |-> [ids |-> {"T1"}, text |-> ""],
             project |-> [ids |-> {"P1", "P2"}, text |-> "P1"], made |-> Made("T1", "P2")]}
Nothing == [ids |-> {}, text |-> ""]
MCAnswers ==
    UNION {Answered(t, p) : t \in {"T1", "T2"}, p \in {"P1", "P2"}} \cup MovedTo
    \cup {[kind |-> k, identifier |-> "none", team |-> Nothing, project |-> Nothing, made |-> m] :
             k \in {"error", "thrown"}, m \in {<<>>, Made("T1", "P1")}}

-----------------------------------------------------------------------------
VARIABLES
    part,
    servers, stage, at, commands, diagnostics, readyWebServers, suppliers,
    creation, web, webCall, webClock, shown, webRan, lost, upstream,
    tx, dolt, mem, used, gap, clock, done,
    log, live, phase, turn, replayTools, covers, apart, twice,
    pc, entries, agentTodo,
    agentLog, past, agentStop, begun, frame, count, agentSent

mcpVars == <<servers, stage, at, commands, diagnostics, readyWebServers,
             suppliers, creation>>
webVars == <<web, webCall, webClock, shown, webRan, lost, upstream>>
outsideVars == <<mcpVars, webVars>>
storeVars == <<tx, dolt, mem, used, gap, clock, done>>
replayVars == <<log, live, phase, turn, replayTools, covers, apart, twice>>
agentVars == <<pc, entries, agentTodo, agentLog, past, agentStop, begun,
               frame, count, agentSent>>

Replay == INSTANCE SessionReplay WITH
    MaxTurns <- 2, TailTurns <- 1, LastTurn <- 3, MaxTools <- 1,
    MaxSummaries <- 2, MaxEvents <- 5000, tools <- replayTools
Kept == INSTANCE SessionReplay WITH
    MaxTurns <- 2, TailTurns <- 1, LastTurn <- 4, MaxTools <- 1,
    MaxSummaries <- 1, MaxEvents <- 4, tools <- replayTools
Agent == INSTANCE AcpTurn WITH
    Calls <- {c1, c2}, SecretIds <- {c2}, NoCall <- noid, Labels <- {"kind"},
    Texts <- {"clean"}, Raws <- {"clean"}, Statuses <- {"completed"},
    MaxPatches <- 3, MaxTurns <- 2, MaxPrior <- 2, Faults <- TRUE,
    todo <- agentTodo, log <- agentLog, stop <- agentStop, sent <- agentSent
Capture == INSTANCE AcpTurn WITH
    Calls <- {c1}, SecretIds <- {}, NoCall <- noid, Labels <- MCLabels,
    Texts <- MCTexts,
    Raws <- MCRaws, Statuses <- MCStatuses, MaxPatches <- 5, MaxTurns <- 1,
    MaxPrior <- 32, Faults <- FALSE, todo <- agentTodo, log <- agentLog,
    stop <- agentStop, sent <- agentSent

Store == INSTANCE Store WITH
    Committers <- {"s1", "s2"}, Batches <- MCBatches, Limit <- 2,
    Millisecond <- 2, DayStart <- 2, MaxCommits <- "s1" :> 2 @@ "s2" :> 1
External == INSTANCE ExternalTools WITH
    Entries <- MCTables, MaxServers <- 8, MaxTools <- 32, Offers <- MCOffers,
    MaxDepth <- 3, MaxEntries <- 2, Arguments <- MCArguments,
    Answers <- MCAnswers,
    Turns <- {"t", "u"}, Pages <- {"p", "q", "ip"}, Refused <- {"q"},
    Literals <- {"ip"}, Cap <- 1, StaleAfter <- 1, MaxSearches <- 2,
    MaxFetches <- 2, FetchChars <- 1, TurnChars <- 1, Limit <- 2,
    MaxClock <- 2, MaxCalls <- "t" :> 3 @@ "u" :> 1,
    Results <- {<<>>, <<"p">>, <<"ip", "q">>, <<"", "p", "ip">>},
    call <- webCall, ran <- webRan, clock <- webClock

SuiteInit ==
    /\ part \in {"loop", "replay", "kept", "agent", "capture", "store", "mcp",
                 "web"}
    /\ Init
    /\ IF part = "replay" THEN Replay!Init ELSE Kept!Init
    /\ IF part = "agent" THEN Agent!Init ELSE Capture!Init
    /\ Store!Init /\ External!McpInit /\ External!WebInit
    /\ part # "loop" => nextWork = FALSE /\ ~retryable

SuiteNext ==
    /\ UNCHANGED part
    /\ \/ /\ part = "loop" /\ Next
          /\ UNCHANGED <<replayVars, agentVars, storeVars, outsideVars>>
       \/ /\ part = "replay" /\ Replay!Next
          /\ UNCHANGED <<vars, agentVars, storeVars, outsideVars>>
       \/ part = "kept" /\ Kept!Next /\ UNCHANGED <<vars, agentVars, storeVars, outsideVars>>
       \/ /\ part = "agent" /\ Agent!Next
          /\ UNCHANGED <<vars, replayVars, storeVars, outsideVars>>
       \/ /\ part = "capture" /\ Capture!Next
          /\ UNCHANGED <<vars, replayVars, storeVars, outsideVars>>
       \/ part = "store" /\ Store!Next /\ UNCHANGED <<vars, replayVars, agentVars, outsideVars>>
       \/ /\ part = "mcp" /\ External!McpNext
          /\ UNCHANGED <<vars, replayVars, agentVars, storeVars, webVars>>
       \/ /\ part = "web" /\ External!WebNext
          /\ UNCHANGED <<vars, replayVars, agentVars, storeVars, mcpVars>>

SuiteVars == <<part, vars, replayVars, agentVars, storeVars, outsideVars>>
SuiteSpec == SuiteInit /\ [][SuiteNext]_SuiteVars

-----------------------------------------------------------------------------
(* Properties.                                                             *)

\* load-transcript.ts and compression.ts: what a later turn rebuilds from the
\* newest events of the log is what the running turn sees, and no turn is both
\* verbatim and in the summary, with two exceptions that engine/compression.ts:
\* 294-299 and fit-request.ts:111-116 do not make: a compression that serves
\* only the retry of an overflowed request leaves the running turn with its
\* longer transcript, all of which the log then still holds, verbatim or
\* summarized; and one made with a handoff's request in the transcript leaves
\* one turn in both. However turns are cut and compressed, a tool call keeps its
\* result beside it, and the summary stays in front while a resume reads it.
TranscriptKept ==
    /\ part = "replay" => Replay!LiveMatchesResume /\ Replay!SummarizedOnce
    /\ part = "kept" => Kept!PairsIntact /\ Kept!SummaryPinned

\* external-agent-runtime.ts and acp-tool-evidence.ts: an external agent's
\* answer is in the log only with every call heard of, and the client is told
\* of completion only after the answer and the end are there; nothing that
\* looks like a credential reaches an event, and a call recorded in full is
\* what the agent sent last.
AgentTurnWhole ==
    /\ part = "agent" => Agent!EveryCallAccounted /\ Agent!CompletedIsDurable
    /\ part = "capture" => Capture!NoSecretPersisted /\ Capture!RecordedIsFaithful

\* store/: a commit reported done is in the tables whole and one reported
\* rolled back is not, the Dolt and the memory store answer alike, and no
\* commit takes a connection with it.
StoreKept ==
    part = "store" => Store!CommitsHonest /\ Store!StoresAgree /\ Store!PoolKept

\* tools/mcp and tools/web: every configured tool becomes a command, with the
\* effect and approval the operator gave it, or a boot line; a receipt names
\* where the issue really is; a source id means the page last shown under it,
\* only a target verified public is fetched, and a turn keeps to its limits
\* while its state is held.
ExternalKept ==
    /\ part = "mcp" => External!McpHolds
    /\ part = "web" => External!WebHolds
=============================================================================
