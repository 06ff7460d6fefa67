--------------------------- MODULE ExternalTools ----------------------------
(***************************************************************************)
(* External MCP servers from the operator's [[mcp.servers]] tables         *)
(* (config/mcp-servers.ts) through discovery at boot to the commands a     *)
(* turn is offered (tools/mcp/adapter.ts), and the one command that writes *)
(* an issue (extensions/linear).  A server, its tools and its connector's  *)
(* answers are outside the code; a schema is a chain of nodes, each the    *)
(* one property or item of the node before.                                *)
(***************************************************************************)
EXTENDS Naturals, Sequences, SequencesExt, FiniteSets, FiniteSetsExt

CONSTANTS
    Entries,      \* tables the operator may write
    MaxServers,   \* MAX_MCP_SERVERS
    MaxTools,     \* MAX_MCP_TOOLS_PER_SERVER
    Offers,       \* what a server may list: sequences of [name, schema]
    MaxDepth,     \* MAX_SCHEMA_DEPTH
    MaxEntries,   \* bound: tables written
    Arguments,    \* what the model may pass to the creation command
    Answers       \* what the connector may answer, and where it put the issue

VARIABLES
    servers,      \* the tables of the config
    stage,        \* "config", "refused", "boot", "ready"
    at,           \* the server discovered next
    commands,     \* the commands built, in order
    diagnostics,  \* the boot lines, in order
    readyWebServers,  \* servers with a web tool discovered
    suppliers,    \* web command -> the server it comes from, "none"
    creation      \* the creation command's call
mcpVars == <<servers, stage, at, commands, diagnostics, readyWebServers,
             suppliers, creation>>

IssueTools == {"create_issue", "save_issue"}
WebTools == {"web_search", "web_fetch"}
NoCall == [stage |-> "idle", args |-> <<>>, sent |-> <<>>, made |-> <<>>, result |-> ""]

-----------------------------------------------------------------------------
(* config/mcp-servers.ts.                                                  *)

assertSecureMcpServerUrl(url) ==
    /\ ~url.credentials /\ ~url.comma
    /\ url.protocol = "https" \/ (url.protocol = "http" /\ url.loopback)

\* A tool entry; a write needs approval. `mayWrite` is what a write entry
\* must satisfy.
ParsedTools(tools, mayWrite(_)) ==
    /\ tools # <<>> /\ Len(tools) <= MaxTools
    /\ \A i, j \in DOMAIN tools : tools[i].name = tools[j].name => i = j
    /\ \A i \in DOMAIN tools :
         /\ tools[i].effect \in {"read", "write_external"}
         /\ tools[i].approval \in {"allow", "ask"}
         /\ tools[i].effect = "write_external" => mayWrite(tools[i])
\* Mutant: a write may be allowed without asking.
WritesUnasked(tools) == ParsedTools(tools, LAMBDA t : TRUE)
parseMcpTools(tools) == ParsedTools(tools, LAMBDA t : t.approval = "ask")

Names(tools) == {tools[i].name : i \in DOMAIN tools}

parseMcpCapabilities(e) ==
    /\ {e.search, e.fetch} \subseteq Names(e.tools) \cup {"none"}
    /\ {e.search, e.fetch} \cap IssueTools = {}
    /\ e.search # "none" \/ e.fetch # "none"

parseLinearIssueCreation(e) ==
    /\ DOMAIN e.projects # {}
    /\ \E i \in DOMAIN e.tools :
         /\ {j \in DOMAIN e.tools : e.tools[j].name \in IssueTools} = {i}
         /\ e.tools[i].effect = "write_external" /\ e.tools[i].approval = "ask"
    /\ e.clearance = "loopback"

\* One table; `caps` and `bound` say whether the optional tables are there.
parseMcpServer(e, ids) ==
    /\ e.id \notin ids
    /\ assertSecureMcpServerUrl(e.url)
    /\ e.clearance \in {"loopback", "remote"}
    /\ e.declared
    /\ parseMcpTools(e.tools)
    /\ e.caps => parseMcpCapabilities(e)
    /\ e.bound => parseLinearIssueCreation(e)

parseMcpServersConfig(tables) ==
    /\ Len(tables) <= MaxServers
    /\ \A i \in DOMAIN tables :
         parseMcpServer(tables[i], {tables[j].id : j \in 1 .. i - 1})

-----------------------------------------------------------------------------
(* The schemas of discovered tools.                                        *)

\* A node the sanitizer refuses, whatever its place. `required` is of names
\* that are declared, or not.
NodeRefused(node) ==
    \/ node.ref
    \/ node.type \in {"none", "null"} /\ ~node.anyOf
    \/ /\ node.type = "object"
       /\ \/ node.properties = "bad" \/ node.required = "undeclared"
          \/ node.additional = "schema"
    \/ node.enum \in {"long", "nested"}
Nests(node) == node.type \in {"object", "array"}

\* The nodes that are visited are those under objects and arrays only: an
\* anyOf of another type is a string.
sanitizeSchemaNode(chain) ==
    \A i \in DOMAIN chain :
        (\A j \in 1 .. i - 1 : Nests(chain[j])) =>
            /\ i - 1 <= MaxDepth
            /\ ~NodeRefused(chain[i])
            /\ chain[i].type = "array" => i < Len(chain)

sanitizeMcpInputSchema(schema) ==
    ~schema.big /\ sanitizeSchemaNode(schema.chain) /\ schema.chain[1].type = "object"

\* extensions/linear: the creation fields an upstream schema must take.
Supplied == {"title", "description", "team", "project", "priority", "relatedTo"}
supportsBoundedLinearCreateIssue(schema, e) ==
    /\ schema.required \subseteq Supplied \ {"relatedTo"}
    /\ schema.teams = {} \/ e.team \in schema.teams
    /\ schema.projects = {} \/ {e.projects[p] : p \in DOMAIN e.projects} \subseteq schema.projects

\* `fields` are those of a type, with keywords, the projection reads.
projectLinearCreationUpstreamSchema(schema, e) ==
    /\ ~schema.big /\ ~schema.otherKeys
    /\ Supplied \subseteq schema.fields
    /\ supportsBoundedLinearCreateIssue(schema, e)

-----------------------------------------------------------------------------
(* tools/mcp/adapter.ts: boot.                                              *)

Command(id, tool, e, effect, decision, clearance) ==
    [id |-> id, server |-> e.id, tool |-> tool, effect |-> effect,
     decision |-> decision, clearance |-> clearance]
Line(e, status, tool, reason) ==
    [server |-> e.id, status |-> status, tool |-> tool, reason |-> reason]
Effect(t) == IF t.effect = "read" THEN "read.external" ELSE "write.external"

\* The first tool of a name is the one that counts.
retainConfiguredMcpTools(e, offered) ==
    {i \in DOMAIN offered :
        /\ offered[i].name \in Names(e.tools)
        /\ \A j \in 1 .. i - 1 : offered[j].name # offered[i].name}
Discovered(e, offered, name) ==
    {offered[i].schema : i \in {k \in retainConfiguredMcpTools(e, offered) :
                                   offered[k].name = name}}

defineExternalMcpToolCommand(e, t) ==
    Command(<<e.id, t.name>>, t.name, e, Effect(t), t.approval, e.clearance)
buildBoundedLinearCreateIssueCommand(e, t) ==
    Command(<<e.id, "create_issue">>, t.name, e, "write.external", "ask", "loopback")

\* What a configured tool comes to: a command, a line, or nothing yet.
\* `offeredOnly` says whether a mapped tool is left out before its check.
Configured(e, t, offered, mappedFirst) ==
    LET schema == Discovered(e, offered, t.name)
        mapped == t.name \in {e.search, e.fetch}
        none == [command |-> <<>>, line |-> <<>>]
        line(status, reason) ==
            [command |-> <<>>, line |-> <<Line(e, status, t.name, reason)>>]
        command(c) == [command |-> <<c>>, line |-> <<>>]
    IN  IF mappedFirst /\ mapped THEN none
        ELSE IF schema = {} /\ t.name \notin IssueTools
        THEN line("dropped", "not offered")
        ELSE IF mapped THEN none
        ELSE IF t.name \in IssueTools
        THEN IF e.bound /\ schema # {} /\
                (\A s \in schema : projectLinearCreationUpstreamSchema(s, e))
             THEN command(buildBoundedLinearCreateIssueCommand(e, t))
             ELSE line("withheld", IF ~e.bound THEN "binding missing"
                                   ELSE IF schema = {} THEN "not discovered"
                                   ELSE "unsupported schema")
        ELSE IF \A s \in schema : sanitizeMcpInputSchema(s)
        THEN command(defineExternalMcpToolCommand(e, t))
        ELSE line("dropped", "schema rejected")
\* Mutant: a mapped tool is passed over before it is looked for.
MappedUnchecked(e, t, offered) == Configured(e, t, offered, TRUE)
ConfiguredTool(e, t, offered) == Configured(e, t, offered, FALSE)

configuredToolCommands(e, offered) ==
    LET each == [i \in DOMAIN e.tools |-> ConfiguredTool(e, e.tools[i], offered)]
    IN  [commands |-> FlattenSeq([i \in DOMAIN each |-> each[i].command]),
         lines |-> FlattenSeq([i \in DOMAIN each |-> each[i].line])]

Offered(e, offered, name) == name # "none" /\ Discovered(e, offered, name) # {}
MappedTool(e, id) == IF id = "web_search" THEN e.search ELSE e.fetch

\* The first ready server whose mapped tool was discovered.
Supplier(ready, id) ==
    LET able == {i \in DOMAIN ready : id \in ready[i].offers}
    IN  IF able = {} THEN 0 ELSE CHOOSE i \in able : \A j \in able : i <= j

\* A web command is built under the policy of the tool it maps to.
defineWebCommands(e, id) ==
    LET t == e.tools[CHOOSE i \in DOMAIN e.tools : e.tools[i].name = MappedTool(e, id)]
    IN  Command(<<id>>, t.name, e, Effect(t), t.approval, e.clearance)

webCapabilityCommands(ready) ==
    LET search == Supplier(ready, "web_search")
        fetch == Supplier(ready, "web_fetch")
        of(i, id) == IF i = 0 THEN <<>> ELSE <<defineWebCommands(ready[i].server, id)>>
    IN  of(search, "web_search") \o of(fetch, "web_fetch")

ShadowedTools(ready, outranked(_, _)) ==
    FlattenSeq([i \in DOMAIN ready |->
        FlattenSeq([k \in 1 .. 2 |->
            LET id == <<"web_search", "web_fetch">>[k] IN
            IF id \in ready[i].offers /\ outranked(i, id)
            THEN <<Line(ready[i].server, "dropped", MappedTool(ready[i].server, id), id)>>
            ELSE <<>>])])
\* Mutant: only a server that supplies nothing is told.
ShadowedServers(ready) ==
    ShadowedTools(ready, LAMBDA i, id : \A w \in WebTools : Supplier(ready, w) # i)
shadowedWebTools(ready) ==
    ShadowedTools(ready, LAMBDA i, id : Supplier(ready, id) # i)

externalMcpCommandsForTransport(transport) ==
    {i \in DOMAIN commands : transport = "loopback" \/ commands[i].clearance = "remote"}

-----------------------------------------------------------------------------
McpInit ==
    /\ servers = <<>> /\ stage = "config" /\ at = 1
    /\ commands = <<>> /\ diagnostics = <<>> /\ readyWebServers = <<>>
    /\ suppliers = [id \in WebTools |-> "none"]
    /\ creation = NoCall

\* The operator writes a table more.
Write ==
    /\ stage = "config" /\ Len(servers) < MaxEntries
    /\ \E e \in Entries : servers' = Append(servers, e)
    /\ UNCHANGED <<stage, at, commands, diagnostics, readyWebServers, suppliers,
                   creation>>

Parse ==
    /\ stage = "config" /\ servers # <<>>
    /\ stage' = IF parseMcpServersConfig(servers) THEN "boot" ELSE "refused"
    /\ UNCHANGED <<servers, at, commands, diagnostics, readyWebServers, suppliers,
                   creation>>

\* discoverServer: no credential, a refusal of the network policy, or any
\* other failure leave the server's tools out and go on with the next.
Unavailable ==
    /\ stage = "boot" /\ at <= Len(servers)
    /\ \E reason \in {"credential unavailable", "network egress", "discovery failed"} :
         diagnostics' = Append(diagnostics, Line(servers[at], "unavailable", "", reason))
    /\ at' = at + 1
    /\ UNCHANGED <<servers, stage, commands, readyWebServers, suppliers, creation>>

Discover ==
    /\ stage = "boot" /\ at <= Len(servers)
    /\ \E offered \in Offers :
         LET e == servers[at]
             built == configuredToolCommands(e, offered)
             offers == {id \in WebTools : Offered(e, offered, MappedTool(e, id))}
         IN  /\ commands' = commands \o built.commands
             /\ diagnostics' = diagnostics \o built.lines \o <<Line(e, "ready", "", "")>>
             /\ readyWebServers' =
                    IF offers = {} THEN readyWebServers
                    ELSE Append(readyWebServers, [server |-> e, offers |-> offers])
    /\ at' = at + 1
    /\ UNCHANGED <<servers, stage, suppliers, creation>>

\* buildExternalMcpCommands' end: the web commands and what they outrank.
Finish ==
    /\ stage = "boot" /\ at > Len(servers)
    /\ stage' = "ready"
    /\ commands' = commands \o webCapabilityCommands(readyWebServers)
    /\ diagnostics' = diagnostics \o shadowedWebTools(readyWebServers)
    /\ suppliers' = [id \in WebTools |->
         LET i == Supplier(readyWebServers, id)
         IN  IF i = 0 THEN "none" ELSE readyWebServers[i].server.id]
    /\ UNCHANGED <<servers, at, readyWebServers, creation>>

-----------------------------------------------------------------------------
(* The creation command.                                                   *)

Creation == {i \in DOMAIN commands : commands[i].tool \in IssueTools}
Binding(i) == servers[CHOOSE k \in DOMAIN servers : servers[k].id = commands[i].server]

\* The arguments, mapped to the team and to the id of the project named.
validateAndMapArguments(args, e) ==
    IF args.extra \/ args.title # "ok" \/ args.project \notin DOMAIN e.projects
       \/ args.priority \notin 0 .. 4 \/ args.related \in {"many", "repeated"}
    THEN <<>> ELSE <<[team |-> e.team, project |-> e.projects[args.project]]>>

Create ==
    /\ stage = "ready" /\ creation = NoCall
    /\ \E i \in Creation, args \in Arguments :
         LET sent == validateAndMapArguments(args, Binding(i)) IN
         creation' = IF sent = <<>>
                 THEN [NoCall EXCEPT !.stage = "done", !.args = <<args>>, !.result = "invalid"]
                 ELSE [NoCall EXCEPT !.stage = "sent", !.args = <<args>>, !.sent = sent]
    /\ UNCHANGED <<servers, stage, at, commands, diagnostics, readyWebServers, suppliers>>

\* The ids an association of an answer gives: those stated, and a string only
\* where none is. `read` says when the string is one.
Associated(of, read(_)) ==
    of.ids \cup (IF of.text = "" \/ ~read(of.ids) THEN {} ELSE {of.text})
\* Mutant: the first id found settles it.
FirstId(of) ==
    IF of.ids # {} THEN {CHOOSE i \in of.ids : TRUE} ELSE Associated(of, LAMBDA ids : TRUE)
associationIds(of) == Associated(of, LAMBDA ids : ids = {})

projectLinearIssueCreationReceipt(answer, sent) ==
    /\ answer.kind = "result"
    /\ answer.identifier \in {"given", "alias", "agree"}
    /\ associationIds(answer.team) = {sent.team}
    /\ associationIds(answer.project) = {sent.project}

Answer ==
    /\ creation.stage = "sent"
    /\ \E answer \in Answers :
         creation' = [creation EXCEPT !.stage = "done", !.made = answer.made,
                  !.result = IF projectLinearIssueCreationReceipt(answer, creation.sent[1])
                             THEN "created" ELSE "indeterminate"]
    /\ UNCHANGED <<servers, stage, at, commands, diagnostics, readyWebServers, suppliers>>

McpNext == Write \/ Parse \/ Unavailable \/ Discover \/ Finish \/ Create \/ Answer
McpSpec == McpInit /\ [][McpNext]_mcpVars

(***************************************************************************)
(* web_search and web_fetch (tools/web): the state one runtime keeps for   *)
(* each turn, the source ids a search hands out, and the check that a      *)
(* fetch's target is public.  A turn makes one call at a time              *)
(* (engine/agent-loop.ts); turns of other sessions share the map, its cap  *)
(* and its expiry.  Time is in ticks.                                      *)
(***************************************************************************)

CONSTANTS
    Turns,         \* trace ids
    Pages,
    Results,       \* what a search may return: "" is a result without a URL
    Refused,       \* pages assertPublicHttpsUrl refuses
    Literals,      \* pages at an address rather than a name
    Cap,           \* MAX_SESSION_TURNS_CAP
    StaleAfter,    \* 5 minutes
    MaxSearches,   \* MAX_SEARCH_CALLS_PER_TURN
    MaxFetches,    \* MAX_FETCH_CALLS_PER_TURN
    FetchChars,    \* MAX_EXTRACTED_CHARS_PER_FETCH
    TurnChars,     \* MAX_EXTRACTED_CHARS_PER_TURN
    Limit,         \* results a search asks for
    MaxClock,      \* bound: ticks
    MaxCalls       \* bound: turn -> calls

VARIABLES
    web,       \* turn -> its TurnWebState, and whether the map holds it
    call,      \* turn -> its call in flight
    clock,
    shown,     \* history: turn -> what its latest search showed, by source id
    ran,       \* history: turn -> searches, fetches and characters so far
    lost,      \* history: turns whose state was dropped
    upstream   \* history: the fetch last passed upstream
webVars == <<web, call, clock, shown, ran, lost, upstream>>

NoMap == <<>>
createTurnWebState == [held |-> FALSE, searches |-> 0, fetches |-> 0, chars |-> 0,
                       sources |-> NoMap, last |-> 0]
Idle == [at |-> "idle", page |-> "", lookups |-> {}]
NotCalled == [page |-> "", lookups |-> {}]

WebInit ==
    /\ web = [t \in Turns |-> createTurnWebState]
    /\ call = [t \in Turns |-> Idle]
    /\ clock = 0
    /\ shown = [t \in Turns |-> NoMap]
    /\ ran = [t \in Turns |-> [searches |-> 0, fetches |-> 0, chars |-> 0]]
    /\ lost = {} /\ upstream = NotCalled

Tick ==
    /\ clock < MaxClock /\ clock' = clock + 1
    /\ UNCHANGED <<web, call, shown, ran, lost, upstream>>

-----------------------------------------------------------------------------
(* getTurnState.                                                           *)

\* The states dropped before turn t's call: the stale ones, then the least
\* recently active where t is new and the map is full.
Dropped(t) ==
    LET stale == {u \in Turns : web[u].held /\ clock - web[u].last > StaleAfter}
        kept == {u \in Turns : web[u].held} \ stale
        oldest == {u \in kept : \A v \in kept : web[u].last <= web[v].last}
    IN  IF t \in kept \/ Cardinality(kept) < Cap THEN {stale}
        ELSE {stale \cup {u} : u \in oldest}

\* The map once `gone` is dropped and t's state taken and touched. A state
\* that is dropped under a call in flight is still that call's.
getTurnState(t, gone) ==
    [u \in Turns |->
        IF u = t THEN
            [(IF web[t].held /\ t \notin gone THEN web[t] ELSE createTurnWebState)
             EXCEPT !.held = TRUE, !.last = clock]
        ELSE IF u \in gone THEN
            IF call[u].at = "idle" THEN createTurnWebState ELSE [web[u] EXCEPT !.held = FALSE]
        ELSE web[u]]

\* A call's end: a state the map no longer holds goes with it.
Settle(state) == IF state.held THEN state ELSE createTurnWebState
End(t) == call' = [call EXCEPT ![t] = Idle]

-----------------------------------------------------------------------------
(* web_search.                                                             *)

CallsMade(t) == ran[t].searches + ran[t].fetches

\* The call is counted and the former search's ids forgotten before the
\* first await.
Searching(state, sources) == [state EXCEPT !.searches = @ + 1, !.sources = sources]
\* Mutant: the former search's ids stay until they are overwritten.
SearchedOver(state) == Searching(state, state.sources)
Searched(state) == Searching(state, NoMap)

StartSearch(t) ==
    /\ call[t].at = "idle" /\ CallsMade(t) < MaxCalls[t]
    /\ \E gone \in Dropped(t) :
         LET got == getTurnState(t, gone) IN
         /\ lost' = lost \cup gone
         /\ \/ /\ got[t].searches >= MaxSearches
               /\ web' = got /\ UNCHANGED <<call, shown, ran>>
            \/ \* an empty query: counted, nothing forgotten
               /\ got[t].searches < MaxSearches
               /\ web' = [got EXCEPT ![t].searches = @ + 1]
               /\ ran' = [ran EXCEPT ![t].searches = @ + 1]
               /\ UNCHANGED <<call, shown>>
            \/ /\ got[t].searches < MaxSearches
               /\ web' = [got EXCEPT ![t] = Searched(@)]
               /\ ran' = [ran EXCEPT ![t].searches = @ + 1]
               /\ shown' = [shown EXCEPT ![t] = NoMap]
               /\ call' = [call EXCEPT ![t] = [Idle EXCEPT !.at = "search"]]
    /\ UNCHANGED <<clock, upstream>>

\* normalizeSearchResults, sliced to the limit: an id for each result that
\* has a URL, numbered without gaps.
normalizeSearchResults(results) == 
    SelectSeq(SubSeq(results, 1, Min({Limit, Len(results)})), LAMBDA p : p # "")

\* A later source keeps its own id where the newer search has fewer.
Mapped(sources, urls) ==
    [i \in 1 .. Max({Len(urls), Len(sources)}) |->
        IF i <= Len(urls) THEN urls[i] ELSE sources[i]]

EndSearch(t) ==
    /\ call[t].at = "search" /\ End(t)
    /\ \/ \* the call failed or answered an error
          web' = [web EXCEPT ![t] = Settle(@)] /\ UNCHANGED shown
       \/ \E results \in Results :
            LET urls == normalizeSearchResults(results) IN
            /\ web' = [web EXCEPT ![t] = Settle([@ EXCEPT !.sources = Mapped(@, urls)])]
            /\ shown' = [shown EXCEPT ![t] = urls]
    /\ UNCHANGED <<clock, ran, lost, upstream>>

-----------------------------------------------------------------------------
(* web_fetch.                                                              *)

\* The target from one of a URL and a source id; "" is refused.
resolveFetchTarget(state, id, page) ==
    IF id # 0 /\ page # "" THEN ""
    ELSE IF id # 0 THEN IF id \in DOMAIN state.sources THEN state.sources[id] ELSE ""
    ELSE page

assertPublicHttpsUrl(page) == page # "" /\ page \notin Refused

StartFetch(t) ==
    /\ call[t].at = "idle" /\ CallsMade(t) < MaxCalls[t]
    /\ \E gone \in Dropped(t), id \in 0 .. Limit + 1, page \in Pages \cup {""} :
         LET got == getTurnState(t, gone)
             target == resolveFetchTarget(got[t], id, page)
         IN
         /\ lost' = lost \cup gone
         /\ IF got[t].fetches >= MaxFetches
            THEN web' = got /\ UNCHANGED <<call, ran>>
            ELSE /\ web' = [got EXCEPT ![t].fetches = @ + 1]
                 /\ ran' = [ran EXCEPT ![t].fetches = @ + 1]
                 /\ IF ~assertPublicHttpsUrl(target)
                    THEN UNCHANGED call
                    ELSE call' = [call EXCEPT ![t] = [Idle EXCEPT !.at = "dns", !.page = target]]
    /\ UNCHANGED <<clock, shown, upstream>>

\* dns.ts: what a lookup comes to; no such name is no addresses, and a
\* resolver this process may not ask is a failure.
LookupAnswers == {"none", "public", "private", "failed"}
Records == {"A", "AAAA"}

Lookup(t) ==
    /\ call[t].at = "dns" /\ call[t].page \notin Literals
    /\ \E r \in Records \ {l.record : l \in call[t].lookups}, a \in LookupAnswers :
         call' = [call EXCEPT ![t].lookups = @ \cup {[record |-> r, answer |-> a]}]
    /\ UNCHANGED <<web, clock, shown, ran, lost, upstream>>

\* The deadline, a lookup that is not answered, and the verdict when both are.
\* `enough` is how many lookups settle it.
Verified(lookups, enough) ==
    /\ Cardinality(lookups) >= enough
    /\ \A l \in lookups : l.answer \in {"none", "public"}
    /\ \E l \in lookups : l.answer = "public"
Both == Cardinality(Records)
\* Mutant: the first answer settles it.
FirstAnswer(t) == call[t].page \in Literals \/ Verified(call[t].lookups, 1)
assertPublicDnsResolution(t) == call[t].page \in Literals \/ Verified(call[t].lookups, Both)

PassDns(t) ==
    /\ call[t].at = "dns" /\ assertPublicDnsResolution(t)
    /\ call' = [call EXCEPT ![t].at = "fetch"]
    /\ upstream' = [page |-> call[t].page, lookups |-> call[t].lookups]
    /\ UNCHANGED <<web, clock, shown, ran, lost>>

FailDns(t) ==
    /\ call[t].at = "dns" /\ call[t].page \notin Literals
    /\ End(t) /\ web' = [web EXCEPT ![t] = Settle(@)]
    /\ UNCHANGED <<clock, shown, ran, lost, upstream>>

\* boundedFetchContent, and the turn's own ceiling once the text is there.
boundedFetchContent(chars) == IF chars > FetchChars THEN FetchChars ELSE chars
\* Mutant: what passes the ceiling is refused only after the next fetch.
WithinUnread(state, chars) == state.chars <= TurnChars
Within(state, chars) == state.chars + chars <= TurnChars

EndFetch(t) ==
    /\ call[t].at = "fetch" /\ End(t)
    /\ \E raw \in 0 .. FetchChars + 1 :
         LET chars == boundedFetchContent(raw) IN
         IF raw > 0 /\ Within(web[t], chars)
         THEN /\ web' = [web EXCEPT ![t] = Settle([@ EXCEPT !.chars = @ + chars])]
              /\ ran' = [ran EXCEPT ![t].chars = @ + chars]
         ELSE web' = [web EXCEPT ![t] = Settle(@)] /\ UNCHANGED ran
    /\ upstream' = NotCalled
    /\ UNCHANGED <<clock, shown, lost>>

WebNext ==
    \/ Tick
    \/ \E t \in Turns : \/ StartSearch(t) \/ EndSearch(t) \/ StartFetch(t)
                        \/ Lookup(t) \/ PassDns(t) \/ FailDns(t) \/ EndFetch(t)
WebSpec == WebInit /\ [][WebNext]_webVars

-----------------------------------------------------------------------------
(* Properties.                                                             *)

Lines(e, tool) ==
    {i \in DOMAIN diagnostics : diagnostics[i].server = e.id /\ diagnostics[i].tool = tool}
Reached(e) == \E i \in DOMAIN diagnostics :
                 diagnostics[i].server = e.id /\ diagnostics[i].status = "ready"
\* The roles a tool was configured for: a web command each, or itself.
Roles(e, t) ==
    LET mapped == {id \in WebTools : MappedTool(e, id) = t.name}
    IN  IF mapped = {} THEN {"itself"} ELSE mapped

\* "For a server it reached, it also prints one warning per configured tool
\* that will not reach the model, naming the tool and the reason": a tool has
\* a command for every role it was configured for, or is named: once, but for
\* a tool that another server outranks in two.
EveryToolAccounted ==
    stage = "ready" =>
        \A i \in DOMAIN servers : Reached(servers[i]) =>
            \A k \in DOMAIN servers[i].tools :
                LET e == servers[i]
                    t == e.tools[k]
                    has == {r \in Roles(e, t) : \E c \in DOMAIN commands :
                              /\ commands[c].server = e.id /\ commands[c].tool = t.name
                              /\ r = "itself" \/ commands[c].id = <<r>>}
                IN  /\ has # Roles(e, t) <=> Lines(e, t.name) # {}
                    /\ Cardinality(Lines(e, t.name)) <= Cardinality(Roles(e, t) \ has)

\* One command to an id, one server to a web command, and none of them
\* offered without asking where it writes or to a remote turn where its
\* server is loopback's.
CommandsAsConfigured ==
    stage = "ready" =>
        /\ \A i, j \in DOMAIN commands : commands[i].id = commands[j].id => i = j
        /\ \A i \in DOMAIN commands :
             /\ commands[i].effect = "write.external" => commands[i].decision = "ask"
             /\ \A id \in WebTools :
                  commands[i].id = <<id>> => suppliers[id] = commands[i].server
        /\ \A i \in externalMcpCommandsForTransport("remote") :
             Binding(i).clearance = "remote" /\ commands[i].tool \notin IssueTools

\* An issue is reported created only where the connector put one in the
\* operator's team and the project named; one that may exist is never
\* reported as not sent.
ReceiptTrue ==
    /\ creation.result = "created" =>
         \E i \in Creation : creation.made =
             <<[team |-> Binding(i).team, project |-> Binding(i).projects[creation.args[1].project]]>>
    /\ creation.made # <<>> => creation.result \in {"created", "indeterminate"}

McpHolds == EveryToolAccounted /\ CommandsAsConfigured /\ ReceiptTrue

\* README.md: web_fetch takes "a source ID from the current turn's latest
\* search": an id names what that search showed under it or, once the turn's
\* state is dropped, nothing; never a page of an earlier search or of another
\* turn.
SourcesAsShown ==
    \A t \in Turns : web[t].held =>
        web[t].sources = shown[t] \/ (t \in lost /\ web[t].sources = NoMap)

\* A page is passed upstream only with both its lookups answered, with an
\* address between them and none of them private.
OnlyVerified ==
    upstream.page # "" =>
        /\ upstream.page \notin Refused
        /\ \/ upstream.page \in Literals
           \/ /\ {l.record : l \in upstream.lookups} = Records
              /\ \A l \in upstream.lookups : l.answer \in {"none", "public"}
              /\ \E l \in upstream.lookups : l.answer = "public"

\* "Per turn, at most 3 searches and 5 fetches run", and 100,000 characters:
\* unless the turn's state was dropped, which starts its counts anew.
TurnLimitsHeld ==
    \A t \in Turns : t \notin lost =>
        /\ ran[t].searches <= MaxSearches /\ ran[t].fetches <= MaxFetches
        /\ ran[t].chars <= TurnChars

WebHolds == SourcesAsShown /\ OnlyVerified /\ TurnLimitsHeld
=============================================================================
