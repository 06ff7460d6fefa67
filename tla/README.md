# Verification of the DYFJ workbench runtime

DYFJ is an AI workbench that belongs to one operator. A command-line client
connects over a Unix socket to a *runtime* process, which runs *turns*: it
rebuilds a session's conversation from an event log, calls a model or an external
agent under spend limits, runs the tools the model asks for (in a sandbox, with
the operator's approval asked for over the same connection) and appends what
happened to the log.

This directory holds TLA+ models of the parts of that system where the order of
steps matters, the TLC runs that check them on small instances, and TLAPS proofs
of central results for instances of any size. Paths below are under
`src/prototype/src/` unless they start with another directory of `src/`.

## 1. Inventory

| Part | Source | State | Operations | What is hard |
| --- | --- | --- | --- | --- |
| Session owners | `engine/session-owner.ts`, `engine/turn.ts`, `server/rpc/turn.ts` | owner per session with a promise tail, in-flight count, tickets, the connection's active turn | `turn`, `turn/cancel`, settle, cleanup | a lock made of promise chains; cleanup racing arrivals; cancel racing the conclusion |
| JSON-RPC peer, approvals | `transport/`, `server/rpc/turn.ts`, `server/rpc/approval.ts` | pending requests, write chain, read loop, the ask a turn waits on | receive, answer, ask, withdraw, half-close, close | requests without timeout; answers late, twice or never; answer and cancel in one chunk |
| Spend limits | `budget/`, `engine/budget-gate.ts`, `observed-turn.ts`, `observed-call.ts` | tracker per turn, marks per turn, session and day, the events table | open, check, prompt, call, record | checks on figures that other sessions change; approvals that land late |
| Runtime lifetime | `server/lifetime.ts`, `main.ts`, `rpc/runtime.ts`, `sigint.ts`, `transport/uds-listener.ts` | socket path, clients, idle timer, stop state | bind, admit, expire, stop, conditional stop, Ctrl-C, exit | several processes on one path; stops racing connections |
| Agent loop, call recovery | `engine/agent-loop.ts`, `recovered-turn.ts`, `fit-request.ts`, `runtime-events.ts` | step count, calls of the step, refusals, signal; attempt, partial reply, what the client shows | call, refit, retry, continuation, tool step, follow-up, forced conclusion, handoff | cancel at every await; many ways out of a call, each with duties |
| Transcript and context | `engine/compression.ts`, `load-transcript.ts`, `build-context.ts`, `tool-history.ts`, `context/` | the live transcript, summaries in the log, redacted evidence | plan, summarise, save, rebuild, fit | a save whose outcome is unknown; the live and the rebuilt transcript must agree |
| Tools and sandbox | `tools/policy.ts`, `invoke.ts`, `builtin/exec.ts`, `engine/session-grants.ts`, `core/dyfj-sandbox` | grants, attestations, the supervisor's leases and executors | decide, ask, grant, attest, run, expire, reap | what was attested or granted is stale when the command runs |
| Bounded commands | `tools/builtin/bounded-process.ts` | process group, output, deadline, report | run, stop, probe, report | a tree that forks, leaves its group or ignores signals |
| Publishing | `tools/builtin/publish*.ts` | tickets, runs of the gates, pushes | create, gate, push, open, cancel, evict | a worktree written meanwhile; a dead ticket's run that goes on |
| MCP and web tools | `tools/mcp/`, `tools/web/`, `config/mcp-servers.ts`, `extensions/linear` | ready servers, per-turn answers and limits | discover, offer, call, fetch | untrusted schemas; tables that expire and are evicted |
| External agents | `acp-session-map.ts`, `acp-client.ts`, `external-agent-runtime.ts`, `acp-*.ts` | warm sessions with leases and timers; prompts, permission requests, child processes, tool evidence | acquire, release, drop, prompt, permit, cancel, spawn, reap, record, shut down | idle timer against reuse; shutdown with leases out; an agent that says nothing |
| Providers | `providers/`, `engine/route.ts`, `turn-request.ts` | the request, its stream, usage, blocks to replay | choose, request, read, meter, recover calls from text | deltas cut anywhere; header timeout against cancel |
| Store | `store/` | Dolt tables, connection pool, memory store | commit, read | abort or failure between two statements |
| Configuration and policy | `config/` | none of its own | compose, compare, compile | a session's policy must lie within its run's |
| Extensions | `extensions/ideas`, `extensions/friction` | bounded registry of ideas and packets, numbered comments | register, evict, post | reads used after an await; a write that timed out and landed |
| REPLs and launcher | `cli.ts`, `cli/`, `core/dyfj-repl`, `src/prototype/scripts/dyfj-launcher.sh` | session settings, channel, waiters, terminal thread | commands, turns, approvals, reconnect | reads that cannot be abandoned; a full channel |
| Development scripts | `src/scripts/aggregate-test-gate.ts`, `src/prototype/scripts/` | process groups, snapshots, watch queue, scratch root | run lanes, restart, roll back, boot, tear down | kills at any point; reused group ids |
| Workbench contracts | `contracts/workbench/first-product/v1/semantic-rules.ts` | a corpus of events, grants, receipts, labels, routes | validate | local rules that must together exclude a false history |

The parts meet as follows. A client's `turn` request arrives at the peer, is
admitted by the session owners, waits for its session, and runs: it opens with the
spend baselines, passes the entry gate, and enters the agent loop or an external
agent's prompt. Each call of the loop goes through call recovery, each attempt
through the spend gate and a provider. Tools, agents' permissions and spend prompts
ask the client through the peer while the turn holds its session. The lifetime
reads the peer's connection count and the owners' in-flight count, and its
shutdown drains the warm session map.

`PROJECT.json` lists every part with its status and 40 hazards: places in this
code where something can go wrong that a test would hardly reach, each with the
properties that would show it, or a note why none does.
Its `map` leads from a definition to the lines it models; a helper or a further step
whose lines lie within those of a definition that is listed is not listed again.

## 2. Modules

Every action is one run of JavaScript between two awaits (in the Rust tier and in
scripts, between two system calls that matter). That is exactly the grain at which
the runtime's callbacks interleave, and separate processes interleave at least as
finely. Data is abstracted to what the properties tell apart; whether a request
fits, what a model answers, what an agent, a client or an operator does, are
choices of the environment.

**`SessionOwners`** models admission, the queue, the log and cancellation. An owner
object is named by the turn whose `runTurn` created it, and a `settled` promise by
its turn, so `owners`, `tail`, `home` and `prev` are the `#owners` map, the `#tail`
fields, and the two values `runTurn` captured. The `turn` handler up to its await
is `EnqueueTurn`, `StartNewSession` or `RefuseTurn`; `#tail.then(run, run)` is
`MayStart` and `StartTurn`; `buildResume`, event writes, `completeTurn`/`failTurn`,
rejection or resolution, `settled.finally` and the handler's `finally` are
`BuildResume`, `WriteEvent`, `Conclude`, `SettleTurn`, `CleanUp` and
`HandlerReturn`; `turn/cancel` is `CancelTurn`, an approval's `abort` decision
`AbortAtApproval`. Two orders rest on promise semantics: the cleanup of a turn is
registered on its promise before the next turn's `then`, so `MayStart` waits for
it; and the loop's last look at the signal and `closeCancellation` have no external
await between them and are one step. **`SerialSessions`** is the promise in
abstract form: one holder per session, only the holder reads or appends to the log,
nobody holds it twice. `SerialSpec` says that `SessionOwners` implements it, the
holder being the turn that runs.

**`ApprovalChannel`**: one connection with one turn. The client may answer any ask
it has received, with any verdict, at any time, repeatedly or never; it may cancel,
close its sending side, or go away, losing what it sent. `inbound` and `wire` are
the two directions; `pending`, `nextId` and `promise` the request table of the
peer. The approver's continuation (`ApprovalReturns`) is a step of its own after
the promise settled, so a cancel in the same chunk comes between.

**`SpendGate`**: money in whole units. A turn opens (baselines read), checks at
entry, and for each call reads the daily figure, checks, possibly waits for the
operator (`Approve`, `Decline`), calls and records. The five scopes, their
projections, the raise of an approval and the binding of marks to the limit they
were approved against are those of `tracker.ts` and `envelope-gate.ts`; `marks` are
keyed as in `confirmations.ts`; `grants` is history. An event write may be lost.

**`RuntimeLifetime`**: runtime processes and clients on one socket path. Probing
the file, removing it and binding are three steps of a boot. A stop ends admission
in the step that decides it; the socket is removed and the process exits later.
`Crash` stands for every unclean exit.

**`AgentLoop`**: a provider call with its recovery (`InCall`), text being the
sequence of attempts that wrote it, once as the caller gets it (`text`) and once
as a streaming client shows it (`screen`); around it the loop with its tool steps,
forced conclusion and handoff, and the signal raised at any point.

**`SessionReplay`** and **`TurnContext`**: the transcript a turn works on against
the one a later turn rebuilds from the log after compressions whose save is
uncertain, from the newest events; and the context a turn reads from an edited workspace and fits into the
model's window.

**`ToolCall`**: a call from the policy's verdict through approval, grant and
attestation to native, sandboxed or contained execution, with the supervisor's
pairs, leases and executors. **`BoundedProcess`**: the stop of a command's tree at
its deadline and the report of it. **`PublishTickets`**: ticket registry, detached
gate runs, push and pull request over a worktree that goes on changing.
**`ExternalTools`**: external MCP servers from configuration through discovery to
the commands offered (`McpSpec`), and the web tools' per-turn answers and limits
(`WebSpec`).

**`AcpSessions`**, **`AcpPrompt`**, **`AcpChild`**, **`AcpTurn`**: the map of warm
agent sessions; one session's prompts with the permission requests made meanwhile,
deadline, cancel, the agent's exit and the stop reasons it may give; its child process from spawn to reaping; the events of an
agent's turn and what is recorded of its tool calls.

**`ProviderCall`**, **`ProviderReplies`**: the choice of a model and of a paid
route, the request and the three readers; tool calls written as text in deltas cut
anywhere, and what the operator sees of them (`TextSpec`); thinking blocks that may
be replayed only while what preceded them is unchanged (`ReplaySpec`).

**`Store`**, **`EffectivePolicy`**, **`Extensions`**: commits of several sessions to
Dolt and to the memory store, statement by statement, each with its own reading of a
mutation; composition, comparison and
compilation of the policy; the idea registry and numbered friction comments.

**`ReplLink`**, **`ReplSession`**: the Rust REPL's reader, loop, reconnect and
terminal thread; what both REPLs carry from turn to turn and their commands, and
the launcher's reading of its arguments (`LaunchSpec`).

**`GateLanes`**, **`DevLoop`**, **`ScratchRuntime`**: the aggregate test gate with
its supervised lanes, records and concurrent gates, where a group id may be taken by
another at any time, also between a look and the signal that follows; the development supervisor with
snapshots and rollback; boot and teardown of the disposable runtime.

**`WorkbenchTasks`**, **`WorkbenchAuthority`**, **`WorkbenchExposure`**: a corpus
is written freely, slips included, and the rules judge it; the properties say what
an admitted corpus as a whole cannot claim.

The `MC*` modules instantiate these for TLC. One run holds several machines: a
behaviour is of one of them, named by the variable `part`, and the others rest in an
initial state. The machines of a suite share no state, so this loses nothing.
Where a suite EXTENDS a module, the definitions it checks are the very ones the
proofs are about.

## 3. Runs

| Run | Instance | Checks |
| --- | --- | --- |
| `session_owners` | 3 turns (1 with a turn id), 1 session, 3 connections, 2 events each | `ArrivalOrder`, `OneOwnerPerSession`, `LogNeverSplit`, `CancelHonored`, `CancelReachesTurn`, `SerialSpec` |
| `foundation` | 2 sessions and turns under limits that change in between; policies of a run and a session; ideas and friction posts at their bounds | `SpendApproved`, `EnvelopesHeld`, `DailyOvershootBounded`, `LevelsNeverDrop`, `PolicyKept`, `ExtensionsKept` |
| `engine` | 3 tool steps of up to 2 calls; a log with compressions; an agent's turn with 2 calls; 2 committers; MCP and web tools | `TurnSound`, `TranscriptKept`, `AgentTurnWhole`, `StoreKept`, `ExternalKept` |
| `clients` | 2 asks, 2 answers, 1 cancel, half-close; the REPL with a full channel; its commands; the launcher's words | `ChannelHonest`, `ReplFaithful` |
| `models` | 2 prompts, 2 permission requests; an agent with a helper; one provider call per family; text of a few glyphs; a few messages of context | `PromptHonest`, `ChildReaped`, `RepliesKept`, `CallKept`, `ContextKept`, `NoConsentAfterCancel` |
| `tools` | 2 calls, 2 sessions, all routes; a shell with a child and a grandchild; 2 tickets | `ContainmentKept`, `StopReportTrue`, `NoSignalAfterReport`, `PublishGated`, `DeadStaysDead` |
| `live_turns` | 2 runtimes, 3 clients; small instances of owners, channel, loop, gate, supervisor, scratch | `ConditionalStopSparesOthers`, `EveryTurnEnds`, `EveryAskSettles`, `ProcessesEnd` |
| `live_agents` | 2 turns, 2 keys, capacity 1; small instances of prompt, child, REPL, publish, bounded process | `MapKept`, `AgentsSettle` |
| `contracts` | a corpus of up to 6 events, 2 revisions of a grant, chains of derived items | `HistoryKept`, `AuthorityKept`, `ExposureKept` |
| `scripts` | 2 gate runs of the unit suite, one of each plan with several lanes, a few saves, every failing step | `ScriptsKept` |
| `lifetime_socket` | 3 runtimes | *violated*: `LiveSocketKept` |
| `executor_reaped` | 2 calls on one contained pair | *violated*: `KillsOnlyItsOwn` |

Deadlock is not checked: in every model the program may rest when its environment
does. What must not rest is said by the temporal properties.

**Why the bounds are enough.** Three turns are the least for a queue in which one
turn settles, one is next and one arrives; a wrong tail shows only with a third.
One session suffices for the lock, since sessions share nothing but the count. Two
asks let an answer to the first arrive during the second. Two sessions with two
calls each let one spend while the other's prompt is open; an estimate of 2 with
costs up to 3 makes a call pass its estimate. Two runtimes and three clients
give a stop with a bystander and one still in the backlog; three runtimes are what
the socket race takes, one to leave the file behind. Capacity 1 with two keys makes
a cold acquire evict or fail. With three tool steps the limit is reached with
ordinary steps before it. A table at its limit is modelled with a limit of 1 or 2.
For the eight modules with proofs the bounds matter only as a test of the statement:
the theorems hold for all of them. Symmetry is used over connections and over the
turns without a turn id in `session_owners`, which checks no liveness.

**Fairness.** Promise reactions run and timers fire, so the program's own steps are
weakly fair; processes that were killed end, except those a model lets be stuck in
the kernel. In `SessionOwners` a running turn's awaits settle; the one await that
needs a client is the subject of `ApprovalChannel`, where nothing is assumed of the
client. In `RuntimeLifetime` nothing is assumed of clients, the operator or a boot;
in `AcpPrompt`, `AcpChild`, `PublishTickets` and `BoundedProcess` nothing of the
agent, the operator, the remote or the command. In `AgentLoop` provider calls and
tools settle, which is what `ProviderCall`'s deadlines and `BoundedProcess` are for.
Queries of the store, reads and writes of files and runs of git are assumed to
return.

Some waits of the code have neither a timeout nor a kill. No fairness is assumed of
them, and the property says so: an agent's prompt whose deadline is paused while an
operator is asked (`acp-client.ts:1375-1379`), with which its warm session stays in
use; the cargo build, which a shutdown of the development supervisor waits for, and
the REPL's exit after SIGTERM (`scripts/dyfj-dev.ts:281-321`,
`dev-supervisor.ts:483`, `620-621`); and the answers of the database and of the
engine that a scratch runtime probes (`disposable-runtime.ts:71-99`, `199-210`,
`rpc-client.ts:114-126`).

## 4. What the runs show

- *Session lock.* A session's turns run one at a time in the order they were
  admitted, an owner exists exactly while turns need it, and a log is never split
  between two turns. A client told that its turn was cancelled never gets it
  completed, and a cancel is accepted also while the turn waits.
- *Approvals.* Only the client's own answer to the very request approves, and not
  after a cancel; the REPL says yes only for a question the operator saw.
- *Spend.* No call goes out beyond a limit without an approval of that scope
  against that limit. A session and a turn pass their ceiling by at most what one
  estimate left out; simultaneous sessions pass the day's by at most the calls in
  flight, as `budget/spend.ts` says.
- *Lifetime.* A conditional or idle stop cuts nobody else off.
- *Engine.* Truncated tool plans never run, a superseded answer leaves the screen
  before its replacement comes, a refusal ends tool use, the step limit never ends a
  turn silently; what a turn resumes from is what the last one worked on, with the
  exceptions below; every call of an agent is accounted for, in an aborted turn too,
  and no credential reaches the log.
- *Agents.* A handle serves one turn, live handles stay within the capacity, a
  settled shutdown leaves none alive, and the map empties but for sessions whose
  prompt waits; consent is recorded before it is given and never given after a
  cancel; a closed session leaves no process unreported.
- *Tools.* A command leaves the sandbox only as its route and the approval of it
  allow; a stop reported complete is; nothing is pushed that its gates did not pass.
- *Store, policy, extensions, providers, scripts, contracts*: what `StoreKept`,
  `PolicyKept`, `ExtensionsKept`, `CallKept`, `RepliesKept`, `ContextKept`,
  `ScriptsKept`, `HistoryKept`, `AuthorityKept` and `ExposureKept` say.

Two runs find the code at odds with its comments (`findings` in `PROJECT.json`):

1. **`lifetime_socket`.** Two runtimes that start after a crash both find the
   socket stale; the one that removes it last removes the live socket of the other.
2. **`executor_reaped`.** The supervisor reaps an executor before it takes the
   lease lock, so an expiry in between kills a pid that is no longer its own.

Other disagreements met while modelling. The models have the code's behaviour; the
property next to each is stated so that it holds, and says in its comment what it
leaves out.

*Turns and clients.* A half-close ends the peer's read loop, which fails what is
pending then; an approval asked afterwards is never settled and the turn keeps its
session (`transport/jsonrpc-peer.ts:236-238`, `301-305`). `live_turns` has clients
that half-close, and `EveryAskSettles` excepts just that approval until the turn is
cancelled or the connection ends. The continuation retry of a truncated handoff is made
without the mapping of provider errors, so its failure fails the turn
(`engine/agent-loop.ts:673-680`). The Rust REPL's `/idea mark` waits without
draining the channel, and a disconnect during an open approval loses the session a
turn announced. Both REPLs carry fast mode and paid consent across
`/session switch`; the TypeScript one accepts an unpriced slug for `/model` and asks
a spend approval without its message, which the Rust one refuses. The launcher
reads a flag's value as a subcommand (`dyfj-launcher.sh:166`).

*Transcript.* A step-limit handoff request counts as a retained turn, so a
summarised turn can return verbatim (`engine/agent-loop.ts:695-697`,
`context/compression.ts:166-189`); overflow recovery compresses a copy, so the
live transcript and the resumed one differ until the next save, though
`engine/compression.ts:294-299` and `fit-request.ts:111-116` say they never do. Both
happen in the `engine` run. `TranscriptKept` claims there what is left: one turn for
each such handoff may be in both places, and what the running turn sees is in the
log, verbatim or summarised. A resume reads the newest 5000 events
(`store/sessions.ts:296`), so a summary older than that is no longer found. The
evidence of an aborted agent's turn is kept with all calls heard of
(`acp-client.ts:1449-1464`), though `acp-tool-evidence.ts:42` says that no call of
an aborted turn can be attributed. A warm agent handle
gets no replay of turns that happened elsewhere since
(`external-agent-runtime.ts:1041-1043`). Call ids are remembered over the whole
history, so an agent that repeats one is refused as unpaired. A memory of type
project or reference with `inject='always'` is listed as a source and not rendered.

*Tools.* A pushing ticket can be evicted while its push goes on; a head moved away
and back between the two reads leaves a ready ticket gated on another commit. A
later supervisor may serve an earlier pair's runtime, so its executor outlives that
pair; a session grant's call is sent unbound. The web tools' per-turn limits start
again after expiry or eviction.

*Providers.* "Recoverable markup stays hidden"
(`providers/openai-compatible/stream.ts:289-290`) does not hold when the deltas cut
the opening between `<tool` and `_call`, when a wrapper closes inside its own
function or opens directly before another, and when a call is over the argument
budget; `RepliesKept` names the four, and claims of them only that what is shown is
kept and no call runs twice. A cancel while an error body is
read is reported as a provider failure; a hosted model configured at tier 0 needs
no consent (`engine/route.ts:87`).

*Store and extensions.* An abort in mid-statement rejects with the driver's error
though `store/port.ts:29-30` says `AbortError`; a connection that arrives between
abort and await is not given back (`store/dolt-journal.ts:241-271`);
`compareEventOrder` of the memory store, given both stamped and unstamped events, is
not transitive. A friction comment written after its timeout yields a number twice.

*Scripts.* A group id reused between inspection and signal, or after the gate reaped
its lane's leader, is signalled (`aggregate-test-gate.ts:446` says never); both are
steps of `GateLanes`, and `OthersSpared` claims that no other is. A lane whose record
could not be written leaves its `.partial` file (`610-612`), and a failing `rm` a
whole one. The development supervisor polls for turns in flight
before it builds, so one that begins during the build is cut; saves during the
first boot are missed; an exit of the runtime while the supervisor is busy is
ignored. A scratch harness that closes while a server starts leaves that engine.

*Contracts.* No rule of `semantic-rules.ts` makes a return to work follow a failure
(v1 `README.md:241-249`); a revision that adds a tool and is never used itself may
be approved after its successor was used (`:106`); an event that claims a task's
transition may be filed under another task of the same Room (`1479-1518`), so
`HistoryKept` goes by the entity claimed; and what is done on an operator's word
needs a human event of the same Room only (`1563-1564`).

## 5. Proofs

TLC looks at small instances; the theorems hold for all values of the constants
that satisfy the named assumptions (`None` is not a turn, session, connection or
client; the sets of turns and clients are finite where something is counted;
limits, costs and bounds are natural numbers; an executor policy, which is a digest,
is not called `native` or `srt`; a corpus has room for the three events it starts
with). Each inductive invariant was first checked by TLC as an invariant of its
module. Every property of the passing runs that a theorem states is stated of the
very definition the run checks, since the run's module extends the one proved about.

**`SessionOwnersProofs`.** Mutual exclusion is not inductive: from "at most one
turn runs" nothing follows about who may start next. `LockInv` describes the
queue. The turns on a session form a chain by `prev` which ends in the owner's tail
(`TailInv`); no two wait for the same turn (`ChainInv`); at most one has nobody
left to wait for, and only that one runs (`FrontInv`); the turns ahead of a turn
are gone, or are its predecessor or ahead of it (`AheadInv`); and the registry is
exact. Arrival keeps the chain because the new turn takes the tail, which is
nobody's predecessor; cleanup because the owner is dropped only with its tail. The
in-flight count needs cardinalities of finite sets on top of the lock. From these
`TypeCorrect`, `OneTurnAtATime`, `TurnsKeepArrivalOrder`, `RegistryExact`;
`CancelIsHonored` and `CancelFindsTurn` with invariants on tickets and the
connection's slot; `LogIsNeverSplit`, from the lock and the position of a turn's
first event; and `ImplementsSerialSessions`, the refinement: a start is `Begin`,
which needs that the session has no holder (`FrontInv`), the read is `Recall`, an
event `Write`, the settling `End`, and every other step a stutter.

**`SpendGateProofs`.** A prompt names only the scopes over their approved level
when it opened, and the call goes out when it is answered. `GateInv` therefore adds
to the types that every mark stands for a grant, that scopes a prompt does not name
stay covered while it is open, that a call in flight is covered, and that the day's
sum holds each session's. From it `TypeCorrect`, `EverySpendIsApproved`,
`ApprovalsOnlyRaise`. `EnvelopeInv` bounds what was spent (`TurnsWithin`,
`SessionsWithin`) by the limit or a grant plus one excess, which needs what is in
hand: the projection a call was checked at, its cost, and that one turn of a
session is open at a time. `EnvelopesAreHeld` compares it with the greatest level,
a maximum over a set; that a finite set of naturals has one is proved by a least
counterexample (`WFMin`), since induction over data is not available.
`DayOvershootIsBounded` is the bound on simultaneous sessions. A call is checked
against what the day had recorded when it read it, and every other session may have
a call in flight then. A sum over those calls would need induction; `DayInv` instead
says, for *every* figure `x` at once (`DayAhead`), that the day stands at most one
call above `x` for each session whose call in flight read at least `x`, or is
already within the bound. Recording a call takes its session out of the set at the
figure it had read, so one cardinality goes down by one as one cost is added. That
needs that what a call read was spent by then (`ReadsHold`), and that approvals only
raise the ceiling.

**`ApprovalChannelProofs`.** `ChannelInv`: a promise waits exactly while its id is
pending and ids are given once; every frame on its way and every promise settled as
approved was said by the client (`FramesSaid`, `PromisesSaid`); the turn's request
is first in the queue until read; a result of an ended turn is on the wire or
delivered. From it `ChannelTypes` and `ChannelIsHonest`.

**`AgentLoopProofs`.** `LoopInv`: at which stage of a call which of its variables
are in use (`StageHolds`), the parts of `TurnSound`, that a call in hand belongs to
the step, and that after a refusal only a conclusion is asked for. From it
`LoopTypesHold`, `TurnIsSound` and, as an action property, `ToolsKeptInHand`. The
proof found that `ToolReturns` lacked its guard that a step is under way.

**`ProcessProofs`.** Four machines about processes.
`RuntimeLifetime`: `LifeInv` says that a stopped runtime admits nobody, was bound
before, and serves at most the one who asked (`StoppedServes`); with it
`StopSpares`. That the asker is the only peer comes from a cardinality.
`BoundedProcess`: `BoundedInv` adds to `StopReportTrue` that a stop that has reported
has no signaller left (`StopIsOver`) and that pipes said closed stay closed; a group
and the holders of a pipe can only shrink, for a process comes in only by a fork of
one that is there (`TreeShrinks`). From it `StopReportIsTrue` for any tree and the
action property `SignalsEndWithTheStop`.
`PublishTickets`: `TicketOK` ties a ticket's phase to the step its run is at, the
gates that exited 0, the command alive and the pushes made, so that a verdict on its
way is backed by an exit code; `ClaimsHeld` gives each claimed ticket to one call.
From `PublishInv` follow `PublishedWasGated` and the action property
`DeadTicketsStayDead`.
`ToolCall`: what a command may run on was decided awaits before it runs. `ToolInv`
says of each call what its verdict still says of the supervisor that gave it
(`VerdictOk`: supervisors come and go, but keep their policy) and, once it may
execute, on whose word (`CallOk`); and of each key in the grant store that an
operator's approval of this session made it from the same request under the same
executor policy (`KeysOk`). That a key determines both is `SameRequest` and
`SameScope`; the latter needs that a digest is no other executor's name. That the
policy lets nothing run a process unasked but by an envelope, a sandbox or the
read-only classifier is `PolicyRules`, a walk through `evaluateCommandPolicy` over
the registry. From it `ContainmentIsKept`. The property it replaces said that no
executor outlives the runtime of its pair; a second supervisor that takes the socket
path falsifies that, and what the code ensures is that none outlives its lease.

**`AcpPromptProofs`.** `PromptInv`: the window for permission requests is open only
while the prompt runs and is uncancelled, and for each request what its answer, its
trail and its prompt's outcome say of each other (`RequestOk`). From it
`PromptIsHonest` and the action property `NoConsent`. A bound on the number of
requests turned out not to be inductive: the code counts on after a protocol error.
`ChildIsReaped` is about the agent's child process: `ChildInv` adds to `ChildReaped`
in which order the close gets to know things (`CloseKnows`: it waits for the exit
only with the group gone, and polls only after SIGKILL), and that what a start has
verified it verified before the session was usable (`StartFirst`, `RouteFirst`).

**`AcpSessionsProofs`.** `MapInv`: for each entry how its state, handle, timer and
place in the map agree (`EntryOk`), for each turn what it holds (`TurnOk`), that two
turns never use one entry (`OneUser`) and that the map is within its capacity
(`SizeOk`, by cardinality of the keys held). From it `MapIsKept`.

**`WorkbenchProofs`.** Here the work is not in the steps of the writer but in
what the rules imply. `CorpusInv`, a lemma, only says that steps name events of the
corpus: a claim may be filed under any task. `RulesKeepHistory` then follows from `Admitted` alone: neighbouring steps are in the order of their events,
so all are (`StepOrder`, by a least counterexample); `Agrees` and `Matched` make a
bijection between an entity's steps and the events that claim them, which gives a
receipt's revision as a cardinality (`ReceiptTells`); no required edge leaves a
terminal state (`EndedTask`), so a closed task passed through its last completion,
and an operator acted after that (`ClosedIsOperators`). The proof found the model
wrong: acceptance and closure were excused from the operator's provenance when
they named a failed run as their cause, which `checkLifecycle` does not do, and with
eight events a task could be closed by an agent. The rule now reads as the code's.
`RulesKeepAuthority` and `RulesKeepExposure` are about chains: revisions of a grant
back to the operator's approval, derivations back to their origin. A chain is
defined as the least set that holds its start and is closed under what the rule
follows, so a property that a rule carries over one link holds of the whole chain
because the set of things that have it is closed too. What the writers keep
(`GrantsInv`, `LogInv`, `LabelsInv`, `RoutesInv`) is little more than that links lead
to earlier entries; the rest follows from the rules. Who must have acted first is
`HumanFirst`: for a conditional or broadened grant from the rule on a grant's first
use, for a policy that asks for approval and for an operator's word from
`Attributable`, which looks at the event itself and asks nothing of a policy that
allows plainly. For the log, that one writer
follows another only by a cutover is again a least counterexample over positions.

**Only model-checked.** Liveness under fairness and ENABLED are out of the prover's
reach (`EveryTurnEnds`, `EveryAskSettles`, `ProcessesEnd`, `AgentsSettle`), and so is
what a recursive definition computes for every input: `RepliesKept` (text cut into
deltas), `TranscriptKept` (a log replayed), `ContextKept` and `CallKept` (fits and
folds over messages and rows) and `PolicyKept` (composition of nested fields).
`StoreKept`, `ExtensionsKept`, `ExternalKept`, `AgentTurnWhole`, `ReplFaithful` and
`ScriptsKept` each join several machines in one property; they are state invariants
that could be proved, and are for now checked by TLC alone.

## 6. What is not modelled

- Sizes of requests and results beyond fits or not; formatting, wording, logging.
- In `SpendGate`: the turn of the day (a turn that crosses midnight keeps the day
  it was routed on), the eviction of marks past 512 scopes, tier-0 models.
- In `ApprovalChannel`: malformed frames and the frame size bound; a stalled socket
  write, which stalls a turn whose event emission awaits it; several turns in
  sequence on one connection.
- In `RuntimeLifetime`: the expiry of the launcher's start lock, its freshness
  probe, and the shutdown of the store.
- In `ToolCall`: argument validation, the kernel's containment itself.
- In the contracts: the schema validator, reference and identity rules, leases and
  lanes, the closure report.
- TOML and secrets, the catalogue's parsing, request bodies, rendering of both
  clients, boot wiring and read-only RPC handlers, SQL and migrations, the static
  checks among the scripts: sequential code, I/O or tooling.

## 7. Plan

The order so far: the session lock and the spend gate, on which everything runs;
then the connection, the lifetime and the loop; tools, agents and transcript; then
store, providers, policy, clients, scripts and contracts. Proved, in the order
of what most rests on it: the lock and its refinement, spending, approvals, the
loop, the lifetime, agents, publishing, bounded commands, containment, and the
contracts. Next:

1. `Store`: `StoreKept` for any number of sessions and statements, from an invariant
   that ties a batch's statements to its connection and its caller.
2. `GateLanes`: `OthersSpared` for any number of gates and lanes.
3. `ReplLink`: an answer is sent only to the question that was on the screen.
