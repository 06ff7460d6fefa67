---------------------------- MODULE ReplSession ----------------------------
(* What a REPL session carries from turn to turn, and the slash commands     *)
(* that change it: the Rust REPL (dyfj-repl: session.rs, commands.rs,        *)
(* main.rs, approval.rs), command by command with its requests in flight,    *)
(* and the TypeScript REPL (cli.ts, turn-client.ts, approval.ts), which      *)
(* reads the same lines. The runtime is what its answers make it: a catalog, *)
(* a default model, and the model each session last ran on; other clients    *)
(* run turns of the same sessions. Ctrl-C and a lost request end a command   *)
(* at any request.                                                          *)
EXTENDS Integers, Sequences, SequencesExt

CONSTANTS Models,
          FastModels,    \* advertise fast-speed
          Unpriced,      \* listed, not routable
          Default,       \* DYFJ_WORKBENCH_MODEL, or "none"
          RuntimeDefault,
          Recorded,      \* session -> what it last ran on, at first
          Ceiling,       \* maxToolStepsCeiling
          MaxLines, MaxOthers

VARIABLES rs,        \* the Rust Session: see parse_args
          ts,        \* the TypeScript CliConfig and ReplSessionState
          cmd,       \* the command in flight: see NoCmd
          recorded,  \* session -> model it last ran on, "none" or "runner"
          catalog,   \* models listed
          lines, others,
          ended,     \* the last command: [as, before]
          chosen,    \* <<session, model>>: chosen by the operator there
          attached,  \* session -> recorded model when the REPL last took it
          ran,       \* the last turn: [model, may], the models it may run on
          verdict    \* the last question: [request, answer, rs, ts]
vars == <<rs, ts, cmd, recorded, catalog, lines, others, ended, chosen, attached, ran, verdict>>

Slugs == Models \cup {"none"}
\* The session a turn without an id opens.
New == "new"
Sessions == DOMAIN Recorded

-----------------------------------------------------------------------------
(* The Rust session.                                                        *)

\* parse_args: `id` is --session, `m` --model.
parse_args(id, m, fast, paid) ==
    [id |-> id, model |-> IF m = "none" THEN Default ELSE m,
     origin |-> "operator", pinned |-> m # "none", fast |-> fast,
     steps |-> 0, paid |-> paid, workspace |-> IF id = "none" THEN "cwd" ELSE "none",
     turns |-> 0, last_model |-> "none", last_command |-> "none"]

restore_model(s, last) ==
    IF s.pinned THEN s
    ELSE IF last = "none" THEN [s EXCEPT !.origin = "unrecorded"]
    ELSE [s EXCEPT !.model = last, !.origin = "restored"]

choose_model(s, slug) ==
    [s EXCEPT !.model = slug, !.origin = "operator", !.pinned = TRUE]

Switched(s, id, last) ==
    restore_model([s EXCEPT !.id = id, !.workspace = "row", !.turns = 0,
                     !.last_model = "none", !.last_command = "none",
                     !.pinned = FALSE, !.model = Default, !.origin = "operator"], last)
\* Mutant: the model and its pin stay.
SwitchedPinned(s, id, last) ==
    restore_model([s EXCEPT !.id = id, !.workspace = "row", !.turns = 0,
                     !.last_model = "none", !.last_command = "none"], last)
switch_to(s, id, last) == Switched(s, id, last)

\* turn_body: what a turn request names.
turn_body(s) ==
    [session |-> s.id,
     model |-> IF s.origin = "restored" THEN "none" ELSE s.model,
     fast |-> s.fast, paid |-> s.paid, steps |-> s.steps,
     workspace |-> IF s.id = "none" THEN s.workspace ELSE "none"]

\* record: a receipt of a turn in session `id` that ran on `m`.
record(s, id, m) ==
    [s EXCEPT !.id = id, !.last_model = m, !.turns = 1]

\* model_refusal and recorded_model_refusal.
routable(rows, slug) == slug \in rows \ Unpriced
fast_capable(rows, slug) == slug \in rows \cap FastModels

\* model: what it refuses, and what it does.
model_refused(rows, active, c) ==
    \/ c.slug # "none" /\ ~routable(rows, c.slug)
    \/ c.fast = "on" /\ ~fast_capable(rows, IF c.slug = "none" THEN active ELSE c.slug)
ModelCommand(s, rows, active, c) ==
    LET drop == c.fast = "unset" /\ s.fast = "on" /\ ~fast_capable(rows, c.slug)
        named == IF c.slug = "none" THEN s
                 ELSE choose_model([s EXCEPT !.fast = IF drop THEN "unset" ELSE @], c.slug)
    IN  IF model_refused(rows, active, c) THEN s
        ELSE [named EXCEPT !.fast = IF c.fast = "unset" THEN @ ELSE c.fast,
                           !.paid = @ \/ c.paid]
\* Mutant: consent is taken before the refusals.
ModelConsentFirst(s, rows, active, c) ==
    LET after == ModelCommand(s, rows, active, c)
    IN  [after EXCEPT !.paid = @ \/ c.paid]
model(s, rows, active, c) == ModelCommand(s, rows, active, c)

fast_refused(rows, active, want) == want = "on" /\ ~fast_capable(rows, active)
fast_toggle(s, rows, active, want) ==
    IF fast_refused(rows, active, want) THEN s ELSE [s EXCEPT !.fast = want]

steps_refused(want) == want > Ceiling
steps(s, want) == IF steps_refused(want) THEN s ELSE [s EXCEPT !.steps = want]

-----------------------------------------------------------------------------
(* The TypeScript REPL, on the same lines.                                  *)

TsStart(id, m, fast, paid) ==
    [id |-> id, model |-> IF m = "none" THEN Default ELSE m,
     fast |-> fast, paid |-> paid, steps |-> 0,
     workspace |-> IF id = "none" THEN "cwd" ELSE "none", last_model |-> "none"]

buildTurnBody(c) ==
    [session |-> c.id, model |-> c.model, fast |-> c.fast, paid |-> c.paid,
     steps |-> c.steps, workspace |-> IF c.id = "none" THEN c.workspace ELSE "none"]

\* handleReplModelCommand.
handleReplModelCommand(c, rows, active, a) ==
    LET named == a.slug # "none"
        target == IF named THEN a.slug ELSE active
        fast == IF a.fast # "unset" THEN a.fast
                ELSE IF named /\ c.fast = "on" /\ ~fast_capable(rows, target) THEN "off"
                ELSE c.fast
    IN  IF \/ named /\ a.slug \notin rows
           \/ a.fast = "on" /\ ~fast_capable(rows, target)
        THEN c
        ELSE [c EXCEPT !.fast = fast, !.paid = @ \/ a.paid,
                       !.model = IF named THEN a.slug ELSE @]

handleReplFastCommand(c, rows, active, want) == fast_toggle(c, rows, active, want)
handleReplStepsCommand(c, want) == steps(c, want)

\* handleReplSessionCommand, switch: the configured model stays.
TsSwitch(c, id) == [c EXCEPT !.id = id, !.workspace = "row", !.last_model = "none"]

TsRecord(c, id, m) == [c EXCEPT !.id = id, !.last_model = m]

-----------------------------------------------------------------------------
(* Approvals. A request's options are absent ("none"), unreadable, or a      *)
(* sequence of kinds; an answer is a line, a number, or no line.             *)

Requests == [kind : {"tool"}, options : {<<>>}, grantable : BOOLEAN, readable : {TRUE}]
       \cup [kind : {"spend"}, options : {<<>>}, grantable : {FALSE}, readable : BOOLEAN]
       \cup [kind : {"permission"}, grantable : {FALSE}, readable : BOOLEAN,
             options : {<<"allow_once", "reject_once">>, <<"allow_always">>}]
Answers == {"y", "s", "n", "1", "2", "3", "eof", "ctrl-c"}
Number(answer) == CASE answer = "1" -> 1 [] answer = "2" -> 2 [] answer = "3" -> 3 [] OTHER -> 0

Deny == <<"deny">>
Approve == <<"approve">>
Select(i) == <<"select", i>>

\* decide, with spending, yes_no, yes_no_or_session and select.
decide(r, answer) ==
    LET n == Number(answer)
    IN  IF ~r.readable THEN Deny
        ELSE IF answer = "ctrl-c" THEN <<"cancel">>
        ELSE IF r.options # <<>>
        THEN IF n \in DOMAIN r.options THEN Select(n) ELSE Deny
        ELSE IF answer = "y" THEN Approve
        ELSE IF answer = "s" /\ r.grantable THEN <<"approve", "session">>
        ELSE Deny

\* promptMidTurnApproval. It asks again for a number it cannot use, and after
\* the last attempt declines. A spend request is asked with a default line.
promptMidTurnApproval(r, answer) ==
    LET n == Number(answer)
        rejections == {i \in DOMAIN r.options : r.options[i] \in {"reject_once", "reject_always"}}
    IN  IF r.kind = "permission" /\ ~r.readable THEN Deny
        ELSE IF answer = "ctrl-c" THEN <<"cancel">>
        ELSE IF r.kind = "permission"
        THEN IF n \in DOMAIN r.options THEN Select(n)
             ELSE IF answer = "n" /\ rejections # {}
             THEN Select(CHOOSE i \in rejections : TRUE) ELSE Deny
        ELSE IF answer = "y" THEN Approve
        ELSE IF answer = "s" /\ r.grantable THEN <<"approve", "session">>
        ELSE Deny

-----------------------------------------------------------------------------
(* The runtime a turn meets.                                                *)

\* withSessionModel: what a turn request runs on, "none" when it is refused.
\* A request without a session, model or record runs on the default.
RoutedTo(body) ==
    LET last == IF body.session = "none" THEN "none" ELSE recorded[body.session]
        m == IF body.model # "none" THEN body.model
             ELSE IF last = "none" THEN RuntimeDefault ELSE last
    IN  IF \/ body.model = "none" /\ last = "runner"
           \/ ~routable(catalog, m)
           \/ body.fast = "on" /\ m \notin FastModels
        THEN "none" ELSE m

-----------------------------------------------------------------------------
(* Starting.                                                                *)

NoCmd == [kind |-> "idle", slug |-> "none", paid |-> FALSE, fast |-> "unset",
          id |-> "none", steps |-> 0, at |-> "none", rows |-> {}, active |-> "none", last |-> "none"]
Ended(how) == [as |-> how, before |-> ended.before]

\* --fast and --approve-paid are what /model sets.
Init ==
    /\ \E id \in {"none"} \cup (Sessions \ {New}), m \in Slugs :
         /\ rs = parse_args(id, m, "unset", FALSE)
         /\ ts = TsStart(id, m, "unset", FALSE)
         /\ chosen = IF m = "none" THEN {} ELSE {<<IF id = "none" THEN New ELSE id, m>>}
         /\ attached = [s \in Sessions |-> IF s = id THEN Recorded[s] ELSE "none"]
    /\ cmd = [NoCmd EXCEPT !.kind = "startup", !.at = IF rs.id = "none" \/ rs.pinned THEN "list" ELSE "inspect"]
    /\ recorded = Recorded /\ catalog = Models
    /\ lines = 0 /\ others = 0
    /\ ended = [as |-> "none", before |-> rs]
    /\ ran = [model |-> "none", may |-> {"none"}]
    /\ verdict = [rs |-> Deny, ts |-> Deny, request |-> {}, answer |-> "none"]

Idle == cmd.kind = "idle"

\* The command ends: `how` it ended and the session it leaves.
Ends(how, s) ==
    /\ cmd' = [NoCmd EXCEPT !.kind = IF how = "exit" THEN "exited" ELSE "idle"]
    /\ rs' = s /\ ended' = Ended(how)

\* main: a resumed session's recorded model, or exit.
StartupInspect ==
    /\ cmd.kind = "startup" /\ cmd.at = "inspect"
    /\ \/ /\ recorded[rs.id] = "runner" /\ Ends("exit", rs) /\ UNCHANGED attached
       \/ /\ recorded[rs.id] # "runner"
          /\ rs' = restore_model(rs, recorded[rs.id])
          /\ attached' = [attached EXCEPT ![rs.id] = recorded[rs.id]]
          /\ cmd' = [cmd EXCEPT !.at = "list"] /\ UNCHANGED ended
       \/ Ends("exit", rs) /\ UNCHANGED attached  \* the request failed
    /\ UNCHANGED <<ts, recorded, catalog, lines, others, chosen, ran, verdict>>

\* startup_model_ok: a list that cannot be read is not a refusal.
startup_model_ok ==
    /\ cmd.kind = "startup" /\ cmd.at = "list"
    /\ \/ rs.model # "none" /\ ~routable(catalog, rs.model) /\ Ends("exit", rs)
       \/ Ends("done", rs)  \* nothing to refuse, or nothing to read
    /\ UNCHANGED <<ts, recorded, catalog, lines, others, chosen, attached, ran, verdict>>

-----------------------------------------------------------------------------
(* Commands.                                                                *)

\* A line is typed: the first request of its command goes out.
Typed(c) ==
    /\ Idle /\ lines < MaxLines /\ verdict.request = {}
    /\ lines' = lines + 1
    /\ cmd' = c /\ ended' = [as |-> "none", before |-> rs]
    /\ UNCHANGED <<rs, ts, recorded, catalog, others, chosen, attached, ran, verdict>>

TypeModel == \E slug \in Slugs, paid \in BOOLEAN, fast \in {"unset", "on", "off"} :
    /\ slug # "none" \/ paid \/ fast # "unset"
    /\ Typed([NoCmd EXCEPT !.kind = "model", !.slug = slug, !.paid = paid, !.fast = fast, !.at = "list"])
TypeFast == Typed([NoCmd EXCEPT !.kind = "fast", !.at = "list",
                     !.fast = IF rs.fast = "on" THEN "off" ELSE "on"])
TypeSteps == \E n \in {Ceiling, Ceiling + 1} :
    Typed([NoCmd EXCEPT !.kind = "steps", !.steps = n, !.at = "status"])
TypeSwitch == \E id \in Sessions \ {New} :
    Typed([NoCmd EXCEPT !.kind = "switch", !.id = id, !.at = "inspect"])

\* What the command does to both sessions once its answers are in.
Complete(c) ==
    LET s == CASE c.kind = "model" -> model(rs, c.rows, c.active, c)
               [] c.kind = "fast" -> fast_toggle(rs, c.rows, c.active, c.fast)
               [] c.kind = "steps" -> steps(rs, c.steps)
               [] c.kind = "switch" -> switch_to(rs, c.id, c.last)
        refused == CASE c.kind = "model" -> model_refused(c.rows, c.active, c)
                     [] c.kind = "fast" -> fast_refused(c.rows, c.active, c.fast)
                     [] c.kind = "steps" -> steps_refused(c.steps)
                     [] c.kind = "switch" -> FALSE
        word == [s EXCEPT !.last_command = c.kind]
    IN  /\ Ends(IF refused THEN "refused" ELSE "done", word)
        /\ ts' = CASE c.kind = "model" -> handleReplModelCommand(ts, c.rows, c.active, c)
                   [] c.kind = "fast" -> handleReplFastCommand(ts, c.rows, c.active, c.fast)
                   [] c.kind = "steps" -> handleReplStepsCommand(ts, c.steps)
                   [] c.kind = "switch" -> TsSwitch(ts, c.id)
        /\ chosen' = IF c.kind = "model" /\ c.slug # "none" /\ ~refused
                     THEN chosen \cup {<<IF rs.id = "none" THEN New ELSE rs.id, c.slug>>}
                     ELSE IF c.kind = "switch" THEN {p \in chosen : p[1] # c.id} ELSE chosen
        /\ attached' = IF c.kind = "switch" THEN [attached EXCEPT ![c.id] = c.last] ELSE attached
        /\ UNCHANGED <<recorded, catalog, lines, others, ran, verdict>>

\* The command ends before its answers are in: refused, failed or Ctrl-C.
Abandon(how) ==
    /\ Ends(how, [rs EXCEPT !.last_command = cmd.kind])
    /\ UNCHANGED <<ts, recorded, catalog, lines, others, chosen, attached, ran, verdict>>

InFlight == cmd.kind \in {"model", "fast", "steps", "switch"}

\* list_models. Only a switch goes on without its answer.
ListAnswers ==
    /\ InFlight /\ cmd.at = "list"
    /\ LET c == [cmd EXCEPT !.rows = catalog, !.active = rs.model]
           asks == /\ c.kind \in {"model", "fast"} /\ c.slug = "none" /\ rs.model = "none"
                   /\ c.kind = "fast" => c.fast = "on"
       IN  CASE asks -> /\ cmd' = [c EXCEPT !.at = "status"]
                        /\ UNCHANGED <<rs, ts, recorded, catalog, lines, others, ended, chosen, attached, ran, verdict>>
             [] c.kind = "switch" /\ ~routable(catalog, c.last) -> Abandon("refused")
             [] OTHER -> Complete(c)
ListFails ==
    /\ InFlight /\ cmd.at = "list"
    /\ IF cmd.kind = "switch" THEN Complete(cmd) ELSE Abandon("failed")

\* runtime/status: active_slug, or the ceiling of /steps.
StatusAnswers ==
    /\ InFlight /\ cmd.at = "status"
    /\ Complete([cmd EXCEPT !.active = RuntimeDefault])
StatusFails ==
    /\ InFlight /\ cmd.at = "status"
    /\ IF cmd.kind = "steps" THEN Abandon("failed") ELSE Complete([cmd EXCEPT !.active = "none"])

\* session_switch: sessions/inspect.
InspectAnswers ==
    /\ InFlight /\ cmd.at = "inspect"
    /\ LET last == recorded[cmd.id]
           c == [cmd EXCEPT !.last = last]
       IN  CASE last = "runner" -> Abandon("refused")
             [] last = "none" -> Complete(c)
             [] OTHER -> /\ cmd' = [c EXCEPT !.at = "list"]
                         /\ UNCHANGED <<rs, ts, recorded, catalog, lines, others, ended, chosen, attached, ran, verdict>>
InspectFails == InFlight /\ cmd.at = "inspect" /\ Abandon("failed")

CtrlC == InFlight /\ Abandon("interrupted")

-----------------------------------------------------------------------------
(* Turns and questions.                                                     *)

\* What a session's turn may run on: the model it last ran on, one the operator
\* chose in it, and the default where it had none when the REPL took it up.
Mays(id) ==
    {recorded[id]} \cup {m \in Models : <<id, m>> \in chosen} \cup
    {m \in Models : attached[id] = "none" /\ m = (IF Default = "none" THEN RuntimeDefault ELSE Default)}

\* run_turn. A turn cut short after the runtime opened its session has no
\* receipt, and adopt_announced_session keeps the id. Both front ends send the
\* line; the Rust REPL's turn is the one that runs.
RunTurn ==
    /\ Idle /\ lines < MaxLines /\ lines' = lines + 1 /\ verdict.request = {}
    /\ LET body == turn_body(rs)
           m == RoutedTo(body)
           id == IF body.session = "none" THEN New ELSE body.session
           after == [rs EXCEPT !.last_command = "none"]
       IN  \/ /\ m = "none"
              /\ rs' = after /\ UNCHANGED <<ts, recorded, ran, attached>>
           \/ /\ m # "none"
              /\ recorded' = [recorded EXCEPT ![id] = m]
              /\ ran' = [model |-> m, may |-> Mays(id)]
              /\ attached' = IF body.session = "none" THEN [attached EXCEPT ![id] = "none"] ELSE attached
              /\ \/ rs' = record(after, id, m) /\ ts' = TsRecord(ts, id, m)
                 \/ rs' = [after EXCEPT !.id = id] /\ ts' = [ts EXCEPT !.id = id]
    /\ ended' = [as |-> "none", before |-> rs]
    /\ UNCHANGED <<cmd, catalog, others, chosen, verdict>>

\* ask, for a question of the running turn or command. What is answered does
\* not depend on the session, so a behaviour with a question has only that.
AskOperator ==
    /\ Idle /\ verdict.request = {} /\ lines = 0 /\ others = 0
    /\ \E r \in Requests, a \in Answers :
         verdict' = [rs |-> decide(r, a), ts |-> promptMidTurnApproval(r, a),
                     request |-> {r}, answer |-> a]
    /\ UNCHANGED <<rs, ts, cmd, recorded, catalog, lines, others, ended, chosen, attached, ran>>

\* Another client runs a turn, or the catalog is loaded anew.
OtherClient ==
    /\ others < MaxOthers /\ others' = others + 1
    /\ \/ \E id \in Sessions \ {New}, m \in (Models \ Unpriced) \cup {"runner"} :
            recorded' = [recorded EXCEPT ![id] = m] /\ UNCHANGED catalog
       \/ \E m \in Models : catalog' = catalog \ {m} /\ UNCHANGED recorded
    /\ UNCHANGED <<rs, ts, cmd, lines, ended, chosen, attached, ran, verdict>>

Next ==
    \/ StartupInspect \/ startup_model_ok
    \/ TypeModel \/ TypeFast \/ TypeSteps \/ TypeSwitch
    \/ ListAnswers \/ ListFails \/ StatusAnswers \/ StatusFails
    \/ InspectAnswers \/ InspectFails \/ CtrlC
    \/ RunTurn \/ AskOperator \/ OtherClient
Spec == Init /\ [][Next]_vars

-----------------------------------------------------------------------------
(* One command line read three times: by the launcher, which decides from    *)
(* it whether to start a runtime and what to run (dyfj-launcher.sh), by the  *)
(* client (cli/args.ts), and by the Rust REPL (dyfj-repl/src/main.rs). Each  *)
(* reading is a fold over the words; a value flag takes the next word.       *)

CONSTANTS Words,        \* what an operator types: flags, values, subcommands
          MaxWords

VARIABLE argv

-----------------------------------------------------------------------------
(* dyfj-launcher.sh: parse_launcher_args.                                   *)

is_value_flag(w) ==
    w \in {"--socket", "--mode", "--model", "--tier", "--hint", "--session",
           "--workspace", "--runner", "--tool-steps", "-p", "--print"}

Flags == {"-h", "--help", "--fast", "--no-fast", "--json", "--approve-paid",
          "--launcher-autostarted", "--bogus"}
BUDGET_FLAGS == {"--budget-turn"}

Unread == [client |-> <<>>, optout |-> FALSE, socket |-> "unset", sub |-> "",
           help |-> FALSE, prompt |-> FALSE, invalid |-> FALSE, want |-> ""]

\* One word. `want` is the value flag that takes it, if any.
ReadWord(s, w) ==
    IF s.want # "" THEN
        [s EXCEPT !.client = Append(@, w), !.want = "",
                  !.socket = IF s.want = "--socket" THEN w ELSE @]
    ELSE IF w = "--no-autostart" THEN [s EXCEPT !.optout = TRUE]
    ELSE IF is_value_flag(w) THEN
        [s EXCEPT !.client = Append(@, w), !.want = w,
                  !.prompt = @ \/ w \in {"-p", "--print"}]
    ELSE [s EXCEPT !.client = Append(@, w),
                   !.help = @ \/ w \in {"-h", "--help"},
                   !.sub = IF @ = "" /\ w \notin Flags \cup BUDGET_FLAGS
                           THEN w ELSE @]

parse_launcher_args(words) ==
    LET s == FoldLeft(ReadWord, Unread, words)
    IN  [s EXCEPT !.invalid = s.want # "" \/ s.socket = ""]

-----------------------------------------------------------------------------
(* cli/args.ts: parseArgs.                                                  *)

VALUE_FLAGS == {"--socket", "--mode", "--model", "--tier", "--hint",
                "--session", "--workspace", "--runner", "--tool-steps", "-p",
                "--print"} \cup BUDGET_FLAGS

\* Whether a flag takes a value, in the words of the model.
Takes(flag, v) ==
    CASE flag \in BUDGET_FLAGS \cup {"--tool-steps"} -> v = "5"
      [] flag = "--runner" -> v = "fixture"
      [] flag = "--session" -> v = "S"
      [] flag \in {"--mode", "--tier", "--hint"} -> v = "ask"
      [] OTHER -> TRUE

Blank == [positional |-> <<>>, given |-> {}, prompt |-> FALSE, help |-> FALSE,
          auto |-> FALSE, socket |-> "unset", want |-> "", error |-> FALSE]

ParseWord(s, w) ==
    IF s.error THEN s
    ELSE IF s.want # "" THEN
        [s EXCEPT !.error = ~Takes(s.want, w), !.want = "",
                  !.given = @ \cup {s.want},
                  !.prompt = @ \/ s.want \in {"-p", "--print"},
                  !.socket = IF s.want = "--socket" THEN w ELSE @]
    ELSE IF w = "--launcher-autostarted" THEN [s EXCEPT !.auto = TRUE]
    ELSE IF w \in {"--fast", "--no-fast"} THEN
        [s EXCEPT !.given = @ \cup {w},
                  !.error = {"--fast", "--no-fast"} \subseteq s.given \cup {w}]
    ELSE IF w \in {"-h", "--help"} THEN [s EXCEPT !.help = TRUE]
    ELSE IF w \in {"--json", "--approve-paid"} THEN s
    ELSE IF w \in VALUE_FLAGS THEN [s EXCEPT !.want = w]
    ELSE IF w \in {"--bogus", "--no-autostart"} THEN [s EXCEPT !.error = TRUE]
    ELSE [s EXCEPT !.positional = Append(@, w)]

\* The command a reading comes to, "usage" for an error.
Command(s) ==
    LET p == s.positional
        alone == {"models", "sessions", "status", "start", "stop"}
        first == IF p = <<>> THEN "" ELSE p[1]
    IN  CASE s.error \/ s.want # "" -> "usage"
          [] s.auto /\ ~(~s.help /\ ~s.prompt /\ p = <<"start">>) -> "usage"
          [] s.help -> "help"
          [] /\ "--runner" \in s.given
             /\ \/ s.given \cap {"--model", "--tier", "--hint", "--fast",
                                 "--no-fast"} # {}
                \/ first \in alone -> "usage"
          [] s.prompt -> "exec"
          [] Len(p) = 1 /\ first \in alone -> first
          [] first \in {"exec", "ask"} ->
               IF \A k \in 2 .. Len(p) : p[k] = "" THEN "usage" ELSE "exec"
          [] p # <<>> -> "usage"
          [] OTHER -> "repl"

parseArgs(words) ==
    LET s == FoldLeft(ParseWord, Blank, words)
    IN  [command |-> Command(s), socket |-> s.socket]

-----------------------------------------------------------------------------
(* dyfj-launcher.sh: what is done with the reading.                         *)

Read == parse_launcher_args(argv)
Client == parseArgs(Read.client)

dev_route_applies == Read.sub = "dev" /\ ~Read.prompt /\ ~Read.invalid

\* autostart_applies, with the client's own parser asked last
\* (client_parse_check). `spared` are the subcommands that start nothing.
Ensures(spared) ==
    /\ ~Read.optout /\ ~Read.invalid /\ ~Read.help
    /\ ~spared
    /\ Client.command # "usage"
Managing == Read.sub \in {"start", "status", "stop", "help"}
\* Mutant: the subcommand decides, whatever the prompt.
AutostartBySub == Ensures(Managing)
autostart_applies == Ensures(Managing /\ ~Read.prompt)
autostart == ~dev_route_applies /\ autostart_applies

\* rust_repl_args: the words the Rust REPL is given, or none.
rust_repl_args ==
    LET takes == {"--model", "--session", "--workspace", "--tool-steps"}
        step(s, w) ==
          IF ~s.ok THEN s
          ELSE IF s.want = "--socket" THEN [s EXCEPT !.want = ""]
          ELSE IF s.want # "" THEN
            [s EXCEPT !.ok = w \notin VALUE_FLAGS \cup Flags \cup {"--no-autostart"}
                             \/ w \in {"-p", "-h"},
                      !.args = @ \o <<s.want, w>>, !.want = ""]
          ELSE IF w \in {"--approve-paid", "--fast"} THEN [s EXCEPT !.args = Append(@, w)]
          ELSE IF w \in takes \cup {"--socket"} THEN [s EXCEPT !.want = w]
          ELSE [s EXCEPT !.ok = FALSE]
        s == FoldLeft(step, [ok |-> TRUE, args |-> <<>>, want |-> ""], Read.client)
    IN  [s EXCEPT !.ok = @ /\ s.want = ""]

\* rust_repl_route, on a terminal and with a binary.
rust_repl_route ==
    /\ Read.sub = "" /\ ~Read.help /\ ~Read.prompt /\ ~Read.invalid
    /\ rust_repl_args.ok
Route == IF dev_route_applies THEN "dev"
         ELSE IF rust_repl_route THEN "rust_repl" ELSE "node"

\* main.rs: whether parse_args takes the words. Each value is the next word,
\* refused if it starts with two dashes.
parse_args_accepts(words) ==
    LET step(s, w) ==
          IF s.error THEN s
          ELSE IF s.want # "" THEN
            [want |-> "", error |-> ~Takes(s.want, w) \/
               w \in (VALUE_FLAGS \cup Flags \cup {"--no-autostart"}) \ {"-p", "-h"}]
          ELSE IF w \in {"--approve-paid", "--fast"} THEN s
          ELSE IF w \in {"--model", "--session", "--workspace", "--tool-steps"}
                         \cup BUDGET_FLAGS THEN [s EXCEPT !.want = w]
          ELSE [s EXCEPT !.error = TRUE]
        s == FoldLeft(step, [want |-> "", error |-> FALSE], words)
    IN  ~s.error /\ s.want = ""

-----------------------------------------------------------------------------
LaunchInit == argv = <<>>
Type == /\ Len(argv) < MaxWords
        /\ \E w \in Words : argv' = Append(argv, w)
LaunchNext == Type
LaunchSpec == LaunchInit /\ [][LaunchNext]_argv

-----------------------------------------------------------------------------
(* Properties.                                                             *)

\* core/README.md: a session's history runs on the model the session last ran
\* on, or on one the operator chose in that session, and on the default only
\* where it had none when the REPL took it up; whatever other clients did and
\* however earlier switches ended.
RunsAsRecorded == ran.model \in ran.may

\* A command that was refused, failed or interrupted leaves the session as it
\* was, consent included; only its word is remembered.
RefusedChangesNothing ==
    ended.as \in {"refused", "failed", "interrupted"} /\ Idle =>
      rs = [ended.before EXCEPT !.last_command = rs.last_command]

\* Both REPLs consent to what they asked and no more: to a list by one of its
\* numbers, to a session by `s` where it was offered, else by `y`.
ConsentAsShown ==
    \A r \in verdict.request : \A v \in {verdict.rs, verdict.ts} :
      /\ v[1] = "approve" => r.options = <<>> /\ verdict.answer \in {"y", "s"}
      /\ v[1] = "approve" /\ Len(v) = 2 => r.grantable /\ verdict.answer = "s"
      /\ v[1] = "select" => \/ v[2] = Number(verdict.answer)
                            \/ r.options[v[2]] \in {"reject_once", "reject_always"}

\* core/README.md, of the Rust REPL: it "sends the same turn request as the
\* TypeScript client". After the same lines, both would run the next turn on
\* the same model.
SameModel == Idle => RoutedTo(turn_body(rs)) = RoutedTo(buildTurnBody(ts))

\* cli/args.ts HELP: a turn or a REPL ensures a runtime; start, status, stop
\* and help never do, and neither does what the client would refuse. A budget
\* flag's value the launcher takes for a subcommand: see NoValueIsControl.
AutostartForTurnsOnly ==
    (\A i \in DOMAIN argv : argv[i] \notin BUDGET_FLAGS) =>
      (autostart <=> /\ ~Read.optout /\ ~Read.invalid
                     /\ Client.command \in {"exec", "repl", "models", "sessions"})

\* "Routing, log naming, the probe, the spawned start, and the final client
\* must all see the SAME socket".
OneSocket ==
    Client.command # "usage" /\ ~Read.invalid => Client.socket = Read.socket

\* What goes to the Rust REPL is a REPL session to the client too, and the
\* Rust REPL takes it unless a value of it is wrong, which the client then
\* refuses as well.
ReplTakesItsArgs ==
    Route = "rust_repl" =>
      /\ Client.command \in {"repl", "usage"}
      /\ parse_args_accepts(rust_repl_args.args) <=> Client.command = "repl"

\* "mirrors src/cli/args.ts's VALUE_FLAGS so the parse below never reads a
\* flag VALUE as launcher control input": in what the client accepts, the
\* subcommand the launcher reads is not a flag's value.
NoValueIsControl ==
    Client.command # "usage" /\ Read.sub # "" =>
      \E i \in DOMAIN Read.client :
        /\ Read.client[i] = Read.sub
        /\ i = 1 \/ Read.client[i - 1] \notin VALUE_FLAGS

LauncherHolds == AutostartForTurnsOnly /\ OneSocket /\ ReplTakesItsArgs
=============================================================================
