------------------------------ MODULE ToolCall ------------------------------
(***************************************************************************)
(* One tool call from the policy's verdict to the place its command runs:  *)
(* the policy and its bases (tools/policy.ts), the invocation and its      *)
(* session grants (tools/invoke.ts, engine/session-grants.ts), bash's      *)
(* three routes (tools/builtin/exec.ts), the attestation the contained     *)
(* route rests on (containment.ts, executor-transport.ts) and the          *)
(* supervisor that starts the executors (core/dyfj-sandbox).               *)
(*                                                                         *)
(* Calls run concurrently and every await is a step boundary, so what a    *)
(* call attested, asked or was granted may be stale when it runs: the      *)
(* operator edits the grant file, the plan on disk changes, the runtime    *)
(* exits, or another supervisor is started on the same socket path.        *)
(***************************************************************************)
EXTENDS Integers, Sequences, FiniteSets, SequencesExt

CONSTANTS
  Calls,        \* the tool calls of the runtime under study
  Sessions, Args, Policies,
  CommandIds,   \* the commands the model may ask for
  Routes,       \* the routes bash may be defined with
  Levels,       \* the permission levels config may set
  Attended,     \* the values of loopback: is an operator at the socket?
  MaxPairs,     \* supervisors started on the socket path
  MaxTracked,   \* MAX_TRACKED_SESSIONS
  MaxGrants,    \* MAX_GRANTS_PER_SESSION
  MaxEdits,     \* edits of the grant file or of the plan
  NONE

ASSUME Bounds == /\ {MaxPairs, MaxTracked, MaxGrants} \subseteq Nat \ {0}
                 /\ MaxEdits \in Nat
                 /\ Routes \subseteq {"native", "sandboxed", "contained"}
                 /\ CommandIds \subseteq {"bash", "write", "read", "search", "recall",
                                         "push", "cancel"}
                 \* A policy is a digest: it is no other executor's name.
                 /\ Policies \cap {"native", "srt"} = {}

VARIABLES
  route, level, loopback,   \* bash's route, permissionLevel and the transport: fixed at boot
  pairs,       \* the supervisors started so far, each with its plan, lease and probe
  owner,       \* the supervisor whose socket is at the path, 0 when there is none
  grantFile,   \* the policy the operator's envelope grant names
  executors,   \* executor processes: started, not yet reaped and released
  call,        \* the state of each call
  tracked, keys, gen, \* SessionGrantStore: sessions in creation order, their keys, how often each was dropped
  edits,
  granted,     \* history: every "for the session" approval
  ran,         \* history: every command that was started, and where
  strays       \* history: pids killed after they had been reaped

toolVars == <<route, level, loopback, pairs, owner, grantFile, executors, call,
              tracked, keys, gen, edits, granted, ran, strays>>
config == <<route, level, loopback>>
store == <<tracked, keys, gen>>

-----------------------------------------------------------------------------
(* The commands, by what their permission envelopes say. *)

Command(effects, default, network, filesystem, precheck) ==
  [effects |-> effects, default |-> default, network |-> network,
   filesystem |-> filesystem, cost |-> "none", precheck |-> precheck]

Registry ==
  [bash    |-> Command({"run.process", "read.filesystem", "write.filesystem", "emit.event"},
                       "allow", "external", "write", FALSE),
   write   |-> Command({"write.filesystem", "emit.event"}, "allow", "none", "write", FALSE),
   read    |-> Command({"read.filesystem", "emit.event"}, "allow", "none", "read", FALSE),
   search  |-> Command({"read.external", "emit.event"}, "allow", "configured-external", "none", FALSE),
   recall  |-> Command({"read.memory", "emit.event"}, "allow", "recall", "none", FALSE),
   push    |-> Command({"run.process", "write.external", "emit.event"}, "ask", "external", "none", TRUE),
   cancel  |-> Command({"run.process", "emit.event"}, "ask", "none", "none", FALSE)]

\* Which commands carry a containment on the route, and whose calls may be granted.
Contained(id) == route # "native" /\ id \in {"bash", "write"}
Grantable(id) == id = "bash"

ENVELOPE_EFFECTS == {"run.process", "read.filesystem", "write.filesystem", "emit.event"}
EXEC_EFFECTS == {"run.checks", "run.process"}

\* What a model may ask for: the arguments that the schema admits on this route.
Request == [id : CommandIds, args : Args, readOnly : BOOLEAN, escapes : BOOLEAN,
            reason : BOOLEAN, long : {"no", "asked", "fixed"}]
Admitted(r) ==
  /\ (r.readOnly \/ r.escapes \/ r.reason \/ r.long = "asked") => r.id = "bash"
  /\ (r.escapes \/ r.reason) => route = "sandboxed"
  \* a deadline above the envelope's: the call's timeoutSec, or the one the command has without it
  /\ r.long # "no" => route = "contained" /\ Contained(r.id)
  /\ r.readOnly => route = "native"     \* readOnlyCall is declared on that route only

-----------------------------------------------------------------------------
(* Attestation. *)

Verdict(status, p, pol, g) == [status |-> status, pair |-> p, policy |-> pol, granted |-> g]
NotContained == Verdict("none", 0, NONE, FALSE)
Unattested == Verdict("unattested", 0, NONE, FALSE)

\* Attested::answer: the plan and the grant file are read again for every answer.
Answer(p) == [pair |-> p, lease |-> pairs[p].live, unchanged |-> ~pairs[p].changed,
              probe |-> pairs[p].probe, policy |-> pairs[p].policy,
              grant |-> IF grantFile = pairs[p].policy THEN grantFile ELSE NONE]

checkAttestation(reply) ==
  IF reply.lease /\ reply.unchanged /\ reply.probe
  THEN Verdict("attested", reply.pair, reply.policy, reply.grant = reply.policy)
  ELSE Unattested

attest == IF route = "sandboxed" THEN Verdict("sandboxed", 0, NONE, FALSE)
          ELSE IF owner = 0 THEN Unattested
          ELSE checkAttestation(Answer(owner))

-----------------------------------------------------------------------------
(* evaluateCommandPolicy: the first branch that applies decides. *)

Ruling(decision, basis) == [decision |-> decision, basis |-> basis]
AskDefault == Ruling("ask", "ask:default")

evaluateSandboxedPolicyAs(r, v, askForEscape) ==
  LET cmd == Registry[r.id] IN
  IF r.escapes /\ askForEscape
  THEN IF ~r.reason THEN Ruling("deny", "deny:unsandboxed-without-reason")
       ELSE IF ~loopback THEN Ruling("deny", "deny:unsandboxed-headless")
       ELSE Ruling("ask", "ask:unsandboxed")
  ELSE IF /\ v.status = "sandboxed"
          /\ loopback
          /\ level = "operator"
          /\ cmd.cost = "none"
          /\ cmd.effects \subseteq ENVELOPE_EFFECTS
       THEN Ruling("allow", "allow:sandboxed")
       ELSE AskDefault

evaluateSandboxedPolicy_escapeUnseen(r, v) == evaluateSandboxedPolicyAs(r, v, FALSE)
evaluateSandboxedPolicy(r, v) == evaluateSandboxedPolicyAs(r, v, TRUE)

evaluateContainedPolicyAs(r, v, needsGrant) ==
  LET cmd == Registry[r.id] IN
  IF /\ v.status = "attested"
     /\ needsGrant => v.granted
     /\ loopback
     /\ cmd.cost = "none"
     /\ cmd.effects \subseteq ENVELOPE_EFFECTS
  THEN IF r.long = "asked" THEN Ruling("deny", "deny:envelope-limit")
       ELSE IF r.long = "fixed" THEN Ruling("ask", "ask:envelope-limit")
       ELSE Ruling("allow", "allow:attested-envelope")
  ELSE AskDefault

evaluateContainedPolicy_ungranted(r, v) == evaluateContainedPolicyAs(r, v, FALSE)
evaluateContainedPolicy(r, v) == evaluateContainedPolicyAs(r, v, TRUE)

configuredExternalRead(cmd) ==
  /\ cmd.network = "configured-external" /\ cmd.default = "allow"
  /\ "read.external" \in cmd.effects /\ "write.external" \notin cmd.effects
  /\ cmd.filesystem = "none" /\ cmd.cost = "none"

configuredRecall(cmd) ==
  /\ cmd.network = "recall" /\ cmd.default = "allow"
  /\ cmd.filesystem = "none" /\ cmd.cost = "none"

readOnlyLocal_defaultUnread(cmd) ==
  /\ cmd.filesystem \in {"none", "read"} /\ cmd.cost = "none"
  /\ cmd.network \notin {"external", "recall"}
readOnlyLocal(cmd) ==
  /\ cmd.default = "allow"
  /\ cmd.filesystem \in {"none", "read"} /\ cmd.cost = "none"
  /\ cmd.network \notin {"external", "recall"}

operatorProfile(cmd) ==
  /\ level = "operator" /\ loopback
  /\ cmd.default = "allow" /\ cmd.filesystem = "write" /\ cmd.cost = "none"
  /\ cmd.network = "none"
  /\ cmd.effects \cap EXEC_EFFECTS = {}

readOnlyAllowlist(r) == level = "operator" /\ loopback /\ r.readOnly

evaluateCommandPolicy(r, v) ==
  LET cmd == Registry[r.id] IN
  IF cmd.default = "deny" THEN Ruling("deny", "deny:default")
  ELSE IF Contained(r.id) /\ route = "sandboxed" THEN evaluateSandboxedPolicy(r, v)
  ELSE IF Contained(r.id) THEN evaluateContainedPolicy(r, v)
  ELSE IF configuredExternalRead(cmd) THEN Ruling("allow", "allow:operator-configured-external-read")
  ELSE IF configuredRecall(cmd) THEN Ruling("allow", "allow:operator-configured-recall")
  ELSE IF readOnlyLocal(cmd) THEN Ruling("allow", "allow:read-only-local")
  ELSE IF operatorProfile(cmd) THEN Ruling("allow", "allow:operator-profile")
  ELSE IF readOnlyAllowlist(r) THEN Ruling("allow", "allow:bash-allowlist")
  ELSE AskDefault

-----------------------------------------------------------------------------
(* Session grants. *)

\* A native key has no scope, an unattested contained call no key at all.
grantScope_unattestedAsNative(v) ==
  IF v.status \in {"none", "unattested"} THEN "native"
  ELSE IF v.status = "attested" THEN v.policy ELSE "srt"
grantScope(v) ==
  IF v.status = "none" THEN "native"
  ELSE IF v.status = "attested" THEN v.policy
  ELSE IF v.status = "sandboxed" THEN "srt"
  ELSE NONE

\* The fixed deadline is no argument, but the policy in the scope settles whether it is too long.
sessionGrantKeyAs(r, scope, exact) ==
  [id |-> r.id, args |-> IF exact THEN r.args ELSE NONE, scope |-> scope,
   flags |-> <<r.escapes, r.reason, r.long>>]
sessionGrantKey_byCommand(r, scope) == sessionGrantKeyAs(r, scope, FALSE)
sessionGrantKey(r, scope) == sessionGrantKeyAs(r, scope, TRUE)

KeyOf_escapesToo(r, v, basis) ==
  IF ~Grantable(r.id) \/ ~loopback \/ grantScope(v) = NONE THEN NONE
  ELSE sessionGrantKey(r, grantScope(v))
KeyOf(r, v, basis) ==
  IF ~Grantable(r.id) \/ ~loopback \/ basis = "ask:unsandboxed" \/ grantScope(v) = NONE THEN NONE
  ELSE sessionGrantKey(r, grantScope(v))

\* SessionGrantStore.for: at the limit the least recently created session goes,
\* with its keys; a call that holds the dropped set keeps it to itself.
StoreFor(s) ==
  IF s \in ToSet(tracked) THEN UNCHANGED store
  ELSE LET drop == Len(tracked) >= MaxTracked IN
       /\ tracked' = Append(IF drop THEN Tail(tracked) ELSE tracked, s)
       /\ gen' = IF drop THEN [gen EXCEPT ![Head(tracked)] = @ + 1] ELSE gen
       /\ keys' = IF drop THEN [keys EXCEPT ![Head(tracked)] = <<>>, ![s] = <<>>]
                  ELSE [keys EXCEPT ![s] = <<>>]

Holds(c) == call[c].gen = gen[call[c].session] /\ call[c].session \in ToSet(tracked)

GrantsAdd(c, k) ==
  LET s == call[c].session IN
  IF ~Holds(c) \/ k \in ToSet(keys[s]) THEN UNCHANGED store
  ELSE /\ keys' = [keys EXCEPT ![s] = Append(IF Len(@) >= MaxGrants THEN Tail(@) ELSE @, k)]
       /\ UNCHANGED <<tracked, gen>>

-----------------------------------------------------------------------------
Idle == [pc |-> "idle", session |-> NONE, req |-> NONE, verdict |-> NotContained,
         basis |-> "none", gen |-> 0, outcome |-> "none", events |-> 0]

NewPair(pol, probe) == [policy |-> pol, live |-> TRUE, changed |-> FALSE, probe |-> probe]

ToolInit ==
  /\ route \in Routes /\ level \in Levels /\ loopback \in Attended
  /\ \E pol \in Policies, probe \in BOOLEAN :
       pairs = IF route = "contained" THEN <<NewPair(pol, probe)>> ELSE <<>>
  /\ owner = Len(pairs)
  /\ grantFile \in IF route = "contained" THEN Policies \cup {NONE} ELSE {NONE}
  /\ executors = {} /\ call = [c \in Calls |-> Idle]
  /\ tracked = <<>> /\ keys = [s \in Sessions |-> <<>>] /\ gen = [s \in Sessions |-> 0]
  /\ edits = 0 /\ granted = {} /\ ran = {} /\ strays = {}

Settle(c, outcome) == [call EXCEPT ![c].pc = "record", ![c].outcome = outcome]

Begin(c) ==
  /\ call[c].pc = "idle"
  /\ \E s \in Sessions, r \in Request :
       /\ Admitted(r)
       /\ IF loopback THEN StoreFor(s) ELSE UNCHANGED store
       /\ call' = [call EXCEPT ![c] = [Idle EXCEPT !.pc = "attest", !.session = s, !.req = r,
                     !.gen = IF loopback THEN gen'[s] ELSE 0]]
  /\ UNCHANGED <<config, pairs, owner, grantFile, executors, edits, granted, ran, strays>>

\* A contained command is attested before every call.
Attest(c) ==
  /\ call[c].pc = "attest"
  /\ call' = [call EXCEPT ![c].pc = "policy",
                          ![c].verdict = IF Contained(call[c].req.id) THEN attest ELSE NotContained]
  /\ UNCHANGED <<config, pairs, owner, grantFile, executors, store, edits, granted, ran, strays>>

\* runCommand: the policy's verdict, then the pre-flight check of a tool that has one.
runCommand(c) ==
  /\ call[c].pc = "policy"
  /\ LET ruling == evaluateCommandPolicy(call[c].req, call[c].verdict)
         next == [call EXCEPT ![c].basis = ruling.basis,
                              ![c].pc = IF ruling.decision = "ask" THEN "approve" ELSE "execute"]
     IN IF ruling.decision = "deny"
        THEN call' = [Settle(c, "denied") EXCEPT ![c].basis = ruling.basis]
        ELSE \/ call' = next
             \/ /\ Registry[call[c].req.id].precheck
                /\ call' = [Settle(c, "denied") EXCEPT ![c].basis = "deny:precheck"]
  /\ UNCHANGED <<config, pairs, owner, grantFile, executors, store, edits, granted, ran, strays>>

MyKey(c) == KeyOf(call[c].req, call[c].verdict, call[c].basis)
Granted(c) == MyKey(c) # NONE /\ Holds(c) /\ MyKey(c) \in ToSet(keys[call[c].session])

\* runApproved: a session grant stands in for the prompt.
UseGrant(c) ==
  /\ call[c].pc = "approve" /\ Granted(c)
  /\ call' = [call EXCEPT ![c].pc = "execute", ![c].basis = "allow:session-grant"]
  /\ UNCHANGED <<config, pairs, owner, grantFile, executors, store, edits, granted, ran, strays>>

Prompt(c) ==
  /\ call[c].pc = "approve" /\ ~Granted(c)
  /\ call' = [call EXCEPT ![c].pc = "prompt"]
  /\ UNCHANGED <<config, pairs, owner, grantFile, executors, store, edits, granted, ran, strays>>

Deny(c) ==
  /\ call[c].pc = "prompt"
  /\ call' = [Settle(c, "denied") EXCEPT ![c].basis = "deny:approval-denied"]
  /\ UNCHANGED <<config, pairs, owner, grantFile, executors, store, edits, granted, ran, strays>>

\* Without an operator at the transport the approver denies, so an approval needs loopback.
ApproveOnce(c) ==
  /\ call[c].pc = "prompt" /\ loopback
  /\ call' = [call EXCEPT ![c].pc = "execute", ![c].basis = "allow:operator-approved"]
  /\ UNCHANGED <<config, pairs, owner, grantFile, executors, store, edits, granted, ran, strays>>

ApproveForSession(c) ==
  /\ call[c].pc = "prompt" /\ loopback /\ MyKey(c) # NONE
  /\ GrantsAdd(c, MyKey(c))
  /\ granted' = granted \cup {[session |-> call[c].session, req |-> call[c].req,
                               verdict |-> call[c].verdict]}
  /\ call' = [call EXCEPT ![c].pc = "execute",
                          ![c].basis = "allow:operator-approved-session-grant"]
  /\ UNCHANGED <<config, pairs, owner, grantFile, executors, edits, ran, strays>>

-----------------------------------------------------------------------------
(* Where the command runs. *)

Started(c, where, p) ==
  ran' = ran \cup {[call |-> c, session |-> call[c].session, req |-> call[c].req,
                    basis |-> call[c].basis, verdict |-> call[c].verdict, where |-> where,
                    pair |-> p, policy |-> IF p = 0 THEN NONE ELSE pairs[p].policy]}

Escapes_unread(c) == FALSE
Escapes(c) == route = "sandboxed" /\ call[c].req.escapes

\* The executor's own check: an unsandboxed call needs this call's approval.
MayEscape(c) == Escapes(c) => call[c].basis = "allow:operator-approved"

\* The native runner, or the sandbox: its runner refuses a command srt did not wrap.
RunHere(c) ==
  /\ call[c].pc = "execute"
  /\ ~(route = "contained" /\ Contained(call[c].req.id))
  /\ \/ /\ ~MayEscape(c)
        /\ call' = Settle(c, "error")
        /\ UNCHANGED ran
     \/ /\ MayEscape(c)
        /\ call' = Settle(c, "ok")
        /\ Started(c, IF Contained(call[c].req.id) /\ ~Escapes(c) THEN "sandbox" ELSE "runtime", 0)
     \/ /\ Contained(call[c].req.id) /\ ~Escapes(c)      \* the sandbox did not wrap it
        /\ call' = Settle(c, "error")
        /\ UNCHANGED ran
  /\ UNCHANGED <<config, pairs, owner, grantFile, executors, store, edits, granted, strays>>

\* executor-transport.ts: only an envelope's allow carries the attested instance.
BindingOf_never(c) == 0
BindingOf(c) == IF call[c].basis = "allow:attested-envelope" THEN call[c].verdict.pair ELSE 0

\* serve_one at the socket's owner: the binding, then the lease, then spawn and admit under its lock.
Exec(c) ==
  /\ call[c].pc = "execute" /\ route = "contained" /\ Contained(call[c].req.id)
  /\ IF owner # 0 /\ BindingOf(c) \in {0, owner} /\ pairs[owner].live
     THEN /\ executors' = executors \cup {[call |-> c, pair |-> owner, reaped |-> FALSE]}
          /\ Started(c, "executor", owner)
          /\ call' = [call EXCEPT ![c].pc = "running"]
     ELSE /\ call' = Settle(c, "error")
          /\ UNCHANGED <<executors, ran>>
  /\ UNCHANGED <<config, pairs, owner, grantFile, store, edits, granted, strays>>

\* The command ended, or the supervisor's deadline killed and reaped it.
Reap(e) ==
  /\ ~e.reaped /\ pairs[e.pair].live
  /\ executors' = (executors \ {e}) \cup {[e EXCEPT !.reaped = TRUE]}
  /\ UNCHANGED <<config, pairs, owner, grantFile, call, store, edits, granted, ran, strays>>

\* lease.release, and the reply to the runtime.
Release(e) ==
  /\ e.reaped
  /\ executors' = executors \ {e}
  /\ call' = IF call[e.call].pc = "running" THEN Settle(e.call, "ok") ELSE call
  /\ UNCHANGED <<config, pairs, owner, grantFile, store, edits, granted, ran, strays>>

\* exchange: no reply by the deadline plus the grace, or the connection ended.
NoReply(c) ==
  /\ call[c].pc = "running"
  /\ call' = Settle(c, "error")
  /\ UNCHANGED <<config, pairs, owner, grantFile, executors, store, edits, granted, ran, strays>>

\* invokeCommandWithEvent: every outcome is one tool_call event, then the result.
Record(c) ==
  /\ call[c].pc = "record"
  /\ call' = [call EXCEPT ![c].pc = "done", ![c].events = @ + 1]
  /\ UNCHANGED <<config, pairs, owner, grantFile, executors, store, edits, granted, ran, strays>>

-----------------------------------------------------------------------------
(* The operator and the machine. *)

EditGrant ==
  /\ route = "contained" /\ edits < MaxEdits
  /\ \E g \in (Policies \cup {NONE}) \ {grantFile} : grantFile' = g
  /\ edits' = edits + 1
  /\ UNCHANGED <<config, pairs, owner, executors, call, store, granted, ran, strays>>

ChangePlan(p) ==
  /\ edits < MaxEdits /\ ~pairs[p].changed
  /\ pairs' = [pairs EXCEPT ![p].changed = TRUE]
  /\ edits' = edits + 1
  /\ UNCHANGED <<config, owner, grantFile, executors, call, store, granted, ran, strays>>

\* serve: bind_socket removes whatever socket is at the path and binds its own.
Serve ==
  /\ route = "contained" /\ Len(pairs) < MaxPairs
  /\ \E pol \in Policies, probe \in BOOLEAN : pairs' = Append(pairs, NewPair(pol, probe))
  /\ owner' = Len(pairs')
  /\ UNCHANGED <<config, grantFile, executors, call, store, edits, granted, ran, strays>>

\* The watcher: the runtime exited, the lease expires and hands back its pids,
\* each is killed, the socket file is removed and the supervisor exits.
ExpireLeaseAs(p, kills) ==
  /\ pairs[p].live
  /\ pairs' = [pairs EXCEPT ![p].live = FALSE]
  /\ executors' = IF kills THEN {e \in executors : e.pair # p}
                  ELSE {e \in executors : e.pair # p \/ ~e.reaped}
  /\ strays' = strays \cup {e \in executors : e.pair = p /\ e.reaped}
  /\ owner' = 0
  /\ call' = IF p = 1 THEN [c \in Calls |-> [call[c] EXCEPT !.pc = "gone"]]
             ELSE [c \in Calls |-> IF call[c].pc = "running"
                                      /\ \E e \in executors : e.call = c /\ e.pair = p
                                   THEN Settle(c, "error")[c] ELSE call[c]]
  /\ UNCHANGED <<config, grantFile, store, edits, granted, ran>>
ExpireLease_sparesRunning(p) == ExpireLeaseAs(p, FALSE)
ExpireLease(p) == ExpireLeaseAs(p, TRUE)

CallStep(c) ==
  \/ Begin(c) \/ Attest(c) \/ runCommand(c) \/ UseGrant(c) \/ Prompt(c) \/ Deny(c)
  \/ ApproveOnce(c) \/ ApproveForSession(c) \/ RunHere(c) \/ Exec(c) \/ NoReply(c) \/ Record(c)

ToolNext ==
  \/ \E c \in Calls : CallStep(c)
  \/ \E e \in executors : Reap(e) \/ Release(e)
  \/ \E p \in 1..Len(pairs) : ChangePlan(p) \/ ExpireLease(p)
  \/ EditGrant \/ Serve

ToolSpec == ToolInit /\ [][ToolNext]_toolVars

-----------------------------------------------------------------------------
(* A call the attested envelope allowed runs only in the supervisor that   *)
(* attested it, under the policy the operator granted, whoever took the    *)
(* socket path between the attestation and the request.                    *)
EnvelopeRunsWhereAttested ==
  \A r \in ran : r.basis = "allow:attested-envelope" =>
    /\ r.where = "executor"
    /\ r.pair = r.verdict.pair /\ r.policy = r.verdict.policy
    /\ r.verdict.granted

(* A call that ran on a session grant had this exact request allowed for   *)
(* this session, and was attested under the same executor policy.          *)
GrantWasGiven ==
  \A r \in ran : r.basis = "allow:session-grant" =>
    \E g \in granted :
      /\ g.session = r.session
      /\ [g.req EXCEPT !.readOnly = FALSE] = [r.req EXCEPT !.readOnly = FALSE]
      /\ g.verdict.status = r.verdict.status /\ g.verdict.policy = r.verdict.policy
      /\ g.verdict.status # "unattested"

(* A command that asks to leave the sandbox runs outside it only on the    *)
(* operator's approval of that very call, never on a grant or a posture.   *)
EscapeIsAsked ==
  \A r \in ran : (r.req.escapes /\ r.req.id = "bash") =>
    r.basis = "allow:operator-approved" /\ r.where = "runtime"

(* An exec-class command runs in the runtime itself, outside executor and  *)
(* sandbox, only on the operator's approval, on a session grant, or unasked *)
(* when the read-only classifier took it.                                  *)
NoUnaskedExec ==
  \A r \in ran :
    (r.where = "runtime" /\ Registry[r.req.id].effects \cap EXEC_EFFECTS # {}) =>
      \/ r.basis \in {"allow:operator-approved", "allow:session-grant",
                      "allow:operator-approved-session-grant"}
      \/ r.basis = "allow:bash-allowlist" /\ r.req.readOnly

(* Executors run only while their lease does: once a supervisor has seen   *)
(* its runtime exit, no command that was sent to it is running.            *)
NoExecutorOutlivesLease ==
  \A e \in executors : ~e.reaped => pairs[e.pair].live

(* A command leaves the sandbox, or runs in the runtime itself, only as    *)
(* its route and the operator's approval of it allow, and none is running  *)
(* once its supervisor's runtime has exited; a call the attested envelope  *)
(* allowed runs only in the supervisor that attested it, under the policy  *)
(* the operator granted, and one that ran on a session grant had this      *)
(* exact request allowed for this session, under the same executor policy. *)
ContainmentKept ==
  /\ EscapeIsAsked /\ NoUnaskedExec /\ NoExecutorOutlivesLease
  /\ EnvelopeRunsWhereAttested /\ GrantWasGiven

(* The supervisor kills only pids of processes it has not yet reaped.      *)
KillsOnlyItsOwn == strays = {}
=============================================================================
