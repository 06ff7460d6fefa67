------------------------- MODULE WorkbenchAuthority -------------------------
(* The authority and durability rules of contracts/workbench/              *)
(* first-product/v1/semantic-rules.ts, in two machines: the grants of a     *)
(* corpus, with the events and the run that rely on them, and its event     *)
(* log.  A corpus has a root grant to the agent and at most two revisions   *)
(* of it; an id named by a grant or an event may be of an event recorded    *)
(* only later.                                                              *)
EXTENDS Naturals, Sequences, FiniteSets

CONSTANTS MaxGrants,        \* the root grant and its revisions
          MaxActs           \* events

ASSUME ActsAssumption == MaxGrants \in Nat /\ MaxActs \in Nat

VARIABLES
    grants,     \* [supersedes, grantee, tools, decision, policy, approval]
    acts,       \* events; a position is an id and a sequence
    bound       \* the grant of the task's run, and the event it started with

gvars == <<grants, acts, bound>>

Human == "operator"
Agents == {"agent", "helper"}

\* An event's room is its task's: "t" and "u" share one.
Tasks == {"t", "u", "w"}
RoomOf(task) == IF task = "w" THEN "q" ELSE "r"

-----------------------------------------------------------------------------
(* The corpus. A grant is for task "t" and its room.                       *)

\* decision: "allowed", "denied" or "allowed-with-approval", the latter with
\* the approval event `policy`; approval: the event that approved a revision.
Grant(sup, grantee, tools, decision, policy, approval) ==
    [supersedes |-> sup, grantee |-> grantee, tools |-> tools,
     decision |-> decision, policy |-> policy, approval |-> approval]

\* basis: on what authority the author acted; names: the grant or the human
\* event that authority is; decision and policy: its own policy basis.
Act(family, author, task, basis, names, decision, policy) ==
    [family |-> family, author |-> author, task |-> task, basis |-> basis,
     names |-> names, decision |-> decision, policy |-> policy]
Plain(family, author, task, basis, names) ==
    Act(family, author, task, basis, names, "allowed", 0)

GrantsInit ==
    /\ grants = <<Grant(0, "agent", {"read"}, "allowed", 0, 0)>>
    /\ acts = <<>>
    /\ bound = [grant |-> 0, envelope |-> 1, first |-> 0]

Ids == DOMAIN acts

-----------------------------------------------------------------------------
(* Approvals.                                                              *)

resolvedHumanApproval(e) ==
    e \in Ids /\ acts[e].family = "approval" /\ acts[e].author = Human
approvalMatchesScope(e, t) ==
    acts[e].task = t /\ RoomOf(acts[e].task) = RoomOf(t)

\* The first sequence at which a grant is relied on, 0 for never.
Reliances(g) ==
    {e \in Ids : acts[e].basis = "grant" /\ acts[e].names = g}
      \cup (IF bound.grant = g /\ bound.first \in Ids THEN {bound.first} ELSE {})
earliestGrantReliance(g) ==
    IF Reliances(g) = {} THEN 0
    ELSE CHOOSE e \in Reliances(g) : \A o \in Reliances(g) : e <= o

Timely(e, use) == use # 0 => e < use
AnyTime(e, use) == TRUE
BeforeUse(e, use) == Timely(e, use)

ConditionMet(g, use) ==
    /\ resolvedHumanApproval(grants[g].policy)
    /\ approvalMatchesScope(grants[g].policy, "t")
    /\ BeforeUse(grants[g].policy, use)

-----------------------------------------------------------------------------
(* checkGrantsAndLeases, checkAuthorizationBasis, checkRunBinding.         *)

broadens(g, p) == ~(grants[g].tools \subseteq grants[p].tools)

Revised(g) ==
    LET p == grants[g].supersedes
        use == earliestGrantReliance(g)
    IN  p # 0 =>
          /\ grants[g].grantee = grants[p].grantee
          /\ \/ ~broadens(g, p)
             \* Reported already as a relied-on grant without its condition.
             \/ /\ use # 0 /\ grants[g].decision = "allowed-with-approval"
                /\ ~ConditionMet(g, use)
             \/ /\ resolvedHumanApproval(grants[g].approval)
                /\ approvalMatchesScope(grants[g].approval, "t")
                /\ BeforeUse(grants[g].approval, use)

\* State changes and the authority-bearing families.
Bears(e) == acts[e].family \in {"approval", "artifact", "run-transition"}

\* A policy basis that is not denied, and whose condition a human approved
\* before, for the event's task and room.
PolicyHolds(e) ==
    /\ acts[e].decision # "denied"
    /\ acts[e].decision = "allowed-with-approval" =>
         /\ resolvedHumanApproval(acts[e].policy)
         /\ acts[e].policy < e
         /\ approvalMatchesScope(acts[e].policy, acts[e].task)

\* An event rests on what it names: a grant to its author, for its task; a
\* human's earlier event in its task or its room; a policy that holds.
InGrant(e) ==
    acts[e].basis = "grant" =>
      /\ acts[e].names \in DOMAIN grants
      /\ grants[acts[e].names].grantee = acts[e].author
      /\ acts[e].task = "t"
Attributable(e) ==
    acts[e].basis = "operator-direct" /\ acts[e].author # Human =>
      LET h == acts[e].names
      IN  /\ h \in Ids /\ acts[h].author = Human /\ h < e
          /\ \/ acts[h].task = acts[e].task
             \/ RoomOf(acts[h].task) = RoomOf(acts[e].task)
Based(e) ==
    /\ InGrant(e) /\ Attributable(e)
    /\ Bears(e) \/ acts[e].basis = "policy-default" => PolicyHolds(e)

Relied(g) == Reliances(g) # {} \/ g \in {bound.envelope, bound.grant}
Effective(g) ==
    Relied(g) =>
      /\ grants[g].decision # "denied"
      /\ grants[g].decision = "allowed-with-approval"
           => ConditionMet(g, earliestGrantReliance(g))

\* The grant and all it revises at any remove: the least set that holds it and
\* whatever its members supersede.
Chain(g) ==
    {h \in DOMAIN grants : \A S \in SUBSET DOMAIN grants :
        g \in S /\ (\A k \in S : grants[k].supersedes # 0 => grants[k].supersedes \in S)
            => h \in S}
supersedesTransitively(g, p) == g # p /\ p \in Chain(g)

\* The run's grant is the envelope's, the one the envelope's replaced after the
\* run had started, or a revision of it that is no wider. It is the agent's.
RunBound ==
    bound.grant # 0 =>
      /\ grants[bound.grant].grantee = "agent"
      /\ \/ bound.grant = bound.envelope
         \/ /\ grants[bound.envelope].supersedes = bound.grant
            /\ grants[bound.envelope].approval \in Ids
            /\ bound.first < grants[bound.envelope].approval
         \/ /\ supersedesTransitively(bound.grant, bound.envelope)
            /\ grants[bound.grant].grantee = grants[bound.envelope].grantee
            /\ ~broadens(bound.grant, bound.envelope)

GrantsAdmitted ==
    /\ \A g \in DOMAIN grants : Revised(g) /\ Effective(g)
    /\ \A e \in Ids : Based(e)
    /\ RunBound

-----------------------------------------------------------------------------
(* The writer. The approvals it names are of the first two events.          *)

Issue ==
    /\ Len(grants) < MaxGrants /\ acts = <<>> /\ bound.grant = 0
    /\ \E sup \in DOMAIN grants, grantee \in Agents, tools \in {{"read"}, {"read", "send"}},
          d \in {"allowed", "denied", "allowed-with-approval"},
          pol \in 0..2, app \in 0..2 :
         /\ (d = "allowed-with-approval") = (pol # 0)
         /\ tools = {"read"} \/ d = "denied" => app = 0
         /\ grantee = "helper" => d = "allowed" /\ app = 0
         /\ grants' = Append(grants,
              Grant(sup, grantee, tools, d, pol, app))
    /\ UNCHANGED <<acts, bound>>

\* A corpus in which an event rests on nothing stays refused, so it is not
\* continued.
Record(a) ==
    /\ Len(acts) < MaxActs /\ \A e \in Ids : Based(e)
    /\ acts' = Append(acts, a)

\* The policy bases an event is recorded with.
Policies ==
    {<<"allowed", 0>>, <<"denied", 0>>}
      \cup ({"allowed-with-approval"} \X (1..2))

Approve ==
    /\ \E who \in {Human, "agent"}, t \in Tasks :
         /\ who = "agent" => t = "t"
         /\ Record(Plain("approval", who, t, "membership", 0))
    /\ UNCHANGED <<grants, bound>>

Use ==
    /\ \E g \in 1..MaxGrants :
         Record(Plain("message", "agent", "t", "grant", g))
    /\ UNCHANGED <<grants, bound>>

\* On the word of a human's event, on the default policy, or under the
\* agent's own standing with something that bears authority.
ActDirectly ==
    /\ \E e \in 1..2 : Record(Plain("message", "agent", "t", "operator-direct", e))
    /\ UNCHANGED <<grants, bound>>
ActOnPolicy ==
    /\ \E d \in Policies, b \in {<<"message", "policy-default">>,
                                  <<"artifact", "membership">>} :
         Record(Act(b[1], "agent", "t", b[2], 0, d[1], d[2]))
    /\ UNCHANGED <<grants, bound>>

StartRun ==
    /\ bound.grant = 0
    /\ Record(Plain("run-transition", "agent", "t", "membership", 0))
    /\ \E g, env \in DOMAIN grants :
         bound' = [grant |-> g, envelope |-> env, first |-> Len(acts) + 1]
    /\ UNCHANGED grants

GrantsNext ==
    Issue \/ Approve \/ Use \/ ActDirectly \/ ActOnPolicy \/ StartRun
GrantsSpec == GrantsInit /\ [][GrantsNext]_gvars

-----------------------------------------------------------------------------
(* Properties.                                                             *)

\* Whatever chain of revisions a grant in use came by, every tool it gives was
\* the root grant's or was added by a revision that a human approved, for this
\* task; and all the chain is of one grantee.
ToolsTraced ==
    \A e \in Ids : acts[e].basis = "grant" =>
      /\ \A h \in Chain(acts[e].names) : grants[h].grantee = acts[e].author
      /\ \A tool \in grants[acts[e].names].tools :
           \/ tool \in grants[1].tools
           \/ \E h \in Chain(acts[e].names) :
                /\ tool \in grants[h].tools
                /\ grants[h].approval \in Ids
                /\ acts[grants[h].approval].author = Human
                /\ acts[grants[h].approval].task = "t"

Approved(use) ==
    \E h \in 1..(use - 1) : resolvedHumanApproval(h) /\ acts[h].task = "t"

\* What the agent does rests on a human's earlier act wherever something says
\* so. A grant that is conditional, or that gives more than the one it revises,
\* was approved by a human for this task before the grant's first use, by an
\* event or by a run; a conditional policy was, before what rests on it; what
\* is done on an operator's word follows a human event in the same room (of
\* another task, maybe). Nothing rests on a denied grant or policy. Not claimed,
\* and not implied: a broader revision that is never used itself may be approved
\* after its successor was used.
GrantBacked(g, use) ==
    /\ grants[g].decision # "denied"
    /\ grants[g].decision = "allowed-with-approval" => Approved(use)
    /\ grants[g].supersedes # 0 /\ broadens(g, grants[g].supersedes)
         => Approved(use)
HumanFirst ==
    /\ \A e \in Ids :
         /\ acts[e].basis = "grant" => GrantBacked(acts[e].names, e)
         /\ acts[e].basis = "operator-direct" =>
              \E h \in 1..(e - 1) : /\ acts[h].author = Human
                                   /\ RoomOf(acts[h].task) = RoomOf("t")
         /\ acts[e].basis = "policy-default" \/ Bears(e) =>
              /\ acts[e].decision # "denied"
              /\ acts[e].decision = "allowed-with-approval" => Approved(e)
    /\ bound.grant # 0 => GrantBacked(bound.grant, bound.first)

\* A run has no tool its task's envelope does not give, unless the envelope was
\* narrowed after the run had started.
RunWithinEnvelope ==
    bound.grant # 0 =>
      \/ grants[bound.grant].tools \subseteq grants[bound.envelope].tools
      \/ grants[bound.envelope].approval > bound.first

AuthorityHolds ==
    GrantsAdmitted => ToolsTraced /\ HumanFirst /\ RunWithinEnvelope

-----------------------------------------------------------------------------
(* The log: what an event that bears authority must show of its commit,     *)
(* when it may be acknowledged, what may be recorded asynchronously and who *)
(* may write a family.  The rules look at an event, at its source, or walk  *)
(* the events in the order of their sequence.                               *)

CONSTANT Writers

VARIABLE log    \* in the order the corpus lists them

(* commit: its commit sequence, 0 for none; whole: state and event were     *)
(* committed as one; ack: the acknowledgement's sequence, 0 for none;       *)
(* source: the event telemetry derives from, 0 for none.                    *)
Entry == [seq : 1..(2 * MaxActs), family : {"approval", "projection"},
          commit : 0..2, whole : BOOLEAN, ack : 0..2, async : BOOLEAN,
          source : 0..MaxActs, writer : Writers \cup {"none"}]

LogInit == log = <<>>

AUTHORITY_BEARING_FAMILIES == {"approval", "revocation", "interrupt",
                               "artifact", "receipt"}
REBUILDABLE_FAMILIES == {"projection", "cost", "process-provenance"}

bearsAuthority(e) == e.family \in AUTHORITY_BEARING_FAMILIES \/ e.ack # 0

-----------------------------------------------------------------------------
(* checkAuthority.                                                         *)

Durable(e) ==
    /\ bearsAuthority(e) /\ ~e.async => e.commit # 0 /\ e.whole
    /\ e.ack # 0 /\ e.commit # 0 => e.ack >= e.commit

SourceKnown(e) ==
    /\ e.source \in DOMAIN log
    /\ log[e.source].seq < e.seq /\ log[e.source].commit # 0

Asynchronous(e) ==
    e.async => /\ e.family \in REBUILDABLE_FAMILIES
               /\ e.ack = 0
               /\ SourceKnown(e)
AnyFamily(e) == e.async => SourceKnown(e)
AsyncAllowed(e) == Asynchronous(e)

(* The commit order of checkEventOrdering, and checkSoleWriter. Both walk   *)
(* the events sorted by sequence.                                           *)

Before(i, j) == log[i].seq < log[j].seq

CommitOrder ==
    \A i, j \in DOMAIN log :
      Before(i, j) /\ log[i].commit # 0 /\ log[j].commit # 0
        => log[i].commit <= log[j].commit

\* The event by which a family got its writer.
Cutovers(f) ==
    LET named == {i \in DOMAIN log : log[i].family = f /\ log[i].writer # "none"}
    IN  {i \in named : \A j \in named : ~Before(j, i)}
SoleWriter ==
    \A j \in DOMAIN log : \A i \in Cutovers(log[j].family) :
      Before(i, j) => log[j].writer = log[i].writer

LogAdmitted ==
    /\ \A i, j \in DOMAIN log : log[i].seq = log[j].seq => i = j
    /\ \A i \in DOMAIN log : Durable(log[i]) /\ AsyncAllowed(log[i])
    /\ CommitOrder /\ SoleWriter

-----------------------------------------------------------------------------
(* The writer: each event in turn, after all the others or between them. A  *)
(* corpus no longer event can mend is not continued.                        *)

Write ==
    /\ Len(log) < MaxActs
    /\ LogAdmitted
    /\ \E e \in [seq : {2 * Len(log) + 2, 2 * Len(log) - 1} \cap Nat,
                 family : {"approval", "projection"}, commit : 0..2,
                 whole : BOOLEAN, ack : 0..2, async : BOOLEAN,
                 source : 0..Len(log), writer : Writers \cup {"none"}] :
         /\ e.whole => e.commit # 0
         /\ ~e.async => e.source = 0
         /\ log' = Append(log, e)

LogNext == Write
LogSpec == LogInit /\ [][LogNext]_log

-----------------------------------------------------------------------------
(* Properties.                                                             *)

\* Once an acknowledgement is out, everything of authority up to the event it
\* acknowledges is durable, committed no later than the acknowledgement.
AckedMeansCommitted ==
    \A i, j \in DOMAIN log :
      log[i].ack # 0 /\ bearsAuthority(log[j]) /\ (i = j \/ Before(j, i))
        => log[j].whole /\ log[j].commit # 0 /\ log[j].commit <= log[i].ack

\* A family has one writer, from its first named one on.
OneWriter ==
    \A i, j \in DOMAIN log :
      log[i].family = log[j].family /\ Before(i, j) /\ log[i].writer # "none"
        => log[j].writer = log[i].writer

LogHolds == LogAdmitted => AckedMeansCommitted /\ OneWriter

\* checkAuthorizationBasis, checkGrantsAndLeases, checkRunBinding,
\* checkAuthority and checkSoleWriter: in a corpus the rules admit no grant in
\* use has a tool that neither the root gave nor a human approved; a
\* conditional or broadened grant was approved before its first use and a
\* conditional policy before its event; no run has more than its envelope gave;
\* acknowledged authority was durable; a family has one writer. A revision in
\* the middle of a chain, never used itself, may be approved later than that;
\* routes, leases and summons exceptions are left out.
AuthorityKept == AuthorityHolds /\ LogHolds
=============================================================================
