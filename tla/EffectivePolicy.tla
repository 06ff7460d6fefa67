--------------------------- MODULE EffectivePolicy ---------------------------
(* What a runtime may do, from the operator's inputs to what a platform      *)
(* enforces: the grants composed with their provenance (runtime-policy.ts),  *)
(* the policy that describes them (effective-policy.ts), the session policy  *)
(* checked against the run's (effective-policy-subset.ts), and the mounts    *)
(* and destinations compiled for a target (effective-policy-compile.ts).     *)
(* A list the code keeps in order is a sequence, any other a set; null is    *)
(* Null for a number and {} for a destination.                               *)
EXTENDS Integers, Sequences, SequencesExt

CONSTANTS
    Inputs,          \* the operator's launch inputs a run starts from
    Job,             \* what the job's envelope adds: roots, tools, limits...
    Changes,         \* field -> the values a session may put there
    SessionInputs,   \* the inputs whose sessions are edited
    MaxEdits,
    Targets,         \* platform, capabilities, services, volumes, acceptance
    Loopback, AddressLiterals, CanonicalHosts,   \* kinds of host
    ByteOrder,       \* the nameservers in the order of their bytes
    MountNames, VolumeNames, MaxPort

VARIABLES inputs, run, session, edits, verdict, target, output
vars == <<inputs, run, session, edits, verdict, target, output>>

Null == -1
Idle == [stage |-> "none"]
Rights == {"read", "write", "execute"}

-----------------------------------------------------------------------------
(* runtime-policy.ts: the static tables and the operator's entries.         *)

Source(kind, role, tls) == [kind |-> kind, role |-> role, tls |-> tls]

RUNTIME_NET_GRANT_TABLE ==
    <<[entry |-> [host |-> "127.0.0.1", port |-> 3306], role |-> "dolt"],
      [entry |-> [host |-> "127.0.0.1", port |-> 8080], role |-> "local-model"],
      [entry |-> [host |-> "provider", port |-> 443], role |-> "provider"]>>
RUNTIME_RUN_GRANT_TABLE ==
    <<[entry |-> "git", role |-> "tool"], [entry |-> "kill", role |-> "runner"]>>
RUNTIME_ENV_GRANTS == <<"PATH", "API_KEY">>
RUNTIME_PLATFORM_ENV == {"TMPDIR"}

isAddressLiteral(host) == host \in AddressLiterals
isLoopbackHost(host) == host \in Loopback
isCanonicalHost(host) == host \in CanonicalHosts

\* An entry already there keeps its place and gains the source.
appendNew(list, entries, source) ==
    LET add(l, e) ==
          IF \E i \in DOMAIN l : l[i].entry = e
          THEN [i \in DOMAIN l |->
                  IF l[i].entry = e /\ source \notin ToSet(l[i].sources)
                  THEN [l[i] EXCEPT !.sources = Append(@, source)] ELSE l[i]]
          ELSE Append(l, [entry |-> e, sources |-> <<source>>])
    IN  FoldLeft(add, list, entries)

fromTable(table) ==
    [i \in DOMAIN table |-> [entry |-> table[i].entry,
                             sources |-> <<Source("static", table[i].role, FALSE)>>]]

composeRuntimeGrants(in) ==
    LET tagged(kind, l, seq) ==
          FoldLeft(LAMBDA acc, s : appendNew(acc, <<s.entry>>, Source(kind, "", s.tls)),
                   l, seq)
        plain(kind, l, seq) == appendNew(l, seq, Source(kind, "", FALSE))
        net == plain("nameserver",
                 plain("network-allow",
                   tagged("mcp-server",
                     tagged("memory-mcp", fromTable(RUNTIME_NET_GRANT_TABLE), in.memory),
                     in.servers),
                   in.allow),
                 in.nameservers)
        run0 == plain("node-path",
                  plain("runtime-executable", fromTable(RUNTIME_RUN_GRANT_TABLE),
                        <<"node">>), in.nodePath)
        run1 == appendNew(run0, <<"kill">>, Source("static", "runner", FALSE))
        env(l, n) == IF Contains(l, n) THEN l ELSE Append(l, n)
    IN  [net |-> plain("dolt-endpoint", net, in.dolt),
         run |-> plain("secrets-resolver", run1, in.resolver),
         env |-> FoldLeft(env, RUNTIME_ENV_GRANTS, in.inheritEnv),
         dolt |-> ToSet(in.dolt)]

composeRuntimePolicy(in) ==
    LET g == composeRuntimeGrants(in)
    IN  [net |-> [i \in DOMAIN g.net |-> g.net[i].entry],
         run |-> [i \in DOMAIN g.run |-> g.run[i].entry],
         env |-> g.env, dolt |-> g.dolt]

\* runtimeChildEnv: the names set in `env` that the child is given.
runtimeChildEnv(policy, env) == (ToSet(policy.env) \cup RUNTIME_PLATFORM_ENV) \cap env

-----------------------------------------------------------------------------
(* effective-policy.ts: the description of each entry.                      *)

needsDns(host) == ~isAddressLiteral(host) /\ ~isLoopbackHost(host)

NET_SOURCE_PRECEDENCE ==
    <<"dolt-endpoint", "static", "nameserver", "memory-mcp", "mcp-server", "network-allow">>
RUN_SOURCE_PRECEDENCE ==
    <<"static", "secrets-resolver", "runtime-executable", "node-path">>

\* The first source of the first kind of `precedence` that has one.
primary(sources, precedence) ==
    LET kind == precedence[CHOOSE i \in DOMAIN precedence :
                  /\ \E s \in ToSet(sources) : s.kind = precedence[i]
                  /\ \A j \in 1..(i - 1) : \A s \in ToSet(sources) : s.kind # precedence[j]]
    IN  sources[CHOOSE i \in DOMAIN sources :
                  /\ sources[i].kind = kind
                  /\ \A j \in 1..(i - 1) : sources[j].kind # kind]

RoleUnder(sources, precedence) ==
    LET s == primary(sources, precedence)
        names == ("static" :> s.role) @@ ("memory-mcp" :> "memory") @@ ("mcp-server" :> "mcp")
                 @@ ("network-allow" :> "operator") @@ ("nameserver" :> "dns")
                 @@ ("dolt-endpoint" :> "dolt")
    IN  names[s.kind]
\* Mutant: a static row names the entry before the configured endpoint does.
RoleStaticFirst(sources) ==
    RoleUnder(sources, <<"static", "dolt-endpoint">> \o SubSeq(NET_SOURCE_PRECEDENCE, 3, 6))
networkRole(sources) == RoleUnder(sources, NET_SOURCE_PRECEDENCE)

carriesTls(s) ==
    \/ s.kind = "static" /\ s.role = "provider"
    \/ s.kind \in {"memory-mcp", "mcp-server"} /\ s.tls

transport(s) == IF s.kind = "nameserver" THEN "udp" ELSE "tcp"

\* The sources of one grant by the transport they need, the first one's first.
Split(sources) ==
    LET with(t) == SelectSeq(sources, LAMBDA s : transport(s) = t)
        first == transport(sources[1])
        other == IF first = "tcp" THEN "udp" ELSE "tcp"
    IN  IF with(other) = <<>> THEN <<sources>> ELSE <<with(first), with(other)>>
\* Mutant: one entry for each grant.
OneGroup(sources) == <<sources>>
byTransport(sources) == Split(sources)

\* The nameserver that names the DNS behaviour: the smallest.
Smallest(grants) ==
    LET ns == {i \in DOMAIN ByteOrder :
                 \E g \in ToSet(grants) : /\ g.entry = ByteOrder[i]
                                          /\ \E s \in ToSet(g.sources) : s.kind = "nameserver"}
    IN  IF ns = {} THEN {} ELSE {ByteOrder[CHOOSE i \in ns : \A j \in ns : i <= j]}
\* Mutant: the first one listed.
FirstListed(grants) ==
    LET ns == SelectSeq(grants, LAMBDA g : \E s \in ToSet(g.sources) : s.kind = "nameserver")
    IN  IF ns = <<>> THEN {} ELSE {ns[1].entry}
resolverOf(grants) == Smallest(grants)

networkEntries(grants) ==
    LET resolver == resolverOf(grants)
        entry(e, group) ==
          LET role == networkRole(group)
          IN  [role |-> role, host |-> e.host, port |-> e.port,
               protocol |-> transport(group[1]),
               dns |-> IF role # "dns" /\ needsDns(e.host) THEN resolver ELSE {},
               assurance |-> IF needsDns(e.host) /\ \A s \in ToSet(group) : carriesTls(s)
                             THEN "tls" ELSE "none"]
        add(acc, g) == LET groups == byTransport(g.sources)
                       IN  acc \o [i \in DOMAIN groups |-> entry(g.entry, groups[i])]
    IN  FoldLeft(add, <<>>, grants)

executionRole(sources) ==
    LET s == primary(sources, RUN_SOURCE_PRECEDENCE)
    IN  IF s.kind = "static" THEN s.role
        ELSE IF s.kind = "secrets-resolver" THEN "resolver" ELSE "runner"

executables(grants) ==
    [i \in DOMAIN grants |-> [program |-> grants[i].entry,
                              role |-> executionRole(grants[i].sources), digest |-> ""]]

\* One schema key of its own owner, and the names the resolver inherits.
credentialRefs(in) ==
    {[name |-> "API_KEY", owner |-> "provider"]} \cup
    {[name |-> n, owner |-> "resolver"] : n \in ToSet(in.inheritEnv) \ {"API_KEY"}}

\* effective-policy-digest.ts: every array as a set, the digest left out. Two
\* policies have one digest exactly when this is equal.
canonicalPolicyJson(p) ==
    [f \in DOMAIN p \ {"digest"} |->
       CASE f \in {"roots", "net", "execs", "env"} -> ToSet(p[f])
         [] OTHER -> p[f]]
verifyDigest(p) == p.digest = canonicalPolicyJson(p)

composeEffectivePolicy(in) ==
    LET g == composeRuntimeGrants(in)
        candidate ==
          [who |-> Job.who, repos |-> Job.repos, expires |-> Job.expires,
           roots |-> Job.roots, scratch |-> Job.scratch, forbidden |-> Job.forbidden,
           net |-> networkEntries(g.net), broker |-> {}, dolt |-> g.dolt,
           execs |-> executables(g.run), descendants |-> TRUE, maxProcesses |-> Null,
           syscall |-> "", env |-> g.env, secrets |-> credentialRefs(in),
           tools |-> Job.tools, posture |-> Job.posture, paid |-> Job.paid,
           limits |-> Job.limits, digest |-> Idle]
    IN  [candidate EXCEPT !.digest = canonicalPolicyJson(candidate)]

\* parseEffectivePolicy: every list is a set, every port and limit a count.
list(l) == IsInjective(l)
limit(n) == n = Null \/ n \in Nat
parseIdentity(p) == p.expires \in Nat
parseFilesystem(p) == list(p.roots)
parseEntry(e) == e.port \in 1..MaxPort
parseNetwork(p) == list(p.net) /\ \A e \in ToSet(p.net) : parseEntry(e)
parseProcesses(p) == list(p.execs) /\ list(p.env) /\ limit(p.maxProcesses)
parseEffects(p) == \A l \in DOMAIN p.limits : limit(p.limits[l])
parseEffectivePolicy(p) ==
    /\ parseIdentity(p) /\ parseFilesystem(p) /\ parseNetwork(p)
    /\ parseProcesses(p) /\ parseEffects(p)

projectRuntimePolicy(p) ==
    LET add(l, e) == LET at == [host |-> e.host, port |-> e.port]
                     IN  IF Contains(l, at) THEN l ELSE Append(l, at)
    IN  [net |-> FoldLeft(add, <<>>, p.net),
         run |-> [i \in DOMAIN p.execs |-> p.execs[i].program],
         env |-> p.env, dolt |-> p.dolt]

-----------------------------------------------------------------------------
(* effective-policy-subset.ts: checkSessionWithinRun. Each check names the   *)
(* groups it found broken.                                                   *)

POSTURE_RANK == [strict |-> 0, operator |-> 1]

canonicalSegments(path) == \A i \in DOMAIN path : path[i] \notin {"", ".", ".."}
within(inner, outer) == IsPrefix(outer, inner)
withinLimit(s, r) == r = Null \/ (s # Null /\ s <= r)

checkIdentity(s, r) ==
    s.who # r.who \/ ~(s.repos \subseteq r.repos) \/ s.expires > r.expires

RootGranted(root, roots, sameRoot) ==
    /\ canonicalSegments(root.source)
    /\ LET containing == {o \in ToSet(roots) : /\ canonicalSegments(o.source)
                                               /\ within(root.source, o.source)}
           sameTarget == {o \in containing : o.target = root.target}
       IN  /\ sameTarget # {}
           /\ IF sameRoot THEN \E o \in sameTarget : root.rights \subseteq o.rights
              ELSE \A right \in root.rights : \E o \in containing : right \in o.rights
\* Mutant: each right is granted by some root around the path.
RightsPooled(root, roots) == RootGranted(root, roots, FALSE)
checkRoot(root, roots) == RootGranted(root, roots, TRUE)

checkFilesystem(s, r) ==
    \/ \E root \in ToSet(s.roots) : ~checkRoot(root, r.roots)
    \/ s.scratch # "" /\ s.scratch # r.scratch
    \/ ~(r.forbidden \subseteq s.forbidden)

checkNetwork(s, r) ==
    \/ ~(ToSet(s.net) \subseteq ToSet(r.net))
    \/ ~(s.broker \subseteq r.broker)
    \/ s.dolt # {} /\ s.dolt # r.dolt

checkProcesses(s, r) ==
    \/ \E e \in ToSet(s.execs) : \A o \in ToSet(r.execs) :
         ~(o.program = e.program /\ o.role = e.role /\ o.digest \in {"", e.digest})
    \/ s.descendants /\ ~r.descendants
    \/ ~withinLimit(s.maxProcesses, r.maxProcesses)
    \/ r.syscall # "" /\ s.syscall # r.syscall
    \/ ~(ToSet(s.env) \subseteq ToSet(r.env))

checkCredentialRefs(s, r) == ~(s.secrets \subseteq r.secrets)

checkEffects(s, r) ==
    \/ ~(s.tools \subseteq r.tools)
    \/ POSTURE_RANK[s.posture] > POSTURE_RANK[r.posture]
    \/ s.paid /\ ~r.paid
    \/ \E l \in DOMAIN r.limits : ~withinLimit(s.limits[l], r.limits[l])

checkSessionWithinRun(s, r) ==
    {g \in {"identity", "filesystem", "network", "processes", "secrets", "effects"} :
       CASE g = "identity" -> checkIdentity(s, r)
         [] g = "filesystem" -> checkFilesystem(s, r)
         [] g = "network" -> checkNetwork(s, r)
         [] g = "processes" -> checkProcesses(s, r)
         [] g = "secrets" -> checkCredentialRefs(s, r)
         [] g = "effects" -> checkEffects(s, r)}

-----------------------------------------------------------------------------
(* effective-policy-compile.ts.                                             *)

At(e) == [host |-> e.host, port |-> e.port]

\* mapping: where a service is reached on the target.
mapping(t, e) == {t.services[i].to : i \in {j \in DOMAIN t.services : t.services[j].entry = e}}
Reached(t, e) == IF mapping(t, e) = {} THEN e ELSE CHOOSE m \in mapping(t, e) : TRUE

checkService(t, e) ==
    \A m \in mapping(t, e) : isCanonicalHost(m.host) /\ m.port \in 1..MaxPort

downgraded(e, t) ==
    /\ e.assurance = "tls" /\ "tls" \notin t.assurances
    /\ t.tlsByAddressSet /\ At(e) \in t.accepts

\* A destination the target can name: canonical, and mapped if it is loopback.
Nameable(e, t) ==
    /\ isCanonicalHost(e.host) /\ e.port \in 1..MaxPort
    /\ isLoopbackHost(e.host) => mapping(t, e) # {}
    /\ checkService(t, e)

EntryOffends(e, p, t) ==
    \/ ~Nameable(At(e), t)
    \/ \E r \in e.dns : ~Nameable(r, t) \/ ~\E o \in ToSet(p.net) :
                            o.role = "dns" /\ o.protocol = "udp" /\ At(o) = r
    \/ e.protocol \notin t.protocols
    \/ e.dns # {} /\ ~t.resolves
    \/ e.assurance \notin t.assurances /\ ~downgraded(e, t)

RootOffends(i, p, t) ==
    LET root == p.roots[i]
    IN  \/ ~(root.rights \subseteq t.rights)
        \/ ~canonicalSegments(root.source)
        \/ root.target \notin MountNames
        \/ root.target = p.scratch
        \/ \E j \in 1..(i - 1) : p.roots[j].target = root.target

NetworkRefused(p, t, databaseToo) ==
    \/ \E a \in t.accepts : ~\E e \in ToSet(p.net) : e.assurance = "tls" /\ At(e) = a
    \/ \E e \in ToSet(p.net) : EntryOffends(e, p, t)
    \/ \E d \in p.dolt :
         \/ ~Nameable(d, t)
         \/ /\ databaseToo
            /\ ~\E e \in ToSet(p.net) : e.role = "dolt" /\ e.protocol = "tcp" /\ At(e) = d
\* Mutant: the database endpoint need not be one of the entries.
DoltUnchecked(p, t) == NetworkRefused(p, t, FALSE)
NetworkOffends(p, t) == NetworkRefused(p, t, TRUE)

ProcessesOffend(p, t) ==
    \/ \E e \in ToSet(p.execs) : IF e.digest = "" THEN t.requireDigest ELSE ~t.byDigest
    \/ ~p.descendants /\ ~t.forbidDescendants
    \/ p.maxProcesses # Null /\ ~t.processLimit
    \/ IF p.syscall = "" THEN t.requireSyscall ELSE p.syscall \notin t.syscalls

commonOffenders(p, t) ==
    \/ ~verifyDigest(p)
    \/ ~IsInjective([i \in DOMAIN t.services |-> t.services[i].entry])
    \/ \E i \in DOMAIN p.roots : RootOffends(i, p, t)
    \/ p.scratch # "" /\ (p.scratch \notin MountNames \/ ~({"read", "write"} \subseteq t.rights))
    \/ NetworkOffends(p, t)
    \/ ProcessesOffend(p, t)

\* volumeFor: the claim with the longest source around the path.
volumeFor(t, source) ==
    LET holds == {v \in t.volumes : canonicalSegments(source) /\ within(source, v.source)}
    IN  {[claim |-> v.claim, subPath |-> SubSeq(source, Len(v.source) + 1, Len(source))] :
           v \in {w \in holds : \A o \in holds : Len(o.source) <= Len(w.source)}}

KubernetesOffends(p, t) ==
    \/ \E r \in ToSet(p.roots) : r.target \in MountNames \ VolumeNames
    \/ p.scratch \in MountNames \ VolumeNames
    \/ \E r \in ToSet(p.roots) : volumeFor(t, r.source) = {}

egress(p, t) ==
    {[role |-> e.role, entry |-> At(e), to |-> Reached(t, At(e)), protocol |-> e.protocol,
      dns |-> {Reached(t, r) : r \in e.dns}, assurance |-> e.assurance,
      enforced |-> IF downgraded(e, t) THEN "address-set" ELSE e.assurance] :
       e \in ToSet(p.net)}

doltEndpoint(p, t) == {Reached(t, d) : d \in p.dolt}

landlockPaths(p) ==
    [right \in Rights |->
       {r.target : r \in {q \in ToSet(p.roots) : right \in q.rights}}
       \cup IF p.scratch # "" /\ right # "execute" THEN {p.scratch} ELSE {}]

compileLinux(p, t) ==
    [mounts |-> [i \in DOMAIN p.roots |->
        [from |-> p.roots[i].source, at |-> p.roots[i].target,
         readOnly |-> "write" \notin p.roots[i].rights,
         exec |-> "execute" \in p.roots[i].rights]],
     scratch |-> p.scratch, landlock |-> landlockPaths(p), accept |-> egress(p, t),
     dolt |-> doltEndpoint(p, t), execs |-> ToSet(p.execs), env |-> ToSet(p.env),
     forbidden |-> p.forbidden]

compileKubernetes(p, t) ==
    [compileLinux(p, t) EXCEPT !.mounts =
       [i \in DOMAIN p.roots |->
          LET v == CHOOSE v \in volumeFor(t, p.roots[i].source) : TRUE
          IN  [claim |-> v.claim, subPath |-> v.subPath, at |-> p.roots[i].target,
               readOnly |-> "write" \notin p.roots[i].rights]]]

-----------------------------------------------------------------------------
Init == /\ inputs = Idle /\ run = Idle /\ session = Idle
        /\ edits = 0 /\ verdict = {} /\ target = Idle /\ output = Idle

\* A run starts: its policy is composed, and its first session is the same.
Compose ==
    /\ inputs = Idle
    /\ inputs' \in Inputs
    /\ run' = composeEffectivePolicy(inputs')
    /\ session' = run'
    /\ UNCHANGED <<edits, verdict, target, output>>

\* A session asks for something else. `restamp`: its digest is its own.
EditSession ==
    /\ inputs # Idle /\ inputs \in SessionInputs /\ target = Idle
    /\ edits < MaxEdits /\ edits' = edits + 1
    /\ \E f \in DOMAIN Changes : \E v \in Changes[f] : \E restamp \in BOOLEAN :
         LET edited == [session EXCEPT ![f] = v]
         IN  /\ session[f] # v
             /\ parseEffectivePolicy(edited)
             /\ session' = IF restamp
                           THEN [edited EXCEPT !.digest = canonicalPolicyJson(edited)]
                           ELSE edited
             /\ verdict' = checkSessionWithinRun(session', run)
    /\ UNCHANGED <<inputs, run, target, output>>

\* compileLinux or compileKubernetes, of a session within its run.
Compile ==
    /\ inputs # Idle /\ target = Idle /\ verdict = {}
    /\ target' \in Targets
    /\ output' =
         IF commonOffenders(session, target') THEN [stage |-> "refused"]
         ELSE IF target'.platform = "linux"
         THEN [stage |-> "done", out |-> compileLinux(session, target')]
         ELSE IF KubernetesOffends(session, target') THEN [stage |-> "refused"]
         ELSE [stage |-> "done", out |-> compileKubernetes(session, target')]
    /\ UNCHANGED <<inputs, run, session, edits, verdict>>

Next == Compose \/ EditSession \/ Compile
Spec == Init /\ [][Next]_vars

-----------------------------------------------------------------------------
(* Properties.                                                             *)

\* What a policy allows, one atom at a time: a right on a host path under a
\* mount, a destination, a program of a content, a level of a limit.
Paths == {<<>>, <<"w">>, <<"w", "a">>, <<"w", "a", "b">>, <<"x">>}
Allows(p) ==
    {<<"file", right, r.target, path>> : <<right, r, path>> \in
       {<<y, q, z>> \in Rights \X ToSet(p.roots) \X Paths :
          y \in q.rights /\ within(z, q.source) /\ ~\E f \in p.forbidden : within(z, f)}}
    \cup {<<"reach", e>> : e \in ToSet(p.net)}
    \cup {<<"database", d>> : d \in p.dolt}
    \cup {<<"program", e.program, e.role, d>> : <<e, d>> \in
            {<<q, z>> \in ToSet(p.execs) \X {"d1", "d2"} : q.digest \in {"", z}}}
    \cup {<<"secret", c>> : c \in p.secrets}
    \cup {<<"see", n>> : n \in ToSet(p.env)}
    \cup {<<"tool", x>> : x \in p.tools}
    \cup {<<"limit", l, n>> : <<l, n>> \in {<<k, m>> \in (DOMAIN p.limits) \X (0..9) :
                                              p.limits[k] = Null \/ m <= p.limits[k]}}
    \cup {<<"processes", n>> : n \in {m \in 0..9 : p.maxProcesses = Null \/ m <= p.maxProcesses}}
    \cup {<<"until", n>> : n \in 0..p.expires}
    \cup IF p.paid THEN {<<"paid">>} ELSE {}
    \cup IF p.descendants THEN {<<"descendants">>} ELSE {}

\* "A session may narrow anything and widen nothing": whatever a session the
\* check admits allows, its run allows.
WidensNothing ==
    inputs # Idle /\ verdict = {} => Allows(session) \subseteq Allows(run)

\* The policy and the seams agree, in order: "so a test can prove the two
\* agree". A composed policy is always one the parser takes, and the order
\* the operator lists things in never reaches the digest.
ComposedAsSeamsRead ==
    inputs # Idle =>
      /\ projectRuntimePolicy(run) = composeRuntimePolicy(inputs)
      /\ parseEffectivePolicy(run)
      /\ run.digest = composeEffectivePolicy(
           [f \in DOMAIN inputs |-> Reverse(inputs[f])]).digest

\* A composed policy is consistent with itself on every platform: whatever
\* ports the operator's entries share, the resolver an entry names and the
\* configured database are granted to those roles, so no compiler refuses it
\* for them; and every secret it names is one the runtime's environment holds.
ComposedConsistent ==
    inputs # Idle =>
      /\ \A e \in ToSet(run.net) : \A r \in e.dns : \E o \in ToSet(run.net) :
           o.role = "dns" /\ o.protocol = "udp" /\ At(o) = r
      /\ \A d \in run.dolt : \E e \in ToSet(run.net) :
           e.role = "dolt" /\ e.protocol = "tcp" /\ At(e) = d
      /\ \A g \in ToSet(composeRuntimeGrants(inputs).net) : \A s \in ToSet(g.sources) :
           \E e \in ToSet(run.net) : /\ At(e) = g.entry /\ e.protocol = transport(s)
                                     /\ e.assurance = "tls" => carriesTls(s)
      /\ LET names == {c.name : c \in run.secrets}
         IN  names \subseteq runtimeChildEnv(composeRuntimePolicy(inputs), names)

\* What a target compiles is whole: the resolver its destinations name and
\* the database are themselves destinations it accepts, over the transport
\* they need; no host stays the host's own loopback unless the target put it
\* there; two mounts never share a name, and each holds the host directory
\* the policy names, writable exactly where Landlock lets it be written; an
\* assurance is weaker than asked only when target and job both said so.
CompiledWhole ==
    output.stage = "done" =>
      LET o == output.out
      IN  /\ \A e \in o.accept : \A r \in e.dns : \E d \in o.accept :
               d.to = r /\ d.protocol = "udp" /\ d.role = "dns"
          /\ \A d \in o.dolt : \E e \in o.accept :
               e.to = d /\ e.protocol = "tcp" /\ e.role = "dolt"
          /\ \A e \in o.accept : isLoopbackHost(e.to.host) =>
               \E i \in DOMAIN target.services : target.services[i].to = e.to
          /\ \A i, j \in DOMAIN o.mounts : o.mounts[i].at = o.mounts[j].at => i = j
          /\ \A i \in DOMAIN o.mounts :
               /\ o.mounts[i].at # o.scratch
               /\ o.mounts[i].readOnly <=> o.mounts[i].at \notin o.landlock["write"]
               /\ target.platform = "kubernetes" =>
                    \E v \in target.volumes : /\ v.claim = o.mounts[i].claim
                                              /\ v.source \o o.mounts[i].subPath = session.roots[i].source
          /\ \A e \in o.accept : e.enforced # e.assurance =>
               target.tlsByAddressSet /\ e.entry \in target.accepts /\ e.assurance = "tls"
=============================================================================
