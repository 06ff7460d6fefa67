---------------------------- MODULE MCFoundation ----------------------------
(* What every turn stands on, for TLC: the spend limits, the effective      *)
(* policy a job starts under and the extensions.  A behaviour is of one     *)
(* part, named by `part`; the others rest in an initial state.              *)
EXTENDS SpendGate, Sequences, TLC

CONSTANTS t1, t2, t3, s1, s2

-----------------------------------------------------------------------------
(* Spend: two turns of one session, whose limits the operator changes in    *)
(* between, and a turn of another session beside them.                      *)

MCLimits(daily, session, turn, stall, call) ==
    [scope \in Scopes |->
        CASE scope = "daily_limit" -> daily
          [] scope = "session_limit" -> session
          [] scope = "turn_limit" -> turn
          [] scope = "runaway_stall" -> stall
          [] scope = "per_call_limit" -> call]

MCSessionOf == [t \in {t1, t2, t3} |-> IF t = t3 THEN s2 ELSE s1]
MCLimit == [t \in {t1, t2, t3} |->
               IF t = t1 THEN MCLimits(3, 1, 2, 2, 2)
               ELSE IF t = t2 THEN MCLimits(3, 2, 3, 2, 1)
               ELSE MCLimits(3, 9, 3, 9, 2)]
MCMaxCalls == [t \in {t1, t2, t3} |-> IF t = t3 THEN 2 ELSE 1]

-----------------------------------------------------------------------------
(* Policy: launch inputs that name one host under several roles, a job with *)
(* nested roots, the values a session may put in each field, and targets    *)
(* that lack a capability each.                                             *)

At(h, p) == [host |-> h, port |-> p]
NS == At("10.0.0.1", 53)
NS2 == At("10.0.0.2", 53)
Db == At("127.0.0.1", 3306)
Mcp == At("mcp", 443)

MCSessionInputs ==
    {[memory |-> <<>>, servers |-> <<>>, allow |-> <<Mcp>>, nameservers |-> <<NS>>,
      dolt |-> <<Db>>, nodePath |-> <<>>, resolver |-> <<>>, inheritEnv |-> <<>>]}
MCInputs ==
    MCSessionInputs \cup
    {[memory |-> m, servers |-> s, allow |-> a, nameservers |-> n, dolt |-> d,
      nodePath |-> <<"node">>, resolver |-> r, inheritEnv |-> e] :
       m \in {<<>>, <<[entry |-> Mcp, tls |-> TRUE]>>},
       s \in {<<>>, <<[entry |-> Mcp, tls |-> FALSE], [entry |-> Mcp, tls |-> TRUE]>>},
       a \in {<<>>, <<Mcp, NS>>, <<At("provider", 443)>>},
       n \in {<<>>, <<NS2, NS>>, <<NS>>},
       d \in {<<>>, <<At("127.0.0.1", 8080)>>, <<NS>>},
       r \in {<<>>, <<"git">>, <<"op">>},
       e \in {<<>>, <<"API_KEY", "HELPER">>}}

Root(s, t, r) == [source |-> s, target |-> t, rights |-> r]
MCJob ==
    [who |-> "job", repos |-> {"repo"}, expires |-> 5,
     roots |-> <<Root(<<"w">>, "work", {"read", "write"}),
                 Root(<<"w", "a">>, "tools", {"read", "execute"})>>,
     scratch |-> "tmp", forbidden |-> {<<"w", "a", "b">>}, tools |-> {"bash"},
     posture |-> "strict", paid |-> FALSE,
     limits |-> [steps |-> 3, spend |-> -1]]

Reach(role, at, protocol, dns) ==
    [role |-> role, host |-> at.host, port |-> at.port, protocol |-> protocol,
     dns |-> dns, assurance |-> "none"]
MCChanges ==
    [who |-> {"other"}, repos |-> {{}, {"repo", "r2"}}, expires |-> {4, 6},
     roots |-> {<<>>, <<Root(<<"w", "a">>, "work", {"read", "write"})>>,
                <<Root(<<"w", "a">>, "work", {"read", "execute"})>>,
                <<Root(<<"w">>, "tools", {"read"})>>,
                <<Root(<<"w", "..">>, "work", {"read"})>>,
                <<Root(<<"w">>, "work", {"read"}), Root(<<"w", "a">>, "work", {"read"})>>,
                <<Root(<<"w">>, "tmp", {"read"})>>},
     scratch |-> {"", "tools"}, forbidden |-> {{}, {<<"w", "a", "b">>, <<"x">>}},
     net |-> {<<>>, <<Reach("dns", At("10.0.0.1", 0), "udp", {})>>,
              <<Reach("dolt", Db, "tcp", {})>>,
              <<Reach("operator", Mcp, "tcp", {NS})>>,
              <<Reach("operator", At("mcp", 444), "tcp", {})>>},
     dolt |-> {{}, {At("127.0.0.1", 8080)}},
     execs |-> {<<>>, <<[program |-> "git", role |-> "tool", digest |-> "d1"]>>,
                <<[program |-> "git", role |-> "runner", digest |-> ""]>>},
     descendants |-> {FALSE}, maxProcesses |-> {0, 4}, syscall |-> {"p1"},
     env |-> {<<>>, <<"PATH", "LD">>},
     secrets |-> {{}, {[name |-> "API_KEY", owner |-> "dolt"]}},
     tools |-> {{}, {"bash", "web"}}, posture |-> {"operator"}, paid |-> {TRUE},
     limits |-> {[steps |-> 2, spend |-> 1], [steps |-> -1, spend |-> -1],
                 [steps |-> 4, spend |-> 0]}]

Svc(e, to) == [entry |-> e, to |-> to]
Target(platform) ==
    [platform |-> platform, rights |-> {"read", "write", "execute"},
     protocols |-> {"tcp", "udp"}, assurances |-> {"none", "tls"},
     resolves |-> TRUE, byDigest |-> TRUE, requireDigest |-> FALSE,
     processLimit |-> TRUE, forbidDescendants |-> TRUE, syscalls |-> {"p1"},
     requireSyscall |-> FALSE, tlsByAddressSet |-> FALSE, accepts |-> {},
     services |-> <<Svc(Db, At("db", 3306)), Svc(At("127.0.0.1", 8080), At("127.0.0.1", 9)),
                    Svc(NS, NS2)>>,
     volumes |-> {[source |-> <<>>, claim |-> "host"], [source |-> <<"w", "a">>, claim |-> "a"]}]
MCTargets ==
    {Target("linux"), Target("kubernetes"),
     [Target("linux") EXCEPT !.assurances = {"none"}, !.tlsByAddressSet = TRUE,
                             !.accepts = {At("provider", 443)}],
     [Target("linux") EXCEPT !.services = <<Svc(At("127.0.0.1", 8080), At("127.0.0.1", 9))>>],
     [Target("linux") EXCEPT !.services = Append(@, Svc(NS, At("db", 53)))],
     [Target("kubernetes") EXCEPT !.volumes = {[source |-> <<"w", "a">>, claim |-> "a"]},
                                  !.rights = {"read", "write"}]}

-----------------------------------------------------------------------------
(* Friction: an issue that is empty, or has more comments than two pages    *)
(* hold, the highest number first.                                          *)

Comment(f, e) == [f |-> f, e |-> e, by |-> 0, late |-> FALSE]
MCIssues == {<<>>, <<Comment(3, 0), Comment(1, 1), Comment(2, 0)>>}

-----------------------------------------------------------------------------
VARIABLES
    part,
    inputs, run, session, edits, verdict, target, output,
    ideas, packets, ideaLists, packetLists, ideaOwners, packetOwners, events,
    requests, ids, supplied, issue, flight, queue, posts

policyVars == <<inputs, run, session, edits, verdict, target, output>>
ideaVars == <<ideas, packets, ideaLists, packetLists, ideaOwners,
              packetOwners, events, requests, ids, supplied>>
frictionVars == <<issue, flight, queue, posts>>
extensionVars == <<ideaVars, frictionVars>>

Policy == INSTANCE EffectivePolicy WITH
    Inputs <- MCInputs, Job <- MCJob, Changes <- MCChanges,
    SessionInputs <- MCSessionInputs, MaxEdits <- 2, Targets <- MCTargets,
    Loopback <- {"127.0.0.1", "127.1"},
    AddressLiterals <- {"127.0.0.1", "10.0.0.1", "10.0.0.2"},
    CanonicalHosts <- {"127.0.0.1", "10.0.0.1", "10.0.0.2", "mcp", "provider", "db"},
    ByteOrder <- <<NS, NS2>>, MountNames <- {"work", "tools", "tmp", "Big"},
    VolumeNames <- {"work", "tools", "tmp"}, MaxPort <- 9000
Ext == INSTANCE Extensions WITH
    Sessions <- {1, 2}, Clients <- {"c"}, MaxSessions <- 1, MaxEntries <- 1,
    MaxTombstones <- 2, MaxIds <- 3, MaxSupplied <- 1, Posters <- {1, 2, 3},
    Issues <- MCIssues, PageSize <- 2, MaxPages <- 2

SuiteInit ==
    /\ part \in {"spend", "policy", "ideas", "friction"}
    /\ Init
    /\ Policy!Init
    /\ Ext!Init
    /\ part # "friction" => issue = <<>>

SuiteNext ==
    /\ UNCHANGED part
    /\ \/ part = "spend" /\ Next /\ UNCHANGED <<policyVars, extensionVars>>
       \/ part = "policy" /\ Policy!Next /\ UNCHANGED <<vars, extensionVars>>
       \/ /\ part = "ideas" /\ Ext!RegistryNext
          /\ UNCHANGED <<vars, policyVars, frictionVars>>
       \/ /\ part = "friction" /\ Ext!FrictionNext
          /\ UNCHANGED <<vars, policyVars, ideaVars>>

SuiteVars == <<part, vars, policyVars, extensionVars>>
SuiteSpec == SuiteInit /\ [][SuiteNext]_SuiteVars

-----------------------------------------------------------------------------
(* Properties.                                                             *)

\* config/effective-policy*.ts: an accepted session policy allows nothing its
\* run did not, the composed policy grants each host by what every seam says
\* of it, and what a target compiles enforces the whole of it or is refused.
PolicyKept ==
    part = "policy" =>
        /\ Policy!WidensNothing /\ Policy!ComposedAsSeamsRead
        /\ Policy!ComposedConsistent /\ Policy!CompiledWhole

\* extensions/ideas and extensions/friction: whatever is evicted, a packet's
\* idea is there to be cited, and nobody is shown another session's; whatever
\* posts at once and however many pages there are, no two friction comments
\* get one number unless a write landed late.
ExtensionsKept ==
    /\ part = "ideas" => Ext!RegistryHolds
    /\ part = "friction" => Ext!NumbersHold
=============================================================================
