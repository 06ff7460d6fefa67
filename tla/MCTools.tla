------------------------------- MODULE MCTools -------------------------------
(* Tool calls for TLC: policy, grants and containment, the bounded process  *)
(* a command runs in, and publishing.  A behaviour is of one part, named by *)
(* `part`; the others rest in an initial state.                             *)
(* Publishing has two parts: two tickets of a worktree that stays as it is  *)
(* and one call, or one ticket, two calls and a worktree that is moved.     *)
EXTENDS ToolCall, BoundedProcess, PublishTickets, TLC

CONSTANTS c1, c2, s1, s2, a1, a2, d1, d2, shell, kid, grandkid

\* A worktree at one of two commits, on a detached head, or made
\* untrustworthy by a sandboxed command.
Sound == [top |-> TRUE, shape |-> "linked", inPlace |-> TRUE, pointsBack |-> TRUE,
          configWritable |-> FALSE, gitDirDenied |-> TRUE, includes |-> FALSE,
          worktreeConfig |-> FALSE, ref |-> "branch", head |-> "a"]
Tampered == {Sound, [Sound EXCEPT !.head = "b"], [Sound EXCEPT !.ref = "none"],
             [Sound EXCEPT !.pointsBack = FALSE], [Sound EXCEPT !.shape = "main"],
             [Sound EXCEPT !.worktreeConfig = TRUE]}

-----------------------------------------------------------------------------
VARIABLE part

Envelope == INSTANCE ToolCall WITH
    Calls <- {c1}, Sessions <- {s1}, Args <- {a1}, Policies <- {d1, d2},
    CommandIds <- {"bash"}, Routes <- {"contained"}, Levels <- {"strict"},
    Attended <- {TRUE}, MaxPairs <- 2, MaxTracked <- 1, MaxGrants <- 1,
    MaxEdits <- 2
Grants == INSTANCE ToolCall WITH
    Calls <- {c1, c2}, Sessions <- {s1, s2}, Args <- {a1, a2},
    Policies <- {d1, d2}, CommandIds <- {"bash"},
    Routes <- {"contained", "native"}, Levels <- {"strict"},
    Attended <- {TRUE}, MaxPairs <- 1, MaxTracked <- 1, MaxGrants <- 1,
    MaxEdits <- 0

SuiteInit ==
    /\ part \in {"routes", "attest", "grants", "bounded", "publish", "push"}
    /\ IF part = "routes" THEN ToolInit ELSE IF part = "attest" THEN Envelope!ToolInit ELSE Grants!ToolInit
    /\ BoundedInit /\ PublishInit
    /\ part \notin {"routes", "attest", "grants"} => route = "native"
    /\ part # "bounded" => stubborn = {} /\ stuck = {}
    /\ grandkid \in stubborn => kid \in stubborn \* the two are alike
    /\ Cardinality(stuck) <= 1
    /\ part # "push" => worktree = Sound

SuiteNext ==
    /\ UNCHANGED part
    /\ \/ /\ part = "routes" /\ ToolNext
          /\ UNCHANGED <<boundedVars, publishVars>>
       \/ /\ part = "attest" /\ Envelope!ToolNext
          /\ UNCHANGED <<boundedVars, publishVars>>
       \/ /\ part = "grants" /\ Grants!ToolNext
          /\ UNCHANGED <<boundedVars, publishVars>>
       \/ /\ part = "bounded" /\ BoundedNext
          /\ UNCHANGED <<toolVars, publishVars>>
       \/ /\ part = "publish" /\ PublishNext
          /\ worktree' = Sound /\ pushCall'[c2] = NoCall
          /\ UNCHANGED <<toolVars, boundedVars>>
       \/ /\ part = "push" /\ PublishNext /\ made' <= 1
          /\ UNCHANGED <<toolVars, boundedVars>>

SuiteVars == <<part, toolVars, boundedVars, publishVars>>
SuiteSpec == SuiteInit /\ [][SuiteNext]_SuiteVars
=============================================================================
