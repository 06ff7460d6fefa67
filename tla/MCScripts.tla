------------------------------ MODULE MCScripts ------------------------------
(* The scripts for TLC: the test gate, the development supervisor and the   *)
(* scratch runtime.  A behaviour is of one part, named by `part`; the       *)
(* others rest in an initial state.                                         *)
EXTENDS Naturals, TLC

\* Two runs of the gate's unit suite, whose commands may not start or pass; and
\* one run with several lanes.
MCFast == "g" :> {"fast"} @@ "h" :> {"fast"}
MCPlans == "g" :> {"full", "docs-only"} @@ "h" :> {}

\* Saved files: of the server, of the wire both sides share, of the REPL's
\* crates, and the lock file.
File(tree, ts, wire, reachable, crate, lock) ==
    [tree |-> tree, noise |-> FALSE, target |-> FALSE, workspace |-> FALSE,
     replCrate |-> crate, excluded |-> FALSE, ts |-> ts, wire |-> wire,
     reachable |-> reachable, lock |-> lock]
MCPaths == {File("src", TRUE, FALSE, TRUE, FALSE, FALSE),
            File("src", TRUE, TRUE, FALSE, FALSE, FALSE),
            File("core", FALSE, FALSE, FALSE, TRUE, FALSE),
            File("root", FALSE, FALSE, FALSE, FALSE, TRUE)}

VARIABLES
    part,
    gate, group, lead, exit, records, reused, strays,
    work, sup, proc, repl, snap, past,
    up, child, held, stop, disk, tries, down

gateVars == <<gate, group, lead, exit, records, reused, strays>>
devVars == <<work, sup, proc, repl, snap, past>>
scratchVars == <<up, child, held, stop, disk, tries, down>>

Gate == INSTANCE GateLanes WITH
    Gates <- {"g", "h"}, Plans <- MCFast, Faulty <- {"unit"}
Planned == INSTANCE GateLanes WITH
    Gates <- {"g", "h"}, Plans <- MCPlans, Faulty <- {"unit"}
Dev == INSTANCE DevLoop WITH
    Paths <- MCPaths, Metadata <- TRUE, MaxSaves <- 2, MaxCommands <- 1
Scratch == INSTANCE ScratchRuntime WITH MaxBinds <- 2

SuiteInit ==
    /\ part \in {"gate", "plan", "dev", "scratch"}
    /\ Gate!Init
    /\ Dev!Init
    /\ Scratch!Init
    /\ part # "dev" => snap.st = "none"

SuiteNext ==
    /\ UNCHANGED part
    /\ \/ part = "gate" /\ Gate!Next /\ UNCHANGED <<devVars, scratchVars>>
       \/ part = "plan" /\ Planned!Next /\ UNCHANGED <<devVars, scratchVars>>
       \/ part = "dev" /\ Dev!Next /\ UNCHANGED <<gateVars, scratchVars>>
       \/ part = "scratch" /\ Scratch!Next /\ UNCHANGED <<gateVars, devVars>>

SuiteVars == <<part, gateVars, devVars, scratchVars>>
SuiteSpec == SuiteInit /\ [][SuiteNext]_SuiteVars

-----------------------------------------------------------------------------
(* Properties.                                                             *)

\* scripts/: a gate that exits 0 had every required lane pass, leaves no process
\* of a lane behind, and signals no group that was another's when it last looked
\* (an id taken between that look and the signal it does signal); the last good
\* code a development supervisor falls back to is whole and was seen to answer,
\* what rests is what was saved, and nothing it started outlives it; a scratch
\* runtime that ends by itself leaves no process and reports its teardown
\* complete only when it is.
ScriptsKept ==
    /\ part \in {"gate", "plan"} =>
         Gate!ZeroMeansPassed /\ Gate!NothingLeft /\ Gate!OthersSpared
    /\ part = "dev" => Dev!DevHolds
    /\ part = "scratch" => Scratch!ScratchHolds
=============================================================================
