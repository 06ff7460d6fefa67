----------------------------- MODULE MCContracts -----------------------------
(* The rules of the first-product workbench contract for TLC: a task's      *)
(* history, its authority, its log, its labels and its route.  A behaviour  *)
(* is of one part, named by `part`; the others rest in an initial state.    *)
EXTENDS WorkbenchTasks, WorkbenchAuthority, WorkbenchExposure

VARIABLE part

\* Three labels, ordered by what each confines: nothing, a private and tagged
\* item, and such an item with weaker integrity.
Label(t, s, v, i) ==
    [tags |-> t, sensitivity |-> s, visibility |-> v, integrity |-> i]
MCLabels == {Label({}, 0, 1, 1), Label({"s"}, 1, 0, 1), Label({"s"}, 1, 0, 0)}

SuiteInit ==
    /\ part \in {"tasks", "grants", "log", "labels", "routes"}
    /\ Init /\ (part # "tasks" => envelope)
    /\ GrantsInit /\ LogInit /\ LabelsInit /\ RoutesInit
    /\ part # "routes" =>
         /\ session = [route |-> "a", serves |-> TRUE, continuity |-> "new",
                       evidence |-> {"fresh-session-established"}]
         /\ report.route = "a" /\ report.required = {}
         /\ report.caps = [c \in {"stream"} |-> "observable"]

SuiteNext ==
    /\ UNCHANGED part
    /\ \/ part = "tasks" /\ Next /\ UNCHANGED <<gvars, log, items, rvars>>
       \/ part = "grants" /\ GrantsNext /\ UNCHANGED <<vars, log, items, rvars>>
       \/ part = "log" /\ LogNext /\ UNCHANGED <<vars, gvars, items, rvars>>
       \/ part = "labels" /\ LabelsNext /\ UNCHANGED <<vars, gvars, log, rvars>>
       \/ part = "routes" /\ RoutesNext /\ UNCHANGED <<vars, gvars, log, items>>

SuiteVars == <<part, vars, gvars, log, items, rvars>>
SuiteSpec == SuiteInit /\ [][SuiteNext]_SuiteVars
=============================================================================
