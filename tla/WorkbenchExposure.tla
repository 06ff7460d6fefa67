------------------------- MODULE WorkbenchExposure --------------------------
(* The label and route rules of contracts/workbench/first-product/v1/       *)
(* semantic-rules.ts, in two machines.  Artifacts, events, context packets, *)
(* projections and receipts are drawn from one another, each with its own   *)
(* labels: every rule compares a thing with what it was drawn from          *)
(* directly; the properties are about everything it was drawn from in the   *)
(* end.                                                                     *)
EXTENDS Naturals, Sequences, FiniteSets, FiniteSetsExt

CONSTANTS MaxItems,     \* things in a corpus
          Labels        \* [tags, sensitivity, visibility, integrity], as ranks

ASSUME LabelsRanked ==
    \A l \in Labels : l.sensitivity \in Nat /\ l.visibility \in Nat /\ l.integrity \in Nat

VARIABLE items  \* [kind, labels, from, verified, cleared, field]: from: the
                \* positions it is drawn from, each an earlier one

LabelsInit == items = <<>>

-----------------------------------------------------------------------------
(* Labels. SENSITIVITY_RANK, VISIBILITY_RANK and INTEGRITY_RANK are the      *)
(* numbers themselves.                                                      *)

\* The labels of several sources together.
labelsOf(ls) ==
    [tags |-> UNION {l.tags : l \in ls},
     sensitivity |-> Max({l.sensitivity : l \in ls}),
     visibility |-> Min({l.visibility : l \in ls}),
     integrity |-> Min({l.integrity : l \in ls})]

Stricter(derived, source) ==
    /\ source.tags \subseteq derived.tags
    /\ derived.sensitivity >= source.sensitivity
    /\ derived.visibility <= source.visibility
    /\ derived.integrity <= source.integrity
IntegrityIgnored(derived, source) ==
    /\ source.tags \subseteq derived.tags
    /\ derived.sensitivity >= source.sensitivity
    /\ derived.visibility <= source.visibility
Preserves(derived, source) == Stricter(derived, source)

-----------------------------------------------------------------------------
(* checkLabels.                                                            *)

Sources(i) == {items[j].labels : j \in i.from}

\* A packet's labels are those of its entries; here they are given directly,
\* no weaker than any entry's. An event, a receipt and an artifact's reference
\* follow the same rule.
PreservedAll(i) == i.from # {} => Preserves(i.labels, labelsOf(Sources(i)))

\* A derived artifact may stand higher in integrity than its sources if
\* somebody other than its producer verified it.
PreservedDerived(i) ==
    i.from # {} =>
      LET all == labelsOf(Sources(i))
      IN  Preserves(i.labels,
            IF i.verified THEN [all EXCEPT !.integrity = i.labels.integrity]
            ELSE all)

\* A projection is of something, and its consumer is cleared for it.
Cleared(i) ==
    /\ i.labels.tags \subseteq i.cleared.tags
    /\ i.cleared.sensitivity >= i.labels.sensitivity
    /\ i.cleared.visibility <= i.labels.visibility
Projected(i) == i.from # {} /\ PreservedAll(i) /\ Cleared(i)

\* checkPayload: of a field, its tags and whether its bytes are inline.
FieldKept(i) ==
    /\ i.field.tags \subseteq i.labels.tags
    /\ i.field.tags \cup i.labels.tags # {} => ~i.field.inline
NoField == [tags |-> {}, inline |-> FALSE]

LabelsAdmitted ==
    \A n \in DOMAIN items :
      LET i == items[n]
      IN  /\ i.kind = "artifact" => PreservedDerived(i)
          /\ i.kind \in {"event", "packet", "receipt"} => PreservedAll(i)
          /\ i.kind = "projection" => Projected(i)
          /\ FieldKept(i)

-----------------------------------------------------------------------------
(* The writer. What is drawn from what: the references a kind may have.     *)

MayDrawFrom(k) ==
    CASE k = "artifact" -> {"artifact", "packet", "event"}
      [] k = "packet" -> {"artifact", "event", "packet"}
      [] k = "event" -> {"artifact", "packet"}
      [] k = "projection" -> {"packet", "event"}
      [] k = "receipt" -> {"artifact", "packet", "projection"}

Draw(k, field, verified, cleared) ==
    /\ Len(items) < MaxItems
    /\ LabelsAdmitted
    /\ \E from \in SUBSET {j \in DOMAIN items : items[j].kind \in MayDrawFrom(k)},
          l \in Labels :
         /\ Cardinality(from) <= 2
         /\ from = {} => ~verified /\ k \in {"artifact", "event", "projection"}
         /\ items' = Append(items, [kind |-> k, labels |-> l, from |-> from,
                                    verified |-> verified, cleared |-> cleared,
                                    field |-> field])

\* Only an artifact can be verified, and only a projection has a consumer.
NoClearance == CHOOSE l \in Labels : TRUE
DrawArtifact == \E v \in BOOLEAN : Draw("artifact", NoField, v, NoClearance)
DrawPacket == Draw("packet", NoField, FALSE, NoClearance)
Project == \E c \in Labels : Draw("projection", NoField, FALSE, c)
\* Events and receipts carry payload fields.
Fields == {NoField, [tags |-> {}, inline |-> TRUE],
           [tags |-> {"s"}, inline |-> FALSE]}
DrawEvent == \E f \in Fields : Draw("event", f, FALSE, NoClearance)
DrawReceipt == \E f \in Fields : Draw("receipt", f, FALSE, NoClearance)

LabelsNext == DrawArtifact \/ DrawPacket \/ DrawEvent \/ Project \/ DrawReceipt
LabelsSpec == LabelsInit /\ [][LabelsNext]_items

-----------------------------------------------------------------------------
(* Properties.                                                             *)

\* All a thing was drawn from, at any remove: the least set that holds what it
\* was drawn from and what its members were.
Ancestors(i) ==
    {m \in DOMAIN items : \A S \in SUBSET DOMAIN items :
        items[i].from \subseteq S /\ (\A j \in S : items[j].from \subseteq S) => m \in S}

\* A consumer never sees, through however many summaries, packets and events,
\* what it is not cleared for; and secrecy tags, sensitivity and visibility
\* are never weaker than at any origin.
SecrecyCarried ==
    \A n \in DOMAIN items : \A m \in Ancestors(n) :
      LET seen == IF items[n].kind = "projection" THEN items[n].cleared
                  ELSE items[n].labels
      IN  /\ items[m].labels.tags \subseteq seen.tags
          /\ seen.sensitivity >= items[m].labels.sensitivity
          /\ seen.visibility <= items[m].labels.visibility

\* What stands higher in integrity than something it was drawn from owes it to
\* a verified artifact between the two.
IntegrityEarned ==
    \A n \in DOMAIN items : \A m \in Ancestors(n) :
      items[n].labels.integrity > items[m].labels.integrity =>
        \E v \in Ancestors(n) \cup {n} : items[v].verified /\ m \in Ancestors(v)

\* Bytes stand inline only in what was drawn from nothing secret at any remove.
InlineIsPublic ==
    \A n \in DOMAIN items : items[n].field.inline =>
      \A m \in Ancestors(n) \cup {n} :
        items[m].labels.tags = {} /\ items[m].field.tags = {}

LabelsHold ==
    LabelsAdmitted => SecrecyCarried /\ IntegrityEarned /\ InlineIsPublic

-----------------------------------------------------------------------------
(* One route session of one run, phase by phase, with the capability report *)
(* its preparation reads, the run's own state and the continuity it claims. *)
(* Routes are "a", the task's, and "b".                                     *)

CONSTANTS MaxPhases

VARIABLES
    phases,     \* [phase, seq, outcome, spends, report]
    session,    \* [route, serves, continuity, evidence]
    run,        \* [route, session, state, started]
    report      \* [route, required, caps]: capability -> classification

rvars == <<phases, session, run, report>>

\* Capabilities are "stream" and "memory"; the latter is a recorded deferral.
deferred == {"memory"}
TaskRequires == {"stream"}              \* the task envelope's requirement

\* The capability reports a preparation can read.
Reports == [route : {"a", "b"}, required : {{}, {"stream"}, {"memory"}},
            caps : UNION {[S -> {"observable", "unavailable"}] :
                            S \in {{"stream"}, {"memory"}}}]

RoutesInit ==
    /\ phases = <<>>
    /\ session \in [route : {"a", "b"}, serves : BOOLEAN,
                    continuity : {"new", "warm-reused"},
                    evidence : SUBSET {"fresh-session-established",
                                       "warm-process-handle"}]
    /\ run = [route |-> "a", session |-> TRUE, state |-> "run:pending",
              started |-> FALSE]
    /\ report \in Reports
    \* At most one of the session's facts is out of the ordinary.
    /\ Cardinality({x \in {1, 2, 3, 4} :
         \/ x = 1 /\ session.route # "a"
         \/ x = 2 /\ ~session.serves
         \/ x = 3 /\ report.route # "a"
         \/ x = 4 /\ session.evidence # {"fresh-session-established"}}) <= 1

-----------------------------------------------------------------------------
(* checkRouteControl: the order of the phases.                             *)

ALLOWED_PHASE_EDGES == {<<"inspect", "prepare">>,
    <<"prepare", "start-or-resume">>, <<"prepare", "finalize">>,
    <<"start-or-resume", "stream">>, <<"start-or-resume", "control">>,
    <<"start-or-resume", "finalize">>, <<"stream", "stream">>,
    <<"stream", "control">>, <<"stream", "finalize">>, <<"control", "stream">>,
    <<"control", "control">>, <<"control", "finalize">>}

PhaseOrder ==
    /\ \A i \in 2..Len(phases) :
         /\ phases[i - 1].seq < phases[i].seq
         /\ <<phases[i - 1].phase, phases[i].phase>> \in ALLOWED_PHASE_EDGES
    /\ phases # <<>> => phases[1].phase = "inspect"

Has(p) == \E i \in DOMAIN phases : phases[i].phase = p
Spending == {i \in DOMAIN phases : phases[i].spends}

TERMINAL_RUN_STATES == {"run:completed", "run:interrupted", "run:failed",
                        "run:superseded", "run:abandoned"}

\* What the run's state claims of its session.
RunEvidenced ==
    /\ Len(phases) = 1 /\ Has("inspect") => run.state = "run:pending"
    /\ run.state # "run:pending" => Has("start-or-resume")
    /\ run.state \in TERMINAL_RUN_STATES =>
         \/ Has("finalize")
         \/ /\ run.state = "run:interrupted"
            /\ \E i \in DOMAIN phases :
                 phases[i].phase = "control" /\ phases[i].outcome = "halted"

-----------------------------------------------------------------------------
(* checkRouteControl: binding, preparation and spend.                      *)

\* The preparation is the session's first prepare phase, and only the report
\* it read counts.
Prepares == {i \in DOMAIN phases : phases[i].phase = "prepare"}
Prepare == CHOOSE i \in Prepares : \A j \in Prepares : i <= j
ReadsReport == Prepares # {} /\ phases[Prepare].report

Bound ==
    /\ run.route = session.route /\ session.serves /\ run.session
    /\ ReadsReport => report.route = session.route

Unavailable ==
    \E c \in report.required \cap DOMAIN report.caps :
      report.caps[c] = "unavailable"

CONTINUITY_EVIDENCE == [new |-> {"fresh-session-established"},
                        warm |-> {"warm-process-handle", "prior-run"}]
Continuous ==
    (IF session.continuity = "new" THEN CONTINUITY_EVIDENCE.new
     ELSE CONTINUITY_EVIDENCE.warm) \subseteq session.evidence

SpendAccepted ==
    \A i \in Spending :
      /\ phases[i].phase \notin {"inspect", "prepare"}
      /\ Prepares # {}
      /\ phases[Prepare].outcome = "accepted"
      /\ phases[Prepare].seq < phases[i].seq
SpendAnyOutcome ==
    \A i \in Spending :
      phases[i].phase \notin {"inspect", "prepare"} /\ Prepares # {}
SpendPrepared == SpendAccepted

SpendStarted ==
    /\ Spending # {} => run.started
    /\ Spending # {} /\ Prepares # {} => phases[Prepare].report

Rejected ==
    ReadsReport /\ Unavailable =>
      phases[Prepare].outcome = "rejected" /\ Spending = {}

\* checkRunBinding: what the task's envelope requires is in that report.
Capable ==
    ReadsReport => \A c \in TaskRequires :
      c \in DOMAIN report.caps /\ report.caps[c] # "unavailable"

\* checkDeferrals: nothing deferred is required.
NothingDeferred == report.required \cap deferred \cap DOMAIN report.caps = {}

RoutesAdmitted ==
    /\ PhaseOrder /\ RunEvidenced /\ Bound /\ Continuous
    /\ SpendPrepared /\ SpendStarted /\ Rejected
    /\ Capable /\ NothingDeferred

-----------------------------------------------------------------------------
(* The writer.                                                             *)

Outcomes(p) ==
    CASE p = "prepare" -> {"accepted", "rejected"}
      [] p = "control" -> {"completed", "halted"}
      [] OTHER -> {"completed"}

Enter ==
    /\ Len(phases) < MaxPhases
    /\ PhaseOrder
    /\ \E p \in {"inspect", "prepare", "start-or-resume", "stream", "control",
                 "finalize"}, spends \in BOOLEAN, early \in BOOLEAN :
         \E o \in Outcomes(p), reads \in BOOLEAN :
           /\ reads => p = "prepare"
           /\ early => ~spends /\ phases # <<>>
           /\ spends => Spending = {}
           /\ phases' = Append(phases,
                [phase |-> p, outcome |-> o, spends |-> spends, report |-> reads,
                 seq |-> IF early THEN Len(phases) ELSE Len(phases) + 1])
    /\ UNCHANGED <<session, run, report>>

\* The run's own history: it starts, and ends.
Advance ==
    /\ \/ /\ run.state = "run:pending"
          /\ run' = [run EXCEPT !.state = "run:running", !.started = TRUE]
       \/ /\ run.state = "run:running"
          /\ \E s \in {"run:completed", "run:interrupted"} :
               run' = [run EXCEPT !.state = s]
    /\ UNCHANGED <<phases, session, report>>

RoutesNext == Enter \/ Advance
RoutesSpec == RoutesInit /\ [][RoutesNext]_rvars

-----------------------------------------------------------------------------
(* Properties.                                                             *)

\* Money or action in an admitted session comes after an inspection and one
\* preparation, which accepted the run's own route on a report that offers all
\* that the task requires, none of it deferred or unavailable; it is over when
\* the session is finalized, and the run it serves had started.
SpendEarned ==
    \A i \in Spending :
      \E j, k \in 1..(i - 1) :
        /\ j < k /\ phases[j].phase = "inspect" /\ phases[k].phase = "prepare"
        /\ phases[k].outcome = "accepted" /\ phases[k].report
        /\ report.route = run.route
        /\ \A c \in TaskRequires \cup (report.required \cap DOMAIN report.caps) :
             c \notin deferred /\ c \in DOMAIN report.caps
             /\ report.caps[c] # "unavailable"
        /\ \A l \in DOMAIN phases : phases[l].phase = "finalize" => l >= i
        /\ run.started

\* A run that ended is the run of a session that was entered and left again:
\* finalized at its last phase, or halted.
EndsAreSeen ==
    run.state \in TERMINAL_RUN_STATES =>
      \/ phases[Len(phases)].phase = "finalize"
      \/ run.state = "run:interrupted"
         /\ \E i \in DOMAIN phases : phases[i].outcome = "halted"

RoutesHold == RoutesAdmitted => SpendEarned /\ EndsAreSeen

\* checkLabelPreservation and checkRouteControl: through any chain of
\* derivations an admitted corpus lets out nothing more openly than its
\* origin, but by clearance; in an admitted session a spend was earned by
\* inspection and preparation, and a run that ended was seen to end.
ExposureKept == LabelsHold /\ RoutesHold
=============================================================================
