--------------------------- MODULE WorkbenchTasks ---------------------------
(* The lifecycle rules of contracts/workbench/first-product/v1/             *)
(* semantic-rules.ts. A corpus is a record of finished work: one task, one  *)
(* run of it, the events that moved them and a receipt. Its writer (not     *)
(* part of the package) records what it likes, truthfully or not; the rules *)
(* only look at the finished corpus, each at one event, one entity or one   *)
(* receipt. The properties say what an admitted corpus as a whole cannot    *)
(* claim. Ids are positions, and an event's sequence need not follow the    *)
(* order in which the events are listed.                                    *)
EXTENDS Naturals, Sequences, FiniteSets

CONSTANT MaxEvents          \* events a corpus may hold

\* The history every corpus starts with has three.
ASSUME EventsAssumption == MaxEvents \in Nat /\ MaxEvents >= 3

VARIABLES
    events,     \* listed order: [seq, family, author, source, task, parent, basis, st]
    entity,     \* "task", "run" -> [state, revision, transitions]
    envelope,   \* the task's envelope is approved
    receipt     \* NoReceipt, or the receipt committed by one of the events

vars == <<events, entity, envelope, receipt>>

-----------------------------------------------------------------------------
(* The vocabulary.                                                         *)

TASK_STATES == {"task:proposed", "task:ready", "task:running",
    "task:waiting", "task:blocked", "task:completed", "task:accepted",
    "task:closed", "task:interrupted", "task:failed", "task:rejected",
    "task:superseded", "task:abandoned"}
RUN_STATES == {"run:pending", "run:running", "run:completed",
    "run:interrupted", "run:failed", "run:superseded", "run:abandoned"}

REQUIRED_TASK_EDGES == {
    <<"task:proposed", "task:ready">>, <<"task:ready", "task:running">>,
    <<"task:running", "task:waiting">>, <<"task:running", "task:blocked">>,
    <<"task:running", "task:completed">>, <<"task:waiting", "task:running">>,
    <<"task:waiting", "task:ready">>, <<"task:blocked", "task:running">>,
    <<"task:blocked", "task:ready">>, <<"task:completed", "task:accepted">>,
    <<"task:accepted", "task:closed">>, <<"task:running", "task:ready">>,
    <<"task:completed", "task:closed">>}
REQUIRED_RUN_EDGES == {<<"run:pending", "run:running">>,
                       <<"run:running", "run:completed">>}

EXCEPTIONAL_STATES == {"task:interrupted", "task:failed", "task:rejected",
    "task:superseded", "task:abandoned", "run:interrupted", "run:failed",
    "run:superseded", "run:abandoned"}
CLOSING_STATES == {"task:completed", "task:accepted", "task:closed",
                   "run:completed"}
ENDING_TASK_STATES == {"task:interrupted", "task:failed", "task:closed",
    "task:rejected", "task:superseded", "task:abandoned"}
FAILED_RUN_STATES == {"run:failed", "run:interrupted", "run:abandoned",
                      "run:superseded"}

stateKind(s) == IF s \in TASK_STATES THEN "task" ELSE "run"
Family(k) == IF k = "task" THEN "task-transition" ELSE "run-transition"
Origin(k) == IF k = "task" THEN "task:proposed" ELSE "run:pending"

-----------------------------------------------------------------------------
(* The corpus.                                                             *)

\* A transition an event claims. causedBy: it names the run as its cause;
\* decision: the event it names as the operator's, 0 for none; cites: its
\* evidence names the run, and citedEvent the event it names, 0 for none.
Claim(k, from, to, rev, class, causedBy, decision, cites, citedEvent) ==
    [kind |-> k, from |-> from, to |-> to, rev |-> rev, class |-> class,
     causedBy |-> causedBy, decision |-> decision, cites |-> cites,
     citedEvent |-> citedEvent]
NoClaim == Claim("none", "", "", 0, "", FALSE, 0, FALSE, 0)

Event(seq, family, author, source, mine, parent, basis, st) ==
    [seq |-> seq, family |-> family, author |-> author, source |-> source,
     task |-> mine, parent |-> parent, basis |-> basis, st |-> st]

Step(from, to, rev, class, event) ==
    [from |-> from, to |-> to, rev |-> rev, class |-> class, event |-> event]

NoReceipt == [commit |-> 0]

\* The history every corpus of the model starts with: the task proposed, made
\* ready and running, and its run running.
Opened(k, from, to, rev) ==
    Claim(k, from, to, rev, "required", FALSE, 0, FALSE, 0)
Init ==
    /\ events = <<
         Event(2, "task-transition", "human", "operator-accepted", TRUE, 0,
               "operator", Opened("task", "task:proposed", "task:ready", 2)),
         Event(4, "task-transition", "digital", "runner-reported", TRUE, 0,
               "envelope", Opened("task", "task:ready", "task:running", 3)),
         Event(6, "run-transition", "digital", "runner-reported", TRUE, 0,
               "envelope", Opened("run", "run:pending", "run:running", 2)) >>
    /\ entity = [k \in {"task", "run"} |->
         IF k = "task"
         THEN [state |-> "task:running", rev |-> 3, transitions |->
                 <<Step("task:proposed", "task:ready", 2, "required", 1),
                   Step("task:ready", "task:running", 3, "required", 2)>>]
         ELSE [state |-> "run:running", rev |-> 2, transitions |->
                 <<Step("run:pending", "run:running", 2, "required", 3)>>]]
    /\ envelope \in BOOLEAN
    /\ receipt = NoReceipt

-----------------------------------------------------------------------------
(* checkLifecycle: one entity.                                             *)

StateType(k) ==
    /\ stateKind(entity[k].state) = k
    /\ \A i \in DOMAIN entity[k].transitions :
         LET t == entity[k].transitions[i]
         IN  stateKind(t.from) = k /\ stateKind(t.to) = k

LastStep(k) ==
    LET t == entity[k].transitions
    IN  IF t = <<>> THEN Step("", Origin(k), 1, "", 0) ELSE t[Len(t)]

RevisionOrder(k) ==
    /\ \A i \in DOMAIN entity[k].transitions :
         entity[k].transitions[i].rev = i + 1
    /\ entity[k].rev = LastStep(k).rev

Continues(k) ==
    LET t == entity[k].transitions
    IN  /\ t # <<>> => t[1].from = Origin(k)
        /\ \A i \in 2..Len(t) : t[i - 1].to = t[i].from

\* The entity's mutations against the events they name.
Agrees(k, t) ==
    LET st == events[t.event].st
    IN  /\ st.kind = k
        /\ st.from = t.from /\ st.to = t.to
        /\ st.rev = t.rev /\ st.class = t.class
EntityPaired(k) ==
    /\ entity[k].state = LastStep(k).to
    /\ \A i \in DOMAIN entity[k].transitions :
         Agrees(k, entity[k].transitions[i])

-----------------------------------------------------------------------------
(* checkLifecycle: one event.                                              *)

isHumanOperatorEvent(e) ==
    e.author = "human" /\ e.source = "operator-accepted"

\* A separate decision of the operator about this task, later than what it
\* decides on and no later than the transition that relies on it.
BoundDecision(d, ending, after) ==
    /\ d # 0
    /\ isHumanOperatorEvent(events[d])
    /\ events[d].family \in {"approval", "task-transition"}
    /\ d # ending /\ events[d].task
    /\ events[d].seq > after /\ events[d].seq <= events[ending].seq
AnyDecision(d, ending, after) == d # 0 /\ isHumanOperatorEvent(events[d])
isBoundTaskOperatorDecision(d, ending, after) == BoundDecision(d, ending, after)

citesRunOutcome(st) ==
    \/ st.cites
    \/ /\ st.citedEvent # 0
       /\ events[st.citedEvent].st.kind = "run"
       /\ events[st.citedEvent].st.to \in FAILED_RUN_STATES

\* The sequence of the latest of an entity's steps to one of the states.
SequenceOf(k, states) ==
    LET at == {events[t.event].seq : t \in
                 {entity[k].transitions[i] : i \in
                    {j \in DOMAIN entity[k].transitions :
                       entity[k].transitions[j].to \in states}}}
    IN  CHOOSE s \in at \cup {0} : \A o \in at : o <= s

Matched(i) ==
    LET st == events[i].st
    IN  \E j \in DOMAIN entity[st.kind].transitions :
          LET t == entity[st.kind].transitions[j]
          IN  /\ t.from = st.from /\ t.to = st.to
              /\ t.rev = st.rev /\ t.event = i

RunFailed == entity["run"].state \in FAILED_RUN_STATES

\* A failed run's task is ended for it only on evidence and a decision.
RunIndependence(i) ==
    LET st == events[i].st
        \* A step that names the run as its cause rests on how the run ended.
        ending == st.kind = "task" /\ st.causedBy /\ RunFailed
                  /\ st.to \in CLOSING_STATES \cup ENDING_TASK_STATES
    IN  /\ ending =>
             /\ isBoundTaskOperatorDecision(st.decision, i,
                                            SequenceOf("run", RUN_STATES))
             /\ citesRunOutcome(st)
        /\ /\ st.class = "required"
           /\ <<st.from, st.to>> = <<"task:running", "task:ready">>
           => st.causedBy /\ RunFailed /\ citesRunOutcome(st)
        /\ /\ st.class = "required"
           /\ <<st.from, st.to>> \in {<<"task:completed", "task:accepted">>,
                                      <<"task:accepted", "task:closed">>}
           => isHumanOperatorEvent(events[i])

Exceptional(st) == st.to \notin CLOSING_STATES /\ st.to \in EXCEPTIONAL_STATES

RequiredProgression(i) ==
    LET st == events[i].st
    IN  /\ <<st.from, st.to>> \in (IF st.kind = "task"
             THEN REQUIRED_TASK_EDGES ELSE REQUIRED_RUN_EDGES)
        /\ <<st.from, st.to>> = <<"task:completed", "task:closed">>
             => isBoundTaskOperatorDecision(st.decision, i,
                                    SequenceOf("task", {"task:completed"}))

Progression(i) ==
    IF events[i].st.class = "exceptional" THEN Exceptional(events[i].st)
    ELSE RequiredProgression(i)

\* An unsuccessful run leaves a consequence on its task.
HasConsequence ==
    RunFailed => \E i \in DOMAIN events :
                   events[i].st.kind = "task" /\ events[i].st.causedBy

-----------------------------------------------------------------------------
(* checkEventOrdering, and the task's envelope.                            *)

\* parent: an event this one names as its cause, or as the one it supersedes;
\* either has to precede it.
CausalOrder ==
    /\ \A i, j \in DOMAIN events : events[i].seq = events[j].seq => i = j
    /\ \A i \in DOMAIN events : events[i].parent # 0
         => events[events[i].parent].seq < events[i].seq
Increasing(k) ==
    LET t == entity[k].transitions
    IN  \A i \in 2..Len(t) : events[t[i - 1].event].seq < events[t[i].event].seq

\* A task completes under its approved envelope and with that envelope's grant.
TaskEnvelope ==
    \A i \in DOMAIN entity["task"].transitions :
      LET t == entity["task"].transitions[i]
      IN  t.to = "task:completed"
            => envelope /\ events[t.event].basis \in {"envelope", "operator"}

-----------------------------------------------------------------------------
(* checkReceipts and checkReceiptReconciliation.                           *)

\* What the entity's own history says at a sequence.
stateAtSequence(k, at) ==
    LET t == entity[k].transitions
        upTo == {i \in 0..Len(t) :
                   \A j \in 1..i : events[t[j].event].seq <= at}
        n == CHOOSE i \in upTo : \A j \in upTo : j <= i
    IN  IF n = 0 THEN [state |-> Origin(k), rev |-> 1]
        ELSE [state |-> t[n].to, rev |-> t[n].rev]

\* A turn, run or interrupt receipt reports its run, a completion its task.
Subject(r) == IF r.family = "completion" THEN "task" ELSE "run"

\* claim-source.separation: closure needs the operator's separate acceptance,
\* or the decision by which the task was closed as it was.
DirectlyClosed ==
    \E i \in DOMAIN events :
      /\ events[i].st.kind = "task"
      /\ events[i].st.from = "task:completed" /\ events[i].st.to = "task:closed"
      /\ isBoundTaskOperatorDecision(events[i].st.decision, i,
                                     SequenceOf("task", {"task:completed"}))
ClaimSources(r) ==
    r.closure # 0 => r.acceptance # 0 \/ DirectlyClosed

\* The event a completion's fact points at is the task's own step there.
Supported(r, e, to) ==
    /\ events[e].st.kind = "task" /\ events[e].st.to = to
    /\ events[e].seq <= events[r.commit].seq
    /\ isHumanOperatorEvent(events[e])

Reconciled(r) ==
    LET at == events[r.commit].seq
    IN  /\ events[r.commit].family = "receipt"
        /\ r.kind = Subject(r)
        /\ stateAtSequence(r.kind, at) = [state |-> r.state, rev |-> r.rev]
        /\ r.outcome = "stopped" => stateAtSequence("run", at).state = "run:interrupted"
        /\ r.acceptance # 0 => Supported(r, r.acceptance, "task:accepted")
        /\ r.closure # 0 => Supported(r, r.closure, "task:closed")

-----------------------------------------------------------------------------
(* checkSemantics.                                                         *)

\* Broken for good: no later event mends these.
Sound ==
    /\ \A k \in {"task", "run"} :
         StateType(k) /\ RevisionOrder(k) /\ Continues(k) /\ EntityPaired(k)
         /\ Increasing(k)
    /\ \A i \in DOMAIN events : events[i].st # NoClaim =>
         Matched(i) /\ Progression(i)
    /\ CausalOrder /\ TaskEnvelope

\* These depend on how the run ends.
Settled ==
    /\ \A i \in DOMAIN events : events[i].st # NoClaim => RunIndependence(i)
    /\ HasConsequence

Receipted == receipt # NoReceipt => ClaimSources(receipt) /\ Reconciled(receipt)

Admitted == Sound /\ Settled /\ Receipted

-----------------------------------------------------------------------------
(* The writer. It goes on with a corpus only while the rules that nothing   *)
(* later can mend hold, which loses no admitted corpus.                     *)

written == Len(events)
Operator == <<"human", "operator-accepted">>
Agent == <<"digital", "runner-reported">>

\* After all the other events, or between two of them.
Seqs == {2 * written + 2, 2 * written - 1}

Goes == written < MaxEvents /\ Sound /\ Receipted

\* An approval, one in a corpus: the operator's, of this task or of another, or
\* the agent's.
Decide ==
    /\ \A i \in DOMAIN events : events[i].family # "approval"
    /\ \E a \in {Operator, Agent}, mine \in BOOLEAN, s \in Seqs, p \in {0, written} :
         /\ a = Agent \/ ~mine => p = 0 /\ s = 2 * written + 2
         /\ events' = Append(events, Event(s, "approval", a[1], a[2], mine, p,
                                           "operator", NoClaim))
    /\ UNCHANGED <<entity, envelope, receipt>>

Targets == {"task:ready", "task:running", "task:completed", "task:accepted",
            "task:closed", "task:failed", "run:completed", "run:failed",
            "run:interrupted"}

\* A step of an entity, as the writer records it: as it was ("plain"), filed
\* under another task (no rule binds an event's task to what it moves), out of
\* the order of the events, under another grant, or by one of its two halves,
\* the event's claim and the entity's mutation.
Legal(k, to) ==
    \/ to \in EXCEPTIONAL_STATES
    \/ <<entity[k].state, to>> \in REQUIRED_TASK_EDGES \cup REQUIRED_RUN_EDGES
Slips == {"plain", "elsewhere", "early", "ungranted", "claim", "mutation"}
StepClass(to) == IF to \in EXCEPTIONAL_STATES THEN "exceptional" ELSE "required"
MoveClaim(to, caused, names, d) ==
    LET k == stateKind(to)
    IN  Claim(k, entity[k].state, to, entity[k].rev + 1, StepClass(to), caused, d,
              names, IF caused /\ ~names THEN written ELSE 0)
MoveEvent(to, a, slip, st) ==
    Event(IF slip = "early" THEN 2 * written - 1 ELSE 2 * written + 2, Family(stateKind(to)),
          a[1], a[2], slip # "elsewhere", 0, IF slip = "ungranted" THEN "other" ELSE "envelope",
          IF slip = "mutation" THEN NoClaim ELSE st)
Recorded(to, a, slip, st) ==
    /\ events' = Append(events, MoveEvent(to, a, slip, st))
    /\ entity' = IF slip = "claim" THEN entity ELSE
         [entity EXCEPT
           ![stateKind(to)].state = to, ![stateKind(to)].rev = @ + 1,
           ![stateKind(to)].transitions = Append(@,
              Step(st.from, to, st.rev, StepClass(to), written + 1))]
Move ==
    /\ \E to \in Targets, a \in {Operator, Agent}, slip \in Slips,
          caused \in BOOLEAN, names \in BOOLEAN, d \in {0, written} :
         /\ names => caused
         /\ stateKind(to) = "run" => a = Agent /\ ~caused /\ d = 0
         /\ to \notin CLOSING_STATES \cup ENDING_TASK_STATES => a = Agent /\ d = 0
         /\ d # 0 => caused \/ to = "task:closed"
         /\ to \in EXCEPTIONAL_STATES =>
              entity[stateKind(to)].state \notin EXCEPTIONAL_STATES
         /\ to \in {"task:completed", "task:failed"} => a = Agent
         /\ slip # "plain" => ~caused /\ d = 0 /\ (a = Agent \/ slip = "elsewhere")
         /\ ~Legal(stateKind(to), to) => slip = "plain" /\ ~caused /\ d = 0
         /\ Recorded(to, a, slip, MoveClaim(to, caused, names, d))
    /\ UNCHANGED <<envelope, receipt>>

\* A receipt, and the event that commits it.
Commit ==
    /\ receipt = NoReceipt
    /\ \E k \in {"task", "run"}, lag \in {0, 1}, acc \in {0, written - 1, written},
          clo \in {0, written}, stopped \in BOOLEAN :
         /\ lag = 1 => acc = 0 /\ clo = 0
         /\ k = "run" => acc = 0 /\ clo = 0
         /\ k = "task" => ~stopped
         /\ events' = Append(events, Event(2 * written + 2, "receipt", "digital",
                         "workbench-observed", TRUE, 0, "envelope", NoClaim))
         /\ receipt' = [commit |-> written + 1,
              family |-> IF k = "task" THEN "completion"
                         ELSE IF stopped THEN "interrupt" ELSE "run",
              kind |-> k,
              state |-> LET t == entity[k].transitions
                        IN  t[Len(t) - (IF Len(t) > lag THEN lag ELSE 0)].to,
              rev |-> entity[k].rev - lag, acceptance |-> acc, closure |-> clo,
              outcome |-> IF stopped THEN "stopped" ELSE "none"]
    /\ UNCHANGED <<entity, envelope>>

Next == Goes /\ (Decide \/ Move \/ Commit)
Spec == Init /\ [][Next]_vars

-----------------------------------------------------------------------------
(* Properties: what an admitted corpus cannot say.                         *)

States == TASK_STATES \cup RUN_STATES
Classes == {"required", "exceptional"}
ClaimSet ==
    [kind : {"none", "task", "run"}, from : States \cup {""}, to : States \cup {""},
     rev : Nat, class : Classes \cup {""}, causedBy : BOOLEAN,
     decision : 0..MaxEvents, cites : BOOLEAN, citedEvent : 0..MaxEvents]
EventSet ==
    [seq : 1..(2 * MaxEvents),
     family : {"approval", "task-transition", "run-transition", "receipt"},
     author : {"human", "digital"},
     source : {"operator-accepted", "runner-reported", "workbench-observed"},
     task : BOOLEAN, parent : 0..MaxEvents,
     basis : {"operator", "envelope", "other"}, st : ClaimSet]
StepSet ==
    [from : States, to : States, rev : Nat, class : Classes, event : 1..MaxEvents]
TypeOK ==
    /\ events \in Seq(EventSet) /\ Len(events) <= MaxEvents
    /\ entity \in [{"task", "run"} ->
           [state : States, rev : Nat, transitions : Seq(StepSet)]]
    /\ envelope \in BOOLEAN
    /\ receipt # NoReceipt => receipt.commit \in 1..Len(events)
                              /\ receipt.closure \in 0..Len(events)

\* An operator acted on this task between two points of the event order: with
\* an event filed under it, or one that moved it.
OperatorActed(after, upTo) ==
    \E i \in DOMAIN events :
      /\ isHumanOperatorEvent(events[i])
      /\ events[i].task \/ events[i].st.kind = "task"
      /\ events[i].seq > after /\ events[i].seq <= upTo

\* Whatever path it took there, a task an admitted corpus shows as closed was
\* completed under its approved envelope, and after that a human operator
\* accepted it or decided to close it.
ClosedByOperator ==
    entity["task"].state = "task:closed"
      => LET done == SequenceOf("task", {"task:completed"})
         IN  done > 0 /\ envelope /\ OperatorActed(done, 2 * MaxEvents)

\* A task that ended exceptionally takes no further step of the required
\* progression: nothing of the spine follows in the order of the events.
EndedStaysEnded ==
    \A i, j \in DOMAIN events :
      /\ events[i].st.kind = "task" /\ events[j].st.kind = "task"
      /\ events[i].st.to \in EXCEPTIONAL_STATES
      /\ events[i].seq < events[j].seq
      => events[j].st.to \in EXCEPTIONAL_STATES

\* The state a receipt reports is the one the events recorded up to its commit
\* lead to, whatever the corpus records later, and a closure it asserts had
\* been made by then, on an operator's act after the task completed.
ReceiptTellsItsMoment ==
    receipt # NoReceipt =>
      LET at == events[receipt.commit].seq
          mine == {i \in DOMAIN events :
                     events[i].st.kind = receipt.kind /\ events[i].seq <= at}
      IN  /\ receipt.rev = Cardinality(mine) + 1
          /\ mine # {} => \E i \in mine :
               /\ \A j \in mine : events[j].seq <= events[i].seq
               /\ events[i].st.to = receipt.state
          /\ receipt.closure # 0 =>
               OperatorActed(SequenceOf("task", {"task:completed"}), at)

\* A task returns to ready for a run only after that run has failed.
ReturnFollowsFailure ==
    \A i \in DOMAIN events :
      /\ events[i].st.kind = "task" /\ events[i].st.from = "task:running"
      /\ events[i].st.to = "task:ready"
      => \E j \in DOMAIN events :
           /\ events[j].st.kind = "run"
           /\ events[j].st.to \in FAILED_RUN_STATES
           /\ events[j].seq < events[i].seq

\* checkLifecycle and the receipt rules: whatever corpus the local rules
\* admit, its task was closed by the operator, an ended task stays ended, and
\* a receipt states its task or run as it was at its commit.
HistoryKept ==
    \/ ClosedByOperator /\ EndedStaysEnded /\ ReceiptTellsItsMoment
    \/ ~Admitted

\* Not implied by the rules, which look at how the run ended and not at when.
ReturnsFollowFailures == Admitted => ReturnFollowsFailure
=============================================================================
