-------------------------- MODULE WorkbenchProofs ---------------------------
(***************************************************************************)
(* What the rules of semantic-rules.ts imply of an admitted corpus, for a  *)
(* corpus of any size.                                                     *)
(*                                                                         *)
(* Lifecycle and receipts: each rule looks at one event, one entity or one *)
(* receipt; the properties are about the whole history.  What joins them:  *)
(* an entity's steps are in the order of their events (Increasing), each   *)
(* step has its event and each claiming event its step (Agrees, Matched),  *)
(* and each step begins where the one before it ended (Continues).         *)
(*                                                                         *)
(* Authority, the log, labels and routes: a rule compares a thing with the *)
(* one it names; the properties are about a whole chain of revisions or    *)
(* derivations, which is the least set closed under the naming, so that    *)
(* what the rules carry along each link is carried along the chain.        *)
(***************************************************************************)
EXTENDS WorkbenchTasks, WorkbenchAuthority, WorkbenchExposure, FiniteSetTheorems,
        FunctionTheorems, NaturalsInduction, WellFoundedInduction, TLAPS

Steps(k) == entity[k].transitions
SeqAt(k, i) == events[Steps(k)[i].event].seq

\* What checkReferences asks of a corpus before the other rules: the decision a
\* claim names is one of the events, and so is the event a step names.
ClaimOk(i) ==
    events[i].st.kind # "none" =>
        /\ events[i].st.class \in Classes
        /\ events[i].st.decision <= Len(events)
StepOk(k, i) == Steps(k)[i].event <= Len(events)

CorpusInv ==
    /\ TypeOK
    /\ Len(events) >= 3
    /\ \A i \in 1..Len(events) : ClaimOk(i)
    /\ \A k \in {"task", "run"} : \A i \in 1..Len(Steps(k)) : StepOk(k, i)

-----------------------------------------------------------------------------
(* Numbers.  The library's induction cannot be applied here, but its least  *)
(* counterexample can.                                                      *)

Less == {p \in Nat \X Nat : p[1] < p[2]}

LEMMA NatLeast ==
  ASSUME NEW T, T \subseteq Nat, T # {}
  PROVE  \E x \in T : \A y \in T : x <= y
  <1>1. OpToRel(<, Nat) = Less
    BY Zenon DEF OpToRel, Less
  <1>2. IsWellFoundedOn(Less, Nat)
    BY <1>1, NatLessThanWellFounded
  <1>3. PICK x \in T : \A y \in T : <<y, x>> \notin Less
    BY <1>2, WFMin
  <1>4. ASSUME NEW y \in T PROVE x <= y
    <2>1. y \in Nat /\ x \in Nat
      BY <1>4
    <2>2. y < x => <<y, x>> \in Less
      BY <2>1 DEF Less
    <2> QED
      BY <1>3, <2>1, <2>2
  <1> QED BY <1>4

\* A set of naturals with an upper bound has a greatest member.
LEMMA NatGreatest ==
  ASSUME NEW S, S \subseteq Nat, S # {}, NEW b \in Nat, \A x \in S : x <= b
  PROVE  \E m \in S : \A x \in S : x <= m
  <1> DEFINE U == {u \in Nat : \A x \in S : x <= u}
  <1>1. b \in U
    OBVIOUS
  <1>2. PICK m \in U : \A u \in U : m <= u
    <2>1. U \subseteq Nat /\ U # {}
      BY <1>1
    <2> HIDE DEF U
    <2> QED
      BY <2>1, NatLeast
  <1>3. m \in S
    <2> SUFFICES ASSUME m \notin S PROVE FALSE
      OBVIOUS
    <2>1. \A x \in S : x \in Nat /\ x < m
      BY <1>2
    <2>2. m - 1 \in Nat
      <3>1. PICK x \in S : TRUE
        OBVIOUS
      <3> QED
        BY <1>2, <2>1, <3>1
    <2>3. m - 1 \in U
      BY <2>1, <2>2
    <2> QED
      BY <1>2, <2>2, <2>3
  <1> QED
    BY <1>2, <1>3

\* What holds at a and passes from each position to the next holds from a on.
LEMMA Onward ==
  ASSUME NEW m \in Nat, NEW a \in 1..m, NEW P, a \in P,
         \A i \in 2..m : i - 1 \in P /\ a < i => i \in P
  PROVE  \A b \in a..m : b \in P
  <1> DEFINE Bad == {b \in a..m : b \notin P}
  <1> SUFFICES ASSUME Bad # {} PROVE FALSE
    OBVIOUS
  <1>1. Bad \subseteq Nat
    OBVIOUS
  <1>2. PICK b \in Bad : \A c \in Bad : b <= c
    <2> HIDE DEF Bad
    <2> QED
      BY <1>1, NatLeast
  <1>3. b \in a..m /\ b \notin P /\ b # a
    BY <1>2
  <1>4. b - 1 \in a..m /\ b \in 2..m /\ a < b
    BY <1>3
  <1>5. b - 1 \in P
    BY <1>2, <1>4
  <1> QED
    BY <1>3, <1>4, <1>5

\* A sequence of numbers that grows from each position to the next grows.
LEMMA Growing ==
  ASSUME NEW m \in Nat, NEW f, \A i \in 1..m : f[i] \in Nat,
         \A i \in 2..m : f[i - 1] < f[i]
  PROVE  \A a, b \in 1..m : a < b => f[a] < f[b]
  <1> SUFFICES ASSUME NEW a \in 1..m, NEW b \in 1..m, a < b PROVE f[a] < f[b]
    OBVIOUS
  <1> DEFINE P == {i \in 1..m : i = a \/ f[a] < f[i]}
  <1>1. a \in P
    OBVIOUS
  <1>2. ASSUME NEW i \in 2..m, i - 1 \in P, a < i PROVE i \in P
    <2>1. i \in 1..m /\ i - 1 \in 1..m /\ f[i - 1] < f[i]
      BY <1>2
    <2>2. f[a] \in Nat /\ f[i] \in Nat /\ f[i - 1] \in Nat
      BY <2>1
    <2>3. i - 1 = a \/ f[a] < f[i - 1]
      BY <1>2
    <2> QED
      BY <2>1, <2>2, <2>3
  <1> HIDE DEF P
  <1>3. \A i \in 2..m : i - 1 \in P /\ a < i => i \in P
    BY <1>2
  <1>4. \A c \in a..m : c \in P
    BY <1>1, <1>3, Onward
  <1>5. b \in a..m
    OBVIOUS
  <1> QED
    BY <1>4, <1>5 DEF P

-----------------------------------------------------------------------------
(* An entity's history in a sound corpus.                                   *)

LEMMA Corpus ==
  ASSUME CorpusInv
  PROVE  /\ events \in Seq(EventSet) /\ Len(events) \in Nat
         /\ DOMAIN events = 1..Len(events)
         /\ \A i \in 1..Len(events) :
              /\ events[i] \in EventSet /\ events[i].seq \in 1..(2 * MaxEvents)
              /\ events[i].seq \in Nat /\ events[i].seq > 0
  <1>1. events \in Seq(EventSet)
    BY DEF CorpusInv, TypeOK
  <1>2. Len(events) \in Nat /\ DOMAIN events = 1..Len(events)
    BY <1>1
  <1>3. ASSUME NEW i \in 1..Len(events) PROVE events[i] \in EventSet
    BY <1>1
  <1>4. ASSUME NEW e \in EventSet PROVE e.seq \in 1..(2 * MaxEvents)
    BY DEF EventSet
  <1>5. \A j \in 1..(2 * MaxEvents) : j \in Nat /\ j > 0
    BY EventsAssumption
  <1> QED
    BY <1>1, <1>2, <1>3, <1>4, <1>5

LEMMA History ==
  ASSUME CorpusInv, NEW k \in {"task", "run"}
  PROVE  /\ Steps(k) \in Seq(StepSet) /\ Len(Steps(k)) \in Nat
         /\ DOMAIN Steps(k) = 1..Len(Steps(k))
         /\ \A i \in 1..Len(Steps(k)) :
              Steps(k)[i] \in StepSet /\ Steps(k)[i].event \in 1..Len(events)
  <1>1. Steps(k) \in Seq(StepSet)
    BY DEF CorpusInv, TypeOK, Steps
  <1>2. Len(Steps(k)) \in Nat /\ DOMAIN Steps(k) = 1..Len(Steps(k))
    BY <1>1
  <1>3. ASSUME NEW i \in 1..Len(Steps(k))
        PROVE  Steps(k)[i] \in StepSet /\ Steps(k)[i].event \in 1..Len(events)
    <2>1. Steps(k)[i] \in StepSet
      BY <1>1
    <2>2. Steps(k)[i].event \in 1..MaxEvents
      BY <2>1 DEF StepSet
    <2>3. Steps(k)[i].event <= Len(events)
      BY DEF CorpusInv, StepOk
    <2> QED
      BY <2>1, <2>2, <2>3, Corpus, EventsAssumption
  <1> QED
    BY <1>1, <1>2, <1>3

\* Steps are in the order of their events.
LEMMA StepOrder ==
  ASSUME CorpusInv, Sound, NEW k \in {"task", "run"}
  PROVE  /\ \A i \in 1..Len(Steps(k)) : SeqAt(k, i) \in Nat /\ SeqAt(k, i) > 0
         /\ \A a, b \in 1..Len(Steps(k)) : a < b => SeqAt(k, a) < SeqAt(k, b)
  <1> DEFINE m == Len(Steps(k))
             f == [i \in 1..m |-> SeqAt(k, i)]
  <1>1. m \in Nat
    BY History
  <1>2. \A i \in 1..m : SeqAt(k, i) \in Nat /\ SeqAt(k, i) > 0
    BY History, Corpus DEF SeqAt
  <1>3. \A i \in 2..m : SeqAt(k, i - 1) < SeqAt(k, i)
    BY DEF Sound, Increasing, Steps, SeqAt
  <1>4. \A i \in 1..m : f[i] = SeqAt(k, i)
    OBVIOUS
  <1>5. ASSUME NEW i \in 2..m PROVE f[i - 1] < f[i]
    <2>1. i \in 1..m /\ i - 1 \in 1..m
      BY <1>1
    <2> QED
      BY <1>3, <1>4, <2>1
  <1> HIDE DEF f, m
  <1>6. \A a, b \in 1..m : a < b => f[a] < f[b]
    BY <1>1, <1>2, <1>4, <1>5, Growing
  <1> QED
    BY <1>2, <1>4, <1>6 DEF m

\* A step and its event say the same, and the event's claim passed the rules.
LEMMA StepClaim ==
  ASSUME CorpusInv, Sound, NEW k \in {"task", "run"}, NEW i \in 1..Len(Steps(k)),
         NEW e, e = Steps(k)[i].event
  PROVE  /\ e \in DOMAIN events /\ events[e].seq = SeqAt(k, i)
         /\ events[e].st.kind = k /\ events[e].st # NoClaim
         /\ events[e].st.from = Steps(k)[i].from /\ events[e].st.to = Steps(k)[i].to
         /\ events[e].st.class \in Classes
         /\ Progression(e)
  <1>1. e \in DOMAIN events /\ i \in DOMAIN Steps(k)
    BY History, Corpus
  <1>2. Agrees(k, Steps(k)[i])
    BY <1>1 DEF Sound, EntityPaired, Steps
  <1>3. /\ events[e].st.kind = k /\ events[e].st.from = Steps(k)[i].from
        /\ events[e].st.to = Steps(k)[i].to
    BY <1>2 DEF Agrees
  <1>4. NoClaim.kind = "none"
    BY DEF NoClaim, Claim
  <1>5. events[e].st # NoClaim /\ events[e].st.kind # "none"
    BY <1>3, <1>4
  <1>6. ClaimOk(e)
    BY <1>1, Corpus DEF CorpusInv
  <1> QED
    BY <1>1, <1>3, <1>5, <1>6 DEF Sound, ClaimOk, SeqAt

\* An event that claims a step of an entity has its step there.
LEMMA ClaimStep ==
  ASSUME CorpusInv, Sound, NEW k \in {"task", "run"}, NEW e \in DOMAIN events,
         events[e].st.kind = k
  PROVE  \E i \in 1..Len(Steps(k)) :
           Steps(k)[i].event = e /\ Steps(k)[i].to = events[e].st.to
  <1>1. NoClaim.kind = "none"
    BY DEF NoClaim, Claim
  <1>2. Matched(e)
    BY <1>1 DEF Sound
  <1> QED
    BY <1>2, History DEF Matched, Steps
-----------------------------------------------------------------------------
(* The task's history.                                                      *)

Terminal == EXCEPTIONAL_STATES \cup {"task:closed"}

\* No step of the required progression leaves an ended task, and each of its
\* states has the ways in that the properties speak of.
LEMMA Edges ==
  /\ \A f, t : <<f, t>> \in REQUIRED_TASK_EDGES => f \notin Terminal
  /\ \A f : <<f, "task:closed">> \in REQUIRED_TASK_EDGES
            => f \in {"task:completed", "task:accepted"}
  /\ \A f : <<f, "task:accepted">> \in REQUIRED_TASK_EDGES => f = "task:completed"
  BY DEF REQUIRED_TASK_EDGES, Terminal, EXCEPTIONAL_STATES

\* How a step of the task may go.
LEMMA TaskStep ==
  ASSUME CorpusInv, Sound, NEW i \in 1..Len(Steps("task")),
         NEW e, e = Steps("task")[i].event
  PROVE  \/ Steps("task")[i].to \in EXCEPTIONAL_STATES
         \/ /\ <<Steps("task")[i].from, Steps("task")[i].to>> \in REQUIRED_TASK_EDGES
            /\ events[e].st.class = "required"
            /\ RequiredProgression(e)
  <1>1. /\ events[e].st.kind = "task" /\ events[e].st.from = Steps("task")[i].from
        /\ events[e].st.to = Steps("task")[i].to /\ events[e].st.class \in Classes
        /\ Progression(e)
    BY StepClaim
  <1>2. CASE events[e].st.class = "exceptional"
    BY <1>1, <1>2 DEF Progression, Exceptional
  <1>3. CASE events[e].st.class # "exceptional"
    BY <1>1, <1>3 DEF Progression, RequiredProgression, Classes
  <1> QED
    BY <1>2, <1>3

\* After a closed or exceptional state only exceptional ones follow.
LEMMA EndedTask ==
  ASSUME CorpusInv, Sound, NEW a \in 1..Len(Steps("task")), NEW b \in 1..Len(Steps("task")),
         a < b, Steps("task")[a].to \in Terminal
  PROVE  Steps("task")[b].to \in EXCEPTIONAL_STATES
  <1> DEFINE m == Len(Steps("task"))
             P == {i \in 1..m : i = a \/ Steps("task")[i].to \in EXCEPTIONAL_STATES}
  <1>1. m \in Nat /\ a \in P
    BY History
  <1>2. ASSUME NEW i \in 2..m, i - 1 \in P, a < i PROVE i \in P
    <2>1. i \in 1..m /\ i - 1 \in 1..m
      BY <1>1
    <2>2. Steps("task")[i - 1].to \in Terminal
      BY <1>2 DEF Terminal
    <2>3. Steps("task")[i].from = Steps("task")[i - 1].to
      BY DEF Sound, Continues, Steps
    <2>4. Steps("task")[i].to \in EXCEPTIONAL_STATES
      BY <2>1, <2>2, <2>3, TaskStep, Edges
    <2> QED
      BY <2>1, <2>4
  <1>3. \A i \in 2..m : i - 1 \in P /\ a < i => i \in P
    BY <1>2
  <1>4. a \in 1..m /\ b \in a..m
    BY <1>1
  <1> HIDE DEF m, P
  <1>5. b \in P
    BY <1>1, <1>3, <1>4, Onward
  <1> QED
    BY <1>5 DEF P

\* The sequence of the task's completion.
LEMMA Completion ==
  ASSUME CorpusInv, Sound, NEW done, done = SequenceOf("task", {"task:completed"})
  PROVE  /\ done \in Nat
         /\ done = 0 \/ \E i \in 1..Len(Steps("task")) :
                          Steps("task")[i].to = "task:completed" /\ done = SeqAt("task", i)
         /\ \A i \in 1..Len(Steps("task")) :
              Steps("task")[i].to = "task:completed" => SeqAt("task", i) <= done
  <1> DEFINE at == {events[t.event].seq : t \in
                     {entity["task"].transitions[i] : i \in
                        {j \in DOMAIN entity["task"].transitions :
                           entity["task"].transitions[j].to \in {"task:completed"}}}}
  <1>1. \A x : x \in at <=> \E i \in 1..Len(Steps("task")) :
                   Steps("task")[i].to = "task:completed" /\ x = SeqAt("task", i)
    BY History DEF Steps, SeqAt
  <1>2. done = CHOOSE s \in at \cup {0} : \A o \in at : o <= s
    BY DEF SequenceOf
  <1> HIDE DEF at
  <1>3. at \cup {0} \subseteq Nat
    BY <1>1, StepOrder
  <1>4. \A x \in at \cup {0} : x <= 2 * MaxEvents
    <2>1. ASSUME NEW i \in 1..Len(Steps("task")) PROVE SeqAt("task", i) <= 2 * MaxEvents
      BY History, Corpus, EventsAssumption DEF SeqAt
    <2> QED
      BY <1>1, <2>1, EventsAssumption
  <1>5. 2 * MaxEvents \in Nat /\ at \cup {0} # {}
    BY EventsAssumption
  <1>6. \E s \in at \cup {0} : \A o \in at \cup {0} : o <= s
    BY <1>3, <1>4, <1>5, NatGreatest
  <1>7. done \in at \cup {0} /\ \A o \in at : o <= done
    BY <1>2, <1>6
  <1> QED
    BY <1>1, <1>3, <1>7
-----------------------------------------------------------------------------
(* The properties of an admitted corpus.                                    *)

\* A step that completed the task comes before the one that closed it.
LEMMA ClosedAfterCompletion ==
  ASSUME CorpusInv, Sound, NEW a \in 1..Len(Steps("task")),
         Steps("task")[a].to = "task:closed"
  PROVE  SequenceOf("task", {"task:completed"}) < SeqAt("task", a)
  <1>1. PICK done : done = SequenceOf("task", {"task:completed"})
    OBVIOUS
  <1>2. SeqAt("task", a) \in Nat /\ SeqAt("task", a) > 0 /\ done \in Nat
    BY <1>1, Completion, StepOrder
  <1>3. CASE done = 0
    BY <1>1, <1>2, <1>3
  <1>4. ASSUME NEW i \in 1..Len(Steps("task")), Steps("task")[i].to = "task:completed",
               done = SeqAt("task", i)
        PROVE  done < SeqAt("task", a)
    <2>1. ~(a < i)
      <3>1. "task:completed" \notin EXCEPTIONAL_STATES /\ "task:closed" \in Terminal
        BY DEF EXCEPTIONAL_STATES, Terminal
      <3> QED
        BY <1>4, <3>1, EndedTask
    <2>2. i # a
      BY <1>4
    <2>3. i < a
      BY <2>1, <2>2, History
    <2> QED
      BY <1>4, <2>3, StepOrder
  <1> QED
    BY <1>1, <1>3, <1>4, Completion

LEMMA ClosedIsOperators ==
  ASSUME CorpusInv, Admitted
  PROVE  ClosedByOperator
  <1> SUFFICES ASSUME entity["task"].state = "task:closed"
               PROVE  /\ SequenceOf("task", {"task:completed"}) > 0
                      /\ envelope
                      /\ OperatorActed(SequenceOf("task", {"task:completed"}), 2 * MaxEvents)
    BY DEF ClosedByOperator
  <1> DEFINE m == Len(Steps("task"))
             e == Steps("task")[m].event
  <1>0. Sound /\ Settled
    BY DEF Admitted
  <1>1. Steps("task") # <<>> /\ Steps("task")[m].to = "task:closed"
    <2>1. LastStep("task").to = "task:closed"
      BY <1>0 DEF Sound, EntityPaired
    <2>2. CASE Steps("task") = <<>>
      BY <2>1, <2>2 DEF LastStep, Steps, Step, Origin
    <2> QED
      BY <2>1, <2>2 DEF LastStep, Steps
  <1>2. m \in 1..m /\ m \in Nat /\ m - 1 \in Nat
    BY <1>1, History
  <1>3. Steps("task")[1].from = "task:proposed"
    BY <1>0, <1>1 DEF Sound, Continues, Steps, Origin
  <1>4. \A i \in 2..m : Steps("task")[i].from = Steps("task")[i - 1].to
    BY <1>0 DEF Sound, Continues, Steps
  <1>5. /\ <<Steps("task")[m].from, "task:closed">> \in REQUIRED_TASK_EDGES
        /\ events[e].st.class = "required" /\ RequiredProgression(e)
    <2>1. "task:closed" \notin EXCEPTIONAL_STATES
      BY DEF EXCEPTIONAL_STATES
    <2> QED
      BY <1>0, <1>1, <1>2, <2>1, TaskStep
  <1>6. /\ e \in DOMAIN events /\ events[e].seq = SeqAt("task", m)
        /\ events[e].st.kind = "task"
        /\ events[e].st # NoClaim /\ events[e].st.to = "task:closed"
        /\ events[e].st.from = Steps("task")[m].from
    BY <1>0, <1>1, <1>2, StepClaim
  <1>7. Steps("task")[m].from \in {"task:completed", "task:accepted"}
    BY <1>5, Edges
  <1>8. m \in 2..m /\ m - 1 \in 1..m
    <2>1. m # 1
      BY <1>3, <1>7
    <2>2. \A x \in Nat : x \in 1..x /\ x # 1 => x \in 2..x /\ x - 1 \in 1..x
      OBVIOUS
    <2> HIDE DEF m
    <2> QED
      BY <1>2, <2>1, <2>2
  <1>9. PICK c \in 1..m : Steps("task")[c].to = "task:completed"
    <2>1. CASE Steps("task")[m].from = "task:completed"
      BY <1>4, <1>8, <2>1
    <2>2. CASE Steps("task")[m].from = "task:accepted"
      <3>1. Steps("task")[m - 1].to = "task:accepted"
        BY <1>4, <1>8, <2>2
      <3>2. "task:accepted" \notin EXCEPTIONAL_STATES
        BY DEF EXCEPTIONAL_STATES
      <3>3. Steps("task")[m - 1].from = "task:completed"
        BY <1>0, <1>8, <3>1, <3>2, TaskStep, Edges
      <3>4. m - 1 # 1
        BY <1>3, <3>3
      <3>5. m - 1 \in 2..m /\ m - 2 \in 1..m /\ (m - 1) - 1 = m - 2
        <4>1. \A x \in Nat : x - 1 \in 1..x /\ x - 1 # 1
                => x - 1 \in 2..x /\ x - 2 \in 1..x /\ (x - 1) - 1 = x - 2
          OBVIOUS
        <4> HIDE DEF m
        <4> QED
          BY <1>2, <1>8, <3>4, <4>1
      <3> QED
        BY <1>4, <3>3, <3>5
    <2> QED
      BY <1>7, <2>1, <2>2
  <1> HIDE DEF m, e
  <1>10. SequenceOf("task", {"task:completed"}) > 0
    BY <1>0, <1>9, Completion, StepOrder DEF m
  <1>11. envelope
    <2>1. c \in DOMAIN entity["task"].transitions
      BY <1>9, History DEF Steps, m
    <2> QED
      BY <1>0, <1>9, <2>1 DEF Sound, TaskEnvelope, Steps
  <1>12. OperatorActed(SequenceOf("task", {"task:completed"}), 2 * MaxEvents)
    <2>1. CASE Steps("task")[m].from = "task:completed"
      <3> DEFINE d == events[e].st.decision
      <3>1. isBoundTaskOperatorDecision(d, e, SequenceOf("task", {"task:completed"}))
        BY <1>5, <1>6, <2>1 DEF RequiredProgression
      <3>2. d \in DOMAIN events
        <4>1. ClaimOk(e) /\ events[e].st.kind # "none" /\ events[e] \in EventSet
          <5>1. events[e].st.kind = "task"
            BY <1>0, <1>2, StepClaim DEF m, e
          <5> QED
            BY <1>6, <5>1, Corpus DEF CorpusInv
        <4>2. events[e].st \in ClaimSet
          BY <4>1 DEF EventSet
        <4>3. d \in Nat
          <5>1. d \in 0..MaxEvents
            BY <4>2 DEF ClaimSet
          <5> HIDE DEF d
          <5> QED
            BY <5>1, EventsAssumption
        <4>4. d <= Len(events) /\ d # 0
          BY <3>1, <4>1 DEF ClaimOk, isBoundTaskOperatorDecision, BoundDecision
        <4> QED
          BY <4>3, <4>4, Corpus
      <3>3. events[d].seq <= 2 * MaxEvents
        BY <3>2, Corpus, EventsAssumption
      <3> QED
        BY <3>1, <3>2, <3>3 DEF OperatorActed, isBoundTaskOperatorDecision, BoundDecision
    <2>2. CASE Steps("task")[m].from = "task:accepted"
      <3>1. isHumanOperatorEvent(events[e])
        BY <1>0, <1>5, <1>6, <2>2 DEF Settled, RunIndependence
      <3>2. events[e].seq > SequenceOf("task", {"task:completed"})
        <4>1. SequenceOf("task", {"task:completed"}) < SeqAt("task", m)
          BY <1>0, <1>1, <1>2, ClosedAfterCompletion DEF m
        <4> QED
          BY <1>0, <1>2, <1>6, <4>1, Completion, StepOrder DEF m
      <3>3. events[e].seq <= 2 * MaxEvents
        BY <1>6, Corpus, EventsAssumption
      <3> QED
        BY <1>6, <3>1, <3>2, <3>3 DEF OperatorActed
    <2> QED
      BY <1>7, <2>1, <2>2
  <1> QED
    BY <1>10, <1>11, <1>12

LEMMA EndedStays ==
  ASSUME CorpusInv, Admitted
  PROVE  EndedStaysEnded
  <1> SUFFICES ASSUME NEW i \in DOMAIN events, NEW j \in DOMAIN events,
                      events[i].st.kind = "task", events[j].st.kind = "task",
                      events[i].st.to \in EXCEPTIONAL_STATES, events[i].seq < events[j].seq
               PROVE  events[j].st.to \in EXCEPTIONAL_STATES
    BY DEF EndedStaysEnded
  <1>0. Sound
    BY DEF Admitted
  <1>1. PICK a \in 1..Len(Steps("task")) :
          Steps("task")[a].event = i /\ Steps("task")[a].to = events[i].st.to
    BY <1>0, ClaimStep
  <1>2. PICK b \in 1..Len(Steps("task")) :
          Steps("task")[b].event = j /\ Steps("task")[b].to = events[j].st.to
    BY <1>0, ClaimStep
  <1>3. SeqAt("task", a) < SeqAt("task", b)
    BY <1>1, <1>2 DEF SeqAt
  <1>4. SeqAt("task", a) \in Nat /\ SeqAt("task", b) \in Nat
    BY <1>0, StepOrder
  <1>5. ~(b < a) /\ a # b
    BY <1>0, <1>3, <1>4, StepOrder
  <1>6. a < b
    BY <1>5, History
  <1>7. Steps("task")[a].to \in Terminal
    BY <1>1 DEF Terminal
  <1> QED
    BY <1>0, <1>2, <1>6, <1>7, EndedTask

\* What an entity's history says at a sequence: its first h steps, and those
\* are the ones whose events the corpus has by then.
LEMMA StateAt ==
  ASSUME CorpusInv, Sound, NEW k \in {"task", "run"}, NEW at \in Nat
  PROVE  \E h \in 0..Len(Steps(k)) :
           /\ \A j \in 1..Len(Steps(k)) : SeqAt(k, j) <= at <=> j <= h
           /\ stateAtSequence(k, at) = IF h = 0 THEN [state |-> Origin(k), rev |-> 1]
                ELSE [state |-> Steps(k)[h].to, rev |-> Steps(k)[h].rev]
  <1> DEFINE m == Len(Steps(k))
             upTo == {i \in 0..m : \A j \in 1..i : SeqAt(k, j) <= at}
             h == CHOOSE i \in upTo : \A j \in upTo : j <= i
  <1>1. m \in Nat
    BY History
  <1>2. upTo \subseteq Nat /\ 0 \in upTo /\ \A i \in upTo : i <= m
    BY <1>1
  <1>3. stateAtSequence(k, at) = IF h = 0 THEN [state |-> Origin(k), rev |-> 1]
                ELSE [state |-> Steps(k)[h].to, rev |-> Steps(k)[h].rev]
    BY DEF stateAtSequence, Steps, SeqAt
  <1>4. h \in upTo /\ \A j \in upTo : j <= h
    <2> HIDE DEF upTo, m
    <2>1. \E i \in upTo : \A j \in upTo : j <= i
      BY <1>1, <1>2, NatGreatest
    <2> QED
      BY <2>1
  <1> HIDE DEF h
  <1>5. h \in 0..m
    BY <1>4
  <1>6. ASSUME NEW j \in 1..m PROVE SeqAt(k, j) <= at <=> j <= h
    <2>1. CASE j <= h
      <3>1. j \in 1..h
        BY <1>1, <1>5, <2>1
      <3> QED
        BY <1>4, <2>1, <3>1
    <2>2. CASE SeqAt(k, j) <= at
      <3>1. ASSUME NEW i \in 1..j PROVE SeqAt(k, i) <= at
        <4>1. i \in 1..m /\ (i = j \/ i < j)
          BY <1>1
        <4>2. SeqAt(k, i) \in Nat /\ SeqAt(k, j) \in Nat /\ (i < j => SeqAt(k, i) < SeqAt(k, j))
          BY <4>1, StepOrder
        <4> QED
          BY <2>2, <4>1, <4>2
      <3>2. j \in 0..m
        BY <1>1
      <3>3. j \in upTo
        BY <3>1, <3>2
      <3> QED
        BY <1>4, <2>2, <3>3
    <2> QED
      BY <2>1, <2>2
  <1> QED
    BY <1>3, <1>5, <1>6

LEMMA ReceiptTells ==
  ASSUME CorpusInv, Admitted
  PROVE  ReceiptTellsItsMoment
  <1> SUFFICES ASSUME receipt # NoReceipt PROVE ReceiptTellsItsMoment
    BY DEF ReceiptTellsItsMoment
  <1> DEFINE k == receipt.kind
             at == events[receipt.commit].seq
             mine == {i \in DOMAIN events : events[i].st.kind = k /\ events[i].seq <= at}
  <1>0. Sound /\ Reconciled(receipt)
    BY DEF Admitted, Receipted
  <1>1. k \in {"task", "run"}
    BY <1>0 DEF Reconciled, Subject
  <1>2. at \in Nat
    <2>1. receipt.commit \in 1..Len(events)
      BY DEF CorpusInv, TypeOK
    <2> QED
      BY <2>1, Corpus
  <1>3. PICK h \in 0..Len(Steps(k)) :
           /\ \A j \in 1..Len(Steps(k)) : SeqAt(k, j) <= at <=> j <= h
           /\ stateAtSequence(k, at) = IF h = 0 THEN [state |-> Origin(k), rev |-> 1]
                ELSE [state |-> Steps(k)[h].to, rev |-> Steps(k)[h].rev]
    <2> HIDE DEF k, at
    <2> QED
      BY <1>0, <1>1, <1>2, StateAt
  <1>4. stateAtSequence(k, at) = [state |-> receipt.state, rev |-> receipt.rev]
    BY <1>0 DEF Reconciled
  <1>5. receipt.closure # 0 => Supported(receipt, receipt.closure, "task:closed")
    BY <1>0 DEF Reconciled
  <1> HIDE DEF k, at
  <1>6. Len(Steps(k)) \in Nat /\ h \in Nat /\ h <= Len(Steps(k))
    BY <1>1, <1>3, History
  <1>7. receipt.rev = h + 1 /\ (h # 0 => receipt.state = Steps(k)[h].to)
    <2>1. CASE h = 0
      BY <1>3, <1>4, <2>1
    <2>2. CASE h # 0
      <3>1. receipt.state = Steps(k)[h].to /\ receipt.rev = Steps(k)[h].rev
        BY <1>3, <1>4, <2>2
      <3>2. h \in DOMAIN Steps(k)
        BY <1>1, <1>6, <2>2, History
      <3>3. Steps(k)[h].rev = h + 1
        BY <1>0, <1>1, <3>2 DEF Sound, RevisionOrder, Steps
      <3> QED
        BY <3>1, <3>3
    <2> QED
      BY <2>1, <2>2
  <1>8. \A j \in 1..h : j \in 1..Len(Steps(k)) /\ Steps(k)[j].event \in mine
    <2> SUFFICES ASSUME NEW j \in 1..h
                 PROVE  j \in 1..Len(Steps(k)) /\ Steps(k)[j].event \in mine
      OBVIOUS
    <2>1. j \in 1..Len(Steps(k)) /\ j <= h
      BY <1>6
    <2>2. SeqAt(k, j) <= at
      BY <1>3, <2>1
    <2>3. PICK e : e = Steps(k)[j].event
      OBVIOUS
    <2>4. e \in DOMAIN events /\ events[e].seq = SeqAt(k, j) /\ events[e].st.kind = k
      BY <1>0, <1>1, <2>1, <2>3, StepClaim
    <2> QED
      BY <2>1, <2>2, <2>3, <2>4
  <1>9. \A i \in mine : \E j \in 1..h : Steps(k)[j].event = i
    <2> SUFFICES ASSUME NEW i \in mine PROVE \E j \in 1..h : Steps(k)[j].event = i
      OBVIOUS
    <2>1. PICK j \in 1..Len(Steps(k)) : Steps(k)[j].event = i
      BY <1>0, <1>1, ClaimStep
    <2>2. SeqAt(k, j) <= at
      BY <2>1 DEF SeqAt
    <2>3. j <= h
      BY <1>3, <2>2
    <2>4. j \in 1..h
      BY <1>6, <2>3
    <2> QED
      BY <2>1, <2>4
  <1>10. Cardinality(mine) = h
    <2> DEFINE f == [j \in 1..h |-> Steps(k)[j].event]
    <2>1. f \in Surjection(1..h, mine)
      BY <1>8, <1>9 DEF Surjection
    <2>2. ASSUME NEW a \in 1..h, NEW b \in 1..h, f[a] = f[b] PROVE a = b
      <3>1. a \in 1..Len(Steps(k)) /\ b \in 1..Len(Steps(k))
        BY <1>8
      <3>2. SeqAt(k, a) = SeqAt(k, b)
        BY <2>2 DEF SeqAt
      <3>3. SeqAt(k, a) \in Nat /\ ~(a < b) /\ ~(b < a)
        BY <1>0, <1>1, <3>1, <3>2, StepOrder
      <3> QED
        BY <3>3, <1>6
    <2>3. f \in Injection(1..h, mine)
      BY <2>1, <2>2 DEF Surjection, Injection, IsInjective
    <2>4. ExistsBijection(1..h, mine)
      BY <2>1, <2>3 DEF ExistsBijection, Bijection
    <2>5. IsFiniteSet(1..h) /\ Cardinality(1..h) = IF 1 > h THEN 0 ELSE h - 1 + 1
      BY <1>6, FS_Interval
    <2>6. Cardinality(1..h) = h
      BY <1>6, <2>5
    <2> HIDE DEF mine
    <2> QED
      BY <2>4, <2>5, <2>6, FS_Bijection
  <1>11. mine # {} => \E i \in mine :
               /\ \A j \in mine : events[j].seq <= events[i].seq
               /\ events[i].st.to = receipt.state
    <2> SUFFICES ASSUME mine # {}
                 PROVE  \E i \in mine : /\ \A j \in mine : events[j].seq <= events[i].seq
                                        /\ events[i].st.to = receipt.state
      OBVIOUS
    <2>1. h \in 1..h /\ h # 0
      BY <1>6, <1>9
    <2>2. PICK i : i = Steps(k)[h].event
      OBVIOUS
    <2>3. i \in mine /\ events[i].seq = SeqAt(k, h) /\ events[i].st.to = Steps(k)[h].to
      BY <1>0, <1>1, <1>8, <2>1, <2>2, StepClaim
    <2>4. ASSUME NEW j \in mine PROVE events[j].seq <= events[i].seq
      <3>1. PICK b \in 1..h : Steps(k)[b].event = j
        BY <1>9
      <3>2. b \in 1..Len(Steps(k)) /\ h \in 1..Len(Steps(k)) /\ (b = h \/ b < h)
        BY <1>6, <1>8, <2>1
      <3>3. SeqAt(k, b) \in Nat /\ SeqAt(k, h) \in Nat /\ (b < h => SeqAt(k, b) < SeqAt(k, h))
        BY <1>0, <1>1, <3>2, StepOrder
      <3>4. SeqAt(k, b) <= SeqAt(k, h)
        BY <3>2, <3>3
      <3> QED
        BY <2>3, <3>1, <3>4 DEF SeqAt
    <2> QED
      BY <1>7, <2>1, <2>3, <2>4
  <1>12. receipt.closure # 0 => OperatorActed(SequenceOf("task", {"task:completed"}), at)
    <2> SUFFICES ASSUME receipt.closure # 0
                 PROVE  OperatorActed(SequenceOf("task", {"task:completed"}), at)
      OBVIOUS
    <2>1. PICK c : c = receipt.closure
      OBVIOUS
    <2>2. c \in DOMAIN events
      <3>1. c \in 0..Len(events) /\ c # 0
        BY <2>1 DEF CorpusInv, TypeOK
      <3> QED
        BY <3>1, Corpus
    <2>3. /\ events[c].st.kind = "task" /\ events[c].st.to = "task:closed"
          /\ events[c].seq <= at /\ isHumanOperatorEvent(events[c])
      BY <1>5, <2>1 DEF Supported, at
    <2>4. PICK a \in 1..Len(Steps("task")) :
            Steps("task")[a].event = c /\ Steps("task")[a].to = "task:closed"
      BY <1>0, <2>2, <2>3, ClaimStep
    <2>5. SequenceOf("task", {"task:completed"}) < events[c].seq
      BY <1>0, <2>4, ClosedAfterCompletion DEF SeqAt
    <2>6. SequenceOf("task", {"task:completed"}) \in Nat /\ events[c].seq \in Nat
      BY <1>0, <2>2, Completion, Corpus
    <2> QED
      BY <2>2, <2>3, <2>5, <2>6 DEF OperatorActed
  <1> QED
    BY <1>6, <1>7, <1>10, <1>11, <1>12 DEF ReceiptTellsItsMoment, k, at

-----------------------------------------------------------------------------
(* The invariant: what the writer adds is well formed.                      *)

LEMMA ThreeSeq ==
  ASSUME NEW S, NEW a \in S, NEW b \in S, NEW c \in S
  PROVE  <<a, b, c>> \in Seq(S)
  OBVIOUS

LEMMA TwoSeq ==
  ASSUME NEW S, NEW a \in S, NEW b \in S
  PROVE  <<a, b>> \in Seq(S)
  OBVIOUS

LEMMA OneSeq ==
  ASSUME NEW S, NEW a \in S
  PROVE  <<a>> \in Seq(S)
  OBVIOUS

LEMMA NoClaimIn == NoClaim \in ClaimSet /\ NoClaim.kind = "none"
  BY EventsAssumption DEF NoClaim, Claim, ClaimSet

LEMMA Added ==
  ASSUME NEW S, NEW s \in Seq(S), NEW x \in S
  PROVE  /\ Append(s, x) \in Seq(S) /\ Len(Append(s, x)) = Len(s) + 1 /\ Len(s) \in Nat
         /\ \A i \in 1..Len(s) : Append(s, x)[i] = s[i]
         /\ Append(s, x)[Len(s) + 1] = x
  <1>1. Len(s) \in Nat
    OBVIOUS
  <1>2. Append(s, x) \in Seq(S)
    OBVIOUS
  <1>3. Len(Append(s, x)) = Len(s) + 1
    OBVIOUS
  <1>4. \A i \in 1..Len(s) : Append(s, x)[i] = s[i]
    OBVIOUS
  <1>5. Append(s, x)[Len(s) + 1] = x
    OBVIOUS
  <1> QED
    BY <1>1, <1>2, <1>3, <1>4, <1>5

\* One more event.
LEMMA AddEvent ==
  ASSUME CorpusInv, Len(events) < MaxEvents, NEW e \in EventSet, events' = Append(events, e),
         e.st.kind # "none" => /\ e.st.class \in Classes
                               /\ e.st.decision <= Len(events)
  PROVE  /\ events' \in Seq(EventSet) /\ Len(events') = Len(events) + 1
         /\ Len(events') \in Nat /\ Len(events') <= MaxEvents /\ Len(events') >= 3
         /\ \A i \in 1..Len(events') : ClaimOk(i)'
  <1>1. /\ events \in Seq(EventSet) /\ Len(events) \in Nat /\ Len(events) >= 3
        /\ MaxEvents \in Nat
    BY Corpus, EventsAssumption DEF CorpusInv
  <1>2. /\ events' \in Seq(EventSet) /\ Len(events') = Len(events) + 1
        /\ \A i \in 1..Len(events) : events'[i] = events[i]
        /\ events'[Len(events) + 1] = e
    BY <1>1, Added
  <1>3. Len(events') \in Nat /\ Len(events') <= MaxEvents /\ Len(events') >= 3
    BY <1>1, <1>2
  <1>4. ASSUME NEW i \in 1..Len(events') PROVE ClaimOk(i)'
    <2>1. CASE i = Len(events) + 1
      <3>1. e.st \in ClaimSet
        BY DEF EventSet
      <3>2. e.st.decision \in 0..MaxEvents
        BY <3>1 DEF ClaimSet
      <3>3. e.st.kind # "none" => e.st.decision <= Len(events')
        BY <1>1, <1>2, <3>2
      <3> QED
        BY <1>2, <2>1, <3>3 DEF ClaimOk
    <2>2. CASE i # Len(events) + 1
      <3>1. i \in 1..Len(events) /\ events'[i] = events[i]
        BY <1>1, <1>2, <2>2
      <3>2. events[i].st \in ClaimSet
        BY <3>1, Corpus DEF EventSet
      <3>3. events[i].st.decision \in 0..MaxEvents
        BY <3>2 DEF ClaimSet
      <3>4. events[i].st.kind # "none" => /\ events[i].st.class \in Classes
                                          /\ events[i].st.decision <= Len(events)
        BY <3>1 DEF CorpusInv, ClaimOk
      <3>5. events[i].st.kind # "none" => events[i].st.decision <= Len(events')
        BY <1>1, <1>2, <3>3, <3>4
      <3> QED
        BY <3>1, <3>4, <3>5 DEF ClaimOk
    <2> QED
      BY <2>1, <2>2
  <1> QED
    BY <1>2, <1>3, <1>4

\* An entity that takes no step.
LEMMA SameSteps ==
  ASSUME CorpusInv, Len(events') = Len(events) + 1, NEW k \in {"task", "run"},
         entity'[k] = entity[k]
  PROVE  \A i \in 1..Len(Steps(k)') : StepOk(k, i)'
  <1> SUFFICES ASSUME NEW i \in 1..Len(Steps(k)') PROVE StepOk(k, i)'
    OBVIOUS
  <1>1. Steps(k)' = Steps(k)
    BY DEF Steps
  <1>2. Steps(k)[i].event \in 1..Len(events) /\ Len(events) \in Nat
    BY <1>1, History, Corpus
  <1> QED
    BY <1>1, <1>2 DEF StepOk

\* Steps that leave the entities alone.
LEMMA SameEntities ==
  ASSUME CorpusInv, Len(events) < MaxEvents, NEW e \in EventSet, events' = Append(events, e),
         e.st.kind # "none" => /\ e.st.class \in Classes
                               /\ e.st.decision <= Len(events),
         entity' = entity, envelope' = envelope,
         receipt' # NoReceipt => /\ receipt'.commit \in 1..Len(events')
                                 /\ receipt'.closure \in 0..Len(events')
  PROVE  CorpusInv'
  <1>1. /\ events' \in Seq(EventSet) /\ Len(events') = Len(events) + 1
        /\ Len(events') <= MaxEvents /\ Len(events') >= 3
        /\ \A i \in 1..Len(events') : ClaimOk(i)'
    BY AddEvent
  <1>2. \A k \in {"task", "run"} : \A i \in 1..Len(Steps(k)') : StepOk(k, i)'
    BY <1>1, SameSteps
  <1>3. TypeOK'
    BY <1>1 DEF TypeOK, CorpusInv
  <1> QED
    BY <1>1, <1>2, <1>3 DEF CorpusInv

\* A receipt that was there stays as it was.
LEMMA SameReceipt ==
  ASSUME CorpusInv, Len(events') = Len(events) + 1, receipt' = receipt
  PROVE  receipt' # NoReceipt => /\ receipt'.commit \in 1..Len(events')
                                 /\ receipt'.closure \in 0..Len(events')
  <1>1. Len(events) \in Nat
    BY Corpus
  <1>2. receipt # NoReceipt => /\ receipt.commit \in 1..Len(events)
                               /\ receipt.closure \in 0..Len(events)
    BY DEF CorpusInv, TypeOK
  <1>3. 1..Len(events) \subseteq 1..Len(events') /\ 0..Len(events) \subseteq 0..Len(events')
    BY <1>1
  <1> QED
    BY <1>2, <1>3

LEMMA CorpusInit == Init => CorpusInv
  <1> SUFFICES ASSUME Init PROVE CorpusInv
    OBVIOUS
  <1> DEFINE c1 == Opened("task", "task:proposed", "task:ready", 2)
             c2 == Opened("task", "task:ready", "task:running", 3)
             c3 == Opened("run", "run:pending", "run:running", 2)
             e1 == Event(2, "task-transition", "human", "operator-accepted", TRUE, 0,
                         "operator", c1)
             e2 == Event(4, "task-transition", "digital", "runner-reported", TRUE, 0,
                         "envelope", c2)
             e3 == Event(6, "run-transition", "digital", "runner-reported", TRUE, 0,
                         "envelope", c3)
             s1 == Step("task:proposed", "task:ready", 2, "required", 1)
             s2 == Step("task:ready", "task:running", 3, "required", 2)
             s3 == Step("run:pending", "run:running", 2, "required", 3)
  <1>1. /\ MaxEvents \in Nat /\ 0 \in 0..MaxEvents
        /\ 1 \in 1..MaxEvents /\ 2 \in 1..MaxEvents /\ 3 \in 1..MaxEvents
        /\ 2 \in 1..(2 * MaxEvents) /\ 4 \in 1..(2 * MaxEvents) /\ 6 \in 1..(2 * MaxEvents)
    BY EventsAssumption
  <1>2. {"task:proposed", "task:ready", "task:running", "run:pending", "run:running"} \subseteq States
    BY DEF States, TASK_STATES, RUN_STATES
  <1>3. c1 \in ClaimSet /\ c2 \in ClaimSet /\ c3 \in ClaimSet
    BY <1>1, <1>2 DEF Opened, Claim, ClaimSet, Classes
  <1>4. \A c \in {c1, c2, c3} : c.class = "required" /\ c.decision = 0
    BY DEF Opened, Claim
  <1> HIDE DEF c1, c2, c3
  <1>5. e1 \in EventSet /\ e2 \in EventSet /\ e3 \in EventSet
    BY <1>1, <1>3 DEF Event, EventSet
  <1>6. e1.st = c1 /\ e2.st = c2 /\ e3.st = c3
    BY DEF Event
  <1>7. s1 \in StepSet /\ s2 \in StepSet /\ s3 \in StepSet
    BY <1>1, <1>2 DEF Step, StepSet, Classes
  <1>8. s1.event = 1 /\ s2.event = 2 /\ s3.event = 3
    BY DEF Step
  <1>9. events = <<e1, e2, e3>>
    BY DEF Init, c1, c2, c3
  <1>10. /\ entity = [k \in {"task", "run"} |->
              IF k = "task" THEN [state |-> "task:running", rev |-> 3, transitions |-> <<s1, s2>>]
              ELSE [state |-> "run:running", rev |-> 2, transitions |-> <<s3>>]]
         /\ envelope \in BOOLEAN /\ receipt = NoReceipt
    BY DEF Init
  <1> HIDE DEF e1, e2, e3, s1, s2, s3
  <1>11. events \in Seq(EventSet)
    BY <1>5, <1>9, ThreeSeq
  <1>12. Len(events) = 3
    BY <1>9
  <1>13. <<s1, s2>> \in Seq(StepSet) /\ <<s3>> \in Seq(StepSet)
    BY <1>7, TwoSeq, OneSeq
  <1>14. entity \in [{"task", "run"} ->
             [state : States, rev : Nat, transitions : Seq(StepSet)]]
    <2> DEFINE A == [state |-> "task:running", rev |-> 3, transitions |-> <<s1, s2>>]
               B == [state |-> "run:running", rev |-> 2, transitions |-> <<s3>>]
               R == [state : States, rev : Nat, transitions : Seq(StepSet)]
    <2>1. A \in R
      BY <1>2, <1>13
    <2>2. B \in R
      BY <1>2, <1>13
    <2> HIDE DEF A, B, R
    <2>3. entity = [k \in {"task", "run"} |-> IF k = "task" THEN A ELSE B]
      BY <1>10 DEF A, B
    <2>4. entity \in [{"task", "run"} -> R]
      BY <2>1, <2>2, <2>3
    <2> QED
      BY <2>4 DEF R
  <1>15. Steps("task") = <<s1, s2>> /\ Steps("run") = <<s3>>
    BY <1>10 DEF Steps
  <1>16. TypeOK
    BY <1>1, <1>10, <1>11, <1>12, <1>14, EventsAssumption DEF TypeOK
  <1>17. \A i \in 1..Len(events) : ClaimOk(i)
    <2>1. ASSUME NEW i \in 1..3 PROVE i = 1 \/ i = 2 \/ i = 3
      OBVIOUS
    <2>2. events[1] = e1 /\ events[2] = e2 /\ events[3] = e3
      BY <1>9
    <2>3. ClaimOk(1) /\ ClaimOk(2) /\ ClaimOk(3)
      BY <1>4, <1>6, <1>12, <2>2 DEF ClaimOk, Classes
    <2> QED
      BY <1>12, <2>1, <2>3
  <1>18. \A k \in {"task", "run"} : \A i \in 1..Len(Steps(k)) : StepOk(k, i)
    <2>1. Len(<<s1, s2>>) = 2 /\ Len(<<s3>>) = 1
      OBVIOUS
    <2>2. <<s1, s2>>[1] = s1 /\ <<s1, s2>>[2] = s2 /\ <<s3>>[1] = s3
      OBVIOUS
    <2>3. \A i \in 1..2 : StepOk("task", i)
      <3>1. \A i \in 1..2 : i = 1 \/ i = 2
        OBVIOUS
      <3> QED
        BY <1>8, <1>12, <1>15, <2>2, <3>1 DEF StepOk
    <2>4. \A i \in 1..1 : StepOk("run", i)
      <3>1. \A i \in 1..1 : i = 1
        OBVIOUS
      <3> QED
        BY <1>8, <1>12, <1>15, <2>2, <3>1 DEF StepOk
    <2> QED
      BY <1>15, <2>1, <2>3, <2>4
  <1> QED
    BY <1>12, <1>16, <1>17, <1>18 DEF CorpusInv

\* The numbers an event is given.
LEMMA Places ==
  ASSUME CorpusInv, Len(events) < MaxEvents
  PROVE  /\ written = Len(events) /\ written \in Nat /\ written + 1 \in 1..MaxEvents
         /\ {0, written - 1, written} \subseteq 0..MaxEvents
         /\ 2 * written + 2 \in 1..(2 * MaxEvents) /\ 2 * written - 1 \in 1..(2 * MaxEvents)
  <1>1. Len(events) \in Nat /\ Len(events) >= 3 /\ MaxEvents \in Nat
    BY Corpus, EventsAssumption DEF CorpusInv
  <1>2. PICK x : x = Len(events)
    OBVIOUS
  <1>3. /\ x \in Nat /\ x + 1 \in 1..MaxEvents /\ {0, x - 1, x} \subseteq 0..MaxEvents
        /\ 2 * x + 2 \in 1..(2 * MaxEvents) /\ 2 * x - 1 \in 1..(2 * MaxEvents)
    BY <1>1, <1>2
  <1> QED
    BY <1>2, <1>3 DEF written

LEMMA DecideInv ==
  ASSUME CorpusInv, Goes, Decide
  PROVE  CorpusInv'
  <1>1. Len(events) < MaxEvents
    BY DEF Goes, written
  <1>2. PICK a \in {Operator, Agent}, mine \in BOOLEAN, s \in Seqs, p \in {0, written} :
          events' = Append(events, Event(s, "approval", a[1], a[2], mine, p, "operator", NoClaim))
    BY DEF Decide
  <1> DEFINE e == Event(s, "approval", a[1], a[2], mine, p, "operator", NoClaim)
  <1>3. e \in EventSet
    <2>1. s \in 1..(2 * MaxEvents) /\ p \in 0..MaxEvents
      BY <1>1, Places DEF Seqs
    <2>2. a[1] \in {"human", "digital"} /\ a[2] \in {"operator-accepted", "runner-reported"}
      BY DEF Operator, Agent
    <2> QED
      BY <2>1, <2>2, NoClaimIn DEF Event, EventSet
  <1>4. e.st.kind = "none"
    BY NoClaimIn DEF Event
  <1> HIDE DEF e
  <1>5. events' = Append(events, e) /\ UNCHANGED <<entity, envelope, receipt>>
    BY <1>2 DEF Decide, e
  <1>6. Len(events') = Len(events) + 1
    BY <1>1, <1>3, <1>4, <1>5, AddEvent
  <1> QED
    BY <1>1, <1>3, <1>4, <1>5, <1>6, SameEntities, SameReceipt

LEMMA CommitInv ==
  ASSUME CorpusInv, Goes, Commit
  PROVE  CorpusInv'
  <1> DEFINE e == Event(2 * written + 2, "receipt", "digital", "workbench-observed", TRUE, 0,
                        "envelope", NoClaim)
  <1>1. Len(events) < MaxEvents
    BY DEF Goes, written
  <1>2. e \in EventSet
    <2>1. 2 * written + 2 \in 1..(2 * MaxEvents) /\ 0 \in 0..MaxEvents
      BY <1>1, Places
    <2> QED
      BY <2>1, NoClaimIn DEF Event, EventSet
  <1>3. e.st.kind = "none"
    BY NoClaimIn DEF Event
  <1>4. /\ events' = Append(events, e) /\ entity' = entity /\ envelope' = envelope
        /\ receipt'.commit = written + 1 /\ receipt'.closure \in {0, written}
    BY DEF Commit
  <1> HIDE DEF e
  <1>5. Len(events') = Len(events) + 1
    BY <1>1, <1>2, <1>3, <1>4, AddEvent
  <1>6. receipt'.commit \in 1..Len(events') /\ receipt'.closure \in 0..Len(events')
    <2>1. written = Len(events) /\ written \in Nat
      BY <1>1, Places
    <2> QED
      BY <1>4, <1>5, <2>1
  <1> QED
    BY <1>1, <1>2, <1>3, <1>4, <1>6, SameEntities

\* A step of an entity, with the event that claims it or does not.
LEMMA StepInv ==
  ASSUME CorpusInv, Len(events) < MaxEvents, NEW e \in EventSet, events' = Append(events, e),
         e.st.kind # "none" => /\ e.st.class \in Classes
                               /\ e.st.decision <= Len(events),
         NEW k \in {"task", "run"}, NEW to \in States, NEW x \in StepSet, x.event = written + 1,
         entity' = [entity EXCEPT ![k].state = to, ![k].rev = @ + 1,
                                  ![k].transitions = Append(@, x)],
         UNCHANGED <<envelope, receipt>>
  PROVE  CorpusInv'
  <1> DEFINE R == [state : States, rev : Nat, transitions : Seq(StepSet)]
             v == [entity[k] EXCEPT !.state = to, !.rev = @ + 1, !.transitions = Append(@, x)]
  <1>1. entity \in [{"task", "run"} -> R]
    BY DEF CorpusInv, TypeOK
  <1>2. entity' = [entity EXCEPT ![k] = v]
    BY <1>1
  <1>3. entity[k] \in R
    BY <1>1
  <1>4. /\ entity[k].transitions = Steps(k) /\ Steps(k) \in Seq(StepSet)
        /\ entity[k].rev \in Nat /\ entity[k].state \in States
    BY <1>3 DEF Steps
  <1>5. Append(Steps(k), x) \in Seq(StepSet)
    BY <1>4, Added
  <1>6. v \in R /\ v.transitions = Append(Steps(k), x)
    <2> DEFINE y == Append(Steps(k), x)
               q == entity[k].rev + 1
    <2>1. v = [entity[k] EXCEPT !.state = to, !.rev = q, !.transitions = y]
      BY <1>3, <1>4
    <2>2. q \in Nat
      BY <1>4
    <2> HIDE DEF v, y, q
    <2>3. y \in Seq(StepSet)
      BY <1>5 DEF y
    <2>4. v = [state |-> to, rev |-> q, transitions |-> y]
      BY <1>3, <2>1
    <2>5. v \in R /\ v.transitions = y
      BY <2>2, <2>3, <2>4
    <2> QED
      BY <2>5 DEF y
  <1> HIDE DEF v, R
  <1>7. entity' \in [{"task", "run"} -> R] /\ entity'[k] = v
        /\ \A j \in {"task", "run"} \ {k} : entity'[j] = entity[j]
    <2>1. v \in R
      BY <1>6
    <2>2. entity' \in [{"task", "run"} -> R]
      BY <1>1, <1>2, <2>1
    <2>3. entity'[k] = v
      BY <1>1, <1>2
    <2>4. \A j \in {"task", "run"} \ {k} : entity'[j] = entity[j]
      BY <1>1, <1>2
    <2> QED
      BY <2>2, <2>3, <2>4
  <1>8. /\ events' \in Seq(EventSet) /\ Len(events') = Len(events) + 1
        /\ Len(events') <= MaxEvents /\ Len(events') >= 3
        /\ \A i \in 1..Len(events') : ClaimOk(i)'
    BY AddEvent
  <1>9. TypeOK'
    <2>1. receipt' # NoReceipt => /\ receipt'.commit \in 1..Len(events')
                                  /\ receipt'.closure \in 0..Len(events')
      BY <1>8, SameReceipt
    <2>2. envelope' \in BOOLEAN
      BY DEF CorpusInv, TypeOK
    <2> QED
      BY <1>7, <1>8, <2>1, <2>2 DEF TypeOK, R
  <1>10. \A i \in 1..Len(Steps(k)') : StepOk(k, i)'
    <2> SUFFICES ASSUME NEW i \in 1..Len(Steps(k)') PROVE StepOk(k, i)'
      OBVIOUS
    <2>1. Steps(k)' = Append(Steps(k), x)
      BY <1>6, <1>7 DEF Steps
    <2>2. /\ Len(Steps(k)') = Len(Steps(k)) + 1 /\ Len(Steps(k)) \in Nat
          /\ \A j \in 1..Len(Steps(k)) : Steps(k)'[j] = Steps(k)[j]
          /\ Steps(k)'[Len(Steps(k)) + 1] = x
      BY <1>4, <2>1, Added
    <2>3. Len(events) \in Nat /\ written = Len(events)
      BY Corpus, Places
    <2>4. CASE i = Len(Steps(k)) + 1
      BY <1>8, <2>2, <2>3, <2>4 DEF StepOk
    <2>5. CASE i # Len(Steps(k)) + 1
      <3>1. i \in 1..Len(Steps(k))
        BY <2>2, <2>5
      <3>2. Steps(k)[i].event \in 1..Len(events)
        BY <3>1, History
      <3> QED
        BY <1>8, <2>2, <2>3, <3>1, <3>2 DEF StepOk
    <2> QED
      BY <2>4, <2>5
  <1>11. \A j \in {"task", "run"} \ {k} : \A i \in 1..Len(Steps(j)') : StepOk(j, i)'
    BY <1>7, <1>8, SameSteps
  <1> QED
    BY <1>8, <1>9, <1>10, <1>11 DEF CorpusInv

LEMMA MoveInv ==
  ASSUME CorpusInv, Goes, Move
  PROVE  CorpusInv'
  <1>1. Len(events) < MaxEvents
    BY DEF Goes, written
  <1>2. PICK to \in Targets, a \in {Operator, Agent}, slip \in Slips, caused \in BOOLEAN,
             names \in BOOLEAN, d \in {0, written} :
               Recorded(to, a, slip, MoveClaim(to, caused, names, d))
    BY DEF Move
  <1>3. UNCHANGED <<envelope, receipt>>
    BY DEF Move
  <1> DEFINE k == stateKind(to)
             st == MoveClaim(to, caused, names, d)
             e == MoveEvent(to, a, slip, st)
             x == Step(st.from, to, st.rev, StepClass(to), written + 1)
  <1>4. /\ written = Len(events) /\ written \in Nat /\ written + 1 \in 1..MaxEvents
        /\ 0 \in 0..MaxEvents /\ written \in 0..MaxEvents
        /\ 2 * written + 2 \in 1..(2 * MaxEvents) /\ 2 * written - 1 \in 1..(2 * MaxEvents)
    BY <1>1, Places
  <1>5. k \in {"task", "run"} /\ to \in States
    BY DEF stateKind, Targets, States, TASK_STATES, RUN_STATES
  <1>6. entity[k].state \in States /\ entity[k].rev \in Nat /\ entity[k].rev + 1 \in Nat
    BY <1>5 DEF CorpusInv, TypeOK
  <1>7. StepClass(to) \in Classes
    BY DEF Classes, StepClass
  <1>8. /\ st \in ClaimSet /\ st.from = entity[k].state /\ st.rev = entity[k].rev + 1
        /\ st.class = StepClass(to) /\ st.decision = d
    <2> HIDE DEF k
    <2>1. st = Claim(k, entity[k].state, to, entity[k].rev + 1, StepClass(to), caused, d, names,
                     IF caused /\ ~names THEN written ELSE 0)
      BY DEF k, MoveClaim
    <2> HIDE DEF st
    <2>2. d \in 0..MaxEvents /\ (IF caused /\ ~names THEN written ELSE 0) \in 0..MaxEvents
      BY <1>4
    <2>3. st \in ClaimSet
      BY <1>5, <1>6, <1>7, <2>1, <2>2 DEF Claim, ClaimSet
    <2> QED
      BY <2>1, <2>3 DEF Claim
  <1>9. /\ e \in EventSet
        /\ e.st = IF slip = "mutation" THEN NoClaim ELSE st
    <2>1. a[1] \in {"human", "digital"} /\ a[2] \in {"operator-accepted", "runner-reported"}
      BY DEF Operator, Agent
    <2>2. Family(k) \in {"task-transition", "run-transition"}
      BY DEF Family
    <2> DEFINE c == IF slip = "mutation" THEN NoClaim ELSE st
    <2>3. c \in ClaimSet
      BY <1>8, NoClaimIn
    <2>4. e = Event(IF slip = "early" THEN 2 * written - 1 ELSE 2 * written + 2, Family(k), a[1], a[2],
                    slip # "elsewhere", 0, IF slip = "ungranted" THEN "other" ELSE "envelope", c)
      BY DEF MoveEvent
    <2> HIDE DEF c, k, e
    <2>5. e \in EventSet /\ e.st = c
      BY <1>4, <2>1, <2>2, <2>3, <2>4 DEF Event, EventSet
    <2> QED
      BY <2>5 DEF c
  <1>10. x \in StepSet /\ x.event = written + 1
    <2> HIDE DEF st, k
    <2> QED
      BY <1>4, <1>5, <1>6, <1>7, <1>8 DEF Step, StepSet
  <1>11. /\ events' = Append(events, e)
         /\ slip = "claim" => entity' = entity
         /\ slip # "claim" => entity' = [entity EXCEPT ![k].state = to, ![k].rev = @ + 1,
                                                       ![k].transitions = Append(@, x)]
    BY <1>2 DEF Recorded
  <1> HIDE DEF e, x, k, st
  <1>12. e.st.kind # "none" => /\ e.st.class \in Classes
                               /\ e.st.decision <= Len(events)
    <2>1. d <= Len(events)
      BY <1>4
    <2> QED
      BY <1>7, <1>8, <1>9, <2>1, NoClaimIn
  <1>13. CASE slip = "claim"
    <2>1. Len(events') = Len(events) + 1
      BY <1>1, <1>9, <1>11, <1>12, AddEvent
    <2> QED
      BY <1>1, <1>3, <1>9, <1>11, <1>12, <1>13, <2>1, SameEntities, SameReceipt
  <1>14. CASE slip # "claim"
    BY <1>1, <1>3, <1>5, <1>9, <1>10, <1>11, <1>12, <1>14, StepInv
  <1> QED
    BY <1>13, <1>14

-----------------------------------------------------------------------------
(* The theorems.                                                            *)

\* However the writer goes on, a corpus keeps its types, and its steps and
\* claims name its events.
LEMMA CorpusInvariant == Spec => []CorpusInv
  <1>1. CorpusInv /\ [Next]_vars => CorpusInv'
    <2> SUFFICES ASSUME CorpusInv, [Next]_vars PROVE CorpusInv'
      OBVIOUS
    <2>1. CASE Next
      BY <2>1, DecideInv, MoveInv, CommitInv DEF Next
    <2>2. CASE UNCHANGED vars
      BY <2>2 DEF vars, CorpusInv, TypeOK, ClaimOk, StepOk, Steps
    <2> QED
      BY <2>1, <2>2
  <1> QED
    BY <1>1, CorpusInit, PTL DEF Spec

\* checkLifecycle, checkReceipts and checkReceiptReconciliation, for a corpus
\* of any length: what these local rules admit says of no task that it is
\* closed without an operator's act after its completion, lets no ended task
\* go on, and has no receipt that misstates its moment.
THEOREM RulesKeepHistory == Spec => []HistoryKept
  <1>1. CorpusInv => HistoryKept
    BY ClosedIsOperators, EndedStays, ReceiptTells DEF HistoryKept
  <1> QED
    BY <1>1, CorpusInvariant, PTL

-----------------------------------------------------------------------------
(* The log.                                                                *)

LogInv ==
    /\ log \in Seq([seq : Nat, family : {"approval", "projection"}, commit : Nat,
                    whole : BOOLEAN, ack : Nat, async : BOOLEAN, source : Nat,
                    writer : Writers \cup {"none"}])

LEMMA LogStep == LogInv /\ [LogNext]_log => LogInv'
  <1> SUFFICES ASSUME LogInv, LogNext PROVE LogInv'
    BY DEF LogInv
  <1> DEFINE E == [seq : Nat, family : {"approval", "projection"}, commit : Nat,
                   whole : BOOLEAN, ack : Nat, async : BOOLEAN, source : Nat,
                   writer : Writers \cup {"none"}]
  <1>1. Len(log) \in Nat
    BY DEF LogInv
  <1>2. PICK e \in [seq : {2 * Len(log) + 2, 2 * Len(log) - 1} \cap Nat,
                    family : {"approval", "projection"}, commit : 0..2,
                    whole : BOOLEAN, ack : 0..2, async : BOOLEAN,
                    source : 0..Len(log), writer : Writers \cup {"none"}] :
           log' = Append(log, e)
    BY DEF LogNext, Write
  <1>3. \A x \in 0..Len(log) : x \in Nat
    BY <1>1
  <1>4. e \in E
    BY <1>2, <1>3
  <1>5. log \in Seq(E)
    BY DEF LogInv
  <1> HIDE DEF E
  <1>6. log' \in Seq(E)
    BY <1>2, <1>4, <1>5
  <1> QED
    BY <1>6 DEF LogInv, E

\* What a rule may say of an entry.
LEMMA EntryIs ==
  ASSUME LogInv, NEW i \in DOMAIN log
  PROVE  /\ log[i].seq \in Nat /\ log[i].commit \in Nat /\ log[i].ack \in Nat
         /\ log[i].whole \in BOOLEAN
  <1> DEFINE E == [seq : Nat, family : {"approval", "projection"}, commit : Nat,
                   whole : BOOLEAN, ack : Nat, async : BOOLEAN, source : Nat,
                   writer : Writers \cup {"none"}]
  <1>1. log \in Seq(E)
    BY DEF LogInv
  <1> HIDE DEF E
  <1>2. log[i] \in E
    BY <1>1
  <1> QED
    BY <1>2 DEF E

\* What bears authority is not recorded asynchronously.
LEMMA AuthorityIsCommitted ==
  ASSUME LogAdmitted, NEW i \in DOMAIN log, bearsAuthority(log[i])
  PROVE  log[i].commit # 0 /\ log[i].whole
  <1>1. Durable(log[i]) /\ AsyncAllowed(log[i])
    BY DEF LogAdmitted
  <1>2. ~log[i].async
    BY <1>1 DEF AsyncAllowed, Asynchronous, bearsAuthority, AUTHORITY_BEARING_FAMILIES,
       REBUILDABLE_FAMILIES
  <1> QED
    BY <1>1, <1>2 DEF Durable

LEMMA Acked ==
  ASSUME LogInv, LogAdmitted
  PROVE  AckedMeansCommitted
  <1> SUFFICES ASSUME NEW i \in DOMAIN log, NEW j \in DOMAIN log, log[i].ack # 0,
                      bearsAuthority(log[j]), i = j \/ Before(j, i)
               PROVE  log[j].whole /\ log[j].commit # 0 /\ log[j].commit <= log[i].ack
    BY DEF AckedMeansCommitted
  <1>1. log[j].commit # 0 /\ log[j].whole
    BY AuthorityIsCommitted
  <1>2. log[i].commit # 0
    BY AuthorityIsCommitted DEF bearsAuthority
  <1>3. log[i].ack >= log[i].commit
    BY <1>2 DEF LogAdmitted, Durable
  <1>4. i = j \/ log[j].commit <= log[i].commit
    BY <1>1, <1>2 DEF LogAdmitted, CommitOrder
  <1>5. log[i].commit \in Nat /\ log[j].commit \in Nat /\ log[i].ack \in Nat
    BY EntryIs
  <1> QED
    BY <1>1, <1>3, <1>4, <1>5

\* The first named writer of a family there is one of.
LEMMA CutoverExists ==
  ASSUME LogInv, NEW i \in DOMAIN log, log[i].writer # "none"
  PROVE  \E k \in Cutovers(log[i].family) : k \in DOMAIN log /\ ~Before(i, k)
  <1> DEFINE N == {j \in DOMAIN log : log[j].family = log[i].family /\ log[j].writer # "none"}
             T == {log[j].seq : j \in N}
  <1>1. T \subseteq Nat /\ T # {} /\ i \in N
    BY EntryIs
  <1>2. PICK x \in T : \A y \in T : x <= y
    <2> HIDE DEF T
    <2> QED
      BY <1>1, NatLeast
  <1>3. PICK k \in N : x = log[k].seq
    BY <1>2
  <1>4. \A j \in N : ~Before(j, k)
    <2> SUFFICES ASSUME NEW j \in N PROVE ~(log[j].seq < log[k].seq)
      BY DEF Before
    <2>1. log[j].seq \in T /\ log[j].seq \in Nat /\ log[k].seq \in Nat
      BY EntryIs
    <2> QED
      BY <1>2, <1>3, <2>1
  <1>5. k \in Cutovers(log[i].family)
    BY <1>3, <1>4 DEF Cutovers
  <1> QED
    BY <1>1, <1>3, <1>4, <1>5 DEF Before

LEMMA OneWriterIs ==
  ASSUME LogInv, LogAdmitted
  PROVE  OneWriter
  <1> SUFFICES ASSUME NEW i \in DOMAIN log, NEW j \in DOMAIN log,
                      log[i].family = log[j].family, Before(i, j), log[i].writer # "none"
               PROVE  log[j].writer = log[i].writer
    BY DEF OneWriter
  <1>1. PICK k \in Cutovers(log[i].family) : k \in DOMAIN log /\ ~Before(i, k)
    BY CutoverExists
  <1>2. log[i].seq \in Nat /\ log[j].seq \in Nat /\ log[k].seq \in Nat
    BY <1>1, EntryIs
  <1>3. Before(k, j) /\ (Before(k, i) \/ log[k].seq = log[i].seq)
    BY <1>1, <1>2 DEF Before
  <1>4. log[j].writer = log[k].writer
    BY <1>1, <1>3 DEF LogAdmitted, SoleWriter
  <1>5. log[i].writer = log[k].writer
    BY <1>1, <1>3 DEF LogAdmitted, SoleWriter
  <1> QED
    BY <1>4, <1>5

-----------------------------------------------------------------------------
(* The grants.                                                             *)

GrantSet ==
    [supersedes : Nat, grantee : Agents, tools : {{"read"}, {"read", "send"}},
     decision : {"allowed", "denied", "allowed-with-approval"},
     policy : Nat, approval : Nat]
ActSet ==
    [family : {"approval", "artifact", "message", "run-transition"},
     author : {Human, "agent"}, task : Tasks,
     basis : {"membership", "grant", "operator-direct", "policy-default"},
     names : Nat, decision : {"allowed", "denied", "allowed-with-approval"},
     policy : Nat]

\* A grant revises an earlier one, unless it is the root; what rests on another
\* event or on a condition is the agent's, on the task; a run's grants are
\* recorded.
Leans(a) == a.basis = "operator-direct" \/ a.decision # "allowed"
GrantsInv ==
    /\ grants \in Seq(GrantSet) /\ Len(grants) >= 1
    /\ \A g \in DOMAIN grants :
         grants[g].supersedes < g /\ (grants[g].supersedes = 0 => g = 1)
    /\ acts \in Seq(ActSet)
    /\ \A e \in DOMAIN acts : Leans(acts[e])
         => acts[e].author = "agent" /\ acts[e].task = "t"
    /\ bound.grant # 0 => /\ bound.grant \in DOMAIN grants
                          /\ bound.envelope \in DOMAIN grants
                          /\ bound.first \in DOMAIN acts

LEMMA GrantIs ==
  ASSUME GrantsInv, NEW g \in DOMAIN grants
  PROVE  /\ grants[g].supersedes \in Nat /\ grants[g].policy \in Nat
         /\ grants[g].approval \in Nat /\ g \in Nat \ {0}
  <1>1. grants \in Seq(GrantSet) /\ DOMAIN grants = 1..Len(grants) /\ Len(grants) \in Nat
    BY DEF GrantsInv
  <1>2. grants[g] \in GrantSet
    BY <1>1
  <1> QED
    BY <1>1, <1>2 DEF GrantSet

LEMMA IdsAreNat ==
  ASSUME GrantsInv
  PROVE  Ids \subseteq Nat \ {0}
  <1>1. DOMAIN acts = 1..Len(acts) /\ Len(acts) \in Nat
    BY DEF GrantsInv
  <1> QED
    BY <1>1 DEF Ids

\* What a grant in use waits for precedes every use of it.
LEMMA FirstUse ==
  ASSUME GrantsInv, NEW g, NEW e \in Reliances(g)
  PROVE  /\ earliestGrantReliance(g) \in Nat \ {0}
         /\ earliestGrantReliance(g) <= e /\ e \in Ids
  <1>1. Reliances(g) \subseteq Ids
    BY DEF Reliances
  <1>2. Reliances(g) \subseteq Nat /\ Reliances(g) # {}
    BY <1>1, IdsAreNat
  <1>3. PICK x \in Reliances(g) : \A o \in Reliances(g) : x <= o
    BY <1>2, NatLeast
  <1>4. /\ earliestGrantReliance(g) \in Reliances(g)
        /\ \A o \in Reliances(g) : earliestGrantReliance(g) <= o
    BY <1>2, <1>3 DEF earliestGrantReliance
  <1> QED
    BY <1>1, <1>4, IdsAreNat

\* An approval of the task before a grant's first reliance is before them all.
LEMMA ApprovedFirst ==
  ASSUME GrantsInv, NEW g, NEW e \in Reliances(g), NEW p, resolvedHumanApproval(p),
         approvalMatchesScope(p, "t"), BeforeUse(p, earliestGrantReliance(g))
  PROVE  Approved(e)
  <1>1. p \in Ids /\ acts[p].task = "t"
    BY DEF resolvedHumanApproval, approvalMatchesScope
  <1>2. p < earliestGrantReliance(g)
    BY FirstUse DEF BeforeUse, Timely
  <1>3. p \in Nat \ {0} /\ e \in Nat \ {0}
    BY <1>1, FirstUse, IdsAreNat
  <1>4. p \in 1..(e - 1)
    BY <1>2, <1>3, FirstUse
  <1> QED
    BY <1>1, <1>4 DEF Approved

\* A grant relied on was approved first, for its condition and for what it adds.
LEMMA BackedFirst ==
  ASSUME GrantsInv, GrantsAdmitted, NEW g \in DOMAIN grants, NEW e \in Reliances(g)
  PROVE  GrantBacked(g, e)
  <1>1. Effective(g) /\ Relied(g) /\ Revised(g)
    BY DEF GrantsAdmitted, Relied
  <1>2. grants[g].decision # "denied"
    BY <1>1 DEF Effective
  <1>3. grants[g].decision = "allowed-with-approval"
          => ConditionMet(g, earliestGrantReliance(g))
    BY <1>1 DEF Effective
  <1>4. ASSUME grants[g].decision = "allowed-with-approval" PROVE Approved(e)
    BY <1>3, <1>4, ApprovedFirst DEF ConditionMet
  <1>5. ASSUME grants[g].supersedes # 0, broadens(g, grants[g].supersedes)
        PROVE  Approved(e)
    <2> DEFINE p == grants[g].approval
    <2>1. /\ resolvedHumanApproval(p) /\ approvalMatchesScope(p, "t")
          /\ BeforeUse(p, earliestGrantReliance(g))
      BY <1>1, <1>3, <1>5 DEF Revised
    <2> QED
      BY <2>1, ApprovedFirst
  <1> QED
    BY <1>2, <1>4, <1>5 DEF GrantBacked

LEMMA HumanWasFirst ==
  ASSUME GrantsInv, GrantsAdmitted
  PROVE  HumanFirst
  <1>1. ASSUME NEW e \in Ids, acts[e].basis = "grant"
        PROVE  GrantBacked(acts[e].names, e)
    <2>1. acts[e].names \in DOMAIN grants
      BY <1>1 DEF GrantsAdmitted, Based, InGrant
    <2>2. e \in Reliances(acts[e].names)
      BY <1>1 DEF Reliances
    <2> QED
      BY <2>1, <2>2, BackedFirst
  <1>2. ASSUME NEW e \in Ids, acts[e].basis = "operator-direct"
        PROVE  \E h \in 1..(e - 1) : /\ acts[h].author = Human
                                     /\ RoomOf(acts[h].task) = RoomOf("t")
    <2>1. acts[e].author = "agent" /\ acts[e].task = "t"
      BY <1>2 DEF GrantsInv, Ids, Leans
    <2>2. Attributable(e) /\ "agent" # Human
      BY DEF GrantsAdmitted, Based, Human
    <2> DEFINE h == acts[e].names
    <2>3. /\ h \in Ids /\ acts[h].author = Human /\ h < e
          /\ RoomOf(acts[h].task) = RoomOf("t")
      BY <1>2, <2>1, <2>2 DEF Attributable
    <2>4. h \in Nat \ {0} /\ e \in Nat
      BY <2>3, IdsAreNat
    <2>5. h \in 1..(e - 1)
      <3> HIDE DEF h
      <3> QED
        BY <2>3, <2>4
    <2> QED
      BY <2>3, <2>5
  <1>3. ASSUME NEW e \in Ids, acts[e].basis = "policy-default" \/ Bears(e)
        PROVE  /\ acts[e].decision # "denied"
               /\ acts[e].decision = "allowed-with-approval" => Approved(e)
    <2>1. PolicyHolds(e)
      BY <1>3 DEF GrantsAdmitted, Based
    <2>2. ASSUME acts[e].decision = "allowed-with-approval" PROVE Approved(e)
      <3>1. acts[e].task = "t"
        BY <2>2 DEF GrantsInv, Ids, Leans
      <3> DEFINE h == acts[e].policy
      <3>2. /\ h \in Ids /\ resolvedHumanApproval(h) /\ h < e
            /\ acts[h].task = "t"
        BY <2>1, <2>2, <3>1 DEF PolicyHolds, resolvedHumanApproval, approvalMatchesScope
      <3>3. h \in Nat \ {0} /\ e \in Nat
        BY <3>2, IdsAreNat
      <3>4. h \in 1..(e - 1)
        <4> HIDE DEF h
        <4> QED
          BY <3>2, <3>3
      <3> QED
        BY <3>2, <3>4 DEF Approved
    <2> QED
      BY <2>1, <2>2 DEF PolicyHolds
  <1>4. ASSUME bound.grant # 0 PROVE GrantBacked(bound.grant, bound.first)
    <2>1. bound.grant \in DOMAIN grants /\ bound.first \in Ids
      BY <1>4 DEF GrantsInv, Ids
    <2>2. bound.first \in Reliances(bound.grant)
      BY <2>1 DEF Reliances
    <2> QED
      BY <2>1, <2>2, BackedFirst
  <1> QED
    BY <1>1, <1>2, <1>3, <1>4 DEF HumanFirst

\* What a grant in the chain supersedes is in the chain.
LEMMA ChainCloses ==
  ASSUME GrantsInv, NEW g \in DOMAIN grants
  PROVE  /\ g \in Chain(g)
         /\ \A k \in Chain(g) : grants[k].supersedes # 0
              => grants[k].supersedes \in Chain(g) /\ grants[k].supersedes < k
  <1>1. g \in Chain(g)
    BY DEF Chain
  <1>2. ASSUME NEW k \in Chain(g), grants[k].supersedes # 0
        PROVE  grants[k].supersedes \in Chain(g) /\ grants[k].supersedes < k
    <2> DEFINE p == grants[k].supersedes
    <2>1. k \in DOMAIN grants
      BY DEF Chain
    <2>2. p \in Nat /\ p < k /\ k \in Nat
      BY <2>1, GrantIs DEF GrantsInv
    <2>3. DOMAIN grants = 1..Len(grants) /\ Len(grants) \in Nat
      BY DEF GrantsInv
    <2>4. p \in DOMAIN grants
      <3> HIDE DEF p
      <3>1. p # 0
        BY <1>2 DEF p
      <3> QED
        BY <2>1, <2>2, <2>3, <3>1
    <2>5. ASSUME NEW S \in SUBSET DOMAIN grants, g \in S,
                 \A i \in S : grants[i].supersedes # 0 => grants[i].supersedes \in S
          PROVE  p \in S
      <3>1. k \in S
        BY <2>5 DEF Chain
      <3> QED
        BY <1>2, <2>5, <3>1
    <2> QED
      BY <2>2, <2>4, <2>5 DEF Chain
  <1> QED
    BY <1>1, <1>2

\* A set closed under what its members supersede holds the chain.
LEMMA ChainWithin ==
  ASSUME NEW g, NEW S \in SUBSET DOMAIN grants, g \in S,
         \A k \in S : grants[k].supersedes # 0 => grants[k].supersedes \in S
  PROVE  Chain(g) \subseteq S
  BY DEF Chain

LEMMA OneGrantee ==
  ASSUME GrantsInv, GrantsAdmitted, NEW g \in DOMAIN grants
  PROVE  \A h \in Chain(g) : grants[h].grantee = grants[g].grantee
  <1> DEFINE S == {h \in DOMAIN grants : h \in Chain(g) /\ grants[h].grantee = grants[g].grantee}
  <1>1. g \in S
    BY ChainCloses
  <1>2. ASSUME NEW k \in S, grants[k].supersedes # 0
        PROVE  grants[k].supersedes \in S
    <2>1. grants[k].supersedes \in Chain(g) /\ Chain(g) \subseteq DOMAIN grants
      BY <1>2, ChainCloses DEF Chain
    <2>2. grants[k].grantee = grants[grants[k].supersedes].grantee
      BY <1>2 DEF GrantsAdmitted, Revised
    <2> QED
      BY <2>1, <2>2
  <1>3. S \in SUBSET DOMAIN grants
    OBVIOUS
  <1>4. \A k \in S : grants[k].supersedes # 0 => grants[k].supersedes \in S
    BY <1>2
  <1>5. Chain(g) \subseteq S
    <2> HIDE DEF S
    <2> QED
      BY <1>1, <1>3, <1>4, ChainWithin
  <1> QED
    BY <1>5

\* A revision keeps no tool its predecessor has not, but with an approval.
LEMMA ToolInherited ==
  ASSUME GrantsInv, GrantsAdmitted, NEW k \in DOMAIN grants, grants[k].supersedes # 0,
         NEW tool \in grants[k].tools
  PROVE  \/ tool \in grants[grants[k].supersedes].tools
         \/ /\ grants[k].approval \in Ids
            /\ acts[grants[k].approval].author = Human
            /\ acts[grants[k].approval].task = "t"
  <1>1. Revised(k) /\ Effective(k)
    BY DEF GrantsAdmitted
  <1>2. CASE ~broadens(k, grants[k].supersedes)
    BY <1>2 DEF broadens
  <1>3. CASE /\ earliestGrantReliance(k) # 0
             /\ grants[k].decision = "allowed-with-approval"
             /\ ~ConditionMet(k, earliestGrantReliance(k))
    <2>1. Relied(k)
      BY <1>3 DEF Relied, earliestGrantReliance
    <2> QED
      BY <1>1, <1>3, <2>1 DEF Effective
  <1>4. CASE /\ resolvedHumanApproval(grants[k].approval)
             /\ approvalMatchesScope(grants[k].approval, "t")
    BY <1>4 DEF resolvedHumanApproval, approvalMatchesScope
  <1> QED
    BY <1>1, <1>2, <1>3, <1>4 DEF Revised

\* A tool no revision in the chain was approved for comes from the root.
LEMMA ToolFromRoot ==
  ASSUME GrantsInv, GrantsAdmitted, NEW g \in DOMAIN grants, NEW tool \in grants[g].tools
  PROVE  \/ tool \in grants[1].tools
         \/ \E h \in Chain(g) : /\ tool \in grants[h].tools
                                /\ grants[h].approval \in Ids
                                /\ acts[grants[h].approval].author = Human
                                /\ acts[grants[h].approval].task = "t"
  <1> SUFFICES ASSUME \A h \in Chain(g) : ~(/\ tool \in grants[h].tools
                                            /\ grants[h].approval \in Ids
                                            /\ acts[grants[h].approval].author = Human
                                            /\ acts[grants[h].approval].task = "t")
               PROVE  tool \in grants[1].tools
    OBVIOUS
  <1> DEFINE S == {h \in Chain(g) : tool \in grants[h].tools}
  <1>1. g \in S
    BY ChainCloses
  <1>2. S \subseteq DOMAIN grants
    BY DEF Chain
  <1>3. S \subseteq Nat
    BY <1>2, GrantIs
  <1>4. PICK k \in S : \A o \in S : k <= o
    <2> HIDE DEF S
    <2> QED
      BY <1>1, <1>3, NatLeast
  <1>5. k \in DOMAIN grants /\ k \in Chain(g) /\ tool \in grants[k].tools
    BY <1>2
  <1>6. grants[k].supersedes = 0
    <2> SUFFICES ASSUME grants[k].supersedes # 0 PROVE FALSE
      OBVIOUS
    <2>1. grants[k].supersedes \in Chain(g) /\ grants[k].supersedes < k
      BY <1>5, ChainCloses
    <2>2. tool \in grants[grants[k].supersedes].tools
      BY <1>5, ToolInherited
    <2>3. grants[k].supersedes \in S
      BY <2>1, <2>2
    <2>4. k <= grants[k].supersedes /\ k \in Nat /\ grants[k].supersedes \in Nat
      BY <1>3, <1>4, <1>5, <2>3, GrantIs
    <2> QED
      BY <2>1, <2>4
  <1>7. k = 1
    BY <1>5, <1>6 DEF GrantsInv
  <1> QED
    BY <1>5, <1>7

LEMMA ToolsAreTraced ==
  ASSUME GrantsInv, GrantsAdmitted
  PROVE  ToolsTraced
  <1> SUFFICES ASSUME NEW e \in Ids, acts[e].basis = "grant"
               PROVE  /\ \A h \in Chain(acts[e].names) : grants[h].grantee = acts[e].author
                      /\ \A tool \in grants[acts[e].names].tools :
                           \/ tool \in grants[1].tools
                           \/ \E h \in Chain(acts[e].names) :
                                /\ tool \in grants[h].tools
                                /\ grants[h].approval \in Ids
                                /\ acts[grants[h].approval].author = Human
                                /\ acts[grants[h].approval].task = "t"
    BY DEF ToolsTraced
  <1>1. acts[e].names \in DOMAIN grants /\ grants[acts[e].names].grantee = acts[e].author
    BY DEF GrantsAdmitted, Based, InGrant
  <1> QED
    BY <1>1, OneGrantee, ToolFromRoot

LEMMA RunIsWithin ==
  ASSUME GrantsInv, GrantsAdmitted
  PROVE  RunWithinEnvelope
  <1> SUFFICES ASSUME bound.grant # 0
               PROVE  \/ grants[bound.grant].tools \subseteq grants[bound.envelope].tools
                      \/ grants[bound.envelope].approval > bound.first
    BY DEF RunWithinEnvelope
  <1>1. bound.envelope \in DOMAIN grants /\ bound.first \in Nat
    BY IdsAreNat DEF GrantsInv, Ids
  <1>2. grants[bound.envelope].approval \in Nat
    BY <1>1, GrantIs
  <1>3. RunBound
    BY DEF GrantsAdmitted
  <1> QED
    BY <1>1, <1>2, <1>3 DEF RunBound, broadens

LEMMA GrantsStart == GrantsInit => GrantsInv
  <1> SUFFICES ASSUME GrantsInit PROVE GrantsInv
    OBVIOUS
  <1> DEFINE g == Grant(0, "agent", {"read"}, "allowed", 0, 0)
  <1>1. g \in GrantSet /\ g.supersedes = 0
    BY DEF Grant, GrantSet, Agents
  <1> HIDE DEF g
  <1>2. grants = <<g>>
    BY DEF GrantsInit, g
  <1>3. grants \in Seq(GrantSet) /\ Len(grants) = 1 /\ DOMAIN grants = {1} /\ grants[1] = g
    BY <1>1, <1>2
  <1>4. \A i \in DOMAIN grants :
          grants[i].supersedes < i /\ (grants[i].supersedes = 0 => i = 1)
    BY <1>1, <1>3
  <1>5. acts \in Seq(ActSet) /\ DOMAIN acts = {}
    BY DEF GrantsInit
  <1>6. bound.grant = 0
    BY DEF GrantsInit
  <1> QED
    BY <1>3, <1>4, <1>5, <1>6 DEF GrantsInv

LEMMA IssueKeeps ==
  ASSUME GrantsInv, Issue
  PROVE  GrantsInv'
  <1>1. PICK sup \in DOMAIN grants, grantee \in Agents,
             tools \in {{"read"}, {"read", "send"}},
             d \in {"allowed", "denied", "allowed-with-approval"},
             pol \in 0..2, app \in 0..2 :
          /\ (d = "allowed-with-approval") = (pol # 0)
          /\ tools = {"read"} \/ d = "denied" => app = 0
          /\ grantee = "helper" => d = "allowed" /\ app = 0
          /\ grants' = Append(grants, Grant(sup, grantee, tools, d, pol, app))
    BY Zenon DEF Issue
  <1>2. acts' = acts /\ bound' = bound /\ bound.grant = 0
    BY DEF Issue
  <1> DEFINE g == Grant(sup, grantee, tools, d, pol, app)
             n == Len(grants)
  <1>3. sup \in Nat \ {0} /\ pol \in Nat /\ app \in Nat
    BY GrantIs
  <1>4. g \in GrantSet /\ g.supersedes = sup
    BY <1>3 DEF Grant, GrantSet
  <1>5. grants \in Seq(GrantSet) /\ n \in Nat /\ DOMAIN grants = 1..n /\ n >= 1
    BY DEF GrantsInv
  <1>6. grants' = Append(grants, g)
    BY <1>1
  <1> HIDE DEF g
  <1>7. grants' \in Seq(GrantSet)
    BY <1>4, <1>5, <1>6
  <1>8. Len(grants') = n + 1 /\ DOMAIN grants' = 1..(n + 1)
    BY <1>5, <1>6
  <1>9. \A i \in 1..n : grants'[i] = grants[i]
    BY <1>5, <1>6
  <1>10. grants'[n + 1] = g
    BY <1>5, <1>6
  <1>11. \A i \in DOMAIN grants' :
           grants'[i].supersedes < i /\ (grants'[i].supersedes = 0 => i = 1)
    <2> SUFFICES ASSUME NEW i \in 1..(n + 1)
                 PROVE  grants'[i].supersedes < i /\ (grants'[i].supersedes = 0 => i = 1)
      BY <1>8
    <2> HIDE DEF n
    <2>1. CASE i \in 1..n
      BY <2>1, <1>5, <1>9 DEF GrantsInv
    <2>2. CASE i = n + 1
      BY <2>2, <1>3, <1>4, <1>5, <1>10
    <2> QED
      BY <2>1, <2>2, <1>5
  <1>12. Len(grants') >= 1
    BY <1>5, <1>8
  <1> QED
    BY <1>2, <1>7, <1>11, <1>12 DEF GrantsInv

\* Recording an event that rests on nothing, or is the agent's.
LEMMA RecordKeeps ==
  ASSUME GrantsInv, NEW a \in ActSet, Record(a), grants' = grants,
         Leans(a) => a.author = "agent" /\ a.task = "t",
         \/ bound' = bound
         \/ /\ bound'.grant \in DOMAIN grants /\ bound'.envelope \in DOMAIN grants
            /\ bound'.first = Len(acts) + 1
  PROVE  GrantsInv'
  <1> DEFINE n == Len(acts)
  <1>1. acts' = Append(acts, a)
    BY DEF Record
  <1>2. acts \in Seq(ActSet) /\ n \in Nat /\ DOMAIN acts = 1..n
    BY DEF GrantsInv
  <1>3. acts' \in Seq(ActSet)
    BY <1>1, <1>2
  <1>4. DOMAIN acts' = 1..(n + 1)
    BY <1>1, <1>2
  <1>5. \A i \in 1..n : acts'[i] = acts[i]
    BY <1>1, <1>2
  <1>6. acts'[n + 1] = a
    BY <1>1, <1>2
  <1>7. \A e \in DOMAIN acts' : Leans(acts'[e])
          => acts'[e].author = "agent" /\ acts'[e].task = "t"
    <2> SUFFICES ASSUME NEW e \in 1..(n + 1),
                        Leans(acts'[e])
                 PROVE  acts'[e].author = "agent" /\ acts'[e].task = "t"
      BY <1>4
    <2> HIDE DEF n
    <2>1. CASE e \in 1..n
      BY <2>1, <1>2, <1>5 DEF GrantsInv
    <2>2. CASE e = n + 1
      BY <2>2, <1>6
    <2> QED
      BY <2>1, <2>2, <1>2
  <1>8. bound'.grant # 0 => /\ bound'.grant \in DOMAIN grants
                            /\ bound'.envelope \in DOMAIN grants
                            /\ bound'.first \in DOMAIN acts'
    <2> HIDE DEF n
    <2>1. CASE bound' = bound
      BY <2>1, <1>2, <1>4 DEF GrantsInv
    <2>2. CASE /\ bound'.grant \in DOMAIN grants /\ bound'.envelope \in DOMAIN grants
               /\ bound'.first = Len(acts) + 1
      BY <2>2, <1>2, <1>4 DEF n
    <2> QED
      BY <2>1, <2>2
  <1> QED
    BY <1>3, <1>7, <1>8 DEF GrantsInv

LEMMA GrantsStep ==
  ASSUME GrantsInv, GrantsNext
  PROVE  GrantsInv'
  <1>1. CASE Issue
    BY <1>1, IssueKeeps
  <1>2. CASE Approve
    <2>1. PICK who \in {Human, "agent"}, t \in Tasks :
            Record(Plain("approval", who, t, "membership", 0))
      BY <1>2 DEF Approve
    <2> DEFINE a == Plain("approval", who, t, "membership", 0)
    <2>2. a \in ActSet /\ ~Leans(a)
      BY DEF Plain, Act, ActSet, Leans
    <2> HIDE DEF a
    <2> QED
      BY <1>2, <2>1, <2>2, RecordKeeps DEF Approve, a
  <1>3. CASE Use
    <2>1. PICK g \in 1..MaxGrants : Record(Plain("message", "agent", "t", "grant", g))
      BY <1>3 DEF Use
    <2> DEFINE a == Plain("message", "agent", "t", "grant", g)
    <2>2. g \in Nat
      BY ActsAssumption
    <2>3. a \in ActSet /\ a.author = "agent" /\ a.task = "t"
      BY <2>2 DEF Plain, Act, ActSet, Tasks
    <2> HIDE DEF a
    <2> QED
      BY <1>3, <2>1, <2>3, RecordKeeps DEF Use, a
  <1>4. CASE ActDirectly
    <2>1. PICK e \in 1..2 : Record(Plain("message", "agent", "t", "operator-direct", e))
      BY <1>4 DEF ActDirectly
    <2> DEFINE a == Plain("message", "agent", "t", "operator-direct", e)
    <2>2. e \in Nat
      OBVIOUS
    <2>3. a \in ActSet /\ a.author = "agent" /\ a.task = "t"
      BY <2>2 DEF Plain, Act, ActSet, Tasks
    <2> HIDE DEF a
    <2> QED
      BY <1>4, <2>1, <2>3, RecordKeeps DEF ActDirectly, a
  <1>5. CASE ActOnPolicy
    <2>1. PICK d \in Policies, b \in {<<"message", "policy-default">>,
                                      <<"artifact", "membership">>} :
            Record(Act(b[1], "agent", "t", b[2], 0, d[1], d[2]))
      BY <1>5 DEF ActOnPolicy
    <2> DEFINE a == Act(b[1], "agent", "t", b[2], 0, d[1], d[2])
    <2>2. d[1] \in {"allowed", "denied", "allowed-with-approval"} /\ d[2] \in Nat
      BY DEF Policies
    <2>3. b[1] \in {"message", "artifact"} /\ b[2] \in {"policy-default", "membership"}
      OBVIOUS
    <2>4. a \in ActSet /\ a.author = "agent" /\ a.task = "t"
      BY <2>2, <2>3 DEF Act, ActSet, Tasks
    <2> HIDE DEF a
    <2> QED
      BY <1>5, <2>1, <2>4, RecordKeeps DEF ActOnPolicy, a
  <1>6. CASE StartRun
    <2> DEFINE a == Plain("run-transition", "agent", "t", "membership", 0)
    <2>1. a \in ActSet /\ ~Leans(a)
      BY DEF Plain, Act, ActSet, Tasks, Leans
    <2>2. Record(a) /\ grants' = grants
      BY <1>6 DEF StartRun
    <2>3. PICK g \in DOMAIN grants, env \in DOMAIN grants :
            bound' = [grant |-> g, envelope |-> env, first |-> Len(acts) + 1]
      BY <1>6 DEF StartRun
    <2>4. /\ bound'.grant \in DOMAIN grants /\ bound'.envelope \in DOMAIN grants
          /\ bound'.first = Len(acts) + 1
      BY <2>3
    <2> HIDE DEF a
    <2> QED
      BY <2>1, <2>2, <2>4, RecordKeeps
  <1> QED
    BY <1>1, <1>2, <1>3, <1>4, <1>5, <1>6 DEF GrantsNext

\* checkGrantsAndLeases, checkAuthorizationBasis, checkRunBinding and
\* checkAuthority, for a corpus of any size: each rule looks at a grant and
\* the one it revises, at an event and what it names, or at one event after
\* another; together they admit no grant in use with a tool that was neither
\* the root's nor approved, no use of a conditional or broadened grant and no
\* event on a conditional policy before a human's approval, no act on an
\* operator's word before a human event in its room, no run outside its
\* envelope, no acknowledged authority that was not committed, and no
\* second writer.
THEOREM RulesKeepAuthority == GrantsSpec /\ LogSpec => []AuthorityKept
  <1>1. GrantsInv /\ [GrantsNext]_gvars => GrantsInv'
    <2> SUFFICES ASSUME GrantsInv, [GrantsNext]_gvars PROVE GrantsInv'
      OBVIOUS
    <2>1. CASE GrantsNext
      BY <2>1, GrantsStep
    <2>2. CASE UNCHANGED gvars
      BY <2>2 DEF gvars, GrantsInv
    <2> QED
      BY <2>1, <2>2
  <1>2. LogInit => LogInv
    BY DEF LogInit, LogInv
  <1>3. GrantsInv /\ LogInv => AuthorityKept
    BY HumanWasFirst, ToolsAreTraced, RunIsWithin, Acked, OneWriterIs
       DEF AuthorityKept, AuthorityHolds, LogHolds
  <1>4. GrantsSpec => []GrantsInv
    BY <1>1, GrantsStart, PTL DEF GrantsSpec
  <1>5. LogSpec => []LogInv
    BY <1>2, LogStep, PTL DEF LogSpec
  <1> QED
    BY <1>3, <1>4, <1>5, PTL

-----------------------------------------------------------------------------
(* The labels.                                                             *)

Kinds == {"artifact", "packet", "event", "projection", "receipt"}
ItemSet == [kind : Kinds, labels : Labels, from : SUBSET Nat, verified : BOOLEAN,
            cleared : Labels, field : Fields]

\* A thing is drawn from at most two earlier ones.
LabelsInv ==
    /\ items \in Seq(ItemSet)
    /\ \A n \in DOMAIN items :
         /\ items[n].from \subseteq 1..(n - 1)
         /\ IsFiniteSet(items[n].from) /\ Cardinality(items[n].from) <= 2

LEMMA ItemIs ==
  ASSUME LabelsInv, NEW n \in DOMAIN items
  PROVE  /\ items[n].kind \in Kinds
         /\ items[n].labels \in Labels
         /\ items[n].labels.sensitivity \in Nat
         /\ items[n].labels.visibility \in Nat
         /\ items[n].labels.integrity \in Nat
         /\ items[n].cleared.sensitivity \in Nat
         /\ items[n].cleared.visibility \in Nat
         /\ items[n].from \subseteq DOMAIN items
  <1>1. items \in Seq(ItemSet) /\ DOMAIN items = 1..Len(items) /\ Len(items) \in Nat
    BY DEF LabelsInv
  <1>2. items[n] \in ItemSet
    BY <1>1
  <1>3. items[n].kind \in Kinds /\ items[n].labels \in Labels /\ items[n].cleared \in Labels
    BY <1>2 DEF ItemSet
  <1>4. items[n].from \subseteq DOMAIN items
    <2>1. items[n].from \subseteq 1..(n - 1)
      BY DEF LabelsInv
    <2>2. n \in Nat /\ 1..(n - 1) \subseteq 1..Len(items)
      BY <1>1
    <2> QED
      BY <1>1, <2>1, <2>2
  <1> QED
    BY <1>3, <1>4, LabelsRanked

\* A set of one or two is a pair.
LEMMA Pair ==
  ASSUME NEW S, S # {}, IsFiniteSet(S), Cardinality(S) <= 2
  PROVE  \E j, k \in S : S = {j, k}
  <1>1. PICK j \in S : TRUE
    OBVIOUS
  <1>2. IsFiniteSet(S \ {j}) /\ Cardinality(S \ {j}) = Cardinality(S) - 1
    BY FS_RemoveElement
  <1>3. CASE S \ {j} = {}
    <2>1. S = {j, j}
      BY <1>3
    <2> QED
      BY <2>1
  <1>4. CASE S \ {j} # {}
    <2>1. PICK k \in S \ {j} : TRUE
      BY <1>4
    <2> DEFINE T == (S \ {j}) \ {k}
    <2>2. IsFiniteSet(T) /\ Cardinality(T) = Cardinality(S \ {j}) - 1
      BY <1>2, <2>1, FS_RemoveElement
    <2>3. Cardinality(S) \in Nat /\ Cardinality(T) \in Nat
      BY <2>2, FS_CardinalityType
    <2>4. Cardinality(T) = 0
      BY <1>2, <2>2, <2>3
    <2>5. T = {}
      BY <2>2, <2>4, FS_EmptySet
    <2> QED
      BY <2>1, <2>5
  <1> QED
    BY <1>3, <1>4

\* The labels of one or two sources together confine as much as each.
LEMMA Confines ==
  ASSUME NEW ls \in SUBSET Labels, NEW a \in ls, NEW b \in ls, ls = {a, b}, NEW l \in ls
  PROVE  /\ l.tags \subseteq labelsOf(ls).tags
         /\ labelsOf(ls).sensitivity >= l.sensitivity
         /\ labelsOf(ls).visibility <= l.visibility
         /\ labelsOf(ls).integrity <= l.integrity
         /\ labelsOf(ls).sensitivity \in Nat /\ labelsOf(ls).visibility \in Nat
         /\ labelsOf(ls).integrity \in Nat
  <1> DEFINE S == {x.sensitivity : x \in ls}
             V == {x.visibility : x \in ls}
             I == {x.integrity : x \in ls}
  <1>1. S \subseteq Nat /\ V \subseteq Nat /\ I \subseteq Nat
    BY LabelsRanked
  <1>2. l.sensitivity \in S /\ l.visibility \in V /\ l.integrity \in I
    OBVIOUS
  <1>3. S = {a.sensitivity, b.sensitivity}
    OBVIOUS
  <1>4. l.tags \subseteq UNION {x.tags : x \in ls}
    OBVIOUS
  <1>5. /\ labelsOf(ls).tags = UNION {x.tags : x \in ls}
        /\ labelsOf(ls).sensitivity = Max(S)
        /\ labelsOf(ls).visibility = Min(V)
        /\ labelsOf(ls).integrity = Min(I)
    BY DEF labelsOf
  <1> HIDE DEF S, V, I
  <1>6. \E m \in S : \A y \in S : m >= y
    <2>1. a.sensitivity \in Nat /\ b.sensitivity \in Nat
      BY <1>1, <1>3
    <2> QED
      BY <1>3, <2>1
  <1>7. Max(S) \in S /\ \A y \in S : Max(S) >= y
    BY <1>6 DEF Max
  <1>8. \E m \in V : \A y \in V : m <= y
    BY <1>1, <1>2, NatLeast
  <1>9. Min(V) \in V /\ \A y \in V : Min(V) <= y
    BY <1>8 DEF Min
  <1>10. \E m \in I : \A y \in I : m <= y
    BY <1>1, <1>2, NatLeast
  <1>11. Min(I) \in I /\ \A y \in I : Min(I) <= y
    BY <1>10 DEF Min
  <1> QED
    BY <1>1, <1>2, <1>4, <1>5, <1>7, <1>9, <1>11

\* What the rules say of a thing and one it was drawn from.
LEMMA DrawnIsStricter ==
  ASSUME LabelsInv, LabelsAdmitted, NEW n \in DOMAIN items, NEW j \in items[n].from
  PROVE  /\ items[j].labels.tags \subseteq items[n].labels.tags
         /\ items[n].labels.sensitivity >= items[j].labels.sensitivity
         /\ items[n].labels.visibility <= items[j].labels.visibility
         /\ items[n].verified \/ items[n].labels.integrity <= items[j].labels.integrity
  <1> DEFINE i == items[n]
             ls == Sources(i)
             all == labelsOf(ls)
             l == items[j].labels
  <1>1. i.from # {} /\ IsFiniteSet(i.from) /\ Cardinality(i.from) <= 2
    BY DEF LabelsInv
  <1>2. PICK a, b \in i.from : i.from = {a, b}
    BY <1>1, Pair
  <1>3. i.from \subseteq DOMAIN items
    BY ItemIs
  <1>4. ls \in SUBSET Labels /\ l \in ls
    BY <1>3, ItemIs DEF Sources
  <1>5. items[a].labels \in ls /\ items[b].labels \in ls /\ ls = {items[a].labels, items[b].labels}
    BY <1>2 DEF Sources
  <1>6. /\ l.tags \subseteq all.tags
        /\ all.sensitivity >= l.sensitivity /\ all.visibility <= l.visibility
        /\ all.integrity <= l.integrity
        /\ all.sensitivity \in Nat /\ all.visibility \in Nat /\ all.integrity \in Nat
    <2> HIDE DEF ls, l
    <2> QED
      BY <1>4, <1>5, Confines
  <1>7. /\ i.labels.sensitivity \in Nat /\ i.labels.visibility \in Nat
        /\ i.labels.integrity \in Nat /\ i.kind \in Kinds
        /\ l.sensitivity \in Nat /\ l.visibility \in Nat /\ l.integrity \in Nat
    BY <1>3, ItemIs
  <1>8. /\ all.tags \subseteq i.labels.tags
        /\ i.labels.sensitivity >= all.sensitivity
        /\ i.labels.visibility <= all.visibility
        /\ i.verified \/ i.labels.integrity <= all.integrity
    <2>1. CASE i.kind = "artifact"
      <3>1. PreservedDerived(i)
        BY <2>1 DEF LabelsAdmitted
      <3> DEFINE src == IF i.verified THEN [all EXCEPT !.integrity = i.labels.integrity]
                        ELSE all
      <3>2. Stricter(i.labels, src)
        BY <3>1, <1>1 DEF PreservedDerived, Preserves
      <3>3. /\ src.tags = all.tags /\ src.sensitivity = all.sensitivity
            /\ src.visibility = all.visibility
            /\ i.verified \/ src.integrity = all.integrity
        BY DEF labelsOf
      <3> HIDE DEF src, all, i
      <3> QED
        BY <3>2, <3>3 DEF Stricter
    <2>2. CASE i.kind # "artifact"
      <3>1. PreservedAll(i)
        BY <1>7, <2>2 DEF LabelsAdmitted, Kinds, Projected
      <3>2. Stricter(i.labels, all)
        BY <3>1, <1>1 DEF PreservedAll, Preserves
      <3> HIDE DEF all, i
      <3> QED
        BY <3>2 DEF Stricter
    <2> QED
      BY <2>1, <2>2
  <1>9. l.tags \subseteq i.labels.tags
    BY <1>6, <1>8
  <1> HIDE DEF i, all, l
  <1>10. /\ i.labels.sensitivity >= l.sensitivity /\ i.labels.visibility <= l.visibility
         /\ i.verified \/ i.labels.integrity <= l.integrity
    BY <1>6, <1>7, <1>8
  <1> QED
    BY <1>9, <1>10 DEF i, l

\* The ancestors hold what a thing was drawn from, and what theirs were.
LEMMA AncestorsClose ==
  ASSUME LabelsInv, NEW n \in DOMAIN items
  PROVE  /\ items[n].from \subseteq Ancestors(n)
         /\ Ancestors(n) \subseteq DOMAIN items
         /\ \A j \in Ancestors(n) : items[j].from \subseteq Ancestors(n)
  <1>1. items[n].from \subseteq Ancestors(n)
    BY ItemIs DEF Ancestors
  <1>2. Ancestors(n) \subseteq DOMAIN items
    BY DEF Ancestors
  <1>3. ASSUME NEW j \in Ancestors(n), NEW k \in items[j].from
        PROVE  k \in Ancestors(n)
    <2>1. k \in DOMAIN items
      BY <1>2, ItemIs
    <2>2. ASSUME NEW S \in SUBSET DOMAIN items, items[n].from \subseteq S,
                 \A x \in S : items[x].from \subseteq S
          PROVE  k \in S
      <3>1. j \in S
        BY <2>2 DEF Ancestors
      <3> QED
        BY <2>2, <3>1
    <2> QED
      BY <2>1, <2>2 DEF Ancestors
  <1> QED
    BY <1>1, <1>2, <1>3

LEMMA AncestorsWithin ==
  ASSUME NEW n, NEW S \in SUBSET DOMAIN items, items[n].from \subseteq S,
         \A j \in S : items[j].from \subseteq S
  PROVE  Ancestors(n) \subseteq S
  BY DEF Ancestors

\* Secrecy never weakens, through however many steps.
LEMMA AncestorIsOpener ==
  ASSUME LabelsInv, LabelsAdmitted, NEW n \in DOMAIN items, NEW m \in Ancestors(n)
  PROVE  /\ items[m].labels.tags \subseteq items[n].labels.tags
         /\ items[n].labels.sensitivity >= items[m].labels.sensitivity
         /\ items[n].labels.visibility <= items[m].labels.visibility
  <1> DEFINE S == {x \in DOMAIN items :
                     /\ items[x].labels.tags \subseteq items[n].labels.tags
                     /\ items[n].labels.sensitivity >= items[x].labels.sensitivity
                     /\ items[n].labels.visibility <= items[x].labels.visibility}
  <1>1. S \in SUBSET DOMAIN items
    OBVIOUS
  <1>2. items[n].from \subseteq S
    BY ItemIs, DrawnIsStricter
  <1>3. ASSUME NEW j \in S, NEW k \in items[j].from PROVE k \in S
    <2>1. j \in DOMAIN items /\ k \in DOMAIN items
      BY ItemIs
    <2>2. /\ items[k].labels.tags \subseteq items[j].labels.tags
          /\ items[j].labels.sensitivity >= items[k].labels.sensitivity
          /\ items[j].labels.visibility <= items[k].labels.visibility
      BY <2>1, DrawnIsStricter
    <2>3. /\ items[n].labels.sensitivity \in Nat /\ items[n].labels.visibility \in Nat
          /\ items[j].labels.sensitivity \in Nat /\ items[j].labels.visibility \in Nat
          /\ items[k].labels.sensitivity \in Nat /\ items[k].labels.visibility \in Nat
      BY <2>1, ItemIs
    <2>4. items[n].labels.sensitivity >= items[k].labels.sensitivity
      BY <2>2, <2>3
    <2>5. items[n].labels.visibility <= items[k].labels.visibility
      BY <2>2, <2>3
    <2> QED
      BY <2>1, <2>2, <2>4, <2>5
  <1>4. Ancestors(n) \subseteq S
    <2>1. \A j \in S : items[j].from \subseteq S
      BY <1>3
    <2> HIDE DEF S
    <2> QED
      BY <1>1, <1>2, <2>1, AncestorsWithin
  <1> QED
    BY <1>4

LEMMA SecrecyIsCarried ==
  ASSUME LabelsInv, LabelsAdmitted
  PROVE  SecrecyCarried
  <1> SUFFICES ASSUME NEW n \in DOMAIN items, NEW m \in Ancestors(n)
               PROVE  LET seen == IF items[n].kind = "projection" THEN items[n].cleared
                                  ELSE items[n].labels
                      IN  /\ items[m].labels.tags \subseteq seen.tags
                          /\ seen.sensitivity >= items[m].labels.sensitivity
                          /\ seen.visibility <= items[m].labels.visibility
    BY DEF SecrecyCarried
  <1>1. /\ items[m].labels.tags \subseteq items[n].labels.tags
        /\ items[n].labels.sensitivity >= items[m].labels.sensitivity
        /\ items[n].labels.visibility <= items[m].labels.visibility
    BY AncestorIsOpener
  <1>2. CASE items[n].kind # "projection"
    BY <1>1, <1>2
  <1>3. CASE items[n].kind = "projection"
    <2>1. Cleared(items[n])
      BY <1>3 DEF LabelsAdmitted, Projected
    <2>2. m \in DOMAIN items
      BY AncestorsClose
    <2>3. /\ items[m].labels.sensitivity \in Nat /\ items[m].labels.visibility \in Nat
          /\ items[n].labels.sensitivity \in Nat /\ items[n].labels.visibility \in Nat
          /\ items[n].cleared.sensitivity \in Nat /\ items[n].cleared.visibility \in Nat
      BY <2>2, ItemIs
    <2>4. items[m].labels.tags \subseteq items[n].cleared.tags
      BY <1>1, <2>1 DEF Cleared
    <2>5. /\ items[n].cleared.sensitivity >= items[m].labels.sensitivity
          /\ items[n].cleared.visibility <= items[m].labels.visibility
      BY <1>1, <2>1, <2>3 DEF Cleared
    <2> QED
      BY <1>3, <2>4, <2>5
  <1> QED
    BY <1>2, <1>3

\* Integrity rises only at what was verified.
LEMMA IntegrityIsEarned ==
  ASSUME LabelsInv, LabelsAdmitted
  PROVE  IntegrityEarned
  <1> SUFFICES ASSUME NEW n \in DOMAIN items
               PROVE  \A m \in Ancestors(n) :
                        items[n].labels.integrity > items[m].labels.integrity =>
                          \E v \in Ancestors(n) \cup {n} :
                            items[v].verified /\ m \in Ancestors(v)
    BY DEF IntegrityEarned
  <1> DEFINE A == Ancestors(n)
             Earned(m) == \E v \in A \cup {n} : items[v].verified /\ m \in Ancestors(v)
             S == {m \in A : items[n].labels.integrity <= items[m].labels.integrity
                               \/ Earned(m)}
  <1>1. /\ A \subseteq DOMAIN items /\ items[n].from \subseteq A
        /\ \A j \in A : items[j].from \subseteq A
    BY AncestorsClose
  <1>2. items[n].from \subseteq S
    <2> SUFFICES ASSUME NEW j \in items[n].from PROVE j \in S
      OBVIOUS
    <2>1. items[n].verified \/ items[n].labels.integrity <= items[j].labels.integrity
      BY DrawnIsStricter
    <2> QED
      BY <1>1, <2>1
  <1>3. ASSUME NEW j \in S, NEW k \in items[j].from PROVE k \in S
    <2>1. j \in A /\ k \in A /\ j \in DOMAIN items /\ k \in DOMAIN items
      BY <1>1
    <2>2. CASE Earned(j)
      <3>1. PICK v \in A \cup {n} : items[v].verified /\ j \in Ancestors(v)
        BY <2>2
      <3>2. v \in DOMAIN items
        BY <1>1
      <3>3. k \in Ancestors(v)
        BY <3>1, <3>2, AncestorsClose
      <3>4. Earned(k)
        BY <3>1, <3>3
      <3> QED
        BY <2>1, <3>4
    <2>3. CASE items[j].verified
      <3>1. k \in Ancestors(j)
        BY <2>1, AncestorsClose
      <3>2. Earned(k)
        BY <2>1, <2>3, <3>1
      <3> QED
        BY <2>1, <3>2
    <2>4. CASE ~items[j].verified /\ items[n].labels.integrity <= items[j].labels.integrity
      <3>1. items[j].labels.integrity <= items[k].labels.integrity
        BY <2>1, <2>4, DrawnIsStricter
      <3>2. /\ items[n].labels.integrity \in Nat /\ items[j].labels.integrity \in Nat
            /\ items[k].labels.integrity \in Nat
        BY <2>1, ItemIs
      <3>3. items[n].labels.integrity <= items[k].labels.integrity
        BY <2>4, <3>1, <3>2
      <3> QED
        BY <2>1, <3>3
    <2> QED
      BY <2>2, <2>3, <2>4
  <1>4. S \in SUBSET DOMAIN items
    BY <1>1
  <1>5. A \subseteq S
    <2>1. \A j \in S : items[j].from \subseteq S
      BY <1>3
    <2> HIDE DEF S
    <2> QED
      BY <1>2, <1>4, <2>1, AncestorsWithin
  <1> SUFFICES ASSUME NEW m \in A, items[n].labels.integrity > items[m].labels.integrity
               PROVE  Earned(m)
    OBVIOUS
  <1>6. items[n].labels.integrity \in Nat /\ items[m].labels.integrity \in Nat
    BY <1>1, ItemIs
  <1>7. ~(items[n].labels.integrity <= items[m].labels.integrity)
    BY <1>6
  <1> QED
    BY <1>5, <1>7

LEMMA InlineBytesArePublic ==
  ASSUME LabelsInv, LabelsAdmitted
  PROVE  InlineIsPublic
  <1> SUFFICES ASSUME NEW n \in DOMAIN items, items[n].field.inline,
                      NEW m \in Ancestors(n) \cup {n}
               PROVE  items[m].labels.tags = {} /\ items[m].field.tags = {}
    BY DEF InlineIsPublic
  <1>1. m \in DOMAIN items
    BY AncestorsClose
  <1>2. FieldKept(items[n]) /\ FieldKept(items[m])
    BY <1>1 DEF LabelsAdmitted
  <1>3. items[n].labels.tags = {}
    BY <1>2 DEF FieldKept
  <1>4. items[m].labels.tags \subseteq items[n].labels.tags
    BY AncestorIsOpener
  <1> QED
    BY <1>2, <1>3, <1>4 DEF FieldKept

\* Drawing one more thing.
LEMMA DrawKeeps ==
  ASSUME LabelsInv, NEW k \in Kinds, NEW f \in Fields, NEW v \in BOOLEAN,
         NEW c, c \in Labels \/ c = NoClearance, Draw(k, f, v, c)
  PROVE  LabelsInv'
  <1>1. PICK from \in SUBSET {j \in DOMAIN items : items[j].kind \in MayDrawFrom(k)},
             l \in Labels :
          /\ Cardinality(from) <= 2
          /\ items' = Append(items, [kind |-> k, labels |-> l, from |-> from,
                                     verified |-> v, cleared |-> c, field |-> f])
    BY DEF Draw
  <1> DEFINE i == [kind |-> k, labels |-> l, from |-> from, verified |-> v,
                   cleared |-> c, field |-> f]
             n == Len(items)
  <1>2. items \in Seq(ItemSet) /\ n \in Nat /\ DOMAIN items = 1..n
    BY DEF LabelsInv
  <1>3. from \subseteq 1..n /\ from \subseteq Nat
    BY <1>2
  <1>4. IsFiniteSet(from)
    <2>1. IsFiniteSet(1..n)
      BY <1>2, FS_Interval
    <2> HIDE DEF n
    <2> QED
      BY <1>3, <2>1, FS_Subset
  <1>5. c \in Labels
    BY DEF NoClearance
  <1>6. i \in ItemSet /\ i.from = from
    BY <1>3, <1>5 DEF ItemSet
  <1>7. items' = Append(items, i)
    BY <1>1
  <1> HIDE DEF i
  <1>8. items' \in Seq(ItemSet)
    BY <1>2, <1>6, <1>7
  <1>9. DOMAIN items' = 1..(n + 1)
    BY <1>2, <1>7
  <1>10. \A x \in 1..n : items'[x] = items[x]
    BY <1>2, <1>7
  <1>11. items'[n + 1] = i
    BY <1>2, <1>7
  <1>12. ASSUME NEW x \in 1..(n + 1)
         PROVE  /\ items'[x].from \subseteq 1..(x - 1)
                /\ IsFiniteSet(items'[x].from) /\ Cardinality(items'[x].from) <= 2
    <2> HIDE DEF n
    <2>1. CASE x \in 1..n
      BY <2>1, <1>2, <1>10 DEF LabelsInv
    <2>2. CASE x = n + 1
      <3>1. items'[x].from = from
        BY <2>2, <1>6, <1>11
      <3>2. x - 1 = n
        BY <2>2, <1>2
      <3> QED
        BY <1>1, <1>3, <1>4, <3>1, <3>2
    <2> QED
      BY <2>1, <2>2, <1>2
  <1> QED
    BY <1>8, <1>9, <1>12 DEF LabelsInv

LEMMA LabelsStep ==
  ASSUME LabelsInv, LabelsNext
  PROVE  LabelsInv'
  <1>1. NoField \in Fields
    BY DEF Fields
  <1>2. CASE DrawArtifact
    BY <1>1, <1>2, DrawKeeps DEF DrawArtifact, Kinds
  <1>3. CASE DrawPacket
    BY <1>1, <1>3, DrawKeeps DEF DrawPacket, Kinds
  <1>4. CASE DrawEvent
    BY <1>4, DrawKeeps DEF DrawEvent, Kinds
  <1>5. CASE Project
    BY <1>1, <1>5, DrawKeeps DEF Project, Kinds
  <1>6. CASE DrawReceipt
    BY <1>6, DrawKeeps DEF DrawReceipt, Kinds
  <1> QED
    BY <1>2, <1>3, <1>4, <1>5, <1>6 DEF LabelsNext

-----------------------------------------------------------------------------
(* The routes.                                                             *)

PhaseNames == {"inspect", "prepare", "start-or-resume", "stream", "control", "finalize"}
PhaseSet == [phase : PhaseNames, outcome : UNION {Outcomes(p) : p \in PhaseNames},
             spends : BOOLEAN, report : BOOLEAN, seq : Nat]

RoutesInv == phases \in Seq(PhaseSet)

LEMMA PhaseIs ==
  ASSUME RoutesInv
  PROVE  /\ Len(phases) \in Nat /\ DOMAIN phases = 1..Len(phases)
         /\ \A x \in DOMAIN phases : phases[x].seq \in Nat /\ phases[x].phase \in PhaseNames
  <1>1. Len(phases) \in Nat /\ DOMAIN phases = 1..Len(phases)
    BY DEF RoutesInv
  <1>2. \A x \in DOMAIN phases : phases[x] \in PhaseSet
    BY DEF RoutesInv
  <1> QED
    BY <1>1, <1>2 DEF PhaseSet

\* Nothing follows the finalization.
LEMMA FinalizeIsLast ==
  ASSUME RoutesInv, PhaseOrder, NEW l \in DOMAIN phases, phases[l].phase = "finalize"
  PROVE  l = Len(phases)
  <1> SUFFICES ASSUME l # Len(phases) PROVE FALSE
    OBVIOUS
  <1> DEFINE m == l + 1
  <1>1. Len(phases) \in Nat /\ DOMAIN phases = 1..Len(phases)
    BY PhaseIs
  <1>2. m \in 2..Len(phases) /\ m - 1 = l
    BY <1>1
  <1> HIDE DEF m
  <1>3. <<phases[m - 1].phase, phases[m].phase>> \in ALLOWED_PHASE_EDGES
    BY <1>2 DEF PhaseOrder
  <1>4. <<"finalize", phases[m].phase>> \in ALLOWED_PHASE_EDGES
    BY <1>2, <1>3
  <1> QED
    BY <1>4 DEF ALLOWED_PHASE_EDGES

\* A phase with the smaller sequence is the earlier one.
LEMMA PhasesGrow ==
  ASSUME RoutesInv, PhaseOrder, NEW a \in DOMAIN phases, NEW b \in DOMAIN phases,
         phases[a].seq < phases[b].seq
  PROVE  a < b
  <1> DEFINE f == [x \in DOMAIN phases |-> phases[x].seq]
             m == Len(phases)
  <1>1. m \in Nat /\ DOMAIN phases = 1..m
    BY PhaseIs
  <1>2. \A x \in 1..m : f[x] \in Nat
    BY <1>1, PhaseIs
  <1>3. \A x \in 2..m : f[x - 1] < f[x]
    <2> SUFFICES ASSUME NEW x \in 2..m PROVE f[x - 1] < f[x]
      OBVIOUS
    <2>1. x \in DOMAIN phases /\ x - 1 \in DOMAIN phases
      BY <1>1
    <2>2. phases[x - 1].seq < phases[x].seq
      BY DEF PhaseOrder
    <2> QED
      BY <2>1, <2>2
  <1>4. f[a] = phases[a].seq /\ f[b] = phases[b].seq
    OBVIOUS
  <1> HIDE DEF f, m
  <1>5. \A x, y \in 1..m : x < y => f[x] < f[y]
    BY <1>1, <1>2, <1>3, Growing
  <1>6. f[a] \in Nat /\ f[b] \in Nat /\ a \in Nat /\ b \in Nat
    BY <1>1, <1>2
  <1>7. ~(b < a) /\ a # b
    BY <1>1, <1>4, <1>5, <1>6
  <1> QED
    BY <1>6, <1>7

LEMMA PrepareIs ==
  ASSUME RoutesInv, Prepares # {}
  PROVE  Prepare \in DOMAIN phases /\ phases[Prepare].phase = "prepare"
  <1>1. Prepares \subseteq Nat
    BY PhaseIs DEF Prepares
  <1>2. \E x \in Prepares : \A y \in Prepares : x <= y
    BY <1>1, NatLeast
  <1>3. Prepare \in Prepares
    BY <1>2 DEF Prepare
  <1> QED
    BY <1>3 DEF Prepares

LEMMA SpendIsEarned ==
  ASSUME RoutesInv, RoutesAdmitted
  PROVE  SpendEarned
  <1> SUFFICES ASSUME NEW i \in Spending
               PROVE  \E j, k \in 1..(i - 1) :
                        /\ j < k /\ phases[j].phase = "inspect" /\ phases[k].phase = "prepare"
                        /\ phases[k].outcome = "accepted" /\ phases[k].report
                        /\ report.route = run.route
                        /\ \A c \in TaskRequires \cup (report.required \cap DOMAIN report.caps) :
                             c \notin deferred /\ c \in DOMAIN report.caps
                             /\ report.caps[c] # "unavailable"
                        /\ \A l \in DOMAIN phases : phases[l].phase = "finalize" => l >= i
                        /\ run.started
    BY DEF SpendEarned
  <1> DEFINE k == Prepare
  <1>1. i \in DOMAIN phases /\ Spending # {}
    BY DEF Spending
  <1>2. /\ phases[i].phase \notin {"inspect", "prepare"} /\ Prepares # {}
        /\ phases[k].outcome = "accepted" /\ phases[k].seq < phases[i].seq
    BY DEF RoutesAdmitted, SpendPrepared, SpendAccepted
  <1>3. k \in DOMAIN phases /\ phases[k].phase = "prepare"
    BY <1>2, PrepareIs
  <1>4. phases[k].report /\ run.started
    BY <1>1, <1>2 DEF RoutesAdmitted, SpendStarted
  <1>5. ReadsReport
    BY <1>2, <1>4 DEF ReadsReport
  <1>6. PhaseOrder
    BY DEF RoutesAdmitted
  <1> HIDE DEF k
  <1>7. k < i
    BY <1>1, <1>2, <1>3, <1>6, PhasesGrow
  <1>8. Len(phases) \in Nat /\ DOMAIN phases = 1..Len(phases)
    BY PhaseIs
  <1>9. phases[1].phase = "inspect"
    <2>1. phases # <<>>
      BY <1>1, <1>8
    <2> QED
      BY <1>6, <2>1 DEF PhaseOrder
  <1>10. 1 \in 1..(i - 1) /\ k \in 1..(i - 1) /\ 1 < k
    <2>1. k # 1
      BY <1>3, <1>9
    <2> QED
      BY <1>1, <1>3, <1>7, <1>8, <2>1
  <1>11. report.route = run.route
    BY <1>5 DEF RoutesAdmitted, Bound
  <1>12. ~Unavailable
    BY <1>1, <1>5 DEF RoutesAdmitted, Rejected
  <1>13. ASSUME NEW c \in TaskRequires \cup (report.required \cap DOMAIN report.caps)
         PROVE  c \notin deferred /\ c \in DOMAIN report.caps
                /\ report.caps[c] # "unavailable"
    <2>1. CASE c \in TaskRequires
      <3>1. c \in DOMAIN report.caps /\ report.caps[c] # "unavailable"
        BY <1>5, <2>1 DEF RoutesAdmitted, Capable
      <3>2. c \notin deferred
        BY <2>1 DEF TaskRequires, deferred
      <3> QED
        BY <3>1, <3>2
    <2>2. CASE c \in report.required \cap DOMAIN report.caps
      <3>1. c \notin deferred
        BY <2>2 DEF RoutesAdmitted, NothingDeferred
      <3>2. report.caps[c] # "unavailable"
        BY <1>12, <2>2 DEF Unavailable
      <3> QED
        BY <2>2, <3>1, <3>2
    <2> QED
      BY <2>1, <2>2
  <1>14. \A l \in DOMAIN phases : phases[l].phase = "finalize" => l >= i
    <2> SUFFICES ASSUME NEW l \in DOMAIN phases, phases[l].phase = "finalize"
                 PROVE  l >= i
      OBVIOUS
    <2>1. l = Len(phases)
      BY <1>6, FinalizeIsLast
    <2> QED
      BY <1>1, <1>8, <2>1
  <1> QED
    BY <1>2, <1>3, <1>4, <1>9, <1>10, <1>11, <1>13, <1>14

LEMMA EndsWereSeen ==
  ASSUME RoutesInv, RoutesAdmitted
  PROVE  EndsAreSeen
  <1> SUFFICES ASSUME run.state \in TERMINAL_RUN_STATES
               PROVE  \/ phases[Len(phases)].phase = "finalize"
                      \/ run.state = "run:interrupted"
                         /\ \E i \in DOMAIN phases : phases[i].outcome = "halted"
    BY DEF EndsAreSeen
  <1>1. PhaseOrder /\ RunEvidenced
    BY DEF RoutesAdmitted
  <1>2. CASE Has("finalize")
    <2>1. PICK l \in DOMAIN phases : phases[l].phase = "finalize"
      BY <1>2 DEF Has
    <2>2. l = Len(phases)
      BY <1>1, <2>1, FinalizeIsLast
    <2> QED
      BY <2>1, <2>2
  <1>3. CASE ~Has("finalize")
    BY <1>1, <1>3 DEF RunEvidenced
  <1> QED
    BY <1>2, <1>3

LEMMA RoutesStep == RoutesInv /\ [RoutesNext]_rvars => RoutesInv'
  <1> SUFFICES ASSUME RoutesInv, [RoutesNext]_rvars PROVE RoutesInv'
    OBVIOUS
  <1>1. CASE Enter
    <2>1. PICK p \in PhaseNames, spends \in BOOLEAN, early \in BOOLEAN :
            \E o \in Outcomes(p), reads \in BOOLEAN :
              phases' = Append(phases,
                [phase |-> p, outcome |-> o, spends |-> spends, report |-> reads,
                 seq |-> IF early THEN Len(phases) ELSE Len(phases) + 1])
      BY <1>1 DEF Enter, PhaseNames
    <2>2. PICK o \in Outcomes(p), reads \in BOOLEAN :
            phases' = Append(phases,
              [phase |-> p, outcome |-> o, spends |-> spends, report |-> reads,
               seq |-> IF early THEN Len(phases) ELSE Len(phases) + 1])
      BY <2>1
    <2> DEFINE e == [phase |-> p, outcome |-> o, spends |-> spends, report |-> reads,
                     seq |-> IF early THEN Len(phases) ELSE Len(phases) + 1]
    <2>3. (IF early THEN Len(phases) ELSE Len(phases) + 1) \in Nat
      BY PhaseIs
    <2>4. o \in UNION {Outcomes(q) : q \in PhaseNames}
      OBVIOUS
    <2>5. e \in PhaseSet
      BY <2>3, <2>4 DEF PhaseSet
    <2> HIDE DEF e
    <2>6. phases' = Append(phases, e)
      BY <2>2 DEF e
    <2> QED
      BY <2>5, <2>6 DEF RoutesInv
  <1>2. CASE Advance
    BY <1>2 DEF Advance, RoutesInv
  <1>3. CASE UNCHANGED rvars
    BY <1>3 DEF rvars, RoutesInv
  <1> QED
    BY <1>1, <1>2, <1>3 DEF RoutesNext

\* checkLabels, checkPayload and checkRouteControl, for a corpus and a session
\* of any size: the rules compare a thing with what it was drawn from directly
\* and a phase with the one before it; still nothing is shown to a consumer
\* that is not cleared for all its origins, integrity rises only at what was
\* verified, no inline bytes descend from anything secret, a spend follows an
\* accepted preparation of its own route, and an ended run was seen to end.
THEOREM RulesKeepExposure == LabelsSpec /\ RoutesSpec => []ExposureKept
  <1>1. LabelsInit => LabelsInv
    BY DEF LabelsInit, LabelsInv
  <1>2. LabelsInv /\ [LabelsNext]_items => LabelsInv'
    <2> SUFFICES ASSUME LabelsInv, [LabelsNext]_items PROVE LabelsInv'
      OBVIOUS
    <2>1. CASE LabelsNext
      BY <2>1, LabelsStep
    <2>2. CASE UNCHANGED items
      BY <2>2 DEF LabelsInv
    <2> QED
      BY <2>1, <2>2
  <1>3. RoutesInit => RoutesInv
    BY DEF RoutesInit, RoutesInv
  <1>4. LabelsInv /\ RoutesInv => ExposureKept
    BY SecrecyIsCarried, IntegrityIsEarned, InlineBytesArePublic, SpendIsEarned, EndsWereSeen
       DEF ExposureKept, LabelsHold, RoutesHold
  <1>5. LabelsSpec => []LabelsInv
    BY <1>1, <1>2, PTL DEF LabelsSpec
  <1>6. RoutesSpec => []RoutesInv
    BY <1>3, RoutesStep, PTL DEF RoutesSpec
  <1> QED
    BY <1>4, <1>5, <1>6, PTL
=============================================================================
