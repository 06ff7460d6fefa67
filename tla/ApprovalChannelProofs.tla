----------------------- MODULE ApprovalChannelProofs ------------------------
(***************************************************************************)
(* Proofs about ApprovalChannel, for any number of approvals, answers and  *)
(* cancels of a turn.                                                      *)
(*                                                                         *)
(* ChannelHonest is not inductive.  What the turn acts on is a promise     *)
(* that a frame settled some steps before, and that frame was sent before  *)
(* that: the invariant follows an approval from the client to the frame to *)
(* the promise.  A half-closed client's response is on the write chain     *)
(* from the step that ends the turn on, and until the turn's own request   *)
(* was read the read loop has not come to the end of the input.            *)
(***************************************************************************)
EXTENDS ApprovalChannel, SequenceTheorems, TLAPS

\* The client sent this answer.
Said(i, v) == \E n \in DOMAIN answered : answered[n] = <<i, v>>

\* Every answer on its way was sent by the client.
FramesSaid ==
    \A n \in DOMAIN inbound : inbound[n].kind = "answer" =>
        Said(inbound[n].id, inbound[n].verdict)

\* Every promise that resolved to an approval was approved by the client.
PromisesSaid == \A i \in Ids : promise[i] = "approve" => Said(i, "approve")

\* Only ids that were given out wait; the turn waits on an id.
IdsGiven ==
    /\ \A i \in pending : i <= nextId
    /\ turn = "asking" => ask \in Ids

\* The turn's request is first: until it is read, nothing else is.
RequestFirst ==
    turn = "none" /\ link # "gone" /\ closed = "none" =>
        reading /\ inbound # <<>> /\ Head(inbound).kind = "turn"

\* The result of a turn that ended is written or on the write chain.
Answering == delivered # {} \/ \E n \in DOMAIN wire : wire[n].kind = "result"

ResultKept == turn = "done" /\ link # "gone" /\ closed = "none" => Answering

\* A client the listener closed on has its response.
ReleasedAnswered == closed = "listener" /\ link # "gone" => delivered # {}

ChannelInv ==
    /\ TypeOK
    /\ PendingExact /\ IdsGiven
    /\ FramesSaid /\ PromisesSaid /\ ApprovedByClient
    /\ RequestFirst /\ ResultKept /\ ReleasedAnswered

-----------------------------------------------------------------------------
(* Sequences.                                                              *)

\* The frames of a queue once one is added, or the first is taken.
LEMMA AddedFrame ==
  ASSUME NEW S, NEW s \in Seq(S), NEW x \in S
  PROVE  /\ Append(s, x) \in Seq(S) /\ Append(s, x) # <<>>
         /\ \A n \in DOMAIN Append(s, x) :
                \/ Append(s, x)[n] = x
                \/ n \in DOMAIN s /\ Append(s, x)[n] = s[n]
         /\ \A n \in DOMAIN s : n \in DOMAIN Append(s, x) /\ Append(s, x)[n] = s[n]
         /\ \E n \in DOMAIN Append(s, x) : Append(s, x)[n] = x
         /\ s # <<>> => Head(Append(s, x)) = Head(s)
  <1>1. /\ Append(s, x) \in Seq(S) /\ Len(Append(s, x)) = Len(s) + 1 /\ Len(s) \in Nat
        /\ DOMAIN s = 1..Len(s) /\ DOMAIN Append(s, x) = 1..(Len(s) + 1)
        /\ \A n \in 1..Len(s) : Append(s, x)[n] = s[n]
        /\ Append(s, x)[Len(s) + 1] = x
    OBVIOUS
  <1>2. s # <<>> => Len(s) >= 1 /\ Head(s) = s[1] /\ Head(Append(s, x)) = Append(s, x)[1]
    OBVIOUS
  <1> QED
    BY <1>1, <1>2

LEMMA TakenFrame ==
  ASSUME NEW S, NEW s \in Seq(S), s # <<>>
  PROVE  /\ Tail(s) \in Seq(S) /\ Head(s) \in S
         /\ 1 \in DOMAIN s /\ s[1] = Head(s)
         /\ \A n \in DOMAIN Tail(s) : n + 1 \in DOMAIN s /\ Tail(s)[n] = s[n + 1]
         /\ \A n \in DOMAIN s : n = 1 \/ (n - 1 \in DOMAIN Tail(s) /\ Tail(s)[n - 1] = s[n])
  OBVIOUS

-----------------------------------------------------------------------------
(* Types.                                                                  *)

LEMMA TypeInit == Init => TypeOK
  <1> SUFFICES ASSUME Init PROVE TypeOK
    OBVIOUS
  <1>1. [kind |-> "turn"] \in Request \cup Answer
    BY DEF Request
  <1>2. inbound \in Seq(Request \cup Answer)
    BY <1>1 DEF Init
  <1>3. answered \in Seq(Ids \X Verdicts) /\ wire \in Seq(Ask \cup Reply)
    BY DEF Init
  <1>4. cancels \in 0..MaxCancels /\ nextId \in 0..MaxAsks /\ ask \in 0..MaxAsks
    BY BoundsAssumption DEF Init
  <1>5. promise \in [Ids -> Promises]
    BY DEF Init, Promises
  <1> QED
    BY <1>2, <1>3, <1>4, <1>5 DEF Init, TypeOK

LEMMA ClientTypes == TypeOK /\ ClientStep => TypeOK'
  <1> SUFFICES ASSUME TypeOK, ClientStep PROVE TypeOK'
    OBVIOUS
  <1>1. ASSUME NEW i \in Ids, NEW v \in Verdicts, ClientAnswers(i, v) PROVE TypeOK'
    <2>1. [kind |-> "answer", id |-> i, verdict |-> v] \in Request \cup Answer
      BY DEF Answer
    <2>2. inbound' \in Seq(Request \cup Answer) /\ answered' \in Seq(Ids \X Verdicts)
      BY <1>1, <2>1 DEF ClientAnswers, TypeOK
    <2> QED
      BY <1>1, <2>2 DEF ClientAnswers, TypeOK, turnVars
  <1>2. CASE ClientCancels
    <2>1. [kind |-> "cancel"] \in Request \cup Answer
      BY DEF Request
    <2>2. inbound' \in Seq(Request \cup Answer) /\ cancels' \in 0..MaxCancels
      BY <1>2, <2>1, BoundsAssumption DEF ClientCancels, TypeOK
    <2> QED
      BY <1>2, <2>2 DEF ClientCancels, TypeOK, turnVars
  <1>3. CASE ClientHalfCloses \/ ClientCloses
    <2>1. [kind |-> "fin"] \in Request \cup Answer /\ <<>> \in Seq(Request \cup Answer)
      BY DEF Request
    <2>2. PICK kept \in {inbound, <<>>} : inbound' = Append(kept, [kind |-> "fin"])
      BY <1>3 DEF ClientHalfCloses, ClientCloses
    <2>3. kept \in Seq(Request \cup Answer)
      BY <2>1, <2>2 DEF TypeOK
    <2>4. inbound' \in Seq(Request \cup Answer)
      BY <2>1, <2>2, <2>3
    <2> QED
      BY <1>3, <2>4 DEF ClientHalfCloses, ClientCloses, TypeOK, turnVars
  <1> QED
    BY <1>1, <1>2, <1>3 DEF ClientStep

\* A promise is rejected, or takes the verdict of an answer.
LEMMA PromiseTypes ==
  ASSUME TypeOK, NEW D \in SUBSET Ids, NEW p \in Promises,
         promise' = [i \in Ids |-> IF i \in D THEN p ELSE promise[i]]
  PROVE  promise' \in [Ids -> Promises]
  BY DEF TypeOK

LEMMA PeerTypes == TypeOK /\ PeerStep => TypeOK'
  <1> SUFFICES ASSUME TypeOK, PeerStep PROVE TypeOK'
    OBVIOUS
  <1>1. CASE ReceiveTurn
    <2>1. inbound' \in Seq(Request \cup Answer)
      BY <1>1 DEF ReceiveTurn, Receives, TypeOK
    <2> QED
      BY <1>1, <2>1 DEF ReceiveTurn, TypeOK, clientVars
  <1>2. CASE ReceiveCancel
    <2>1. inbound' \in Seq(Request \cup Answer)
      BY <1>2 DEF ReceiveCancel, Receives, TypeOK
    <2>2. PICK ok \in BOOLEAN : wire' = Append(wire, [kind |-> "cancelReply", ok |-> ok])
      BY <1>2 DEF ReceiveCancel, TypeOK
    <2>3. [kind |-> "cancelReply", ok |-> ok] \in Ask \cup Reply
      BY DEF Reply
    <2>4. wire' \in Seq(Ask \cup Reply)
      BY <2>2, <2>3 DEF TypeOK
    <2>5. promise' \in [Ids -> Promises] /\ pending' \subseteq Ids
      BY <1>2 DEF ReceiveCancel, RejectPending, TypeOK, Promises
    <2>6. accepting' \in BOOLEAN /\ aborted' \in BOOLEAN
      BY <1>2 DEF ReceiveCancel, TypeOK
    <2> QED
      BY <1>2, <2>1, <2>4, <2>5, <2>6 DEF ReceiveCancel, TypeOK, clientVars
  <1>3. CASE ReceiveAnswer
    <2>1. inbound' \in Seq(Request \cup Answer) /\ Head(inbound) \in Request \cup Answer
      BY <1>3, TakenFrame DEF ReceiveAnswer, Receives, TypeOK
    <2>2. SettledBy(Head(inbound)) \in Promises
      BY <1>3, <2>1
      DEF ReceiveAnswer, Receives, Request, Answer, Verdicts, SettledBy, Promises
    <2>3. promise' \in [Ids -> Promises] /\ pending' \subseteq Ids
      BY <1>3, <2>2 DEF ReceiveAnswer, TypeOK, Correlates
    <2> QED
      BY <1>3, <2>1, <2>3 DEF ReceiveAnswer, TypeOK, clientVars, turnVars
  <1>4. CASE EndReadLoop
    <2>1. inbound' \in Seq(Request \cup Answer)
      <3>1. inbound' = inbound \/ (inbound # <<>> /\ inbound' = Tail(inbound))
        BY <1>4 DEF EndReadLoop, Receives
      <3>2. inbound \in Seq(Request \cup Answer)
        BY DEF TypeOK
      <3>3. CASE inbound' = inbound
        BY <3>2, <3>3
      <3>4. CASE inbound # <<>> /\ inbound' = Tail(inbound)
        BY <3>2, <3>4
      <3> QED
        BY <3>1, <3>3, <3>4
    <2>2. promise' \in [Ids -> Promises] /\ pending' \subseteq Ids
      BY <1>4 DEF EndReadLoop, FailPending, RejectPending, TypeOK, Promises
    <2> QED
      BY <1>4, <2>1, <2>2 DEF EndReadLoop, TypeOK, clientVars, turnVars
  <1>5. CASE WriteFrame
    <2>1. Head(wire) \in Ask \cup Reply /\ wire' \in Seq(Ask \cup Reply)
      BY <1>5, TakenFrame DEF WriteFrame, TypeOK
    <2>2. /\ Head(wire).kind = "result" => Head(wire).outcome \in Outcomes
          /\ Head(wire).kind = "ask" => Head(wire).id \in Ids
      BY <2>1 DEF Ask, Reply
    <2>3. delivered' \subseteq Outcomes /\ asked' \subseteq Ids
      BY <1>5, <2>2 DEF WriteFrame, TypeOK
    <2>4. promise' \in [Ids -> Promises] /\ pending' \subseteq Ids
      BY <1>5 DEF WriteFrame, TypeOK, Promises
    <2> QED
      BY <1>5, <2>1, <2>3, <2>4 DEF WriteFrame, TypeOK, turnVars
  <1>6. CASE CloseConnection
    BY <1>6 DEF CloseConnection, TypeOK, clientVars, turnVars
  <1> QED
    BY <1>1, <1>2, <1>3, <1>4, <1>5, <1>6 DEF PeerStep

\* The result of the turn goes on the write chain.
LEMMA EndTurnTypes ==
  ASSUME TypeOK, NEW outcome \in Outcomes, EndTurn(outcome)
  PROVE  wire' \in Seq(Ask \cup Reply) /\ ask' \in 0..MaxAsks
  <1>1. [kind |-> "result", outcome |-> outcome] \in Ask \cup Reply
    BY DEF Reply
  <1> QED
    BY <1>1, BoundsAssumption DEF EndTurn, TypeOK

LEMMA TurnTypes == TypeOK /\ IdsGiven /\ TurnStep => TypeOK'
  <1> SUFFICES ASSUME TypeOK, IdsGiven, TurnStep PROVE TypeOK'
    OBVIOUS
  <1>1. CASE ApprovalReturns
    <2>1. ask \in Ids
      BY <1>1 DEF ApprovalReturns, IdsGiven
    <2>2. CASE EndTurn("aborted") /\ ran' = ran /\ aborted' \in BOOLEAN
      <3>1. wire' \in Seq(Ask \cup Reply) /\ ask' \in 0..MaxAsks
        BY <2>2, EndTurnTypes DEF Outcomes
      <3> QED
        BY <1>1, <2>2, <3>1 DEF ApprovalReturns, EndTurn, TypeOK, clientVars
    <2>3. CASE turn' = "working" /\ ask' = 0 /\ UNCHANGED <<aborted, accepting, wire>>
               /\ ran' \in {ran, ran \cup {<<ask, aborted>>}}
      BY <1>1, <2>1, <2>3, BoundsAssumption DEF ApprovalReturns, TypeOK, clientVars
    <2> QED
      BY <1>1, <2>2, <2>3 DEF ApprovalReturns, TypeOK
  <1>2. CASE FinishTurn
    <2>1. wire' \in Seq(Ask \cup Reply) /\ ask' \in 0..MaxAsks
      BY <1>2, EndTurnTypes DEF FinishTurn, Outcomes
    <2> QED
      BY <1>2, <2>1 DEF FinishTurn, EndTurn, TypeOK, clientVars
  <1> QED
    BY <1>1, <1>2 DEF TurnStep

LEMMA OtherTypes ==
  TypeOK /\ (Shutdown \/ AskApproval \/ WithdrawApproval) => TypeOK'
  <1> SUFFICES ASSUME TypeOK, Shutdown \/ AskApproval \/ WithdrawApproval PROVE TypeOK'
    OBVIOUS
  <1>1. CASE Shutdown
    <2>1. promise' \in [Ids -> Promises] /\ pending' \subseteq Ids
      BY <1>1 DEF Shutdown, FailPending, RejectPending, TypeOK, Promises
    <2> QED
      BY <1>1, <2>1 DEF Shutdown, TypeOK, clientVars, turnVars
  <1>2. CASE AskApproval
    <2>1. nextId + 1 \in Ids /\ nextId' \in 0..MaxAsks /\ ask' \in 0..MaxAsks
      BY <1>2, BoundsAssumption DEF AskApproval, TypeOK, Ids
    <2>2. [kind |-> "ask", id |-> nextId + 1] \in Ask \cup Reply
      BY <2>1 DEF Ask
    <2>3. wire' \in Seq(Ask \cup Reply)
      <3>1. wire' = wire \/ wire' = Append(wire, [kind |-> "ask", id |-> nextId + 1])
        BY <1>2 DEF AskApproval
      <3>2. wire \in Seq(Ask \cup Reply)
        BY DEF TypeOK
      <3> QED
        BY <2>2, <3>1, <3>2
    <2>4. promise' \in [Ids -> Promises] /\ pending' \subseteq Ids
      BY <1>2, <2>1 DEF AskApproval, TypeOK, Promises
    <2> QED
      BY <1>2, <2>1, <2>3, <2>4 DEF AskApproval, TypeOK, clientVars
  <1>3. CASE WithdrawApproval
    BY <1>3 DEF WithdrawApproval, TypeOK, Promises, clientVars, turnVars
  <1> QED
    BY <1>1, <1>2, <1>3

LEMMA TypeStep == TypeOK /\ IdsGiven /\ [Next]_vars => TypeOK'
  <1>1. TypeOK /\ UNCHANGED vars => TypeOK'
    BY DEF TypeOK, vars, clientVars, turnVars
  <1> QED
    BY <1>1, ClientTypes, PeerTypes, TurnTypes, OtherTypes DEF Next

-----------------------------------------------------------------------------
(* What is pending.                                                        *)

\* Promises settle, and those that wait are still pending.
LEMMA Settling ==
  ASSUME PendingExact, IdsGiven, pending' \subseteq pending,
         \A i \in Ids : IF i \in pending' THEN promise'[i] = promise[i]
                        ELSE promise'[i] # "waiting",
         nextId' = nextId, turn' = "asking" => turn = "asking" /\ ask' = ask
  PROVE  PendingExact' /\ IdsGiven'
  BY DEF PendingExact, IdsGiven

LEMMA PendingStep ==
  ASSUME TypeOK, PendingExact, IdsGiven, [Next]_vars
  PROVE  PendingExact' /\ IdsGiven'
  <1> USE DEF TypeOK
  <1>1. CASE UNCHANGED <<pending, promise, nextId>>
             /\ (turn' = "asking" => turn = "asking" /\ ask' = ask)
    BY <1>1, Settling DEF PendingExact
  <1>2. CASE UNCHANGED vars
    BY <1>1, <1>2 DEF vars, turnVars
  <1>3. CASE ClientStep
    BY <1>1, <1>3
    DEF ClientStep, ClientAnswers, ClientCancels, ClientHalfCloses, ClientCloses, turnVars
  <1>4. CASE ReceiveTurn \/ CloseConnection \/ FinishTurn
    BY <1>1, <1>4 DEF ReceiveTurn, CloseConnection, FinishTurn, EndTurn, turnVars
  <1>5. CASE ApprovalReturns
    BY <1>1, <1>5 DEF ApprovalReturns, EndTurn
  <1>6. CASE RejectPending /\ UNCHANGED <<nextId, turn, ask>>
    BY <1>6, Settling DEF RejectPending, PendingExact
  <1>7. CASE ReceiveCancel
    BY <1>1, <1>6, <1>7 DEF ReceiveCancel
  <1>8. CASE EndReadLoop \/ Shutdown
    BY <1>6, <1>8 DEF EndReadLoop, Shutdown, FailPending, turnVars
  <1>9. CASE ReceiveAnswer
    <2>1. SettledBy(Head(inbound)) # "waiting"
      <3>1. Head(inbound) \in Request \cup Answer
        BY <1>9, TakenFrame DEF ReceiveAnswer, Receives
      <3> QED
        BY <1>9, <3>1 DEF ReceiveAnswer, Receives, Request, Answer, Verdicts, SettledBy
    <2>2. \A i \in Ids : IF i \in pending' THEN promise'[i] = promise[i]
                         ELSE promise'[i] # "waiting"
      BY <1>9, <2>1 DEF ReceiveAnswer, Correlates, PendingExact
    <2> QED
      BY <1>9, <2>2, Settling DEF ReceiveAnswer, Correlates, turnVars
  <1>10. CASE WriteFrame
    <2>1. PICK D \in SUBSET pending :
            /\ pending' = pending \ D
            /\ promise' = [i \in Ids |-> IF i \in D THEN "rejected" ELSE promise[i]]
      <3>1. FailedAsk(Head(wire)) \subseteq pending
        BY DEF FailedAsk
      <3> QED
        BY <1>10, <3>1 DEF WriteFrame
    <2>2. \A i \in Ids : IF i \in pending' THEN promise'[i] = promise[i]
                         ELSE promise'[i] # "waiting"
      BY <2>1 DEF PendingExact
    <2> QED
      BY <1>10, <2>1, <2>2, Settling DEF WriteFrame, turnVars
  <1>11. CASE WithdrawApproval
    <2>1. \A i \in Ids : IF i \in pending' THEN promise'[i] = promise[i]
                         ELSE promise'[i] # "waiting"
      BY <1>11 DEF WithdrawApproval, PendingExact
    <2> QED
      BY <1>11, <2>1, Settling DEF WithdrawApproval, turnVars
  <1>12. CASE AskApproval
    <2>1. nextId + 1 \in Ids /\ nextId + 1 \notin pending /\ nextId \in Nat
      BY <1>12, BoundsAssumption DEF AskApproval, Ids, IdsGiven
    <2>2. PendingExact'
      BY <1>12, <2>1 DEF AskApproval, PendingExact
    <2>3. ask' \in Ids /\ nextId' = nextId + 1 /\ pending' \subseteq pending \cup {nextId + 1}
      BY <1>12, <2>1 DEF AskApproval
    <2>4. \A i \in pending' : i <= nextId + 1
      <3> SUFFICES ASSUME NEW i \in pending' PROVE i <= nextId + 1
        OBVIOUS
      <3>1. CASE i = nextId + 1
        BY <2>1, <3>1
      <3>2. CASE i # nextId + 1
        <4>1. i \in pending /\ i \in Int
          BY <2>3, <3>2, BoundsAssumption DEF TypeOK, Ids
        <4>2. i <= nextId
          BY <4>1 DEF IdsGiven
        <4> QED
          BY <2>1, <4>1, <4>2
      <3> QED
        BY <3>1, <3>2
    <2>5. IdsGiven'
      BY <2>3, <2>4 DEF IdsGiven
    <2> QED
      BY <2>2, <2>5
  <1> QED
    BY <1>2, <1>3, <1>4, <1>5, <1>7, <1>8, <1>9, <1>10, <1>11, <1>12
    DEF Next, PeerStep, TurnStep

-----------------------------------------------------------------------------
(* What the client said.                                                   *)

\* The history of answers only grows.
LEMMA SaidKept ==
  ASSUME TypeOK, [Next]_vars, NEW i, NEW v, Said(i, v)
  PROVE  Said(i, v)'
  <1>1. CASE answered' = answered
    BY <1>1 DEF Said
  <1>2. ASSUME NEW j \in Ids, NEW w \in Verdicts, ClientAnswers(j, w)
        PROVE  Said(i, v)'
    <2>1. answered \in Seq(Ids \X Verdicts) /\ <<j, w>> \in Ids \X Verdicts
          /\ answered' = Append(answered, <<j, w>>)
      BY <1>2 DEF TypeOK, ClientAnswers
    <2>2. PICK n \in DOMAIN answered : answered[n] = <<i, v>>
      BY DEF Said
    <2>3. n \in DOMAIN answered' /\ answered'[n] = answered[n]
      BY <2>1, <2>2, AddedFrame
    <2> QED
      BY <2>2, <2>3 DEF Said
  <1>3. answered' = answered \/ \E j \in Ids, w \in Verdicts : ClientAnswers(j, w)
    BY DEF Next, ClientStep, PeerStep, TurnStep, vars, clientVars, ClientCancels,
           ClientHalfCloses, ClientCloses, ReceiveTurn, ReceiveCancel, ReceiveAnswer,
           EndReadLoop, WriteFrame, CloseConnection, ApprovalReturns, FinishTurn,
           Shutdown, AskApproval, WithdrawApproval
  <1> QED
    BY <1>1, <1>2, <1>3

\* A queue that gains a frame the client said, or loses one.
LEMMA FramesAdded ==
  ASSUME TypeOK, [Next]_vars, FramesSaid, NEW x \in Request \cup Answer,
         NEW kept \in {inbound, <<>>}, inbound' = Append(kept, x),
         x.kind = "answer" => Said(x.id, x.verdict)'
  PROVE  FramesSaid'
  <1>1. kept \in Seq(Request \cup Answer)
    <2>1. inbound \in Seq(Request \cup Answer) /\ <<>> \in Seq(Request \cup Answer)
      BY DEF TypeOK
    <2> QED
      BY <2>1
  <1>2. SUFFICES ASSUME NEW n \in DOMAIN inbound', NEW y, y = inbound'[n], y.kind = "answer"
                 PROVE  Said(y.id, y.verdict)'
    BY DEF FramesSaid, Said
  <1>3. y = x \/ (n \in DOMAIN kept /\ y = kept[n])
    BY <1>1, <1>2, AddedFrame
  <1>4. CASE y = x
    BY <1>2, <1>4
  <1>5. CASE n \in DOMAIN kept /\ y = kept[n]
    <2>1. kept = inbound
      BY <1>5
    <2>2. Said(y.id, y.verdict)
      BY <1>2, <1>5, <2>1 DEF FramesSaid
    <2> QED
      BY <2>2, SaidKept
  <1> QED
    BY <1>3, <1>4, <1>5

LEMMA FramesTaken ==
  ASSUME TypeOK, [Next]_vars, FramesSaid,
         inbound' = inbound \/ (inbound # <<>> /\ inbound' = Tail(inbound))
  PROVE  FramesSaid'
  <1>1. inbound \in Seq(Request \cup Answer)
    BY DEF TypeOK
  <1>2. SUFFICES ASSUME NEW n \in DOMAIN inbound', NEW y, y = inbound'[n], y.kind = "answer"
                 PROVE  Said(y.id, y.verdict)'
    BY DEF FramesSaid, Said
  <1>3. PICK m \in DOMAIN inbound : y = inbound[m]
    BY <1>1, <1>2, TakenFrame
  <1>4. Said(y.id, y.verdict)
    BY <1>2, <1>3 DEF FramesSaid
  <1> QED
    BY <1>4, SaidKept

\* No new approval among the promises, and none acted on.
LEMMA NothingApproved ==
  ASSUME TypeOK, [Next]_vars, PromisesSaid, ApprovedByClient,
         \A i \in Ids : promise'[i] = "approve" => promise[i] = "approve", ran' = ran
  PROVE  PromisesSaid' /\ ApprovedByClient'
  <1>1. PromisesSaid'
    BY SaidKept DEF PromisesSaid
  <1>2. ASSUME NEW r \in ran PROVE Said(r[1], "approve")' /\ r[2] = FALSE
    <2>1. Said(r[1], "approve") /\ r[2] = FALSE
      BY <1>2 DEF ApprovedByClient, Said
    <2> QED
      BY <2>1, SaidKept
  <1>3. ApprovedByClient'
    BY <1>2 DEF ApprovedByClient, Said
  <1> QED
    BY <1>1, <1>3

LEMMA SaidStep ==
  ASSUME TypeOK, IdsGiven, FramesSaid, PromisesSaid, ApprovedByClient, [Next]_vars
  PROVE  FramesSaid' /\ PromisesSaid' /\ ApprovedByClient'
  <1> DEFINE Quiet == UNCHANGED <<promise, ran>>
  <1>1. ASSUME Quiet PROVE PromisesSaid' /\ ApprovedByClient'
    BY <1>1, NothingApproved
  <1>2. ASSUME NEW i \in Ids, NEW v \in Verdicts, ClientAnswers(i, v)
        PROVE  FramesSaid' /\ Quiet
    <2> DEFINE x == [kind |-> "answer", id |-> i, verdict |-> v]
    <2>1. x \in Request \cup Answer /\ x.kind = "answer" /\ x.id = i /\ x.verdict = v
      BY DEF Answer
    <2>2. inbound' = Append(inbound, x) /\ answered' = Append(answered, <<i, v>>)
          /\ UNCHANGED <<promise, ran>>
      BY <1>2 DEF ClientAnswers, turnVars
    <2>3. Said(i, v)'
      <3>1. answered \in Seq(Ids \X Verdicts) /\ <<i, v>> \in Ids \X Verdicts
        BY DEF TypeOK
      <3> QED
        BY <2>2, <3>1, AddedFrame DEF Said
    <2> HIDE DEF x
    <2> QED
      BY <2>1, <2>2, <2>3, FramesAdded
  <1>3. CASE ClientCancels \/ ClientHalfCloses \/ ClientCloses
    <2>1. PICK x \in Request, kept \in {inbound, <<>>} :
              inbound' = Append(kept, x) /\ x.kind # "answer"
      <3>1. [kind |-> "cancel"] \in Request /\ [kind |-> "fin"] \in Request
        BY DEF Request
      <3> QED
        BY <1>3, <3>1 DEF ClientCancels, ClientHalfCloses, ClientCloses
    <2>2. FramesSaid'
      BY <2>1, FramesAdded
    <2>3. Quiet
      BY <1>3 DEF ClientCancels, ClientHalfCloses, ClientCloses, turnVars
    <2> QED
      BY <1>1, <2>2, <2>3
  <1>4. CASE ReceiveTurn \/ CloseConnection \/ UNCHANGED vars
    <2>1. inbound' = inbound \/ (inbound # <<>> /\ inbound' = Tail(inbound))
      BY <1>4 DEF ReceiveTurn, Receives, CloseConnection, vars
    <2>2. Quiet
      BY <1>4 DEF ReceiveTurn, CloseConnection, vars, turnVars
    <2> QED
      BY <1>1, <2>1, <2>2, FramesTaken
  <1>5. ASSUME RejectPending PROVE \A i \in Ids : promise'[i] = "approve" => promise[i] = "approve"
    BY <1>5 DEF RejectPending
  <1>6. CASE ReceiveCancel \/ EndReadLoop \/ Shutdown
    <2>1. inbound' = inbound \/ (inbound # <<>> /\ inbound' = Tail(inbound))
      BY <1>6 DEF ReceiveCancel, EndReadLoop, Shutdown, Receives
    <2>2. RejectPending \/ promise' = promise
      BY <1>6 DEF ReceiveCancel, EndReadLoop, Shutdown, FailPending
    <2>3. ran' = ran
      BY <1>6 DEF ReceiveCancel, EndReadLoop, Shutdown, turnVars
    <2> QED
      BY <1>5, <2>1, <2>2, <2>3, FramesTaken, NothingApproved
  <1>7. CASE ReceiveAnswer
    <2> DEFINE x == Head(inbound)
    <2>1. inbound # <<>> /\ inbound' = Tail(inbound) /\ x.kind = "answer"
          /\ UNCHANGED <<ran, answered>>
      BY <1>7 DEF ReceiveAnswer, Receives, clientVars, turnVars
    <2>2. 1 \in DOMAIN inbound /\ inbound[1] = x
      BY <2>1, TakenFrame DEF TypeOK
    <2>3. Said(x.id, x.verdict)
      BY <2>1, <2>2 DEF FramesSaid
    <2>4. \A i \in Ids : promise'[i] = "approve" =>
              promise[i] = "approve" \/ (i = x.id /\ x.verdict = "approve")
      BY <1>7 DEF ReceiveAnswer, Correlates, SettledBy
    <2>5. PromisesSaid'
      <3> HIDE DEF x
      <3> QED
        BY <2>1, <2>3, <2>4 DEF PromisesSaid, Said
    <2>6. ApprovedByClient'
      BY <2>1 DEF ApprovedByClient
    <2> QED
      BY <2>1, <2>5, <2>6, FramesTaken
  <1>8. CASE WriteFrame
    <2>1. inbound' = inbound /\ ran' = ran
      BY <1>8 DEF WriteFrame, turnVars
    <2>2. \A i \in Ids : promise'[i] = "approve" => promise[i] = "approve"
      BY <1>8 DEF WriteFrame
    <2> QED
      BY <2>1, <2>2, FramesTaken, NothingApproved
  <1>9. CASE AskApproval \/ WithdrawApproval
    <2>1. inbound' = inbound /\ ran' = ran
      BY <1>9 DEF AskApproval, WithdrawApproval, turnVars
    <2>2. \A i \in Ids : promise'[i] = "approve" => promise[i] = "approve"
      BY <1>9 DEF AskApproval, WithdrawApproval, TypeOK
    <2> QED
      BY <2>1, <2>2, FramesTaken, NothingApproved
  <1>10. CASE FinishTurn
    BY <1>1, <1>10, FramesTaken DEF FinishTurn
  <1>11. CASE ApprovalReturns
    <2>1. inbound' = inbound /\ promise' = promise
      BY <1>11 DEF ApprovalReturns
    <2>2. CASE ran' = ran
      BY <1>1, <2>1, <2>2, FramesTaken
    <2>3. CASE ran' # ran
      <3>1. /\ ask \in Ids /\ promise[ask] = "approve" /\ aborted = FALSE
            /\ ran' = ran \cup {<<ask, aborted>>}
        BY <1>11, <2>3 DEF ApprovalReturns, Stale, IdsGiven, TypeOK
      <3>2. \A r \in ran' : Said(r[1], "approve") /\ r[2] = FALSE
        BY <3>1 DEF PromisesSaid, ApprovedByClient, Said
      <3>3. answered' = answered
        BY <1>11 DEF ApprovalReturns, clientVars
      <3>4. PromisesSaid' /\ ApprovedByClient'
        BY <2>1, <3>2, <3>3 DEF PromisesSaid, ApprovedByClient, Said
      <3> QED
        BY <2>1, <3>4, FramesTaken
    <2> QED
      BY <2>2, <2>3
  <1> QED
    BY <1>1, <1>2, <1>3, <1>4, <1>6, <1>7, <1>8, <1>9, <1>10, <1>11
    DEF Next, ClientStep, PeerStep, TurnStep

-----------------------------------------------------------------------------
(* The response.                                                           *)

\* What is on the write chain stays while frames are added.
LEMMA StillAnswering ==
  ASSUME TypeOK, Answering, delivered' = delivered, NEW x \in Ask \cup Reply,
         wire' = Append(wire, x)
  PROVE  Answering'
  <1>1. wire \in Seq(Ask \cup Reply)
    BY DEF TypeOK
  <1>2. \A n \in DOMAIN wire : n \in DOMAIN wire' /\ wire'[n] = wire[n]
    BY <1>1, AddedFrame
  <1> QED
    BY <1>2 DEF Answering

\* The turn's result is on the write chain when the turn ends.
LEMMA EndTurnAnswers ==
  ASSUME TypeOK, NEW outcome \in Outcomes, EndTurn(outcome)
  PROVE  Answering'
  <1> DEFINE x == [kind |-> "result", outcome |-> outcome]
  <1>1. wire \in Seq(Ask \cup Reply) /\ x \in Ask \cup Reply /\ wire' = Append(wire, x)
    BY DEF TypeOK, Reply, EndTurn
  <1>2. x.kind = "result"
    OBVIOUS
  <1> HIDE DEF x
  <1>3. \E n \in DOMAIN wire' : wire'[n] = x
    BY <1>1, AddedFrame
  <1> QED
    BY <1>2, <1>3 DEF Answering

LEMMA ReplyStep ==
  ASSUME TypeOK, RequestFirst, ResultKept, ReleasedAnswered, [Next]_vars
  PROVE  RequestFirst' /\ ResultKept' /\ ReleasedAnswered'
  <1> DEFINE Kept == UNCHANGED <<link, closed, delivered>>
  <1>1. CASE UNCHANGED vars
    BY <1>1 DEF vars, clientVars, turnVars, RequestFirst, ResultKept, Answering,
                ReleasedAnswered
  <1>2. CASE ClientStep
    <2>1. CASE ClientCloses
      BY <2>1 DEF ClientCloses, RequestFirst, ResultKept, ReleasedAnswered
    <2>2. CASE link # "gone" /\ UNCHANGED <<reading, closed, wire, delivered, turn>>
               /\ \E x \in Request \cup Answer : inbound' = Append(inbound, x)
      <3>1. PICK x \in Request \cup Answer : inbound' = Append(inbound, x)
        BY <2>2
      <3>2. inbound' # <<>> /\ (inbound # <<>> => Head(inbound') = Head(inbound))
        BY <3>1, AddedFrame DEF TypeOK
      <3> QED
        BY <2>2, <3>2 DEF RequestFirst, ResultKept, Answering, ReleasedAnswered
    <2>3. ASSUME NEW i \in Ids, NEW v \in Verdicts, ClientAnswers(i, v)
          PROVE  RequestFirst' /\ ResultKept' /\ ReleasedAnswered'
      <3>1. [kind |-> "answer", id |-> i, verdict |-> v] \in Request \cup Answer
        BY DEF Answer
      <3> QED
        BY <2>2, <2>3, <3>1 DEF ClientAnswers, turnVars
    <2>4. CASE ClientCancels \/ ClientHalfCloses
      <3>1. [kind |-> "cancel"] \in Request \cup Answer
            /\ [kind |-> "fin"] \in Request \cup Answer
        BY DEF Request
      <3> QED
        BY <2>2, <2>4, <3>1 DEF ClientCancels, ClientHalfCloses, turnVars
    <2> QED
      BY <1>2, <2>1, <2>3, <2>4 DEF ClientStep
  <1>3. CASE ReceiveTurn
    BY <1>3 DEF ReceiveTurn, clientVars, RequestFirst, ResultKept, ReleasedAnswered
  <1>4. CASE ReceiveCancel
    <2>1. PICK x \in Ask \cup Reply : wire' = Append(wire, x)
      <3>1. PICK ok \in BOOLEAN : wire' = Append(wire, [kind |-> "cancelReply", ok |-> ok])
        BY <1>4 DEF ReceiveCancel, TypeOK
      <3>2. [kind |-> "cancelReply", ok |-> ok] \in Ask \cup Reply
        BY DEF Reply
      <3> QED
        BY <3>1, <3>2
    <2>2. Kept /\ turn' = turn /\ Head(inbound).kind = "cancel" /\ inbound # <<>>
      BY <1>4 DEF ReceiveCancel, Receives, clientVars
    <2>3. turn = "none" => link = "gone" \/ closed # "none"
      BY <2>2 DEF RequestFirst
    <2>4. ResultKept'
      BY <2>1, <2>2, StillAnswering DEF ResultKept
    <2> QED
      BY <2>2, <2>3, <2>4 DEF RequestFirst, ReleasedAnswered
  <1>5. CASE ReceiveAnswer
    <2>1. Kept /\ UNCHANGED <<turn, wire>> /\ Head(inbound).kind = "answer"
      BY <1>5 DEF ReceiveAnswer, Receives, clientVars, turnVars
    <2>2. turn = "none" => link = "gone" \/ closed # "none"
      BY <2>1 DEF RequestFirst
    <2> QED
      BY <2>1, <2>2 DEF RequestFirst, ResultKept, Answering, ReleasedAnswered
  <1>6. CASE EndReadLoop
    <2>1. Kept /\ UNCHANGED <<turn, wire>>
          /\ (closed # "none" \/ Head(inbound).kind = "fin")
      BY <1>6 DEF EndReadLoop, Receives, clientVars, turnVars
    <2>2. turn = "none" => link = "gone" \/ closed # "none"
      BY <2>1 DEF RequestFirst
    <2> QED
      BY <2>1, <2>2 DEF RequestFirst, ResultKept, Answering, ReleasedAnswered
  <1>7. CASE WriteFrame
    <2>1. UNCHANGED <<link, inbound, reading, closed, turn>> /\ delivered \subseteq delivered'
      BY <1>7 DEF WriteFrame, turnVars
    <2>2. RequestFirst' /\ ReleasedAnswered'
      BY <2>1 DEF RequestFirst, ReleasedAnswered
    <2>3. ASSUME link # "gone", closed = "none", Answering
          PROVE  Answering'
      <3>1. wire \in Seq(Ask \cup Reply) /\ wire # <<>> /\ wire' = Tail(wire)
        BY <1>7 DEF WriteFrame, TypeOK
      <3>2. CASE delivered # {}
        BY <2>1, <3>2 DEF Answering
      <3>3. CASE \E n \in DOMAIN wire : wire[n].kind = "result"
        <4>1. PICK n \in DOMAIN wire : wire[n].kind = "result"
          BY <3>3
        <4>2. CASE n = 1
          <5>1. Head(wire).kind = "result"
            BY <3>1, <4>1, <4>2, TakenFrame
          <5>2. delivered' # {}
            BY <1>7, <2>3, <5>1 DEF WriteFrame
          <5> QED
            BY <5>2 DEF Answering
        <4>3. CASE n # 1
          <5>1. n - 1 \in DOMAIN wire' /\ wire'[n - 1] = wire[n]
            BY <3>1, <4>1, <4>3, TakenFrame
          <5> QED
            BY <4>1, <5>1 DEF Answering
        <4> QED
          BY <4>2, <4>3
      <3> QED
        BY <2>3, <3>2, <3>3 DEF Answering
    <2>4. ResultKept'
      BY <2>1, <2>3 DEF ResultKept
    <2> QED
      BY <2>2, <2>4
  <1>8. CASE CloseConnection
    <2>1. UNCHANGED <<link, delivered, turn>> /\ closed = "none" /\ closed' = "listener"
          /\ ~reading /\ turn \in {"none", "done"} /\ wire = <<>>
      BY <1>8 DEF CloseConnection, Settled, clientVars, turnVars
    <2>2. ASSUME link # "gone" PROVE delivered # {}
      <3>1. turn = "done"
        BY <2>1, <2>2 DEF RequestFirst
      <3>2. Answering
        BY <2>1, <2>2, <3>1 DEF ResultKept
      <3>3. DOMAIN wire = {}
        BY <2>1
      <3> QED
        BY <3>2, <3>3 DEF Answering
    <2> QED
      BY <2>1, <2>2 DEF RequestFirst, ResultKept, ReleasedAnswered
  <1>9. CASE Shutdown
    BY <1>9 DEF Shutdown, RequestFirst, ResultKept, ReleasedAnswered
  <1>10. CASE AskApproval \/ WithdrawApproval
    <2>1. Kept /\ turn' = "asking"
      BY <1>10 DEF AskApproval, WithdrawApproval, clientVars, turnVars
    <2> QED
      BY <2>1 DEF RequestFirst, ResultKept, ReleasedAnswered
  <1>11. CASE ApprovalReturns \/ FinishTurn
    <2>1. Kept
      BY <1>11 DEF ApprovalReturns, FinishTurn, clientVars
    <2>2. turn' = "working" \/ \E outcome \in Outcomes : EndTurn(outcome)
      BY <1>11 DEF ApprovalReturns, FinishTurn, Outcomes
    <2>3. turn' \in {"working", "done"}
      BY <2>2 DEF EndTurn
    <2>4. ResultKept'
      BY <2>2, <2>3, EndTurnAnswers DEF ResultKept
    <2> QED
      BY <2>1, <2>3, <2>4 DEF RequestFirst, ReleasedAnswered
  <1> QED
    BY <1>1, <1>2, <1>3, <1>4, <1>5, <1>6, <1>7, <1>8, <1>9, <1>10, <1>11
    DEF Next, PeerStep, TurnStep

-----------------------------------------------------------------------------
(* The theorems.                                                           *)

LEMMA ChannelInit == Init => ChannelInv
  <1> SUFFICES ASSUME Init PROVE ChannelInv
    OBVIOUS
  <1>1. TypeOK
    BY TypeInit
  <1>2. PendingExact /\ IdsGiven
    BY DEF Init, PendingExact, IdsGiven
  <1>3. FramesSaid /\ PromisesSaid /\ ApprovedByClient
    <2>1. inbound = <<[kind |-> "turn"]>>
      BY DEF Init
    <2>2. \A n \in DOMAIN inbound : inbound[n].kind = "turn"
      BY <2>1
    <2> QED
      BY <2>2 DEF Init, FramesSaid, PromisesSaid, ApprovedByClient
  <1>4. RequestFirst /\ ResultKept /\ ReleasedAnswered
    BY DEF Init, RequestFirst, ResultKept, ReleasedAnswered
  <1> QED
    BY <1>1, <1>2, <1>3, <1>4 DEF ChannelInv

\* The invariant holds of every reachable state.
THEOREM ChannelInvariant == Spec => []ChannelInv
  <1>1. ChannelInv /\ [Next]_vars => ChannelInv'
    BY TypeStep, PendingStep, SaidStep, ReplyStep DEF ChannelInv
  <1> QED
    BY <1>1, ChannelInit, PTL DEF Spec

\* The connection's queues, its promises and its turn keep their types.
THEOREM ChannelTypes == Spec => []TypeOK
  <1>1. ChannelInv => TypeOK
    BY DEF ChannelInv
  <1> QED
    BY <1>1, ChannelInvariant, PTL

\* However frames, cancels, closes and failed writes fall, the turn acts only
\* on the client's own approval of the very request it waits on, and on none
\* once it is cancelled; a request's promise waits exactly while its id is in
\* #pending; and the listener closes on a half-closed client only after the
\* turn's response was written.
THEOREM ChannelIsHonest == Spec => []ChannelHonest
  <1>1. ChannelInv => ChannelHonest
    BY DEF ChannelInv, ChannelHonest, ReleasedAnswered, HalfCloseStillAnswered
  <1> QED
    BY <1>1, ChannelInvariant, PTL

=============================================================================
