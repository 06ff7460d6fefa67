-------------------------- MODULE ApprovalChannel ---------------------------
(***************************************************************************)
(* One client connection of the runtime: the duplex JSON-RPC peer          *)
(* (transport/jsonrpc-peer.ts), the socket under it (node-socket.ts), the  *)
(* listener's end-of-connection chain (uds-listener.ts) and a turn whose   *)
(* approvals are requests to the client (server/rpc/turn.ts).              *)
(*                                                                         *)
(* Frames are handled in the order they were sent, each in one step; a     *)
(* promise settled by a frame is seen by the turn in a later step, so a    *)
(* cancel in the same chunk comes between.  Stream notifications are left  *)
(* out: their failures are swallowed and no step waits for them.           *)
(***************************************************************************)
EXTENDS Naturals, Sequences

CONSTANTS
    MaxAsks,        \* bound: approvals one turn asks for
    MaxCancels,     \* bound: turn/cancel requests the client sends
    MaxAnswers      \* bound: answers the client sends, duplicates included

ASSUME BoundsAssumption ==
    MaxAsks \in Nat /\ MaxCancels \in Nat /\ MaxAnswers \in Nat

VARIABLES
    link,       \* client side: "open", "half" (sent FIN), "gone"
    inbound,    \* frames on their way to the server
    asked,      \* requests the client has received
    answered,   \* history: the answers the client sent
    cancels,    \* cancel requests the client sent
    reading,    \* the read loop is running
    closed,     \* who released the socket: "none", "listener", "shutdown"
    wire,       \* #writeChain: frames not yet written
    delivered,  \* outcomes of the turn the client received
    pending,    \* ids in #pending
    nextId,     \* #nextId
    promise,    \* id -> how its request() promise stands
    turn,       \* the turn handler: "none", "working", "asking", "done"
    ask,        \* the id the turn waits on
    aborted,    \* the ticket's signal
    accepting,  \* the ticket's cancellation window
    ran         \* history: <<id, aborted>> approvals the turn acted on

clientVars == <<link, asked, answered, cancels, delivered>>
turnVars == <<turn, ask, aborted, accepting, ran>>
vars == <<clientVars, inbound, reading, closed, wire, pending, nextId, promise,
          turnVars>>

Ids == 1..MaxAsks
Verdicts == {"approve", "deny", "abort", "error"}
Outcomes == {"stop", "aborted"}

\* promise states: not created, waiting, resolved with a verdict, rejected.
Promises == {"none", "waiting", "rejected", "approve", "deny", "abort"}

Request == [kind : {"turn", "cancel", "fin"}]
Answer == [kind : {"answer"}, id : Ids, verdict : Verdicts]
Ask == [kind : {"ask"}, id : Ids]
Reply == [kind : {"result"}, outcome : Outcomes]
             \cup [kind : {"cancelReply"}, ok : BOOLEAN]

Init ==
    /\ link = "open"
    /\ inbound = <<[kind |-> "turn"]>>
    /\ asked = {}
    /\ answered = <<>>
    /\ cancels = 0
    /\ reading = TRUE
    /\ closed = "none"
    /\ wire = <<>>
    /\ delivered = {}
    /\ pending = {}
    /\ nextId = 0
    /\ promise = [i \in Ids |-> "none"]
    /\ turn = "none"
    /\ ask = 0
    /\ aborted = FALSE
    /\ accepting = FALSE
    /\ ran = {}

-----------------------------------------------------------------------------
(* The client.                                                             *)

ClientAnswers(i, v) ==
    /\ link = "open"
    /\ i \in asked
    /\ Len(answered) < MaxAnswers
    /\ answered' = Append(answered, <<i, v>>)
    /\ inbound' = Append(inbound, [kind |-> "answer", id |-> i, verdict |-> v])
    /\ UNCHANGED <<link, asked, cancels, delivered, reading, closed, wire,
                   pending, nextId, promise, turnVars>>

ClientCancels ==
    /\ link = "open"
    /\ cancels < MaxCancels
    /\ cancels' = cancels + 1
    /\ inbound' = Append(inbound, [kind |-> "cancel"])
    /\ UNCHANGED <<link, asked, answered, delivered, reading, closed, wire,
                   pending, nextId, promise, turnVars>>

\* The client ends its sending side and keeps reading.
ClientHalfCloses ==
    /\ link = "open"
    /\ link' = "half"
    /\ inbound' = Append(inbound, [kind |-> "fin"])
    /\ UNCHANGED <<asked, answered, cancels, delivered, reading, closed, wire,
                   pending, nextId, promise, turnVars>>

\* The client goes away; what it sent may or may not still be read.
ClientCloses ==
    /\ link \in {"open", "half"}
    /\ link' = "gone"
    /\ \E kept \in {inbound, <<>>} :
           inbound' = Append(kept, [kind |-> "fin"])
    /\ UNCHANGED <<asked, answered, cancels, delivered, reading, closed, wire,
                   pending, nextId, promise, turnVars>>

-----------------------------------------------------------------------------
(* The peer's read loop.                                                   *)

Receives(k) ==
    /\ reading
    /\ closed = "none"
    /\ inbound # <<>>
    /\ Head(inbound).kind = k
    /\ inbound' = Tail(inbound)

\* The `turn` request reaches its handler: a ticket, then the engine.
ReceiveTurn ==
    /\ Receives("turn")
    /\ turn' = "working"
    /\ accepting' = TRUE
    /\ UNCHANGED <<clientVars, reading, closed, wire, pending, nextId, promise,
                   ask, aborted, ran>>

\* The abort listeners of request(): every pending promise of the turn is
\* rejected with the signal's reason.
RejectPending ==
    /\ promise' = [i \in Ids |-> IF i \in pending THEN "rejected"
                                 ELSE promise[i]]
    /\ pending' = {}

\* `turn/cancel`: honored while the window is open and the turn is active.
ReceiveCancel ==
    /\ Receives("cancel")
    /\ LET honored == accepting /\ turn \in {"working", "asking"} IN
       /\ wire' = Append(wire, [kind |-> "cancelReply", ok |-> honored])
       /\ IF honored
          THEN /\ accepting' = FALSE
               /\ aborted' = TRUE
               /\ RejectPending
          ELSE UNCHANGED <<accepting, aborted, pending, promise>>
    /\ UNCHANGED <<clientVars, reading, closed, nextId, turn, ask, ran>>

\* Mutant: an answer settles whatever the turn waits on, its id unread.
CorrelatesAny(i) == pending

\* #pending.get(response.id): the request with that id, if it still waits.
Correlates(i) == pending \cap {i}

\* Mutant: an error envelope resolves the promise.
ResolvedBy(frame) == frame.verdict

\* A result resolves the promise, an error envelope of any shape rejects it.
SettledBy(frame) ==
    IF frame.verdict = "error" THEN "rejected" ELSE frame.verdict

\* A response settles the request it correlates with; any other is ignored.
ReceiveAnswer ==
    /\ Receives("answer")
    /\ LET frame == Head(inbound) IN
       /\ pending' = pending \ Correlates(frame.id)
       /\ promise' = [i \in Ids |-> IF i \in Correlates(frame.id)
                                    THEN SettledBy(frame) ELSE promise[i]]
    /\ UNCHANGED <<clientVars, reading, closed, wire, nextId, turnVars>>

\* Mutants: nothing is failed; what is failed is not removed.
PendingKept == UNCHANGED <<pending, promise>>
PendingNotCleared ==
    /\ promise' = [i \in Ids |-> IF i \in pending THEN "rejected"
                                 ELSE promise[i]]
    /\ UNCHANGED pending

\* #failPending.
FailPending == RejectPending

\* End of input, or the socket closed here: the loop ends and every pending
\* request fails.
EndReadLoop ==
    /\ reading
    /\ \/ closed # "none" /\ inbound' = inbound
       \/ Receives("fin")
    /\ reading' = FALSE
    /\ FailPending
    /\ UNCHANGED <<clientVars, closed, wire, nextId, turnVars>>

-----------------------------------------------------------------------------
(* The write chain and the end of the connection.                          *)

\* Mutant: a failed write is swallowed, as a notification's is.
NoneFailed(frame) == {}

\* request()'s catch: the ask whose write failed, if it still waits.
FailedAsk(frame) ==
    IF frame.kind = "ask" THEN pending \cap {frame.id} ELSE {}

\* One queued frame is written.  A write to a client that is gone, or on a
\* released socket, rejects; a request whose write failed is rejected.
WriteFrame ==
    /\ wire # <<>>
    /\ wire' = Tail(wire)
    /\ LET frame == Head(wire)
           written == link # "gone" /\ closed = "none"
           failed == IF written THEN {} ELSE FailedAsk(frame)
       IN  /\ delivered' = IF written /\ frame.kind = "result"
                           THEN delivered \cup {frame.outcome}
                           ELSE delivered
           /\ asked' = IF written /\ frame.kind = "ask"
                       THEN asked \cup {frame.id} ELSE asked
           /\ pending' = pending \ failed
           /\ promise' = [i \in Ids |-> IF i \in failed THEN "rejected"
                                        ELSE promise[i]]
    /\ UNCHANGED <<link, answered, cancels, inbound, reading, closed, nextId,
                   turnVars>>

\* Mutant: the connection is closed as soon as its input ends.
NothingAwaited == ~reading

\* run().then(settled): no handler is in flight and every write is flushed.
Settled == ~reading /\ turn \in {"none", "done"} /\ wire = <<>>

\* The listener closes its side once everything received is answered.
CloseConnection ==
    /\ Settled
    /\ closed = "none"
    /\ closed' = "listener"
    /\ UNCHANGED <<clientVars, inbound, reading, wire, pending, nextId, promise,
                   turnVars>>

\* The server shuts down: peer.close() releases the socket and fails what is
\* pending.  The read loop sees it in EndReadLoop.
Shutdown ==
    /\ closed = "none"
    /\ closed' = "shutdown"
    /\ FailPending
    /\ UNCHANGED <<clientVars, inbound, reading, wire, nextId, turnVars>>

-----------------------------------------------------------------------------
(* The turn and its approver.                                              *)

\* Mutant: the signal is only listened to, not read.
SignalUnread == FALSE

\* request()'s first look at its signal.
SignalRaised == aborted

\* requestApproval: ctx.request under the turn's signal.  An aborted signal
\* rejects at once and nothing is sent.
AskApproval ==
    /\ turn = "working"
    /\ nextId < MaxAsks
    /\ nextId' = nextId + 1
    /\ ask' = nextId + 1
    /\ turn' = "asking"
    /\ IF SignalRaised
       THEN /\ promise' = [promise EXCEPT ![nextId + 1] = "rejected"]
            /\ UNCHANGED <<pending, wire>>
       ELSE /\ promise' = [promise EXCEPT ![nextId + 1] = "waiting"]
            /\ pending' = pending \cup {nextId + 1}
            /\ wire' = Append(wire, [kind |-> "ask", id |-> nextId + 1])
    /\ UNCHANGED <<clientVars, inbound, reading, closed, aborted, accepting,
                   ran>>

\* The prompt's own signal (AbortSignal.any) ends the request, not the turn.
WithdrawApproval ==
    /\ turn = "asking"
    /\ ask \in pending
    /\ pending' = pending \ {ask}
    /\ promise' = [promise EXCEPT ![ask] = "rejected"]
    /\ UNCHANGED <<clientVars, inbound, reading, closed, wire, nextId,
                   turnVars>>

\* The turn ends: the window is closed, its result is queued for the client.
EndTurn(outcome) ==
    /\ turn' = "done"
    /\ ask' = 0
    /\ accepting' = FALSE
    /\ wire' = Append(wire, [kind |-> "result", outcome |-> outcome])

\* rejectStaleApprovalAfterCancellation.
Stale == aborted

\* The approver's continuation, in a step after the promise settled.
ApprovalReturns ==
    /\ turn = "asking"
    /\ promise[ask] \notin {"none", "waiting"}
    /\ \/ \* the client reports the approval as interrupted
          /\ promise[ask] = "abort"
          /\ aborted' = TRUE
          /\ EndTurn("aborted")
          /\ UNCHANGED ran
       \/ \* settled after the turn was cancelled: the reason is thrown
          /\ promise[ask] # "abort"
          /\ Stale
          /\ EndTurn("aborted")
          /\ UNCHANGED <<aborted, ran>>
       \/ \* approved, or denied by the client or by a failed request
          /\ promise[ask] # "abort"
          /\ ~Stale
          /\ turn' = "working"
          /\ ask' = 0
          /\ ran' = IF promise[ask] = "approve"
                    THEN ran \cup {<<ask, aborted>>} ELSE ran
          /\ UNCHANGED <<aborted, accepting, wire>>
    /\ UNCHANGED <<clientVars, inbound, reading, closed, pending, nextId,
                   promise>>

FinishTurn ==
    /\ turn = "working"
    /\ EndTurn(IF aborted THEN "aborted" ELSE "stop")
    /\ UNCHANGED <<clientVars, inbound, reading, closed, pending, nextId,
                   promise, aborted, ran>>

-----------------------------------------------------------------------------
ClientStep ==
    \/ \E i \in Ids, v \in Verdicts : ClientAnswers(i, v)
    \/ ClientCancels
    \/ ClientHalfCloses
    \/ ClientCloses

PeerStep ==
    \/ ReceiveTurn \/ ReceiveCancel \/ ReceiveAnswer \/ EndReadLoop
    \/ WriteFrame \/ CloseConnection

TurnStep == ApprovalReturns \/ FinishTurn

Next ==
    \/ ClientStep \/ PeerStep \/ TurnStep
    \/ Shutdown \/ AskApproval \/ WithdrawApproval

Spec == Init /\ [][Next]_vars

\* The peer's promise reactions and the engine's own awaits run.  Nothing is
\* assumed of the client: it may never answer.
Fairness == WF_vars(PeerStep) /\ WF_vars(TurnStep)

FairSpec == Spec /\ Fairness

-----------------------------------------------------------------------------
(* Properties.                                                             *)

TypeOK ==
    /\ link \in {"open", "half", "gone"}
    /\ inbound \in Seq(Request \cup Answer)
    /\ asked \subseteq Ids
    /\ answered \in Seq(Ids \X Verdicts)
    /\ cancels \in 0..MaxCancels
    /\ reading \in BOOLEAN
    /\ closed \in {"none", "listener", "shutdown"}
    /\ wire \in Seq(Ask \cup Reply)
    /\ delivered \subseteq Outcomes
    /\ pending \subseteq Ids
    /\ nextId \in 0..MaxAsks
    /\ promise \in [Ids -> Promises]
    /\ turn \in {"none", "working", "asking", "done"}
    /\ ask \in 0..MaxAsks
    /\ aborted \in BOOLEAN
    /\ accepting \in BOOLEAN
    /\ ran \subseteq Ids \X BOOLEAN

\* An approval the turn acted on was the client's own approval of that very
\* request, and the turn was not cancelled by then: late, duplicated and
\* misdirected answers approve nothing.
ApprovedByClient ==
    \A r \in ran :
        /\ \E n \in DOMAIN answered : answered[n] = <<r[1], "approve">>
        /\ r[2] = FALSE

\* A request() promise waits exactly while its id is in #pending: nothing
\* that is still awaited has been forgotten, nothing settled is left behind.
PendingExact ==
    \A i \in Ids : promise[i] = "waiting" <=> i \in pending

\* A client that sends its request and half-closes still gets the response:
\* the listener closes its side only after the result was written.
HalfCloseStillAnswered ==
    closed = "listener" /\ link = "half" => delivered # {}

\* An approval asked for while the client could answer settles once it no longer
\* can: when the read loop ends, the turn does not wait on its client (request()
\* has no timeout, a dropped connection denies).  One asked for after that
\* settles too, its write failing, unless a client that ended only its sending
\* side is still there to receive it: that turn waits until it is cancelled.
EveryAskSettles ==
    /\ turn = "asking" /\ reading ~> turn # "asking" \/ []reading
    /\ turn = "asking" /\ ~reading ~> turn # "asking" \/ ask \in asked

\* A raised signal ends the turn whatever the client does: the open prompt is
\* dropped and a later one is not sent.
CancelEndsTurn == aborted ~> turn = "done"

\* jsonrpc-peer.ts: what the turn acted on is the client's own approval of that
\* very request, a request's promise waits exactly while its id is pending, and
\* a client that half-closes after its request still gets the response.
ChannelHonest == ApprovedByClient /\ PendingExact /\ HalfCloseStillAnswered
=============================================================================
