------------------------------ MODULE ReplLink ------------------------------
(***************************************************************************)
(* The Rust REPL and its connection to the runtime (core/dyfj-repl):       *)
(* the reader task with its bounded channel and table of waiters           *)
(* (client.rs), the loop of the prompt, turns, commands and approvals      *)
(* (main.rs, commands.rs, approval.rs), the wait for a runtime that went   *)
(* away (link.rs) and the terminal thread, whose reads cannot be abandoned *)
(* (terminal.rs).                                                          *)
(*                                                                         *)
(* A request is a turn or a command and is numbered; an approval is known  *)
(* by the request that raised it.  The runtime and the operator do         *)
(* whatever they may.                                                      *)
(***************************************************************************)
EXTENDS Integers, Sequences, FiniteSets

CONSTANTS Kinds,        \* of {"turn", "friction", "mark", "read"}
          MaxRequests,  \* bound on what the operator submits
          MaxConns,     \* bound on connections
          MaxFrames,    \* stream frames of a turn
          Capacity      \* of the incoming channel; 256 in client.rs

VARIABLES
    up, lost, closed, gen,      \* the runtime, the connection, the closed flag, its number
    wire, chan,                 \* unread by the reader, unread by the loop
    waiter, drained, resp,      \* the request in the table, whether it was failed, its answer
    rt,                         \* the runtime's side of the connection
    n, kind, cur, mode,         \* requests, their kinds, the one waited for, what the loop does
    sending, cancelling, abandoned,
    asks, stage, key,           \* the terminal's reads, how far the first is, a key pressed
    held, line, verdict,        \* the prompt's read, what it and a question got
    sig, session,               \* a queued SIGINT, the session id
    consent, approved, shown, announced   \* for the properties

connVars == <<up, lost, closed, gen, drained>>
termVars == <<asks, stage, key>>
loopVars == <<n, kind, cur, mode, sending, cancelling, abandoned, held>>
ghosts == <<consent, approved, shown, announced>>
vars == <<connVars, wire, chan, waiter, resp, rt, loopVars, termVars, line, verdict,
          sig, session, ghosts>>

NoRuntime == [turn |-> 0, cmd |-> 0, asked |-> {}, may |-> {}, cancelled |-> FALSE,
              started |-> FALSE, left |-> 0, session |-> 0]

Init ==
    /\ up = TRUE /\ lost = FALSE /\ closed = FALSE /\ gen = 1
    /\ wire = <<>> /\ chan = <<>> /\ waiter = 0 /\ drained = FALSE /\ resp = "none"
    /\ rt = NoRuntime
    /\ n = 0 /\ kind = [i \in 1..MaxRequests |-> "none"] /\ cur = 0 /\ mode = "prompt"
    /\ sending = FALSE /\ cancelling = FALSE /\ abandoned = {}
    /\ asks = <<>> /\ stage = "idle" /\ key = "none"
    /\ held = FALSE /\ line = "none" /\ verdict = "none" /\ sig = FALSE /\ session = 0
    /\ consent = {} /\ approved = {} /\ shown = {} /\ announced = 0

-----------------------------------------------------------------------------
(* The runtime, seen from its end of the socket *)

Msg(what, r) == [what |-> what, req |-> r, session |-> rt.session]
Serving == up /\ ~lost
Speak(m) == wire' = Append(wire, m)

RtStart ==
    /\ Serving /\ rt.turn # 0 /\ ~rt.started
    /\ rt' = [rt EXCEPT !.started = TRUE, !.session = IF @ = 0 THEN rt.turn ELSE @]
    /\ wire' = Append(wire, [what |-> "start", req |-> rt.turn, session |-> rt'.session])
    /\ UNCHANGED <<connVars, chan, waiter, resp, loopVars, termVars, line, verdict, sig,
                   session, ghosts>>

RtFrame ==
    /\ Serving /\ rt.started /\ rt.left > 0
    /\ rt' = [rt EXCEPT !.left = @ - 1] /\ Speak(Msg("frame", rt.turn))
    /\ UNCHANGED <<connVars, chan, waiter, resp, loopVars, termVars, line, verdict, sig,
                   session, ghosts>>

RtAsk(r) ==
    /\ Serving /\ r \in rt.may /\ (r = rt.turn => rt.started /\ ~rt.cancelled)
    /\ rt' = [rt EXCEPT !.may = @ \ {r}, !.asked = @ \cup {r}] /\ Speak(Msg("ask", r))
    /\ UNCHANGED <<connVars, chan, waiter, resp, loopVars, termVars, line, verdict, sig,
                   session, ghosts>>

RtDone(r) ==
    /\ Serving /\ r # 0 /\ r \notin rt.asked
    /\ \/ r = rt.turn /\ rt.started
          /\ rt' = [rt EXCEPT !.turn = 0, !.started = FALSE, !.left = 0, !.may = @ \ {r}]
       \/ r = rt.cmd /\ rt' = [rt EXCEPT !.cmd = 0, !.may = @ \ {r}]
    /\ Speak(Msg("done", r))
    /\ UNCHANGED <<connVars, chan, waiter, resp, loopVars, termVars, line, verdict, sig,
                   session, ghosts>>

\* The runtime goes away; what it had sent may be read up to some point.
RtDown ==
    /\ Serving /\ up' = FALSE /\ lost' = TRUE
    /\ rt' = NoRuntime
    /\ \E k \in 0..Len(wire) : wire' = SubSeq(wire, 1, k)
    /\ UNCHANGED <<closed, gen, drained, chan, waiter, resp, loopVars, termVars, line, verdict,
                   sig, session, ghosts>>

RtUp == /\ ~up /\ up' = TRUE
        /\ UNCHANGED <<lost, closed, gen, drained, wire, chan, waiter, resp, rt, loopVars,
                       termVars, line, verdict, sig, session, ghosts>>

\* A second turn on a connection is refused at once.
Received(r, k) ==
    IF k = "turn"
    THEN IF rt.turn # 0 THEN Speak(Msg("done", r)) /\ UNCHANGED rt
         ELSE /\ rt' = [rt EXCEPT !.turn = r, !.may = @ \cup {r}, !.cancelled = FALSE,
                                  !.left = MaxFrames, !.session = session]
              /\ UNCHANGED wire
    ELSE /\ rt' = [rt EXCEPT !.cmd = r, !.may = IF k = "friction" THEN @ \cup {r} ELSE @]
         /\ UNCHANGED wire

\* What the runtime makes of an answer to its approval.
Told(r, v) == IF closed \/ lost THEN UNCHANGED <<rt, approved>>
              ELSE /\ rt' = [rt EXCEPT !.asked = @ \ {r}]
                   /\ approved' = IF v = "yes" /\ r \in rt.asked THEN approved \cup {r}
                                  ELSE approved

-----------------------------------------------------------------------------
(* The reader task *)

\* Stream frames and approvals go to the channel, which may be full: then the
\* reader waits.  An answer goes to the request that waits for it.
Dispatch ==
    /\ wire # <<>> /\ ~closed
    /\ LET m == Head(wire) IN
       IF m.what = "done"
       THEN /\ IF waiter = m.req THEN resp' = "ok" /\ waiter' = 0
               ELSE UNCHANGED <<resp, waiter>>
            /\ UNCHANGED <<chan, announced>>
       ELSE /\ Len(chan) < Capacity
            /\ chan' = Append(chan, m)
            /\ announced' = IF m.what = "start" THEN m.req ELSE announced
            /\ UNCHANGED <<resp, waiter>>
    /\ wire' = Tail(wire)
    /\ UNCHANGED <<connVars, rt, loopVars, termVars, line, verdict, sig, session,
                   consent, approved, shown>>

\* The end of the stream, or a frame too large or malformed, ends the reader:
\* the flag first, then every waiter.
ReaderCloses ==
    /\ lost /\ wire = <<>> /\ ~closed
    /\ closed' = TRUE
    /\ UNCHANGED <<up, lost, gen, drained, chan, rt, loopVars, termVars, line, verdict,
                   sig, session, ghosts, wire, waiter, resp>>

BadFrame == /\ Serving /\ lost' = TRUE /\ wire' = <<>> /\ rt' = NoRuntime
            /\ UNCHANGED <<up, closed, gen, drained, chan, waiter, resp, loopVars, termVars,
                           line, verdict, sig, session, ghosts>>

DrainWhen(flag) ==
    /\ flag /\ ~drained /\ drained' = TRUE
    /\ IF waiter # 0 THEN resp' = "err" /\ waiter' = 0 ELSE UNCHANGED <<resp, waiter>>
    /\ UNCHANGED <<up, lost, closed, gen, wire, chan, rt, loopVars, termVars, line, verdict,
                   sig, session, ghosts>>

DrainFirst == DrainWhen(lost /\ wire = <<>>)

Drain == DrainWhen(closed)

-----------------------------------------------------------------------------
(* The terminal thread and the operator *)

\* A question is written out, then what was typed before is thrown away, then
\* the answer is read.
ShowQuestion ==
    /\ asks # <<>> /\ stage = "idle"
    /\ stage' = IF Head(asks) = 0 THEN "reading" ELSE "visible"
    /\ UNCHANGED <<connVars, wire, chan, waiter, resp, rt, loopVars, asks, key, line, verdict,
                   sig, session, ghosts>>

DiscardTo(k) ==
    /\ stage = "visible" /\ stage' = "reading" /\ key' = k
    /\ UNCHANGED <<connVars, wire, chan, waiter, resp, rt, loopVars, asks, line, verdict, sig,
                   session, ghosts>>

KeepTypeAhead == DiscardTo(key)

Discard == DiscardTo("none")

\* A key pressed while no question is in sight is not an answer to one.
Press ==
    /\ key = "none" /\ mode # "gone"
    /\ key' = IF stage = "idle" THEN "unseen" ELSE "seen"
    /\ UNCHANGED <<connVars, wire, chan, waiter, resp, rt, loopVars, asks, stage, line,
                   verdict, sig, session, ghosts>>

\* The first read is over.  The prompt's outcome goes to the loop, an answer
\* to the loop if it still waits for it, and otherwise nowhere: typed into a
\* question that a disconnect cancelled it is only reported, or leaves the wait.
Outcome(o) ==
    /\ stage = "reading" /\ stage' = "idle" /\ asks' = Tail(asks)
    /\ LET a == Head(asks) IN
       IF a = 0 THEN line' = o /\ UNCHANGED <<verdict, mode, consent>>
       ELSE /\ consent' = IF o = "yes" /\ key = "seen" THEN consent \cup {a} ELSE consent
            /\ verdict' = IF mode = "asking" /\ chan # <<>> /\ Head(chan).req = a
                             /\ Head(chan).what = "ask"
                          THEN o ELSE verdict
            /\ mode' = IF mode = "waiting" /\ o \in {"int", "eof"} THEN "gone" ELSE mode
            /\ UNCHANGED line
    /\ UNCHANGED <<connVars, wire, chan, waiter, resp, rt, n, kind, cur, sending, cancelling,
                   abandoned, held, sig, session, approved, shown, announced>>

Answer == \/ key # "none" /\ key' = "none" /\ (Outcome("yes") \/ Outcome("no"))
          \/ Outcome("int") /\ key' = "none"
          \/ Outcome("eof") /\ key' = "none"

\* Ctrl-C is a signal only while nothing is being read.  A command takes no
\* notice of a second one.
Interrupt ==
    /\ asks = <<>> /\ mode \in {"turn", "command"} /\ ~sig /\ sig' = TRUE
    /\ mode = "command" => ~cancelling
    /\ UNCHANGED <<connVars, wire, chan, waiter, resp, rt, loopVars, termVars, line, verdict,
                   session, ghosts>>

-----------------------------------------------------------------------------
(* The loop: between turns *)

OpenPrompt ==
    /\ mode \in {"prompt", "waiting"} /\ ~held
    /\ held' = TRUE /\ asks' = Append(asks, 0)
    /\ UNCHANGED <<connVars, wire, chan, waiter, resp, rt, n, kind, cur, mode, sending,
                   cancelling, abandoned, stage, key, line, verdict, sig, session, ghosts>>

\* Nothing that arrives between turns belongs to one: a frame is dropped, an
\* approval denied.
DrainAtPromptIf(drops) ==
    /\ mode = "prompt" /\ ~closed /\ held /\ chan # <<>> /\ drops
    /\ chan' = Tail(chan)
    /\ IF Head(chan).what = "ask" THEN Told(Head(chan).req, "no") ELSE UNCHANGED <<rt, approved>>
    /\ UNCHANGED <<connVars, wire, waiter, resp, loopVars, termVars, line, verdict, sig,
                   session, consent, shown, announced>>

ApprovalsOnly == DrainAtPromptIf(Head(chan).what = "ask")

DrainAtPrompt == DrainAtPromptIf(TRUE)

Disconnected ==
    /\ mode = "prompt" /\ closed
    /\ mode' = "waiting" /\ sig' = FALSE
    /\ UNCHANGED <<connVars, wire, chan, waiter, resp, rt, n, kind, cur, sending, cancelling,
                   abandoned, held, termVars, line, verdict, session, ghosts>>

\* The operator's line is a request, or leaves; Ctrl-C only clears it.
TakeLine(k) ==
    /\ mode = "prompt" /\ ~closed /\ held /\ chan = <<>> /\ line # "none"
    /\ held' = FALSE /\ line' = "none"
    /\ \/ line = "int" /\ UNCHANGED <<n, kind, cur, mode, sending, cancelling, waiter, resp, sig>>
       \/ line = "eof" /\ mode' = "gone"
          /\ UNCHANGED <<n, kind, cur, sending, cancelling, waiter, resp, sig>>
       \/ /\ line \in {"yes", "no"} /\ n < MaxRequests
          /\ n' = n + 1 /\ kind' = [kind EXCEPT ![n + 1] = k] /\ cur' = n + 1
          /\ mode' = IF k = "turn" THEN "turn" ELSE "command"
          /\ sending' = TRUE /\ cancelling' = FALSE /\ sig' = FALSE
          /\ waiter' = 0 /\ resp' = "none"
    /\ UNCHANGED <<connVars, wire, chan, rt, abandoned, termVars, verdict, session, ghosts>>

\* The waiter is in the table before the flag is looked at.
Insert ==
    /\ sending /\ waiter = 0 /\ resp = "none" /\ waiter' = cur
    /\ UNCHANGED <<connVars, wire, chan, resp, rt, loopVars, termVars, line, verdict, sig,
                   session, ghosts>>

SendIf(open) ==
    /\ sending /\ (waiter # 0 \/ resp # "none") /\ sending' = FALSE
    /\ IF ~open THEN resp' = "err" /\ waiter' = 0 /\ UNCHANGED <<rt, wire>>
       ELSE IF lost THEN UNCHANGED <<resp, waiter, rt, wire>>
       ELSE Received(cur, kind[cur]) /\ UNCHANGED <<resp, waiter>>
    /\ UNCHANGED <<connVars, chan, n, kind, cur, mode, cancelling, abandoned, held, termVars,
                   line, verdict, sig, session, ghosts>>

SendUnchecked == SendIf(TRUE)

Send == SendIf(~closed)

\* While the runtime is down a line goes nowhere, and Ctrl-C leaves.
WaitTakesLine ==
    /\ mode = "waiting" /\ ~sig /\ held /\ line # "none"
    /\ held' = FALSE /\ line' = "none"
    /\ mode' = IF line \in {"int", "eof"} THEN "gone" ELSE mode
    /\ UNCHANGED <<connVars, wire, chan, waiter, resp, rt, n, kind, cur, sending, cancelling,
                   abandoned, termVars, verdict, sig, session, ghosts>>

\* A fresh client; the open prompt and the session stay.
Reconnect ==
    /\ mode = "waiting" /\ ~sig /\ line = "none" /\ up /\ gen < MaxConns
    /\ mode' = "prompt" /\ gen' = gen + 1
    /\ lost' = FALSE /\ closed' = FALSE /\ drained' = FALSE
    /\ wire' = <<>> /\ chan' = <<>> /\ waiter' = 0 /\ resp' = "none" /\ rt' = NoRuntime
    /\ UNCHANGED <<up, n, kind, cur, sending, cancelling, abandoned, held, termVars, line,
                   verdict, sig, session, ghosts>>

-----------------------------------------------------------------------------
(* The loop: a turn *)

Adopted(m) == IF session = 0 /\ m.what = "start" THEN m.session ELSE session

ToPrompt == mode' = "prompt" /\ cur' = 0 /\ sending' = FALSE

\* A frame carries the id of the turn it belongs to.
AnyFrame(m) == TRUE

ForTurn(m) == m.req = cur

TakeFrame ==
    /\ mode = "turn" /\ chan # <<>> /\ Head(chan).what # "ask"
    /\ chan' = Tail(chan)
    /\ IF ForTurn(Head(chan))
       THEN session' = Adopted(Head(chan)) /\ shown' = shown \cup {<<Head(chan).req, cur>>}
       ELSE UNCHANGED <<session, shown>>
    /\ UNCHANGED <<connVars, wire, waiter, resp, rt, loopVars, termVars, line, verdict, sig,
                   consent, approved, announced>>

\* The question is asked at once and nothing else is looked at meanwhile but
\* whether the connection is there; the approval is at the head of chan.
AskOperator ==
    /\ mode = "turn" \/ (mode = "command" /\ kind[cur] = "friction" /\ ~cancelling /\ ~sig)
    /\ chan # <<>> /\ Head(chan).what = "ask"
    /\ mode' = "asking" /\ verdict' = "none" /\ asks' = Append(asks, Head(chan).req)
    /\ UNCHANGED <<connVars, wire, chan, waiter, resp, rt, n, kind, cur, sending, cancelling,
                   abandoned, held, stage, key, line, sig, session, ghosts>>

\* What is queued when a turn ends is its tail; another turn's is dropped and
\* an approval is denied.
Queued == {chan[i] : i \in DOMAIN chan}
Flushed ==
    /\ chan' = <<>>
    /\ shown' = shown \cup {<<m.req, cur>> : m \in {q \in Queued : q.what # "ask" /\ ForTurn(q)}}
    /\ session' = IF session = 0 /\ \E m \in Queued : m.what = "start" /\ ForTurn(m)
                  THEN (CHOOSE m \in Queued : m.what = "start" /\ ForTurn(m)).session
                  ELSE session
Denied ==
    LET open == {m.req : m \in {q \in Queued : q.what = "ask"}}
    IN rt' = IF closed \/ lost THEN rt ELSE [rt EXCEPT !.asked = @ \ open]

\* The answer is there.  The session a receipt names is the one announced,
\* which is adopted by then; a turn refused or cut short has no receipt.
SettledAs(flush) ==
    /\ mode = "turn" /\ resp # "none" /\ ~sending
    /\ flush /\ Denied /\ ToPrompt /\ resp' = "none"
    /\ UNCHANGED <<connVars, wire, waiter, n, kind, cancelling, abandoned, held, termVars,
                   line, verdict, sig, consent, approved, announced>>

SettledUnflushed == SettledAs(chan' = <<>> /\ UNCHANGED <<session, shown>>)

Settled == SettledAs(Flushed)

\* The reader is gone and the channel empty.
TurnCutShort ==
    /\ mode = "turn" /\ closed /\ chan = <<>> /\ ToPrompt
    /\ waiter' = 0 /\ resp' = "none"
    /\ UNCHANGED <<connVars, wire, chan, rt, n, kind, cancelling, abandoned, held, termVars,
                   line, verdict, sig, session, ghosts>>

\* give_up_or_cancel: first a cancel, which is not waited for; the second time
\* the turn is left to itself.
GiveUp ==
    /\ ToPrompt /\ abandoned' = abandoned \cup {cur} /\ waiter' = 0 /\ resp' = "none"
    /\ chan' = <<>> /\ Denied /\ UNCHANGED cancelling

CancelSent ==
    /\ cancelling' = TRUE
    /\ rt' = IF closed \/ lost \/ rt.turn # cur THEN rt
             ELSE [rt EXCEPT !.cancelled = TRUE, !.asked = @ \ {cur}]
    /\ UNCHANGED <<cur, mode, sending, abandoned, waiter, resp, chan>>

CtrlC ==
    /\ mode = "turn" /\ sig /\ sig' = FALSE /\ ~sending
    /\ IF cancelling THEN GiveUp ELSE CancelSent
    /\ UNCHANGED <<connVars, wire, n, kind, held, termVars, line, verdict, session, ghosts>>

Back == IF kind[cur] = "turn" THEN "turn" ELSE "command"

\* A disconnect cancels the question, which stays on the screen.
AskCutShort ==
    /\ mode = "asking" /\ closed
    /\ IF Back = "turn" THEN ToPrompt /\ waiter' = 0 /\ resp' = "none" /\ chan' = <<>>
       ELSE mode' = "command" /\ chan' = Tail(chan) /\ UNCHANGED <<cur, sending, waiter, resp>>
    /\ UNCHANGED <<connVars, wire, rt, n, kind, cancelling, abandoned, held, termVars, line,
                   verdict, sig, session, ghosts>>

\* Ctrl-C at a turn's question cancels the turn; at a command's it denies it
\* and every later one.
AskAnswered ==
    /\ mode = "asking" /\ ~closed /\ verdict # "none"
    /\ LET r == Head(chan).req
           v == IF verdict = "yes" THEN "yes" ELSE "no"
       IN IF verdict = "int" /\ Back = "turn"
          THEN /\ UNCHANGED approved
               /\ rt' = IF lost THEN rt
                        ELSE [rt EXCEPT !.asked = @ \ {r},
                                        !.cancelled = @ \/ (~cancelling /\ rt.turn = cur)]
               /\ IF cancelling
                  THEN /\ ToPrompt /\ abandoned' = abandoned \cup {cur} /\ waiter' = 0
                       /\ resp' = "none" /\ chan' = <<>> /\ UNCHANGED cancelling
                  ELSE /\ cancelling' = TRUE /\ mode' = "turn" /\ chan' = Tail(chan)
                       /\ UNCHANGED <<cur, sending, abandoned, waiter, resp>>
          ELSE /\ Told(r, v) /\ mode' = Back /\ chan' = Tail(chan)
               /\ cancelling' = (cancelling \/ verdict = "int")
               /\ UNCHANGED <<cur, sending, abandoned, waiter, resp>>
    /\ verdict' = "none"
    /\ UNCHANGED <<connVars, wire, n, kind, held, termVars, line, sig, session, consent,
                   shown, announced>>

-----------------------------------------------------------------------------
(* The loop: a command *)

\* A command that only reads is abandoned by Ctrl-C; /friction keeps its
\* request and denies what it asks from then on; /idea mark waits.
CommandCtrlC ==
    /\ mode = "command" /\ sig /\ sig' = FALSE /\ ~sending
    /\ IF kind[cur] = "read" THEN ToPrompt /\ waiter' = 0 /\ UNCHANGED cancelling
       ELSE cancelling' = TRUE /\ UNCHANGED <<mode, cur, sending, waiter>>
    /\ UNCHANGED <<connVars, wire, chan, resp, rt, n, kind, abandoned, held, termVars, line,
                   verdict, session, ghosts>>

CommandDrains ==
    /\ mode = "command" /\ kind[cur] = "friction" /\ ~sig /\ chan # <<>>
    /\ Head(chan).what # "ask" \/ cancelling
    /\ chan' = Tail(chan)
    /\ IF Head(chan).what = "ask" THEN Told(Head(chan).req, "no") ELSE UNCHANGED <<rt, approved>>
    /\ UNCHANGED <<connVars, wire, waiter, resp, loopVars, termVars, line, verdict, sig,
                   session, consent, shown, announced>>

CommandSettled ==
    /\ mode = "command" /\ resp # "none" /\ ~sending
    /\ ToPrompt /\ resp' = "none"
    /\ UNCHANGED <<connVars, wire, chan, waiter, rt, n, kind, cancelling, abandoned, held,
                   termVars, line, verdict, sig, session, ghosts>>

-----------------------------------------------------------------------------

Runtime == RtStart \/ RtFrame \/ RtDown \/ RtUp
           \/ \E r \in 1..MaxRequests : RtAsk(r) \/ RtDone(r)
Reader == Dispatch \/ ReaderCloses \/ BadFrame \/ Drain
Terminal == ShowQuestion \/ Discard
Operator == Press \/ Answer \/ Interrupt
Loop == \/ OpenPrompt \/ DrainAtPrompt \/ Disconnected \/ WaitTakesLine \/ Reconnect \/ Insert \/ Send
        \/ TakeFrame \/ AskOperator \/ Settled \/ TurnCutShort \/ CtrlC \/ AskCutShort
        \/ AskAnswered \/ CommandCtrlC \/ CommandDrains \/ CommandSettled
        \/ \E k \in Kinds : TakeLine(k)

Next == Runtime \/ Reader \/ Terminal \/ Operator \/ Loop

Spec == Init /\ [][Next]_vars

\* The tasks of the REPL run.  Nothing is asked of the operator, and of the
\* runtime only that it answers a command.
Fairness == /\ WF_vars(Dispatch) /\ WF_vars(ReaderCloses) /\ WF_vars(Drain)
            /\ WF_vars(Terminal) /\ WF_vars(Loop) /\ WF_vars(DrainAtPrompt)
            /\ WF_vars(\E r \in 1..MaxRequests : r = rt.cmd /\ RtDone(r))

LiveSpec == Spec /\ Fairness

-----------------------------------------------------------------------------
(* Properties *)

\* terminal.rs and approval.rs: the runtime is told yes only for a question
\* the operator saw and answered yes: not by type-ahead, by what was typed
\* into a question that a disconnect cancelled, or by the answer to another.
ConsentSeen == approved \subseteq consent

\* main.rs: what is shown under a turn is that turn's, whatever an abandoned
\* one still sends.
ShownIsOurs == \A p \in shown : p[1] = p[2]

\* adopt_announced_session: a turn that ended, answered or cut short, after
\* its session's announcement had been read off the connection, leaves the
\* REPL in that session, so the next turn does not open a second one.
SessionAdopted ==
    mode \in {"prompt", "waiting"} /\ announced # 0 /\ announced \notin abandoned
        => session # 0

\* The same of a REPL that abandoned no turn.  Otherwise it fails: an approval
\* the abandoned turn left behind is asked in the next, and a disconnect
\* while it is open ends that turn without its queue being flushed.
SessionKept == abandoned = {} => SessionAdopted

\* client.rs: whoever waits for an answer is failed when the connection ends,
\* however the two race.
CutShortSettles == closed /\ mode \in {"turn", "command", "asking"} ~> mode \in {"prompt", "gone"}

\* link.rs: while the reader runs, the end of the connection is noticed at the
\* prompt.
DisconnectNoticed == lost /\ mode = "prompt" ~> closed \/ mode # "prompt"

\* commands.rs: a command ends once the runtime has answered it, "so it waits
\* for the answer".
CommandEnds == mode = "command" /\ rt.cmd = 0 /\ ~sending ~> mode # "command"
=============================================================================
