---------------------------- MODULE AcpSessions -----------------------------
(***************************************************************************)
(* The map of live external-agent sessions (prototype/src/                 *)
(* acp-session-map.ts) as the turns that share it use it.                  *)
(*                                                                         *)
(* An entry is one MapEntry object and, once made, its handle: handles are *)
(* never shared by two entries, so the entry's number names both.  An      *)
(* entry outlives its place in the map while its handle closes, which is   *)
(* why `map` and `entry` are two variables.  Each action is one run of     *)
(* JavaScript between two awaits.                                          *)
(***************************************************************************)
EXTENDS Naturals, FiniteSets

CONSTANTS
    Turns,      \* runTurn calls
    Keys,       \* session, workspace and profile, encoded
    SessionOf,  \* key -> its Workbench session
    Capacity,   \* DEFAULT_ACP_SESSION_CAPACITY
    MaxEntries, \* bound: entries ever made
    NoKey

ASSUME CapacityAssumption == Capacity \in Nat \ {0}
ASSUME EntriesAssumption == MaxEntries \in Nat
ASSUME SessionAssumption == SessionOf \in [Keys -> Keys] /\ NoKey \notin Keys

VARIABLES
    entry,  \* number -> MapEntry with what is observable of its handle
    map,    \* key -> the number #entries holds, 0 for none
    turn,   \* turn -> its runTurn frame
    hist,   \* session -> turns recorded in its log
    shut    \* shutdown(): phase, and the entries it waits for

vars == <<entry, map, turn, hist, shut>>

Ids == 1..MaxEntries
States == {"unused", "creating", "idle", "active", "closing", "closed"}
Blank == [key |-> NoKey, state |-> "unused", made |-> FALSE, alive |-> FALSE,
          timer |-> FALSE, broken |-> FALSE, closing |-> FALSE,
          shut |-> FALSE, seen |-> {}]

Phases == {"new", "creating", "acquired", "prompting", "dropping",
           "done", "aborted", "failed", "refused"}
Running == {"creating", "acquired", "prompting", "dropping"}
Frame == [pc |-> "new", key |-> NoKey, at |-> 0, reused |-> FALSE,
          prior |-> {}, told |-> {}]

TypeOK ==
    /\ entry \in [Ids -> [key : Keys \cup {NoKey}, state : States,
                          made : BOOLEAN, alive : BOOLEAN, timer : BOOLEAN,
                          broken : BOOLEAN, closing : BOOLEAN,
                          shut : BOOLEAN, seen : SUBSET Turns]]
    /\ map \in [Keys -> 0..MaxEntries]
    /\ turn \in [Turns -> [pc : Phases, key : Keys \cup {NoKey},
                           at : 0..MaxEntries, reused : BOOLEAN,
                           prior : SUBSET Turns, told : SUBSET Turns]]
    /\ hist \in [Keys -> SUBSET Turns]
    /\ shut \in [phase : {"no", "waiting", "done", "timedout"},
                 waits : SUBSET Ids]

Init ==
    /\ entry = [e \in Ids |-> Blank]
    /\ map = [k \in Keys |-> 0]
    /\ turn = [t \in Turns |-> Frame]
    /\ hist = [k \in Keys |-> {}]
    /\ shut = [phase |-> "no", waits |-> {}]

-----------------------------------------------------------------------------
(* What the methods share.  They take and return the pair <<entry, map>>. *)

Held(m, e) == e # 0 /\ \E k \in Keys : m[k] = e
Size(m) == Cardinality({k \in Keys : m[k] # 0})
Without(m, e) == [k \in Keys |-> IF m[k] = e THEN 0 ELSE m[k]]

\* handle.close(): isAlive is false from here on; the close settles later.
CloseHandle(es, e) ==
    [es EXCEPT ![e].alive = FALSE, ![e].closing = ~es[e].shut]

\* #removeAndClose up to its await; an entry without a handle closes at once.
RemoveAndCloseFrom(off, m, e) ==
    IF off[e].state = "closed" THEN <<off, m>>
    ELSE IF off[e].made
    THEN <<CloseHandle([off EXCEPT ![e].state =
                          IF Held(m, e) THEN "closing" ELSE @], e), m>>
    ELSE <<[off EXCEPT ![e].state = "closed"], Without(m, e)>>

RemoveAndCloseArmed(es, m, e) == RemoveAndCloseFrom(es, m, e)

RemoveAndClose(es, m, e) ==
    RemoveAndCloseFrom([es EXCEPT ![e].timer = FALSE], m, e)

ReleaseTo(es, m, e, free, armed) ==
    IF ~Held(m, e) \/ es[e].state # "active" THEN <<es, m>>
    ELSE IF es[e].alive
    THEN <<[es EXCEPT ![e].state = free, ![e].timer = armed], m>>
    ELSE RemoveAndClose(es, m, e)

ReleaseUnarmed(es, m, e) == ReleaseTo(es, m, e, "idle", FALSE)
ReleaseUnnamed(es, m, e) == ReleaseTo(es, m, e, "free", TRUE)

\* release(): only the entry that still holds this handle, and only if active.
Release(es, m, e) == ReleaseTo(es, m, e, "idle", TRUE)

\* drop(): an entry out of the map still has its handle closed.
Drop(es, m, e) ==
    IF Held(m, e) THEN RemoveAndClose(es, m, e) ELSE <<CloseHandle(es, e), m>>

Store(r) == entry' = r[1] /\ map' = r[2]

Finish(t, pc) == turn' = [turn EXCEPT ![t].pc = pc]

-----------------------------------------------------------------------------
(* runTurn *)

\* acquire() up to its first await, with runTurn's probe of the idle handle.
\* The turn's start event is already in its session's log.
AcquireAs(t, k, cap, free) ==
    LET e == map[k]
        idle == e # 0 /\ entry[e].state \in free
        warm == idle /\ entry[e].alive
        off == IF idle THEN [entry EXCEPT ![e].timer = FALSE] ELSE entry
        \* an idle entry whose handle died is forgotten and closed unawaited
        es == IF idle /\ ~warm THEN CloseHandle(off, e) ELSE off
        m == IF idle /\ ~warm THEN [map EXCEPT ![k] = 0] ELSE map
        f == CHOOSE i \in Ids : es[i].state = "unused"
        frame == [Frame EXCEPT !.key = k, !.prior = hist[SessionOf[k]]]
    IN /\ turn[t].pc = "new"
       /\ hist' = [hist EXCEPT ![SessionOf[k]] = @ \cup {t}]
       /\ UNCHANGED shut
       /\ \/ /\ shut.phase # "no" \/ (e # 0 /\ ~idle)
             /\ turn' = [turn EXCEPT ![t] = [frame EXCEPT !.pc = "refused"]]
             /\ UNCHANGED <<entry, map>>
          \/ /\ shut.phase = "no" /\ warm
             /\ entry' = [es EXCEPT ![e].state = "active"]
             /\ turn' = [turn EXCEPT ![t] = [frame EXCEPT !.pc = "acquired",
                                                          !.at = e,
                                                          !.reused = TRUE]]
             /\ UNCHANGED map
          \/ /\ shut.phase = "no" /\ (e = 0 \/ (idle /\ ~warm))
             /\ Size(m) >= cap
             /\ turn' = [turn EXCEPT ![t] = [frame EXCEPT !.pc = "refused"]]
             /\ entry' = es /\ map' = m
          \/ /\ shut.phase = "no" /\ (e = 0 \/ (idle /\ ~warm))
             /\ Size(m) < cap
             /\ \E i \in Ids : es[i].state = "unused"
             /\ entry' = [es EXCEPT ![f].key = k, ![f].state = "creating"]
             /\ map' = [m EXCEPT ![k] = f]
             /\ turn' = [turn EXCEPT ![t] = [frame EXCEPT !.pc = "creating",
                                                          !.at = f]]

AcquireOneOver(t, k) == AcquireAs(t, k, Capacity + 1, {"idle"})
AcquireShared(t, k) == AcquireAs(t, k, Capacity, {"idle", "active"})

Acquire(t, k) == AcquireAs(t, k, Capacity, {"idle"})

\* startAcpSession settles.  A child that exits while it starts makes a dead
\* handle, and onBroken ignores an entry that is still creating.  When the map
\* shuts down, acquire throws and #closeForShutdown closes the handle.
CreateOkThen(t, Closed(_)) ==
    LET e == turn[t].at IN
    /\ turn[t].pc = "creating"
    /\ \E alive \in BOOLEAN :
         LET made == [entry EXCEPT ![e].made = TRUE, ![e].alive = alive] IN
         \/ /\ shut.phase # "no"
            /\ Store(Closed(made))
            /\ Finish(t, "failed")
         \/ /\ shut.phase = "no"
            /\ entry' = [made EXCEPT ![e].state = "active"]
            /\ Finish(t, "acquired")
            /\ UNCHANGED map
    /\ UNCHANGED <<hist, shut>>

CreateOkUnclosed(t) ==
    CreateOkThen(t, LAMBDA es : <<es, Without(map, turn[t].at)>>)

CreateOk(t) ==
    CreateOkThen(t, LAMBDA es : RemoveAndClose(es, map, turn[t].at))

\* startAcpSession throws or the turn is aborted while it runs; it has reaped
\* what it started.  The entry leaves the map, through acquire's catch or,
\* when the map shuts down, through #closeForShutdown.
CreateFails(t) ==
    LET e == turn[t].at IN
    /\ turn[t].pc = "creating"
    /\ map' = Without(map, e)
    /\ entry' = [entry EXCEPT ![e].state =
                    IF shut.phase = "no" THEN @ ELSE "closed"]
    /\ \E pc \in {"aborted", "failed"} : Finish(t, pc)
    /\ UNCHANGED <<hist, shut>>

BareContinuity(t) == IF turn[t].reused THEN "warm-reused" ELSE "new"

\* selectAcpContinuity: what the turn tells the handle it prompts.
Continuity(t) ==
    IF turn[t].reused THEN "warm-reused"
    ELSE IF turn[t].prior = {} THEN "new" ELSE "reconstructed"

\* Route replay and the continuity decision succeed and the prompt is sent.
SendPrompt(t) ==
    LET e == turn[t].at
        told == IF Continuity(t) = "reconstructed" THEN turn[t].prior ELSE {}
    IN /\ turn[t].pc = "acquired"
       /\ entry[e].alive
       /\ entry' = [entry EXCEPT ![e].seen = @ \cup told \cup {t}]
       /\ turn' = [turn EXCEPT ![t].pc = "prompting", ![t].told = told]
       /\ UNCHANGED <<map, hist, shut>>

\* The turn is aborted before its prompt is sent, or the agent acknowledges a
\* cancel or finishes: runTurn returns and its finally releases the handle.
Returns(t) ==
    /\ \/ turn[t].pc = "acquired" /\ Finish(t, "aborted")
       \/ turn[t].pc = "prompting" /\ \E pc \in {"aborted", "done"} :
                                         Finish(t, pc)
    /\ Store(Release(entry, map, turn[t].at))
    /\ UNCHANGED <<hist, shut>>

\* Replay, reconstruction or the prompt throws; the handle is dropped.
Throws(t) ==
    /\ turn[t].pc \in {"acquired", "prompting"}
    /\ Store(Drop(entry, map, turn[t].at))
    /\ Finish(t, "dropping")
    /\ UNCHANGED <<hist, shut>>

\* drop() returns once the close has settled; the finally's release follows.
Dropped(t) ==
    /\ turn[t].pc = "dropping"
    /\ entry[turn[t].at].shut
    /\ Store(Release(entry, map, turn[t].at))
    /\ Finish(t, "failed")
    /\ UNCHANGED <<hist, shut>>

-----------------------------------------------------------------------------
(* The handle, its timer and the runtime's end *)

\* The child exits, the connection ends or the protocol is broken.
Breaks(e) ==
    /\ entry[e].made /\ entry[e].alive
    /\ entry' = [entry EXCEPT ![e].alive = FALSE, ![e].broken = TRUE]
    /\ UNCHANGED <<map, turn, hist, shut>>

\* onBroken
OnBroken(e) ==
    /\ entry[e].broken
    /\ LET es == [entry EXCEPT ![e].broken = FALSE]
       IN Store(IF Held(map, e) /\ es[e].state \notin {"creating", "closing"}
                THEN RemoveAndClose(es, map, e) ELSE <<es, map>>)
    /\ UNCHANGED <<turn, hist, shut>>

\* close() settles, whether or not it failed: the handle is dead either way.
CloseSettlesInto(e, m) ==
    /\ entry[e].closing
    /\ entry' = [entry EXCEPT ![e].closing = FALSE, ![e].shut = TRUE,
                              ![e].state = IF @ = "closing" THEN "closed"
                                           ELSE @]
    /\ map' = m
    /\ UNCHANGED <<turn, hist, shut>>

CloseSettlesKept(e) == CloseSettlesInto(e, map)

CloseSettles(e) ==
    CloseSettlesInto(e, IF entry[e].state = "closing" THEN Without(map, e)
                        ELSE map)

\* #onIdleTimeout
IdleTimeout(e) ==
    /\ entry[e].timer
    /\ LET es == [entry EXCEPT ![e].timer = FALSE]
       IN Store(IF Held(map, e) /\ es[e].state = "idle"
                THEN RemoveAndClose(es, map, e) ELSE <<es, map>>)
    /\ UNCHANGED <<turn, hist, shut>>

\* shutdown(): every entry of the map is closed, one that is still being
\* created once its creation has settled.
ShutdownOf(states) ==
    LET here == {e \in Ids : Held(map, e) /\ entry[e].state \in states}
        now == {e \in here : entry[e].state # "creating"}
    IN /\ shut.phase = "no"
       /\ shut' = [phase |-> "waiting", waits |-> here]
       /\ entry' = [e \in Ids |-> IF e \in now
                                  THEN RemoveAndClose(entry, map, e)[1][e]
                                  ELSE entry[e]]
       /\ UNCHANGED <<map, turn, hist>>

ShutdownIdleOnly == ShutdownOf({"creating", "idle", "closing"})

Shutdown == ShutdownOf(States)

ShutdownSettles ==
    /\ shut.phase = "waiting"
    /\ \A e \in shut.waits : ~Held(map, e)
    /\ shut' = [shut EXCEPT !.phase = "done"]
    /\ UNCHANGED <<entry, map, turn, hist>>

ShutdownTimesOut ==
    /\ shut.phase = "waiting"
    /\ shut' = [shut EXCEPT !.phase = "timedout"]
    /\ UNCHANGED <<entry, map, turn, hist>>

-----------------------------------------------------------------------------

Next ==
    \/ \E t \in Turns : \/ \E k \in Keys : Acquire(t, k)
                        \/ CreateOk(t) \/ CreateFails(t) \/ SendPrompt(t)
                        \/ Returns(t) \/ Throws(t) \/ Dropped(t)
    \/ \E e \in Ids : Breaks(e) \/ OnBroken(e) \/ CloseSettles(e)
                      \/ IdleTimeout(e)
    \/ Shutdown \/ ShutdownSettles \/ ShutdownTimesOut

Spec == Init /\ [][Next]_vars

\* The steps of a turn whose waits are bounded: by timeouts while a session is
\* created or dropped, by the store's answers before the prompt.  A prompt is not
\* among them: while an operator is asked its deadline is paused.
TurnMoves(t) ==
    \/ CreateOk(t) \/ CreateFails(t) \/ Dropped(t)
    \/ turn[t].pc = "acquired" /\ (SendPrompt(t) \/ Returns(t) \/ Throws(t))

\* A close settles, the shutdown's included, and queued callbacks run.
Fairness ==
    /\ \A t \in Turns : WF_vars(TurnMoves(t))
    /\ \A e \in Ids : /\ WF_vars(OnBroken(e)) /\ WF_vars(CloseSettles(e))
                      /\ WF_vars(IdleTimeout(e))
    /\ WF_vars(ShutdownSettles)

LiveSpec == Spec /\ Fairness

-----------------------------------------------------------------------------
(* Properties *)

\* A handle is never driven by two turns: acquire hands out only an idle or a
\* new one, and a release that comes late cannot free the successor's.
OneTurnPerHandle ==
    \A t, u \in Turns :
        turn[t].pc \in {"acquired", "prompting"}
        /\ turn[u].pc \in {"acquired", "prompting"}
        /\ turn[t].at = turn[u].at => t = u

\* A live handle outside the map would never be closed and not be counted by
\* the capacity: every live handle is held, closing handles excepted.
LiveHandlesHeld ==
    \A e \in Ids : entry[e].alive => Held(map, e)

\* The map never holds more entries than its capacity.
WithinCapacity == Size(map) <= Capacity

\* The idle timer runs exactly for the entries a later turn could reuse, so a
\* warm handle always expires and a working one never does.
TimerIffIdle ==
    \A e \in Ids : entry[e].timer <=> Held(map, e) /\ entry[e].state = "idle"

\* When shutdown has not timed out, it returns with no usable agent session
\* left, the ones whose creation it found under way included.
ShutdownLeavesNoneAlive ==
    shut.phase = "done" => \A e \in Ids : ~entry[e].alive

\* A handle that is new to the turn is told every earlier turn of the session:
\* the reconstructed prompt is its only source.  (A warm handle is not: turns of
\* the session that ran elsewhere are missing from it, and nothing is claimed.)
ColdHandleIsTold ==
    \A t \in Turns : turn[t].pc = "prompting" /\ ~turn[t].reused
                     => turn[t].told = turn[t].prior

\* acp-session-map.ts: a handle serves one turn, every live handle is in the
\* map within its capacity, exactly the idle ones have a timer, when shutdown
\* has settled none is alive, and a turn that gets a cold handle replays the
\* session to it.
MapKept ==
    /\ OneTurnPerHandle /\ LiveHandlesHeld /\ WithinCapacity /\ TimerIffIdle
    /\ ShutdownLeavesNoneAlive /\ ColdHandleIsTold

\* Every session a turn leaves warm expires and every closing one leaves the map:
\* when nobody asks for a session any more, what the map still holds is what a
\* prompt is still using, and nothing once the prompts have ended.
MapDrains ==
    (\A t \in Turns : turn[t].pc # "new") ~>
        (\A k \in Keys : \/ map[k] = 0
                         \/ \E t \in Turns : turn[t].pc = "prompting" /\ turn[t].at = map[k])
=============================================================================
