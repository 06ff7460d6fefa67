------------------------- MODULE AcpSessionsProofs --------------------------
(***************************************************************************)
(* Proofs about AcpSessions, for any number of turns, keys and entries and *)
(* any capacity.                                                           *)
(*                                                                         *)
(* The map, an entry's state and the turns that use it must agree for the  *)
(* properties to be inductive: an entry is active or closing only in the   *)
(* map, the turn that creates one still finds it there, and a turn whose   *)
(* handle was closed under it finds an entry that a late release leaves    *)
(* alone.  The keys need not be finite: those the map holds are.           *)
(***************************************************************************)
EXTENDS AcpSessions, FiniteSetTheorems, TLAPS

Entry == [key : Keys \cup {NoKey}, state : States, made : BOOLEAN, alive : BOOLEAN,
          timer : BOOLEAN, broken : BOOLEAN, closing : BOOLEAN, shut : BOOLEAN,
          seen : SUBSET Turns]
RunFrame == [pc : Phases, key : Keys \cup {NoKey}, at : 0..MaxEntries, reused : BOOLEAN,
             prior : SUBSET Turns, told : SUBSET Turns]

\* What an entry's state says of its handle, its timer and its place in the map.
EntryOk(e) ==
    /\ entry[e].alive => entry[e].made /\ Held(map, e) /\ entry[e].state # "closing"
                         /\ shut.phase = "no"
    /\ entry[e].state \in {"idle", "active", "closing"} => entry[e].made
    /\ entry[e].state \in {"unused", "creating"} => ~entry[e].made
    /\ Held(map, e) => entry[e].state \in {"creating", "idle", "active", "closing"}
    /\ entry[e].state \in {"active", "closing"} => Held(map, e)
    /\ entry[e].timer <=> Held(map, e) /\ entry[e].state = "idle"

\* An entry is held under its own key only.
KeysOk == \A k \in Keys : map[k] # 0 => entry[map[k]].key = k

\* Where a turn is says how far its entry is.
TurnOk(t) ==
    /\ turn[t].at # 0 => entry[turn[t].at].state # "unused"
    /\ turn[t].pc \in {"creating", "acquired", "prompting", "dropping"} => turn[t].at # 0
    /\ turn[t].pc = "creating" => entry[turn[t].at].state = "creating" /\ Held(map, turn[t].at)
    /\ turn[t].pc \in {"acquired", "prompting"}
         => entry[turn[t].at].state \in {"active", "closing", "closed"}
    /\ turn[t].pc = "dropping" => entry[turn[t].at].state \in {"closing", "closed"}
    /\ turn[t].pc = "prompting" /\ ~turn[t].reused => turn[t].told = turn[t].prior

Uses(t) == turn[t].pc \in {"creating", "acquired", "prompting"}
OneUser == \A t, u \in Turns : Uses(t) /\ Uses(u) /\ turn[t].at = turn[u].at => t = u

HeldKeys(m) == {k \in Keys : m[k] # 0}
SizeOk == IsFiniteSet(HeldKeys(map)) /\ Size(map) <= Capacity

MapInv ==
    /\ TypeOK /\ KeysOk /\ OneUser /\ SizeOk
    /\ \A e \in Ids : EntryOk(e)
    /\ \A t \in Turns : TurnOk(t)

-----------------------------------------------------------------------------
(* What the invariant says, and what the map's operators do.               *)

LEMMA Types ==
  ASSUME MapInv
  PROVE  /\ entry \in [Ids -> Entry] /\ map \in [Keys -> 0..MaxEntries]
         /\ turn \in [Turns -> RunFrame] /\ hist \in [Keys -> SUBSET Turns]
         /\ MaxEntries \in Nat /\ Capacity \in Nat /\ Capacity # 0
  BY CapacityAssumption, EntriesAssumption DEF MapInv, TypeOK, Entry, RunFrame

LEMMA InvKept == MapInv => MapKept
  <1> SUFFICES ASSUME MapInv PROVE MapKept
    OBVIOUS
  <1>1. OneTurnPerHandle
    BY DEF MapInv, OneUser, Uses, OneTurnPerHandle
  <1>2. LiveHandlesHeld /\ TimerIffIdle /\ ShutdownLeavesNoneAlive
    BY DEF MapInv, EntryOk, LiveHandlesHeld, TimerIffIdle, ShutdownLeavesNoneAlive
  <1>3. WithinCapacity /\ ColdHandleIsTold
    BY DEF MapInv, SizeOk, WithinCapacity, TurnOk, ColdHandleIsTold
  <1> QED
    BY <1>1, <1>2, <1>3 DEF MapKept

LEMMA WithoutHolds ==
  ASSUME MapInv, NEW e \in Ids
  PROVE  /\ Without(map, e) \in [Keys -> 0..MaxEntries]
         /\ \A k \in Keys : Without(map, e)[k] # 0 => Without(map, e)[k] = map[k]
         /\ ~Held(Without(map, e), e)
         /\ \A q \in Ids \ {e} : Held(Without(map, e), q) <=> Held(map, q)
  <1>1. e # 0 /\ 0 \in 0..MaxEntries
    BY Types DEF Ids
  <1>2. \A k \in Keys : Without(map, e)[k] = IF map[k] = e THEN 0 ELSE map[k]
    BY DEF Without
  <1>3. Without(map, e) \in [Keys -> 0..MaxEntries]
    BY <1>1, Types DEF Without
  <1> QED
    BY <1>1, <1>2, <1>3 DEF Held, Ids

\* A map that holds no key it did not hold before is no larger.
LEMMA FewerKeys ==
  ASSUME MapInv, NEW m, \A k \in Keys : m[k] # 0 => map[k] # 0
  PROVE  IsFiniteSet(HeldKeys(m)) /\ Size(m) <= Capacity /\ Size(m) \in Nat
  <1>1. HeldKeys(m) \subseteq HeldKeys(map) /\ IsFiniteSet(HeldKeys(map))
    BY DEF HeldKeys, MapInv, SizeOk
  <1>2. IsFiniteSet(HeldKeys(m)) /\ Cardinality(HeldKeys(m)) <= Cardinality(HeldKeys(map))
    BY <1>1, FS_Subset
  <1>3. Cardinality(HeldKeys(m)) \in Nat /\ Cardinality(HeldKeys(map)) \in Nat
    BY <1>1, <1>2, FS_CardinalityType
  <1>4. Size(m) = Cardinality(HeldKeys(m)) /\ Size(map) = Cardinality(HeldKeys(map))
    BY DEF Size, HeldKeys
  <1> QED
    BY <1>2, <1>3, <1>4, Types DEF MapInv, SizeOk

\* One entry changes and, if it leaves the map, nothing else does.
LEMMA OneEntry ==
  ASSUME MapInv, NEW e \in Ids, TypeOK',
         \A q \in Ids \ {e} : entry'[q] = entry[q], entry'[e].key = entry[e].key,
         map' = map \/ map' = Without(map, e), UNCHANGED shut,
         EntryOk(e)', OneUser', \A t \in Turns : TurnOk(t)'
  PROVE  MapInv'
  <1>1. \A k \in Keys : map'[k] # 0 => map'[k] = map[k]
    BY WithoutHolds
  <1>2. \A q \in Ids \ {e} : Held(map', q) <=> Held(map, q)
    BY WithoutHolds
  <1>3. KeysOk'
    <2> SUFFICES ASSUME NEW k \in Keys, map'[k] # 0 PROVE entry'[map'[k]].key = k
      BY DEF KeysOk
    <2>1. map'[k] = map[k] /\ map[k] \in Ids /\ entry[map[k]].key = k
      BY <1>1, Types DEF MapInv, KeysOk, Ids
    <2> QED
      BY <2>1
  <1>4. SizeOk'
    <2>1. \A k \in Keys : map'[k] # 0 => map[k] # 0
      BY <1>1
    <2>2. IsFiniteSet(HeldKeys(map')) /\ Size(map') <= Capacity
      BY <2>1, FewerKeys
    <2> QED
      BY <2>2 DEF SizeOk, Size, HeldKeys
  <1>5. ASSUME NEW q \in Ids PROVE EntryOk(q)'
    <2>1. CASE q = e
      BY <2>1
    <2>2. CASE q # e
      <3>1. EntryOk(q) /\ entry'[q] = entry[q] /\ (Held(map', q) <=> Held(map, q))
        BY <1>2, <2>2 DEF MapInv
      <3> QED
        BY <3>1 DEF EntryOk
    <2> QED
      BY <2>1, <2>2
  <1> QED
    BY <1>3, <1>4, <1>5 DEF MapInv

\* The turns are where they were, and those at the entry still agree with it.
LEMMA TurnsStay ==
  ASSUME MapInv, NEW e \in Ids, \A q \in Ids \ {e} : entry'[q] = entry[q],
         map' = map \/ map' = Without(map, e), UNCHANGED turn,
         \A t \in Turns : turn[t].at = e => TurnOk(t)'
  PROVE  OneUser' /\ \A t \in Turns : TurnOk(t)'
  <1>1. OneUser'
    BY DEF MapInv, OneUser, Uses
  <1>2. ASSUME NEW t \in Turns PROVE TurnOk(t)'
    <2>1. CASE turn[t].at = e
      BY <2>1
    <2>2. CASE turn[t].at # e
      <3>1. TurnOk(t) /\ turn[t].at \in 0..MaxEntries
        BY Types DEF MapInv, RunFrame
      <3>2. turn[t].at # 0 => /\ turn[t].at \in Ids \ {e}
                              /\ entry'[turn[t].at] = entry[turn[t].at]
                              /\ Held(map', turn[t].at) <=> Held(map, turn[t].at)
        BY <2>2, <3>1, WithoutHolds, Types DEF Ids
      <3> QED
        BY <3>1, <3>2 DEF TurnOk
    <2> QED
      BY <2>1, <2>2
  <1> QED
    BY <1>1, <1>2
\* handle.close()
LEMMA HandleCloses ==
  ASSUME NEW e \in Ids, NEW es \in [Ids -> Entry]
  PROVE  /\ CloseHandle(es, e) \in [Ids -> Entry]
         /\ \A q \in Ids \ {e} : CloseHandle(es, e)[q] = es[q]
         /\ CloseHandle(es, e)[e].alive = FALSE
         /\ CloseHandle(es, e)[e].state = es[e].state /\ CloseHandle(es, e)[e].key = es[e].key
         /\ CloseHandle(es, e)[e].made = es[e].made /\ CloseHandle(es, e)[e].timer = es[e].timer
  <1> DEFINE c == ~es[e].shut
             v == [es[e] EXCEPT !.alive = FALSE, !.closing = c]
  <1>1. es[e] \in Entry /\ c \in BOOLEAN
    BY DEF Entry
  <1>2. CloseHandle(es, e) = [es EXCEPT ![e] = v]
    BY DEF CloseHandle
  <1> HIDE DEF c
  <1>3. /\ v \in Entry /\ v.alive = FALSE /\ v.state = es[e].state /\ v.key = es[e].key
        /\ v.made = es[e].made /\ v.timer = es[e].timer
    BY <1>1 DEF Entry
  <1> HIDE DEF v
  <1> QED
    BY <1>2, <1>3

\* #removeAndClose of an entry of the map whose handle was made.
LEMMA Removes ==
  ASSUME NEW e \in Ids, NEW es \in [Ids -> Entry], Held(map, e), es[e].made,
         es[e].state # "closed"
  PROVE  /\ RemoveAndClose(es, map, e)[2] = map /\ RemoveAndClose(es, map, e)[1] \in [Ids -> Entry]
         /\ \A q \in Ids \ {e} : RemoveAndClose(es, map, e)[1][q] = es[q]
         /\ RemoveAndClose(es, map, e)[1][e].state = "closing"
         /\ RemoveAndClose(es, map, e)[1][e].key = es[e].key
         /\ RemoveAndClose(es, map, e)[1][e].made = TRUE
         /\ RemoveAndClose(es, map, e)[1][e].alive = FALSE
         /\ RemoveAndClose(es, map, e)[1][e].timer = FALSE
  <1> DEFINE off == [es EXCEPT ![e].timer = FALSE]
             at == [off EXCEPT ![e].state = IF Held(map, e) THEN "closing" ELSE @]
             v == [es[e] EXCEPT !.timer = FALSE, !.state = "closing"]
  <1>1. es[e] \in Entry
    OBVIOUS
  <1>2. /\ v \in Entry /\ v.state = "closing" /\ v.key = es[e].key /\ v.made = es[e].made
        /\ v.timer = FALSE
    BY <1>1 DEF Entry, States
  <1>3. at = [es EXCEPT ![e] = v]
    BY <1>1
  <1>4. off[e].state # "closed" /\ off[e].made
    BY <1>1 DEF Entry
  <1>5. RemoveAndClose(es, map, e) = <<CloseHandle(at, e), map>>
    BY <1>4 DEF RemoveAndClose, RemoveAndCloseFrom
  <1> HIDE DEF off, at, v
  <1>6. at \in [Ids -> Entry] /\ at[e] = v /\ \A q \in Ids \ {e} : at[q] = es[q]
    BY <1>2, <1>3
  <1>7. /\ CloseHandle(at, e) \in [Ids -> Entry]
        /\ \A q \in Ids \ {e} : CloseHandle(at, e)[q] = at[q]
        /\ CloseHandle(at, e)[e].alive = FALSE
        /\ CloseHandle(at, e)[e].state = v.state /\ CloseHandle(at, e)[e].key = v.key
        /\ CloseHandle(at, e)[e].made = v.made /\ CloseHandle(at, e)[e].timer = v.timer
    BY <1>6, HandleCloses
  <1>8. RemoveAndClose(es, map, e)[1] = CloseHandle(at, e) /\ RemoveAndClose(es, map, e)[2] = map
    BY <1>5
  <1>9. es[e].made = TRUE
    BY <1>1 DEF Entry
  <1> QED
    BY <1>2, <1>6, <1>7, <1>8, <1>9

LEMMA RemovedIs ==
  ASSUME NEW e \in Ids, NEW es \in [Ids -> Entry], Held(map, e), es[e].made,
         es[e].state # "closed", Store(RemoveAndClose(es, map, e))
  PROVE  /\ map' = map /\ entry' \in [Ids -> Entry]
         /\ \A q \in Ids \ {e} : entry'[q] = es[q]
         /\ entry'[e].state = "closing" /\ entry'[e].key = es[e].key
         /\ entry'[e].made = TRUE /\ entry'[e].alive = FALSE /\ entry'[e].timer = FALSE
  <1> DEFINE r == RemoveAndClose(es, map, e)
  <1>1. /\ r[2] = map /\ r[1] \in [Ids -> Entry] /\ \A q \in Ids \ {e} : r[1][q] = es[q]
        /\ r[1][e].state = "closing" /\ r[1][e].key = es[e].key
        /\ r[1][e].made = TRUE /\ r[1][e].alive = FALSE /\ r[1][e].timer = FALSE
    BY Removes
  <1>2. entry' = r[1] /\ map' = r[2]
    BY DEF Store
  <1> HIDE DEF r
  <1> QED
    BY <1>1, <1>2

\* The turn that uses an entry moves on, and its entry with it.
LEMMA UserMoves ==
  ASSUME MapInv, NEW t \in Turns, Uses(t), NEW e, e = turn[t].at, e \in Ids,
         \A q \in Ids \ {e} : entry'[q] = entry[q],
         map' = map \/ map' = Without(map, e),
         \A u \in Turns \ {t} : turn'[u] = turn[u], turn'[t].at = e, TurnOk(t)',
         entry'[e].state # "unused",
         entry[e].state \in {"closing", "closed"} => entry'[e].state \in {"closing", "closed"}
  PROVE  OneUser' /\ \A u \in Turns : TurnOk(u)'
  <1>1. OneUser'
    <2> SUFFICES ASSUME NEW u \in Turns, NEW w \in Turns, Uses(u)', Uses(w)',
                        turn'[u].at = turn'[w].at
                 PROVE  u = w
      BY DEF OneUser
    <2>1. Uses(u) /\ Uses(w) /\ turn[u].at = turn[w].at
      BY DEF Uses
    <2> QED
      BY <2>1 DEF MapInv, OneUser
  <1>2. ASSUME NEW u \in Turns PROVE TurnOk(u)'
    <2>1. CASE u = t
      BY <2>1
    <2>2. CASE u # t /\ turn[u].at = e
      <3>1. ~Uses(u) /\ TurnOk(u) /\ turn'[u] = turn[u]
        BY <2>2 DEF MapInv, OneUser
      <3> QED
        BY <2>2, <3>1 DEF Uses, TurnOk
    <2>3. CASE u # t /\ turn[u].at # e
      <3>1. TurnOk(u) /\ turn[u].at \in 0..MaxEntries /\ turn'[u] = turn[u]
        BY <2>3, Types DEF MapInv, RunFrame
      <3>2. turn[u].at # 0 => /\ turn[u].at \in Ids \ {e}
                              /\ entry'[turn[u].at] = entry[turn[u].at]
                              /\ Held(map', turn[u].at) <=> Held(map, turn[u].at)
        BY <2>3, <3>1, WithoutHolds, Types DEF Ids
      <3> QED
        BY <3>1, <3>2 DEF TurnOk
    <2> QED
      BY <2>1, <2>2, <2>3
  <1> QED
    BY <1>1, <1>2

\* The types after a step of the map.
LEMMA StepTypes ==
  ASSUME MapInv, entry' \in [Ids -> Entry], map' \in [Keys -> 0..MaxEntries],
         turn' \in [Turns -> RunFrame], hist' = hist, shut' = shut
  PROVE  TypeOK'
  BY DEF MapInv, TypeOK, Entry, RunFrame

\* A turn goes on to another point of runTurn.
LEMMA Finishes ==
  ASSUME MapInv, NEW t \in Turns, NEW p \in Phases, Finish(t, p)
  PROVE  /\ turn' \in [Turns -> RunFrame] /\ \A u \in Turns \ {t} : turn'[u] = turn[u]
         /\ turn'[t].pc = p /\ turn'[t].at = turn[t].at /\ turn'[t].reused = turn[t].reused
         /\ turn'[t].told = turn[t].told /\ turn'[t].prior = turn[t].prior
  <1>1. turn[t] \in RunFrame /\ turn \in [Turns -> RunFrame]
    BY Types
  <1>2. turn' = [turn EXCEPT ![t] = [turn[t] EXCEPT !.pc = p]]
    BY DEF Finish
  <1>3. [turn[t] EXCEPT !.pc = p] \in RunFrame
    BY <1>1 DEF RunFrame
  <1> QED
    BY <1>1, <1>2, <1>3 DEF RunFrame

\* The entry of a turn under way.
LEMMA UserEntry ==
  ASSUME MapInv, NEW t \in Turns, turn[t].pc \in {"creating", "acquired", "prompting", "dropping"}
  PROVE  turn[t].at \in Ids /\ entry[turn[t].at] \in Entry /\ TurnOk(t) /\ EntryOk(turn[t].at)
  <1>1. TurnOk(t) /\ turn[t].at \in 0..MaxEntries
    BY Types DEF MapInv, RunFrame
  <1>2. turn[t].at \in Ids
    BY <1>1, Types DEF TurnOk, Ids
  <1> QED
    BY <1>1, <1>2, Types DEF MapInv
-----------------------------------------------------------------------------
(* The steps of a turn.                                                    *)

LEMMA CreateOkInv ==
  ASSUME MapInv, NEW t \in Turns, CreateOk(t)
  PROVE  MapInv'
  <1>0. PICK e : e = turn[t].at
    OBVIOUS
  <1>1. turn[t].pc = "creating" /\ UNCHANGED <<hist, shut>>
    BY DEF CreateOk, CreateOkThen
  <1>2. PICK a \in BOOLEAN :
          LET made == [entry EXCEPT ![e].made = TRUE, ![e].alive = a] IN
          \/ shut.phase # "no" /\ Store(RemoveAndClose(made, map, e)) /\ Finish(t, "failed")
          \/ /\ shut.phase = "no" /\ entry' = [made EXCEPT ![e].state = "active"]
             /\ Finish(t, "acquired") /\ UNCHANGED map
    BY <1>0 DEF CreateOk, CreateOkThen
  <1> DEFINE v == [entry[e] EXCEPT !.made = TRUE, !.alive = a]
             made == [entry EXCEPT ![e] = v]
  <1>3. e \in Ids /\ entry[e] \in Entry /\ TurnOk(t) /\ EntryOk(e) /\ Uses(t)
    BY <1>0, <1>1, UserEntry DEF Uses
  <1>4. /\ entry[e].state = "creating" /\ Held(map, e)
        /\ entry \in [Ids -> Entry] /\ map \in [Keys -> 0..MaxEntries]
    BY <1>0, <1>1, <1>3, Types DEF TurnOk
  <1>5. /\ v \in Entry /\ v.made = TRUE /\ v.alive = a /\ v.key = entry[e].key
        /\ v.state = "creating" /\ v.timer = entry[e].timer
    BY <1>3, <1>4 DEF Entry
  <1>6. made = [entry EXCEPT ![e].made = TRUE, ![e].alive = a]
    BY <1>3, <1>4
  <1> HIDE DEF v
  <1>7. made \in [Ids -> Entry] /\ made[e] = v /\ \A q \in Ids \ {e} : made[q] = entry[q]
    BY <1>3, <1>4, <1>5
  <1> HIDE DEF made
  <1>8. "failed" \in Phases /\ "acquired" \in Phases
    BY DEF Phases
  <1>9. CASE shut.phase # "no" /\ Store(RemoveAndClose(made, map, e)) /\ Finish(t, "failed")
    <2>1. /\ map' = map /\ entry' \in [Ids -> Entry] /\ \A q \in Ids \ {e} : entry'[q] = entry[q]
          /\ entry'[e].state = "closing" /\ entry'[e].key = entry[e].key
          /\ entry'[e].made = TRUE /\ entry'[e].alive = FALSE /\ entry'[e].timer = FALSE
      <3>1. made[e].made /\ made[e].state # "closed" /\ made[e].key = entry[e].key
        BY <1>5, <1>7
      <3> QED
        BY <1>3, <1>4, <1>7, <1>9, <3>1, RemovedIs
    <2>2. /\ turn' \in [Turns -> RunFrame] /\ \A u \in Turns \ {t} : turn'[u] = turn[u]
          /\ turn'[t].pc = "failed" /\ turn'[t].at = e
      BY <1>0, <1>8, <1>9, Finishes
    <2>3. TypeOK'
      BY <1>1, <1>4, <2>1, <2>2, StepTypes
    <2>4. EntryOk(e)' /\ TurnOk(t)'
      BY <1>3, <1>4, <2>1, <2>2 DEF EntryOk, TurnOk
    <2>5. OneUser' /\ \A u \in Turns : TurnOk(u)'
      BY <1>0, <1>3, <2>1, <2>2, <2>4, UserMoves
    <2> QED
      BY <1>1, <1>3, <2>1, <2>3, <2>4, <2>5, OneEntry
  <1>10. CASE /\ shut.phase = "no" /\ entry' = [made EXCEPT ![e].state = "active"]
              /\ Finish(t, "acquired") /\ UNCHANGED map
    <2>1. /\ entry' \in [Ids -> Entry] /\ \A q \in Ids \ {e} : entry'[q] = entry[q]
          /\ entry'[e].state = "active" /\ entry'[e].key = entry[e].key
          /\ entry'[e].made = TRUE /\ entry'[e].alive = a /\ entry'[e].timer = entry[e].timer
      BY <1>3, <1>5, <1>7, <1>10 DEF Entry, States
    <2>2. /\ turn' \in [Turns -> RunFrame] /\ \A u \in Turns \ {t} : turn'[u] = turn[u]
          /\ turn'[t].pc = "acquired" /\ turn'[t].at = e
      BY <1>0, <1>8, <1>10, Finishes
    <2>3. TypeOK'
      BY <1>1, <1>4, <1>10, <2>1, <2>2, StepTypes
    <2>4. EntryOk(e)' /\ TurnOk(t)'
      BY <1>1, <1>3, <1>4, <1>10, <2>1, <2>2 DEF EntryOk, TurnOk, Ids
    <2>5. OneUser' /\ \A u \in Turns : TurnOk(u)'
      BY <1>0, <1>3, <1>4, <1>10, <2>1, <2>2, <2>4, UserMoves
    <2> QED
      BY <1>1, <1>3, <1>10, <2>1, <2>3, <2>4, <2>5, OneEntry
  <1> QED
    BY <1>2, <1>6, <1>9, <1>10

LEMMA CreateFailsInv ==
  ASSUME MapInv, NEW t \in Turns, CreateFails(t)
  PROVE  MapInv'
  <1>0. PICK e : e = turn[t].at
    OBVIOUS
  <1> DEFINE s == IF shut.phase = "no" THEN entry[e].state ELSE "closed"
  <1>1. turn[t].pc = "creating" /\ map' = Without(map, e) /\ UNCHANGED <<hist, shut>>
    BY <1>0 DEF CreateFails
  <1>2. PICK p \in {"aborted", "failed"} : Finish(t, p)
    BY DEF CreateFails
  <1>3. e \in Ids /\ entry[e] \in Entry /\ TurnOk(t) /\ EntryOk(e) /\ Uses(t)
    BY <1>0, <1>1, UserEntry DEF Uses
  <1>4. /\ entry[e].state = "creating" /\ ~entry[e].made /\ Held(map, e)
        /\ entry \in [Ids -> Entry] /\ s \in {"creating", "closed"} /\ s \in States
    BY <1>0, <1>1, <1>3, Types DEF TurnOk, EntryOk, States
  <1>5. entry' = [entry EXCEPT ![e] = [entry[e] EXCEPT !.state = s]]
    BY <1>0, <1>3, <1>4 DEF CreateFails
  <1> HIDE DEF s
  <1>6. /\ entry' \in [Ids -> Entry] /\ \A q \in Ids \ {e} : entry'[q] = entry[q]
        /\ entry'[e].state = s /\ entry'[e].key = entry[e].key
        /\ entry'[e].made = entry[e].made /\ entry'[e].alive = entry[e].alive
        /\ entry'[e].timer = entry[e].timer
    BY <1>3, <1>4, <1>5 DEF Entry
  <1>7. p \in Phases /\ p \notin {"creating", "acquired", "prompting", "dropping"}
    BY DEF Phases
  <1>8. /\ turn' \in [Turns -> RunFrame] /\ \A u \in Turns \ {t} : turn'[u] = turn[u]
        /\ turn'[t].pc = p /\ turn'[t].at = e
    BY <1>0, <1>2, <1>7, Finishes
  <1>9. map' \in [Keys -> 0..MaxEntries] /\ ~Held(map', e)
    BY <1>1, <1>3, WithoutHolds
  <1>10. TypeOK'
    BY <1>1, <1>6, <1>8, <1>9, StepTypes
  <1>11. EntryOk(e)' /\ TurnOk(t)'
    BY <1>3, <1>4, <1>6, <1>7, <1>8, <1>9 DEF EntryOk, TurnOk
  <1>12. OneUser' /\ \A u \in Turns : TurnOk(u)'
    BY <1>0, <1>1, <1>3, <1>4, <1>6, <1>8, <1>11, UserMoves
  <1> QED
    BY <1>1, <1>3, <1>6, <1>10, <1>11, <1>12, OneEntry

LEMMA SendPromptInv ==
  ASSUME MapInv, NEW t \in Turns, SendPrompt(t)
  PROVE  MapInv'
  <1>0. PICK e : e = turn[t].at
    OBVIOUS
  <1> DEFINE told == IF Continuity(t) = "reconstructed" THEN turn[t].prior ELSE {}
             seen == entry[e].seen \cup told \cup {t}
  <1>1. /\ turn[t].pc = "acquired" /\ entry[e].alive /\ UNCHANGED <<map, hist, shut>>
        /\ entry' = [entry EXCEPT ![e].seen = @ \cup told \cup {t}]
        /\ turn' = [turn EXCEPT ![t].pc = "prompting", ![t].told = told]
    BY <1>0 DEF SendPrompt
  <1>2. e \in Ids /\ entry[e] \in Entry /\ TurnOk(t) /\ EntryOk(e) /\ Uses(t)
    BY <1>0, <1>1, UserEntry DEF Uses
  <1>3. /\ entry \in [Ids -> Entry] /\ turn \in [Turns -> RunFrame] /\ turn[t] \in RunFrame
        /\ map \in [Keys -> 0..MaxEntries]
    BY Types
  <1>4. told \subseteq Turns /\ (~turn[t].reused => told = turn[t].prior)
    BY <1>3 DEF Continuity, RunFrame
  <1> HIDE DEF told
  <1>5. seen \subseteq Turns
    BY <1>2, <1>4 DEF Entry
  <1>6. entry' = [entry EXCEPT ![e] = [entry[e] EXCEPT !.seen = seen]]
    BY <1>1, <1>2, <1>3
  <1> HIDE DEF seen
  <1>7. /\ entry' \in [Ids -> Entry] /\ \A q \in Ids \ {e} : entry'[q] = entry[q]
        /\ entry'[e].state = entry[e].state /\ entry'[e].key = entry[e].key
        /\ entry'[e].made = entry[e].made /\ entry'[e].alive = entry[e].alive
        /\ entry'[e].timer = entry[e].timer
    BY <1>2, <1>3, <1>5, <1>6 DEF Entry
  <1>8. [turn[t] EXCEPT !.pc = "prompting", !.told = told] \in RunFrame
    BY <1>3, <1>4 DEF RunFrame, Phases
  <1>9. turn' = [turn EXCEPT ![t] = [turn[t] EXCEPT !.pc = "prompting", !.told = told]]
    BY <1>1, <1>3
  <1>10. /\ turn' \in [Turns -> RunFrame] /\ \A u \in Turns \ {t} : turn'[u] = turn[u]
         /\ turn'[t].pc = "prompting" /\ turn'[t].at = e /\ turn'[t].told = told
         /\ turn'[t].reused = turn[t].reused /\ turn'[t].prior = turn[t].prior
    BY <1>0, <1>3, <1>8, <1>9 DEF RunFrame
  <1>11. TypeOK'
    BY <1>1, <1>3, <1>7, <1>10, StepTypes
  <1>12. EntryOk(e)'
    BY <1>1, <1>2, <1>7 DEF EntryOk
  <1>13. TurnOk(t)'
    BY <1>0, <1>1, <1>2, <1>4, <1>7, <1>10 DEF TurnOk
  <1>14. OneUser' /\ \A u \in Turns : TurnOk(u)'
    BY <1>0, <1>1, <1>2, <1>7, <1>10, <1>13, UserMoves DEF TurnOk
  <1> QED
    BY <1>1, <1>2, <1>7, <1>11, <1>12, <1>14, OneEntry
\* An entry is closed under the turns that hold it.
LEMMA ClosedUnder ==
  ASSUME MapInv, NEW e \in Ids, \A q \in Ids \ {e} : entry'[q] = entry[q], UNCHANGED map,
         Held(map, e), entry[e].state \in {"idle", "active", "closing"},
         entry'[e].state = "closing", entry'[e].made = TRUE, entry'[e].alive = FALSE,
         entry'[e].timer = FALSE
  PROVE  /\ EntryOk(e)'
         /\ \A t \in Turns : turn[t].at = e /\ turn'[t] = turn[t] => TurnOk(t)'
  <1>1. EntryOk(e)'
    BY DEF EntryOk
  <1>2. ASSUME NEW t \in Turns, turn[t].at = e, turn'[t] = turn[t] PROVE TurnOk(t)'
    <2>1. TurnOk(t)
      BY DEF MapInv
    <2> QED
      BY <1>2, <2>1 DEF TurnOk
  <1> QED
    BY <1>1, <1>2

\* A turn leaves an entry that stays as it is.
LEMMA LeavesAlone ==
  ASSUME MapInv, NEW t \in Turns, NEW e, e = turn[t].at, e \in Ids,
         turn[t].pc \in {"acquired", "prompting", "dropping"}, NEW p \in Phases, Finish(t, p),
         p \notin Running, UNCHANGED <<entry, map, hist, shut>>
  PROVE  MapInv'
  <1>1. /\ turn' \in [Turns -> RunFrame] /\ \A u \in Turns \ {t} : turn'[u] = turn[u]
        /\ turn'[t].pc = p /\ turn'[t].at = e
    BY Finishes
  <1>2. TypeOK'
    BY <1>1, StepTypes, Types
  <1>3. \A u \in Turns : TurnOk(u)'
    BY <1>1 DEF MapInv, TurnOk, Running
  <1>4. OneUser'
    BY <1>1 DEF MapInv, OneUser, Uses, Running
  <1>5. \A q \in Ids : EntryOk(q)'
    BY DEF MapInv, EntryOk
  <1> QED
    BY <1>2, <1>3, <1>4, <1>5 DEF MapInv, KeysOk, SizeOk

\* release() by the turn that used the entry.
LEMMA ReturnsInv ==
  ASSUME MapInv, NEW t \in Turns, Returns(t)
  PROVE  MapInv'
  <1>0. PICK e : e = turn[t].at
    OBVIOUS
  <1>1. /\ turn[t].pc \in {"acquired", "prompting"} /\ UNCHANGED <<hist, shut>>
        /\ Store(Release(entry, map, e))
        /\ \E p \in {"aborted", "done"} : Finish(t, p)
    BY <1>0 DEF Returns
  <1>2. PICK p \in {"aborted", "done"} : Finish(t, p)
    BY <1>1
  <1>3. p \in Phases /\ p \notin Running
    BY DEF Phases, Running
  <1>4. e \in Ids /\ entry[e] \in Entry /\ TurnOk(t) /\ EntryOk(e) /\ Uses(t)
    BY <1>0, <1>1, UserEntry DEF Uses
  <1>5. entry \in [Ids -> Entry] /\ map \in [Keys -> 0..MaxEntries]
    BY Types
  <1>6. /\ turn' \in [Turns -> RunFrame] /\ \A u \in Turns \ {t} : turn'[u] = turn[u]
        /\ turn'[t].pc = p /\ turn'[t].at = e
    BY <1>0, <1>2, <1>3, Finishes
  <1>7. CASE ~Held(map, e) \/ entry[e].state # "active"
    <2>1. UNCHANGED <<entry, map>>
      BY <1>1, <1>7 DEF Store, Release, ReleaseTo
    <2> QED
      BY <1>0, <1>1, <1>2, <1>3, <1>4, <2>1, LeavesAlone
  <1>8. CASE Held(map, e) /\ entry[e].state = "active" /\ entry[e].alive
    <2>1. UNCHANGED map /\ entry' = [entry EXCEPT ![e].state = "idle", ![e].timer = TRUE]
      BY <1>1, <1>8 DEF Store, Release, ReleaseTo
    <2>2. [entry[e] EXCEPT !.state = "idle", !.timer = TRUE] \in Entry
      BY <1>4 DEF Entry, States
    <2>3. /\ entry' \in [Ids -> Entry] /\ \A q \in Ids \ {e} : entry'[q] = entry[q]
          /\ entry'[e].state = "idle" /\ entry'[e].timer = TRUE /\ entry'[e].key = entry[e].key
          /\ entry'[e].made = entry[e].made /\ entry'[e].alive = entry[e].alive
      BY <1>4, <1>5, <2>1, <2>2 DEF Entry
    <2>4. TypeOK'
      BY <1>1, <1>5, <1>6, <2>1, <2>3, StepTypes
    <2>5. EntryOk(e)'
      BY <1>1, <1>4, <1>8, <2>1, <2>3 DEF EntryOk
    <2>6. TurnOk(t)'
      BY <1>3, <1>4, <1>6, <2>3 DEF TurnOk, Running
    <2>7. OneUser' /\ \A u \in Turns : TurnOk(u)'
      BY <1>0, <1>4, <1>6, <1>8, <2>1, <2>3, <2>6, UserMoves
    <2> QED
      BY <1>1, <1>4, <2>1, <2>3, <2>4, <2>5, <2>7, OneEntry
  <1>9. CASE Held(map, e) /\ entry[e].state = "active" /\ ~entry[e].alive
    <2>1. Store(RemoveAndClose(entry, map, e))
      BY <1>1, <1>9 DEF Release, ReleaseTo
    <2>2. entry[e].made /\ entry[e].state # "closed"
      BY <1>4, <1>9 DEF EntryOk
    <2>3. /\ map' = map /\ entry' \in [Ids -> Entry]
          /\ \A q \in Ids \ {e} : entry'[q] = entry[q]
          /\ entry'[e].state = "closing" /\ entry'[e].key = entry[e].key
          /\ entry'[e].made = TRUE /\ entry'[e].alive = FALSE /\ entry'[e].timer = FALSE
      BY <1>4, <1>5, <1>9, <2>1, <2>2, RemovedIs
    <2>4. TypeOK'
      BY <1>1, <1>5, <1>6, <2>3, StepTypes
    <2>5. EntryOk(e)'
      BY <1>4, <1>9, <2>3, ClosedUnder
    <2>6. TurnOk(t)'
      BY <1>3, <1>4, <1>6, <2>3 DEF TurnOk, Running
    <2>7. OneUser' /\ \A u \in Turns : TurnOk(u)'
      BY <1>0, <1>4, <1>6, <2>3, <2>6, UserMoves
    <2> QED
      BY <1>1, <1>4, <2>3, <2>4, <2>5, <2>7, OneEntry
  <1> QED
    BY <1>7, <1>8, <1>9

\* drop()
LEMMA ThrowsInv ==
  ASSUME MapInv, NEW t \in Turns, Throws(t)
  PROVE  MapInv'
  <1>0. PICK e : e = turn[t].at
    OBVIOUS
  <1>1. /\ turn[t].pc \in {"acquired", "prompting"} /\ UNCHANGED <<hist, shut>>
        /\ Store(Drop(entry, map, e)) /\ Finish(t, "dropping")
    BY <1>0 DEF Throws
  <1>2. "dropping" \in Phases
    BY DEF Phases
  <1>3. e \in Ids /\ entry[e] \in Entry /\ TurnOk(t) /\ EntryOk(e) /\ Uses(t)
    BY <1>0, <1>1, UserEntry DEF Uses
  <1>4. entry \in [Ids -> Entry] /\ map \in [Keys -> 0..MaxEntries]
    BY Types
  <1>5. /\ turn' \in [Turns -> RunFrame] /\ \A u \in Turns \ {t} : turn'[u] = turn[u]
        /\ turn'[t].pc = "dropping" /\ turn'[t].at = e
    BY <1>0, <1>1, <1>2, Finishes
  <1>6. CASE Held(map, e)
    <2>1. Store(RemoveAndClose(entry, map, e))
      BY <1>1, <1>6 DEF Drop
    <2>2. entry[e].state \in {"active", "closing"} /\ entry[e].made
      BY <1>0, <1>1, <1>3, <1>6 DEF EntryOk, TurnOk
    <2>3. /\ map' = map /\ entry' \in [Ids -> Entry]
          /\ \A q \in Ids \ {e} : entry'[q] = entry[q]
          /\ entry'[e].state = "closing" /\ entry'[e].key = entry[e].key
          /\ entry'[e].made = TRUE /\ entry'[e].alive = FALSE /\ entry'[e].timer = FALSE
      BY <1>3, <1>4, <1>6, <2>1, <2>2, RemovedIs
    <2>4. TypeOK'
      BY <1>1, <1>4, <1>5, <2>3, StepTypes
    <2>5. EntryOk(e)'
      BY <1>3, <1>6, <2>2, <2>3, ClosedUnder
    <2>6. TurnOk(t)'
      BY <1>3, <1>5, <2>3 DEF TurnOk, Ids
    <2>7. OneUser' /\ \A u \in Turns : TurnOk(u)'
      BY <1>0, <1>3, <1>5, <2>3, <2>6, UserMoves
    <2> QED
      BY <1>1, <1>3, <2>3, <2>4, <2>5, <2>7, OneEntry
  <1>7. CASE ~Held(map, e)
    <2>1. entry' = CloseHandle(entry, e) /\ map' = map
      BY <1>1, <1>7 DEF Drop, Store
    <2>2. entry[e].state = "closed"
      BY <1>0, <1>1, <1>3, <1>7 DEF EntryOk, TurnOk
    <2>3. /\ entry' \in [Ids -> Entry] /\ \A q \in Ids \ {e} : entry'[q] = entry[q]
          /\ entry'[e].alive = FALSE /\ entry'[e].state = entry[e].state
          /\ entry'[e].key = entry[e].key /\ entry'[e].made = entry[e].made
          /\ entry'[e].timer = entry[e].timer
      BY <1>3, <1>4, <2>1, HandleCloses
    <2>4. TypeOK'
      BY <1>1, <1>4, <1>5, <2>1, <2>3, StepTypes
    <2>5. EntryOk(e)'
      BY <1>3, <1>7, <2>1, <2>2, <2>3 DEF EntryOk
    <2>6. TurnOk(t)'
      BY <1>3, <1>5, <2>2, <2>3 DEF TurnOk, Ids
    <2>7. OneUser' /\ \A u \in Turns : TurnOk(u)'
      BY <1>0, <1>3, <1>5, <2>1, <2>2, <2>3, <2>6, UserMoves
    <2> QED
      BY <1>1, <1>3, <2>1, <2>3, <2>4, <2>5, <2>7, OneEntry
  <1> QED
    BY <1>6, <1>7

\* The late release of a dropped handle finds no entry it could free.
LEMMA DroppedInv ==
  ASSUME MapInv, NEW t \in Turns, Dropped(t)
  PROVE  MapInv'
  <1>0. PICK e : e = turn[t].at
    OBVIOUS
  <1>1. /\ turn[t].pc = "dropping" /\ UNCHANGED <<hist, shut>>
        /\ Store(Release(entry, map, e)) /\ Finish(t, "failed")
    BY <1>0 DEF Dropped
  <1>2. e \in Ids /\ TurnOk(t)
    BY <1>0, <1>1, UserEntry
  <1>3. entry[e].state # "active"
    BY <1>0, <1>1, <1>2 DEF TurnOk
  <1>4. UNCHANGED <<entry, map>>
    BY <1>1, <1>3 DEF Store, Release, ReleaseTo
  <1>5. "failed" \in Phases /\ "failed" \notin Running
    BY DEF Phases, Running
  <1> QED
    BY <1>0, <1>1, <1>2, <1>4, <1>5, LeavesAlone
-----------------------------------------------------------------------------
(* The handle's steps and the runtime's end.                               *)

\* Flags of an entry change, or its handle dies, and nothing else.
LEMMA QuietEntry ==
  ASSUME MapInv, NEW e \in Ids, entry' \in [Ids -> Entry],
         \A q \in Ids \ {e} : entry'[q] = entry[q], entry'[e].state = entry[e].state,
         entry'[e].key = entry[e].key, entry'[e].made = entry[e].made,
         entry'[e].timer = entry[e].timer, entry'[e].alive => entry[e].alive,
         UNCHANGED <<map, turn, hist, shut>>
  PROVE  MapInv'
  <1>1. TypeOK'
    BY StepTypes, Types
  <1>2. EntryOk(e)'
    BY DEF MapInv, EntryOk
  <1>3. ASSUME NEW t \in Turns, turn[t].at = e PROVE TurnOk(t)'
    BY <1>3 DEF MapInv, TurnOk
  <1>4. OneUser' /\ \A t \in Turns : TurnOk(t)'
    BY <1>3, TurnsStay
  <1> QED
    BY <1>1, <1>2, <1>4, OneEntry

\* An entry of the map that is closed takes its turns along.
LEMMA ClosesInv ==
  ASSUME MapInv, NEW e \in Ids, NEW es \in [Ids -> Entry], Held(map, e),
         entry[e].state \in {"idle", "active", "closing"},
         \A q \in Ids \ {e} : es[q] = entry[q], es[e].state = entry[e].state,
         es[e].key = entry[e].key, es[e].made = entry[e].made,
         Store(RemoveAndClose(es, map, e)), UNCHANGED <<turn, hist, shut>>
  PROVE  MapInv'
  <1>1. es[e].made /\ es[e].state # "closed"
    BY DEF MapInv, EntryOk
  <1>2. /\ map' = map /\ entry' \in [Ids -> Entry]
        /\ \A q \in Ids \ {e} : entry'[q] = es[q]
        /\ entry'[e].state = "closing" /\ entry'[e].key = es[e].key
        /\ entry'[e].made = TRUE /\ entry'[e].alive = FALSE /\ entry'[e].timer = FALSE
    BY <1>1, RemovedIs
  <1>3. \A q \in Ids \ {e} : entry'[q] = entry[q]
    BY <1>2
  <1>4. TypeOK'
    BY <1>2, StepTypes, Types
  <1>5. EntryOk(e)' /\ \A t \in Turns : turn[t].at = e /\ turn'[t] = turn[t] => TurnOk(t)'
    BY <1>2, <1>3, ClosedUnder
  <1>6. OneUser' /\ \A t \in Turns : TurnOk(t)'
    BY <1>2, <1>3, <1>5, TurnsStay
  <1> QED
    BY <1>2, <1>3, <1>4, <1>5, <1>6, OneEntry

LEMMA BreaksInv ==
  ASSUME MapInv, NEW e \in Ids, Breaks(e)
  PROVE  MapInv'
  <1>1. entry[e] \in Entry /\ entry \in [Ids -> Entry]
    BY Types
  <1>2. [entry[e] EXCEPT !.alive = FALSE, !.broken = TRUE] \in Entry
    BY <1>1 DEF Entry
  <1>3. entry' = [entry EXCEPT ![e] = [entry[e] EXCEPT !.alive = FALSE, !.broken = TRUE]]
    BY DEF Breaks
  <1>4. /\ entry' \in [Ids -> Entry] /\ \A q \in Ids \ {e} : entry'[q] = entry[q]
        /\ entry'[e].state = entry[e].state /\ entry'[e].key = entry[e].key
        /\ entry'[e].made = entry[e].made /\ entry'[e].timer = entry[e].timer
        /\ entry'[e].alive = FALSE
    BY <1>1, <1>2, <1>3 DEF Entry
  <1> QED
    BY <1>4, QuietEntry DEF Breaks

LEMMA OnBrokenInv ==
  ASSUME MapInv, NEW e \in Ids, OnBroken(e)
  PROVE  MapInv'
  <1> DEFINE v == [entry[e] EXCEPT !.broken = FALSE]
             es == [entry EXCEPT ![e] = v]
  <1>1. entry[e] \in Entry /\ entry \in [Ids -> Entry] /\ EntryOk(e)
    BY Types DEF MapInv
  <1>2. /\ v \in Entry /\ v.state = entry[e].state /\ v.key = entry[e].key
        /\ v.made = entry[e].made /\ v.timer = entry[e].timer /\ v.alive = entry[e].alive
    BY <1>1 DEF Entry
  <1>3. /\ Store(IF Held(map, e) /\ es[e].state \notin {"creating", "closing"}
                 THEN RemoveAndClose(es, map, e) ELSE <<es, map>>)
        /\ UNCHANGED <<turn, hist, shut>>
    BY <1>1 DEF OnBroken
  <1> HIDE DEF v
  <1>4. es \in [Ids -> Entry] /\ es[e] = v /\ \A q \in Ids \ {e} : es[q] = entry[q]
    BY <1>1, <1>2
  <1> HIDE DEF es
  <1>5. CASE Held(map, e) /\ es[e].state \notin {"creating", "closing"}
    <2>1. entry[e].state \in {"idle", "active", "closing"}
      BY <1>1, <1>2, <1>4, <1>5 DEF EntryOk
    <2> QED
      BY <1>2, <1>3, <1>4, <1>5, <2>1, ClosesInv
  <1>6. CASE ~(Held(map, e) /\ es[e].state \notin {"creating", "closing"})
    <2>1. entry' = es /\ map' = map
      BY <1>3, <1>6 DEF Store
    <2> QED
      BY <1>2, <1>3, <1>4, <2>1, QuietEntry
  <1> QED
    BY <1>5, <1>6

\* A timer that fires is an idle entry's.
LEMMA IdleTimeoutInv ==
  ASSUME MapInv, NEW e \in Ids, IdleTimeout(e)
  PROVE  MapInv'
  <1> DEFINE v == [entry[e] EXCEPT !.timer = FALSE]
             es == [entry EXCEPT ![e] = v]
  <1>1. entry[e] \in Entry /\ entry \in [Ids -> Entry] /\ EntryOk(e) /\ entry[e].timer
    BY Types DEF MapInv, IdleTimeout
  <1>2. Held(map, e) /\ entry[e].state = "idle"
    BY <1>1 DEF EntryOk
  <1>3. /\ v \in Entry /\ v.state = entry[e].state /\ v.key = entry[e].key
        /\ v.made = entry[e].made
    BY <1>1 DEF Entry
  <1>4. /\ Store(IF Held(map, e) /\ es[e].state = "idle"
                 THEN RemoveAndClose(es, map, e) ELSE <<es, map>>)
        /\ UNCHANGED <<turn, hist, shut>>
    BY <1>1 DEF IdleTimeout
  <1> HIDE DEF v
  <1>5. es \in [Ids -> Entry] /\ es[e] = v /\ \A q \in Ids \ {e} : es[q] = entry[q]
    BY <1>1, <1>3
  <1> HIDE DEF es
  <1>6. Store(RemoveAndClose(es, map, e))
    BY <1>2, <1>3, <1>4, <1>5
  <1> QED
    BY <1>2, <1>3, <1>4, <1>5, <1>6, ClosesInv

LEMMA CloseSettlesInv ==
  ASSUME MapInv, NEW e \in Ids, CloseSettles(e)
  PROVE  MapInv'
  <1> DEFINE s == IF entry[e].state = "closing" THEN "closed" ELSE entry[e].state
             v == [entry[e] EXCEPT !.closing = FALSE, !.shut = TRUE, !.state = s]
  <1>1. entry[e] \in Entry /\ entry \in [Ids -> Entry] /\ EntryOk(e)
    BY Types DEF MapInv
  <1>2. entry' = [entry EXCEPT ![e] = v] /\ UNCHANGED <<turn, hist, shut>>
    BY <1>1 DEF CloseSettles, CloseSettlesInto
  <1>3. map' = IF entry[e].state = "closing" THEN Without(map, e) ELSE map
    BY DEF CloseSettles, CloseSettlesInto
  <1>4. s \in States
    BY <1>1 DEF Entry, States
  <1>5. s = (IF entry[e].state = "closing" THEN "closed" ELSE entry[e].state)
    OBVIOUS
  <1> HIDE DEF s
  <1>6. /\ v \in Entry /\ v.state = s /\ v.key = entry[e].key
        /\ v.made = entry[e].made /\ v.timer = entry[e].timer /\ v.alive = entry[e].alive
    BY <1>1, <1>4 DEF Entry
  <1> HIDE DEF v
  <1>7. entry' \in [Ids -> Entry] /\ entry'[e] = v /\ \A q \in Ids \ {e} : entry'[q] = entry[q]
    BY <1>1, <1>2, <1>6
  <1>8. CASE entry[e].state # "closing"
    BY <1>2, <1>3, <1>5, <1>6, <1>7, <1>8, QuietEntry
  <1>9. CASE entry[e].state = "closing"
    <2>1. map' = Without(map, e) /\ map' \in [Keys -> 0..MaxEntries] /\ ~Held(map', e)
      BY <1>3, <1>9, WithoutHolds
    <2>2. entry'[e].state = "closed" /\ entry'[e].key = entry[e].key
      BY <1>5, <1>6, <1>7, <1>9
    <2>3. TypeOK'
      BY <1>2, <1>7, <2>1, StepTypes, Types
    <2>4. EntryOk(e)'
      BY <1>1, <1>6, <1>7, <1>9, <2>1, <2>2 DEF EntryOk
    <2>5. ASSUME NEW t \in Turns, turn[t].at = e PROVE TurnOk(t)'
      BY <1>2, <1>9, <2>2, <2>5 DEF MapInv, TurnOk
    <2>6. OneUser' /\ \A t \in Turns : TurnOk(t)'
      BY <1>2, <1>7, <2>1, <2>5, TurnsStay
    <2> QED
      BY <1>2, <1>7, <2>1, <2>2, <2>3, <2>4, <2>6, OneEntry
  <1> QED
    BY <1>8, <1>9
\* shutdown() closes what the map holds but what is still being created, and
\* that has no handle yet: no entry is alive from there on.
LEMMA ShutdownInv ==
  ASSUME MapInv, Shutdown
  PROVE  MapInv'
  <1> DEFINE here == {e \in Ids : Held(map, e) /\ entry[e].state \in States}
             now == {e \in here : entry[e].state # "creating"}
  <1>1. /\ shut' = [phase |-> "waiting", waits |-> here] /\ UNCHANGED <<map, turn, hist>>
        /\ entry' = [e \in Ids |-> IF e \in now THEN RemoveAndClose(entry, map, e)[1][e]
                                   ELSE entry[e]]
    BY DEF Shutdown, ShutdownOf
  <1>2. entry \in [Ids -> Entry]
    BY Types
  <1>3. ASSUME NEW e \in Ids, e \in now
        PROVE  /\ entry'[e] \in Entry /\ entry'[e].state = "closing" /\ entry'[e].key = entry[e].key
               /\ entry'[e].made = TRUE /\ entry'[e].alive = FALSE /\ entry'[e].timer = FALSE
               /\ Held(map, e) /\ entry[e].state \in {"idle", "active", "closing"}
    <2>1. Held(map, e) /\ entry[e].state \in {"idle", "active", "closing"} /\ entry[e].made
      BY <1>3 DEF MapInv, EntryOk
    <2>2. entry'[e] = RemoveAndClose(entry, map, e)[1][e]
      BY <1>1, <1>3
    <2> DEFINE r == RemoveAndClose(entry, map, e)[1]
    <2>3. /\ r \in [Ids -> Entry] /\ r[e].state = "closing" /\ r[e].key = entry[e].key
          /\ r[e].made = TRUE /\ r[e].alive = FALSE /\ r[e].timer = FALSE
      <3>1. entry[e].state # "closed"
        BY <2>1
      <3> QED
        BY <1>2, <2>1, <3>1, Removes
    <2> HIDE DEF r
    <2>4. entry'[e] = r[e]
      BY <2>2 DEF r
    <2> QED
      BY <2>1, <2>3, <2>4
  <1>4. ASSUME NEW e \in Ids, e \notin now
        PROVE  /\ entry'[e] = entry[e] /\ entry[e] \in Entry /\ ~entry[e].alive
    <2>1. entry'[e] = entry[e] /\ EntryOk(e) /\ entry[e] \in Entry
      BY <1>1, <1>2, <1>4 DEF MapInv
    <2>2. entry[e].state \in States
      BY <2>1 DEF Entry
    <2> QED
      BY <1>4, <2>1, <2>2 DEF EntryOk
  <1> HIDE DEF now
  <1>5. entry' \in [Ids -> Entry]
    BY <1>1, <1>3, <1>4
  <1>6. shut'.phase = "waiting" /\ shut' \in [phase : {"no", "waiting", "done", "timedout"},
                                              waits : SUBSET Ids]
    BY <1>1
  <1> HIDE DEF here
  <1>7. TypeOK'
    BY <1>1, <1>5, <1>6 DEF MapInv, TypeOK, Entry
  <1>8. ASSUME NEW e \in Ids PROVE EntryOk(e)'
    <2>1. CASE e \in now
      BY <1>1, <1>3, <2>1 DEF EntryOk
    <2>2. CASE e \notin now
      BY <1>1, <1>4, <2>2 DEF MapInv, EntryOk
    <2> QED
      BY <2>1, <2>2
  <1>9. ASSUME NEW t \in Turns PROVE TurnOk(t)'
    <2>1. TurnOk(t) /\ turn' = turn /\ map' = map /\ turn[t].at \in 0..MaxEntries
      BY <1>1, Types DEF MapInv, RunFrame
    <2>2. CASE turn[t].at = 0
      BY <2>1, <2>2 DEF TurnOk
    <2>3. CASE turn[t].at # 0
      <3>1. turn[t].at \in Ids
        BY <2>1, <2>3, Types DEF Ids
      <3>2. CASE turn[t].at \in now
        <4>1. /\ entry'[turn[t].at].state = "closing"
              /\ entry[turn[t].at].state \in {"idle", "active", "closing"}
          BY <1>3, <3>1, <3>2
        <4> QED
          BY <2>1, <4>1 DEF TurnOk
      <3>3. CASE turn[t].at \notin now
        <4>1. entry'[turn[t].at] = entry[turn[t].at]
          BY <1>4, <3>1, <3>3
        <4> QED
          BY <2>1, <4>1 DEF TurnOk
      <3> QED
        BY <3>2, <3>3
    <2> QED
      BY <2>2, <2>3
  <1>10. KeysOk'
    <2> SUFFICES ASSUME NEW k \in Keys, map[k] # 0 PROVE entry'[map[k]].key = k
      BY <1>1 DEF KeysOk
    <2>1. map[k] \in Ids /\ entry[map[k]].key = k
      BY Types DEF MapInv, KeysOk, Ids
    <2> QED
      BY <1>3, <1>4, <2>1
  <1>11. OneUser' /\ SizeOk'
    BY <1>1 DEF MapInv, OneUser, Uses, SizeOk
  <1> QED
    BY <1>7, <1>8, <1>9, <1>10, <1>11 DEF MapInv

LEMMA ShutdownEndsInv ==
  ASSUME MapInv, ShutdownSettles \/ ShutdownTimesOut
  PROVE  MapInv'
  <1>1. shut.phase = "waiting" /\ UNCHANGED <<entry, map, turn, hist>>
    BY DEF ShutdownSettles, ShutdownTimesOut
  <1>2. shut' = [shut EXCEPT !.phase = "done"] \/ shut' = [shut EXCEPT !.phase = "timedout"]
    BY DEF ShutdownSettles, ShutdownTimesOut
  <1>3. shut' \in [phase : {"no", "waiting", "done", "timedout"}, waits : SUBSET Ids]
    BY <1>2 DEF MapInv, TypeOK
  <1>4. TypeOK'
    BY <1>1, <1>3 DEF MapInv, TypeOK
  <1>5. \A e \in Ids : EntryOk(e)'
    BY <1>1 DEF MapInv, EntryOk
  <1>6. \A t \in Turns : TurnOk(t)'
    BY <1>1 DEF MapInv, TurnOk
  <1> QED
    BY <1>1, <1>4, <1>5, <1>6 DEF MapInv, KeysOk, OneUser, Uses, SizeOk

-----------------------------------------------------------------------------
(* acquire()                                                               *)

\* What acquire leaves of the key's own entry: nothing was held under the key,
\* or an idle entry whose handle had died is forgotten.
Forgets(k, es, m) ==
    /\ es \in [Ids -> Entry] /\ m \in [Keys -> 0..MaxEntries]
    /\ m[k] = 0 /\ \A j \in Keys \ {k} : m[j] = map[j]
    /\ \A q \in Ids : /\ es[q].key = entry[q].key /\ es[q].state = entry[q].state
                      /\ es[q].made = entry[q].made
    /\ \A q \in Ids : q # map[k] => es[q] = entry[q]
    /\ map[k] # 0 => /\ entry[map[k]].state = "idle"
                     /\ ~es[map[k]].alive /\ ~es[map[k]].timer

\* Of the entries the map held it still holds all but the forgotten one.
LEMMA ForgetsHeld ==
  ASSUME MapInv, NEW k \in Keys, NEW es, NEW m, Forgets(k, es, m), NEW q \in Ids
  PROVE  /\ Held(m, q) <=> Held(map, q) /\ q # map[k]
         /\ Held(map, q) => entry[q].state # "unused"
  <1>1. q # 0 /\ \A j \in Keys : map[j] = q => entry[q].key = j
    BY Types DEF MapInv, KeysOk, Ids
  <1>2. \A j \in Keys : m[j] = IF j = k THEN 0 ELSE map[j]
    BY DEF Forgets
  <1>3. Held(m, q) => Held(map, q) /\ q # map[k]
    BY <1>1, <1>2 DEF Held
  <1>4. Held(map, q) /\ q # map[k] => Held(m, q)
    BY <1>1, <1>2 DEF Held
  <1>5. Held(map, q) => entry[q].state # "unused"
    BY DEF MapInv, EntryOk
  <1> QED
    BY <1>3, <1>4, <1>5

\* What is being created is not forgotten.
LEMMA ForgetsCreating ==
  ASSUME MapInv, NEW k \in Keys, NEW es, NEW m, Forgets(k, es, m), NEW q \in Ids,
         Held(map, q), entry[q].state = "creating"
  PROVE  Held(m, q)
  <1>1. q # map[k]
    BY DEF Forgets, Ids
  <1> QED
    BY <1>1, ForgetsHeld

LEMMA ForgetsEntry ==
  ASSUME MapInv, NEW k \in Keys, NEW es, NEW m, Forgets(k, es, m), NEW q \in Ids,
         entry'[q] = es[q], Held(map', q) <=> Held(m, q), UNCHANGED shut
  PROVE  EntryOk(q)'
  <1>1. EntryOk(q) /\ (Held(m, q) <=> Held(map, q) /\ q # map[k])
    BY ForgetsHeld DEF MapInv
  <1>2. CASE q # map[k]
    <2>1. es[q] = entry[q]
      BY <1>2 DEF Forgets
    <2> QED
      BY <1>1, <1>2, <2>1 DEF EntryOk
  <1>3. CASE q = map[k]
    <2>1. map[k] # 0
      BY <1>3, Types DEF Ids
    <2>2. /\ es[q].state = "idle" /\ ~es[q].alive /\ ~es[q].timer /\ es[q].made = entry[q].made
          /\ entry[q].state = "idle"
      BY <1>3, <2>1 DEF Forgets
    <2> QED
      BY <1>1, <1>3, <2>2 DEF EntryOk
  <1> QED
    BY <1>2, <1>3
\* A turn starts with a frame.
LEMMA Starts ==
  ASSUME MapInv, NEW t \in Turns, NEW k \in Keys, NEW v \in RunFrame,
         hist' = [hist EXCEPT ![SessionOf[k]] = @ \cup {t}], turn' = [turn EXCEPT ![t] = v]
  PROVE  /\ hist' \in [Keys -> SUBSET Turns] /\ turn' \in [Turns -> RunFrame]
         /\ turn'[t] = v /\ \A u \in Turns \ {t} : turn'[u] = turn[u]
  <1>1. SessionOf[k] \in Keys /\ hist[SessionOf[k]] \in SUBSET Turns
    BY Types, SessionAssumption
  <1>2. turn' \in [Turns -> RunFrame] /\ turn'[t] = v /\ \A u \in Turns \ {t} : turn'[u] = turn[u]
    BY Types
  <1>3. hist' \in [Keys -> SUBSET Turns]
    BY <1>1, Types
  <1> QED
    BY <1>2, <1>3

\* The turn is refused: it holds no entry.
LEMMA RefusedInv ==
  ASSUME MapInv, NEW t \in Turns, NEW k \in Keys, turn[t].pc = "new", NEW es, NEW m,
         \/ Forgets(k, es, m)
         \/ es = entry /\ m = map,
         entry' = es, map' = m, UNCHANGED shut,
         hist' \in [Keys -> SUBSET Turns], turn' \in [Turns -> RunFrame],
         turn'[t].pc = "refused", turn'[t].at = 0,
         \A u \in Turns \ {t} : turn'[u] = turn[u]
  PROVE  MapInv'
  <1>1. /\ es \in [Ids -> Entry] /\ m \in [Keys -> 0..MaxEntries]
        /\ \A j \in Keys : m[j] # 0 => m[j] = map[j]
        /\ \A q \in Ids : es[q].key = entry[q].key /\ es[q].state = entry[q].state
    BY Types DEF Forgets
  <1>2. TypeOK'
    BY <1>1 DEF MapInv, TypeOK, Entry, RunFrame
  <1>3. KeysOk'
    <2> SUFFICES ASSUME NEW j \in Keys, m[j] # 0 PROVE es[m[j]].key = j
      BY DEF KeysOk
    <2>1. m[j] = map[j] /\ map[j] \in Ids /\ entry[map[j]].key = j
      BY <1>1, Types DEF MapInv, KeysOk, Ids
    <2> QED
      BY <1>1, <2>1
  <1>4. SizeOk'
    <2>1. \A j \in Keys : m[j] # 0 => map[j] # 0
      BY <1>1
    <2>2. IsFiniteSet(HeldKeys(m)) /\ Size(m) <= Capacity
      BY <2>1, FewerKeys
    <2> QED
      BY <2>2 DEF SizeOk, Size, HeldKeys
  <1>5. ASSUME NEW q \in Ids PROVE EntryOk(q)'
    <2>1. CASE Forgets(k, es, m)
      BY <2>1, ForgetsEntry
    <2>2. CASE es = entry /\ m = map
      BY <2>2 DEF MapInv, EntryOk
    <2> QED
      BY <2>1, <2>2
  <1>6. OneUser'
    <2> SUFFICES ASSUME NEW u \in Turns, NEW w \in Turns, Uses(u)', Uses(w)',
                        turn'[u].at = turn'[w].at
                 PROVE  u = w
      BY DEF OneUser
    <2>1. u # t /\ w # t
      BY DEF Uses
    <2>2. turn'[u] = turn[u] /\ turn'[w] = turn[w]
      BY <2>1
    <2> QED
      BY <2>2 DEF MapInv, OneUser, Uses
  <1>7. ASSUME NEW u \in Turns PROVE TurnOk(u)'
    <2>1. CASE u = t
      BY <2>1 DEF TurnOk
    <2>2. CASE u # t
      <3>1. turn'[u] = turn[u] /\ TurnOk(u) /\ turn[u].at \in 0..MaxEntries
        BY <2>2, Types DEF MapInv, RunFrame
      <3>2. CASE turn[u].at = 0
        BY <3>1, <3>2 DEF TurnOk
      <3>3. CASE turn[u].at # 0
        <4>1. turn[u].at \in Ids
          BY <3>1, <3>3, Types DEF Ids
        <4>2. entry'[turn[u].at].state = entry[turn[u].at].state
          BY <1>1, <4>1
        <4>3. Held(map, turn[u].at) /\ entry[turn[u].at].state = "creating"
              => Held(map', turn[u].at)
          BY <4>1, ForgetsCreating
        <4> QED
          BY <3>1, <4>2, <4>3 DEF TurnOk
      <3> QED
        BY <3>2, <3>3
    <2> QED
      BY <2>1, <2>2
  <1> QED
    BY <1>2, <1>3, <1>4, <1>5, <1>6, <1>7 DEF MapInv

\* The turn makes a new entry under its key.
LEMMA CreatesInv ==
  ASSUME MapInv, NEW t \in Turns, NEW k \in Keys, turn[t].pc = "new", NEW es, NEW m,
         Forgets(k, es, m), Size(m) < Capacity, NEW f \in Ids, es[f].state = "unused",
         entry' = [es EXCEPT ![f].key = k, ![f].state = "creating"],
         map' = [m EXCEPT ![k] = f], UNCHANGED shut,
         hist' \in [Keys -> SUBSET Turns], turn' \in [Turns -> RunFrame],
         turn'[t].pc = "creating", turn'[t].at = f,
         \A u \in Turns \ {t} : turn'[u] = turn[u]
  PROVE  MapInv'
  <1> DEFINE v == [es[f] EXCEPT !.key = k, !.state = "creating"]
  <1>0. /\ f # 0 /\ f \in 0..MaxEntries /\ es[f] \in Entry /\ entry[f].state = "unused"
        /\ es \in [Ids -> Entry] /\ m \in [Keys -> 0..MaxEntries] /\ EntryOk(f)
    BY Types DEF Forgets, Ids, MapInv
  <1>1. ~Held(map, f) /\ ~entry[f].made /\ ~entry[f].alive /\ ~entry[f].timer /\ f # map[k]
    BY <1>0 DEF EntryOk, Forgets
  <1>2. es[f] = entry[f]
    BY <1>1 DEF Forgets
  <1>3. /\ v \in Entry /\ v.key = k /\ v.state = "creating" /\ v.made = entry[f].made
        /\ v.alive = entry[f].alive /\ v.timer = entry[f].timer
    BY <1>0, <1>2 DEF Entry, States
  <1> HIDE DEF v
  <1>4. entry' = [es EXCEPT ![f] = v]
    BY <1>0 DEF v
  <1>5. entry' \in [Ids -> Entry] /\ entry'[f] = v /\ \A q \in Ids \ {f} : entry'[q] = es[q]
    <2>1. es \in [Ids -> Entry] /\ v \in Entry
      BY <1>0, <1>3
    <2>2. entry'[f] = v
      BY <1>4, <2>1
    <2>3. \A q \in Ids \ {f} : entry'[q] = es[q]
      BY <1>4, <2>1
    <2>4. entry' \in [Ids -> Entry]
      BY <1>4, <2>1
    <2> QED
      BY <2>2, <2>3, <2>4
  <1>6. map' \in [Keys -> 0..MaxEntries] /\ map'[k] = f /\ \A j \in Keys \ {k} : map'[j] = m[j]
    BY <1>0
  <1>7. Held(map', f)
    BY <1>0, <1>6 DEF Held
  <1>8. \A q \in Ids \ {f} : Held(map', q) <=> Held(m, q)
    BY <1>6 DEF Held, Forgets, Ids
  <1>9. TypeOK'
    BY <1>5, <1>6 DEF MapInv, TypeOK, Entry, RunFrame
  <1>10. KeysOk'
    <2> SUFFICES ASSUME NEW j \in Keys, map'[j] # 0 PROVE entry'[map'[j]].key = j
      BY DEF KeysOk
    <2>1. CASE j = k
      BY <1>3, <1>5, <1>6, <2>1
    <2>2. CASE j # k
      <3>1. map'[j] = map[j] /\ map[j] \in Ids /\ entry[map[j]].key = j
        BY <1>6, <2>2, Types DEF MapInv, KeysOk, Forgets, Ids
      <3>2. Held(map, map[j])
        BY <3>1, <2>2, <1>6 DEF Held
      <3>3. map[j] # f
        BY <1>1, <3>2
      <3>4. entry'[map[j]] = es[map[j]] /\ es[map[j]].key = entry[map[j]].key
        BY <1>5, <3>1, <3>3 DEF Forgets
      <3> QED
        BY <3>1, <3>4
    <2> QED
      BY <2>1, <2>2
  <1>11. SizeOk'
    <2>1. IsFiniteSet(HeldKeys(m)) /\ Size(m) \in Nat
      BY FewerKeys DEF Forgets
    <2>2. HeldKeys(map') = HeldKeys(m) \cup {k} /\ k \notin HeldKeys(m)
      BY <1>0, <1>6 DEF HeldKeys, Forgets
    <2>3. IsFiniteSet(HeldKeys(map')) /\ Cardinality(HeldKeys(map')) = Cardinality(HeldKeys(m)) + 1
      <3>1. /\ IsFiniteSet(HeldKeys(m) \cup {k})
            /\ Cardinality(HeldKeys(m) \cup {k})
                 = IF k \in HeldKeys(m) THEN Cardinality(HeldKeys(m))
                   ELSE Cardinality(HeldKeys(m)) + 1
        BY <2>1, FS_AddElement
      <3> QED
        BY <2>2, <3>1
    <2>4. Size(map') = Cardinality(HeldKeys(map')) /\ Size(m) = Cardinality(HeldKeys(m))
      BY DEF Size, HeldKeys
    <2> QED
      BY <2>1, <2>3, <2>4, Types DEF SizeOk
  <1>12. ASSUME NEW q \in Ids PROVE EntryOk(q)'
    <2>1. CASE q = f
      BY <1>1, <1>3, <1>5, <1>7, <2>1 DEF EntryOk
    <2>2. CASE q # f
      BY <1>5, <1>8, <2>2, ForgetsEntry
    <2> QED
      BY <2>1, <2>2
  <1>13. \A u \in Turns \ {t} : turn[u].at # f
    BY <1>0 DEF MapInv, TurnOk
  <1>14. OneUser'
    <2> SUFFICES ASSUME NEW u \in Turns, NEW w \in Turns, Uses(u)', Uses(w)',
                        turn'[u].at = turn'[w].at
                 PROVE  u = w
      BY DEF OneUser
    <2>1. CASE u # t /\ w # t
      <3>1. turn'[u] = turn[u] /\ turn'[w] = turn[w]
        BY <2>1
      <3> QED
        BY <3>1 DEF MapInv, OneUser, Uses
    <2>2. CASE u = t \/ w = t
      BY <1>13, <2>2
    <2> QED
      BY <2>1, <2>2
  <1>15. ASSUME NEW u \in Turns PROVE TurnOk(u)'
    <2>1. CASE u = t
      BY <1>0, <1>3, <1>5, <1>7, <2>1 DEF TurnOk
    <2>2. CASE u # t
      <3>1. turn'[u] = turn[u] /\ TurnOk(u) /\ turn[u].at \in 0..MaxEntries
        BY <2>2, Types DEF MapInv, RunFrame
      <3>2. CASE turn[u].at = 0
        BY <3>1, <3>2 DEF TurnOk
      <3>3. CASE turn[u].at # 0
        <4>1. turn[u].at \in Ids \ {f}
          BY <1>13, <2>2, <3>1, <3>3, Types DEF Ids
        <4>2. entry'[turn[u].at].state = entry[turn[u].at].state
          BY <1>5, <4>1 DEF Forgets
        <4>3. Held(map, turn[u].at) /\ entry[turn[u].at].state = "creating"
              => Held(map', turn[u].at)
          BY <1>8, <4>1, ForgetsCreating
        <4> QED
          BY <3>1, <4>2, <4>3 DEF TurnOk
      <3> QED
        BY <3>2, <3>3
    <2> QED
      BY <2>1, <2>2
  <1> QED
    BY <1>9, <1>10, <1>11, <1>12, <1>14, <1>15 DEF MapInv
\* A warm handle passes to the turn.
LEMMA WarmInv ==
  ASSUME MapInv, NEW t \in Turns, NEW k \in Keys, turn[t].pc = "new", NEW e \in Ids,
         map[k] = e, entry[e].state = "idle", entry[e].alive,
         entry' = [entry EXCEPT ![e] = [entry[e] EXCEPT !.timer = FALSE, !.state = "active"]],
         UNCHANGED <<map, shut>>, hist' \in [Keys -> SUBSET Turns],
         turn' \in [Turns -> RunFrame], turn'[t].pc = "acquired", turn'[t].at = e,
         \A u \in Turns \ {t} : turn'[u] = turn[u]
  PROVE  MapInv'
  <1>1. entry[e] \in Entry /\ entry \in [Ids -> Entry] /\ EntryOk(e)
    BY Types DEF MapInv
  <1>2. [entry[e] EXCEPT !.timer = FALSE, !.state = "active"] \in Entry
    BY <1>1 DEF Entry, States
  <1>3. /\ entry' \in [Ids -> Entry] /\ \A q \in Ids \ {e} : entry'[q] = entry[q]
        /\ entry'[e].state = "active" /\ entry'[e].timer = FALSE /\ entry'[e].key = entry[e].key
        /\ entry'[e].made = entry[e].made /\ entry'[e].alive = entry[e].alive
    BY <1>1, <1>2 DEF Entry
  <1>4. TypeOK'
    BY <1>3 DEF MapInv, TypeOK, Entry, RunFrame
  <1>5. EntryOk(e)'
    BY <1>1, <1>3 DEF EntryOk
  <1>6. \A u \in Turns : turn[u].at = e => turn[u].pc \notin {"creating", "acquired", "prompting", "dropping"}
    BY DEF MapInv, TurnOk
  <1>7. OneUser'
    <2> SUFFICES ASSUME NEW u \in Turns, NEW w \in Turns, Uses(u)', Uses(w)',
                        turn'[u].at = turn'[w].at
                 PROVE  u = w
      BY DEF OneUser
    <2>1. CASE u # t /\ w # t
      <3>1. turn'[u] = turn[u] /\ turn'[w] = turn[w]
        BY <2>1
      <3> QED
        BY <3>1 DEF MapInv, OneUser, Uses
    <2>2. CASE u = t \/ w = t
      BY <1>6, <2>2 DEF Uses
    <2> QED
      BY <2>1, <2>2
  <1>8. ASSUME NEW u \in Turns PROVE TurnOk(u)'
    <2>1. CASE u = t
      BY <1>3, <2>1 DEF TurnOk, Ids
    <2>2. CASE u # t
      <3>1. turn'[u] = turn[u] /\ TurnOk(u) /\ turn[u].at \in 0..MaxEntries
        BY <2>2, Types DEF MapInv, RunFrame
      <3>2. CASE turn[u].at \in {0, e}
        BY <1>3, <1>6, <3>1, <3>2 DEF TurnOk
      <3>3. CASE turn[u].at \notin {0, e}
        <4>1. turn[u].at \in Ids \ {e}
          BY <3>1, <3>3, Types DEF Ids
        <4> QED
          BY <1>3, <3>1, <4>1 DEF TurnOk
      <3> QED
        BY <3>2, <3>3
    <2> QED
      BY <2>1, <2>2
  <1> QED
    BY <1>3, <1>4, <1>5, <1>7, <1>8, OneEntry

LEMMA AcquireInv ==
  ASSUME MapInv, NEW t \in Turns, NEW k \in Keys, Acquire(t, k)
  PROVE  MapInv'
  <1>0. PICK e : e = map[k]
    OBVIOUS
  <1> DEFINE idle == e # 0 /\ entry[e].state = "idle"
             warm == idle /\ entry[e].alive
             off == IF idle THEN [entry EXCEPT ![e].timer = FALSE] ELSE entry
             es == IF idle /\ ~warm THEN CloseHandle(off, e) ELSE off
             m == IF idle /\ ~warm THEN [map EXCEPT ![k] = 0] ELSE map
             f == CHOOSE i \in Ids : es[i].state = "unused"
             frame == [Frame EXCEPT !.key = k, !.prior = hist[SessionOf[k]]]
  <1>1. /\ turn[t].pc = "new" /\ hist' = [hist EXCEPT ![SessionOf[k]] = @ \cup {t}]
        /\ UNCHANGED shut
    BY DEF Acquire, AcquireAs
  <1>2. \/ /\ turn' = [turn EXCEPT ![t] = [frame EXCEPT !.pc = "refused"]]
           /\ UNCHANGED <<entry, map>>
        \/ /\ warm /\ entry' = [es EXCEPT ![e].state = "active"]
           /\ turn' = [turn EXCEPT ![t] = [frame EXCEPT !.pc = "acquired", !.at = e,
                                                        !.reused = TRUE]]
           /\ UNCHANGED map
        \/ /\ e = 0 \/ (idle /\ ~warm)
           /\ turn' = [turn EXCEPT ![t] = [frame EXCEPT !.pc = "refused"]]
           /\ entry' = es /\ map' = m
        \/ /\ e = 0 \/ (idle /\ ~warm)
           /\ Size(m) < Capacity /\ \E i \in Ids : es[i].state = "unused"
           /\ entry' = [es EXCEPT ![f].key = k, ![f].state = "creating"]
           /\ map' = [m EXCEPT ![k] = f]
           /\ turn' = [turn EXCEPT ![t] = [frame EXCEPT !.pc = "creating", !.at = f]]
    BY <1>0 DEF Acquire, AcquireAs
  <1>3. /\ entry \in [Ids -> Entry] /\ map \in [Keys -> 0..MaxEntries] /\ e \in 0..MaxEntries
        /\ (e # 0 => e \in Ids /\ entry[e] \in Entry)
    BY <1>0, Types DEF Ids
  <1>4. e = 0 \/ (idle /\ ~warm) => Forgets(k, es, m)
    <2>1. CASE e = 0
      BY <1>0, <1>3, <2>1 DEF Forgets, Ids
    <2>2. CASE idle /\ ~warm
      <3> DEFINE v == [entry[e] EXCEPT !.timer = FALSE]
      <3>1. /\ v \in Entry /\ v.key = entry[e].key /\ v.state = entry[e].state
            /\ v.made = entry[e].made /\ v.timer = FALSE
        BY <1>3, <2>2 DEF Entry
      <3>2. off = [entry EXCEPT ![e] = v] /\ es = CloseHandle(off, e) /\ m = [map EXCEPT ![k] = 0]
        BY <2>2
      <3> HIDE DEF v, off, es, m
      <3>3. off \in [Ids -> Entry] /\ off[e] = v /\ \A q \in Ids \ {e} : off[q] = entry[q]
        BY <1>3, <2>2, <3>1, <3>2
      <3>4. /\ es \in [Ids -> Entry] /\ \A q \in Ids \ {e} : es[q] = off[q]
            /\ es[e].alive = FALSE /\ es[e].state = v.state /\ es[e].key = v.key
            /\ es[e].made = v.made /\ es[e].timer = v.timer
        BY <1>3, <2>2, <3>2, <3>3, HandleCloses
      <3>5. m \in [Keys -> 0..MaxEntries] /\ m[k] = 0 /\ \A j \in Keys \ {k} : m[j] = map[j]
        BY <1>3, <3>2, Types
      <3>6. \A q \in Ids : /\ es[q].key = entry[q].key /\ es[q].state = entry[q].state
                           /\ es[q].made = entry[q].made
        BY <3>1, <3>3, <3>4
      <3>7. \A q \in Ids : q # map[k] => es[q] = entry[q]
        BY <1>0, <3>3, <3>4
      <3> QED
        BY <1>0, <2>2, <3>1, <3>4, <3>5, <3>6, <3>7 DEF Forgets
    <2> QED
      BY <2>1, <2>2
  <1>5. "refused" \in Phases /\ "acquired" \in Phases /\ "creating" \in Phases /\ 0 \in 0..MaxEntries
    BY Types DEF Phases
  <1>6. frame \in RunFrame /\ frame.at = 0
    <2>1. hist[SessionOf[k]] \in SUBSET Turns
      BY Types, SessionAssumption
    <2> QED
      BY <1>5, <2>1 DEF Frame, RunFrame, Phases
  <1> HIDE DEF frame
  <1>7. ASSUME NEW p \in Phases, NEW a \in 0..MaxEntries
        PROVE  /\ [frame EXCEPT !.pc = p, !.at = a] \in RunFrame
               /\ [frame EXCEPT !.pc = p, !.at = a].pc = p
               /\ [frame EXCEPT !.pc = p, !.at = a].at = a
               /\ [frame EXCEPT !.pc = p, !.at = a, !.reused = TRUE] \in RunFrame
               /\ [frame EXCEPT !.pc = p, !.at = a, !.reused = TRUE].pc = p
               /\ [frame EXCEPT !.pc = p, !.at = a, !.reused = TRUE].at = a
    BY <1>6 DEF RunFrame
  <1>8. ASSUME turn' = [turn EXCEPT ![t] = [frame EXCEPT !.pc = "refused"]]
        PROVE  /\ hist' \in [Keys -> SUBSET Turns] /\ turn' \in [Turns -> RunFrame]
               /\ turn'[t].pc = "refused" /\ turn'[t].at = 0
               /\ \A u \in Turns \ {t} : turn'[u] = turn[u]
    <2> DEFINE v == [frame EXCEPT !.pc = "refused"]
    <2>1. v \in RunFrame /\ v.pc = "refused" /\ v.at = 0
      BY <1>5, <1>6 DEF RunFrame
    <2>2. turn' = [turn EXCEPT ![t] = v]
      BY <1>8
    <2> HIDE DEF v
    <2> QED
      BY <1>1, <2>1, <2>2, Starts
  <1>9. CASE /\ turn' = [turn EXCEPT ![t] = [frame EXCEPT !.pc = "refused"]]
             /\ UNCHANGED <<entry, map>>
    BY <1>1, <1>8, <1>9, RefusedInv
  <1>10. CASE /\ warm /\ entry' = [es EXCEPT ![e].state = "active"]
              /\ turn' = [turn EXCEPT ![t] = [frame EXCEPT !.pc = "acquired", !.at = e,
                                                           !.reused = TRUE]]
              /\ UNCHANGED map
    <2>1. entry' = [entry EXCEPT ![e] = [entry[e] EXCEPT !.timer = FALSE, !.state = "active"]]
      BY <1>3, <1>10
    <2>2. /\ hist' \in [Keys -> SUBSET Turns] /\ turn' \in [Turns -> RunFrame]
          /\ turn'[t].pc = "acquired" /\ turn'[t].at = e
          /\ \A u \in Turns \ {t} : turn'[u] = turn[u]
      <3> DEFINE v == [frame EXCEPT !.pc = "acquired", !.at = e, !.reused = TRUE]
      <3>1. v \in RunFrame /\ v.pc = "acquired" /\ v.at = e
        BY <1>3, <1>5, <1>7
      <3>2. turn' = [turn EXCEPT ![t] = v]
        BY <1>10
      <3> HIDE DEF v
      <3> QED
        BY <1>1, <3>1, <3>2, Starts
    <2>3. e \in Ids /\ entry[e].state = "idle" /\ entry[e].alive
      BY <1>3, <1>10
    <2> QED
      BY <1>0, <1>1, <1>10, <2>1, <2>2, <2>3, WarmInv
  <1>11. CASE /\ e = 0 \/ (idle /\ ~warm)
              /\ turn' = [turn EXCEPT ![t] = [frame EXCEPT !.pc = "refused"]]
              /\ entry' = es /\ map' = m
    BY <1>1, <1>4, <1>8, <1>11, RefusedInv
  <1>12. CASE /\ e = 0 \/ (idle /\ ~warm)
              /\ Size(m) < Capacity /\ \E i \in Ids : es[i].state = "unused"
              /\ entry' = [es EXCEPT ![f].key = k, ![f].state = "creating"]
              /\ map' = [m EXCEPT ![k] = f]
              /\ turn' = [turn EXCEPT ![t] = [frame EXCEPT !.pc = "creating", !.at = f]]
    <2>1. Forgets(k, es, m)
      BY <1>4, <1>12
    <2> HIDE DEF es, m, idle, warm
    <2>2. f \in Ids /\ es[f].state = "unused"
      BY <1>12
    <2>3. f \in 0..MaxEntries
      BY <2>2, Types DEF Ids
    <2> HIDE DEF f
    <2>4. /\ hist' \in [Keys -> SUBSET Turns] /\ turn' \in [Turns -> RunFrame]
          /\ turn'[t].pc = "creating" /\ turn'[t].at = f
          /\ \A u \in Turns \ {t} : turn'[u] = turn[u]
      <3> DEFINE v == [frame EXCEPT !.pc = "creating", !.at = f]
      <3>1. v \in RunFrame /\ v.pc = "creating" /\ v.at = f
        BY <1>5, <1>7, <2>3
      <3>2. turn' = [turn EXCEPT ![t] = v]
        BY <1>12
      <3> HIDE DEF v
      <3> QED
        BY <1>1, <3>1, <3>2, Starts
    <2>5. Size(m) < Capacity /\ map' = [m EXCEPT ![k] = f]
          /\ entry' = [es EXCEPT ![f].key = k, ![f].state = "creating"]
      BY <1>12
    <2>6. turn[t].pc = "new" /\ UNCHANGED shut
      BY <1>1
    <2> QED
      BY <2>1, <2>2, <2>4, <2>5, <2>6, CreatesInv, Zenon
  <1> QED
    BY <1>2, <1>9, <1>10, <1>11, <1>12

-----------------------------------------------------------------------------
(* The theorems.                                                           *)

LEMMA MapInit == Init => MapInv
  <1> SUFFICES ASSUME Init PROVE MapInv
    OBVIOUS
  <1>1. /\ Blank \in Entry /\ Blank.state = "unused" /\ ~Blank.made /\ ~Blank.alive
        /\ ~Blank.timer
    BY DEF Blank, Entry, States
  <1>2. Frame \in RunFrame /\ Frame.pc = "new" /\ Frame.at = 0
    BY EntriesAssumption DEF Frame, RunFrame, Phases
  <1>3. /\ entry = [e \in Ids |-> Blank] /\ map = [k \in Keys |-> 0]
        /\ turn = [t \in Turns |-> Frame] /\ hist = [k \in Keys |-> {}]
        /\ shut = [phase |-> "no", waits |-> {}]
    BY DEF Init
  <1>4. TypeOK
    <2>1. entry \in [Ids -> Entry] /\ turn \in [Turns -> RunFrame]
      BY <1>1, <1>2, <1>3
    <2>2. map \in [Keys -> 0..MaxEntries] /\ hist \in [Keys -> SUBSET Turns]
      BY <1>3, EntriesAssumption
    <2>3. shut \in [phase : {"no", "waiting", "done", "timedout"}, waits : SUBSET Ids]
      BY <1>3
    <2> QED
      BY <2>1, <2>2, <2>3 DEF TypeOK, Entry, RunFrame
  <1>5. HeldKeys(map) = {} /\ Size(map) = Cardinality(HeldKeys(map))
    BY <1>3 DEF HeldKeys, Size
  <1>6. SizeOk
    BY <1>5, FS_EmptySet, CapacityAssumption DEF SizeOk
  <1>7. \A e \in Ids : EntryOk(e)
    BY <1>1, <1>3 DEF EntryOk, Held
  <1>8. \A t \in Turns : TurnOk(t)
    BY <1>2, <1>3 DEF TurnOk
  <1>9. KeysOk /\ OneUser
    BY <1>2, <1>3 DEF KeysOk, OneUser, Uses
  <1> QED
    BY <1>4, <1>6, <1>7, <1>8, <1>9 DEF MapInv

LEMMA MapNext == MapInv /\ [Next]_vars => MapInv'
  <1> SUFFICES ASSUME MapInv, [Next]_vars PROVE MapInv'
    OBVIOUS
  <1>1. ASSUME NEW t \in Turns,
               \/ \E k \in Keys : Acquire(t, k)
               \/ CreateOk(t) \/ CreateFails(t) \/ SendPrompt(t)
               \/ Returns(t) \/ Throws(t) \/ Dropped(t)
        PROVE  MapInv'
    BY <1>1, AcquireInv, CreateOkInv, CreateFailsInv, SendPromptInv, ReturnsInv, ThrowsInv,
       DroppedInv
  <1>2. ASSUME NEW e \in Ids, Breaks(e) \/ OnBroken(e) \/ CloseSettles(e) \/ IdleTimeout(e)
        PROVE  MapInv'
    BY <1>2, BreaksInv, OnBrokenInv, CloseSettlesInv, IdleTimeoutInv
  <1>3. CASE Shutdown \/ ShutdownSettles \/ ShutdownTimesOut
    BY <1>3, ShutdownInv, ShutdownEndsInv
  <1>4. CASE UNCHANGED vars
    <2>1. UNCHANGED <<entry, map, turn, hist, shut>>
      BY <1>4 DEF vars
    <2> QED
      BY <2>1 DEF MapInv, TypeOK, KeysOk, OneUser, Uses, SizeOk, EntryOk, TurnOk
  <1> QED
    BY <1>1, <1>2, <1>3, <1>4 DEF Next

\* The inductive invariant holds: an entry's state, its handle and timer, the
\* map and the turn that uses it agree.
THEOREM MapInvariant == Spec => []MapInv
  BY MapInit, MapNext, PTL DEF Spec

\* MapKept, for any number of turns, keys, entries and any capacity: however
\* turns, breaks, timeouts and shutdown interleave, no handle is shared, lost
\* from the map or left alive by a settled shutdown (acp-session-map.ts).
THEOREM MapIsKept == Spec => []MapKept
  BY MapInvariant, InvKept, PTL

=============================================================================
