------------------------ MODULE SessionOwnersProofs -------------------------
(***************************************************************************)
(* Proofs about SessionOwners for every set of turns, sessions and         *)
(* connections: types, the lock's safety invariants, the cancellation      *)
(* window, and the refinement of SerialSessions.                           *)
(*                                                                         *)
(* MutualExclusion is not inductive.  What is: the turns on a session form *)
(* a chain by `prev` that ends in the owner's tail, no two turns share a   *)
(* predecessor, and exactly one of them, the front, has none left to wait  *)
(* for; a turn runs only as the front.                                     *)
(***************************************************************************)
EXTENDS SessionOwners, FiniteSetTheorems, TLAPS

Active(t) == phase[t] \in InFlight

\* The turn waits for nobody any more.
Front(t) == Active(t) /\ MayStart(t)

Begun == Running \cup {"settled", "gone"}

\* TypeOK without the sign of inFlight, which InFlightCounted gives.
Types ==
    /\ phase \in [Turns -> Phases]
    /\ sess \in [Turns -> Sessions \cup {None}]
    /\ conn \in [Turns -> Connections \cup {None}]
    /\ home \in [Turns -> Turns \cup {None}]
    /\ prev \in [Turns -> Turns \cup {None}]
    /\ owners \in [Sessions -> Turns \cup {None}]
    /\ tail \in [Turns -> Turns \cup {None}]
    /\ inFlight \in Int
    /\ active \in [Connections -> Turns \cup {None}]
    /\ accepting \subseteq Turns
    /\ aborted \subseteq Turns
    /\ accepted \subseteq Turns
    /\ result \in [Turns -> {"none", "stop", "aborted", "error"}]
    /\ log \in [Sessions -> Seq(Turns)]
    /\ saw \in [Turns -> Seq(Turns)]
    /\ ahead \in [Turns -> SUBSET Turns]

\* A turn that was not admitted has left no trace; the others have a session
\* and a predecessor, if any, that was admitted on it.
Admitted ==
    \A t \in Turns :
        /\ phase[t] \in {"new", "refused"} =>
               sess[t] = None /\ tail[t] = None /\ prev[t] = None
        /\ phase[t] \notin {"new", "refused"} => sess[t] \in Sessions
        /\ prev[t] # None => sess[prev[t]] = sess[t]

\* The owner's tail is one of the session's turns and nobody's predecessor.
TailInv ==
    \A s \in Sessions : owners[s] # None =>
        /\ tail[owners[s]] \in OnSession(s)
        /\ \A t \in OnSession(s) : prev[t] # tail[owners[s]]

\* Two turns of a session never wait for the same one.
ChainInv ==
    \A t, u \in Turns :
        /\ Active(t)
        /\ Active(u)
        /\ sess[t] = sess[u]
        /\ prev[t] = prev[u]
        /\ prev[t] # None
        => t = u

\* A session has at most one front, and only the front runs.
FrontInv ==
    /\ \A t, u \in Turns : Front(t) /\ Front(u) /\ sess[t] = sess[u] => t = u
    /\ \A t \in Turns : phase[t] \in Begun => MayStart(t)

\* The turns ahead of t are gone, or are its predecessor or ahead of that.
AheadInv ==
    /\ \A t \in Turns : \A u \in ahead[t] :
           \/ phase[u] = "gone"
           \/ prev[t] # None /\ (u = prev[t] \/ u \in ahead[prev[t]])
    /\ \A s \in Sessions : owners[s] # None =>
           \A u \in OnSession(s) :
               u = tail[owners[s]] \/ u \in ahead[tail[owners[s]]]
    /\ \A t \in Turns : phase[t] \in Begun =>
           \A u \in ahead[t] : phase[u] = "gone"
    /\ \A t \in Turns : phase[t] \in {"new", "refused"} => ahead[t] = {}

LockInv ==
    /\ Types
    /\ Admitted
    /\ OneOwnerPerSession
    /\ TailInv
    /\ ChainInv
    /\ FrontInv
    /\ AheadInv

-----------------------------------------------------------------------------
USE DEF InFlight, Running, Phases, Active, Front, OnSession, MayStart, Begun

LEMMA LockInvInit == Init => LockInv
  BY NoneAssumption
     DEF Init, LockInv, Types, Admitted, OneOwnerPerSession, TailInv,
         ChainInv, FrontInv, AheadInv

\* What admission does to the lock, the same for named and new sessions.
Joins(t, s, p) ==
    /\ phase[t] = "new"
    /\ phase' = [phase EXCEPT ![t] = p]
    /\ TakeTail(t, s)

LEMMA JoinKeepsLock ==
  ASSUME LockInv, Types', NEW t \in Turns, NEW s \in Sessions,
         NEW p \in {"queued", "resumed"}, Joins(t, s, p),
         p = "resumed" => \A u \in Turns : sess[u] # s
  PROVE  LockInv'
  <1> DEFINE owner == IF owners[s] = None THEN t ELSE owners[s]
  <1> USE DEF LockInv, Types
  <1>1. owner \in Turns /\ owner # None /\ t # None
    BY NoneAssumption
  <1>2. /\ owners' = [owners EXCEPT ![s] = owner]
        /\ home' = [home EXCEPT ![t] = owner]
        /\ prev' = [prev EXCEPT ![t] = tail[owner]]
        /\ tail' = [tail EXCEPT ![owner] = t]
        /\ sess' = [sess EXCEPT ![t] = s]
        /\ ahead' = [ahead EXCEPT ![t] = OnSession(s)]
        /\ phase' = [phase EXCEPT ![t] = p]
    BY DEF Joins, TakeTail, NewTail
  <1>3. sess[t] = None /\ tail[t] = None /\ prev[t] = None /\ phase[t] = "new"
    BY DEF Joins, Admitted
  <1>4. OnSession(s)' = OnSession(s) \cup {t}
    BY <1>2, <1>3, NoneAssumption
  <1>5. \A r \in Sessions \ {s} : OnSession(r)' = OnSession(r)
    BY <1>2, <1>3, NoneAssumption
  <1>6. owners[s] = None => OnSession(s) = {} /\ prev'[t] = None
    BY <1>2, <1>3 DEF OneOwnerPerSession
  <1>7. owners[s] # None =>
            prev'[t] = tail[owners[s]] /\ prev'[t] \in OnSession(s)
    BY <1>2 DEF TailInv
  <1>8. \A u \in Turns \ {t} :
            /\ phase'[u] = phase[u]
            /\ prev'[u] = prev[u]
            /\ sess'[u] = sess[u]
            /\ home'[u] = home[u]
            /\ ahead'[u] = ahead[u]
            /\ prev[u] # t
    <2>1. ASSUME NEW u \in Turns, prev[u] = t
          PROVE  FALSE
      <3>1. sess[u] = None
        BY <1>1, <1>3, <2>1 DEF Admitted
      <3>2. prev[u] = None
        BY <3>1, NoneAssumption DEF Admitted
      <3> QED
        BY <1>1, <2>1, <3>2
    <2>2. \A u \in Turns \ {t} : ahead'[u] = ahead[u]
      BY <1>2
    <2> QED
      BY <1>2, <2>1, <2>2
  <1>9. Admitted'
    BY <1>2, <1>3, <1>6, <1>7, <1>8, NoneAssumption DEF Admitted
  <1>10. OneOwnerPerSession'
    BY <1>1, <1>2, <1>4, <1>5, <1>6, <1>8 DEF OneOwnerPerSession
  <1>11. TailInv'
    <2> SUFFICES ASSUME NEW r \in Sessions, owners'[r] # None
                 PROVE  /\ tail'[owners'[r]] \in OnSession(r)'
                        /\ \A u \in OnSession(r)' : prev'[u] # tail'[owners'[r]]
      BY DEF TailInv
    <2>1. CASE r = s
      <3>1. tail'[owners'[r]] = t
        BY <1>1, <1>2, <2>1
      <3>2. \A u \in OnSession(s) : u # t /\ prev[u] # t
        BY <1>3, NoneAssumption DEF Admitted
      <3>3. prev'[t] # t
        BY <1>3, <1>6, <1>7, NoneAssumption
      <3>4. \A u \in OnSession(r)' : prev'[u] # t
        BY <1>3, <1>8, <2>1, <3>2, <3>3, NoneAssumption
      <3>5. t \in OnSession(r)'
        BY <1>2, <2>1
      <3> QED
        BY <3>1, <3>4, <3>5
    <2>2. CASE r # s
      <3>1. owners'[r] = owners[r] /\ owners[r] \in Turns
        BY <1>2, <2>2
      <3>2. owners[r] # owner
        <4>1. tail[owners[r]] \in OnSession(r)
          BY <3>1 DEF TailInv
        <4>2. CASE owners[s] = None
          BY <1>3, <4>1, <4>2, NoneAssumption
        <4>3. CASE owners[s] # None
          <5>1. tail[owners[s]] \in OnSession(s)
            BY <4>3 DEF TailInv
          <5> QED
            BY <2>2, <4>1, <4>3, <5>1
        <4> QED
          BY <4>2, <4>3
      <3>3. tail'[owners'[r]] = tail[owners[r]]
        BY <1>2, <3>1, <3>2
      <3> QED
        BY <1>3, <1>5, <1>8, <2>2, <3>1, <3>3, NoneAssumption DEF TailInv
    <2> QED
      BY <2>1, <2>2
  <1>12. ChainInv'
    <2>1. \A u \in Turns \ {t} :
              Active(u) /\ sess[u] = s => prev[u] # prev'[t] \/ prev[u] = None
      BY <1>6, <1>7 DEF TailInv
    <2> QED
      BY <1>2, <1>8, <2>1 DEF ChainInv
  <1>13. FrontInv'
    <2>1. \A u \in Turns : MayStart(u) /\ u # t => MayStart(u)'
      BY <1>3, <1>8
    <2>2. \A u \in Turns \ {t} : MayStart(u)' => MayStart(u)
      BY <1>3, <1>8 DEF Joins
    <2>3. CASE owners[s] = None
      <3>1. \A u \in Turns \ {t} : Active(u)' => sess'[u] # s
        BY <1>6, <1>8, <2>3
      <3>2. MayStart(t)'
        BY <1>6, <2>3
      <3> QED
        BY <1>2, <1>8, <2>1, <2>2, <3>1, <3>2 DEF FrontInv
    <2>4. CASE owners[s] # None
      <3>1. ~MayStart(t)' /\ p = "queued"
        BY <1>1, <1>2, <1>7, <1>8, <2>4, NoneAssumption
      <3>2. ASSUME NEW u \in Turns, Front(u)'
            PROVE  u # t /\ Front(u) /\ sess'[u] = sess[u]
        BY <1>8, <2>2, <3>1, <3>2
      <3>3. ASSUME NEW u \in Turns, NEW v \in Turns, Front(u)', Front(v)',
                   sess'[u] = sess'[v]
            PROVE  u = v
        <4>1. Front(u) /\ Front(v) /\ sess[u] = sess[v]
          BY <3>2, <3>3
        <4> QED
          BY <4>1 DEF FrontInv
      <3>4. ASSUME NEW u \in Turns, phase'[u] \in Begun
            PROVE  MayStart(u)'
        <4>1. u # t /\ phase[u] \in Begun
          BY <1>2, <1>8, <3>1, <3>4 DEF Begun, Running
        <4>2. MayStart(u)
          BY <4>1 DEF FrontInv
        <4> QED
          BY <2>1, <4>1, <4>2
      <3> QED
        BY <3>3, <3>4 DEF FrontInv
    <2> QED
      BY <2>3, <2>4
  <1>14. AheadInv'
    <2>1. \A u \in OnSession(s) :
              prev'[t] # None /\ (u = prev'[t] \/ u \in ahead[prev'[t]])
      BY <1>1, <1>6, <1>7, NoneAssumption DEF AheadInv, TailInv
    <2>2. \A u \in Turns : \A v \in ahead'[u] :
              \/ phase'[v] = "gone"
              \/ prev'[u] # None /\ (v = prev'[u] \/ v \in ahead'[prev'[u]])
      <3>1. t \notin OnSession(s)
        BY <1>3
      <3>2. \A v \in ahead'[t] :
                prev'[t] # None /\ (v = prev'[t] \/ v \in ahead'[prev'[t]])
        BY <1>2, <1>6, <1>7, <1>8, <2>1, <3>1
      <3>3. \A u \in Turns \ {t} : \A v \in ahead'[u] :
              \/ phase'[v] = "gone"
              \/ prev'[u] # None /\ (v = prev'[u] \/ v \in ahead'[prev'[u]])
        BY <1>2, <1>3, <1>8 DEF AheadInv
      <3> QED
        BY <3>2, <3>3
    <2>3. ASSUME NEW r \in Sessions, owners'[r] # None
          PROVE  \A u \in OnSession(r)' :
                     u = tail'[owners'[r]] \/ u \in ahead'[tail'[owners'[r]]]
      <3>1. CASE r = s
        BY <1>1, <1>2, <1>4, <3>1
      <3>2. CASE r # s
        <4>1. owners[r] = owners'[r] /\ owners[r] # None
          BY <1>2, <2>3, <3>2
        <4>2. tail[owners[r]] \in OnSession(r) /\ tail[owners[r]] # t
          BY <1>3, <4>1 DEF TailInv
        <4>3. owners[r] # owner
          <5>1. owners[s] # None => tail[owners[s]] \in OnSession(s)
            BY DEF TailInv
          <5> QED
            BY <1>3, <3>2, <4>2, <5>1, NoneAssumption
        <4>4. tail'[owners'[r]] = tail[owners[r]]
          BY <1>2, <4>1, <4>3
        <4> QED
          BY <1>5, <1>8, <3>2, <4>1, <4>2, <4>4 DEF AheadInv
      <3> QED
        BY <3>1, <3>2
    <2>4. \A u \in Turns : phase'[u] \in Begun =>
              \A v \in ahead'[u] : phase'[v] = "gone"
      <3>1. p = "resumed" => ahead'[t] = {}
        BY <1>2
      <3> QED
        BY <1>2, <1>3, <1>8, <3>1 DEF AheadInv
    <2>5. \A u \in Turns : phase'[u] \in {"new", "refused"} => ahead'[u] = {}
      BY <1>2, <1>8 DEF AheadInv
    <2> QED
      BY <2>2, <2>3, <2>4, <2>5 DEF AheadInv
  <1> QED
    BY <1>9, <1>10, <1>11, <1>12, <1>13, <1>14

\* A step of a turn that runs or settles leaves the queue as it is.
LEMMA RunKeepsLock ==
  ASSUME LockInv, Types', NEW t \in Turns,
         \/ phase[t] = "queued" /\ MayStart(t)
         \/ phase[t] \in Running,
         NEW p \in Running \cup {"settled"},
         phase' = [phase EXCEPT ![t] = p],
         UNCHANGED <<sess, home, prev, owners, tail, ahead>>
  PROVE  LockInv'
  <1> USE DEF LockInv, Types
  <1>1. \A u \in Turns : phase'[u] = "gone" <=> phase[u] = "gone"
    OBVIOUS
  <1>2. \A u \in Turns :
            /\ Active(u)' <=> Active(u)
            /\ MayStart(u)' <=> MayStart(u)
    BY <1>1
  <1>3. \A s \in Sessions : OnSession(s)' = OnSession(s)
    BY <1>2
  <1>4. Admitted'
    BY DEF Admitted
  <1>5. OneOwnerPerSession' /\ TailInv'
    BY <1>3 DEF OneOwnerPerSession, TailInv
  <1>6. ChainInv'
    BY <1>2 DEF ChainInv
  <1>7. FrontInv'
    BY <1>2 DEF FrontInv
  <1>8. \A u \in ahead[t] : phase[u] = "gone"
    BY DEF AheadInv
  <1>9. AheadInv'
    BY <1>1, <1>3, <1>8 DEF AheadInv
  <1> QED
    BY <1>4, <1>5, <1>6, <1>7, <1>9

\* The cleanup passes the front on to the turn behind, or drops the owner.
LEMMA CleanUpKeepsLock ==
  ASSUME LockInv, Types', NEW t \in Turns, CleanUp(t)
  PROVE  LockInv'
  <1> USE DEF LockInv, Types
  <1> DEFINE s == sess[t]
  <1>1. /\ phase[t] = "settled"
        /\ phase' = [phase EXCEPT ![t] = "gone"]
        /\ owners' = IF IsLast(t) THEN [owners EXCEPT ![s] = None]
                     ELSE owners
        /\ UNCHANGED <<sess, home, prev, tail, ahead>>
    BY DEF CleanUp
  <1>2. s \in Sessions /\ t \in OnSession(s) /\ owners[s] = home[t]
        /\ owners[s] # None
    BY <1>1 DEF Admitted, OneOwnerPerSession
  <1>3. OnSession(s)' = OnSession(s) \ {t}
    BY <1>1
  <1>4. \A r \in Sessions \ {s} : OnSession(r)' = OnSession(r)
    BY <1>1
  <1>5. Front(t)
    BY <1>1 DEF FrontInv
  <1>6. \A u \in Turns : MayStart(u) => MayStart(u)'
    BY <1>1
  <1>7. \A u \in Turns : MayStart(u)' => MayStart(u) \/ prev[u] = t
    BY <1>1
  <1>8. Admitted'
    BY <1>1 DEF Admitted
  <1>9. ChainInv'
    BY <1>1 DEF ChainInv
  <1>10. FrontInv'
    <2>1. ASSUME NEW u \in Turns, NEW v \in Turns, Front(u)', Front(v)',
                 sess'[u] = sess'[v]
          PROVE  u = v
      <3>1. Active(u) /\ Active(v) /\ u # t /\ v # t /\ sess[u] = sess[v]
        BY <1>1, <2>1
      <3>2. sess[u] = s => ~MayStart(u) /\ ~MayStart(v)
        BY <1>5, <3>1 DEF FrontInv
      <3>3. (prev[u] = t => sess[u] = s) /\ (prev[v] = t => sess[v] = s)
        BY <1>2, NoneAssumption DEF Admitted
      <3>4. CASE sess[u] = s
        BY <1>7, <2>1, <3>1, <3>2, <3>4, NoneAssumption DEF ChainInv
      <3>5. CASE sess[u] # s
        BY <1>7, <2>1, <3>1, <3>3, <3>5 DEF FrontInv
      <3> QED
        BY <3>4, <3>5
    <2>2. \A u \in Turns : phase'[u] \in Begun => MayStart(u)'
      BY <1>1, <1>6 DEF FrontInv
    <2> QED
      BY <2>1, <2>2 DEF FrontInv
  <1>11. \A u \in Turns : \A v \in ahead[u] :
            \/ phase'[v] = "gone"
            \/ prev[u] # None /\ (v = prev[u] \/ v \in ahead[prev[u]])
    BY <1>1 DEF AheadInv
  <1>12. \A u \in Turns : phase'[u] \in Begun =>
            \A v \in ahead[u] : phase'[v] = "gone"
    BY <1>1 DEF AheadInv
  <1>13. CASE tail[home[t]] = t
    <2>1. owners' = [owners EXCEPT ![s] = None]
      BY <1>1, <1>2, <1>13 DEF IsLast
    <2>2. OnSession(s) = {t}
      BY <1>1, <1>2, <1>13 DEF AheadInv
    <2>3. OneOwnerPerSession' /\ TailInv'
      BY <1>1, <1>3, <1>4, <2>1, <2>2 DEF OneOwnerPerSession, TailInv
    <2>4. AheadInv'
      BY <1>1, <1>4, <1>11, <1>12, <2>1 DEF AheadInv
    <2> QED
      BY <1>8, <1>9, <1>10, <2>3, <2>4
  <1>14. CASE tail[home[t]] # t
    <2>1. owners' = owners
      BY <1>1, <1>14 DEF IsLast
    <2>2. tail[owners[s]] \in OnSession(s)' /\ owners[s] # None
      BY <1>2, <1>3, <1>14 DEF TailInv
    <2>3. OneOwnerPerSession'
      BY <1>1, <1>2, <1>3, <1>4, <2>1, <2>2 DEF OneOwnerPerSession
    <2>4. TailInv'
      BY <1>1, <1>3, <1>4, <2>1, <2>2 DEF TailInv
    <2>5. AheadInv'
      BY <1>1, <1>3, <1>4, <1>11, <1>12, <2>1 DEF AheadInv
    <2> QED
      BY <1>8, <1>9, <1>10, <2>3, <2>4, <2>5
  <1> QED
    BY <1>13, <1>14

-----------------------------------------------------------------------------
\* inFlight counts the turns in flight, so it never goes below zero.
InFlightSet == {t \in Turns : phase[t] \in InFlight}

LEMMA InFlightFinite == IsFiniteSet(InFlightSet) /\ IsFiniteSet(InFlightSet')
  BY TurnsAssumption, FS_Subset DEF InFlightSet

Inv == LockInv /\ InFlightCounted

LEMMA TypesStep ==
  ASSUME Inv, [Next]_vars
  PROVE  Types'
  <1> USE DEF Inv, LockInv, Types
  <1>1. ASSUME NEW t \in Turns, NEW c \in Connections, NEW s \in Sessions,
               Admit(t, c), TakeTail(t, s), UNCHANGED logVars,
               NEW p \in Phases, phase' = [phase EXCEPT ![t] = p]
        PROVE  Types'
    <2> DEFINE owner == IF owners[s] = None THEN t ELSE owners[s]
    <2>1. owner \in Turns
      OBVIOUS
    <2> HIDE DEF owner
    <2>2. /\ owners' = [owners EXCEPT ![s] = owner]
          /\ home' = [home EXCEPT ![t] = owner]
          /\ prev' = [prev EXCEPT ![t] = tail[owner]]
          /\ tail' = [tail EXCEPT ![owner] = t]
          /\ sess' = [sess EXCEPT ![t] = s]
          /\ ahead' = [ahead EXCEPT ![t] = OnSession(s)]
          /\ inFlight' = inFlight + 1
      BY <1>1 DEF TakeTail, NewTail, owner
    <2>3. OnSession(s) \in SUBSET Turns
      OBVIOUS
    <2>4. /\ active' = [active EXCEPT ![c] = t]
          /\ conn' = [conn EXCEPT ![t] = c]
          /\ accepting' = accepting \cup {t}
          /\ UNCHANGED <<aborted, accepted, result, log, saw>>
      BY <1>1 DEF Admit, IssueTicket, logVars
    <2> HIDE DEF OnSession
    <2>5. /\ phase' \in [Turns -> Phases]
          /\ sess' \in [Turns -> Sessions \cup {None}]
          /\ home' \in [Turns -> Turns \cup {None}]
          /\ prev' \in [Turns -> Turns \cup {None}]
          /\ owners' \in [Sessions -> Turns \cup {None}]
          /\ tail' \in [Turns -> Turns \cup {None}]
          /\ inFlight' \in Int
          /\ ahead' \in [Turns -> SUBSET Turns]
      BY <1>1, <2>1, <2>2, <2>3
    <2> QED
      BY <2>4, <2>5
  <1>2. ASSUME NEW t \in Turns, NEW c \in Connections,
               RefuseTurn(t, c) \/ CancelTurn(t, c)
        PROVE  Types'
    BY <1>2 DEF RefuseTurn, CancelTurn, lockVars, ticketVars, logVars
  <1>3. ASSUME NEW t \in Turns, StartTurn(t) \/ HandlerReturn(t)
        PROVE  Types'
    BY <1>3 DEF StartTurn, HandlerReturn, lockVars, ticketVars, logVars
  <1>4. ASSUME NEW t \in Turns, BuildResume(t)
        PROVE  Types'
    <2>1. sess[t] \in Sessions
      BY <1>4 DEF BuildResume, Admitted
    <2> QED
      BY <1>4, <2>1 DEF BuildResume, ticketVars
  <1>5. ASSUME NEW t \in Turns, WriteEvent(t)
        PROVE  Types'
    <2>1. sess[t] \in Sessions /\ log[sess[t]] \in Seq(Turns)
      BY <1>5 DEF WriteEvent, Admitted
    <2>2. log' \in [Sessions -> Seq(Turns)]
      BY <1>5, <2>1 DEF WriteEvent
    <2>3. phase' \in [Turns -> Phases]
      BY <1>5 DEF WriteEvent
    <2> QED
      BY <1>5, <2>2, <2>3 DEF WriteEvent, ticketVars
  <1>6. ASSUME NEW t \in Turns, Conclude(t)
        PROVE  Types'
    <2>1. result' \in [Turns -> {"none", "stop", "aborted", "error"}]
      BY <1>6 DEF Conclude
    <2> QED
      BY <1>6, <2>1 DEF Conclude, WindowClosed, logVars
  <1>7. ASSUME NEW t \in Turns, SettleTurn(t)
        PROVE  Types'
    <2>1. result' \in [Turns -> {"none", "stop", "aborted", "error"}]
      BY <1>7 DEF SettleTurn
    <2> QED
      BY <1>7, <2>1 DEF SettleTurn, logVars
  <1>8. ASSUME NEW t \in Turns, AbortAtApproval(t)
        PROVE  Types'
    BY <1>8 DEF AbortAtApproval, lockVars, logVars
  <1>9. ASSUME NEW t \in Turns, CleanUp(t)
        PROVE  Types'
    <2>1. sess[t] \in Sessions
      BY <1>9 DEF CleanUp, Admitted
    <2>2. owners' \in [Sessions -> Turns \cup {None}]
      BY <1>9, <2>1 DEF CleanUp
    <2> QED
      BY <1>9, <2>2 DEF CleanUp, OneLess, ticketVars, logVars
  <1>10. CASE UNCHANGED vars
    BY <1>10 DEF vars, lockVars, ticketVars, logVars
  <1> QED
    BY <1>1, <1>2, <1>3, <1>4, <1>5, <1>6, <1>7, <1>8, <1>9, <1>10
       DEF Next, RunTurn, EnqueueTurn, StartNewSession

LEMMA LockStep ==
  ASSUME Inv, [Next]_vars
  PROVE  LockInv'
  <1>1. Types'
    BY TypesStep
  <1>2. LockInv
    BY DEF Inv
  <1>3. ASSUME NEW t \in Turns, NEW c \in Connections, NEW s \in Sessions,
               EnqueueTurn(t, c, s)
        PROVE  LockInv'
    <2>1. Joins(t, s, "queued")
      BY <1>3 DEF EnqueueTurn, Admit, Joins
    <2> QED
      BY <1>1, <1>2, <2>1, JoinKeepsLock
  <1>4. ASSUME NEW t \in Turns, NEW c \in Connections, NEW s \in Sessions,
               StartNewSession(t, c, s)
        PROVE  LockInv'
    <2>1. Joins(t, s, "resumed") /\ \A u \in Turns : sess[u] # s
      BY <1>4 DEF StartNewSession, Admit, Joins
    <2> QED
      BY <1>1, <1>2, <2>1, JoinKeepsLock
  <1>5. ASSUME NEW t \in Turns, NEW c \in Connections, RefuseTurn(t, c)
        PROVE  LockInv'
    <2> USE <1>2 DEF LockInv, Types
    <2>1. /\ phase[t] = "new"
          /\ phase' = [phase EXCEPT ![t] = "refused"]
          /\ UNCHANGED <<sess, home, prev, owners, tail, ahead>>
      BY <1>5 DEF RefuseTurn
    <2>2. \A u \in Turns :
              /\ Active(u)' <=> Active(u)
              /\ phase'[u] = "gone" <=> phase[u] = "gone"
              /\ phase'[u] \in Begun <=> phase[u] \in Begun
              /\ phase'[u] \in {"new", "refused"}
                     <=> phase[u] \in {"new", "refused"}
      BY <2>1
    <2>3. \A u \in Turns : MayStart(u)' <=> MayStart(u)
      BY <2>1, <2>2
    <2>4. \A r \in Sessions : OnSession(r)' = OnSession(r)
      BY <2>1, <2>2
    <2>5. Admitted'
      BY <2>1, <2>2 DEF Admitted
    <2>6. OneOwnerPerSession' /\ TailInv'
      BY <2>1, <2>4 DEF OneOwnerPerSession, TailInv
    <2>7. ChainInv'
      BY <2>1, <2>2 DEF ChainInv
    <2>8. FrontInv'
      BY <2>1, <2>2, <2>3 DEF FrontInv
    <2>9. AheadInv'
      BY <2>1, <2>2, <2>4 DEF AheadInv
    <2> QED
      BY <1>1, <2>5, <2>6, <2>7, <2>8, <2>9
  <1>6. ASSUME NEW t \in Turns, StartTurn(t) \/ BuildResume(t)
        PROVE  LockInv'
    <2>1. \E p \in Running : phase' = [phase EXCEPT ![t] = p]
      BY <1>6 DEF StartTurn, BuildResume
    <2> QED
      BY <1>1, <1>2, <1>6, <2>1, RunKeepsLock DEF StartTurn, BuildResume
  <1>7. ASSUME NEW t \in Turns, WriteEvent(t)
        PROVE  LockInv'
    <2>1. PICK p \in Running : phase' = [phase EXCEPT ![t] = p]
      BY <1>2, <1>7 DEF WriteEvent
    <2> QED
      BY <1>1, <1>2, <1>7, <2>1, RunKeepsLock DEF WriteEvent
  <1>8. ASSUME NEW t \in Turns, Conclude(t) \/ SettleTurn(t)
        PROVE  LockInv'
    <2>1. \E p \in Running \cup {"settled"} : phase' = [phase EXCEPT ![t] = p]
      BY <1>8 DEF Conclude, SettleTurn
    <2> QED
      BY <1>1, <1>2, <1>8, <2>1, RunKeepsLock DEF Conclude, SettleTurn
  <1>9. ASSUME NEW t \in Turns, CleanUp(t)
        PROVE  LockInv'
    BY <1>1, <1>2, <1>9, CleanUpKeepsLock
  <1>10. ASSUME UNCHANGED lockVars
        PROVE  LockInv'
    BY <1>1, <1>2, <1>10
       DEF lockVars, LockInv, Admitted, OneOwnerPerSession, TailInv, ChainInv,
           FrontInv, AheadInv
  <1>11. ASSUME NEW t \in Turns, HandlerReturn(t) \/ AbortAtApproval(t)
         PROVE  UNCHANGED lockVars
    BY <1>11 DEF HandlerReturn, AbortAtApproval
  <1>12. ASSUME NEW t \in Turns, NEW c \in Connections, CancelTurn(t, c)
         PROVE  UNCHANGED lockVars
    BY <1>12 DEF CancelTurn
  <1>13. CASE UNCHANGED vars
    BY <1>10, <1>13 DEF vars
  <1> QED
    BY <1>3, <1>4, <1>5, <1>6, <1>7, <1>8, <1>9, <1>10, <1>11, <1>12, <1>13
       DEF Next, RunTurn

\* Admission adds a turn to the ones in flight, its cleanup removes it.
LEMMA CountStep ==
  ASSUME Inv, [Next]_vars
  PROVE  InFlightCounted'
  <1> USE DEF Inv, LockInv, Types
  <1>0. inFlight = Cardinality(InFlightSet)
    BY DEF InFlightCounted, InFlightSet
  <1>1. ASSUME NEW t \in Turns, NEW s \in Sessions, TakeTail(t, s),
               NEW p \in InFlight, phase[t] = "new",
               phase' = [phase EXCEPT ![t] = p]
        PROVE  InFlightCounted'
    <2>1. InFlightSet' = InFlightSet \cup {t} /\ t \notin InFlightSet
      BY <1>1 DEF InFlightSet
    <2>2. Cardinality(InFlightSet') = Cardinality(InFlightSet) + 1
      BY <2>1, InFlightFinite, FS_AddElement
    <2> QED
      BY <1>0, <1>1, <2>2 DEF TakeTail, InFlightCounted, InFlightSet
  <1>2. ASSUME NEW t \in Turns, CleanUp(t)
        PROVE  InFlightCounted'
    <2>1. InFlightSet' = InFlightSet \ {t} /\ t \in InFlightSet
      BY <1>2 DEF CleanUp, InFlightSet
    <2>2. Cardinality(InFlightSet') = Cardinality(InFlightSet) - 1
      BY <2>1, InFlightFinite, FS_RemoveElement
    <2> QED
      BY <1>0, <1>2, <2>2 DEF CleanUp, OneLess, InFlightCounted, InFlightSet
  <1>3. ASSUME InFlightSet' = InFlightSet, inFlight' = inFlight
        PROVE  InFlightCounted'
    BY <1>0, <1>3 DEF InFlightCounted, InFlightSet
  <1>4. ASSUME NEW t \in Turns,
               \/ StartTurn(t) \/ BuildResume(t) \/ WriteEvent(t)
               \/ Conclude(t) \/ SettleTurn(t)
        PROVE  InFlightSet' = InFlightSet /\ inFlight' = inFlight
    BY <1>4 DEF StartTurn, BuildResume, WriteEvent, Conclude, SettleTurn,
                InFlightSet
  <1>5. ASSUME NEW t \in Turns, HandlerReturn(t) \/ AbortAtApproval(t)
        PROVE  InFlightSet' = InFlightSet /\ inFlight' = inFlight
    BY <1>5 DEF HandlerReturn, AbortAtApproval, lockVars, InFlightSet
  <1>6. ASSUME NEW t \in Turns, NEW c \in Connections,
               RefuseTurn(t, c) \/ CancelTurn(t, c)
        PROVE  InFlightSet' = InFlightSet /\ inFlight' = inFlight
    BY <1>6 DEF RefuseTurn, CancelTurn, lockVars, InFlightSet
  <1>7. CASE UNCHANGED vars
    BY <1>3, <1>7 DEF vars, lockVars, InFlightSet
  <1>8. ASSUME NEW t \in Turns, NEW c \in Connections, NEW s \in Sessions,
               EnqueueTurn(t, c, s) \/ StartNewSession(t, c, s)
        PROVE  InFlightCounted'
    BY <1>1, <1>8 DEF EnqueueTurn, StartNewSession, Admit
  <1> QED
    BY <1>2, <1>3, <1>4, <1>5, <1>6, <1>7, <1>8 DEF Next, RunTurn

THEOREM LockInvariant == Spec => []Inv
  <1>1. Init => Inv
    <2>1. Init => InFlightCounted
      <3> SUFFICES ASSUME Init PROVE InFlightCounted
        OBVIOUS
      <3>1. {t \in Turns : phase[t] \in InFlight} = {}
        BY DEF Init
      <3> QED
        BY <3>1, FS_EmptySet DEF Init, InFlightCounted
    <2> QED
      BY <2>1, LockInvInit DEF Inv
  <1>2. Inv /\ [Next]_vars => Inv'
    BY LockStep, CountStep DEF Inv
  <1> QED
    BY <1>1, <1>2, PTL DEF Spec

\* Every variable keeps its type; inFlight never goes below zero.
THEOREM TypeCorrect == Spec => []TypeOK
  <1>1. Inv => TypeOK
    BY InFlightFinite, FS_CardinalityType
       DEF Inv, LockInv, Types, InFlightCounted, InFlightSet, TypeOK
  <1> QED
    BY <1>1, LockInvariant, PTL

\* At most one turn of a session runs at any time.
THEOREM OneTurnAtATime == Spec => []MutualExclusion
  <1>1. Inv => MutualExclusion
    BY DEF Inv, LockInv, FrontInv, MutualExclusion
  <1> QED
    BY <1>1, LockInvariant, PTL

\* The turns of a session start in the order they were admitted.
THEOREM TurnsKeepArrivalOrder == Spec => []ArrivalOrder
  <1>1. Inv => ArrivalOrder
    BY DEF Inv, LockInv, AheadInv, ArrivalOrder
  <1> QED
    BY <1>1, LockInvariant, PTL

\* A session has one owner exactly while a turn is queued or running on it,
\* and the in-flight count is exact.
THEOREM RegistryExact == Spec => [](OneOwnerPerSession /\ InFlightCounted)
  <1>1. Inv => OneOwnerPerSession /\ InFlightCounted
    BY DEF Inv, LockInv
  <1> QED
    BY <1>1, LockInvariant, PTL

-----------------------------------------------------------------------------
(* Cancellation.  An accepted cancel has raised the signal, and a turn that *)
(* ended as an ordinary completion has its window closed for good.          *)

CancelInv ==
    /\ accepted \subseteq aborted \cap Identified
    /\ \A t \in Turns : result[t] = "stop" =>
           /\ phase[t] \notin {"new", "refused"}
           /\ t \in Identified => t \notin accepting
    /\ CancelHonored

LEMMA CancelStep ==
  ASSUME Inv, CancelInv, [Next]_vars
  PROVE  CancelInv'
  <1> USE DEF Inv, LockInv, Types, CancelInv, CancelHonored
  <1>1. ASSUME NEW t \in Turns, NEW c \in Connections, Admit(t, c),
               NEW p \in InFlight, phase' = [phase EXCEPT ![t] = p]
        PROVE  CancelInv'
    BY <1>1 DEF Admit, IssueTicket
  <1>2. ASSUME NEW t \in Turns, NEW c \in Connections, RefuseTurn(t, c)
        PROVE  CancelInv'
    BY <1>2 DEF RefuseTurn, ticketVars
  <1>3. ASSUME NEW t \in Turns, NEW c \in Connections, CancelTurn(t, c)
        PROVE  CancelInv'
    BY <1>3 DEF CancelTurn, lockVars
  <1>4. ASSUME NEW t \in Turns,
               StartTurn(t) \/ BuildResume(t) \/ WriteEvent(t) \/ CleanUp(t)
        PROVE  CancelInv'
    BY <1>4 DEF StartTurn, BuildResume, WriteEvent, CleanUp, ticketVars
  <1>5. ASSUME NEW t \in Turns, Conclude(t)
        PROVE  CancelInv'
    <2>1. \/ result' = [result EXCEPT ![t] = "error"]
          \/ t \in aborted /\ result' = [result EXCEPT ![t] = "aborted"]
          \/ t \notin aborted /\ result' = [result EXCEPT ![t] = "stop"]
      BY <1>5 DEF Conclude
    <2> QED
      BY <1>5, <2>1 DEF Conclude, WindowClosed
  <1>6. ASSUME NEW t \in Turns, SettleTurn(t)
        PROVE  CancelInv'
    <2>1. \A u \in Turns : result'[u] = result[u] \/ result'[u] = "error"
      BY <1>6 DEF SettleTurn
    <2>2. \A u \in Turns : phase[u] \notin {"new", "refused"} =>
                               phase'[u] \notin {"new", "refused"}
      BY <1>6 DEF SettleTurn
    <2> QED
      BY <1>6, <2>1, <2>2 DEF SettleTurn
  <1>7. ASSUME NEW t \in Turns, HandlerReturn(t) \/ AbortAtApproval(t)
        PROVE  CancelInv'
    BY <1>7 DEF HandlerReturn, AbortAtApproval, lockVars, ticketVars
  <1>8. CASE UNCHANGED vars
    BY <1>8 DEF vars, lockVars, ticketVars
  <1> QED
    BY <1>1, <1>2, <1>3, <1>4, <1>5, <1>6, <1>7, <1>8
       DEF Next, RunTurn, EnqueueTurn, StartNewSession

\* A turn whose cancel was acknowledged never ends as a completion.
THEOREM CancelIsHonored == Spec => []CancelHonored
  <1>1. Init => CancelInv
    BY DEF Init, CancelInv, CancelHonored
  <1>2. Inv /\ CancelInv /\ [Next]_vars => CancelInv'
    BY CancelStep
  <1>3. CancelInv => CancelHonored
    BY DEF CancelInv
  <1> QED
    BY <1>1, <1>2, <1>3, LockInvariant, PTL DEF Spec

-----------------------------------------------------------------------------
(* A cancel finds its turn.  Until the turn settles, the slot of the        *)
(* connection that sent it is the turn's own.                               *)

ReachInv ==
    /\ \A t \in Turns : phase[t] \in Running \cup {"queued"} =>
           conn[t] \in Connections /\ active[conn[t]] = t
    /\ CancelReachesTurn

LEMMA ReachStep ==
  ASSUME Inv, ReachInv, [Next]_vars
  PROVE  ReachInv'
  <1> USE NoneAssumption, IdentifiedAssumption
      DEF Inv, LockInv, Types, ReachInv, CancelReachesTurn
  <1>1. ASSUME NEW t \in Turns, NEW c \in Connections, Admit(t, c),
               NEW p \in {"queued", "resumed"}, phase' = [phase EXCEPT ![t] = p]
        PROVE  ReachInv'
    <2>1. /\ conn' = [conn EXCEPT ![t] = c] /\ active' = [active EXCEPT ![c] = t]
          /\ accepting' = accepting \cup {t} /\ accepted' = accepted
          /\ active[c] = None
      BY <1>1 DEF Admit, IssueTicket
    <2>2. \A u \in Turns \ {t} : phase[u] \in Running \cup {"queued"} => conn[u] # c
      BY <2>1
    <2> QED
      BY <1>1, <2>1, <2>2
  <1>2. ASSUME NEW t \in Turns, NEW c \in Connections, RefuseTurn(t, c)
        PROVE  ReachInv'
    BY <1>2 DEF RefuseTurn, ticketVars
  <1>3. ASSUME NEW t \in Turns, NEW c \in Connections, CancelTurn(t, c)
        PROVE  ReachInv'
    BY <1>3 DEF CancelTurn, lockVars
  <1>4. ASSUME NEW t \in Turns,
               StartTurn(t) \/ BuildResume(t) \/ WriteEvent(t) \/ CleanUp(t)
        PROVE  ReachInv'
    BY <1>4 DEF StartTurn, BuildResume, WriteEvent, CleanUp, ticketVars
  <1>5. ASSUME NEW t \in Turns, Conclude(t) \/ SettleTurn(t)
        PROVE  ReachInv'
    BY <1>5 DEF Conclude, SettleTurn, WindowClosed
  <1>6. ASSUME NEW t \in Turns, HandlerReturn(t)
        PROVE  ReachInv'
    <2>1. \A u \in Turns : phase[u] \in Running \cup {"queued"} => conn[u] # conn[t]
      BY <1>6 DEF HandlerReturn
    <2> QED
      BY <1>6, <2>1 DEF HandlerReturn, lockVars, ticketVars
  <1>7. ASSUME NEW t \in Turns, AbortAtApproval(t)
        PROVE  ReachInv'
    BY <1>7 DEF AbortAtApproval, lockVars
  <1>8. CASE UNCHANGED vars
    BY <1>8 DEF vars, lockVars, ticketVars
  <1> QED
    BY <1>1, <1>2, <1>3, <1>4, <1>5, <1>6, <1>7, <1>8
       DEF Next, RunTurn, EnqueueTurn, StartNewSession

\* Until a turn with an id concludes, its client's first cancel lands, also
\* while the turn waits for its session.
THEOREM CancelFindsTurn == Spec => []CancelReachesTurn
  <1>1. Init => ReachInv
    BY IdentifiedAssumption DEF Init, ReachInv, CancelReachesTurn
  <1>2. Inv /\ ReachInv /\ [Next]_vars => ReachInv'
    BY ReachStep
  <1>3. ReachInv => CancelReachesTurn
    BY DEF ReachInv
  <1> QED
    BY <1>1, <1>2, <1>3, LockInvariant, PTL DEF Spec

-----------------------------------------------------------------------------
(* The log.  A turn's events are those after what it read up to some point, *)
(* which is the end of the log while the turn runs.                         *)

\* The events of t are those after the ones it read, up to the m-th.
OwnUpTo(t, m) ==
    /\ Len(saw[t]) <= m
    /\ m <= Len(log[sess[t]])
    /\ \A i \in 1..Len(log[sess[t]]) :
           log[sess[t]][i] = t <=> Len(saw[t]) < i /\ i <= m

\* Only a turn of the session that has opened is in the session's log.
WritersOpened ==
    \A s \in Sessions : \A i \in 1..Len(log[s]) :
        /\ sess[log[s][i]] = s
        /\ phase[log[s][i]] \in {"open", "concluded", "settled", "gone"}

LogInv ==
    /\ WritersOpened
    /\ \A t \in Turns :
           /\ phase[t] \in {"new", "refused", "queued", "started"} => saw[t] = <<>>
           /\ phase[t] = "resumed" => saw[t] = log[sess[t]]
           /\ phase[t] \in {"open", "concluded"} => OwnUpTo(t, Len(log[sess[t]]))
           /\ phase[t] \in {"settled", "gone"} => \E m \in Nat : OwnUpTo(t, m)

\* A step that leaves the log, what was read and every turn's place in its
\* session's life alone keeps the invariant.
LEMMA LogQuiet ==
  ASSUME Inv, LogInv, UNCHANGED <<log, saw, sess>>,
         \A t \in Turns :
             \/ phase'[t] = phase[t]
             \/ phase[t] = "new" /\ phase'[t] = "refused"
             \/ phase[t] = "queued" /\ phase'[t] = "started"
             \/ phase[t] = "open" /\ phase'[t] = "concluded"
             \/ phase[t] = "settled" /\ phase'[t] = "gone"
  PROVE  LogInv'
  <1> USE DEF Inv, LockInv, Types
  <1>1. WritersOpened'
    BY DEF LogInv, WritersOpened
  <1>2. \A t \in Turns : \A m \in Nat : OwnUpTo(t, m)' <=> OwnUpTo(t, m)
    BY DEF OwnUpTo
  <1>3. \A t \in Turns : OwnUpTo(t, Len(log[sess[t]]))' <=> OwnUpTo(t, Len(log[sess[t]]))
    BY DEF OwnUpTo
  <1> QED
    BY <1>1, <1>2, <1>3 DEF LogInv

\* Admission: the turn has read nothing, and a new session has no log.
LEMMA LogJoin ==
  ASSUME Inv, LogInv, NEW t \in Turns, NEW s \in Sessions,
         NEW p \in {"queued", "resumed"}, Joins(t, s, p),
         p = "resumed" => \A u \in Turns : sess[u] # s,
         UNCHANGED logVars
  PROVE  LogInv'
  <1> USE DEF Inv, LockInv, Types
  <1>1. /\ phase[t] = "new" /\ phase' = [phase EXCEPT ![t] = p]
        /\ sess' = [sess EXCEPT ![t] = s] /\ log' = log /\ saw' = saw
    BY DEF Joins, TakeTail, logVars
  <1>2. saw[t] = <<>>
    BY <1>1 DEF LogInv
  <1>3. \A r \in Sessions : \A i \in 1..Len(log[r]) : log[r][i] \in Turns /\ log[r][i] # t
    <2> SUFFICES ASSUME NEW r \in Sessions, NEW i \in 1..Len(log[r])
                 PROVE  log[r][i] \in Turns /\ log[r][i] # t
      OBVIOUS
    <2>1. log[r] \in Seq(Turns)
      OBVIOUS
    <2>2. phase[log[r][i]] # "new"
      BY DEF LogInv, WritersOpened
    <2> QED
      BY <1>1, <2>1, <2>2
  <1>4. WritersOpened'
    BY <1>1, <1>3 DEF LogInv, WritersOpened
  <1>5. p = "resumed" => log[s] = <<>>
    <2> SUFFICES ASSUME p = "resumed", log[s] # <<>> PROVE FALSE
      OBVIOUS
    <2>1. 1 \in 1..Len(log[s])
      OBVIOUS
    <2> QED
      BY <1>3, <2>1 DEF LogInv, WritersOpened
  <1>6. \A u \in Turns \ {t} : \A m \in Nat : OwnUpTo(u, m)' <=> OwnUpTo(u, m)
    BY <1>1 DEF OwnUpTo
  <1>7. \A u \in Turns \ {t} : log'[sess'[u]] = log[sess[u]] /\ phase'[u] = phase[u]
    BY <1>1
  <1>8. \A u \in Turns \ {t} :
            OwnUpTo(u, Len(log[sess[u]]))' <=> OwnUpTo(u, Len(log[sess[u]]))
    BY <1>1, <1>7 DEF OwnUpTo
  <1> QED
    BY <1>1, <1>2, <1>4, <1>5, <1>6, <1>7, <1>8 DEF LogInv

\* The event of a turn that runs goes after everything in its session's log.
LEMMA LogWrite ==
  ASSUME Inv, LogInv, NEW t \in Turns, WriteEvent(t)
  PROVE  LogInv'
  <1> USE DEF Inv, LockInv, Types
  <1> DEFINE s == sess[t]
  <1>1. /\ phase[t] \in {"resumed", "open", "concluded"}
        /\ log' = [log EXCEPT ![s] = Append(log[s], t)]
        /\ phase' = [phase EXCEPT ![t] = IF @ = "resumed" THEN "open" ELSE @]
        /\ sess' = sess /\ saw' = saw
    BY DEF WriteEvent
  <1>2. s \in Sessions /\ log[s] \in Seq(Turns)
    BY <1>1 DEF Admitted
  <1>3. /\ Len(log'[s]) = Len(log[s]) + 1
        /\ \A i \in 1..Len(log[s]) : log'[s][i] = log[s][i]
        /\ log'[s][Len(log[s]) + 1] = t
    BY <1>1, <1>2
  <1>4. \A r \in Sessions \ {s} : log'[r] = log[r]
    BY <1>1
  <1>5. phase'[t] \in {"open", "concluded"}
    BY <1>1
  <1>6. WritersOpened'
    <2> SUFFICES ASSUME NEW r \in Sessions, NEW i \in 1..Len(log'[r])
                 PROVE  /\ sess[log'[r][i]] = r
                        /\ phase'[log'[r][i]] \in {"open", "concluded", "settled", "gone"}
      BY <1>1 DEF WritersOpened
    <2>1. \A q \in Sessions : \A j \in 1..Len(log[q]) :
              /\ sess[log[q][j]] = q
              /\ phase'[log[q][j]] \in {"open", "concluded", "settled", "gone"}
      BY <1>1 DEF LogInv, WritersOpened
    <2>2. CASE r # s
      BY <1>4, <2>1, <2>2
    <2>3. CASE r = s /\ i = Len(log[s]) + 1
      BY <1>3, <1>5, <2>3
    <2>4. CASE r = s /\ i # Len(log[s]) + 1
      <3>1. i \in 1..Len(log[s])
        BY <1>2, <1>3, <2>4
      <3>2. log'[r][i] = log[s][i]
        BY <1>3, <2>4, <3>1
      <3>3. sess[log[s][i]] = s /\ phase'[log[s][i]] \in {"open", "concluded", "settled", "gone"}
        BY <1>2, <2>1, <3>1
      <3> QED
        BY <2>4, <3>2, <3>3
    <2> QED
      BY <2>2, <2>3, <2>4
  <1>7. OwnUpTo(t, Len(log[s]))
    <2>1. CASE phase[t] = "resumed"
      <3>1. ASSUME NEW i \in 1..Len(log[s]), log[s][i] = t
            PROVE  FALSE
        <4>1. phase[log[s][i]] # "resumed"
          BY <1>2 DEF LogInv, WritersOpened
        <4> QED
          BY <2>1, <3>1, <4>1
      <3>2. saw[t] = log[s]
        BY <2>1 DEF LogInv
      <3> QED
        BY <1>2, <3>1, <3>2 DEF OwnUpTo
    <2>2. CASE phase[t] \in {"open", "concluded"}
      BY <2>2 DEF LogInv
    <2> QED
      BY <1>1, <2>1, <2>2
  <1>8. OwnUpTo(t, Len(log[s]))'
    BY <1>1, <1>2, <1>3, <1>7 DEF OwnUpTo
  <1>9. ASSUME NEW u \in Turns, u # t, NEW m \in Nat, OwnUpTo(u, m)
        PROVE  OwnUpTo(u, m)'
    <2>1. CASE sess[u] = s
      BY <1>1, <1>2, <1>3, <1>9, <2>1 DEF OwnUpTo
    <2>2. CASE sess[u] # s
      BY <1>1, <1>9, <2>2 DEF OwnUpTo
    <2> QED
      BY <2>1, <2>2
  <1>10. ASSUME NEW u \in Turns, u # t, phase[u] \in Running
         PROVE  sess[u] # s /\ log'[sess[u]] = log[sess[u]]
    <2>1. sess[u] # s
      BY <1>1, <1>10 DEF FrontInv
    <2> QED
      BY <1>1, <2>1
  <1>11. ASSUME NEW u \in Turns, u # t, phase[u] \in {"open", "concluded"}
         PROVE  OwnUpTo(u, Len(log[sess[u]]))'
    BY <1>1, <1>10, <1>11 DEF LogInv, OwnUpTo
  <1> QED
    BY <1>1, <1>5, <1>6, <1>8, <1>9, <1>10, <1>11 DEF LogInv

\* The turn that settles keeps its place: the log may grow past it.
LEMMA LogSettle ==
  ASSUME Inv, LogInv, NEW t \in Turns, SettleTurn(t)
  PROVE  LogInv'
  <1> USE DEF Inv, LockInv, Types
  <1>1. /\ phase[t] \in {"started", "resumed", "concluded"}
        /\ phase' = [phase EXCEPT ![t] = "settled"]
        /\ UNCHANGED <<sess, log, saw>>
    BY DEF SettleTurn, logVars
  <1>2. sess[t] \in Sessions /\ log[sess[t]] \in Seq(Turns)
    BY <1>1 DEF Admitted
  <1>3. WritersOpened'
    BY <1>1 DEF LogInv, WritersOpened
  <1>4. \A u \in Turns : \A m \in Nat : OwnUpTo(u, m)' <=> OwnUpTo(u, m)
    BY <1>1 DEF OwnUpTo
  <1>5. \A u \in Turns : OwnUpTo(u, Len(log[sess[u]]))' <=> OwnUpTo(u, Len(log[sess[u]]))
    BY <1>1 DEF OwnUpTo
  <1>6. \E m \in Nat : OwnUpTo(t, m)
    <2>1. phase[t] # "concluded" => \A i \in 1..Len(log[sess[t]]) : log[sess[t]][i] # t
      BY <1>1, <1>2 DEF LogInv, WritersOpened
    <2>2. CASE phase[t] = "started"
      <3>1. OwnUpTo(t, 0)
        BY <1>2, <2>1, <2>2 DEF LogInv, OwnUpTo
      <3> QED
        BY <3>1
    <2>3. CASE phase[t] = "resumed"
      <3>1. OwnUpTo(t, Len(log[sess[t]]))
        BY <1>2, <2>1, <2>3 DEF LogInv, OwnUpTo
      <3> QED
        BY <1>2, <3>1
    <2>4. CASE phase[t] = "concluded"
      BY <1>2, <2>4 DEF LogInv
    <2> QED
      BY <1>1, <2>2, <2>3, <2>4
  <1> QED
    BY <1>1, <1>3, <1>4, <1>5, <1>6 DEF LogInv

LEMMA LogStep ==
  ASSUME Inv, LogInv, [Next]_vars
  PROVE  LogInv'
  <1>1. ASSUME NEW t \in Turns, NEW c \in Connections, NEW s \in Sessions,
               EnqueueTurn(t, c, s)
        PROVE  LogInv'
    BY <1>1, LogJoin DEF EnqueueTurn, Joins, Admit
  <1>2. ASSUME NEW t \in Turns, NEW c \in Connections, NEW s \in Sessions,
               StartNewSession(t, c, s)
        PROVE  LogInv'
    BY <1>2, LogJoin DEF StartNewSession, Joins, Admit
  <1>3. ASSUME NEW t \in Turns, BuildResume(t)
        PROVE  LogInv'
    <2> USE DEF Inv, LockInv, Types
    <2>1. /\ phase[t] = "started" /\ phase' = [phase EXCEPT ![t] = "resumed"]
          /\ saw' = [saw EXCEPT ![t] = log[sess[t]]] /\ UNCHANGED <<sess, log>>
      BY <1>3 DEF BuildResume
    <2>2. sess[t] \in Sessions
      BY <2>1 DEF Admitted
    <2>3. WritersOpened'
      BY <2>1 DEF LogInv, WritersOpened
    <2>4. \A u \in Turns \ {t} : \A m \in Nat : OwnUpTo(u, m)' <=> OwnUpTo(u, m)
      BY <2>1 DEF OwnUpTo
    <2>5. \A u \in Turns \ {t} :
              OwnUpTo(u, Len(log[sess[u]]))' <=> OwnUpTo(u, Len(log[sess[u]]))
      BY <2>1 DEF OwnUpTo
    <2> QED
      BY <2>1, <2>2, <2>3, <2>4, <2>5 DEF LogInv
  <1>4. ASSUME NEW t \in Turns, WriteEvent(t) \/ SettleTurn(t)
        PROVE  LogInv'
    BY <1>4, LogWrite, LogSettle
  <1>5. ASSUME NEW t \in Turns,
               \/ StartTurn(t) \/ Conclude(t) \/ CleanUp(t) \/ HandlerReturn(t)
               \/ AbortAtApproval(t)
        PROVE  LogInv'
    <2>1. UNCHANGED <<log, saw, sess>>
      BY <1>5 DEF StartTurn, Conclude, CleanUp, HandlerReturn, AbortAtApproval, lockVars, logVars
    <2>2. \A u \in Turns :
             \/ phase'[u] = phase[u]
             \/ phase[u] = "queued" /\ phase'[u] = "started"
             \/ phase[u] = "open" /\ phase'[u] = "concluded"
             \/ phase[u] = "settled" /\ phase'[u] = "gone"
      BY <1>5 DEF StartTurn, Conclude, CleanUp, HandlerReturn, AbortAtApproval, lockVars,
                  Inv, LockInv, Types
    <2> QED
      BY <2>1, <2>2, LogQuiet
  <1>6. ASSUME NEW t \in Turns, NEW c \in Connections, RefuseTurn(t, c) \/ CancelTurn(t, c)
        PROVE  LogInv'
    <2>1. UNCHANGED <<log, saw, sess>>
      BY <1>6 DEF RefuseTurn, CancelTurn, lockVars, logVars
    <2>2. \A u \in Turns :
             phase'[u] = phase[u] \/ (phase[u] = "new" /\ phase'[u] = "refused")
      BY <1>6 DEF RefuseTurn, CancelTurn, lockVars, Inv, LockInv, Types
    <2> QED
      BY <2>1, <2>2, LogQuiet
  <1>7. CASE UNCHANGED vars
    BY <1>7, LogQuiet DEF vars, lockVars, logVars
  <1> QED
    BY <1>1, <1>2, <1>3, <1>4, <1>5, <1>6, <1>7 DEF Next, RunTurn

\* What a turn rebuilt its history from is the log up to its own first event,
\* and no other turn's event lies between its own.
THEOREM LogIsNeverSplit == Spec => []LogNeverSplit
  <1>1. Init => LogInv
    BY DEF Init, LogInv, WritersOpened
  <1>2. Inv /\ LogInv /\ [Next]_vars => LogInv'
    BY LogStep
  <1>3. Inv /\ LogInv => LogNeverSplit
    <2> SUFFICES ASSUME Inv, LogInv, NEW t \in Turns, sess[t] # None,
                        {i \in DOMAIN log[sess[t]] : log[sess[t]][i] = t} # {}
                 PROVE  LET l == log[sess[t]]
                            own == {i \in DOMAIN l : l[i] = t}
                        IN  own = {i \in DOMAIN l :
                                      Len(saw[t]) < i /\ i <= Len(saw[t]) + Cardinality(own)}
      BY DEF LogNeverSplit
    <2> DEFINE l == log[sess[t]]
               own == {i \in DOMAIN l : l[i] = t}
               L == Len(saw[t])
    <2>1. l \in Seq(Turns) /\ sess[t] \in Sessions /\ L \in Nat /\ DOMAIN l = 1..Len(l)
      BY DEF Inv, LockInv, Types
    <2>2. phase[t] \in {"open", "concluded", "settled", "gone"}
      BY <2>1 DEF LogInv, WritersOpened
    <2>3. PICK m \in Nat : OwnUpTo(t, m)
      BY <2>1, <2>2 DEF LogInv
    <2>4. own = (L + 1)..m
      BY <2>1, <2>3 DEF OwnUpTo
    <2>5. Cardinality(own) = m - L
      <3>1. Cardinality((L + 1)..m) = IF L + 1 > m THEN 0 ELSE m - (L + 1) + 1
        <4>1. L + 1 \in Int /\ m \in Int
          BY <2>1
        <4> HIDE DEF L
        <4> QED
          BY <4>1, FS_Interval
      <3>2. L <= m
        BY <2>3 DEF OwnUpTo
      <3> HIDE DEF own, L
      <3> QED
        BY <2>1, <2>4, <3>1, <3>2
    <2>6. L + Cardinality(own) = m
      BY <2>1, <2>5
    <2>7. own = {i \in DOMAIN l : L < i /\ i <= m}
      BY <2>1, <2>3 DEF OwnUpTo
    <2> QED
      BY <2>6, <2>7
  <1> QED
    BY <1>1, <1>2, <1>3, LockInvariant, PTL DEF Spec

-----------------------------------------------------------------------------
(* Refinement of SerialSessions.                                           *)

LEMMA HolderIs ==
  ASSUME Inv, NEW t \in Turns, phase[t] \in Running, NEW s \in Sessions,
         sess[t] = s
  PROVE  Holder(s) = t
  BY DEF Holder, Inv, LockInv, FrontInv

LEMMA HolderNone ==
  ASSUME NEW s \in Sessions,
         \A t \in Turns : ~(phase[t] \in Running /\ sess[t] = s)
  PROVE  Holder(s) = None
  BY DEF Holder

LEMMA HolderKept ==
  ASSUME Inv, Inv', NEW s \in Sessions,
         \A t \in Turns : (phase'[t] \in Running /\ sess'[t] = s)
                              <=> (phase[t] \in Running /\ sess[t] = s)
  PROVE  Holder(s)' = Holder(s)
  <1>1. CASE \E t \in Turns : phase[t] \in Running /\ sess[t] = s
    <2>1. PICK t \in Turns : phase[t] \in Running /\ sess[t] = s
      BY <1>1
    <2>2. Holder(s) = t
      BY <2>1, HolderIs
    <2>3. Holder(s)' = t
      BY <2>1 DEF Holder, Inv, LockInv, FrontInv
    <2> QED
      BY <2>2, <2>3
  <1>2. CASE \A t \in Turns : ~(phase[t] \in Running /\ sess[t] = s)
    BY <1>2 DEF Holder
  <1> QED
    BY <1>1, <1>2

\* A step that starts no turn and settles none leaves holders and served.
LEMMA HoldersKept ==
  ASSUME Inv, Inv',
         \A t \in Turns :
             /\ phase'[t] \in Running <=> phase[t] \in Running
             /\ phase'[t] \in Begun <=> phase[t] \in Begun
             /\ phase[t] \in Running => sess'[t] = sess[t]
  PROVE  /\ [s \in Sessions |-> Holder(s)]' = [s \in Sessions |-> Holder(s)]
         /\ Served' = Served
  <1>1. \A s \in Sessions : Holder(s)' = Holder(s)
    BY HolderKept
  <1>2. Served' = Served
    BY DEF Served
  <1> QED
    BY <1>1, <1>2

\* Starting a turn whose session nobody runs is the abstract Begin.
LEMMA StartBegins ==
  ASSUME Inv, Inv', NEW t \in Turns, NEW s \in Sessions,
         NEW p \in {"started", "resumed"},
         phase[t] \in {"new", "queued"},
         phase' = [phase EXCEPT ![t] = p], sess'[t] = s,
         \A u \in Turns \ {t} : sess'[u] = sess[u],
         \A u \in Turns : ~(phase[u] \in Running /\ sess[u] = s),
         UNCHANGED logVars
  PROVE  Serial!Begin(s, t)
  <1> USE DEF Inv, LockInv, Types
  <1>1. Holder(s) = None
    BY HolderNone
  <1>2. Holder(s)' = t
    BY DEF Holder, FrontInv
  <1>3. \A r \in Sessions \ {s} : Holder(r)' = Holder(r)
    BY HolderKept
  <1>4. Served' = Served \cup {t} /\ t \notin Served
    BY DEF Served
  <1>5. [r \in Sessions |-> Holder(r)]'
            = [[r \in Sessions |-> Holder(r)] EXCEPT ![s] = t]
    BY <1>2, <1>3
  <1> QED
    BY <1>1, <1>4, <1>5 DEF Serial!Begin, logVars

\* The session owners implement the serial sessions: every step is a step
\* of the abstract specification or leaves its state unchanged.
THEOREM ImplementsSerialSessions == Spec => SerialSpec
  <1>1. Init => Serial!Init
    BY DEF Init, Serial!Init, Holder, Served
  <1>2. ASSUME Inv, Inv', [Next]_vars
        PROVE  [Serial!Next]_Serial!vars
    <2> USE <1>2 DEF Inv, LockInv, Types
    <2>1. ASSUME NEW t \in Turns, NEW c \in Connections, NEW s \in Sessions,
                 EnqueueTurn(t, c, s)
          PROVE  UNCHANGED Serial!vars
      <3>1. /\ phase[t] = "new"
            /\ phase' = [phase EXCEPT ![t] = "queued"]
            /\ sess' = [sess EXCEPT ![t] = s]
            /\ UNCHANGED logVars
        BY <2>1 DEF EnqueueTurn, Admit, TakeTail
      <3>2. \A u \in Turns :
                /\ phase'[u] \in Running <=> phase[u] \in Running
                /\ phase'[u] \in Begun <=> phase[u] \in Begun
                /\ phase[u] \in Running => sess'[u] = sess[u]
        BY <3>1
      <3> QED
        BY <3>1, <3>2, HoldersKept DEF Serial!vars, logVars
    <2>2. ASSUME NEW t \in Turns, NEW c \in Connections, NEW s \in Sessions,
                 StartNewSession(t, c, s)
          PROVE  Serial!Begin(s, t)
      <3>1. /\ phase[t] = "new"
            /\ phase' = [phase EXCEPT ![t] = "resumed"]
            /\ sess' = [sess EXCEPT ![t] = s]
            /\ \A u \in Turns : sess[u] # s
            /\ UNCHANGED logVars
        BY <2>2 DEF StartNewSession, Admit, TakeTail
      <3>2. /\ sess'[t] = s
            /\ \A u \in Turns \ {t} : sess'[u] = sess[u]
            /\ \A u \in Turns : ~(phase[u] \in Running /\ sess[u] = s)
        BY <3>1
      <3> HIDE DEF Inv
      <3> QED
        BY <3>1, <3>2, StartBegins
    <2>3. ASSUME NEW t \in Turns, StartTurn(t)
          PROVE  Serial!Begin(sess[t], t)
      <3>1. sess[t] \in Sessions
        BY <2>3 DEF StartTurn, Admitted
      <3>2. \A u \in Turns : ~(phase[u] \in Running /\ sess[u] = sess[t])
        BY <2>3 DEF StartTurn, FrontInv
      <3> QED
        BY <2>3, <3>1, <3>2, StartBegins DEF StartTurn
    <2>4. ASSUME NEW t \in Turns, BuildResume(t)
          PROVE  Serial!Recall(sess[t], t)
      <3>1. sess[t] \in Sessions /\ Holder(sess[t]) = t
        BY <2>4, HolderIs DEF BuildResume, Admitted
      <3>2. \A u \in Turns :
                /\ phase'[u] \in Running <=> phase[u] \in Running
                /\ phase'[u] \in Begun <=> phase[u] \in Begun
                /\ phase[u] \in Running => sess'[u] = sess[u]
        BY <2>4 DEF BuildResume
      <3> QED
        BY <2>4, <3>1, <3>2, HoldersKept DEF BuildResume, Serial!Recall
    <2>5. ASSUME NEW t \in Turns, WriteEvent(t)
          PROVE  Serial!Write(sess[t], t)
      <3>1. sess[t] \in Sessions /\ Holder(sess[t]) = t
        BY <2>5, HolderIs DEF WriteEvent, Admitted
      <3>2. \A u \in Turns :
                /\ phase'[u] \in Running <=> phase[u] \in Running
                /\ phase'[u] \in Begun <=> phase[u] \in Begun
                /\ phase[u] \in Running => sess'[u] = sess[u]
        BY <2>5 DEF WriteEvent
      <3> QED
        BY <2>5, <3>1, <3>2, HoldersKept DEF WriteEvent, Serial!Write
    <2>6. ASSUME NEW t \in Turns, SettleTurn(t)
          PROVE  Serial!End(sess[t], t)
      <3>0. PICK s : s = sess[t]
        OBVIOUS
      <3>1. /\ phase[t] \in Running
            /\ phase' = [phase EXCEPT ![t] = "settled"]
            /\ UNCHANGED <<sess, log, saw>>
        BY <2>6 DEF SettleTurn, logVars
      <3>2. s \in Sessions /\ Holder(s) = t
        BY <3>0, <3>1, HolderIs DEF Admitted
      <3>3. \A u \in Turns : ~(phase'[u] \in Running /\ sess'[u] = s)
        <4>1. MutualExclusion
          BY DEF MutualExclusion, FrontInv
        <4> QED
          BY <3>0, <3>1, <4>1 DEF MutualExclusion
      <3>4. Holder(s)' = None
        BY <3>3 DEF Holder
      <3>5. \A r \in Sessions \ {s} : Holder(r)' = Holder(r)
        BY <3>0, <3>1, HolderKept
      <3>6. Served' = Served
        BY <3>1 DEF Served
      <3>7. [r \in Sessions |-> Holder(r)]'
                = [[r \in Sessions |-> Holder(r)] EXCEPT ![s] = None]
        BY <3>4, <3>5
      <3> QED
        BY <3>0, <3>1, <3>2, <3>6, <3>7 DEF Serial!End
    <2>7. ASSUME UNCHANGED <<sess, log, saw>>,
                 \A u \in Turns :
                     /\ phase'[u] \in Running <=> phase[u] \in Running
                     /\ phase'[u] \in Begun <=> phase[u] \in Begun
          PROVE  UNCHANGED Serial!vars
      BY <2>7, HoldersKept DEF Serial!vars
    <2>8. ASSUME NEW t \in Turns,
                 \/ Conclude(t) \/ CleanUp(t) \/ HandlerReturn(t)
                 \/ AbortAtApproval(t)
          PROVE  UNCHANGED Serial!vars
      BY <2>7, <2>8 DEF Conclude, CleanUp, HandlerReturn, AbortAtApproval,
                        lockVars, logVars
    <2>9. ASSUME NEW t \in Turns, NEW c \in Connections,
                 RefuseTurn(t, c) \/ CancelTurn(t, c)
          PROVE  UNCHANGED Serial!vars
      BY <2>7, <2>9 DEF RefuseTurn, CancelTurn, lockVars, logVars
    <2>10. CASE UNCHANGED vars
      BY <2>7, <2>10 DEF vars, lockVars, logVars
    <2>11. ASSUME NEW t \in Turns, RunTurn(t)
           PROVE  [Serial!Next]_Serial!vars
      <3>1. (StartTurn(t) \/ BuildResume(t) \/ WriteEvent(t) \/ SettleTurn(t))
                => sess[t] \in Sessions
        BY DEF StartTurn, BuildResume, WriteEvent, SettleTurn, Admitted
      <3> QED
        BY <2>3, <2>4, <2>5, <2>6, <2>8, <2>11, <3>1 DEF RunTurn, Serial!Next
    <2> QED
      BY <2>1, <2>2, <2>8, <2>9, <2>10, <2>11 DEF Next, Serial!Next
  <1> QED
    BY <1>1, <1>2, LockInvariant, PTL DEF Spec, SerialSpec, Serial!Spec
=============================================================================
