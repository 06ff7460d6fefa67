-------------------------------- MODULE Store --------------------------------
(* The store port: `journal.commit` over a pool of Dolt connections          *)
(* (dolt-journal.ts), its readers (dolt-readers.ts), and MemoryStore, which  *)
(* must answer every reader the same way (memory-store.ts). A committer is a *)
(* session's turn; it commits one batch at a time. Dolt itself, its driver   *)
(* and the pool are external: statements of a transaction are visible when   *)
(* its COMMIT is, and a key that two transactions wrote fails the second.    *)
(* PHASE1_PROJECTORS is empty, so no event projects a row.                   *)
EXTENDS Integers, Sequences, SequencesExt, FiniteSets

CONSTANTS Committers,   \* turns, each of its own session
          Batches,      \* what a committer may commit
          Limit,        \* connectionLimit of the pool
          Millisecond,  \* clock ticks MemoryStore cannot tell apart
          DayStart,     \* the tick today began at
          MaxCommits

VARIABLES tx,      \* committer -> its commit: see NewTx
          dolt,    \* the committed tables
          mem,     \* MemoryStore's tables, given what Dolt stored
          used,    \* connections out of the pool, by the commit that took each
          gap,     \* commits aborted between its arrival and its taking
          clock,
          done     \* outcomes: [batch, outcome, stored]
vars == <<tx, dolt, mem, used, gap, clock, done>>

-----------------------------------------------------------------------------
(* The tables and what a batch does to them.                                *)

\* A row without a field of its own holds "" there, as the readers render it.
EmptyTables == [events |-> <<>>, sessions |-> <<>>, memories |-> <<>>]

Keys(batch) ==
    {<<"event", batch.events[i].id>> : i \in DOMAIN batch.events} \cup
    {<<IF batch.mutations[i].kind = "memory_upsert" THEN "memory" ELSE "session",
       batch.mutations[i].slug>> : i \in DOMAIN batch.mutations}

UNJOURNALED_MUTATION_KINDS == {"session_insert", "session_update", "memory_upsert"}
assertDeclaredMutations(batch) ==
    \A i \in DOMAIN batch.mutations : batch.mutations[i].kind \in UNJOURNALED_MUTATION_KINDS

IndexOf(rows, P(_)) ==
    IF \E i \in DOMAIN rows : P(rows[i])
    THEN CHOOSE i \in DOMAIN rows : P(rows[i]) /\ \A j \in 1..(i - 1) : ~P(rows[j])
    ELSE 0

SessionRow(m, at) ==
    [id |-> m.id, slug |-> m.slug, status |-> m.status, content |-> m.content, updated |-> at]
MemoryRow(m) == [id |-> m.id, slug |-> m.slug, content |-> m.content]

\* #mutate of MemoryStore: maps by id, and the first memory of the id or the slug.
Mutated(t, m, at) ==
    LET s == IndexOf(t.sessions, LAMBDA r : r.id = m.id)
        k == IndexOf(t.memories, LAMBDA r : r.id = m.id \/ r.slug = m.slug)
    IN  CASE m.kind = "session_insert" -> [t EXCEPT !.sessions = Append(@, SessionRow(m, at))]
          [] m.kind = "session_update" /\ s = 0 -> t
          [] m.kind = "session_update" ->
               LET old == t.sessions[s]
                   new == [old EXCEPT !.status = m.status,
                             !.content = IF m.content = "" THEN @ ELSE m.content]
               IN  [t EXCEPT !.sessions[s] =
                      IF new = old THEN old ELSE [new EXCEPT !.updated = at]]
          [] m.kind = "memory_upsert" /\ k = 0 -> [t EXCEPT !.memories = Append(@, MemoryRow(m))]
          [] m.kind = "memory_upsert" -> [t EXCEPT !.memories[k].content = m.content]

\* mutationStatement, as Dolt runs it: INSERT; UPDATE ... COALESCE ... WHERE, which
\* restamps the rows it changes; and INSERT ... ON DUPLICATE KEY UPDATE, which
\* tries the primary key before the slug's.
mutationStatement(t, m, at) ==
    LET updated(r) == [r EXCEPT !.status = m.status,
                                !.content = IF m.content = "" THEN @ ELSE m.content]
        ofId == {i \in DOMAIN t.memories : t.memories[i].id = m.id}
        ofSlug == {i \in DOMAIN t.memories : t.memories[i].slug = m.slug}
        dup == IF ofId # {} THEN ofId ELSE ofSlug
    IN  CASE m.kind = "session_insert" -> [t EXCEPT !.sessions = Append(@, SessionRow(m, at))]
          [] m.kind = "session_update" ->
               [t EXCEPT !.sessions = [i \in DOMAIN @ |->
                  IF @[i].id = m.id /\ updated(@[i]) # @[i]
                  THEN [updated(@[i]) EXCEPT !.updated = at] ELSE @[i]]]
          [] m.kind = "memory_upsert" /\ dup = {} -> [t EXCEPT !.memories = Append(@, MemoryRow(m))]
          [] m.kind = "memory_upsert" ->
               [t EXCEPT !.memories = [i \in DOMAIN @ |->
                  IF i \in dup THEN [@[i] EXCEPT !.content = m.content] ELSE @[i]]]

\* A statement Dolt refuses: a key it has already.
Refused(t, batch) ==
    \/ \E i \in DOMAIN batch.events :
         \/ \E e \in ToSet(t.events) : e.id = batch.events[i].id
         \/ \E j \in 1..(i - 1) : batch.events[j].id = batch.events[i].id
    \/ \E i \in DOMAIN batch.mutations :
         /\ batch.mutations[i].kind = "session_insert"
         /\ \E r \in ToSet(t.sessions) :
              r.id = batch.mutations[i].id \/ r.slug = batch.mutations[i].slug

\* eventInsert: the columns an event carries, and the stamp of its statement.
eventInsert(e, at, seq) == e @@ [at |-> at, seq |-> seq]

\* What COMMIT makes visible: each row with the stamp of its own statement.
Stored(t, batch, stamps) ==
    LET events == [t EXCEPT !.events = @ \o [i \in DOMAIN batch.events |->
                     eventInsert(batch.events[i], stamps[i], 0)]]
        mutate(acc, i) == mutationStatement(acc, batch.mutations[i], stamps[Len(batch.events) + i])
    IN  FoldLeft(mutate, events, [i \in 1..Len(batch.mutations) |-> i])

\* MemoryStore.#commit: a copy, one `now` to the millisecond, a sequence
\* number where the store stamps the event; a duplicate key changes nothing.
Numbered(t, batch, now) ==
    LET seq0 == Len(t.events)
        events == [t EXCEPT !.events = @ \o [i \in DOMAIN batch.events |->
                     eventInsert(batch.events[i], now \div Millisecond, seq0 + i)]]
    IN  IF Refused(t, batch) THEN t
        ELSE FoldLeft(LAMBDA acc, m : Mutated(acc, m, now \div Millisecond), events, batch.mutations)
\* Mutant: ties are left to the event id.
Unnumbered(t, batch, now) ==
    LET numbered == Numbered(t, batch, now)
    IN  [numbered EXCEPT !.events = [i \in DOMAIN @ |-> [@[i] EXCEPT !.seq = 0]]]
MemCommit(t, batch, now) == Numbered(t, batch, now)

-----------------------------------------------------------------------------
(* The readers.                                                             *)

OfSession(t, s) == SelectSeq(t.events, LAMBDA e : e.session = s)

\* `ORDER BY created_at, event_id`.
DoltBefore(a, b) == a.at < b.at \/ (a.at = b.at /\ a.id < b.id)
\* compareEventOrder.
MemBefore(a, b) ==
    \/ a.at < b.at
    \/ a.at = b.at /\ a.seq < b.seq
    \/ a.at = b.at /\ a.seq = b.seq /\ a.id < b.id

Ordered(events, Before(_, _), order) ==
    IF order = "asc" THEN SortSeq(events, Before)
    ELSE SortSeq(events, LAMBDA a, b : Before(b, a))
Cut(l, n) == SubSeq(l, 1, IF Len(l) < n THEN Len(l) ELSE n)
Ids(l) == [i \in DOMAIN l |-> l[i].id]

DoltBySession(s, limit, order) == Ids(Cut(Ordered(OfSession(dolt, s), DoltBefore, order), limit))
MemBySession(s, limit, order) == Ids(Cut(Ordered(OfSession(mem, s), MemBefore, order), limit))

\* fetchWorkbenchSessionEvents, its cap and its order left to it: the newest
\* `limit` events, oldest first.
fetchWorkbenchSessionEvents(s, limit) == Reverse(DoltBySession(s, limit, "desc"))

isCompletedModelCall(e) ==
    /\ e.type \in {"provider_call", "model_response"}
    /\ e.stop \in {"stop", "length", "tool_use"}
    /\ e.purpose # "context_compression" /\ e.model # ""

RanOn(e) == IF e.type = "agent_response" THEN <<"runner", e.model>> ELSE <<"model", e.model>>
LatestOf(t, s, Before(_, _)) ==
    LET runs == SelectSeq(OfSession(t, s), LAMBDA e : isCompletedModelCall(e) \/ e.type = "agent_response")
        latest == Cut(Ordered(runs, Before, "desc"), 1)
    IN  IF latest = <<>> THEN <<>> ELSE RanOn(latest[1])

DoltLatestRun(s) == LatestOf(dolt, s, DoltBefore)
MemLatestRun(s) == LatestOf(mem, s, MemBefore)

Spend(events) == FoldLeft(LAMBDA n, e : n + e.cost, 0, events)
\* baselines: the SQL sums, and MemoryStore's loop.
DoltBaselines(s) ==
    LET paid == SelectSeq(dolt.events, LAMBDA e : e.type = "provider_call" /\ e.cost > 0)
        sum(P(_)) == Spend(SelectSeq(paid, P))
    IN  [session |-> sum(LAMBDA e : e.session = s),
         today |-> sum(LAMBDA e : e.session = s /\ e.at >= DayStart),
         others |-> sum(LAMBDA e : e.session # s /\ e.at >= DayStart)]
MemBaselines(s) ==
    LET step(b, e) ==
          LET recent == e.at >= DayStart \div Millisecond
              add == IF recent THEN e.cost ELSE 0
          IN  IF e.type # "provider_call" \/ e.cost = 0 THEN b
              ELSE IF e.session = s
              THEN [b EXCEPT !.session = @ + e.cost, !.today = @ + add]
              ELSE [b EXCEPT !.others = @ + add]
    IN  FoldLeft(step, [session |-> 0, today |-> 0, others |-> 0], mem.events)

\* The rows other readers give, without their stamps (summary, detail,
\* workspace; injected, indexed, bySlug).
Rows(t) == [sessions |-> {<<r.id, r.slug, r.status, r.content>> : r \in ToSet(t.sessions)},
            memories |-> {<<r.id, r.slug, r.content>> : r \in ToSet(t.memories)}]

-----------------------------------------------------------------------------
(* journal.commit.                                                          *)

NoBatch == [name |-> "", events |-> <<>>, mutations |-> <<>>, signal |-> FALSE]
NewTx == [pc |-> "idle", batch |-> NoBatch, aborted |-> FALSE, conn |-> "none",
          stamps |-> <<>>, since |-> {}, stored |-> FALSE, count |-> 0]

\* Which commit this is.
Id(c) == <<c, tx[c].count>>
Statements(batch) == Len(batch.events) + Len(batch.mutations)

Settle(c, outcome) ==
    done' = done \cup {[batch |-> tx[c].batch, outcome |-> outcome, stored |-> tx[c].stored]}

\* The commit settles and, in `finally`, gives its connection back unless it
\* was aborted (the abort destroyed it).
GivenBack(c) == IF tx[c].conn = "held" /\ ~tx[c].aborted THEN used \ {Id(c)} ELSE used
\* Mutant: a commit that failed keeps its connection.
GivenBackOnSuccess(c) ==
    IF tx[c].conn = "held" /\ tx[c].stored THEN used \ {Id(c)} ELSE used
Released(c) == GivenBack(c)
Over(c) == [tx[c] EXCEPT !.pc = "over", !.aborted = FALSE, !.conn = "none"]

Init ==
    /\ tx = [c \in Committers |-> NewTx]
    /\ dolt = EmptyTables /\ mem = EmptyTables
    /\ used = {} /\ gap = {} /\ clock = 0 /\ done = {}

\* commit: the checks before anything is written. `aborted`: the caller's
\* signal already is.
Commit(c) ==
    /\ tx[c].pc = "idle" /\ tx[c].count < MaxCommits[c]
    /\ \E b \in Batches[c] : \E aborted \in (IF b.signal THEN BOOLEAN ELSE {FALSE}) :
         LET t == [NewTx EXCEPT !.batch = b, !.count = tx[c].count + 1]
             settle(outcome) ==
               /\ tx' = [tx EXCEPT ![c] = [t EXCEPT !.pc = "over"]]
               /\ done' = done \cup {[batch |-> b, outcome |-> outcome, stored |-> FALSE]}
         IN  IF aborted THEN settle("abort")
             ELSE IF ~assertDeclaredMutations(b) THEN settle("undeclared")
             ELSE IF Statements(b) = 0 THEN settle("ok")
             ELSE /\ tx' = [tx EXCEPT ![c] = [t EXCEPT !.pc =
                              IF Statements(b) = 1 /\ ~b.signal THEN "auto" ELSE "acquiring"]]
                  /\ UNCHANGED done
    /\ UNCHANGED <<gap, dolt, mem, used, clock>>

\* What others commit from now on is a conflict for those who have begun.
Committed(c, tables, memory) ==
    /\ dolt' = tables /\ mem' = memory
    /\ tx' = [d \in Committers |->
         IF d = c THEN [tx[c] EXCEPT !.stored = TRUE, !.pc = "committed"]
         ELSE IF tx[d].pc \in {"work", "committing"}
         THEN [tx[d] EXCEPT !.since = @ \cup Keys(tx[c].batch)] ELSE tx[d]]

\* One auto-committed statement on the pool.
AutoCommit(c) ==
    /\ tx[c].pc = "auto" /\ Cardinality(used) < Limit
    /\ ~Refused(dolt, tx[c].batch)
    /\ clock' = clock + 1
    /\ Committed(c, Stored(dolt, tx[c].batch, <<clock>>), MemCommit(mem, tx[c].batch, clock))
    /\ UNCHANGED <<gap, used, done>>

\* The connection is lost before the statement, or a key is taken.
AutoFail(c) ==
    /\ tx[c].pc = "auto" /\ Cardinality(used) < Limit
    /\ tx' = [tx EXCEPT ![c] = Over(c)]
    /\ Settle(c, "driver")
    /\ UNCHANGED <<gap, dolt, mem, used, clock>>

\* getConnection resolves. An abort was first: the late one is destroyed.
Arrive(c) ==
    /\ Cardinality(used) < Limit
    /\ \/ tx[c].pc = "acquiring" /\ ~tx[c].aborted
          /\ tx' = [tx EXCEPT ![c].pc = "arrived"] /\ used' = used \cup {Id(c)}
       \/ tx[c].pc = "late"
          /\ tx' = [tx EXCEPT ![c].pc = "over"] /\ UNCHANGED used
    /\ UNCHANGED <<gap, dolt, mem, clock, done>>

\* `await Promise.race(...)` continues with the connection: BEGIN.
Begin(c) ==
    /\ tx[c].pc = "arrived"
    /\ tx' = [tx EXCEPT ![c].pc = "work", ![c].conn = "held"]
    /\ UNCHANGED <<gap, dolt, mem, used, clock, done>>

\* The next statement of the batch succeeds. On a destroyed connection its
\* answer may have been on the way.
Statement(c) ==
    /\ tx[c].pc = "work" /\ Len(tx[c].stamps) < Statements(tx[c].batch)
    /\ ~Refused(dolt, tx[c].batch)
    /\ clock' = clock + 1
    /\ tx' = [tx EXCEPT ![c].stamps = Append(@, clock)]
    /\ UNCHANGED <<gap, dolt, mem, used, done>>

\* A statement fails: a key is taken, or the connection is gone. The catch
\* rolls back and the driver's error is the outcome.
StatementFails(c) ==
    /\ tx[c].pc = "work"
    /\ tx' = [tx EXCEPT ![c] = Over(c)]
    /\ used' = Released(c)
    /\ Settle(c, "driver")
    /\ UNCHANGED <<gap, dolt, mem, clock>>

\* The work is done: an abort seen here is reported, else COMMIT is sent.
SendCommit(c) ==
    /\ tx[c].pc = "work" /\ Len(tx[c].stamps) = Statements(tx[c].batch)
    /\ IF tx[c].aborted
       THEN /\ tx' = [tx EXCEPT ![c] = Over(c)] /\ used' = Released(c) /\ Settle(c, "abort")
       ELSE /\ tx' = [tx EXCEPT ![c].pc = "committing"] /\ UNCHANGED <<used, done>>
    /\ UNCHANGED <<gap, dolt, mem, clock>>

\* The server commits. A key written since BEGIN is a conflict instead.
Durable(c) ==
    /\ tx[c].pc = "committing"
    /\ Keys(tx[c].batch) \cap tx[c].since = {} /\ ~Refused(dolt, tx[c].batch)
    /\ Committed(c, Stored(dolt, tx[c].batch, tx[c].stamps), MemCommit(mem, tx[c].batch, tx[c].stamps[1]))
    /\ UNCHANGED <<gap, used, clock, done>>

\* COMMIT is refused, or the connection is lost before the server has it.
CommitFails(c) ==
    /\ tx[c].pc = "committing"
    /\ tx' = [tx EXCEPT ![c] = Over(c)]
    /\ used' = Released(c)
    /\ Settle(c, "driver")
    /\ UNCHANGED <<gap, dolt, mem, clock>>

\* The acknowledgement arrives, or is lost with the connection.
AcknowledgedAs(c, ok) ==
    /\ tx[c].pc = "committed"
    /\ \E outcome \in {ok, "driver"} : Settle(c, outcome)
    /\ tx' = [tx EXCEPT ![c] = Over(c)]
    /\ used' = Released(c)
    /\ UNCHANGED <<gap, dolt, mem, clock>>
\* Mutant: the signal is looked at once more after COMMIT.
AcknowledgeLate(c) == AcknowledgedAs(c, IF tx[c].aborted THEN "abort" ELSE "ok")
Acknowledge(c) == AcknowledgedAs(c, "ok")

\* The caller aborts. Before a connection is there the race rejects; after,
\* the connection is destroyed and the pool opens another.
Abort(c) ==
    /\ tx[c].batch.signal /\ ~tx[c].aborted
    /\ \/ /\ tx[c].pc = "acquiring"
          /\ tx' = [tx EXCEPT ![c].pc = "late"]
          /\ Settle(c, "abort") /\ UNCHANGED <<used, gap>>
       \/ /\ tx[c].pc = "arrived"
          /\ tx' = [tx EXCEPT ![c].aborted = TRUE]
          /\ gap' = gap \cup {Id(c)} /\ UNCHANGED <<used, done>>
       \/ /\ tx[c].pc \in {"work", "committing", "committed"}
          /\ tx' = [tx EXCEPT ![c].aborted = TRUE, ![c].conn = "destroyed"]
          /\ used' = used \ {Id(c)} /\ UNCHANGED <<gap, done>>
    /\ UNCHANGED <<dolt, mem, clock>>

\* The turn goes on to its next write.
NextWrite(c) ==
    /\ tx[c].pc = "over"
    /\ tx' = [tx EXCEPT ![c] = [NewTx EXCEPT !.count = tx[c].count]]
    /\ UNCHANGED <<gap, dolt, mem, used, clock, done>>

Next == \E c \in Committers :
    \/ Commit(c) \/ AutoCommit(c) \/ AutoFail(c) \/ Arrive(c) \/ Begin(c)
    \/ Statement(c) \/ StatementFails(c) \/ SendCommit(c) \/ Durable(c)
    \/ CommitFails(c) \/ Acknowledge(c) \/ Abort(c) \/ NextWrite(c)
Spec == Init /\ [][Next]_vars

-----------------------------------------------------------------------------
(* Properties.                                                             *)

\* port.ts: a batch's events and mutations are "all of them, or none", and
\* what the caller was told is true: an acknowledged batch is there, and an
\* AbortError leaves nothing of it, however the abort, the connection and the
\* server's COMMIT were ordered. Only the driver's error leaves it open.
CommitsHonest ==
    \A o \in done :
      /\ o.outcome = "ok" => o.stored \/ Statements(o.batch) = 0
      /\ o.outcome \in {"abort", "undeclared"} => ~o.stored
      /\ LET there == {i \in DOMAIN o.batch.events :
                         \E e \in ToSet(dolt.events) : e.id = o.batch.events[i].id}
         IN  o.stored => there = DOMAIN o.batch.events

\* MemoryStore answers every reader as Dolt does: a session's events in
\* order, to either end and to any cap, what it last ran on, the spend, and
\* the rows; though its clock stands still for a millisecond.
StoresAgree ==
    \A c \in Committers :
      LET s == c
      IN  /\ \A n \in 1..3 : \A order \in {"asc", "desc"} :
               DoltBySession(s, n, order) = MemBySession(s, n, order)
          /\ DoltLatestRun(s) = MemLatestRun(s)
          /\ DoltBaselines(s) = MemBaselines(s)
          /\ Rows(dolt) = Rows(mem)
          /\ \A n \in 1..3 : IsSuffix(fetchWorkbenchSessionEvents(s, n), DoltBySession(s, 9, "asc"))

\* A connection is given back or destroyed when its commit settles, but for
\* an abort that falls between the connection's arrival and the `await` that
\* takes it: that one stays out of the pool.
PoolKept ==
    \A id \in used :
      \/ tx[id[1]].count = id[2] /\ tx[id[1]].pc \in {"arrived", "work", "committing", "committed"}
      \/ id \in gap
=============================================================================
