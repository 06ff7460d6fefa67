----------------------------- MODULE Extensions -----------------------------
(* The idea and work-packet registry of the `ideas` and `packets`           *)
(* extensions (extensions/ideas), with the /idea and /packet commands that  *)
(* call it.  A request reads the registry, awaits the session's events, and *)
(* only then registers; meanwhile others register and evict.                *)
(*                                                                          *)
(* One event per session stands for all of that session's events, so an     *)
(* event is named by its session; 0 is "none".  Wording, truncation and     *)
(* identifier syntax are left out.                                          *)
(*                                                                          *)
(* Then friction/post (extensions/friction), which numbers its comment from *)
(* the comments the checkpoint issue already has. The two share no state.   *)
EXTENDS Naturals, Sequences, FiniteSets, FiniteSetsExt

CONSTANTS
    Sessions,       \* session ids, positive numbers
    Clients,        \* REPLs with a request in flight
    MaxSessions,    \* maxSessions
    MaxEntries,     \* maxEntriesPerSession
    MaxTombstones,  \* maxTombstones
    MaxIds,         \* bound: identifiers handed out
    MaxSupplied,    \* bound: calls with an identifier of the caller's own
    Posters,        \* clients that post friction, numbers
    Issues,         \* comments the checkpoint issue may start with
    PageSize,       \* comments of a page
    MaxPages        \* MAX_COMMENT_PAGES

VARIABLES
    ideas, packets,            \* ideasById, packetsById
    ideaLists, packetLists,    \* ideasBySession, packetsBySession, oldest first
    ideaOwners, packetOwners,  \* knownIdeaOwners, knownPacketOwners, oldest first
    events,                    \* sessions with an event in the store
    requests,                  \* what each client is waiting for
    ids,                       \* identifiers handed out so far
    supplied,                  \* calls with an identifier of the caller's own
    issue,                     \* the issue's comments, oldest first
    flight,                    \* writes whose call timed out and that may yet land
    queue,                     \* frictionQueue
    posts                      \* where each friction/post is

registry == <<ideas, packets, ideaLists, packetLists, ideaOwners, packetOwners>>
registryVars == <<registry, events, requests, ids, supplied>>
frictionVars == <<issue, flight, queue, posts>>
vars == <<registryVars, frictionVars>>

NoIdea == [session |-> 0, event |-> 0, about |-> 0]
Idle == [step |-> "idle", session |-> 0, target |-> 0, idea |-> 0, event |-> 0,
         clone |-> NoIdea, found |-> {}]
NoEntries == [i \in {} |-> 0]

NoPost == [step |-> "idle", at |-> "none", tried |-> FALSE, page |-> 1, cursor |-> FALSE,
           escaped |-> FALSE, f |-> 0, e |-> 0]

Init ==
    /\ issue \in Issues /\ flight = {} /\ queue = <<>> /\ posts = [p \in Posters |-> NoPost]
    /\ ideas = NoEntries /\ packets = NoEntries
    /\ ideaLists = <<>> /\ packetLists = <<>>
    /\ ideaOwners = <<>> /\ packetOwners = <<>>
    /\ events = {} /\ ids = 0 /\ supplied = 0
    /\ requests = [c \in Clients |-> Idle]

-----------------------------------------------------------------------------
(* The insertion-ordered maps.                                             *)

Put(map, id, entry) ==
    [i \in DOMAIN map \cup {id} |-> IF i = id THEN entry ELSE map[i]]
Without(map, gone) == [i \in DOMAIN map \ gone |-> map[i]]

Listed(lists) == UNION {{lists[n].ids[k] : k \in DOMAIN lists[n].ids} : n \in DOMAIN lists}
HasList(lists, s) == \E n \in DOMAIN lists : lists[n].session = s

\* A session's list, made by evicting the oldest session where there are too
\* many, with its own oldest entry evicted where it is full.
Shifted(list) == IF Len(list) >= MaxEntries THEN Tail(list) ELSE list
Relisted(lists, s, id) ==
    LET removed == [n \in DOMAIN lists |->
                      [lists[n] EXCEPT !.ids = SelectSeq(@, LAMBDA i : i # id)]]
        room == IF Len(removed) >= MaxSessions THEN Tail(removed) ELSE removed
        made == IF HasList(removed, s) THEN removed
                ELSE Append(room, [session |-> s, ids |-> <<>>])
    IN  [n \in DOMAIN made |->
            IF made[n].session = s
            THEN [made[n] EXCEPT !.ids = Append(Shifted(@), id)]
            ELSE made[n]]
Evicted(lists, s, id) == Listed(lists) \ Listed(Relisted(lists, s, id))

\* The owner of an identifier outlives its entry, up to a bound.
OwnerOf(owners, id) ==
    {owners[n].session : n \in {m \in DOMAIN owners : owners[m].id = id}}
Remember(owners, id, s) ==
    LET kept == IF Len(owners) >= MaxTombstones THEN Tail(owners) ELSE owners
    IN  IF OwnerOf(kept, id) # {}
        THEN [n \in DOMAIN kept |->
                IF kept[n].id = id THEN [id |-> id, session |-> s] ELSE kept[n]]
        ELSE Append(kept, [id |-> id, session |-> s])
MayOwn(owners, map, id, s) ==
    /\ OwnerOf(owners, id) \subseteq {s}
    /\ id \in DOMAIN map => map[id].session = s

-----------------------------------------------------------------------------
(* The registry.                                                           *)

hasRetainedPacketForIdea(held, i) == \E p \in DOMAIN held : held[p].idea = i

\* A session's eviction takes its ideas, but for those a packet still cites.
ListedGone(gone) == gone
UncitedGone(gone) == {i \in gone : ~hasRetainedPacketForIdea(packets, i)}
IdeasGone(gone) == UncitedGone(gone)

registerIdea(id, idea) ==
    /\ MayOwn(ideaOwners, ideas, id, idea.session)
    /\ ideas' = Without(Put(ideas, id, idea),
                        IdeasGone(Evicted(ideaLists, idea.session, id)))
    /\ ideaOwners' = Remember(ideaOwners, id, idea.session)
    /\ ideaLists' = Relisted(ideaLists, idea.session, id)
    /\ UNCHANGED <<packets, packetLists, packetOwners>>

\* An idea that only its packet kept goes with the last packet that cites it,
\* where its session has no list of ideas any more.
WithPackets(held, gone) ==
    {i \in DOMAIN ideas :
        /\ \E p \in gone : packets[p].idea = i
        /\ ~hasRetainedPacketForIdea(held, i)
        /\ ~HasList(ideaLists, ideas[i].session)}
EvictedFirst(id, packet) ==
    LET gone == Evicted(packetLists, packet.session, id)
    IN  WithPackets(Without(packets, gone), gone)
PutFirst(id, packet) ==
    LET gone == Evicted(packetLists, packet.session, id)
    IN  WithPackets(Without(Put(packets, id, packet), gone), gone)
IdeasLeft(id, packet) == PutFirst(id, packet)

MayRegister(id, packet) ==
    /\ packet.idea # 0 =>
         /\ packet.idea \in DOMAIN ideas
         /\ ideas[packet.idea].session = packet.session
    /\ MayOwn(packetOwners, packets, id, packet.session)

registerPacket(id, packet) ==
    /\ MayRegister(id, packet)
    /\ packets' = Without(Put(packets, id, packet),
                          Evicted(packetLists, packet.session, id))
    /\ ideas' = Without(ideas, IdeasLeft(id, packet))
    /\ packetOwners' = Remember(packetOwners, id, packet.session)
    /\ packetLists' = Relisted(packetLists, packet.session, id)
    /\ UNCHANGED <<ideaLists, ideaOwners>>

-----------------------------------------------------------------------------
(* What an idea and a packet are drafted from.                             *)

\* findSessionEvent: an event counts only for its own session.
findSessionEvent(found, s, e) == e \in found /\ e = s

\* The newest of the session's own events, or none.
recentSessionEvents(found, s) == IF s \in found THEN s ELSE 0

\* markWorkbenchIdea's checks, and the idea it registers.
MarkRefused(s, e, found) == e # 0 /\ ~findSessionEvent(found, s, e)
MarkedIdea(s, e, found) ==
    [session |-> s, event |-> e,
     about |-> IF e # 0 THEN e ELSE recentSessionEvents(found, s)]

\* draftWorkPacketFromContext: an event the caller named must be there; the
\* idea's own event may have gone, and is then not cited.
Referenced(e, clone) == IF e # 0 THEN e ELSE clone.event
DraftRefused(s, e, clone, found) ==
    \/ clone.session \notin {0, s}
    \/ e # 0 /\ ~findSessionEvent(found, s, e)
DraftedPacket(s, idea, e, clone, found) ==
    LET ref == Referenced(e, clone)
        cited == IF ref # 0 /\ findSessionEvent(found, s, ref) THEN ref ELSE 0
        told == IF ref # 0 THEN clone.about ELSE 0
    IN  [session |-> s, idea |-> idea, event |-> cited,
         excerpt |-> IF cited # 0 THEN cited
                     ELSE IF told # 0 THEN told
                     ELSE recentSessionEvents(found, s)]

-----------------------------------------------------------------------------
(* The requests.                                                           *)

Settle(c) == requests' = [requests EXCEPT ![c] = Idle]
Fresh == ids < MaxIds /\ ids' = ids + 1

\* A turn of a session writes an event.
Commit(s) ==
    /\ s \notin events
    /\ events' = events \cup {s}
    /\ UNCHANGED <<registry, requests, ids, supplied>>

\* ideas/mark: the request's parameters are read and the events awaited.
Mark(c, s, e) ==
    /\ requests[c].step = "idle"
    /\ requests' = [requests EXCEPT ![c] =
                     [Idle EXCEPT !.step = "mark", !.session = s, !.event = e]]
    /\ UNCHANGED <<registry, events, ids, supplied>>

\* The events arrive, or the reader fails: fatal only where one was named.
Fetched(c) ==
    LET r == requests[c]
        to == IF r.step = "mark" THEN "marking" ELSE "drafting"
        ref == Referenced(r.event, r.clone)
    IN  /\ r.step \in {"mark", "draft"}
        /\ \/ requests' = [requests EXCEPT ![c].step = to, ![c].found =
                             {s \in events : s = r.session /\ ref \in {0, s}}]
           \/ ref = 0 /\ requests' = [requests EXCEPT ![c].step = to]
           \/ ref # 0 /\ Settle(c)
        /\ UNCHANGED <<registry, events, ids, supplied>>

MarkDone(c) ==
    LET r == requests[c] IN
    /\ r.step = "marking"
    /\ \/ ~MarkRefused(r.session, r.event, r.found) /\ Fresh
            /\ registerIdea(ids', MarkedIdea(r.session, r.event, r.found))
       \/ MarkRefused(r.session, r.event, r.found) /\ UNCHANGED <<registry, ids>>
    /\ Settle(c)
    /\ UNCHANGED <<events, supplied>>

\* /packet draft with a bare target that reads like an event: an idea of that
\* name and session wins, and is asked for in a request of its own.
Resolve(c, s, t) ==
    /\ requests[c].step = "idle"
    /\ requests' = [requests EXCEPT ![c] =
                     [Idle EXCEPT !.step = "asked", !.session = s,
                        !.idea = IF t \in DOMAIN ideas /\ ideas[t].session = s
                                 THEN t ELSE 0,
                        !.event = IF t \in DOMAIN ideas /\ ideas[t].session = s
                                  THEN 0 ELSE t]]
    /\ UNCHANGED <<registry, events, ids, supplied>>

\* packets/draft: the idea is cloned before the events are awaited.
DraftParams(c, s, i, e) ==
    /\ requests[c].step \in {"idle", "asked"}
    /\ requests[c].step = "asked" =>
         s = requests[c].session /\ i = requests[c].idea /\ e = requests[c].event
    /\ i = 0 \/ e = 0
Draft(c, s, i, e) ==
    /\ DraftParams(c, s, i, e)
    /\ IF i # 0 /\ (i \notin DOMAIN ideas \/ ideas[i].session # s)
       THEN Settle(c)
       ELSE requests' = [requests EXCEPT ![c] =
              [Idle EXCEPT !.step = "draft", !.session = s, !.idea = i, !.event = e,
                 !.clone = IF i = 0 THEN NoIdea ELSE ideas[i]]]
    /\ UNCHANGED <<registry, events, ids, supplied>>

DraftDone(c) ==
    LET r == requests[c]
        packet == DraftedPacket(r.session, r.idea, r.event, r.clone, r.found)
        refused == DraftRefused(r.session, r.event, r.clone, r.found)
    IN  /\ r.step = "drafting"
        /\ \/ ~refused /\ Fresh /\ registerPacket(ids', packet)
           \/ ~refused /\ ~MayRegister(ids + 1, packet) /\ UNCHANGED <<registry, ids>>
           \/ refused /\ UNCHANGED <<registry, ids>>
        /\ Settle(c)
        /\ UNCHANGED <<events, supplied>>

Supplied == supplied < MaxSupplied /\ supplied' = supplied + 1

\* The exported calls with an identifier of the caller's own: it may be one
\* that is held, evicted, or another session's.
MarkAs(id, s) ==
    /\ id \in 1..ids /\ Supplied
    /\ registerIdea(id, MarkedIdea(s, 0, events))
    /\ UNCHANGED <<events, requests, ids>>
DraftAs(id, s, i) ==
    LET clone == IF i = 0 THEN NoIdea ELSE ideas[i] IN
    /\ id \in 1..ids /\ Supplied
    /\ ~DraftRefused(s, 0, clone, events)
    /\ registerPacket(id, DraftedPacket(s, i, 0, clone, events))
    /\ UNCHANGED <<events, requests, ids>>

clear ==
    /\ Supplied
    /\ ideas # NoEntries
    /\ ideas' = NoEntries /\ packets' = NoEntries
    /\ ideaLists' = <<>> /\ packetLists' = <<>>
    /\ ideaOwners' = <<>> /\ packetOwners' = <<>>
    /\ UNCHANGED <<events, requests, ids>>

RegistryNext ==
    \/ \E s \in Sessions : Commit(s)
    \/ \E c \in Clients : Fetched(c) \/ MarkDone(c) \/ DraftDone(c)
    \/ \E c \in Clients, s \in Sessions, e \in Sessions \cup {0} : Mark(c, s, e)
    \/ \E c \in Clients, s \in Sessions, t \in 1..ids : Resolve(c, s, t)
    \/ \E c \in Clients, s \in Sessions, i \in 0..ids, e \in Sessions \cup {0} :
          Draft(c, s, i, e)
    \/ \E id \in 1..ids, s \in Sessions :
          \/ MarkAs(id, s)
          \/ \E i \in DOMAIN ideas \cup {0} : DraftAs(id, s, i)
    \/ clear

-----------------------------------------------------------------------------
(* friction/post: a comment is its F and E numbers (0 is none), who posted   *)
(* it (0 is someone else), and whether it landed after its call had failed.  *)

To(p, post) == posts' = [posts EXCEPT ![p] = post]
\* Closing the head of the queue lets the next one run.
Close(p, post) == To(p, post) /\ queue' = SelectSeq(queue, LAMBDA q : q # p)
FailPost(p) == Close(p, [posts[p] EXCEPT !.step = "failed", !.at = posts[p].step])

\* Posters ask in order of their number.
FrictionPost(p) ==
    /\ posts[p].step = "idle" /\ \A q \in Posters : q < p => posts[q].step # "idle"
    /\ \E escaped, cursor \in BOOLEAN :
         To(p, [NoPost EXCEPT !.step = "queued", !.escaped = escaped, !.cursor = cursor])
    /\ queue' = Append(queue, p)
    /\ UNCHANGED <<issue, flight>>

Unlocked(p) == TRUE
withFrictionLock(p) == queue[1] = p

Begin(p) ==
    /\ posts[p].step = "queued" /\ withFrictionLock(p)
    /\ To(p, [posts[p] EXCEPT !.step = "get_issue"])
    /\ UNCHANGED <<issue, flight, queue>>

\* A read that times out is tried once more.
retryReadOnceOnTimeout(p) ==
    /\ posts[p].step \in {"get_issue", "comment read"}
    /\ IF posts[p].tried THEN FailPost(p) ELSE To(p, [posts[p] EXCEPT !.tried = TRUE]) /\ UNCHANGED queue
    /\ UNCHANGED <<issue, flight>>

\* A refused call, a clipped or unreadable reply, or a page that names no cursor for the next.
ReadFails(p) ==
    /\ posts[p].step \in {"get_issue", "comment read"}
    /\ FailPost(p)
    /\ UNCHANGED <<issue, flight>>

GetIssue(p) ==
    /\ posts[p].step = "get_issue"
    /\ To(p, [posts[p] EXCEPT !.step = "comment read", !.tried = FALSE])
    /\ UNCHANGED <<issue, flight, queue>>

PageOf(n) == {k \in DOMAIN issue : k > (n - 1) * PageSize /\ k <= n * PageSize}
hasNextPage(n) == Len(issue) > n * PageSize
highestNumber(post, field) == Max({post[field]} \cup {issue[k][field] : k \in PageOf(post.page)})

Collected(p) == [posts[p] EXCEPT !.f = highestNumber(posts[p], "f"), !.e = highestNumber(posts[p], "e"),
                                 !.tried = FALSE]
Numbered(post) == [post EXCEPT !.step = "comment write", !.f = @ + 1,
                               !.e = IF post.escaped THEN @ + 1 ELSE 0]
PageRead(p, partial) ==
    /\ posts[p].step = "comment read"
    /\ IF ~hasNextPage(posts[p].page) \/ (partial /\ posts[p].page = MaxPages)
       THEN To(p, Numbered(Collected(p))) /\ UNCHANGED queue
       ELSE IF ~posts[p].cursor \/ posts[p].page = MaxPages THEN FailPost(p)
       ELSE To(p, [Collected(p) EXCEPT !.page = @ + 1]) /\ UNCHANGED queue
    /\ UNCHANGED <<issue, flight>>
ReadWhatFits(p) == PageRead(p, TRUE)
readAllComments(p) == PageRead(p, FALSE)

Comment(p, late) == [f |-> posts[p].f, e |-> posts[p].e, by |-> p, late |-> late]
Answered(p) ==
    /\ issue' = Append(issue, Comment(p, FALSE)) /\ UNCHANGED flight
    /\ \/ Close(p, [posts[p] EXCEPT !.step = "done"])
       \/ FailPost(p)     \* no readable comment id in the reply
Refused(p) == FailPost(p) /\ UNCHANGED <<issue, flight>>
\* A write that times out has landed, is still on its way, or is lost: it is never tried again.
TimedOut(p) ==
    \/ issue' = Append(issue, Comment(p, FALSE)) /\ UNCHANGED flight
    \/ flight' = flight \cup {Comment(p, TRUE)} /\ UNCHANGED issue
Writes(p, onTimeout) ==
    /\ posts[p].step = "comment write"
    /\ Answered(p) \/ Refused(p) \/ (TimedOut(p) /\ onTimeout)
RetriedWrite(p) == Writes(p, UNCHANGED <<queue, posts>>)
createComment(p) == Writes(p, FailPost(p))

Lands ==
    /\ \E w \in flight : issue' = Append(issue, w) /\ flight' = flight \ {w}
    /\ UNCHANGED <<queue, posts>>

FrictionNext ==
    \/ \E p \in Posters : \/ FrictionPost(p) \/ Begin(p) \/ retryReadOnceOnTimeout(p) \/ ReadFails(p)
                          \/ GetIssue(p) \/ readAllComments(p) \/ createComment(p)
    \/ Lands

Next ==
    \/ RegistryNext /\ UNCHANGED frictionVars
    \/ FrictionNext /\ UNCHANGED registryVars
Spec == Init /\ [][Next]_vars

-----------------------------------------------------------------------------
(* Properties.                                                             *)

\* registerPacket's checks and both evictions: a packet that can still be
\* fetched cites an idea that can, of its own session.
CitationsHold ==
    \A p \in DOMAIN packets : packets[p].idea # 0 =>
        /\ packets[p].idea \in DOMAIN ideas
        /\ ideas[packets[p].idea].session = packets[p].session

\* listIdeas and listPackets name nothing that getIdea and getPacket do not
\* find, under its own session; no packet is kept off the lists; and the
\* bounds hold.
ListsHold ==
    /\ Listed(ideaLists) \subseteq DOMAIN ideas
    /\ Listed(packetLists) = DOMAIN packets
    /\ \A lists \in {ideaLists, packetLists} :
         /\ Len(lists) <= MaxSessions
         /\ \A n, m \in DOMAIN lists : lists[n].session = lists[m].session => n = m
         /\ \A n \in DOMAIN lists : Len(lists[n].ids) <= MaxEntries
    /\ \A n \in DOMAIN ideaLists : \A k \in DOMAIN ideaLists[n].ids :
         ideas[ideaLists[n].ids[k]].session = ideaLists[n].session
    /\ \A n \in DOMAIN packetLists : \A k \in DOMAIN packetLists[n].ids :
         packets[packetLists[n].ids[k]].session = packetLists[n].session

\* An idea or packet quotes and cites events of its own session only, and an
\* identifier still remembered is held for no other session than its owner.
OwnSession ==
    /\ \A i \in DOMAIN ideas : /\ {ideas[i].event, ideas[i].about} \subseteq {0, ideas[i].session}
                               /\ OwnerOf(ideaOwners, i) \subseteq {ideas[i].session}
    /\ \A p \in DOMAIN packets :
         /\ {packets[p].event, packets[p].excerpt} \subseteq {0, packets[p].session}
         /\ OwnerOf(packetOwners, p) \subseteq {packets[p].session}

\* friction.ts: no number names two comments, though reads time out, pages are many and a failed post is
\* followed by another; a request posts at most once; what it reports is what was posted, and a post that
\* failed before its write left nothing. (Not said of a write that lands after its own call had failed.)
NumbersHold ==
    /\ \A i, j \in DOMAIN issue : i # j /\ ~issue[i].late /\ ~issue[j].late =>
         /\ issue[i].f # issue[j].f
         /\ issue[i].e = issue[j].e => issue[i].e = 0
         /\ issue[i].by = issue[j].by => issue[i].by = 0
    /\ \A p \in Posters :
         LET own == {i \in DOMAIN issue : issue[i].by = p}
         IN /\ Cardinality(own) + Cardinality({w \in flight : w.by = p}) <= 1
            /\ posts[p].step = "done" => \E i \in own : issue[i].f = posts[p].f /\ issue[i].e = posts[p].e
            /\ posts[p].step # "done" /\ posts[p].at # "comment write" => own = {}

RegistryHolds == CitationsHold /\ ListsHold /\ OwnSession
=============================================================================
