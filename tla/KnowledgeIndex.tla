--------------------------- MODULE KnowledgeIndex ---------------------------
(* The append-only knowledge index of one owner (knowledge/services/index.py,
   versioning.py, temporal.py): what is known of every entity of a meeting, as a
   chain of versions with validity windows, the numbered knowledge versions they
   were written under, and the audit stream of events.

   An indexing reads the meeting, then the current rows, plans what differs,
   embeds it outside any transaction, and writes everything in one.  Several may
   overlap: a job's subscriber and POST /knowledge/reindex, in any threads. *)
EXTENDS Naturals, Sequences, FiniteSets

CONSTANTS
  Entities,       \* tasks, decisions, segments, ... of the meeting
  Texts,          \* what an entity can say
  Absent,         \* the meeting has no such entity
  Indexings,      \* threads that can be inside index_meeting
  MaxEdits,       \* bound on the changes of the meeting
  MaxIndexings    \* bound on the calls of index_meeting

ASSUME IndexAssumption ==
  /\ IsFiniteSet(Entities)
  /\ Texts # {} /\ Absent \notin Texts
  /\ MaxEdits \in Nat /\ MaxIndexings \in Nat

Open == 0         \* valid_to is null; instants are positive

Row == [text : Texts, kv : Nat, from : Nat, to : Nat, current : BOOLEAN]
KnowledgeEvent == [entity : Entities, version : Nat, kv : Nat,
                   type : {"created", "updated", "superseded", "archived"}]

VARIABLES
  source,     \* [Entities -> Texts or Absent]: the meeting as stored
  edits,      \* how often it was changed
  chain,      \* [Entities -> Seq(Row)]: KnowledgeItem rows; the index is the version
  kvs,        \* Seq(Nat): KnowledgeVersion rows; item count of each
  events,     \* KnowledgeEvent rows
  indexing,   \* [Indexings -> where the call is, and its local variables]
  instant,    \* the clock read by timezone.now(): one instant per call
  views,      \* history: [at, seen] of every call that returned normally
  overlapped  \* history: two calls have been in progress at once

indexVars == <<source, edits, chain, kvs, events, indexing, instant, views, overlapped>>

Idle == [pc |-> "idle"]
Calls == {r \in Indexings : indexing[r].pc # "idle"}

\* The version of e's current row, 0 if it has none.
CurrentVersion(e) ==
  IF \E v \in DOMAIN chain[e] : chain[e][v].current
  THEN CHOOSE v \in DOMAIN chain[e] : chain[e][v].current
  ELSE 0

CurrentCount(ch) == Cardinality({e \in Entities : \E v \in DOMAIN ch[e] : ch[e][v].current})

IndexInit ==
  /\ source = [e \in Entities |-> CHOOSE t \in Texts : TRUE]
  /\ edits = 0
  /\ chain = [e \in Entities |-> <<>>]
  /\ kvs = <<>>
  /\ events = {}
  /\ indexing = [r \in Indexings |-> Idle]
  /\ instant = 0
  /\ views = {}
  /\ overlapped = FALSE

\* A user, or the meeting's next processing, changes, removes or brings back an
\* entity (tasks can be moved to another meeting and back, segments blanked).
Edit(e) ==
  /\ edits < MaxEdits
  /\ edits' = edits + 1
  /\ \E t \in (Texts \cup {Absent}) \ {source[e]} : source' = [source EXCEPT ![e] = t]
  /\ UNCHANGED <<chain, kvs, events, indexing, instant, views, overlapped>>

Collect(r) ==
  /\ indexing[r].pc = "idle"
  /\ instant < MaxIndexings
  /\ instant' = instant + 1
  /\ indexing' = [indexing EXCEPT ![r] = [pc |-> "collected", seen |-> source, now |-> instant + 1]]
  /\ overlapped' = (overlapped \/ Calls # {})
  /\ UNCHANGED <<source, edits, chain, kvs, events, views>>

\* What a call plans: the entities to write with the version they replace, and
\* the versions to archive.  An unchanged entity is in neither.
Plan(seen) ==
  {[entity |-> e, prev |-> CurrentVersion(e)] :
     e \in {x \in Entities : /\ seen[x] # Absent
                             /\ \/ CurrentVersion(x) = 0
                                \/ chain[x][CurrentVersion(x)].text # seen[x]}}
Archived(seen) ==
  {[entity |-> e, prev |-> CurrentVersion(e)] :
     e \in {x \in Entities : seen[x] = Absent /\ CurrentVersion(x) # 0}}

Diff(r) ==
  /\ indexing[r].pc = "collected"
  /\ LET c == indexing[r] IN
     IF Plan(c.seen) = {} /\ Archived(c.seen) = {}
     THEN /\ indexing' = [indexing EXCEPT ![r] = Idle]
          /\ views' = views \cup {[at |-> c.now, seen |-> c.seen]}
     ELSE /\ indexing' = [indexing EXCEPT ![r] =
               [pc |-> "planned", seen |-> c.seen, now |-> c.now,
                plan |-> Plan(c.seen), archived |-> Archived(c.seen)]]
          /\ UNCHANGED views
  /\ UNCHANGED <<source, edits, chain, kvs, events, instant, overlapped>>

\* The embedding provider raises: nothing has been written.
EmbedFails(r) ==
  /\ indexing[r].pc = "planned"
  /\ indexing' = [indexing EXCEPT ![r] = Idle]
  /\ UNCHANGED <<source, edits, chain, kvs, events, instant, views, overlapped>>

\* The transaction begins: bump_knowledge_version reads the largest number.
\* select_for_update has no effect on an aggregate, so nothing is locked.
Bump(r) ==
  /\ indexing[r].pc = "planned"
  /\ indexing' = [indexing EXCEPT ![r] =
        [pc |-> "writing", seen |-> @.seen, now |-> @.now, plan |-> @.plan,
         archived |-> @.archived, number |-> Len(kvs) + 1, count |-> CurrentCount(chain)]]
  /\ UNCHANGED <<source, edits, chain, kvs, events, instant, views, overlapped>>

\* uniq_knowledge_version and uniq_knowledge_entity_version.
Conflict(c) == Len(kvs) >= c.number \/ \E p \in c.plan : p.prev + 1 \in DOMAIN chain[p.entity]

\* Mutant: what is closed stays valid.
CloseFlagOnly(rows, v, now) == IF v = 0 THEN rows ELSE [rows EXCEPT ![v].current = FALSE]

Close(rows, v, now) ==
  IF v = 0 THEN rows ELSE [rows EXCEPT ![v].current = FALSE, ![v].to = now]
Written(c) ==
  [e \in Entities |->
     IF \E p \in c.plan : p.entity = e
     THEN LET p == CHOOSE p \in c.plan : p.entity = e
          IN Append(Close(chain[e], p.prev, c.now),
                    [text |-> c.seen[e], kv |-> c.number, from |-> c.now, to |-> Open,
                     current |-> TRUE])
     ELSE IF \E p \in c.archived : p.entity = e
     THEN Close(chain[e], (CHOOSE p \in c.archived : p.entity = e).prev, c.now)
     ELSE chain[e]]

EventOf(e, v, kv, type) == [entity |-> e, version |-> v, kv |-> kv, type |-> type]
\* Mutant: a replaced version gets no event of its own.
EmittedForNewOnly(c) ==
     {EventOf(p.entity, p.prev + 1, c.number, IF p.prev = 0 THEN "created" ELSE "updated") :
        p \in c.plan}
  \cup {EventOf(p.entity, p.prev, c.number, "archived") : p \in c.archived}
Emitted(c) ==
     {EventOf(p.entity, p.prev + 1, c.number, IF p.prev = 0 THEN "created" ELSE "updated") :
        p \in c.plan}
  \cup {EventOf(p.entity, p.prev, c.number, "superseded") : p \in {q \in c.plan : q.prev # 0}}
  \cup {EventOf(p.entity, p.prev, c.number, "archived") : p \in c.archived}

\* The transaction commits everything the call wrote, or nothing of it.
Write(r) ==
  /\ indexing[r].pc = "writing"
  /\ LET c == indexing[r] IN
     IF Conflict(c)
     THEN /\ indexing' = [indexing EXCEPT ![r] = Idle]
          /\ UNCHANGED <<chain, kvs, events, views>>
     ELSE /\ chain' = Written(c)
          /\ kvs' = Append(kvs, c.count)
          /\ events' = events \cup Emitted(c)
          /\ indexing' = [indexing EXCEPT ![r] = [pc |-> "committed", number |-> c.number]]
          /\ views' = views \cup {[at |-> c.now, seen |-> c.seen]}
  /\ UNCHANGED <<source, edits, instant, overlapped>>

\* Mutant: the counts taken when the number was drawn are kept.
RefreshNothing(r) ==
  /\ indexing[r].pc = "committed"
  /\ indexing' = [indexing EXCEPT ![r] = Idle]
  /\ UNCHANGED <<source, edits, chain, kvs, events, instant, views, overlapped>>

\* refresh_counts, in a transaction of its own.
RefreshCounts(r) ==
  /\ indexing[r].pc = "committed"
  /\ kvs' = [kvs EXCEPT ![indexing[r].number] = CurrentCount(chain)]
  /\ indexing' = [indexing EXCEPT ![r] = Idle]
  /\ UNCHANGED <<source, edits, chain, events, instant, views, overlapped>>

IndexStep ==
  \E r \in Indexings :
    Collect(r) \/ Diff(r) \/ EmbedFails(r) \/ Bump(r) \/ Write(r) \/ RefreshCounts(r)

IndexNext == (\E e \in Entities : Edit(e)) \/ IndexStep

IndexSpec == IndexInit /\ [][IndexNext]_indexVars

-----------------------------------------------------------------------------
IndexTypeOK ==
  /\ source \in [Entities -> Texts \cup {Absent}]
  /\ edits \in Nat
  /\ chain \in [Entities -> Seq(Row)]
  /\ kvs \in Seq(Nat)
  /\ events \subseteq KnowledgeEvent
  /\ \A r \in Indexings :
       indexing[r].pc \in {"idle", "collected", "planned", "writing", "committed"}
  /\ instant \in Nat
  /\ overlapped \in BOOLEAN

Births(e, v) == {ev \in events : ev.entity = e /\ ev.version = v /\ ev.type \in {"created", "updated"}}
Ends(e, v) == {ev \in events : ev.entity = e /\ ev.version = v /\ ev.type \in {"superseded", "archived"}}

\* The chain and the audit stream tell the same story, whatever overlaps: a
\* version was created under the knowledge version it carries and under no other,
\* later versions of an entity carry later ones, a version is current exactly when
\* no event has ended it, and then it is the newest.
IndexAudit ==
  \A e \in Entities : \A v \in DOMAIN chain[e] :
    /\ chain[e][v].kv \in 1..Len(kvs)
    /\ v > 1 => chain[e][v - 1].kv < chain[e][v].kv
    /\ Births(e, v) = {EventOf(e, v, chain[e][v].kv, IF v = 1 THEN "created" ELSE "updated")}
    /\ chain[e][v].current <=> Ends(e, v) = {}
    /\ chain[e][v].current => v = Len(chain[e])

\* KnowledgeItemQuerySet.as_of.
AsOf(e, when) ==
  {v \in DOMAIN chain[e] : /\ chain[e][v].from <= when
                           /\ chain[e][v].to = Open \/ chain[e][v].to > when}

\* Time travel: as long as no two calls overlapped, asking for the instant of an
\* indexing answers, for ever after, with the meeting it read: one version of
\* every entity it had, saying what it said then, and none of any other.
TimeTravel ==
  ~overlapped =>
    \A w \in views : \A e \in Entities :
      {chain[e][v].text : v \in AsOf(e, w.at)} = {w.seen[e]} \ {Absent}
      /\ Cardinality(AsOf(e, w.at)) <= 1

\* The item count of the newest knowledge version is what is current, once
\* nobody is between its commit and its refresh.
CountsSettle ==
  (kvs # <<>> /\ \A r \in Indexings : indexing[r].pc # "committed") =>
     kvs[Len(kvs)] = CurrentCount(chain)

=============================================================================
