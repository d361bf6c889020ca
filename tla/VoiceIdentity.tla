--------------------------- MODULE VoiceIdentity ---------------------------
(* Voice identities across meetings (workspace/services/voice_identity.py,
   VoicePersonViewSet): speakers of meetings are linked to the identities of one
   owner, and an identity's row carries a profile (signature, counts, last seen)
   computed from the speakers linked to it.

   Every operation is a request: it reads the rows it names, works on those
   objects, and commits when it ends.  recompute saves the whole row, so whatever
   else the row held when it was read is written back.  Merging the speakers of a
   meeting, storing its transcript anew and re-diarizing it delete speakers, linked
   or not, and recompute nothing. *)
EXTENDS Naturals, FiniteSets

CONSTANTS
  Speakers,       \* speakers of the owner's meetings, with their embeddings
  People,         \* identities that can come to be
  VoiceUsers,     \* requests of the owner
  MaxVoiceOps     \* bound on the requests

ASSUME VoiceAssumption == MaxVoiceOps \in Nat /\ "nobody" \notin People

NoPerson == [state |-> "none", confirmed |-> FALSE, profile |-> {}]
Waiting == [pc |-> "idle"]

VARIABLES
  voice,       \* [Speakers -> identity or "nobody"]: Speaker.voice_person
  gone,        \* the speakers that are deleted
  person,      \* [People -> row]; profile: the speakers it was computed from
  request,     \* [VoiceUsers -> the operation and the rows it has read]
  voiceOps,
  met,         \* history: the requests under way that met another, or a deletion
  stale        \* history: the identities nothing has recomputed since, see below

voiceVars == <<voice, gone, person, request, voiceOps, met, stale>>

VoiceInit ==
  /\ voice = [s \in Speakers |-> "nobody"]
  /\ gone = {}
  /\ person = [p \in People |-> NoPerson]
  /\ request = [u \in VoiceUsers |-> Waiting]
  /\ voiceOps = 0
  /\ met = {}
  /\ stale = {}

Live == {p \in People : person[p].state = "live"}
Busy == {u \in VoiceUsers : request[u].pc # "idle"}
Linked(v, p) == {s \in Speakers : v[s] = p}

\* The requests that find what they name; a new identity takes an unused one.
Operations ==
       {[op |-> "create", to |-> p, from |-> "nobody", ids |-> {s}] :
          p \in {q \in People : person[q].state = "none"}, s \in Speakers \ gone}
  \cup {[op |-> "link", to |-> p, from |-> "nobody", ids |-> {s}] :
          p \in Live, s \in Speakers \ gone}
  \cup {[op |-> "unlink", to |-> voice[s], from |-> "nobody", ids |-> {s}] :
          s \in {q \in Speakers : voice[q] # "nobody"}}
  \cup {[op |-> "merge", to |-> p, from |-> q, ids |-> {}] : p \in Live, q \in Live}
  \cup {[op |-> "split", to |-> p, from |-> q, ids |-> ids] :
          p \in {r \in People : person[r].state = "none"}, q \in Live, ids \in SUBSET Speakers}
  \cup {[op |-> o, to |-> p, from |-> "nobody", ids |-> {}] : o \in {"confirm", "destroy"}, p \in Live}

\* get_object and _speaker: the objects the request will work on.
ReadRows(u) ==
  /\ request[u].pc = "idle"
  /\ voiceOps < MaxVoiceOps
  /\ \E o \in Operations :
       /\ o.op \in {"create", "split"} => o.to \notin {request[v].o.to : v \in Busy}
       /\ request' = [request EXCEPT ![u] = [pc |-> "read", o |-> o, rows |-> person]]
  /\ voiceOps' = voiceOps + 1
  /\ met' = IF Busy = {} THEN met ELSE met \cup Busy \cup {u}
  /\ UNCHANGED <<voice, gone, person, stale>>

\* The links after the request's own writes: split takes those that are still
\* linked to the identity, merge all that are linked to the source.
Relinked(o) ==
  CASE o.op \in {"create", "link"} -> [s \in Speakers |-> IF s \in o.ids THEN o.to ELSE voice[s]]
    [] o.op = "unlink" -> [s \in Speakers |-> IF s \in o.ids THEN "nobody" ELSE voice[s]]
    [] o.op = "merge" /\ o.to # o.from -> [s \in Speakers |-> IF voice[s] = o.from THEN o.to ELSE voice[s]]
    [] o.op = "split" -> [s \in Speakers |-> IF s \in o.ids /\ voice[s] = o.from THEN o.to ELSE voice[s]]
    [] OTHER -> voice

\* Mutant: the identity that is split keeps its profile.
RecomputedTarget(o) ==
  CASE o.op \in {"create", "link", "unlink"} -> {o.to}
    [] o.op = "merge" /\ o.to # o.from -> {o.to}
    [] o.op = "split" -> {o.to}
    [] OTHER -> {}

\* The identities recompute is called for.  A speaker linked elsewhere leaves its
\* former identity as it is.
Recomputed(o) ==
  CASE o.op \in {"create", "link", "unlink"} -> {o.to}
    [] o.op = "merge" /\ o.to # o.from -> {o.to}
    [] o.op = "split" -> {o.to, o.from}
    [] OTHER -> {}

\* The speakers whose rows a request writes: until it ends they are locked.
Rewrites(o) ==
  IF o.op \in {"create", "link", "unlink"} THEN o.ids
  ELSE {s \in Speakers : Relinked(o)[s] # voice[s]}

Unlocked(ids) == \A u \in VoiceUsers : request[u].pc = "computed" => ids \cap request[u].writes = {}

\* The request's statements up to its commit: recompute counts the links that are
\* committed by now, and its own.
Compute(u) ==
  /\ request[u].pc = "read"
  /\ LET o == request[u].o
         v == Relinked(o)
         rows == IF o.op = "unlink" THEN person ELSE request[u].rows
         new == {p \in {o.to} : o.op \in {"create", "split"}}
     IN /\ o.op = "split" => Rewrites(o) # {}
        /\ Rewrites(o) \cap gone = {}
        /\ Unlocked(Rewrites(o))
        /\ request' = [request EXCEPT ![u] =
              [pc |-> "computed", o |-> o, writes |-> Rewrites(o),
               links |-> {s \in Speakers : v[s] # voice[s]},
               rows |-> [p \in Recomputed(o) |->
                           [state |-> IF p \in new THEN "live" ELSE rows[p].state,
                            confirmed |-> rows[p].confirmed \/ p \in new,
                            profile |-> Linked(v, p)]]]]
  /\ UNCHANGED <<voice, gone, person, voiceOps, met, stale>>

\* A split that finds no speaker is refused, and saving a speaker that is deleted
\* meanwhile fails: the transaction is rolled back.
RefuseVoice(u) ==
  /\ request[u].pc = "read"
  /\ LET o == request[u].o IN
     \/ o.op = "split" /\ Rewrites(o) = {}
     \/ Rewrites(o) \cap gone # {}
  /\ request' = [request EXCEPT ![u] = Waiting]
  /\ met' = met \ {u}
  /\ UNCHANGED <<voice, gone, person, voiceOps, stale>>

\* What the commit leaves in the row of p: the saved object, or single fields.
Saved(r, p) ==
  IF p \in DOMAIN r.rows THEN r.rows[p]
  ELSE IF r.o.op = "merge" /\ p = r.o.from /\ p # r.o.to THEN [person[p] EXCEPT !.state = "deleted"]
  ELSE IF r.o.op = "destroy" /\ p = r.o.to THEN [person[p] EXCEPT !.state = "deleted"]
  ELSE IF r.o.op = "confirm" /\ p = r.o.to THEN [person[p] EXCEPT !.confirmed = TRUE]
  ELSE person[p]

LinkOf(o) == IF o.op = "unlink" THEN "nobody" ELSE o.to

\* The identities that speakers are moved away from without a word to them.
LeftBehind(r) ==
  IF r.o.op \in {"create", "link"} THEN {voice[s] : s \in r.links} \ {"nobody"} ELSE {}

\* For the property.  A request that met nobody leaves what it recomputed right, and
\* behind it the identities it took a speaker from or deleted; one that met another
\* may leave anything wrong that it has touched.
StaleAfter(u) ==
  LET r == request[u]
      touched == DOMAIN r.rows \cup {r.o.to, r.o.from} \cup {voice[s] : s \in r.links}
  IN IF u \in met THEN stale \cup (touched \ {"nobody"})
     ELSE (stale \ (DOMAIN r.rows \cap Live)) \cup LeftBehind(r)
            \cup {p \in {r.o.to} : r.o.op = "destroy"}

CommitVoice(u) ==
  /\ request[u].pc = "computed"
  /\ LET r == request[u] IN
     /\ voice' = [s \in Speakers |-> IF s \in r.links THEN LinkOf(r.o) ELSE voice[s]]
     /\ person' = [p \in People |-> Saved(r, p)]
  /\ stale' = StaleAfter(u)
  /\ met' = met \ {u}
  /\ request' = [request EXCEPT ![u] = Waiting]
  /\ UNCHANGED <<gone, voiceOps>>

\* merge_speakers, store_transcript and rediarize delete speakers with their links;
\* the identities they were linked to learn nothing.
DeleteSpeakers(ids) ==
  /\ ids # {}
  /\ ids \cap gone = {}
  /\ Unlocked(ids)
  /\ gone' = gone \cup ids
  /\ voice' = [s \in Speakers |-> IF s \in ids THEN "nobody" ELSE voice[s]]
  /\ met' = met \cup Busy
  /\ stale' = stale \cup ({voice[s] : s \in ids} \ {"nobody"})
  /\ UNCHANGED <<person, request, voiceOps>>

VoiceNext ==
  \/ \E u \in VoiceUsers : ReadRows(u) \/ Compute(u) \/ RefuseVoice(u) \/ CommitVoice(u)
  \/ \E ids \in SUBSET Speakers : DeleteSpeakers(ids)

VoiceSpec == VoiceInit /\ [][VoiceNext]_voiceVars

-----------------------------------------------------------------------------
\* An identity's profile is that of the speakers linked to it, and speakers are
\* linked to identities that exist, whatever requests and deletions of speakers have
\* overlapped: except those a speaker was moved or deleted from, those a user
\* deleted and those touched by requests that overlapped, until a request that meets
\* no other recomputes them.
ProfilesFollowLinks ==
  /\ \A p \in Live \ stale : person[p].profile = Linked(voice, p)
  /\ \A s \in Speakers : voice[s] # "nobody" => voice[s] \in Live \cup stale

=============================================================================
