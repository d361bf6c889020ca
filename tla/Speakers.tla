------------------------------ MODULE Speakers ------------------------------
(* The transcript of one meeting and its speakers (services/speakers.py,
   transcripts.py, rediarize.py, speaker_naming.py, the store_transcript stage):
   segments are edited and restored, speakers renamed, named by the model, merged
   and found anew, while the pipeline may replace all of it.

   A request reads its rows, decides on them, and writes them in one transaction
   (ATOMIC_REQUESTS).  Only a merge is split there: the segments it has moved are
   locked until it commits, and it deletes its source by another statement. *)
EXTENDS Naturals, FiniteSets

CONSTANTS
  Places,       \* positions in the transcript
  SpeakerRows,  \* Speaker rows that can be made; a row's own name is its label
  Names,        \* names given by the user or the model
  Typings,      \* what users type
  Edits,        \* requests that can be under way at the same time
  Machine,      \* what the machine heard
  Nobody,       \* no speaker, no name, no text
  MaxStores     \* bound: how often the pipeline stores the transcript anew

ASSUME SpeakersAssumption ==
  /\ Nobody \notin SpeakerRows \cup Names \cup Typings \cup {Machine}
  /\ SpeakerRows \cap Names = {}
  /\ IsFiniteSet(Places)
  /\ MaxStores \in Nat

VARIABLES
  segment,     \* [Places -> TranscriptSegment row; "label" is its string "speaker"]
  speaker,     \* [SpeakerRows -> Speaker row]
  unused,      \* Speaker rows not made yet
  storings,    \* how often the pipeline has stored a transcript anew
  pending,     \* [Edits -> what it has read and is about to write]
  typed,       \* history: segments whose label a user typed
  overlapping  \* history: two requests were under way at once since the last store

speakersVars == <<segment, speaker, unused, storings, pending, typed, overlapping>>

NoEdit == [kind |-> "idle", target |-> Nobody, source |-> Nobody, name |-> Nobody,
              rows |-> [g \in {} |-> Nobody], of |-> 0]
NoSpeaker == [live |-> FALSE, name |-> Nobody, count |-> 0]

\* Speaker.name: the display name, or else the label.
Name(s) == IF speaker[s].name = Nobody THEN s ELSE speaker[s].name

Present == {s \in SpeakerRows : speaker[s].live}
UnderWay == {r \in Edits : pending[r].kind # "idle"}
Of(s) == {g \in Places : segment[g].ref = s}
LockedBut(r) ==
  UNION {DOMAIN pending[q].rows : q \in {x \in UnderWay \ {r} : pending[x].kind = "moved"}}

\* store_transcript and rediarize_meeting: a Speaker row for each voice that was
\* heard, with the segments it was heard in.
RowsFor(voice) ==
  [s \in SpeakerRows |->
     IF \E g \in Places : voice[g] = s
     THEN [NoSpeaker EXCEPT !.live = TRUE, !.count = Cardinality({g \in Places : voice[g] = s})]
     ELSE NoSpeaker]

HeardIn(voice) == {voice[g] : g \in Places} \ {Nobody}

SpeakersInit ==
  \E voice \in [Places -> SpeakerRows \cup {Nobody}] :
    /\ speaker = RowsFor(voice)
    /\ unused = SpeakerRows \ HeardIn(voice)
    /\ segment = [g \in Places |->
                    [ref |-> voice[g], label |-> voice[g], text |-> Machine,
                     original |-> Nobody, edited |-> FALSE]]
    /\ storings = 0
    /\ pending = [r \in Edits |-> NoEdit]
    /\ typed = {}
    /\ overlapping = FALSE

Begin(r, what) ==
  /\ pending[r].kind = "idle"
  /\ pending' = [pending EXCEPT ![r] = [what EXCEPT !.of = storings]]
  /\ overlapping' = (overlapping \/ UnderWay # {})
  /\ UNCHANGED <<segment, speaker, unused, storings, typed>>

Over(r) == pending' = [pending EXCEPT ![r] = NoEdit]

\* edit_speaker; or accept_speaker_suggestion, with the name that the model has
\* suggested and the request has read.
ReadForRename(r, s, name) ==
  /\ s \in Present
  /\ Begin(r, [NoEdit EXCEPT !.kind = "rename", !.target = s, !.name = name])

\* _cascade_label: the segments that are the speaker's when the statement runs.
SaveRename(r) ==
  LET s == pending[r].target
      name == pending[r].name
  IN /\ pending[r].kind = "rename"
     /\ s \in Present
     /\ Of(s) \cap LockedBut(r) = {}
     /\ speaker' = [speaker EXCEPT ![s].name = name]
     /\ segment' = [g \in Places |->
                      IF g \in Of(s) THEN [segment[g] EXCEPT !.label = name] ELSE segment[g]]
     /\ typed' = typed \ Of(s)
     /\ Over(r)
     /\ UNCHANGED <<unused, storings, overlapping>>

ReadForMerge(r, target, source) ==
  /\ target \in Present /\ source \in Present /\ target # source
  /\ Begin(r, [NoEdit EXCEPT !.kind = "merge", !.target = target, !.source = source,
                           !.name = Name(target)])

\* merge_speakers: the UPDATE of the source's segments ...
MoveSegments(r) ==
  /\ pending[r].kind = "merge"
  /\ Of(pending[r].source) \cap LockedBut(r) = {}
  /\ pending' = [pending EXCEPT ![r].kind = "moved",
                                ![r].rows = [g \in Of(pending[r].source) |-> segment[g]]]
  /\ UNCHANGED <<segment, speaker, unused, storings, typed, overlapping>>

\* Mutant: the target's segments are counted as they were before the move.
CountedBefore(r) == Cardinality(Of(pending[r].target))

\* ... the target's numbers, from its segments and those just moved ...
Counted(r) == Cardinality(Of(pending[r].target) \cup DOMAIN pending[r].rows)

\* ... and the deletion of the source, whose segments (SET_NULL) have no speaker.
FinishMerge(r) ==
  LET target == pending[r].target
      source == pending[r].source
      moved == DOMAIN pending[r].rows
  IN /\ pending[r].kind = "moved"
     /\ target \in Present
     /\ (Of(source) \ moved) \cap LockedBut(r) = {}
     /\ segment' = [g \in Places |->
                      IF g \in moved
                      THEN [segment[g] EXCEPT !.ref = target, !.label = pending[r].name]
                      ELSE IF g \in Of(source) THEN [segment[g] EXCEPT !.ref = Nobody] ELSE segment[g]]
     /\ speaker' = [speaker EXCEPT ![target].count = Counted(r), ![source] = NoSpeaker]
     /\ typed' = typed \ moved
     /\ Over(r)
     /\ UNCHANGED <<unused, storings, overlapping>>

\* Mutant: what the segment said before is kept, whoever wrote it.
KeptLast(row) == row.text

\* edit_segment: the first edit keeps the machine's text.
Kept(row) == IF row.original = Nobody THEN row.text ELSE row.original

\* The string "speaker" is saved with the rest, as it was read if none was typed.
ReadForEdit(r, g, text, label) ==
  Begin(r, [NoEdit EXCEPT !.kind = "edit", !.name = label,
                        !.rows = [h \in {g} |-> [segment[h] EXCEPT
                                    !.text = text, !.original = Kept(segment[h]), !.edited = TRUE,
                                    !.label = IF label = Nobody THEN @ ELSE label]]])

\* restore_segment, of the edited ones among those read.
Restored(row) == [row EXCEPT !.text = row.original, !.original = Nobody, !.edited = FALSE]

ReadForRestore(r, gs) ==
  Begin(r, [NoEdit EXCEPT !.kind = "restore",
                        !.rows = [g \in {h \in gs : segment[h].edited /\ segment[h].original # Nobody}
                                    |-> Restored(segment[g])]])

\* A row the pipeline has replaced in the meantime refuses the save.
SaveSegments(r) ==
  LET rows == pending[r].rows
      new(g) == [segment[g] EXCEPT !.text = rows[g].text, !.original = rows[g].original,
                                   !.edited = rows[g].edited,
                                   !.label = IF pending[r].kind = "edit" THEN rows[g].label ELSE @]
  IN /\ pending[r].kind \in {"edit", "restore"}
     /\ DOMAIN rows # {} => pending[r].of = storings
     /\ DOMAIN rows \cap LockedBut(r) = {}
     /\ segment' = [g \in Places |-> IF g \in DOMAIN rows THEN new(g) ELSE segment[g]]
     /\ typed' = IF pending[r].name # Nobody THEN typed \cup DOMAIN rows ELSE typed
     /\ Over(r)
     /\ UNCHANGED <<speaker, unused, storings, overlapping>>

\* rediarize_meeting reads the segments, and then the provider hears the voices.
ReadForDiarization(r) == Begin(r, [NoEdit EXCEPT !.kind = "diarize"])

\* The segments it read get their new speakers, unless they are no longer there;
\* one without a voice keeps its label.
SaveDiarization(r, voice) ==
  /\ pending[r].kind = "diarize"
  /\ LockedBut(r) = {}
  /\ HeardIn(voice) \subseteq unused
  /\ speaker' = RowsFor(voice)
  /\ unused' = unused \ HeardIn(voice)
  /\ segment' = [g \in Places |->
                   IF pending[r].of # storings THEN [segment[g] EXCEPT !.ref = Nobody]
                   ELSE IF voice[g] = Nobody THEN [segment[g] EXCEPT !.ref = Nobody]
                   ELSE [segment[g] EXCEPT !.ref = voice[g], !.label = voice[g]]]
  /\ typed' = IF pending[r].of # storings THEN typed ELSE {g \in typed : voice[g] = Nobody}
  /\ Over(r)
  /\ UNCHANGED <<storings, overlapping>>

\* store_transcript: other rows for segments, transcript and speakers.
StoreAnew(voice) ==
  /\ storings < MaxStores
  /\ LockedBut(Nobody) = {}
  /\ HeardIn(voice) # {} /\ HeardIn(voice) \subseteq unused
  /\ speaker' = RowsFor(voice)
  /\ unused' = unused \ HeardIn(voice)
  /\ segment' = [g \in Places |-> [ref |-> voice[g], label |-> voice[g], text |-> Machine,
                                     original |-> Nobody, edited |-> FALSE]]
  /\ storings' = storings + 1
  /\ typed' = {}
  /\ overlapping' = (UnderWay # {})
  /\ UNCHANGED pending

\* A row that is gone, a deadlock, an error of the provider: all is rolled back.
RequestFails(r) ==
  /\ pending[r].kind # "idle"
  /\ Over(r)
  /\ UNCHANGED <<segment, speaker, unused, storings, typed, overlapping>>

SpeakersNext ==
  \/ \E r \in Edits :
       \/ \E s \in SpeakerRows :
            \/ \E name \in Names : ReadForRename(r, s, name)
            \/ \E source \in SpeakerRows : ReadForMerge(r, s, source)
       \/ SaveRename(r) \/ MoveSegments(r) \/ FinishMerge(r)
       \/ \E g \in Places :
            \/ \E text \in Typings, label \in Names \cup {Nobody} : ReadForEdit(r, g, text, label)
            \/ ReadForRestore(r, {g})
       \/ ReadForRestore(r, Places)
       \/ SaveSegments(r)
       \/ ReadForDiarization(r)
       \/ \E voice \in [Places -> SpeakerRows \cup {Nobody}] : SaveDiarization(r, voice)
       \/ RequestFails(r)
  \/ \E voice \in [Places -> SpeakerRows \cup {Nobody}] : StoreAnew(voice)

SpeakersSpec == SpeakersInit /\ [][SpeakersNext]_speakersVars

(* Type invariant. *)
SpeakersTypeOK ==
  LET Row == [ref : SpeakerRows \cup {Nobody}, label : SpeakerRows \cup Names \cup {Nobody},
              text : Typings \cup {Machine}, original : Typings \cup {Machine, Nobody}, edited : BOOLEAN]
  IN /\ segment \in [Places -> Row]
     /\ speaker \in [SpeakerRows -> [live : BOOLEAN, name : Names \cup {Nobody},
                                  count : 0..Cardinality(Places)]]
     /\ unused \subseteq SpeakerRows
     /\ storings \in 0..MaxStores
     /\ typed \subseteq Places
     /\ overlapping \in BOOLEAN
     /\ \A r \in Edits : /\ DOMAIN pending[r].rows \subseteq Places
                            /\ \A g \in DOMAIN pending[r].rows : pending[r].rows[g] \in Row

(* "Editing never destroys the machine transcription" (transcripts.py): whatever
   edits, restores and replacements of the transcript overlap, a segment that
   counts as edited keeps the machine's text for restore, and one that does not
   shows it. *)
MachineTextKept ==
  \A g \in Places : Machine = IF segment[g].edited THEN segment[g].original ELSE segment[g].text

(* The string on a segment and the numbers on a speaker are copies ("resyncs this
   string across all segments", models.py; merge_speakers recomputes): as long as
   no two requests overlapping, a segment shows the name of a speaker that is
   there, or what a user typed, and a speaker counts the segments it has. *)
SpeakersAgree ==
  UnderWay = {} /\ ~overlapping =>
    /\ \A g \in Places : segment[g].ref # Nobody =>
         /\ segment[g].ref \in Present
         /\ g \in typed \/ segment[g].label = Name(segment[g].ref)
    /\ \A s \in Present : speaker[s].count = Cardinality(Of(s))
=============================================================================
