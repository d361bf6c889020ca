--------------------------- MODULE WorkspaceProofs ---------------------------
(***************************************************************************)
(* The workspace's requests, jobs and threads: transcripts and speakers,   *)
(* benchmark recordings, the demo reset, the agents' plans, reports and    *)
(* suggestions.                                                            *)
(*                                                                         *)
(* MachineTextKept.  A row keeps the machine's text, and so does every row *)
(* that a request is about to write, however long ago it was read.         *)
(*                                                                         *)
(* SpeakersAgree.  Until two requests overlap one is under way at most, so *)
(* what it read is still so when it writes (ReadNow); a write then leaves  *)
(* names, labels and counts in agreement (Agreed).                         *)
(*                                                                         *)
(* RecordingFollowsMeeting.  A recording that was made of one session      *)
(* (plain) waits for one meeting; where no two of its jobs ended together, *)
(* the one event there may be is that of the last job (EventRight).        *)
(*                                                                         *)
(* ResetLeavesNoTrace.  A reset that crossed no other has the process to   *)
(* itself (InItsMode) and remembers it as it was (PutBack).                *)
(*                                                                         *)
(* PlanIsWhole and HeldRunsNothing.  A plan's row, its futures and its     *)
(* threads are touched by the actions of that plan alone, but for an       *)
(* approval and a restart: the invariant is a conjunction over the plans   *)
(* (PlanInv), kept for the others by Others.  A plan that merges, saves or *)
(* is over has no thread at work (Waited), so what its answer was built    *)
(* from does not change any more (Answer).                                 *)
(*                                                                         *)
(* AloneHeals.  A request that met no other one is alone in flight, and    *)
(* once it has looked it holds every report that is still shown            *)
(* (AloneIsRight).                                                         *)
(*                                                                         *)
(* SuggestedOnce and ApprovalIsTraced.  A materialization that crossed no  *)
(* other one holds nothing that has been suggested (Uncrossed); what a     *)
(* review read of a suggestion that is not contested is still so when it   *)
(* commits (StillSo), so an approval that finds it open makes its first    *)
(* record (SingleRecord).                                                  *)
(***************************************************************************)
EXTENDS AgentPlanner, Benchmarks, Demo, Reports, Speakers, Suggestions,
        SequenceTheorems, FiniteSetTheorems, WellFoundedInduction, TLAPS

-----------------------------------------------------------------------------
\* The fields of the rows and of a request.
SegmentShape(row) == DOMAIN row = {"ref", "label", "text", "original", "edited"}

\* What a request remembers of what it read.
RequestShape(x) == DOMAIN x = {"kind", "target", "source", "name", "rows", "of"}

\* The machine's text is shown or kept, and only an edited segment keeps one.
KeepsText(row) ==
    IF row.edited THEN row.original = Machine ELSE row.original = Nobody /\ row.text = Machine

\* An edit or a restore that is about to write.
Saving(x) == x.kind \in {"edit", "restore"}

\* What a request is about to write keeps it too, however long ago it was read.
WritesKept(x) == Saving(x) => \A g \in DOMAIN x.rows : KeepsText(x.rows[g])

\* The text of every row, and of every row that is about to be written, is kept.
TextInv ==
    /\ DOMAIN segment = Places /\ DOMAIN pending = Edits
    /\ \A g \in Places : SegmentShape(segment[g]) /\ KeepsText(segment[g])
    /\ \A r \in Edits : RequestShape(pending[r]) /\ WritesKept(pending[r])

\* A request that is not under way writes nothing.
LEMMA NoEditIs ==
    /\ RequestShape(NoEdit) /\ WritesKept(NoEdit) /\ NoEdit.kind = "idle"
    /\ NoEdit.name = Nobody
BY DEF NoEdit, RequestShape, WritesKept, Saving

\* The first transcript is the machine's.
LEMMA TextInvInit == SpeakersInit => TextInv
<1> SUFFICES ASSUME SpeakersInit PROVE TextInv
    OBVIOUS
<1>1. /\ DOMAIN segment = Places
      /\ \A g \in Places : SegmentShape(segment[g]) /\ KeepsText(segment[g])
    BY DEF SpeakersInit, SegmentShape, KeepsText
<1>2. pending = [r \in Edits |-> NoEdit]
    BY DEF SpeakersInit
<1> QED
    BY <1>1, <1>2, NoEditIs DEF TextInv

\* A request begins or goes on; no row changes.
LEMMA RequestTextKept ==
    ASSUME TextInv, NEW r \in Edits, NEW x, pending' = [pending EXCEPT ![r] = x],
           RequestShape(x), WritesKept(x), UNCHANGED segment
    PROVE  TextInv'
<1>1. /\ DOMAIN pending' = Edits /\ pending'[r] = x
      /\ \A q \in Edits : q # r => pending'[q] = pending[q]
    BY DEF TextInv
<1>2. \A q \in Edits : RequestShape(pending'[q]) /\ WritesKept(pending'[q])
    BY <1>1 DEF TextInv
<1> QED
    BY <1>1, <1>2 DEF TextInv, RequestShape, WritesKept, Saving, SegmentShape, KeepsText

\* A request ends, having written rows that keep the text.
LEMMA WriteTextKept ==
    ASSUME TextInv, NEW r \in Edits, Over(r),
           DOMAIN segment' = Places,
           \A g \in Places : SegmentShape(segment'[g]) /\ KeepsText(segment'[g])
    PROVE  TextInv'
<1>1. /\ DOMAIN pending' = Edits /\ pending'[r] = NoEdit
      /\ \A q \in Edits : q # r => pending'[q] = pending[q]
    BY DEF TextInv, Over
<1>2. \A q \in Edits : RequestShape(pending'[q]) /\ WritesKept(pending'[q])
    BY <1>1, NoEditIs DEF TextInv
<1> QED
    BY <1>1, <1>2 DEF TextInv, RequestShape, WritesKept, Saving, SegmentShape, KeepsText

\* An edit reads rows that keep the text, and keeps the original of a first edit.
LEMMA ReadEditKept ==
    ASSUME TextInv, NEW r \in Edits, NEW g \in Places, NEW text, NEW label,
           ReadForEdit(r, g, text, label)
    PROVE  TextInv'
<1> DEFINE rows == [h \in {g} |-> [segment[h] EXCEPT
                      !.text = text, !.original = Kept(segment[h]), !.edited = TRUE,
                      !.label = IF label = Nobody THEN @ ELSE label]]
           x == [[NoEdit EXCEPT !.kind = "edit", !.name = label, !.rows = rows] EXCEPT !.of = storings]
<1>1. pending' = [pending EXCEPT ![r] = x] /\ UNCHANGED segment
    BY DEF ReadForEdit, Begin
<1>2. ASSUME NEW h \in DOMAIN rows PROVE KeepsText(rows[h])
    <2>1. KeepsText(segment[h]) /\ SegmentShape(segment[h]) /\ Machine # Nobody
        BY SpeakersAssumption DEF TextInv
    <2>2. Kept(segment[h]) = Machine
        BY <2>1 DEF Kept, KeepsText
    <2> QED
        BY <2>1, <2>2 DEF SegmentShape, KeepsText
<1> HIDE DEF rows
<1>3. RequestShape(x) /\ x.rows = rows
    BY DEF NoEdit, RequestShape
<1>4. WritesKept(x)
    BY <1>2, <1>3 DEF WritesKept
<1> HIDE DEF x
<1> QED
    BY <1>1, <1>3, <1>4, RequestTextKept

\* A restore puts the original back.
LEMMA ReadRestoreKept ==
    ASSUME TextInv, NEW r \in Edits, NEW gs \in SUBSET Places, ReadForRestore(r, gs)
    PROVE  TextInv'
<1> DEFINE rows == [g \in {h \in gs : segment[h].edited /\ segment[h].original # Nobody}
                      |-> Restored(segment[g])]
           x == [[NoEdit EXCEPT !.kind = "restore", !.rows = rows] EXCEPT !.of = storings]
<1>1. pending' = [pending EXCEPT ![r] = x] /\ UNCHANGED segment
    BY DEF ReadForRestore, Begin
<1>2. ASSUME NEW g \in DOMAIN rows PROVE KeepsText(rows[g])
    <2>1. segment[g].edited /\ KeepsText(segment[g]) /\ SegmentShape(segment[g])
        BY DEF TextInv
    <2> QED
        BY <2>1 DEF KeepsText, Restored, SegmentShape
<1> HIDE DEF rows
<1>3. RequestShape(x) /\ x.rows = rows
    BY DEF NoEdit, RequestShape
<1>4. WritesKept(x)
    BY <1>2, <1>3 DEF WritesKept
<1> HIDE DEF x
<1> QED
    BY <1>1, <1>3, <1>4, RequestTextKept

\* What is saved was right when it was read, and the machine's text never changes.
LEMMA SaveTextKept ==
    ASSUME TextInv, NEW r \in Edits, SaveSegments(r)
    PROVE  TextInv'
<1> DEFINE rows == pending[r].rows
           new(g) == [segment[g] EXCEPT !.text = rows[g].text, !.original = rows[g].original,
                                        !.edited = rows[g].edited,
                                        !.label = IF pending[r].kind = "edit" THEN rows[g].label ELSE @]
<1>1. /\ Over(r)
      /\ segment' = [g \in Places |-> IF g \in DOMAIN rows THEN new(g) ELSE segment[g]]
      /\ \A g \in DOMAIN rows : KeepsText(rows[g])
    BY DEF SaveSegments, TextInv, WritesKept, Saving
<1>2. ASSUME NEW g \in Places PROVE SegmentShape(segment'[g]) /\ KeepsText(segment'[g])
    <2>0. SegmentShape(segment[g]) /\ KeepsText(segment[g])
        BY DEF TextInv
    <2>1. CASE g \in DOMAIN rows
        <3>1. segment'[g] = new(g) /\ KeepsText(rows[g])
            BY <1>1, <2>1
        <3>2. /\ SegmentShape(new(g)) /\ new(g).text = rows[g].text
              /\ new(g).original = rows[g].original /\ new(g).edited = rows[g].edited
            BY <2>0 DEF SegmentShape
        <3> QED
            BY <3>1, <3>2 DEF KeepsText
    <2>2. CASE g \notin DOMAIN rows
        BY <1>1, <2>0, <2>2
    <2> QED
        BY <2>1, <2>2
<1> QED
    BY <1>1, <1>2, WriteTextKept

\* The requests and the stage that leave the text of segments alone, or renew it.
LEMMA OtherTextKept ==
    ASSUME TextInv, NEW r \in Edits,
           \/ \E s \in SpeakerRows, name \in Names : ReadForRename(r, s, name)
           \/ \E s, q \in SpeakerRows : ReadForMerge(r, s, q)
           \/ SaveRename(r) \/ MoveSegments(r) \/ FinishMerge(r) \/ ReadForDiarization(r)
           \/ \E voice \in [Places -> SpeakerRows \cup {Nobody}] : SaveDiarization(r, voice)
           \/ RequestFails(r)
    PROVE  TextInv'
<1>0. /\ DOMAIN segment = Places
      /\ \A g \in Places : SegmentShape(segment[g]) /\ KeepsText(segment[g])
      /\ RequestShape(pending[r])
    BY DEF TextInv
<1>1. ASSUME NEW s, NEW name, ReadForRename(r, s, name) PROVE TextInv'
    <2> DEFINE x == [[NoEdit EXCEPT !.kind = "rename", !.target = s, !.name = name] EXCEPT !.of = storings]
    <2>1. pending' = [pending EXCEPT ![r] = x] /\ UNCHANGED segment
        BY <1>1 DEF ReadForRename, Begin
    <2>2. RequestShape(x) /\ WritesKept(x)
        BY DEF NoEdit, RequestShape, WritesKept, Saving
    <2> HIDE DEF x
    <2> QED
        BY <2>1, <2>2, RequestTextKept
<1>2. ASSUME NEW s, NEW q, ReadForMerge(r, s, q) PROVE TextInv'
    <2> DEFINE x == [[NoEdit EXCEPT !.kind = "merge", !.target = s, !.source = q,
                                    !.name = Name(s)] EXCEPT !.of = storings]
    <2>1. pending' = [pending EXCEPT ![r] = x] /\ UNCHANGED segment
        BY <1>2 DEF ReadForMerge, Begin
    <2>2. RequestShape(x) /\ WritesKept(x)
        BY DEF NoEdit, RequestShape, WritesKept, Saving
    <2> HIDE DEF x
    <2> QED
        BY <2>1, <2>2, RequestTextKept
<1>3. CASE ReadForDiarization(r)
    <2> DEFINE x == [[NoEdit EXCEPT !.kind = "diarize"] EXCEPT !.of = storings]
    <2>1. pending' = [pending EXCEPT ![r] = x] /\ UNCHANGED segment
        BY <1>3 DEF ReadForDiarization, Begin
    <2>2. RequestShape(x) /\ WritesKept(x)
        BY DEF NoEdit, RequestShape, WritesKept, Saving
    <2> HIDE DEF x
    <2> QED
        BY <2>1, <2>2, RequestTextKept
<1>4. CASE MoveSegments(r)
    <2> DEFINE x == [pending[r] EXCEPT !.kind = "moved",
                                       !.rows = [g \in Of(pending[r].source) |-> segment[g]]]
    <2>1. pending' = [pending EXCEPT ![r] = x] /\ UNCHANGED segment
        BY <1>4 DEF MoveSegments, TextInv
    <2>2. RequestShape(x) /\ WritesKept(x)
        BY <1>0 DEF RequestShape, WritesKept, Saving
    <2> HIDE DEF x
    <2> QED
        BY <2>1, <2>2, RequestTextKept
<1>5. CASE RequestFails(r)
    <2>1. Over(r) /\ segment' = segment
        BY <1>5 DEF RequestFails
    <2> QED
        BY <1>0, <2>1, WriteTextKept
<1>6. CASE SaveRename(r)
    <2>1. /\ Over(r) /\ DOMAIN segment' = Places
          /\ \A g \in Places : \/ segment'[g] = [segment[g] EXCEPT !.label = pending[r].name]
                               \/ segment'[g] = segment[g]
        BY <1>6 DEF SaveRename
    <2>2. \A g \in Places : SegmentShape(segment'[g]) /\ KeepsText(segment'[g])
        <3> SUFFICES ASSUME NEW g \in Places
                     PROVE  SegmentShape(segment'[g]) /\ KeepsText(segment'[g])
            OBVIOUS
        <3>1. SegmentShape(segment[g]) /\ KeepsText(segment[g])
            BY <1>0
        <3> QED
            BY <2>1, <3>1 DEF SegmentShape, KeepsText
    <2> QED
        BY <2>1, <2>2, WriteTextKept
<1>7. CASE FinishMerge(r)
    <2>1. /\ Over(r) /\ DOMAIN segment' = Places
          /\ \A g \in Places :
                \/ segment'[g] = [segment[g] EXCEPT !.ref = pending[r].target, !.label = pending[r].name]
                \/ segment'[g] = [segment[g] EXCEPT !.ref = Nobody]
                \/ segment'[g] = segment[g]
        BY <1>7 DEF FinishMerge
    <2>2. \A g \in Places : SegmentShape(segment'[g]) /\ KeepsText(segment'[g])
        <3> SUFFICES ASSUME NEW g \in Places
                     PROVE  SegmentShape(segment'[g]) /\ KeepsText(segment'[g])
            OBVIOUS
        <3>1. SegmentShape(segment[g]) /\ KeepsText(segment[g])
            BY <1>0
        <3> QED
            BY <2>1, <3>1 DEF SegmentShape, KeepsText
    <2> QED
        BY <2>1, <2>2, WriteTextKept
<1>8. ASSUME NEW voice, SaveDiarization(r, voice) PROVE TextInv'
    <2>1. /\ Over(r) /\ DOMAIN segment' = Places
          /\ \A g \in Places :
                \/ segment'[g] = [segment[g] EXCEPT !.ref = Nobody]
                \/ segment'[g] = [segment[g] EXCEPT !.ref = voice[g], !.label = voice[g]]
        BY <1>8 DEF SaveDiarization
    <2>2. \A g \in Places : SegmentShape(segment'[g]) /\ KeepsText(segment'[g])
        <3> SUFFICES ASSUME NEW g \in Places
                     PROVE  SegmentShape(segment'[g]) /\ KeepsText(segment'[g])
            OBVIOUS
        <3>1. SegmentShape(segment[g]) /\ KeepsText(segment[g])
            BY <1>0
        <3> QED
            BY <2>1, <3>1 DEF SegmentShape, KeepsText
    <2> QED
        BY <2>1, <2>2, WriteTextKept
<1> QED
    BY <1>1, <1>2, <1>3, <1>4, <1>5, <1>6, <1>7, <1>8

\* Every step of a request, and of the job, keeps the text.
LEMMA TextInvNext == TextInv /\ [SpeakersNext]_speakersVars => TextInv'
<1> SUFFICES ASSUME TextInv, [SpeakersNext]_speakersVars PROVE TextInv'
    OBVIOUS
<1>1. CASE UNCHANGED speakersVars
    BY <1>1 DEF speakersVars, TextInv, RequestShape, WritesKept, Saving, SegmentShape, KeepsText
<1>2. ASSUME NEW voice, StoreAnew(voice) PROVE TextInv'
    <2>1. /\ DOMAIN segment' = Places
          /\ \A g \in Places : SegmentShape(segment'[g]) /\ KeepsText(segment'[g])
        BY <1>2 DEF StoreAnew, SegmentShape, KeepsText
    <2>2. pending' = pending
        BY <1>2 DEF StoreAnew
    <2> QED
        BY <2>1, <2>2 DEF TextInv, RequestShape, WritesKept, Saving, SegmentShape, KeepsText
<1>3. \A g \in Places : {g} \in SUBSET Places
    OBVIOUS
<1>4. Places \in SUBSET Places
    OBVIOUS
<1> QED
    BY <1>1, <1>2, <1>3, <1>4, ReadEditKept, ReadRestoreKept, SaveTextKept, OtherTextKept DEF SpeakersNext

\* Whatever requests edit, restore, merge and rename, and whatever transcript a job
\* stores meanwhile, the machine's text of a segment is shown or kept (edit_segment,
\* restore_segment in meetings/services/editing.py).
THEOREM MachineTextIsKept == SpeakersSpec => []MachineTextKept
<1>1. TextInv => MachineTextKept
    BY DEF TextInv, MachineTextKept, KeepsText
<1> QED
    BY TextInvInit, TextInvNext, <1>1, PTL DEF SpeakersSpec

\* The fields of a speaker.
SpeakerShape(row) == DOMAIN row = {"live", "name", "count"}

\* What a request that overlaps no other has read is still so.
ReadNow(x) ==
    /\ x.kind # "idle" => x.of = storings
    /\ x.kind = "rename" => x.name # Nobody
    /\ x.kind \in {"merge", "moved"} =>
          /\ x.target \in Present /\ x.source \in SpeakerRows /\ x.target # x.source
          /\ x.name = Name(x.target)
    /\ x.kind = "moved" => DOMAIN x.rows = Of(x.source)
    /\ x.kind = "edit" /\ x.name = Nobody =>
          \A g \in DOMAIN x.rows : x.rows[g].label = segment[g].label

\* A segment of a speaker carries the name of one that is there, and the counts are those of the segments.
Agreed ==
    /\ \A g \in Places : segment[g].ref # Nobody =>
          /\ segment[g].ref \in Present
          /\ g \in typed \/ segment[g].label = Name(segment[g].ref)
    /\ \A s \in Present : speaker[s].count = Cardinality(Of(s))

\* One request at a time.
OneEdit == \A q, r \in UnderWay : q = r

\* The fields of the rows and of the requests.
Shapes ==
    /\ DOMAIN segment = Places /\ DOMAIN pending = Edits /\ DOMAIN speaker = SpeakerRows
    /\ \A g \in Places : SegmentShape(segment[g])
    /\ \A r \in Edits : RequestShape(pending[r])
    /\ \A s \in SpeakerRows : SpeakerShape(speaker[s])

\* Until two requests overlap, one is under way at most and what it read is still so.
AgreeInv ==
    /\ Shapes
    /\ ~ overlapping => OneEdit /\ Agreed /\ \A r \in Edits : ReadNow(pending[r])

\* Rows for the voices that were heard.
LEMMA RowsForVoices ==
    ASSUME NEW voice \in [Places -> SpeakerRows \cup {Nobody}]
    PROVE  /\ DOMAIN RowsFor(voice) = SpeakerRows
           /\ \A s \in SpeakerRows :
                /\ SpeakerShape(RowsFor(voice)[s])
                /\ RowsFor(voice)[s].name = Nobody
                /\ RowsFor(voice)[s].live =>
                      RowsFor(voice)[s].count = Cardinality({g \in Places : voice[g] = s})
           /\ \A g \in Places : voice[g] # Nobody => voice[g] \in SpeakerRows /\ RowsFor(voice)[voice[g]].live
<1>1. /\ DOMAIN NoSpeaker = {"live", "name", "count"} /\ NoSpeaker.name = Nobody
      /\ NoSpeaker.live = FALSE
    BY DEF NoSpeaker
<1>2. \A s \in SpeakerRows :
        RowsFor(voice)[s] =
          IF \E g \in Places : voice[g] = s
          THEN [NoSpeaker EXCEPT !.live = TRUE, !.count = Cardinality({g \in Places : voice[g] = s})]
          ELSE NoSpeaker
    BY DEF RowsFor
<1>3. ASSUME NEW s \in SpeakerRows
      PROVE  /\ SpeakerShape(RowsFor(voice)[s])
             /\ RowsFor(voice)[s].name = Nobody
             /\ RowsFor(voice)[s].live <=> \E g \in Places : voice[g] = s
             /\ RowsFor(voice)[s].live =>
                   RowsFor(voice)[s].count = Cardinality({g \in Places : voice[g] = s})
    <2> DEFINE n == Cardinality({g \in Places : voice[g] = s})
    <2>1. CASE \E g \in Places : voice[g] = s
        <3>1. RowsFor(voice)[s] = [NoSpeaker EXCEPT !.live = TRUE, !.count = n]
            BY <1>2, <2>1
        <3> HIDE DEF n
        <3>2. /\ SpeakerShape(RowsFor(voice)[s])
              /\ RowsFor(voice)[s].name = Nobody
              /\ RowsFor(voice)[s].live = TRUE /\ RowsFor(voice)[s].count = n
            BY <1>1, <3>1 DEF SpeakerShape
        <3> QED
            BY <2>1, <3>2 DEF n
    <2>2. CASE ~ \E g \in Places : voice[g] = s
        <3>1. RowsFor(voice)[s] = NoSpeaker
            BY <1>2, <2>2
        <3> QED
            BY <1>1, <2>2, <3>1 DEF SpeakerShape
    <2> QED
        BY <2>1, <2>2
<1>4. DOMAIN RowsFor(voice) = SpeakerRows
    BY DEF RowsFor
<1> QED
    BY <1>3, <1>4

\* The segments of a speaker, in any transcript.
SpokenBy(seg, s) == {g \in Places : seg[g].ref = s}

\* A transcript whose segments show the voices, and rows for it.
Shows(seg, voice) ==
    \A g \in Places : seg[g].ref = voice[g] /\ (voice[g] # Nobody => seg[g].label = voice[g])

\* Copies of a transcript and of its speakers that agree.
Fits(seg, spk) ==
    /\ \A g \in Places : seg[g].ref # Nobody =>
         /\ seg[g].ref \in SpeakerRows /\ spk[seg[g].ref].live
         /\ spk[seg[g].ref].name = Nobody /\ seg[g].label = seg[g].ref
    /\ \A s \in SpeakerRows : spk[s].live => spk[s].count = Cardinality(SpokenBy(seg, s))

\* A transcript that shows the voices fits the rows made for them.
LEMMA VoicesAgree ==
    \A voice \in [Places -> SpeakerRows \cup {Nobody}] : \A seg :
        Shows(seg, voice) => Fits(seg, RowsFor(voice))
<1> SUFFICES ASSUME NEW voice \in [Places -> SpeakerRows \cup {Nobody}], NEW seg, Shows(seg, voice)
             PROVE  Fits(seg, RowsFor(voice))
    OBVIOUS
<1>1. ASSUME NEW s \in SpeakerRows, RowsFor(voice)[s].live
      PROVE  RowsFor(voice)[s].count = Cardinality(SpokenBy(seg, s))
    <2>1. SpokenBy(seg, s) = {g \in Places : voice[g] = s}
        BY DEF SpokenBy, Shows
    <2> QED
        BY <1>1, <2>1, RowsForVoices
<1>2. \A g \in Places : seg[g].ref = voice[g] /\ (voice[g] # Nobody => seg[g].label = voice[g])
    BY DEF Shows
<1>3. \A g \in Places : voice[g] # Nobody =>
        /\ voice[g] \in SpeakerRows /\ RowsFor(voice)[voice[g]].live
        /\ RowsFor(voice)[voice[g]].name = Nobody
    BY RowsForVoices
<1> HIDE DEF RowsFor
<1> QED
    BY <1>1, <1>2, <1>3 DEF Fits

\* The first diarization makes the rows of its voices.
LEMMA AgreeInvInit == SpeakersInit => AgreeInv
<1> SUFFICES ASSUME SpeakersInit PROVE AgreeInv
    OBVIOUS
<1>1. PICK voice \in [Places -> SpeakerRows \cup {Nobody}] :
        /\ speaker = RowsFor(voice)
        /\ segment = [g \in Places |->
                        [ref |-> voice[g], label |-> voice[g], text |-> Machine,
                         original |-> Nobody, edited |-> FALSE]]
    BY DEF SpeakersInit
<1>2. pending = [r \in Edits |-> NoEdit]
    BY DEF SpeakersInit
<1>3. Agreed
    <2>1. Shows(segment, voice)
        BY <1>1 DEF Shows
    <2>2. Fits(segment, RowsFor(voice))
        BY <2>1, VoicesAgree
    <2>3. Fits(segment, speaker)
        BY <1>1, <2>2
    <2> QED
        BY <2>3 DEF Fits, Agreed, Present, Name, Of, SpokenBy
<1>4. Shapes
    <2>1. DOMAIN segment = Places /\ \A g \in Places : SegmentShape(segment[g])
        BY <1>1 DEF SegmentShape
    <2>2. DOMAIN pending = Edits /\ \A r \in Edits : RequestShape(pending[r])
        BY <1>2, NoEditIs
    <2>3. DOMAIN speaker = SpeakerRows /\ \A s \in SpeakerRows : SpeakerShape(speaker[s])
        BY <1>1, RowsForVoices
    <2> QED
        BY <2>1, <2>2, <2>3 DEF Shapes
<1>5. OneEdit /\ \A r \in Edits : ReadNow(pending[r])
    BY <1>2, NoEditIs DEF OneEdit, UnderWay, ReadNow
<1> QED
    BY <1>3, <1>4, <1>5 DEF AgreeInv

\* A request begins or goes on; no row changes.
LEMMA RequestAgrees ==
    ASSUME AgreeInv, NEW r \in Edits, NEW x, pending' = [pending EXCEPT ![r] = x],
           RequestShape(x), UNCHANGED <<segment, speaker, storings, typed>>,
           ~ overlapping' => ~ overlapping /\ UnderWay \subseteq {r} /\ ReadNow(x)
    PROVE  AgreeInv'
<1>1. /\ DOMAIN pending' = Edits /\ pending'[r] = x
      /\ \A q \in Edits : q # r => pending'[q] = pending[q]
    BY DEF AgreeInv, Shapes
<1>2. Shapes'
    BY <1>1 DEF AgreeInv, Shapes, RequestShape, SegmentShape, SpeakerShape
<1> SUFFICES ASSUME ~ overlapping'
             PROVE  OneEdit' /\ Agreed' /\ \A q \in Edits : ReadNow(pending[q])'
    BY <1>2 DEF AgreeInv
<1>3. OneEdit'
    BY <1>1 DEF OneEdit, UnderWay
<1>4. /\ Present' = Present /\ \A s : Name(s)' = Name(s) /\ Of(s)' = Of(s)
    BY DEF Present, Name, Of
<1>5. Agreed'
    BY <1>4 DEF AgreeInv, Agreed
<1>6. ASSUME NEW q \in Edits PROVE ReadNow(pending[q])'
    <2>1. ReadNow(pending'[q])
        BY <1>1 DEF AgreeInv
    <2> QED
        BY <1>4, <2>1 DEF ReadNow
<1> QED
    BY <1>3, <1>5, <1>6

\* A request ends, and nothing is under way.
LEMMA WriteAgrees ==
    ASSUME AgreeInv, NEW r \in Edits, Over(r), pending[r].kind # "idle",
           overlapping' = overlapping,
           DOMAIN segment' = Places, \A g \in Places : SegmentShape(segment'[g]),
           DOMAIN speaker' = SpeakerRows, \A s \in SpeakerRows : SpeakerShape(speaker'[s]),
           ~ overlapping => Agreed'
    PROVE  AgreeInv'
<1>1. /\ DOMAIN pending' = Edits /\ pending'[r] = NoEdit
      /\ \A q \in Edits : q # r => pending'[q] = pending[q]
    BY DEF AgreeInv, Shapes, Over
<1>2. \A q \in Edits : RequestShape(pending'[q])
    BY <1>1, NoEditIs DEF AgreeInv, Shapes
<1>3. Shapes'
    BY <1>1, <1>2 DEF Shapes, RequestShape, SegmentShape, SpeakerShape
<1>4. ~ overlapping => \A q \in Edits : pending'[q].kind = "idle"
    BY <1>1, NoEditIs DEF AgreeInv, OneEdit, UnderWay
<1>5. ~ overlapping => OneEdit' /\ \A q \in Edits : ReadNow(pending[q])'
    BY <1>4 DEF OneEdit, UnderWay, ReadNow
<1> QED
    BY <1>3, <1>5 DEF AgreeInv

\* What a request has read when it begins.
LEMMA BeginAgrees ==
    ASSUME AgreeInv, NEW r \in Edits, NEW what, Begin(r, what), RequestShape(what),
           ~ overlapping => ReadNow([what EXCEPT !.of = storings])
    PROVE  AgreeInv'
<1> DEFINE x == [what EXCEPT !.of = storings]
<1>1. /\ pending' = [pending EXCEPT ![r] = x] /\ UNCHANGED <<segment, speaker, storings, typed>>
      /\ overlapping' = (overlapping \/ UnderWay # {})
    BY DEF Begin
<1>2. RequestShape(x)
    BY DEF RequestShape
<1>3. ~ overlapping' => ~ overlapping /\ UnderWay \subseteq {r} /\ ReadNow(x)
    BY <1>1
<1> HIDE DEF x
<1> QED
    BY <1>1, <1>2, <1>3, RequestAgrees

\* A request reads what is there.
LEMMA ReadAgrees ==
    ASSUME AgreeInv, NEW r \in Edits,
           \/ \E s \in SpeakerRows, name \in Names : ReadForRename(r, s, name)
           \/ \E s, q \in SpeakerRows : ReadForMerge(r, s, q)
           \/ \E g \in Places, text \in Typings, label \in Names \cup {Nobody} :
                 ReadForEdit(r, g, text, label)
           \/ \E gs \in SUBSET Places : ReadForRestore(r, gs)
           \/ ReadForDiarization(r)
    PROVE  AgreeInv'
<1>0. DOMAIN NoEdit = {"kind", "target", "source", "name", "rows", "of"}
    BY DEF NoEdit
<1>1. ASSUME NEW s \in SpeakerRows, NEW name \in Names, ReadForRename(r, s, name) PROVE AgreeInv'
    <2> DEFINE w == [NoEdit EXCEPT !.kind = "rename", !.target = s, !.name = name]
    <2>1. Begin(r, w) /\ name # Nobody
        BY <1>1, SpeakersAssumption DEF ReadForRename
    <2>2. /\ RequestShape(w) /\ [w EXCEPT !.of = storings].kind = "rename"
          /\ [w EXCEPT !.of = storings].of = storings /\ [w EXCEPT !.of = storings].name = name
        BY <1>0 DEF RequestShape
    <2> HIDE DEF w
    <2> QED
        BY <2>1, <2>2, BeginAgrees DEF ReadNow
<1>2. ASSUME NEW s \in SpeakerRows, NEW q \in SpeakerRows, ReadForMerge(r, s, q) PROVE AgreeInv'
    <2> DEFINE w == [NoEdit EXCEPT !.kind = "merge", !.target = s, !.source = q, !.name = Name(s)]
    <2>1. Begin(r, w) /\ s \in Present /\ s # q
        BY <1>2 DEF ReadForMerge
    <2>2. /\ RequestShape(w) /\ [w EXCEPT !.of = storings].kind = "merge"
          /\ [w EXCEPT !.of = storings].of = storings /\ [w EXCEPT !.of = storings].name = Name(s)
          /\ [w EXCEPT !.of = storings].target = s /\ [w EXCEPT !.of = storings].source = q
        BY <1>0 DEF RequestShape
    <2> HIDE DEF w
    <2> QED
        BY <2>1, <2>2, BeginAgrees DEF ReadNow
<1>3. ASSUME NEW g \in Places, NEW text, NEW label, ReadForEdit(r, g, text, label) PROVE AgreeInv'
    <2> DEFINE rows == [h \in {g} |-> [segment[h] EXCEPT
                          !.text = text, !.original = Kept(segment[h]), !.edited = TRUE,
                          !.label = IF label = Nobody THEN @ ELSE label]]
               w == [NoEdit EXCEPT !.kind = "edit", !.name = label, !.rows = rows]
    <2>1. Begin(r, w)
        BY <1>3 DEF ReadForEdit
    <2>2. label = Nobody => \A h \in DOMAIN rows : rows[h].label = segment[h].label
        BY DEF AgreeInv, Shapes, SegmentShape
    <2> HIDE DEF rows
    <2>3. /\ RequestShape(w) /\ [w EXCEPT !.of = storings].kind = "edit"
          /\ [w EXCEPT !.of = storings].of = storings /\ [w EXCEPT !.of = storings].name = label
          /\ [w EXCEPT !.of = storings].rows = rows
        BY <1>0 DEF RequestShape
    <2> HIDE DEF w
    <2> QED
        BY <2>1, <2>2, <2>3, BeginAgrees DEF ReadNow
<1>4. ASSUME NEW gs, ReadForRestore(r, gs) PROVE AgreeInv'
    <2> DEFINE rows == [g \in {h \in gs : segment[h].edited /\ segment[h].original # Nobody}
                          |-> Restored(segment[g])]
               w == [NoEdit EXCEPT !.kind = "restore", !.rows = rows]
    <2>1. Begin(r, w)
        BY <1>4 DEF ReadForRestore
    <2> HIDE DEF rows
    <2>3. /\ RequestShape(w) /\ [w EXCEPT !.of = storings].kind = "restore"
          /\ [w EXCEPT !.of = storings].of = storings
        BY <1>0 DEF RequestShape
    <2> HIDE DEF w
    <2> QED
        BY <2>1, <2>3, BeginAgrees DEF ReadNow
<1>5. CASE ReadForDiarization(r)
    <2> DEFINE w == [NoEdit EXCEPT !.kind = "diarize"]
    <2>1. Begin(r, w)
        BY <1>5 DEF ReadForDiarization
    <2>3. /\ RequestShape(w) /\ [w EXCEPT !.of = storings].kind = "diarize"
          /\ [w EXCEPT !.of = storings].of = storings
        BY <1>0 DEF RequestShape
    <2> HIDE DEF w
    <2> QED
        BY <2>1, <2>3, BeginAgrees DEF ReadNow
<1> QED
    BY <1>1, <1>2, <1>3, <1>4, <1>5

\* The first step of a merge moves the segments and leaves the count to the second.
LEMMA MoveAgrees ==
    ASSUME AgreeInv, NEW r \in Edits, MoveSegments(r)
    PROVE  AgreeInv'
<1> DEFINE x == [pending[r] EXCEPT !.kind = "moved",
                                   !.rows = [g \in Of(pending[r].source) |-> segment[g]]]
<1>1. /\ pending' = [pending EXCEPT ![r] = x] /\ UNCHANGED <<segment, speaker, storings, typed>>
      /\ overlapping' = overlapping /\ pending[r].kind = "merge"
      /\ RequestShape(pending[r]) /\ (~ overlapping => OneEdit /\ ReadNow(pending[r]))
    BY DEF MoveSegments, AgreeInv, Shapes
<1>2. /\ RequestShape(x) /\ x.kind = "moved" /\ DOMAIN x.rows = Of(pending[r].source)
      /\ x.target = pending[r].target /\ x.source = pending[r].source
      /\ x.name = pending[r].name /\ x.of = pending[r].of
    BY <1>1 DEF RequestShape
<1>3. ~ overlapping => UnderWay \subseteq {r}
    BY <1>1 DEF OneEdit, UnderWay
<1> HIDE DEF x
<1>4. ~ overlapping => ReadNow(x)
    BY <1>1, <1>2 DEF ReadNow
<1> QED
    BY <1>1, <1>2, <1>3, <1>4, RequestAgrees

\* A rename writes the name in the row and in its segments.
LEMMA RenameAgrees ==
    ASSUME AgreeInv, NEW r \in Edits, SaveRename(r)
    PROVE  AgreeInv'
<1> DEFINE s == pending[r].target
           name == pending[r].name
<1>1. /\ pending[r].kind = "rename" /\ s \in Present /\ Over(r) /\ overlapping' = overlapping
      /\ speaker' = [speaker EXCEPT ![s].name = name]
      /\ segment' = [g \in Places |->
                       IF g \in Of(s) THEN [segment[g] EXCEPT !.label = name] ELSE segment[g]]
      /\ typed' = typed \ Of(s)
    BY DEF SaveRename
<1>2. Shapes /\ (~ overlapping => Agreed /\ name # Nobody)
    BY <1>1 DEF AgreeInv, ReadNow
<1> HIDE DEF s, name
<1>3. ASSUME NEW q \in SpeakerRows
      PROVE  /\ SpeakerShape(speaker'[q]) /\ speaker'[q].live = speaker[q].live
             /\ speaker'[q].count = speaker[q].count
             /\ speaker'[q].name = IF q = s THEN name ELSE speaker[q].name
    BY <1>1, <1>2 DEF Shapes, SpeakerShape
<1>4. ASSUME NEW g \in Places
      PROVE  /\ SegmentShape(segment'[g]) /\ segment'[g].ref = segment[g].ref
             /\ segment'[g].label = IF g \in Of(s) THEN name ELSE segment[g].label
    BY <1>1, <1>2 DEF Shapes, SegmentShape
<1>5. ASSUME ~ overlapping PROVE Agreed'
    <2>1. Present' = Present /\ \A q : Of(q)' = Of(q)
        BY <1>3, <1>4 DEF Present, Of
    <2>2. \A q \in Present : speaker'[q].count = Cardinality(Of(q)')
        BY <1>2, <1>3, <1>5, <2>1 DEF Agreed, Present
    <2>3. ASSUME NEW g \in Places, segment'[g].ref # Nobody
          PROVE  /\ segment'[g].ref \in Present'
                 /\ g \in typed' \/ segment'[g].label = Name(segment[g].ref)'
        <3>1. segment[g].ref \in Present /\ (g \in typed \/ segment[g].label = Name(segment[g].ref))
            BY <1>2, <1>4, <1>5, <2>3 DEF Agreed
        <3>2. CASE segment[g].ref = s
            <4>1. g \in Of(s) /\ speaker'[s].name = name
                BY <1>1, <1>3, <3>2 DEF Of, Present
            <4> QED
                BY <1>2, <1>4, <1>5, <2>1, <3>1, <3>2, <4>1 DEF Name
        <3>3. CASE segment[g].ref # s
            <4>1. g \notin Of(s) /\ speaker'[segment[g].ref].name = speaker[segment[g].ref].name
                BY <1>3, <3>1, <3>3 DEF Of, Present
            <4> QED
                BY <1>1, <1>4, <2>1, <3>1, <4>1 DEF Name
        <3> QED
            BY <3>2, <3>3
    <2> QED
        BY <2>1, <2>2, <2>3 DEF Agreed
<1>6. DOMAIN segment' = Places /\ DOMAIN speaker' = SpeakerRows
    BY <1>1, <1>2 DEF Shapes
<1> QED
    BY <1>1, <1>3, <1>4, <1>5, <1>6, WriteAgrees

\* A merge ends with the segments, the count and the name at the target.
LEMMA MergeAgrees ==
    ASSUME AgreeInv, NEW r \in Edits, FinishMerge(r)
    PROVE  AgreeInv'
<1>p. PICK t, s, name, moved :
         /\ t = pending[r].target /\ s = pending[r].source
         /\ name = pending[r].name /\ moved = DOMAIN pending[r].rows
    OBVIOUS
<1>1. /\ pending[r].kind = "moved" /\ t \in Present /\ Over(r) /\ overlapping' = overlapping
      /\ segment' = [g \in Places |->
                       IF g \in moved
                       THEN [segment[g] EXCEPT !.ref = t, !.label = name]
                       ELSE IF g \in Of(s) THEN [segment[g] EXCEPT !.ref = Nobody] ELSE segment[g]]
      /\ speaker' = [speaker EXCEPT ![t].count = Counted(r), ![s] = NoSpeaker]
      /\ typed' = typed \ moved
      /\ Counted(r) = Cardinality(Of(t) \cup moved)
    BY <1>p DEF FinishMerge, Counted
<1>2. /\ Shapes
      /\ ~ overlapping => /\ Agreed /\ moved = Of(s) /\ s \in SpeakerRows /\ t # s /\ name = Name(t)
    BY <1>1, <1>p DEF AgreeInv, ReadNow
<1>3. ASSUME NEW q \in SpeakerRows
      PROVE  /\ SpeakerShape(speaker'[q])
             /\ q = s => speaker'[q].live = FALSE
             /\ q # s => /\ speaker'[q].live = speaker[q].live /\ speaker'[q].name = speaker[q].name
                         /\ speaker'[q].count = IF q = t THEN Cardinality(Of(t) \cup moved) ELSE speaker[q].count
    <2> DEFINE n == Counted(r)
               once == [speaker EXCEPT ![t].count = n]
    <2>1. /\ once[q] = (IF q = t THEN [speaker[q] EXCEPT !.count = n] ELSE speaker[q])
          /\ DOMAIN once = SpeakerRows /\ speaker' = [once EXCEPT ![s] = NoSpeaker]
        BY <1>1, <1>2 DEF Shapes
    <2>2. SpeakerShape(speaker[q])
        BY <1>2 DEF Shapes
    <2> HIDE DEF n
    <2>3. /\ SpeakerShape(once[q]) /\ once[q].live = speaker[q].live /\ once[q].name = speaker[q].name
          /\ once[q].count = IF q = t THEN n ELSE speaker[q].count
        BY <2>1, <2>2 DEF SpeakerShape
    <2> HIDE DEF once
    <2>4. speaker'[q] = IF q = s THEN NoSpeaker ELSE once[q]
        BY <2>1
    <2>5. SpeakerShape(NoSpeaker) /\ NoSpeaker.live = FALSE
        BY DEF NoSpeaker, SpeakerShape
    <2>6. n = Cardinality(Of(t) \cup moved)
        BY <1>1 DEF n
    <2> QED
        BY <2>3, <2>4, <2>5, <2>6
<1>4. ASSUME NEW g \in Places
      PROVE  /\ SegmentShape(segment'[g])
             /\ g \in moved => segment'[g].ref = t /\ segment'[g].label = name
             /\ g \notin moved /\ g \notin Of(s) =>
                   segment'[g].ref = segment[g].ref /\ segment'[g].label = segment[g].label
    BY <1>1, <1>2 DEF Shapes, SegmentShape
<1>5. ASSUME ~ overlapping PROVE Agreed'
    <2>0. /\ moved = Of(s) /\ t # s /\ name = Name(t) /\ Agreed /\ s \in SpeakerRows
          /\ t \in SpeakerRows /\ s # Nobody /\ t # Nobody
        BY <1>1, <1>2, <1>5, SpeakersAssumption DEF Present
    <2>1. Present' = Present \ {s}
        BY <1>3 DEF Present
    <2>2. \A q \in Present' : Of(q)' = IF q = t THEN Of(t) \cup moved ELSE Of(q)
        BY <1>4, <2>0, <2>1 DEF Of
    <2>3. \A q \in Present' : speaker'[q].count = Cardinality(Of(q)')
        <3> SUFFICES ASSUME NEW q \in Present' PROVE speaker'[q].count = Cardinality(Of(q)')
            OBVIOUS
        <3>1. q \in Present /\ q \in SpeakerRows /\ q # s
            BY <2>1 DEF Present
        <3>2. speaker[q].count = Cardinality(Of(q))
            BY <2>0, <3>1 DEF Agreed
        <3>3. speaker'[q].count = IF q = t THEN Cardinality(Of(t) \cup moved) ELSE speaker[q].count
            BY <1>3, <3>1
        <3> QED
            BY <2>2, <3>2, <3>3
    <2>4. \A q \in Present' : Name(q)' = Name(q)
        BY <1>3, <2>1 DEF Name, Present
    <2>5. ASSUME NEW g \in Places, segment'[g].ref # Nobody
          PROVE  /\ segment'[g].ref \in Present'
                 /\ g \in typed' \/ segment'[g].label = Name(segment[g].ref)'
        <3>1. CASE g \in moved
            <4>1. segment'[g].ref = t /\ segment'[g].label = name
                BY <1>4, <3>1
            <4>2. t \in Present'
                BY <1>1, <2>0, <2>1
            <4>3. Name(t)' = Name(t)
                BY <2>4, <4>2
            <4> QED
                BY <2>0, <4>1, <4>2, <4>3
        <3>2. CASE g \notin moved
            <4>1. segment'[g].ref = segment[g].ref /\ segment'[g].label = segment[g].label /\ segment[g].ref # s
                BY <1>4, <2>0, <3>2 DEF Of
            <4>2. segment[g].ref \in Present /\ (g \in typed \/ segment[g].label = Name(segment[g].ref))
                BY <2>0, <2>5, <4>1 DEF Agreed
            <4>3. segment[g].ref \in Present' /\ \A q : q = segment[g].ref => Name(q)' = Name(q)
                BY <2>1, <2>4, <4>1, <4>2
            <4>4. g \in typed => g \in typed'
                BY <1>1, <3>2
            <4> QED
                BY <4>1, <4>2, <4>3, <4>4
        <3> QED
            BY <3>1, <3>2
    <2> QED
        BY <2>3, <2>5 DEF Agreed
<1>6. DOMAIN segment' = Places /\ DOMAIN speaker' = SpeakerRows
    BY <1>1, <1>2 DEF Shapes
<1> QED
    BY <1>1, <1>3, <1>4, <1>5, <1>6, WriteAgrees

\* An edit or a restore leaves the speaker of a segment as it is.
LEMMA SaveAgrees ==
    ASSUME AgreeInv, NEW r \in Edits, SaveSegments(r)
    PROVE  AgreeInv'
<1> DEFINE x == pending[r]
           rows == pending[r].rows
           new(g) == [segment[g] EXCEPT !.text = rows[g].text, !.original = rows[g].original,
                                        !.edited = rows[g].edited,
                                        !.label = IF pending[r].kind = "edit" THEN rows[g].label ELSE @]
<1>1. /\ Over(r) /\ x.kind \in {"edit", "restore"} /\ overlapping' = overlapping
      /\ speaker' = speaker
      /\ segment' = [g \in Places |-> IF g \in DOMAIN rows THEN new(g) ELSE segment[g]]
      /\ typed' = IF x.name # Nobody THEN typed \cup DOMAIN rows ELSE typed
    BY DEF SaveSegments
<1>2. Shapes /\ (~ overlapping => Agreed /\ ReadNow(x))
    BY DEF AgreeInv
<1>3. ASSUME NEW g \in Places
      PROVE  /\ SegmentShape(segment'[g]) /\ segment'[g].ref = segment[g].ref
             /\ segment'[g].label = IF g \in DOMAIN rows /\ x.kind = "edit" THEN rows[g].label
                                    ELSE segment[g].label
    <2>1. SegmentShape(segment[g])
        BY <1>2 DEF Shapes
    <2>2. segment'[g] = IF g \in DOMAIN rows THEN new(g) ELSE segment[g]
        BY <1>1
    <2> QED
        BY <2>1, <2>2 DEF SegmentShape
<1> HIDE DEF x, rows
<1>4. ASSUME ~ overlapping PROVE Agreed'
    <2>1. Present' = Present /\ \A q : Of(q)' = Of(q) /\ Name(q)' = Name(q)
        BY <1>1, <1>3 DEF Present, Of, Name
    <2>2. ASSUME NEW g \in Places, segment[g].ref # Nobody
          PROVE  g \in typed' \/ segment'[g].label = Name(segment[g].ref)
        <3>1. g \in typed \/ segment[g].label = Name(segment[g].ref)
            BY <1>2, <1>4, <2>2 DEF Agreed
        <3>2. segment'[g].label = segment[g].label \/ g \in typed'
            BY <1>1, <1>2, <1>3, <1>4 DEF ReadNow, x, rows
        <3>3. typed \subseteq typed'
            BY <1>1
        <3> QED
            BY <3>1, <3>2, <3>3
    <2>3. ASSUME NEW g \in Places, segment'[g].ref # Nobody
          PROVE  /\ segment'[g].ref \in Present'
                 /\ g \in typed' \/ segment'[g].label = Name(segment[g].ref)'
        <3>1. segment'[g].ref = segment[g].ref /\ segment[g].ref \in Present
            BY <1>2, <1>3, <1>4, <2>3 DEF Agreed
        <3>2. g \in typed' \/ segment'[g].label = Name(segment[g].ref)
            BY <2>2, <2>3, <3>1
        <3> QED
            BY <2>1, <3>1, <3>2
    <2>4. \A q \in Present : speaker[q].count = Cardinality(Of(q))
        BY <1>2, <1>4 DEF Agreed
    <2> QED
        BY <1>1, <2>1, <2>3, <2>4 DEF Agreed
<1>5. DOMAIN segment' = Places
    BY <1>1
<1>6. DOMAIN speaker' = SpeakerRows /\ \A q \in SpeakerRows : SpeakerShape(speaker'[q])
    BY <1>1, <1>2 DEF Shapes
<1>7. pending[r].kind # "idle"
    BY <1>1 DEF x
<1> QED
    BY <1>1, <1>3, <1>4, <1>5, <1>6, <1>7, WriteAgrees

\* A diarization that stores nothing but its speakers.
LEMMA DiarizationAgrees ==
    ASSUME AgreeInv, NEW r \in Edits, NEW voice \in [Places -> SpeakerRows \cup {Nobody}],
           SaveDiarization(r, voice)
    PROVE  AgreeInv'
<1>1. /\ Over(r) /\ pending[r].kind = "diarize" /\ overlapping' = overlapping
      /\ speaker' = RowsFor(voice)
      /\ segment' = [g \in Places |->
                       IF pending[r].of # storings THEN [segment[g] EXCEPT !.ref = Nobody]
                       ELSE IF voice[g] = Nobody THEN [segment[g] EXCEPT !.ref = Nobody]
                       ELSE [segment[g] EXCEPT !.ref = voice[g], !.label = voice[g]]]
    BY DEF SaveDiarization
<1>2. Shapes /\ (~ overlapping => pending[r].of = storings)
    BY <1>1 DEF AgreeInv, ReadNow
<1>3. ASSUME NEW g \in Places
      PROVE  /\ SegmentShape(segment'[g])
             /\ pending[r].of = storings =>
                   segment'[g].ref = voice[g] /\ (voice[g] # Nobody => segment'[g].label = voice[g])
    BY <1>1, <1>2 DEF Shapes, SegmentShape
<1>4. ~ overlapping => Agreed'
    <2> SUFFICES ASSUME ~ overlapping PROVE Agreed'
        OBVIOUS
    <2>1. Shows(segment', voice)
        BY <1>2, <1>3 DEF Shows
    <2>2. Fits(segment', RowsFor(voice))
        BY <2>1, VoicesAgree
    <2>3. Fits(segment', speaker')
        BY <1>1, <2>2
    <2> QED
        BY <2>3 DEF Fits, Agreed, Present, Name, Of, SpokenBy
<1>5. DOMAIN speaker' = SpeakerRows /\ \A q \in SpeakerRows : SpeakerShape(speaker'[q])
    BY <1>1, RowsForVoices
<1>6. DOMAIN segment' = Places
    BY <1>1
<1> QED
    BY <1>1, <1>3, <1>4, <1>5, <1>6, WriteAgrees

\* A transcript is stored with the speakers of its voices.
LEMMA StoreAgrees ==
    ASSUME AgreeInv, NEW voice \in [Places -> SpeakerRows \cup {Nobody}], StoreAnew(voice)
    PROVE  AgreeInv'
<1>1. /\ speaker' = RowsFor(voice) /\ pending' = pending /\ overlapping' = (UnderWay # {})
      /\ segment' = [g \in Places |-> [ref |-> voice[g], label |-> voice[g], text |-> Machine,
                                         original |-> Nobody, edited |-> FALSE]]
    BY DEF StoreAnew
<1>2. Shapes
    BY DEF AgreeInv
<1>3. DOMAIN segment' = Places /\ \A g \in Places : SegmentShape(segment'[g])
    BY <1>1 DEF SegmentShape
<1>4. DOMAIN speaker' = SpeakerRows /\ \A q \in SpeakerRows : SpeakerShape(speaker'[q])
    BY <1>1, RowsForVoices
<1>5. Shapes'
    BY <1>1, <1>2, <1>3, <1>4 DEF Shapes, SegmentShape, SpeakerShape, RequestShape
<1>6. Agreed'
    <2>1. Shows(segment', voice)
        BY <1>1 DEF Shows
    <2>2. Fits(segment', RowsFor(voice))
        BY <2>1, VoicesAgree
    <2>3. Fits(segment', speaker')
        BY <1>1, <2>2
    <2> QED
        BY <2>3 DEF Fits, Agreed, Present, Name, Of, SpokenBy
<1>7. ~ overlapping' => \A q \in Edits : pending'[q].kind = "idle"
    BY <1>1 DEF UnderWay
<1>8. ~ overlapping' => OneEdit' /\ \A q \in Edits : ReadNow(pending[q])'
    BY <1>7 DEF OneEdit, UnderWay, ReadNow
<1> QED
    BY <1>5, <1>6, <1>8 DEF AgreeInv

\* Every step keeps the copies in agreement.
LEMMA AgreeInvNext == AgreeInv /\ [SpeakersNext]_speakersVars => AgreeInv'
<1> SUFFICES ASSUME AgreeInv, [SpeakersNext]_speakersVars PROVE AgreeInv'
    OBVIOUS
<1>1. CASE UNCHANGED speakersVars
    <2>1. Present' = Present /\ UnderWay' = UnderWay /\ \A s : Name(s)' = Name(s) /\ Of(s)' = Of(s)
        BY <1>1 DEF Present, UnderWay, Name, Of, speakersVars
    <2>2. (Agreed' <=> Agreed) /\ (OneEdit' <=> OneEdit) /\ (Shapes' <=> Shapes)
        BY <1>1, <2>1 DEF Agreed, OneEdit, Shapes, SegmentShape, SpeakerShape, RequestShape, speakersVars
    <2>3. \A r \in Edits : ReadNow(pending[r]) => ReadNow(pending[r])'
        BY <1>1, <2>1 DEF ReadNow, speakersVars
    <2> QED
        BY <1>1, <2>2, <2>3 DEF AgreeInv, speakersVars
<1>2. ASSUME NEW r \in Edits, RequestFails(r) PROVE AgreeInv'
    <2>1. /\ Over(r) /\ pending[r].kind # "idle"
          /\ UNCHANGED <<segment, speaker, unused, storings, typed, overlapping>>
        BY <1>2 DEF RequestFails
    <2>2. Agreed => Agreed'
        BY <2>1 DEF Agreed, Present, Name, Of
    <2> QED
        BY <2>1, <2>2, WriteAgrees DEF AgreeInv, Shapes
<1>3. \A g \in Places : {g} \in SUBSET Places
    OBVIOUS
<1>4. Places \in SUBSET Places
    OBVIOUS
<1> QED
    BY <1>1, <1>2, <1>3, <1>4, ReadAgrees, MoveAgrees, RenameAgrees, MergeAgrees, SaveAgrees,
       DiarizationAgrees, StoreAgrees DEF SpeakersNext

\* As long as no two requests overlap, the label of every segment is the name of its
\* speaker and every count is that of its segments (rename_speaker, merge_speakers).
THEOREM CopiesAgree == SpeakersSpec => []SpeakersAgree
<1>1. AgreeInv => SpeakersAgree
    BY DEF AgreeInv, Agreed, SpeakersAgree
<1> QED
    BY AgreeInvInit, AgreeInvNext, <1>1, PTL DEF SpeakersSpec

\* What may be written on a segment, in a row, and on a speaker.
Labels == SpeakerRows \cup Names \cup {Nobody}
\* A row of the transcript.
TranscriptRows ==
    [ref : SpeakerRows \cup {Nobody}, label : Labels, text : Typings \cup {Machine},
     original : Typings \cup {Machine, Nobody}, edited : BOOLEAN]
\* A row of a speaker.
SpeakerFields == [live : BOOLEAN, name : Names \cup {Nobody}, count : 0..Cardinality(Places)]

\* What a request may have read or be about to write.
RequestTyped(x) ==
    /\ x.name \in Labels
    /\ x.kind = "rename" => x.name \in Names
    /\ DOMAIN x.rows \subseteq Places
    /\ \A g \in DOMAIN x.rows : x.rows[g] \in TranscriptRows

\* The types of the transcript, its speakers and the requests.
TranscriptTyped ==
    /\ segment \in [Places -> TranscriptRows]
    /\ speaker \in [SpeakerRows -> SpeakerFields]
    /\ unused \subseteq SpeakerRows
    /\ storings \in 0..MaxStores
    /\ typed \subseteq Places
    /\ overlapping \in BOOLEAN
    /\ \A r \in Edits : RequestTyped(pending[r])

\* As many segments as a part of the transcript has.
LEMMA PartCount == \A S \in SUBSET Places : Cardinality(S) \in 0..Cardinality(Places)
<1> TAKE S \in SUBSET Places
<1>1. IsFiniteSet(Places)
    BY SpeakersAssumption
<1>2. IsFiniteSet(S) /\ Cardinality(S) <= Cardinality(Places)
    BY <1>1, FS_Subset
<1>3. Cardinality(S) \in Nat /\ Cardinality(Places) \in Nat
    BY <1>1, <1>2, FS_CardinalityType
<1> QED
    BY <1>2, <1>3

\* A speaker that is not there.
LEMMA NoSpeakerTyped == NoSpeaker \in SpeakerFields
<1>1. {} \in SUBSET Places
    OBVIOUS
<1>2. Cardinality({}) = 0
    BY FS_EmptySet
<1>3. 0 \in 0..Cardinality(Places)
    BY <1>1, <1>2, PartCount
<1> QED
    BY <1>3 DEF NoSpeaker, SpeakerFields

\* The speakers of the voices that were heard.
LEMMA VoicesTyped ==
    ASSUME NEW voice \in [Places -> SpeakerRows \cup {Nobody}]
    PROVE  RowsFor(voice) \in [SpeakerRows -> SpeakerFields]
<1> SUFFICES ASSUME NEW s \in SpeakerRows PROVE RowsFor(voice)[s] \in SpeakerFields
    BY DEF RowsFor
<1> DEFINE S == {g \in Places : voice[g] = s}
           n == Cardinality(S)
<1>1. n \in 0..Cardinality(Places)
    <2>1. S \in SUBSET Places
        OBVIOUS
    <2> HIDE DEF S
    <2> QED
        BY <2>1, PartCount
<1>2. RowsFor(voice)[s] \in {NoSpeaker, [NoSpeaker EXCEPT !.live = TRUE, !.count = n]}
    BY DEF RowsFor
<1> HIDE DEF n
<1>3. [NoSpeaker EXCEPT !.live = TRUE, !.count = n] \in SpeakerFields
    BY <1>1 DEF NoSpeaker, SpeakerFields
<1> QED
    BY <1>2, <1>3, NoSpeakerTyped

\* A transcript that the pipeline has just stored.
LEMMA StoredTyped ==
    ASSUME NEW voice \in [Places -> SpeakerRows \cup {Nobody}], NEW g \in Places
    PROVE  [ref |-> voice[g], label |-> voice[g], text |-> Machine, original |-> Nobody,
            edited |-> FALSE] \in TranscriptRows
<1>1. voice[g] \in SpeakerRows \cup {Nobody} /\ voice[g] \in Labels
    BY DEF Labels
<1> QED
    BY <1>1 DEF TranscriptRows

\* A request that is over.
LEMMA NoEditTyped == RequestTyped(NoEdit)
BY DEF NoEdit, RequestTyped, Labels

\* One request changes what it remembers.
LEMMA RequestsTyped ==
    ASSUME AgreeInv, TranscriptTyped, NEW r \in Edits, NEW x, RequestTyped(x),
           pending' = [pending EXCEPT ![r] = x]
    PROVE  \A q \in Edits : RequestTyped(pending'[q])
<1>1. DOMAIN pending = Edits
    BY DEF AgreeInv, Shapes
<1>2. \A q \in Edits : pending'[q] = IF q = r THEN x ELSE pending[q]
    BY <1>1
<1> QED
    BY <1>2 DEF TranscriptTyped

\* The typing of a request looks at nothing but the request.
LEMMA TranscriptTypedNow ==
    ASSUME segment' \in [Places -> TranscriptRows], speaker' \in [SpeakerRows -> SpeakerFields],
           unused' \subseteq SpeakerRows, storings' \in 0..MaxStores, typed' \subseteq Places,
           overlapping' \in BOOLEAN, \A q \in Edits : RequestTyped(pending'[q])
    PROVE  TranscriptTyped'
BY DEF TranscriptTyped, RequestTyped, TranscriptRows, SpeakerFields

\* A request begins.
LEMMA BeginTyped ==
    ASSUME AgreeInv, TranscriptTyped, NEW r \in Edits, NEW what, Begin(r, what),
           RequestShape(what), RequestTyped(what)
    PROVE  TranscriptTyped'
<1> DEFINE x == [what EXCEPT !.of = storings]
<1>1. /\ pending' = [pending EXCEPT ![r] = x]
      /\ UNCHANGED <<segment, speaker, unused, storings, typed>>
    BY DEF Begin
<1>2. x.name = what.name /\ x.kind = what.kind /\ x.rows = what.rows
    BY DEF RequestShape
<1>3. RequestTyped(x)
    BY <1>2 DEF RequestTyped
<1>4. overlapping' \in BOOLEAN
    BY DEF Begin
<1> HIDE DEF x
<1>5. \A q \in Edits : RequestTyped(pending'[q])
    BY <1>1, <1>3, RequestsTyped
<1> QED
    BY <1>1, <1>4, <1>5, TranscriptTypedNow DEF TranscriptTyped

\* A request reads rows that are typed, and writes on them what users type.
LEMMA ReadTyped ==
    ASSUME AgreeInv, TranscriptTyped, NEW r \in Edits,
           \/ \E s \in SpeakerRows, name \in Names : ReadForRename(r, s, name)
           \/ \E s, q \in SpeakerRows : ReadForMerge(r, s, q)
           \/ \E g \in Places, text \in Typings, label \in Names \cup {Nobody} :
                 ReadForEdit(r, g, text, label)
           \/ \E gs \in SUBSET Places : ReadForRestore(r, gs)
           \/ ReadForDiarization(r)
    PROVE  TranscriptTyped'
<1>0. /\ DOMAIN NoEdit = {"kind", "target", "source", "name", "rows", "of"}
      /\ NoEdit.rows = [g \in {} |-> Nobody] /\ NoEdit.name = Nobody
    BY DEF NoEdit
<1>1. ASSUME NEW s \in SpeakerRows, NEW name \in Names, ReadForRename(r, s, name)
      PROVE  TranscriptTyped'
    <2> DEFINE w == [NoEdit EXCEPT !.kind = "rename", !.target = s, !.name = name]
    <2>1. Begin(r, w) /\ name \in Labels
        BY <1>1 DEF ReadForRename, Labels
    <2>2. RequestShape(w) /\ w.name = name /\ w.rows = [g \in {} |-> Nobody]
        BY <1>0 DEF RequestShape
    <2> HIDE DEF w
    <2>3. RequestTyped(w)
        BY <2>1, <2>2 DEF RequestTyped
    <2> QED
        BY <2>1, <2>2, <2>3, BeginTyped
<1>2. ASSUME NEW s \in SpeakerRows, NEW q \in SpeakerRows, ReadForMerge(r, s, q)
      PROVE  TranscriptTyped'
    <2> DEFINE w == [NoEdit EXCEPT !.kind = "merge", !.target = s, !.source = q, !.name = Name(s)]
    <2>1. Begin(r, w)
        BY <1>2 DEF ReadForMerge
    <2>2. speaker[s].name \in Names \cup {Nobody}
        BY DEF TranscriptTyped, SpeakerFields
    <2>3. Name(s) \in Labels
        BY <2>2 DEF Name, Labels
    <2>4. RequestShape(w) /\ w.kind = "merge" /\ w.name = Name(s) /\ w.rows = [g \in {} |-> Nobody]
        BY <1>0 DEF RequestShape
    <2> HIDE DEF w
    <2>5. RequestTyped(w)
        BY <2>3, <2>4 DEF RequestTyped
    <2> QED
        BY <2>1, <2>4, <2>5, BeginTyped
<1>3. ASSUME NEW g \in Places, NEW text \in Typings, NEW label \in Names \cup {Nobody},
             ReadForEdit(r, g, text, label)
      PROVE  TranscriptTyped'
    <2> DEFINE rows == [h \in {g} |-> [segment[h] EXCEPT
                          !.text = text, !.original = Kept(segment[h]), !.edited = TRUE,
                          !.label = IF label = Nobody THEN @ ELSE label]]
               w == [NoEdit EXCEPT !.kind = "edit", !.name = label, !.rows = rows]
    <2>1. Begin(r, w)
        BY <1>3 DEF ReadForEdit
    <2>2. segment[g] \in TranscriptRows
        BY DEF TranscriptTyped
    <2>3. Kept(segment[g]) \in Typings \cup {Machine}
        BY <2>2 DEF Kept, TranscriptRows
    <2>4. label \in Labels
        BY DEF Labels
    <2>5. rows[g] \in TranscriptRows /\ DOMAIN rows = {g}
        BY <2>2, <2>3, <2>4 DEF TranscriptRows
    <2> HIDE DEF rows
    <2>6. RequestShape(w) /\ w.kind = "edit" /\ w.name = label /\ w.rows = rows
        BY <1>0 DEF RequestShape
    <2> HIDE DEF w
    <2>7. RequestTyped(w)
        BY <2>4, <2>5, <2>6 DEF RequestTyped
    <2> QED
        BY <2>1, <2>6, <2>7, BeginTyped
<1>4. ASSUME NEW gs \in SUBSET Places, ReadForRestore(r, gs) PROVE TranscriptTyped'
    <2> DEFINE rows == [g \in {h \in gs : segment[h].edited /\ segment[h].original # Nobody}
                          |-> Restored(segment[g])]
               w == [NoEdit EXCEPT !.kind = "restore", !.rows = rows]
    <2>1. Begin(r, w)
        BY <1>4 DEF ReadForRestore
    <2>2. DOMAIN rows \subseteq Places
        OBVIOUS
    <2>3. ASSUME NEW g \in DOMAIN rows PROVE rows[g] \in TranscriptRows
        <3>1. segment[g] \in TranscriptRows /\ segment[g].original # Nobody
            BY <2>2 DEF TranscriptTyped
        <3>2. Restored(segment[g]) \in TranscriptRows
            BY <3>1 DEF Restored, TranscriptRows
        <3> QED
            BY <3>2
    <2> HIDE DEF rows
    <2>4. RequestShape(w) /\ w.kind = "restore" /\ w.name = Nobody /\ w.rows = rows
        BY <1>0 DEF RequestShape
    <2> HIDE DEF w
    <2>5. RequestTyped(w)
        BY <2>2, <2>3, <2>4 DEF RequestTyped, Labels
    <2> QED
        BY <2>1, <2>4, <2>5, BeginTyped
<1>5. CASE ReadForDiarization(r)
    <2> DEFINE w == [NoEdit EXCEPT !.kind = "diarize"]
    <2>1. Begin(r, w)
        BY <1>5 DEF ReadForDiarization
    <2>2. RequestShape(w) /\ w.kind = "diarize" /\ w.name = Nobody /\ w.rows = [g \in {} |-> Nobody]
        BY <1>0 DEF RequestShape
    <2> HIDE DEF w
    <2>3. RequestTyped(w)
        BY <2>2 DEF RequestTyped, Labels
    <2> QED
        BY <2>1, <2>2, <2>3, BeginTyped
<1> QED
    BY <1>1, <1>2, <1>3, <1>4, <1>5

\* A request writes what it has read, names it has, and speakers that were heard.
LEMMA WriteTyped ==
    ASSUME AgreeInv, TranscriptTyped, NEW r \in Edits,
           \/ SaveRename(r) \/ MoveSegments(r) \/ FinishMerge(r) \/ SaveSegments(r) \/ RequestFails(r)
           \/ \E voice \in [Places -> SpeakerRows \cup {Nobody}] : SaveDiarization(r, voice)
    PROVE  TranscriptTyped'
<1>0. /\ RequestTyped(pending[r]) /\ RequestShape(pending[r])
      /\ segment \in [Places -> TranscriptRows] /\ speaker \in [SpeakerRows -> SpeakerFields]
      /\ unused \subseteq SpeakerRows /\ storings \in 0..MaxStores /\ typed \subseteq Places
      /\ overlapping \in BOOLEAN
    BY DEF TranscriptTyped, AgreeInv, Shapes
<1>1. ASSUME Over(r) PROVE \A q \in Edits : RequestTyped(pending'[q])
    BY <1>1, RequestsTyped, NoEditTyped DEF Over
<1>2. CASE SaveRename(r)
    <2>1. pending[r].name \in Names
        BY <1>0, <1>2 DEF SaveRename, RequestTyped
    <2>2. pending[r].name \in Labels
        BY <2>1 DEF Labels
    <2>3. speaker' \in [SpeakerRows -> SpeakerFields]
        BY <1>0, <1>2, <2>1 DEF SaveRename, SpeakerFields
    <2>4. segment' \in [Places -> TranscriptRows]
        BY <1>0, <1>2, <2>2 DEF SaveRename, TranscriptRows
    <2>5. typed' \subseteq Places /\ Over(r) /\ UNCHANGED <<unused, storings, overlapping>>
        BY <1>0, <1>2 DEF SaveRename
    <2> QED
        BY <1>0, <1>1, <2>3, <2>4, <2>5, TranscriptTypedNow
<1>3. CASE MoveSegments(r)
    <2> DEFINE rows == [g \in Of(pending[r].source) |-> segment[g]]
               x == [pending[r] EXCEPT !.kind = "moved", !.rows = rows]
    <2>1. /\ pending' = [pending EXCEPT ![r] = x]
          /\ UNCHANGED <<segment, speaker, unused, storings, typed, overlapping>>
        BY <1>3 DEF MoveSegments
    <2>2. DOMAIN rows \subseteq Places /\ \A g \in DOMAIN rows : rows[g] \in TranscriptRows
        BY <1>0 DEF Of
    <2> HIDE DEF rows
    <2>3. x.kind = "moved" /\ x.name = pending[r].name /\ x.rows = rows
        BY <1>0 DEF RequestShape
    <2> HIDE DEF x
    <2>4. RequestTyped(x)
        BY <1>0, <2>2, <2>3 DEF RequestTyped
    <2>5. \A q \in Edits : RequestTyped(pending'[q])
        BY <2>1, <2>4, RequestsTyped
    <2> QED
        BY <1>0, <2>1, <2>5, TranscriptTypedNow
<1>4. CASE FinishMerge(r)
    <2>1. pending[r].name \in Labels /\ pending[r].target \in SpeakerRows
        BY <1>0, <1>4 DEF FinishMerge, RequestTyped, Present
    <2>2. Counted(r) \in 0..Cardinality(Places)
        <3>1. Of(pending[r].target) \cup DOMAIN pending[r].rows \in SUBSET Places
            BY <1>0 DEF RequestTyped, Of
        <3> QED
            BY <3>1, PartCount DEF Counted
    <2>3. speaker' \in [SpeakerRows -> SpeakerFields]
        <3> DEFINE counted == [speaker EXCEPT ![pending[r].target].count = Counted(r)]
        <3>1. counted \in [SpeakerRows -> SpeakerFields]
            BY <1>0, <2>1, <2>2 DEF SpeakerFields
        <3>2. speaker' = [counted EXCEPT ![pending[r].source] = NoSpeaker]
            BY <1>4 DEF FinishMerge
        <3> HIDE DEF counted
        <3> QED
            BY <3>1, <3>2, NoSpeakerTyped
    <2>4. segment' \in [Places -> TranscriptRows]
        BY <1>0, <1>4, <2>1 DEF FinishMerge, TranscriptRows
    <2>5. typed' \subseteq Places /\ Over(r) /\ UNCHANGED <<unused, storings, overlapping>>
        BY <1>0, <1>4 DEF FinishMerge
    <2> QED
        BY <1>0, <1>1, <2>3, <2>4, <2>5, TranscriptTypedNow
<1>5. CASE SaveSegments(r)
    <2>1. DOMAIN pending[r].rows \subseteq Places
          /\ \A g \in DOMAIN pending[r].rows : pending[r].rows[g] \in TranscriptRows
        BY <1>0 DEF RequestTyped
    <2> DEFINE rows == pending[r].rows
               new(g) == [segment[g] EXCEPT !.text = rows[g].text, !.original = rows[g].original,
                                            !.edited = rows[g].edited,
                                            !.label = IF pending[r].kind = "edit" THEN rows[g].label ELSE @]
    <2>2. segment' \in [Places -> TranscriptRows]
        <3>1. segment' = [g \in Places |-> IF g \in DOMAIN rows THEN new(g) ELSE segment[g]]
            BY <1>5 DEF SaveSegments
        <3>2. ASSUME NEW g \in Places, g \in DOMAIN rows PROVE new(g) \in TranscriptRows
            <4>1. segment[g] \in TranscriptRows /\ rows[g] \in TranscriptRows
                BY <1>0, <2>1, <3>2
            <4> HIDE DEF rows
            <4> QED
                BY <4>1 DEF TranscriptRows
        <3> HIDE DEF new, rows
        <3> QED
            BY <1>0, <3>1, <3>2
    <2>3. typed' \subseteq Places /\ Over(r) /\ UNCHANGED <<speaker, unused, storings, overlapping>>
        BY <1>0, <1>5, <2>1 DEF SaveSegments
    <2> QED
        BY <1>0, <1>1, <2>2, <2>3, TranscriptTypedNow
<1>6. CASE RequestFails(r)
    <2>1. Over(r) /\ UNCHANGED <<segment, speaker, unused, storings, typed, overlapping>>
        BY <1>6 DEF RequestFails
    <2> QED
        BY <1>0, <1>1, <2>1, TranscriptTypedNow
<1>7. ASSUME NEW voice \in [Places -> SpeakerRows \cup {Nobody}], SaveDiarization(r, voice)
      PROVE  TranscriptTyped'
    <2>1. speaker' \in [SpeakerRows -> SpeakerFields]
        BY <1>7, VoicesTyped DEF SaveDiarization
    <2>2. \A g \in Places : voice[g] \in Labels
        BY DEF Labels
    <2>3. segment' \in [Places -> TranscriptRows]
        <3>1. ASSUME NEW g \in Places
              PROVE  /\ [segment[g] EXCEPT !.ref = Nobody] \in TranscriptRows
                     /\ [segment[g] EXCEPT !.ref = voice[g], !.label = voice[g]] \in TranscriptRows
            <4>1. segment[g] \in TranscriptRows /\ voice[g] \in SpeakerRows \cup {Nobody}
                BY <1>0
            <4> QED
                BY <2>2, <4>1 DEF TranscriptRows
        <3>2. \A g \in Places : segment'[g] \in
                {[segment[g] EXCEPT !.ref = Nobody],
                 [segment[g] EXCEPT !.ref = voice[g], !.label = voice[g]]}
            BY <1>7 DEF SaveDiarization
        <3>3. segment' = [g \in Places |-> segment'[g]]
            BY <1>7 DEF SaveDiarization
        <3>4. \A g \in Places : segment'[g] \in TranscriptRows
            BY <3>1, <3>2
        <3> QED
            BY <3>3, <3>4
    <2>4. /\ typed' \subseteq Places /\ unused' \subseteq SpeakerRows /\ Over(r)
          /\ UNCHANGED <<storings, overlapping>>
        BY <1>0, <1>7 DEF SaveDiarization
    <2> QED
        BY <1>0, <1>1, <2>1, <2>3, <2>4, TranscriptTypedNow
<1> QED
    BY <1>2, <1>3, <1>4, <1>5, <1>6, <1>7

\* Every step keeps the types.
LEMMA TranscriptTypedNext == AgreeInv /\ TranscriptTyped /\ [SpeakersNext]_speakersVars => TranscriptTyped'
<1> SUFFICES ASSUME AgreeInv, TranscriptTyped, [SpeakersNext]_speakersVars PROVE TranscriptTyped'
    OBVIOUS
<1>1. ASSUME NEW voice \in [Places -> SpeakerRows \cup {Nobody}], StoreAnew(voice)
      PROVE  TranscriptTyped'
    <2>1. speaker' \in [SpeakerRows -> SpeakerFields]
        BY <1>1, VoicesTyped DEF StoreAnew
    <2>2. segment' \in [Places -> TranscriptRows]
        BY <1>1, StoredTyped DEF StoreAnew
    <2>3. storings' \in 0..MaxStores
        <3>1. storings \in 0..MaxStores /\ storings < MaxStores /\ storings' = storings + 1
            BY <1>1 DEF StoreAnew, TranscriptTyped
        <3> QED
            BY <3>1, SpeakersAssumption
    <2>4. /\ typed' \subseteq Places /\ unused' \subseteq SpeakerRows /\ overlapping' \in BOOLEAN
          /\ pending' = pending
        BY <1>1 DEF StoreAnew, TranscriptTyped
    <2>5. \A q \in Edits : RequestTyped(pending'[q])
        BY <2>4 DEF TranscriptTyped
    <2> QED
        BY <2>1, <2>2, <2>3, <2>4, <2>5, TranscriptTypedNow
<1>2. CASE UNCHANGED speakersVars
    BY <1>2, TranscriptTypedNow DEF speakersVars, TranscriptTyped
<1>3. \A r \in Edits : ReadForRestore(r, Places) => \E gs \in SUBSET Places : ReadForRestore(r, gs)
    OBVIOUS
<1>4. \A r \in Edits : \A g \in Places :
        ReadForRestore(r, {g}) => \E gs \in SUBSET Places : ReadForRestore(r, gs)
    OBVIOUS
<1> QED
    BY <1>1, <1>2, <1>3, <1>4, ReadTyped, WriteTyped DEF SpeakersNext

\* Every reachable state of a transcript, its speakers and the requests on them has
\* the types SpeakersTypeOK states; a count never exceeds the segments there are.
THEOREM SpeakersTypeCorrect == SpeakersSpec => []SpeakersTypeOK
<1>1. SpeakersInit => TranscriptTyped
    <2> SUFFICES ASSUME SpeakersInit PROVE TranscriptTyped
        OBVIOUS
    <2>1. PICK voice \in [Places -> SpeakerRows \cup {Nobody}] :
            /\ speaker = RowsFor(voice) /\ unused = SpeakerRows \ HeardIn(voice)
            /\ segment = [g \in Places |->
                            [ref |-> voice[g], label |-> voice[g], text |-> Machine,
                             original |-> Nobody, edited |-> FALSE]]
        BY DEF SpeakersInit
    <2>2. /\ storings = 0 /\ pending = [r \in Edits |-> NoEdit] /\ typed = {} /\ overlapping = FALSE
        BY DEF SpeakersInit
    <2>3. speaker \in [SpeakerRows -> SpeakerFields] /\ segment \in [Places -> TranscriptRows]
        BY <2>1, VoicesTyped, StoredTyped
    <2>4. storings \in 0..MaxStores
        BY <2>2, SpeakersAssumption
    <2> QED
        BY <2>1, <2>2, <2>3, <2>4, NoEditTyped DEF TranscriptTyped
<1>2. TranscriptTyped => SpeakersTypeOK
    BY DEF TranscriptTyped, RequestTyped, TranscriptRows, SpeakerFields, Labels, SpeakersTypeOK
<1> QED
    BY <1>1, <1>2, AgreeInvInit, AgreeInvNext, TranscriptTypedNext, PTL DEF SpeakersSpec

-----------------------------------------------------------------------------
\* The fields of a recording, and of the request that is at work on it.
RecordingShape(row) == DOMAIN row = {"status", "session", "meeting", "plain", "step", "saw"}

\* A row that is not there yet has no link, and one a request is making from a
\* meeting is not there yet.
RowUnmade(row) ==
    /\ row.status = "absent" => row.session = NoMeeting /\ row.meeting = NoMeeting /\ ~ row.plain
    /\ row.step \in OwnMeetings => row.status = "absent" /\ (row.saw = "completed" => row.step \in ready)

\* A row imported once follows the meeting of its session.
RowFollows(row) ==
    row.plain =>
        /\ row.session \in Sessions /\ importSession[row.session] # "unused"
        /\ row.status # "absent" /\ row.meeting \in {NoMeeting, row.session}
        /\ /\ outcome[row.session] # "none" /\ EventsOf(row.session) = {}
           /\ row.session \notin missed \union racing
           => /\ row.meeting = row.session
              /\ row.status \in {StatusOfEvent(outcome[row.session]), "skipped", "failed"}

\* A recording is right when it follows its meeting and is ready with it.
RowRight(row) ==
    /\ RecordingShape(row) /\ RowUnmade(row) /\ RowFollows(row) /\ row.plain \in BOOLEAN
    /\ row.status = "ready" => row.meeting \in ready

\* An event not handled yet is of a meeting that is ready if it says so; and where
\* no jobs ended together, it is the only one, and of the job that ended last.
EventRight(e) ==
    /\ e.meeting \in Meetings
    /\ e.how = "completed" => e.meeting \in ready
    /\ e.meeting \notin racing =>
          EventsOf(e.meeting) = {e} /\ outcome[e.meeting] \in {"none", e.how}

\* Every recording is right, so is every event, and a meeting that completed is ready.
FollowInv ==
    /\ DOMAIN recording = Recordings
    /\ DOMAIN importSession = Sessions /\ DOMAIN outcome = Meetings
    /\ \A e \in unread : EventRight(e)
    /\ \A s \in Sessions : importSession[s] = "unused" => outcome[s] = "none"
    /\ \A m \in Meetings : outcome[m] = "completed" => m \in ready
    /\ \A r \in Recordings : RowRight(recording[r])

\* There is no recording at first.
LEMMA FollowInvInit == BenchmarksInit => FollowInv
<1> SUFFICES ASSUME BenchmarksInit PROVE FollowInv
    OBVIOUS
<1>1. ASSUME NEW r \in Recordings PROVE RowRight(recording[r])
    <2>1. recording[r] = [status |-> "absent", session |-> NoMeeting, meeting |-> NoMeeting,
                           plain |-> FALSE, step |-> "idle", saw |-> "none"]
        BY DEF BenchmarksInit
    <2>2. /\ RecordingShape(recording[r]) /\ recording[r].status = "absent"
          /\ recording[r].session = NoMeeting /\ recording[r].meeting = NoMeeting
          /\ recording[r].plain = FALSE /\ recording[r].step = "idle"
        BY <2>1 DEF RecordingShape
    <2> QED
        BY <2>2, BenchmarksAssumption DEF RowRight, RowUnmade, RowFollows
<1> QED
    BY <1>1 DEF BenchmarksInit, FollowInv, Meetings

\* An action on one recording, and perhaps on the session it starts.
LEMMA OneRowFollows ==
    ASSUME FollowInv, NEW r \in Recordings, NEW row, recording' = [recording EXCEPT ![r] = row],
           RecordingShape(row), RowUnmade(row), row.plain \in BOOLEAN,
           row.status = "ready" => row.meeting \in ready,
           RowFollows(row)',
           UNCHANGED meetingVars,
           DOMAIN importSession' = Sessions,
           \A s \in Sessions : importSession'[s] = "unused" => importSession[s] = "unused"
    PROVE  FollowInv'
<1>1. DOMAIN recording' = Recordings /\ recording'[r] = row
      /\ \A q \in Recordings : q # r => recording'[q] = recording[q]
    BY DEF FollowInv
<1>2. ASSUME NEW q \in Recordings PROVE RowRight(recording[q])'
    <2>1. CASE q = r
        BY <1>1, <2>1 DEF RowRight, RecordingShape, RowUnmade, RowFollows, StatusOfEvent, EventsOf, meetingVars
    <2>2. CASE q # r
        BY <1>1, <2>2 DEF FollowInv, RowRight, RecordingShape, RowUnmade, RowFollows, StatusOfEvent, EventsOf, meetingVars
    <2> QED
        BY <2>1, <2>2
<1>3. \A e \in unread : EventRight(e)'
    BY DEF FollowInv, EventRight, EventsOf, Meetings, meetingVars
<1> QED
    BY <1>1, <1>2, <1>3 DEF FollowInv, Meetings, meetingVars

\* An import takes a session nobody used.
LEMMA ImportFollows ==
    ASSUME FollowInv, NEW r \in Recordings, NEW s \in Sessions, ImportRecording(r, s)
    PROVE  FollowInv'
<1>0. PICK row : row = Importing(r, s, Unlinked(r))
    OBVIOUS
<1>1. RowRight(recording[r])
    BY DEF FollowInv
<1>2. recording' = [recording EXCEPT ![r] = row] /\ UNCHANGED meetingVars
      /\ DOMAIN importSession' = Sessions /\ importSession'[s] = "running" /\ outcome[s] = "none"
      /\ \A q \in Sessions : importSession'[q] = "unused" => importSession[q] = "unused"
    BY <1>0 DEF ImportRecording, FollowInv
<1>3. /\ RecordingShape(row) /\ row.status = "importing" /\ row.session = s /\ row.step = "idle"
      /\ row.plain = Unlinked(r) /\ row.meeting = recording[r].meeting
    BY <1>0, <1>1 DEF RowRight, RecordingShape, Importing
<1>4. RowUnmade(row) /\ (row.status = "ready" => row.meeting \in ready) /\ row.plain \in BOOLEAN
    BY <1>3, BenchmarksAssumption DEF RowUnmade, Unlinked
<1>5. RowFollows(row)'
    BY <1>2, <1>3 DEF RowFollows, Unlinked, meetingVars
<1> QED
    BY <1>2, <1>3, <1>4, <1>5, OneRowFollows

\* The import command reads the meeting before it writes the row.
LEMMA CommandFollows ==
    ASSUME FollowInv, NEW r \in Recordings, CommandSavesRecording(r)
    PROVE  FollowInv'
<1>0. PICK row : row = Importing(r, recording[r].step, FALSE)
    OBVIOUS
<1>1. RowRight(recording[r])
    BY DEF FollowInv
<1>2. recording' = [recording EXCEPT ![r] = row] /\ UNCHANGED <<importSession, meetingVars>>
      /\ DOMAIN importSession' = Sessions
    BY <1>0 DEF CommandSavesRecording, FollowInv
<1>3. RecordingShape(row) /\ row.status = "importing" /\ row.step = "idle" /\ row.plain = FALSE
    BY <1>0, <1>1 DEF RowRight, RecordingShape, Importing
<1>4. RowUnmade(row) /\ (row.status = "ready" => row.meeting \in ready) /\ row.plain \in BOOLEAN
    BY <1>3, BenchmarksAssumption DEF RowUnmade
<1>5. RowFollows(row)'
    BY <1>2, <1>3 DEF RowFollows
<1> QED
    BY <1>2, <1>3, <1>4, <1>5, OneRowFollows

\* The row is read, or its status is set; its links stay.
LEMMA RowTouched ==
    ASSUME FollowInv, NEW r \in Recordings, NEW row, recording' = [recording EXCEPT ![r] = row],
           RecordingShape(row), RowUnmade(row), row.plain = recording[r].plain,
           row.session = recording[r].session, row.meeting = recording[r].meeting,
           \/ row.status = recording[r].status
           \/ (~ row.plain /\ row.status # "ready")
           \/ row.status \in {"skipped", "failed"},
           UNCHANGED meetingVars,
           DOMAIN importSession' = Sessions,
           \A s \in Sessions : importSession'[s] = "unused" => importSession[s] = "unused"
    PROVE  FollowInv'
<1>1. RowRight(recording[r])
    BY DEF FollowInv
<1>2. RowFollows(row)' /\ row.plain \in BOOLEAN /\ (row.status = "ready" => row.meeting \in ready)
    BY <1>1 DEF RowRight, RowFollows, StatusOfEvent, EventsOf, meetingVars
<1> QED
    BY <1>2, OneRowFollows

\* Every step of a request on one recording.
LEMMA RowActionFollows ==
    ASSUME FollowInv, NEW r \in Recordings,
           \/ Seed(r) \/ RefuseImport(r) \/ CreateFromMeeting(r)
           \/ \E s \in Sessions : CommandCreatesImport(r, s)
           \/ \E m \in OwnMeetings : ReadMeeting(r, m)
    PROVE  FollowInv'
<1>1. RowRight(recording[r]) /\ DOMAIN importSession = Sessions
      /\ \A m \in Meetings : outcome[m] = "completed" => m \in ready
    BY DEF FollowInv
<1>2. CASE Seed(r)
    <2>0. PICK row : row = [recording[r] EXCEPT !.status = "pending"]
        OBVIOUS
    <2>1. recording' = [recording EXCEPT ![r] = row] /\ UNCHANGED <<importSession, meetingVars>>
        BY <2>0, <1>2 DEF Seed, FollowInv
    <2>2. /\ RecordingShape(row) /\ row.plain = recording[r].plain /\ row.step = recording[r].step
          /\ row.session = recording[r].session /\ row.meeting = recording[r].meeting
          /\ row.status = "pending" /\ recording[r].status = "absent" /\ recording[r].step = "idle"
        BY <1>1, <1>2, <2>0 DEF Seed, Idle, RowRight, RecordingShape
    <2>3. RowUnmade(row) /\ ~ row.plain
        BY <1>1, <2>2, BenchmarksAssumption DEF RowRight, RowUnmade
    <2> QED
        BY <1>1, <2>1, <2>2, <2>3, RowTouched
<1>3. CASE RefuseImport(r)
    <2>1. PICK status \in {"skipped", "failed"} : recording' = [recording EXCEPT ![r].status = status]
        BY <1>3 DEF RefuseImport
    <2>0. PICK row : row = [recording[r] EXCEPT !.status = status]
        OBVIOUS
    <2>2. recording' = [recording EXCEPT ![r] = row] /\ UNCHANGED <<importSession, meetingVars>>
        BY <1>3, <2>0, <2>1 DEF RefuseImport, FollowInv
    <2>3. /\ RecordingShape(row) /\ row.plain = recording[r].plain /\ row.step = recording[r].step
          /\ row.session = recording[r].session /\ row.meeting = recording[r].meeting
          /\ row.status = status /\ recording[r].step = "idle"
        BY <1>1, <1>3, <2>0 DEF RefuseImport, Imports, Idle, RowRight, RecordingShape
    <2>4. RowUnmade(row)
        BY <2>3, BenchmarksAssumption DEF RowUnmade
    <2> QED
        BY <1>1, <2>2, <2>3, <2>4, RowTouched
<1>4. CASE CreateFromMeeting(r)
    <2>0. PICK row : row = [recording[r] EXCEPT !.status = StatusOfMeeting(recording[r].saw),
                             !.meeting = recording[r].step, !.step = "idle"]
        OBVIOUS
    <2>1. recording' = [recording EXCEPT ![r] = row] /\ UNCHANGED <<importSession, meetingVars>>
        BY <2>0, <1>4 DEF CreateFromMeeting, FollowInv
    <2>2. /\ RecordingShape(row) /\ row.plain = recording[r].plain /\ row.step = "idle"
          /\ row.meeting = recording[r].step /\ row.status = StatusOfMeeting(recording[r].saw)
          /\ recording[r].step \in OwnMeetings
        BY <1>1, <1>4, <2>0 DEF CreateFromMeeting, RowRight, RecordingShape
    <2>3. ~ row.plain /\ RowUnmade(row) /\ (row.status = "ready" => row.meeting \in ready)
        BY <1>1, <2>2, BenchmarksAssumption DEF RowRight, RowUnmade, StatusOfMeeting
    <2>4. RowFollows(row)' /\ row.plain \in BOOLEAN
        BY <1>1, <2>2, <2>3 DEF RowFollows, RowRight
    <2> QED
        BY <1>1, <2>1, <2>2, <2>3, <2>4, OneRowFollows
<1>5. ASSUME NEW s \in Sessions, CommandCreatesImport(r, s) PROVE FollowInv'
    <2>0. PICK row : row = [recording[r] EXCEPT !.step = s]
        OBVIOUS
    <2>1. recording' = [recording EXCEPT ![r] = row] /\ UNCHANGED meetingVars
          /\ DOMAIN importSession' = Sessions
          /\ \A q \in Sessions : importSession'[q] = "unused" => importSession[q] = "unused"
        BY <2>0, <1>5 DEF CommandCreatesImport, FollowInv
    <2>2. /\ RecordingShape(row) /\ row.plain = recording[r].plain /\ row.step = s
          /\ row.session = recording[r].session /\ row.meeting = recording[r].meeting
          /\ row.status = recording[r].status /\ recording[r].status # "absent"
        BY <1>1, <1>5, <2>0 DEF CommandCreatesImport, Imports, RowRight, RecordingShape
    <2>3. RowUnmade(row)
        BY <2>2, BenchmarksAssumption DEF RowUnmade
    <2>4. RowFollows(row)' /\ row.plain \in BOOLEAN /\ (row.status = "ready" => row.meeting \in ready)
        BY <1>1, <2>1, <2>2 DEF RowRight, RowFollows, StatusOfEvent, EventsOf, meetingVars
    <2> QED
        BY <2>1, <2>2, <2>3, <2>4, OneRowFollows
<1>6. ASSUME NEW m \in OwnMeetings, ReadMeeting(r, m) PROVE FollowInv'
    <2>0. PICK row : row = [recording[r] EXCEPT !.step = m, !.saw = outcome[m]]
        OBVIOUS
    <2>1. recording' = [recording EXCEPT ![r] = row] /\ UNCHANGED <<importSession, meetingVars>>
        BY <2>0, <1>6 DEF ReadMeeting, FollowInv
    <2>2. /\ RecordingShape(row) /\ row.plain = recording[r].plain /\ row.step = m /\ row.saw = outcome[m]
          /\ row.session = recording[r].session /\ row.meeting = recording[r].meeting
          /\ row.status = recording[r].status /\ recording[r].status = "absent"
        BY <1>1, <1>6, <2>0 DEF ReadMeeting, RowRight, RecordingShape
    <2>3. RowUnmade(row)
        BY <1>1, <2>2 DEF RowUnmade, RowRight, Meetings
    <2> QED
        BY <1>1, <2>1, <2>2, <2>3, RowTouched
<1> QED
    BY <1>2, <1>3, <1>4, <1>5, <1>6

\* Every step of a meeting and its job.
LEMMA MeetingActionFollows ==
    ASSUME FollowInv,
           \/ \E s \in Sessions : SessionSteps(s)
           \/ \E m \in Meetings : JobEnds(m) \/ JobStarts(m)
    PROVE  FollowInv'
<1>1. ASSUME NEW s \in Sessions, SessionSteps(s) PROVE FollowInv'
    <2>1. /\ UNCHANGED <<recording, outcome, unread, ready, missed, racing>>
          /\ DOMAIN importSession' = Sessions
          /\ \A q \in Sessions : importSession'[q] = "unused" => importSession[q] = "unused"
        BY <1>1 DEF SessionSteps, FollowInv, meetingVars
    <2>2. \A r \in Recordings : RowRight(recording[r])'
        BY <2>1 DEF FollowInv, RowRight, RecordingShape, RowUnmade, RowFollows, StatusOfEvent, EventsOf
    <2>3. \A e \in unread : EventRight(e)'
        BY <2>1 DEF FollowInv, EventRight, EventsOf, Meetings
    <2> QED
        BY <2>1, <2>2, <2>3 DEF FollowInv, Meetings
<1>2. ASSUME NEW m \in Meetings, JobEnds(m) PROVE FollowInv'
    <2>1. PICK how \in {"completed", "failed"} :
            /\ outcome' = [outcome EXCEPT ![m] = how]
            /\ ready' = IF how = "completed" THEN ready \union {m} ELSE ready
            /\ unread' = unread \union {[meeting |-> m, job |-> jobs', how |-> how]}
        BY <1>2 DEF JobEnds
    <2>2. /\ UNCHANGED <<recording, importSession, missed>>
          /\ racing' = IF EventsOf(m) = {} THEN racing \ {m} ELSE racing \union {m}
          /\ m \in Sessions => importSession[m] # "unused"
        BY <1>2 DEF JobEnds, Uploaded
    <2>3. /\ DOMAIN outcome' = Meetings /\ outcome'[m] = how /\ ready \subseteq ready'
          /\ \A q \in Meetings : q # m => outcome'[q] = outcome[q]
        BY <2>1 DEF FollowInv
    <2>4. PICK new : new = [meeting |-> m, job |-> jobs', how |-> how]
        OBVIOUS
    <2>5. unread' = unread \union {new} /\ new.meeting = m /\ new.how = how
        BY <2>1, <2>4
    <2>6. /\ EventsOf(m)' = EventsOf(m) \union {new}
          /\ \A q \in Meetings : q # m => EventsOf(q)' = EventsOf(q)
        BY <2>5 DEF EventsOf
    <2>7. ASSUME NEW e \in unread' PROVE EventRight(e)'
        <3>1. CASE e = new
            BY <2>1, <2>2, <2>3, <2>5, <2>6, <3>1 DEF EventRight, Meetings
        <3>2. CASE e # new /\ e.meeting = m
            <4>1. e \in EventsOf(m) /\ EventRight(e) /\ m \in racing'
                BY <2>2, <2>5, <3>2 DEF EventsOf, FollowInv
            <4> QED
                BY <2>3, <3>2, <4>1 DEF EventRight, Meetings
        <3>3. CASE e # new /\ e.meeting # m
            <4>1. EventRight(e) /\ (e.meeting \in racing <=> e.meeting \in racing')
                BY <2>2, <2>5, <3>3 DEF FollowInv
            <4> QED
                BY <2>3, <2>6, <3>3, <4>1 DEF EventRight, Meetings
        <3> QED
            BY <3>1, <3>2, <3>3
    <2>8. ASSUME NEW r \in Recordings PROVE RowRight(recording[r])'
        <3>1. RowRight(recording[r]) /\ recording'[r] = recording[r]
            BY <2>2 DEF FollowInv
        <3>2. RowUnmade(recording[r])' /\ (recording'[r].status = "ready" => recording'[r].meeting \in ready')
            BY <2>3, <3>1 DEF RowRight, RowUnmade
        <3>3. RowFollows(recording[r])'
            <4>1. CASE recording[r].session = m
                BY <2>2, <2>6, <3>1, <4>1 DEF RowRight, RowFollows
            <4>2. CASE recording[r].session # m
                <5>1. recording[r].session \in racing <=> recording[r].session \in racing'
                    BY <2>2, <4>2
                <5> QED
                    BY <2>2, <2>3, <2>6, <3>1, <4>2, <5>1 DEF RowRight, RowFollows, StatusOfEvent, Meetings
            <4> QED
                BY <4>1, <4>2
        <3> QED
            BY <3>1, <3>2, <3>3 DEF RowRight, RecordingShape
    <2>9. \A q \in Meetings : outcome'[q] = "completed" => q \in ready'
        BY <2>1, <2>3 DEF FollowInv
    <2>10. \A s \in Sessions : importSession'[s] = "unused" => outcome'[s] = "none"
        BY <2>2, <2>3 DEF FollowInv, Meetings
    <2> QED
        BY <2>2, <2>3, <2>7, <2>8, <2>9, <2>10 DEF FollowInv, Meetings
<1>3. ASSUME NEW m \in Meetings, JobStarts(m) PROVE FollowInv'
    <2>1. /\ UNCHANGED <<recording, importSession, unread, ready, missed, racing>>
          /\ DOMAIN outcome' = Meetings /\ outcome'[m] = "none"
          /\ \A q \in Meetings : q # m => outcome'[q] = outcome[q]
        BY <1>3 DEF JobStarts, FollowInv
    <2>2. \A e \in unread : EventRight(e)'
        BY <2>1 DEF FollowInv, EventRight, EventsOf, Meetings
    <2>3. ASSUME NEW r \in Recordings PROVE RowRight(recording[r])'
        <3>1. RowRight(recording[r]) /\ recording'[r] = recording[r]
            BY <2>1 DEF FollowInv
        <3>2. RowFollows(recording[r])'
            BY <2>1, <3>1 DEF RowRight, RowFollows, StatusOfEvent, EventsOf, Meetings
        <3> QED
            BY <2>1, <3>1, <3>2 DEF RowRight, RecordingShape, RowUnmade
    <2> QED
        BY <2>1, <2>2, <2>3 DEF FollowInv, Meetings
<1> QED
    BY <1>1, <1>2, <1>3

\* The other events of a meeting stay right when one is no longer there.
LEMMA EventsStayRight ==
    ASSUME FollowInv, NEW e \in unread, unread' = unread \ {e},
           UNCHANGED <<importSession, outcome, ready, racing>>
    PROVE  \A d \in unread' : EventRight(d)'
<1> TAKE d \in unread'
<1>1. EventRight(d) /\ d # e
    BY DEF FollowInv
<1>2. d.meeting \notin racing => EventsOf(d.meeting)' = {d}
    <2> SUFFICES ASSUME d.meeting \notin racing PROVE EventsOf(d.meeting)' = {d}
        OBVIOUS
    <2>1. EventsOf(d.meeting) = {d}
        BY <1>1 DEF EventRight
    <2> QED
        BY <1>1, <2>1 DEF EventsOf
<1> QED
    BY <1>1, <1>2 DEF EventRight, Meetings

\* An event that nobody handles leaves its meeting missed.
LEMMA MissFollows ==
    ASSUME FollowInv, NEW e \in unread, MissEvent(e)
    PROVE  FollowInv'
<1>1. /\ UNCHANGED <<recording, importSession, outcome, ready, racing>>
      /\ unread' = unread \ {e} /\ missed' = missed \union {e.meeting}
    BY DEF MissEvent
<1>2. \A d \in unread' : EventRight(d)'
    BY <1>1, EventsStayRight
<1>3. ASSUME NEW r \in Recordings PROVE RowRight(recording[r])'
    <2>1. RowRight(recording[r]) /\ recording'[r] = recording[r]
        BY <1>1 DEF FollowInv
    <2>2. RowFollows(recording[r])'
        <3>1. CASE recording[r].session = e.meeting
            BY <1>1, <2>1, <3>1 DEF RowRight, RowFollows
        <3>2. CASE recording[r].session # e.meeting
            <4>1. EventsOf(recording[r].session)' = EventsOf(recording[r].session)
                BY <1>1, <2>1, <3>2 DEF EventsOf
            <4> QED
                BY <1>1, <2>1, <3>2, <4>1 DEF RowRight, RowFollows, StatusOfEvent
        <3> QED
            BY <3>1, <3>2
    <2> QED
        BY <1>1, <2>1, <2>2 DEF RowRight, RecordingShape, RowUnmade
<1> QED
    BY <1>1, <1>2, <1>3 DEF FollowInv, Meetings

\* The event of a meeting reaches the recordings that are linked to it.
LEMMA EventFollows ==
    ASSUME FollowInv, NEW e \in unread, UpdateRecordings(e)
    PROVE  FollowInv'
<1> DEFINE m == e.meeting
           Reached(r) == LinkedMeeting(r, m) = m /\ recording[r].status # "absent"
<1>1. /\ UNCHANGED <<importSession, outcome, ready, racing>> /\ unread' = unread \ {e}
      /\ recording' = [r \in Recordings |->
            IF Reached(r) THEN [recording[r] EXCEPT !.meeting = m, !.status = StatusOfEvent(e.how)]
            ELSE recording[r]]
      /\ missed' = IF m \in Sessions /\ importSession[m] # "landed" THEN missed \union {m} ELSE missed \ {m}
    BY DEF UpdateRecordings
<1>2. EventRight(e) /\ m \in Meetings
    BY DEF FollowInv, EventRight
<1>0. /\ importSession' = importSession /\ outcome' = outcome /\ ready' = ready /\ racing' = racing
      /\ m \notin missed' => m \notin Sessions \/ importSession[m] = "landed"
    BY <1>1
<1>6. StatusOfEvent(e.how) \in {"ready", "failed"} /\ (StatusOfEvent(e.how) = "ready" => m \in ready)
    BY <1>2 DEF EventRight, StatusOfEvent
<1>3. \A d \in unread' : EventRight(d)'
    BY <1>1, EventsStayRight
<1>4. ASSUME NEW r \in Recordings PROVE RowRight(recording[r])'
    <2>1. RowRight(recording[r])
        BY DEF FollowInv
    <2>2. CASE Reached(r)
        <3>1. recording'[r] = [recording[r] EXCEPT !.meeting = m, !.status = StatusOfEvent(e.how)]
            BY <1>1, <2>2
        <3>2. /\ RecordingShape(recording'[r]) /\ recording'[r].meeting = m
              /\ recording'[r].status = StatusOfEvent(e.how) /\ recording'[r].plain = recording[r].plain
              /\ recording'[r].session = recording[r].session /\ recording'[r].step = recording[r].step
              /\ recording'[r].saw = recording[r].saw
            BY <2>1, <3>1 DEF RowRight, RecordingShape
        <3>3. RowUnmade(recording[r])'
            BY <1>0, <1>6, <2>1, <2>2, <3>2 DEF RowRight, RowUnmade
        <3>4. recording'[r].status = "ready" => recording'[r].meeting \in ready'
            BY <1>0, <1>6, <3>2
        <3>5. RowFollows(recording[r])'
            <4>1. recording[r].plain => recording[r].session = m
                BY <1>2, <2>1, <2>2, BenchmarksAssumption DEF RowRight, RowFollows, LinkedMeeting, Meetings
            <4>2. recording[r].plain => recording[r].session \in Sessions /\ importSession[recording[r].session] # "unused"
                BY <2>1 DEF RowRight, RowFollows
            <4>3. outcome[m] # "none" /\ m \notin racing => outcome[m] = e.how
                BY <1>2 DEF EventRight
            <4>4. recording'[r].status # "absent"
                BY <1>6, <3>2
            <4> QED
                BY <1>0, <1>2, <3>2, <4>1, <4>2, <4>3, <4>4 DEF RowFollows
        <3> QED
            BY <2>1, <3>2, <3>3, <3>4, <3>5 DEF RowRight
    <2>3. CASE ~ Reached(r)
        <3>1. recording'[r] = recording[r]
            BY <1>1, <2>3
        <3>2. RowFollows(recording[r])'
            <4>1. CASE recording[r].plain /\ recording[r].session = m
                <5>1. importSession[m] # "landed" /\ m \in Sessions
                    BY <2>1, <2>3, <4>1 DEF RowRight, RowFollows, LinkedMeeting
                <5>2. m \in missed'
                    BY <1>1, <5>1
                <5> QED
                    BY <1>1, <2>1, <3>1, <4>1, <5>2 DEF RowRight, RowFollows
            <4>2. CASE ~ recording[r].plain
                BY <3>1, <4>2 DEF RowFollows
            <4>3. CASE recording[r].plain /\ recording[r].session # m
                <5>1. EventsOf(recording[r].session)' = EventsOf(recording[r].session)
                    BY <1>1, <2>1, <3>1, <4>3 DEF EventsOf
                <5>2. recording[r].session \notin missed' => recording[r].session \notin missed
                    BY <1>1, <4>3
                <5> QED
                    BY <1>0, <2>1, <3>1, <4>3, <5>1, <5>2 DEF RowRight, RowFollows, StatusOfEvent
            <4> QED
                BY <4>1, <4>2, <4>3
        <3> QED
            BY <1>1, <2>1, <3>1, <3>2 DEF RowRight, RecordingShape, RowUnmade
    <2> QED
        BY <2>2, <2>3
<1>5. DOMAIN recording' = Recordings
    BY <1>1
<1> QED
    BY <1>1, <1>3, <1>4, <1>5 DEF FollowInv, Meetings

\* Every step keeps the recordings with their meetings.
LEMMA FollowInvNext == FollowInv /\ [BenchmarksNext]_benchmarkVars => FollowInv'
<1> SUFFICES ASSUME FollowInv, [BenchmarksNext]_benchmarkVars PROVE FollowInv'
    OBVIOUS
<1>1. CASE UNCHANGED benchmarkVars
    <2>1. \A e \in unread : EventRight(e)'
        BY <1>1 DEF benchmarkVars, meetingVars, FollowInv, EventRight, EventsOf, Meetings
    <2>2. \A r \in Recordings : RowRight(recording[r])'
        BY <1>1 DEF benchmarkVars, meetingVars, FollowInv, RowRight, RecordingShape, RowUnmade, RowFollows, StatusOfEvent, EventsOf
    <2> QED
        BY <1>1, <2>1, <2>2 DEF benchmarkVars, meetingVars, FollowInv, Meetings
<1> QED
    BY <1>1, ImportFollows, CommandFollows, RowActionFollows, MeetingActionFollows, EventFollows, MissFollows
       DEF BenchmarksNext

\* However many recordings and sessions there are, a recording that was imported once
\* follows its meeting once the event of its last job was handled, unless that came
\* before the session knew the meeting or was lost, or two jobs ended together
\* (benchmarks/subscribers.py, _update_recordings).
THEOREM RecordingsFollow == BenchmarksSpec => []RecordingFollowsMeeting
<1>1. FollowInv => RecordingFollowsMeeting
    BY DEF FollowInv, RowRight, RowFollows, RecordingFollowsMeeting
<1> QED
    BY FollowInvInit, FollowInvNext, <1>1, PTL DEF BenchmarksSpec

-----------------------------------------------------------------------------
\* What AI_SUGGESTION_MODE is set to.
DemoModes == {"configured", "auto_high", "suggestions_only"}

\* A reset that ends has uploaded every recording, and only such a one is there.
AllUploaded ==
    /\ \A s \in Seeders :
         /\ meetings[s] \in Seq(DemoModes) /\ Len(meetings[s]) <= DemoRecordings
         /\ progress[s] = "set" => Len(meetings[s]) < DemoRecordings
         /\ progress[s] = "restored" => Len(meetings[s]) = DemoRecordings
    /\ account \in DemoResets =>
         progress[account] = "over" /\ Len(meetings[account]) = DemoRecordings

\* A reset that crossed no other has the process to itself.
InItsMode ==
    \A s \in DemoResets \ crossing :
        /\ s \in Seeding => Seeding = {s}
        /\ \A i \in 1..Len(meetings[s]) : meetings[s][i] = Planned(i)
        /\ progress[s] = "set" => aiMode = Planned(Len(meetings[s]) + 1)

\* As long as no two crossed, the one under way remembers the process as it was.
PutBack ==
    crossing = {} =>
        /\ \A j \in Uploads : job[j] # "stuck"
        /\ Seeding = {} => dispatch = "send" /\ aiMode = "configured"
        /\ \A s \in Seeding : previous[s].dispatch = "send" /\ previous[s].mode = "configured"

\* The invariant of the resets, with the types its parts need.
ResetInv ==
    /\ DOMAIN meetings = Seeders /\ DOMAIN progress = Seeders /\ DOMAIN previous = Seeders
    /\ DOMAIN job = Uploads /\ aiMode \in DemoModes
    /\ \A s \in Seeders : previous[s].mode \in DemoModes
    /\ AllUploaded /\ InItsMode /\ PutBack

\* A reset sets one of the modes.
LEMMA PlannedMode == \A i : Planned(i) \in DemoModes
BY DEF Planned, DemoModes

\* Nothing has been patched when the process starts.
LEMMA ResetInvInit == DemoInit => ResetInv
<1> SUFFICES ASSUME DemoInit PROVE ResetInv
    OBVIOUS
<1>1. \A s \in Seeders : meetings[s] = <<>> /\ progress[s] = "idle"
    BY DEF DemoInit
<1>2. AllUploaded
    BY <1>1, DemoAssumption DEF AllUploaded, DemoInit, Seeders
<1>3. Seeding = {}
    BY <1>1 DEF Seeding, Seeders
<1>4. InItsMode /\ PutBack
    BY <1>1, <1>3 DEF InItsMode, PutBack, DemoInit, Seeders
<1> QED
    BY <1>2, <1>4 DEF DemoInit, ResetInv, Patch, DemoModes

\* The reset with nothing crossing it is the only one under way.
LEMMA Alone ==
    ASSUME ResetInv, NEW s \in DemoResets, NEW r \in DemoResets, s \in Seeding, r \in Seeding, s \notin crossing
    PROVE  r = s
BY DEF ResetInv, InItsMode

\* A reset that has set the mode is under way.
LEMMA SetsMode ==
    ASSUME NEW s \in Seeders, progress[s] = "set", s \in DemoResets
    PROVE  s \in Seeding
BY DEF Seeding

\* A step that touches neither meetings nor the process.
LEMMA ProgressOnly ==
    ASSUME ResetInv, NEW s \in Seeders, NEW p,
           progress' = [progress EXCEPT ![s] = p],
           p \in {"looked", "seeding"} /\ progress[s] \in {"patched", "looked"},
           UNCHANGED <<meetings, dispatch, aiMode, previous, job, crossing>>,
           account' = account \/ account' \notin DemoResets
    PROVE  ResetInv'
<1>1. /\ DOMAIN progress' = Seeders /\ progress'[s] = p
      /\ \A r \in Seeders : r # s => progress'[r] = progress[r]
    BY DEF ResetInv
<1>2. Seeding' = Seeding
    BY <1>1 DEF Seeding, Seeders
<1>3. AllUploaded'
    BY <1>1 DEF ResetInv, AllUploaded, Seeders
<1>4. InItsMode' /\ PutBack'
    BY <1>1, <1>2 DEF ResetInv, InItsMode, PutBack, Planned, Seeders
<1> QED
    BY <1>1, <1>3, <1>4 DEF ResetInv, Seeders

\* A reset begins: it patches the dispatch and remembers what it found.
LEMMA StartReset ==
    ASSUME ResetInv, NEW s \in Seeders, StartSeeding(s)
    PROVE  ResetInv'
<1>1. /\ DOMAIN progress' = Seeders /\ progress'[s] = "patched" /\ progress[s] = "idle"
      /\ \A r \in Seeders : r # s => progress'[r] = progress[r]
      /\ account' = account /\ meetings' = meetings /\ job' = job
    BY DEF ResetInv, StartSeeding
<1>2. AllUploaded'
    BY <1>1 DEF ResetInv, AllUploaded, Seeders
<1>3. CASE s \in DemoResets
    <2>1. /\ previous' = [previous EXCEPT ![s] = [dispatch |-> dispatch, mode |-> aiMode]]
          /\ dispatch' = "drop" /\ aiMode' = "auto_high"
          /\ crossing' = IF Seeding = {} THEN crossing ELSE crossing \cup Seeding \cup {s}
        BY <1>3 DEF StartSeeding
    <2>2. Seeding' = Seeding \cup {s} /\ s \notin Seeding
        BY <1>1, <1>3 DEF Seeding, Seeders
    <2>3. /\ DOMAIN previous' = Seeders
          /\ previous'[s].dispatch = dispatch /\ previous'[s].mode = aiMode
          /\ \A r \in Seeders : r # s => previous'[r] = previous[r]
        BY <2>1 DEF ResetInv
    <2>4. InItsMode'
        <3> SUFFICES ASSUME NEW r \in DemoResets, r \notin crossing'
                     PROVE  /\ r \in Seeding' => Seeding' = {r}
                            /\ \A i \in 1..Len(meetings[r]) : meetings[r][i] = Planned(i)
                            /\ progress'[r] = "set" => aiMode' = Planned(Len(meetings[r]) + 1)
            BY <1>1 DEF InItsMode, Planned
        <3>1. r \notin crossing /\ (Seeding # {} => r \notin Seeding')
            BY <2>1, <2>2
        <3>2. progress'[r] # "set"
            BY <1>1, <3>1, <2>2 DEF Seeding, Seeders
        <3> QED
            BY <2>2, <3>1, <3>2 DEF ResetInv, InItsMode
    <2>5. PutBack'
        <3> SUFFICES ASSUME crossing' = {} PROVE PutBack'
            BY DEF PutBack
        <3>1. Seeding = {} /\ crossing = {}
            BY <2>1
        <3> QED
            BY <1>1, <2>2, <2>3, <3>1 DEF ResetInv, PutBack, Seeding
    <2> QED
        BY <1>1, <1>2, <2>1, <2>3, <2>4, <2>5 DEF ResetInv, DemoModes, Seeders
<1>4. CASE s \notin DemoResets
    <2>1. UNCHANGED <<previous, dispatch, aiMode, crossing>>
        BY <1>4 DEF StartSeeding
    <2>2. Seeding' = Seeding
        BY <1>1, <1>4 DEF Seeding, Seeders
    <2>3. InItsMode' /\ PutBack'
        BY <1>1, <1>4, <2>1, <2>2 DEF ResetInv, InItsMode, PutBack, Planned, Seeders
    <2> QED
        BY <1>1, <1>2, <2>1, <2>3 DEF ResetInv, Seeders
<1> QED
    BY <1>3, <1>4

\* A reset sets the mode, uploads a recording and goes on.
LEMMA UploadReset ==
    ASSUME ResetInv, NEW s \in Seeders, UploadNext(s)
    PROVE  ResetInv'
<1>1. /\ DOMAIN progress' = Seeders /\ progress'[s] = "set" /\ progress[s] = "seeding"
      /\ \A r \in Seeders : r # s => progress'[r] = progress[r]
      /\ Len(meetings[s]) < DemoRecordings
      /\ UNCHANGED <<account, meetings, dispatch, previous, job, crossing>>
    BY DEF ResetInv, UploadNext
<1>2. aiMode' = IF s \in DemoResets THEN Planned(Len(meetings[s]) + 1) ELSE aiMode
    BY DEF UploadNext
<1>3. AllUploaded'
    BY <1>1 DEF ResetInv, AllUploaded, Seeders
<1>4. Seeding' = Seeding /\ (s \in DemoResets => s \in Seeding)
    BY <1>1 DEF Seeding, Seeders
<1>5. InItsMode'
    <2> SUFFICES ASSUME NEW r \in DemoResets, r \notin crossing
                 PROVE  /\ r \in Seeding => Seeding = {r}
                        /\ \A i \in 1..Len(meetings[r]) : meetings[r][i] = Planned(i)
                        /\ progress'[r] = "set" => aiMode' = Planned(Len(meetings[r]) + 1)
        BY <1>1, <1>4 DEF InItsMode, Planned
    <2>1. CASE r = s
        BY <1>2, <2>1 DEF ResetInv, InItsMode
    <2>2. CASE r # s
        <3>1. progress'[r] = progress[r]
            BY <1>1, <2>2 DEF Seeders
        <3>2. progress[r] = "set" => s \notin DemoResets
            BY <1>4, <2>2, Alone DEF Seeding
        <3> QED
            BY <1>2, <3>1, <3>2 DEF ResetInv, InItsMode
    <2> QED
        BY <2>1, <2>2
<1>6. PutBack'
    BY <1>1, <1>2, <1>4 DEF ResetInv, PutBack, Seeding
<1>7. aiMode' \in DemoModes
    BY <1>2, PlannedMode DEF ResetInv
<1> QED
    BY <1>1, <1>3, <1>5, <1>6, <1>7 DEF ResetInv, Seeders

\* A reset processes what it uploaded, restores what it remembers and ends.
LEMMA ProcessReset ==
    ASSUME ResetInv, NEW s \in Seeders, ProcessNext(s)
    PROVE  ResetInv'
<1> DEFINE planned == IF s \in DemoResets THEN aiMode ELSE Planned(Len(meetings[s]) + 1)
<1>1. /\ DOMAIN progress' = Seeders /\ progress'[s] = "seeding" /\ progress[s] = "set"
      /\ \A r \in Seeders : r # s => progress'[r] = progress[r]
      /\ UNCHANGED <<account, dispatch, aiMode, previous, job, crossing>>
      /\ DOMAIN meetings' = Seeders
      /\ meetings'[s] = Append(meetings[s], planned)
      /\ \A r \in Seeders : r # s => meetings'[r] = meetings[r]
    BY DEF ResetInv, ProcessNext
<1>2. /\ meetings[s] \in Seq(DemoModes) /\ planned \in DemoModes /\ Len(meetings[s]) < DemoRecordings
    BY <1>1, PlannedMode DEF ResetInv, AllUploaded
<1> HIDE DEF planned
<1>3. /\ meetings'[s] \in Seq(DemoModes) /\ Len(meetings'[s]) = Len(meetings[s]) + 1
      /\ \A i \in 1..Len(meetings[s]) : meetings'[s][i] = meetings[s][i]
      /\ meetings'[s][Len(meetings[s]) + 1] = planned
      /\ Len(meetings[s]) \in Nat
    BY <1>1, <1>2
<1>4. AllUploaded'
    <2>1. account \in DemoResets => account # s
        BY <1>1 DEF ResetInv, AllUploaded
    <2>2. \A r \in Seeders :
             /\ meetings'[r] \in Seq(DemoModes) /\ Len(meetings'[r]) <= DemoRecordings
             /\ progress'[r] = "set" => Len(meetings'[r]) < DemoRecordings
             /\ progress'[r] = "restored" => Len(meetings'[r]) = DemoRecordings
        <3> SUFFICES ASSUME NEW r \in Seeders
                     PROVE  /\ meetings'[r] \in Seq(DemoModes) /\ Len(meetings'[r]) <= DemoRecordings
                            /\ progress'[r] = "set" => Len(meetings'[r]) < DemoRecordings
                            /\ progress'[r] = "restored" => Len(meetings'[r]) = DemoRecordings
            OBVIOUS
        <3>1. CASE r = s
            BY <1>1, <1>2, <1>3, <3>1, DemoAssumption
        <3>2. CASE r # s
            BY <1>1, <3>2 DEF ResetInv, AllUploaded
        <3> QED
            BY <3>1, <3>2
    <2> QED
        BY <1>1, <2>1, <2>2 DEF ResetInv, AllUploaded, Seeders
<1>5. Seeding' = Seeding
    BY <1>1 DEF Seeding, Seeders
<1>6. InItsMode'
    <2> SUFFICES ASSUME NEW r \in DemoResets, r \notin crossing
                 PROVE  /\ r \in Seeding => Seeding = {r}
                        /\ \A i \in 1..Len(meetings'[r]) : meetings'[r][i] = Planned(i)
                        /\ progress'[r] = "set" => aiMode = Planned(Len(meetings'[r]) + 1)
        BY <1>1, <1>5 DEF InItsMode, Planned
    <2>1. /\ r \in Seeding => Seeding = {r}
          /\ \A i \in 1..Len(meetings[r]) : meetings[r][i] = Planned(i)
          /\ progress[r] = "set" => aiMode = Planned(Len(meetings[r]) + 1)
        BY DEF ResetInv, InItsMode
    <2>2. CASE r = s
        <3>1. planned = Planned(Len(meetings[s]) + 1)
            BY <1>1, <2>1, <2>2 DEF planned
        <3>2. ASSUME NEW i \in 1..Len(meetings'[s]) PROVE meetings'[s][i] = Planned(i)
            <4>1. i \in 1..Len(meetings[s]) \/ i = Len(meetings[s]) + 1
                BY <1>3
            <4> QED
                BY <1>3, <2>1, <2>2, <3>1, <4>1
        <3>3. progress'[s] # "set"
            BY <1>1
        <3> QED
            BY <2>1, <2>2, <3>2, <3>3
    <2>3. CASE r # s
        BY <1>1, <2>1, <2>3 DEF Seeders
    <2> QED
        BY <2>2, <2>3
<1>7. PutBack'
    BY <1>1, <1>5 DEF ResetInv, PutBack
<1> QED
    BY <1>1, <1>4, <1>6, <1>7 DEF ResetInv, Seeders

\* The finally clause, at the end of a run or when it fails.
LEMMA RestoreReset ==
    ASSUME ResetInv, NEW s \in Seeders, NEW end \in {"restored", "over"}, Restore(s, end),
           progress' = [progress EXCEPT ![s] = end],
           progress[s] \in {"patched", "looked", "seeding", "set"},
           end = "restored" => Len(meetings[s]) = DemoRecordings,
           UNCHANGED <<account, meetings, previous, job, crossing>>
    PROVE  ResetInv'
<1>1. /\ DOMAIN progress' = Seeders /\ progress'[s] = end
      /\ \A r \in Seeders : r # s => progress'[r] = progress[r]
    BY DEF ResetInv
<1>2. Seeding' = Seeding \ {s} /\ (s \in DemoResets => s \in Seeding)
    BY <1>1 DEF Seeding, Seeders
<1>3. AllUploaded'
    BY <1>1 DEF ResetInv, AllUploaded, Seeders
<1>4. InItsMode'
    <2> SUFFICES ASSUME NEW r \in DemoResets, r \notin crossing
                 PROVE  /\ r \in Seeding' => Seeding' = {r}
                        /\ \A i \in 1..Len(meetings[r]) : meetings[r][i] = Planned(i)
                        /\ progress'[r] = "set" => aiMode' = Planned(Len(meetings[r]) + 1)
        BY DEF InItsMode, Planned
    <2>1. /\ r \in Seeding => Seeding = {r}
          /\ \A i \in 1..Len(meetings[r]) : meetings[r][i] = Planned(i)
          /\ progress[r] = "set" => aiMode = Planned(Len(meetings[r]) + 1)
        BY DEF ResetInv, InItsMode
    <2>2. progress'[r] = "set" => progress[r] = "set" /\ r # s /\ r \in Seeding
        BY <1>1 DEF Seeding, Seeders
    <2>3. progress'[r] = "set" => s \notin DemoResets
        BY <1>2, <2>2, Alone
    <2>4. progress'[r] = "set" => aiMode' = aiMode
        BY <2>3 DEF Restore
    <2> QED
        BY <1>2, <2>1, <2>2, <2>4
<1>5. PutBack'
    <2> SUFFICES ASSUME crossing = {} PROVE PutBack'
        BY DEF PutBack
    <2>1. CASE s \in DemoResets
        <3>1. Seeding = {s} /\ previous[s].dispatch = "send" /\ previous[s].mode = "configured"
            BY <1>2, <2>1 DEF ResetInv, InItsMode, PutBack
        <3>2. dispatch' = "send" /\ aiMode' = "configured" /\ Seeding' = {}
            BY <1>2, <2>1, <3>1 DEF Restore
        <3> QED
            BY <3>2 DEF ResetInv, PutBack
    <2>2. CASE s \notin DemoResets
        <3>1. UNCHANGED <<dispatch, aiMode>> /\ Seeding' = Seeding
            BY <1>2, <2>2 DEF Restore, Seeding
        <3> QED
            BY <3>1 DEF ResetInv, PutBack
    <2> QED
        BY <2>1, <2>2
<1>6. aiMode' \in DemoModes
    BY DEF Restore, ResetInv
<1> QED
    BY <1>1, <1>3, <1>4, <1>5, <1>6 DEF ResetInv, Seeders

\* The request that asked for the reset is answered.
LEMMA RespondReset ==
    ASSUME ResetInv, NEW s \in Seeders, Respond(s)
    PROVE  ResetInv'
<1>1. /\ DOMAIN progress' = Seeders /\ progress'[s] = "over" /\ progress[s] = "restored"
      /\ \A r \in Seeders : r # s => progress'[r] = progress[r]
      /\ account' = IF s \in DemoResets THEN s ELSE account
      /\ UNCHANGED <<meetings, dispatch, aiMode, previous, job, crossing>>
    BY DEF ResetInv, Respond
<1>2. AllUploaded'
    BY <1>1 DEF ResetInv, AllUploaded, Seeders
<1>3. Seeding' = Seeding
    BY <1>1 DEF Seeding, Seeders
<1>4. InItsMode' /\ PutBack'
    BY <1>1, <1>3 DEF ResetInv, InItsMode, PutBack, Planned, Seeders
<1> QED
    BY <1>1, <1>2, <1>4 DEF ResetInv, Seeders

\* An upload by somebody else is sent by whatever dispatch is in place.
LEMMA EnqueueReset ==
    ASSUME ResetInv, NEW j \in Uploads, EnqueueOther(j)
    PROVE  ResetInv'
<1>1. /\ DOMAIN job' = Uploads
      /\ job'[j] = IF dispatch = "send" THEN "sent" ELSE IF Seeding # {} THEN "suppressed" ELSE "stuck"
      /\ \A k \in Uploads : k # j => job'[k] = job[k]
      /\ UNCHANGED <<account, meetings, dispatch, aiMode, progress, found, previous, crossing>>
    BY DEF ResetInv, EnqueueOther
<1>2. Seeding' = Seeding
    BY <1>1 DEF Seeding
<1>3. AllUploaded' /\ InItsMode'
    BY <1>1, <1>2 DEF ResetInv, AllUploaded, InItsMode, Planned
<1>4. PutBack'
    BY <1>1, <1>2 DEF ResetInv, PutBack
<1> QED
    BY <1>1, <1>3, <1>4 DEF ResetInv, Seeders

\* A restart forgets every patch.
LEMMA RestartReset == ResetInv /\ RestartApi => ResetInv'
<1> SUFFICES ASSUME ResetInv, RestartApi PROVE ResetInv'
    OBVIOUS
<1>1. /\ progress' = [s \in Seeders |->
                    IF s \in DemoResets /\ progress[s] # "idle" THEN "over" ELSE progress[s]]
      /\ dispatch' = "send" /\ aiMode' = "configured"
      /\ UNCHANGED <<account, meetings, previous, job, crossing>>
    BY DEF RestartApi
<1>2. Seeding' = {}
    BY <1>1 DEF Seeding, Seeders
<1>3. \A s \in DemoResets : progress'[s] \in {"idle", "over"}
    BY <1>1 DEF Seeders
<1>4. AllUploaded'
    BY <1>1 DEF ResetInv, AllUploaded, Seeders
<1>5. InItsMode' /\ PutBack'
    BY <1>1, <1>2, <1>3 DEF ResetInv, InItsMode, PutBack, Planned
<1> QED
    BY <1>1, <1>4, <1>5 DEF ResetInv, Seeders, DemoModes

\* Every step keeps the invariant of the resets.
LEMMA ResetInvNext == ResetInv /\ [DemoNext]_demoVars => ResetInv'
<1> SUFFICES ASSUME ResetInv, [DemoNext]_demoVars PROVE ResetInv'
    OBVIOUS
<1>1. CASE UNCHANGED demoVars
    <2>1. Seeding' = Seeding
        BY <1>1 DEF Seeding, demoVars
    <2> QED
        BY <1>1, <2>1 DEF demoVars, ResetInv, AllUploaded, InItsMode, PutBack, Planned, Seeders
<1>2. ASSUME NEW s \in Seeders, Look(s) \/ Recreate(s) PROVE ResetInv'
    BY <1>2, ProgressOnly, DemoAssumption DEF Look, Recreate
<1>3. ASSUME NEW s \in Seeders, FinishSeeding(s) \/ SeedingFails(s) PROVE ResetInv'
    BY <1>3, RestoreReset DEF FinishSeeding, SeedingFails
<1> QED
    BY <1>1, <1>2, <1>3, StartReset, UploadReset, ProcessReset, RespondReset, EnqueueReset, RestartReset
       DEF DemoNext

\* However many resets, uploads and restarts there are, a reset that crossed no other
\* processes every recording in its planned mode and restores what it patched
\* (reset_demo in common/services/demo.py).
THEOREM ResetsLeaveNoTrace == DemoSpec => []ResetLeavesNoTrace
<1>1. ResetInv => ResetLeavesNoTrace
    <2> SUFFICES ASSUME ResetInv PROVE ResetLeavesNoTrace
        OBVIOUS
    <2>1. account \in DemoResets => Len(meetings[account]) = DemoRecordings
        BY DEF ResetInv, AllUploaded
    <2> QED
        BY <2>1 DEF ResetInv, InItsMode, PutBack, ResetLeavesNoTrace
<1> QED
    BY ResetInvInit, ResetInvNext, <1>1, PTL DEF DemoSpec

\* Where a seeder may stand.
SeederStates == {"idle", "patched", "looked", "seeding", "set", "restored", "over"}
\* What may become of a job.
JobFates == {"none", "sent", "suppressed", "stuck"}
\* What a reset finds and puts back.
Settings == [dispatch : {"send", "drop"}, mode : DemoModes]

\* What ResetInv does not say of the types.
SeedersTyped ==
    /\ account \in Seeders \cup {NoAccount}
    /\ dispatch \in {"send", "drop"}
    /\ progress \in [Seeders -> SeederStates]
    /\ found \in [Seeders -> Seeders \cup {NoAccount}]
    /\ previous \in [Seeders -> Settings]
    /\ job \in [Uploads -> JobFates]
    /\ crossing \subseteq DemoResets

\* Every step keeps them.
LEMMA SeedersTypedNext == ResetInv /\ SeedersTyped /\ [DemoNext]_demoVars => SeedersTyped'
<1> SUFFICES ASSUME ResetInv, SeedersTyped, [DemoNext]_demoVars PROVE SeedersTyped'
    OBVIOUS
<1> USE DEF SeedersTyped
<1>0. aiMode \in DemoModes
    BY DEF ResetInv
<1>1. \A s \in Seeders : \A p \in SeederStates : [progress EXCEPT ![s] = p] \in [Seeders -> SeederStates]
    OBVIOUS
<1>2. /\ "patched" \in SeederStates /\ "looked" \in SeederStates /\ "seeding" \in SeederStates
      /\ "set" \in SeederStates /\ "restored" \in SeederStates /\ "over" \in SeederStates
    BY DEF SeederStates
<1>3. \A s \in Seeders : previous[s].dispatch \in {"send", "drop"}
    BY DEF Settings
<1>4. ASSUME NEW s \in Seeders, StartSeeding(s) PROVE SeedersTyped'
    <2>1. [dispatch |-> dispatch, mode |-> aiMode] \in Settings
        BY <1>0 DEF Settings
    <2>2. previous' \in [Seeders -> Settings] /\ dispatch' \in {"send", "drop"}
        BY <1>4, <2>1 DEF StartSeeding
    <2>3. crossing' \subseteq DemoResets
        BY <1>4 DEF StartSeeding, Seeding
    <2>4. progress' = [progress EXCEPT ![s] = "patched"] /\ UNCHANGED <<account, found, job>>
        BY <1>4 DEF StartSeeding
    <2> QED
        BY <1>1, <1>2, <2>2, <2>3, <2>4
<1>5. ASSUME NEW s \in Seeders, Look(s) PROVE SeedersTyped'
    <2>1. progress' = [progress EXCEPT ![s] = "looked"] /\ found' = [found EXCEPT ![s] = account]
        BY <1>5 DEF Look
    <2>2. UNCHANGED <<account, dispatch, previous, job, crossing>>
        BY <1>5 DEF Look
    <2> QED
        BY <1>1, <1>2, <2>1, <2>2
<1>6. ASSUME NEW s \in Seeders, Recreate(s) \/ UploadNext(s) \/ ProcessNext(s) \/ Respond(s)
      PROVE  SeedersTyped'
    <2>1. \E p \in SeederStates : progress' = [progress EXCEPT ![s] = p]
        BY <1>2, <1>6 DEF Recreate, UploadNext, ProcessNext, Respond
    <2>2. account' \in Seeders \cup {NoAccount} /\ UNCHANGED <<dispatch, found, previous, job, crossing>>
        BY <1>6 DEF Recreate, UploadNext, ProcessNext, Respond
    <2> QED
        BY <1>1, <2>1, <2>2
<1>7. ASSUME NEW s \in Seeders, FinishSeeding(s) \/ SeedingFails(s) PROVE SeedersTyped'
    <2>1. \E p \in SeederStates : progress' = [progress EXCEPT ![s] = p]
        BY <1>2, <1>7 DEF FinishSeeding, SeedingFails
    <2>2. dispatch' \in {"send", "drop"} /\ UNCHANGED <<account, found, previous, job, crossing>>
        BY <1>3, <1>7 DEF FinishSeeding, SeedingFails, Restore
    <2> QED
        BY <1>1, <2>1, <2>2
<1>8. ASSUME NEW j \in Uploads, EnqueueOther(j) PROVE SeedersTyped'
    BY <1>8 DEF EnqueueOther, JobFates
<1>9. CASE RestartApi
    <2>1. progress' \in [Seeders -> SeederStates] /\ dispatch' \in {"send", "drop"}
        BY <1>2, <1>9 DEF RestartApi
    <2>2. UNCHANGED <<account, found, previous, job, crossing>>
        BY <1>9 DEF RestartApi
    <2> QED
        BY <2>1, <2>2
<1>10. CASE UNCHANGED demoVars
    BY <1>10 DEF demoVars
<1> QED
    BY <1>4, <1>5, <1>6, <1>7, <1>8, <1>9, <1>10 DEF DemoNext

\* Every reachable state of the seeders, the process and the uploads has the types
\* DemoTypeOK states.
THEOREM DemoTypeCorrect == DemoSpec => []DemoTypeOK
<1>1. DemoInit => SeedersTyped
    BY DEF DemoInit, SeedersTyped, Settings, Patch, DemoModes, SeederStates, JobFates
<1>2. ResetInv /\ SeedersTyped => DemoTypeOK
    BY DEF ResetInv, AllUploaded, SeedersTyped, Settings, DemoModes, SeederStates, JobFates, DemoTypeOK
<1> QED
    BY <1>1, <1>2, ResetInvInit, ResetInvNext, SeedersTypedNext, PTL DEF DemoSpec

-----------------------------------------------------------------------------
\* How the run of an agent stands.
Statuses == {"running", "failed", "succeeded"}
\* The fields of a plan.
PlanRows == [status : {"none", "running", "pending_approval", "succeeded"},
             selected : SUBSET Agents, approved : BOOLEAN,
             result : SUBSET Agents, steps : BOOLEAN]

\* No agent of the plan has been started.
Quiet(p) == \A a \in Agents : task[p][a] = "none" /\ run[p][a] = <<>>

\* Nothing was started, asked or granted before the plan knows its agents.
Untouched(p) ==
    /\ step[p] \in {"none", "intent"} => Quiet(p)
    /\ step[p] = "none" => ~asked[p] /\ granted[p] = {}

\* A plan that asks for approval is not one that an approval started.
Gate(p) ==
    /\ asked[p] => granted[p] = {}
    /\ asked[p] \/ plan[p].status = "pending_approval" => Quiet(p)

\* The two states of the row that last are written when the run is at its end ...
Ends(p) == plan[p].status \in {"pending_approval", "succeeded"} => step[p] \in {"saving", "over"}

\* ... and there no thread is left.
Waited(p) == step[p] \in {"merging", "saving", "over"} => \A a \in Agents : task[p][a] \in Finished

\* The runs of an agent say how often it was tried, and how the last one ended.
Attempts(p) == \A a \in Agents :
    /\ task[p][a] = "queued" => Len(run[p][a]) \in {0, 1}
    /\ task[p][a] = "working" => Len(run[p][a]) \in {1, 2}
    /\ task[p][a] = "failed" => Len(run[p][a]) = 2
    /\ task[p][a] \in {"found", "empty"} =>
          Len(run[p][a]) \in {1, 2} /\ run[p][a][Len(run[p][a])] = "succeeded"

\* Only a timeout leaves agents out.
Gathered(p) ==
    /\ step[p] = "draining" => late[p]
    /\ step[p] = "merging" /\ ~late[p] => collected[p] = plan[p].selected

\* What the plan answers.
Answer(p) == plan[p].status = "succeeded" =>
    /\ \A a \in plan[p].result : task[p][a] \in {"found", "empty"}
    /\ ~late[p] => plan[p].result = Pool(p, plan[p].selected)

\* The invariant of one plan.
PlanInv(p) ==
    /\ Untouched(p)
    /\ Gate(p)
    /\ Ends(p)
    /\ Waited(p)
    /\ Attempts(p)
    /\ Gathered(p)
    /\ Answer(p)

\* An approval was given to a plan that is held, and stays so.
Granted == \A p \in Plans : \A q \in granted[p] :
    plan[q].status = "pending_approval" /\ plan[q].approved

\* The inductive invariant of PlanIsWhole and HeldRunsNothing.
PlannerInv ==
    /\ PlannerTypeOK
    /\ \A p \in Plans : PlanInv(p)
    /\ Granted

USE PlannerAssumption

\* What belongs to a plan is as it was.
Same(q) ==
    /\ plan'[q] = plan[q]
    /\ run'[q] = run[q]
    /\ step'[q] = step[q]
    /\ task'[q] = task[q]
    /\ collected'[q] = collected[q]
    /\ late'[q] = late[q]
    /\ asked'[q] = asked[q]
    /\ granted'[q] = granted[q]

\* A plan that a step leaves alone.
LEMMA Others ==
    ASSUME NEW q \in Plans, PlanInv(q), Same(q)
    PROVE  PlanInv(q)'
BY DEF PlanInv, Same, Quiet, Untouched, Gate, Ends, Waited, Attempts, Gathered, Answer, Pool

\* What a plan that is not held does leaves the approvals given as they are.
LEMMA Approvals ==
    ASSUME PlannerInv, NEW p \in Plans, plan[p].status # "pending_approval", granted' = granted,
           \A q \in Plans \ {p} : plan'[q] = plan[q]
    PROVE  Granted'
<1>1. \A r \in Plans : granted[r] \subseteq Plans
    BY DEF PlannerInv, PlannerTypeOK
<1>2. ASSUME NEW r \in Plans, NEW q \in granted[r]
      PROVE  plan'[q].status = "pending_approval" /\ plan'[q].approved
    <2>1. plan[q].status = "pending_approval" /\ plan[q].approved
        BY Zenon DEF PlannerInv, Granted
    <2>2. plan'[q] = plan[q]
        BY <1>1, <2>1
    <2> QED
        BY <2>1, <2>2, Zenon
<1> QED
    BY <1>2, Zenon DEF Granted

\* Nothing is asked of the planner yet.
LEMMA PlannerInvInit == PlannerInit => PlannerInv
<1> SUFFICES ASSUME PlannerInit PROVE PlannerInv
    OBVIOUS
<1> <<>> \in Seq(Statuses)
    BY EmptySeq
<1>1. PlannerTypeOK
    BY DEF PlannerInit, PlannerTypeOK, NoPlan, Finished, Outcomes, Statuses
<1>2. ASSUME NEW p \in Plans PROVE PlanInv(p)
    BY DEF PlannerInit, PlanInv, NoPlan, Finished, Outcomes, Quiet, Untouched, Gate, Ends,
           Waited, Attempts, Gathered, Answer
<1>3. Granted
    BY DEF PlannerInit, Granted
<1> QED
    BY <1>1, <1>2, <1>3 DEF PlannerInv

\* The request and its selection: no thread has been started before.
LEMMA InvPlan ==
    ASSUME PlannerInv, NEW p \in Plans,
           \/ \E hold \in BOOLEAN : Request(p, hold)
           \/ \E agents \in SUBSET Agents : Select(p, agents)
    PROVE  PlannerInv'
<1> USE DEF PlannerInv
<1>1. ASSUME NEW hold \in BOOLEAN, Request(p, hold) PROVE PlannerInv'
    <2> USE <1>1 DEF Request, Created, NoPlan
    <2>1. PlannerTypeOK'
        BY DEF PlannerTypeOK
    <2>2. PlanInv(p)'
        BY DEF PlannerTypeOK, PlanInv, Quiet, Untouched, Gate, Ends, Waited, Attempts, Gathered, Answer
    <2>3. ASSUME NEW q \in Plans \ {p} PROVE PlanInv(q)'
        <3>1. Same(q)
            BY DEF PlannerTypeOK, Same
        <3> QED
            BY <3>1, Others
    <2>4. Granted'
        <3>1. plan[p].status # "pending_approval"
            BY DEF PlanInv, Ends
        <3>2. granted' = granted /\ \A q \in Plans \ {p} : plan'[q] = plan[q]
            BY DEF PlannerTypeOK
        <3> QED
            BY <3>1, <3>2, Approvals
    <2> QED
        BY <2>1, <2>2, <2>3, <2>4
<1>2. ASSUME NEW agents \in SUBSET Agents, Select(p, agents) PROVE PlannerInv'
    <2> USE <1>2 DEF Select
    <2>1. PlannerTypeOK'
        <3>1. plan[p] \in PlanRows
            BY DEF PlannerTypeOK, PlanRows
        <3>2. /\ [plan[p] EXCEPT !.selected = agents] \in PlanRows
              /\ [plan[p] EXCEPT !.status = "pending_approval", !.selected = agents] \in PlanRows
            BY <3>1 DEF PlanRows
        <3>3. plan' \in [Plans -> PlanRows]
            <4>1. plan \in [Plans -> PlanRows]
                BY DEF PlannerTypeOK, PlanRows
            <4>2. \/ plan' = [plan EXCEPT ![p] = [plan[p] EXCEPT !.selected = agents]]
                  \/ plan' = [plan EXCEPT ![p] =
                                [plan[p] EXCEPT !.status = "pending_approval", !.selected = agents]]
                BY <4>1
            <4> QED
                BY <3>2, <4>1, <4>2
        <3>4. task' \in [Plans -> [Agents -> Finished \cup {"queued", "working"}]]
            <4> DEFINE started == [a \in Agents |-> IF a \in agents THEN "queued" ELSE "none"]
            <4>1. started \in [Agents -> Finished \cup {"queued", "working"}]
                BY DEF Finished
            <4>2. UNCHANGED task \/ task' = [task EXCEPT ![p] = started]
                OBVIOUS
            <4> HIDE DEF started
            <4> QED
                BY <4>1, <4>2 DEF PlannerTypeOK
        <3>5. step' \in [Plans -> {"none", "intent", "executing", "draining", "raised", "merging",
                                   "saving", "over"}]
            BY DEF PlannerTypeOK
        <3> QED
            BY <3>3, <3>4, <3>5 DEF PlannerTypeOK, PlanRows
    <2>2. PlanInv(p)'
        <3>1. Quiet(p) /\ run' = run
            BY DEF PlanInv, Untouched
        <3>2. plan[p].status \notin {"pending_approval", "succeeded"}
            BY DEF PlanInv, Ends
        <3>3. CASE Held(p)
            BY <3>1, <3>2, <3>3 DEF PlannerTypeOK, PlanInv, Held, Quiet, Untouched, Gate, Ends, Waited,
                Attempts, Gathered, Answer, Finished, Outcomes
        <3>4. CASE ~Held(p)
            <4>1. ~asked[p]
                BY <3>4 DEF Held, PlanInv, Gate
            <4>2. \A a \in Agents : run'[p][a] = <<>> /\ Len(run'[p][a]) = 0
                BY <3>1, EmptySeq DEF Quiet
            <4>3. \A a \in Agents : task'[p][a] \in {"queued", "none"}
                BY <3>4 DEF PlannerTypeOK
            <4>4. Attempts(p)'
                BY <4>2, <4>3 DEF Attempts
            <4> QED
                BY <3>2, <3>4, <4>1, <4>4 DEF PlannerTypeOK, PlanInv, Untouched, Gate, Ends, Waited,
                    Gathered, Answer
        <3> QED
            BY <3>3, <3>4
    <2>3. ASSUME NEW q \in Plans \ {p} PROVE PlanInv(q)'
        <3>1. Same(q)
            BY DEF PlannerTypeOK, Same
        <3> QED
            BY <3>1, Others
    <2>4. Granted'
        <3>1. plan[p].status # "pending_approval"
            BY DEF PlanInv, Ends
        <3>2. granted' = granted /\ \A q \in Plans \ {p} : plan'[q] = plan[q]
            BY DEF PlannerTypeOK
        <3> QED
            BY <3>1, <3>2, Approvals
    <2> QED
        BY <2>1, <2>2, <2>3, <2>4
<1> QED
    BY <1>1, <1>2

\* A thread: it runs only while its plan waits for it.
LEMMA InvThread ==
    ASSUME PlannerInv, NEW p \in Plans, NEW b \in Agents,
           \/ BeginRun(p, b)
           \/ \E how \in Outcomes : EndRun(p, b, how)
           \/ TaskRaises(p, b)
    PROVE  PlannerInv'
<1> USE DEF PlannerInv
<1> DEFINE tried == run[p][b]
<1>1. tried \in Seq(Statuses) /\ Len(tried) \in Nat
    BY LenProperties DEF PlannerTypeOK, Statuses
<1>2. task[p][b] \in {"queued", "working"}
    BY DEF BeginRun, EndRun, TaskRaises
<1>3. /\ ~Quiet(p) /\ step[p] \notin {"none", "intent", "merging", "saving", "over"} /\ ~asked[p]
      /\ plan[p].status \notin {"pending_approval", "succeeded"}
    BY <1>2 DEF PlanInv, Quiet, Untouched, Gate, Ends, Waited, Finished, Outcomes
<1>4. UNCHANGED <<plan, step, collected, late, asked, granted, restarts>>
    BY DEF BeginRun, EndRun, TaskRaises
<1>5. Granted'
    BY <1>4 DEF Granted
<1>6. ASSUME PlannerTypeOK', Attempts(p)', \A q \in Plans \ {p} : run'[q] = run[q] /\ task'[q] = task[q]
      PROVE  PlannerInv'
    <2>1. PlanInv(p)'
        BY <1>3, <1>4, <1>6 DEF PlanInv, Untouched, Gate, Ends, Waited, Gathered, Answer
    <2>2. ASSUME NEW q \in Plans \ {p} PROVE PlanInv(q)'
        <3>1. Same(q)
            BY <1>4, <1>6 DEF Same
        <3> QED
            BY <3>1, Others
    <2> QED
        BY <1>5, <1>6, <2>1, <2>2
<1>7. CASE BeginRun(p, b)
    <2> USE <1>7 DEF BeginRun
    <2>1. /\ Append(tried, "running") \in Seq(Statuses)
          /\ Len(Append(tried, "running")) = Len(tried) + 1
        BY <1>1, AppendProperties DEF Statuses
    <2>2. PlannerTypeOK'
        BY <2>1 DEF PlannerTypeOK, Statuses
    <2>3. \A a \in Agents \ {b} : run'[p][a] = run[p][a] /\ task'[p][a] = task[p][a]
        BY DEF PlannerTypeOK
    <2>4. task'[p][b] = "working" /\ run'[p][b] = Append(tried, "running")
        BY DEF PlannerTypeOK
    <2>5. Len(tried) \in {0, 1}
        BY DEF PlanInv, Attempts
    <2>6. Attempts(p)'
        BY <2>1, <2>3, <2>4, <2>5 DEF PlanInv, Attempts
    <2>7. \A q \in Plans \ {p} : run'[q] = run[q] /\ task'[q] = task[q]
        BY DEF PlannerTypeOK
    <2> QED
        BY <1>6, <2>2, <2>6, <2>7
<1>8. ASSUME NEW how \in Outcomes, EndRun(p, b, how) PROVE PlannerInv'
    <2> USE <1>8 DEF EndRun
    <2> DEFINE status == IF how = "failed" THEN "failed" ELSE "succeeded"
               ended == [tried EXCEPT ![Len(tried)] = status]
    <2>1. Len(tried) \in {1, 2}
        BY DEF PlanInv, Attempts
    <2>2. status \in Statuses
        BY DEF Statuses
    <2>3. ended \in Seq(Statuses) /\ Len(ended) = Len(tried) /\ ended[Len(tried)] = status
        <3>1. Len(tried) \in 1 .. Len(tried)
            BY <2>1, 1 \in 1 .. 1, 2 \in 1 .. 2
        <3> HIDE DEF tried, status
        <3> QED
            BY <1>1, <2>2, <3>1, ExceptSeq
    <2>4. /\ run'[p][b] = ended
          /\ task'[p][b] = AfterRun(p, b, how)
          /\ \A a \in Agents \ {b} : run'[p][a] = run[p][a] /\ task'[p][a] = task[p][a]
          /\ \A q \in Plans \ {p} : run'[q] = run[q] /\ task'[q] = task[q]
        BY DEF PlannerTypeOK
    <2>5. AfterRun(p, b, how) = IF how = "failed" /\ Len(tried) = 1 THEN "queued" ELSE how
        BY DEF AfterRun
    <2>6. PlannerTypeOK'
        <3>1. run' = [run EXCEPT ![p] = [run[p] EXCEPT ![b] = ended]]
            BY DEF PlannerTypeOK
        <3>2. AfterRun(p, b, how) \in Finished \cup {"queued", "working"}
            BY <2>5 DEF Finished
        <3> HIDE DEF ended
        <3>3. run' \in [Plans -> [Agents -> Seq(Statuses)]]
            <4>1. run \in [Plans -> [Agents -> Seq(Statuses)]]
                BY DEF PlannerTypeOK, Statuses
            <4>2. [run[p] EXCEPT ![b] = ended] \in [Agents -> Seq(Statuses)]
                BY <2>3, <4>1
            <4> QED
                BY <3>1, <4>1, <4>2
        <3>4. task' \in [Plans -> [Agents -> Finished \cup {"queued", "working"}]]
            BY <3>2 DEF PlannerTypeOK
        <3> QED
            BY <1>4, <3>3, <3>4 DEF PlannerTypeOK, Statuses
    <2>7. Attempts(p)'
        <3>1. /\ task'[p][b] = "queued" => Len(ended) = 1
              /\ task'[p][b] # "working"
              /\ task'[p][b] = "failed" => Len(ended) = 2
              /\ task'[p][b] \in {"found", "empty"} =>
                    Len(ended) \in {1, 2} /\ ended[Len(ended)] = "succeeded"
            <4> HIDE DEF ended
            <4> QED
                BY <2>1, <2>3, <2>4, <2>5 DEF Outcomes
        <3> HIDE DEF ended
        <3> QED
            BY <2>4, <3>1 DEF PlanInv, Attempts
    <2> QED
        BY <1>6, <2>4, <2>6, <2>7
<1>9. CASE TaskRaises(p, b)
    <2> USE <1>9 DEF TaskRaises
    <2>1. PlannerTypeOK'
        BY DEF PlannerTypeOK, Finished
    <2>2. Attempts(p)'
        BY DEF PlannerTypeOK, PlanInv, Attempts
    <2>3. \A q \in Plans \ {p} : run'[q] = run[q] /\ task'[q] = task[q]
        BY DEF PlannerTypeOK
    <2> QED
        BY <1>6, <2>1, <2>2, <2>3
<1> QED
    BY <1>7, <1>8, <1>9

\* The view's own thread, which moves on and leaves the futures alone.
LEMMA InvView ==
    ASSUME PlannerInv, NEW p \in Plans,
           \/ \E a \in Agents : Collect(p, a)
           \/ Timeout(p) \/ Drain(p) \/ Finish(p) \/ PersistSteps(p) \/ PlanRaises(p)
    PROVE  PlannerInv'
<1> USE DEF PlannerInv
<1>1. UNCHANGED <<run, task, asked, granted, restarts>>
    BY DEF Collect, Timeout, Drain, Finish, Answered, PersistSteps, PlanRaises
<1>2. PlannerTypeOK'
    <2>1. plan \in [Plans -> PlanRows] /\ plan[p] \in PlanRows
        BY DEF PlannerTypeOK, PlanRows
    <2>2. plan' \in [Plans -> PlanRows]
        <3>1. CASE Finish(p)
            <4> DEFINE said == granted[p] # {} \/ ~asked[p]
            <4>1. said \in BOOLEAN /\ Pool(p, collected[p]) \in SUBSET Agents
                BY DEF PlannerTypeOK, Pool
            <4>2. plan' = [plan EXCEPT ![p].status = "succeeded", ![p].approved = said,
                                       ![p].result = Pool(p, collected[p])]
                BY <3>1 DEF Finish, Answered
            <4> HIDE DEF said
            <4>3. [plan[p] EXCEPT !.status = "succeeded", !.approved = said,
                                  !.result = Pool(p, collected[p])] \in PlanRows
                BY <2>1, <4>1 DEF PlanRows
            <4>4. plan' = [plan EXCEPT ![p] =
                            [plan[p] EXCEPT !.status = "succeeded", !.approved = said,
                                            !.result = Pool(p, collected[p])]]
                BY <2>1, <4>2
            <4> QED
                BY <2>1, <4>3, <4>4
        <3>2. CASE PersistSteps(p)
            <4>1. [plan[p] EXCEPT !.steps = TRUE] \in PlanRows
                BY <2>1 DEF PlanRows
            <4>2. plan' = [plan EXCEPT ![p] = [plan[p] EXCEPT !.steps = TRUE]]
                BY <2>1, <3>2 DEF PersistSteps
            <4> QED
                BY <2>1, <4>1, <4>2
        <3>3. CASE UNCHANGED plan
            BY <2>1, <3>3
        <3> QED
            BY <3>1, <3>2, <3>3 DEF Collect, Timeout, Drain, PlanRaises
    <2>3. /\ step' \in [Plans -> {"none", "intent", "executing", "draining", "raised", "merging",
                                  "saving", "over"}]
          /\ collected' \in [Plans -> SUBSET Agents]
          /\ late' \in [Plans -> BOOLEAN]
        <3>1. CASE Finish(p)
            <4>1. step' = [step EXCEPT ![p] = "saving"] /\ UNCHANGED <<collected, late>>
                BY <3>1, Zenon DEF Finish, Answered
            <4> QED
                BY <4>1 DEF PlannerTypeOK
        <3>2. ASSUME NEW a \in Agents, Collect(p, a)
              PROVE  /\ step' = step \/ step' = [step EXCEPT ![p] = "raised"]
                     /\ collected' = collected \/ collected' = [collected EXCEPT ![p] = @ \cup {a}]
                     /\ late' = late
            BY <3>2 DEF Collect
        <3>3. CASE Timeout(p)
            BY <3>3 DEF PlannerTypeOK, Timeout
        <3>4. CASE Drain(p) \/ PersistSteps(p) \/ PlanRaises(p)
            BY <3>4 DEF PlannerTypeOK, Drain, PersistSteps, PlanRaises
        <3>5. ASSUME NEW a \in Agents, Collect(p, a)
              PROVE  /\ step' \in [Plans -> {"none", "intent", "executing", "draining", "raised",
                                            "merging", "saving", "over"}]
                     /\ collected' \in [Plans -> SUBSET Agents]
                     /\ late' \in [Plans -> BOOLEAN]
            <4>1. collected \in [Plans -> SUBSET Agents] /\ collected[p] \cup {a} \in SUBSET Agents
                BY DEF PlannerTypeOK
            <4>2. collected' \in [Plans -> SUBSET Agents]
                BY <3>2, <3>5, <4>1
            <4>3. step' \in [Plans -> {"none", "intent", "executing", "draining", "raised",
                                      "merging", "saving", "over"}]
                BY <3>2, <3>5 DEF PlannerTypeOK
            <4> QED
                BY <3>2, <3>5, <4>2, <4>3 DEF PlannerTypeOK
        <3> HIDE DEF PlannerInv
        <3> QED
            BY <3>1, <3>3, <3>4, <3>5
    <2> QED
        BY <1>1, <2>2, <2>3 DEF PlannerTypeOK, PlanRows
<1>3. \A q \in Plans \ {p} : Same(q)
    BY DEF PlannerTypeOK, Same, Collect, Timeout, Drain, Finish, Answered, PersistSteps, PlanRaises
<1>4. \A q \in Plans \ {p} : PlanInv(q)'
    BY <1>3, Others
<1>5. step[p] # "none" /\ step'[p] \notin {"none", "intent"}
    BY DEF PlannerTypeOK, Collect, Timeout, Drain, Finish, Answered, PersistSteps, PlanRaises
<1>6. Untouched(p)' /\ Attempts(p)'
    BY <1>1, <1>5 DEF PlanInv, Untouched, Attempts
<1>7. ASSUME UNCHANGED plan, Ends(p)', Waited(p)', Gathered(p)', Answer(p)' PROVE PlannerInv'
    <2>1. Gate(p)'
        BY <1>1, <1>7 DEF PlanInv, Gate, Quiet
    <2>2. Granted'
        BY <1>1, <1>7 DEF Granted
    <2> QED
        BY <1>2, <1>4, <1>6, <1>7, <2>1, <2>2 DEF PlanInv
<1>8. ASSUME NEW a \in Agents, Collect(p, a) PROVE PlannerInv'
    BY <1>7, <1>8 DEF PlannerTypeOK, PlanInv, Collect, Ends, Waited, Gathered, Answer
<1>9. CASE Timeout(p)
    BY <1>7, <1>9 DEF PlannerTypeOK, PlanInv, Timeout, Ends, Waited, Gathered, Answer
<1>10. CASE Drain(p)
    BY <1>7, <1>10 DEF PlannerTypeOK, PlanInv, Drain, Drained, Ends, Waited, Gathered, Answer, Pool
<1>11. CASE Finish(p)
    <2>1. /\ plan'[p].status = "succeeded" /\ plan'[p].result = Pool(p, collected[p])
          /\ plan'[p].selected = plan[p].selected
        <3> DEFINE said == granted[p] # {} \/ ~asked[p]
        <3>1. plan' = [plan EXCEPT ![p].status = "succeeded", ![p].approved = said,
                                   ![p].result = Pool(p, collected[p])]
            BY <1>11 DEF Finish, Answered
        <3>2. plan[p] \in PlanRows /\ plan \in [Plans -> PlanRows]
            BY DEF PlannerTypeOK, PlanRows
        <3> HIDE DEF said
        <3> QED
            BY <3>1, <3>2 DEF PlanRows
    <2>2. step[p] = "merging" /\ step'[p] = "saving" /\ UNCHANGED <<collected, late>>
        BY <1>11 DEF PlannerTypeOK, Finish, Answered
    <2>3. Waited(p)' /\ Ends(p)' /\ Gathered(p)'
        BY <1>1, <2>1, <2>2 DEF PlanInv, Ends, Waited, Gathered
    <2>4. Answer(p)'
        <3>1. \A a \in Pool(p, collected[p]) : task[p][a] \in {"found", "empty"}
            BY DEF Pool
        <3>2. Pool(p, plan[p].selected)' = Pool(p, plan[p].selected)
            BY <1>1, <2>1 DEF Pool
        <3> QED
            BY <1>1, <2>1, <2>2, <3>1, <3>2 DEF PlanInv, Gathered, Answer
    <2>5. Gate(p)'
        BY <1>1, <2>1 DEF PlanInv, Gate, Quiet
    <2>6. Granted'
        <3>1. plan[p].status # "pending_approval"
            BY <2>2 DEF PlanInv, Ends
        <3>2. \A q \in Plans \ {p} : plan'[q] = plan[q]
            BY <1>3 DEF Same
        <3> QED
            BY <1>1, <3>1, <3>2 DEF PlannerTypeOK, Granted
    <2> QED
        BY <1>2, <1>4, <1>6, <2>3, <2>4, <2>5, <2>6 DEF PlanInv
<1>12. CASE PersistSteps(p)
    <2>1. /\ plan'[p].status = plan[p].status /\ plan'[p].result = plan[p].result
          /\ plan'[p].selected = plan[p].selected /\ plan'[p].approved = plan[p].approved
          /\ step[p] = "saving" /\ step'[p] = "over" /\ UNCHANGED <<collected, late>>
        BY <1>12 DEF PlannerTypeOK, PersistSteps
    <2>2. Waited(p)' /\ Ends(p)' /\ Gathered(p)'
        BY <1>1, <2>1 DEF PlanInv, Ends, Waited, Gathered
    <2>3. Answer(p)'
        <3>1. Pool(p, plan[p].selected)' = Pool(p, plan[p].selected)
            BY <1>1, <2>1 DEF Pool
        <3> QED
            BY <1>1, <2>1, <3>1 DEF PlanInv, Answer
    <2>4. Gate(p)'
        BY <1>1, <2>1 DEF PlanInv, Gate, Quiet
    <2>5. Granted'
        <3>1. ASSUME NEW q \in Plans
              PROVE  plan'[q].status = plan[q].status /\ plan'[q].approved = plan[q].approved
            BY <1>3, <2>1 DEF Same
        <3>2. \A r \in Plans : granted[r] \subseteq Plans
            BY DEF PlannerTypeOK
        <3> HIDE DEF PlannerInv
        <3>3. Granted
            BY DEF PlannerInv
        <3> QED
            BY <1>1, <3>1, <3>2, <3>3, Zenon DEF Granted
    <2> QED
        BY <1>2, <1>4, <1>6, <2>2, <2>3, <2>4, <2>5 DEF PlanInv
<1>13. CASE PlanRaises(p)
    <2>1. \A a \in Agents : task[p][a] \in Finished
        BY <1>13 DEF PlanRaises, PlanInv, Untouched, Quiet, Waited, Finished
    <2>2. step'[p] = "over" /\ UNCHANGED <<plan, task, collected, late>>
        BY <1>13 DEF PlannerTypeOK, PlanRaises
    <2>3. Ends(p)' /\ Waited(p)' /\ Gathered(p)'
        BY <2>1, <2>2 DEF PlanInv, Ends, Waited, Gathered
    <2>4. Answer(p)'
        BY <2>2 DEF PlanInv, Answer, Pool
    <2> QED
        BY <1>7, <2>2, <2>3, <2>4
<1> QED
    BY <1>8, <1>9, <1>10, <1>11, <1>12, <1>13

\* An approval marks a held plan, and starts at most one that was not there.
LEMMA InvApprove ==
    ASSUME PlannerInv, NEW p \in Plans, ApprovePlan(p)
    PROVE  PlannerInv'
<1> USE DEF PlannerInv
<1>1. step[p] \in {"saving", "over"}
    BY DEF ApprovePlan, PlanInv, Ends
<1>2. CASE UNCHANGED <<step, granted>> /\ plan' = [plan EXCEPT ![p].approved = TRUE]
    <2> USE <1>2 DEF ApprovePlan
    <2>1. PlannerTypeOK'
        <3>1. plan \in [Plans -> PlanRows] /\ [plan[p] EXCEPT !.approved = TRUE] \in PlanRows
            <4>1. plan \in [Plans -> PlanRows] /\ plan[p] \in PlanRows
                BY DEF PlannerTypeOK, PlanRows
            <4> QED
                BY <4>1 DEF PlanRows
        <3>2. plan' = [plan EXCEPT ![p] = [plan[p] EXCEPT !.approved = TRUE]]
            BY <3>1
        <3>3. plan' \in [Plans -> PlanRows]
            BY <3>1, <3>2
        <3> QED
            BY <3>3 DEF PlannerTypeOK, PlanRows
    <2>2. PlanInv(p)'
        BY DEF PlannerTypeOK, PlanInv, Quiet, Untouched, Gate, Ends, Waited, Attempts, Gathered, Answer
    <2>3. ASSUME NEW q \in Plans \ {p} PROVE PlanInv(q)'
        <3>1. Same(q)
            BY DEF PlannerTypeOK, Same
        <3> QED
            BY <3>1, Others
    <2>4. Granted'
        BY DEF PlannerTypeOK, Granted
    <2> QED
        BY <2>1, <2>2, <2>3, <2>4
<1>3. ASSUME NEW q \in Plans, step[q] = "none",
             plan' = [plan EXCEPT ![p].approved = TRUE, ![q] = Created],
             step' = [step EXCEPT ![q] = "intent"],
             granted' = [granted EXCEPT ![q] = {p}]
      PROVE  PlannerInv'
    <2> USE <1>3 DEF ApprovePlan, Created, NoPlan
    <2>1. p # q
        BY <1>1
    <2>2. PlannerTypeOK'
        <3>1. /\ plan \in [Plans -> PlanRows] /\ [plan[p] EXCEPT !.approved = TRUE] \in PlanRows
              /\ Created \in PlanRows
            <4>1. plan \in [Plans -> PlanRows] /\ plan[p] \in PlanRows
                BY DEF PlannerTypeOK, PlanRows
            <4>2. Created \in PlanRows
                BY DEF PlanRows
            <4> QED
                BY <4>1, <4>2 DEF PlanRows
        <3>2. plan' = [plan EXCEPT ![p] = [plan[p] EXCEPT !.approved = TRUE], ![q] = Created]
            BY <3>1
        <3>3. plan' \in [Plans -> PlanRows]
            BY <3>1, <3>2
        <3>4. step' \in [Plans -> {"none", "intent", "executing", "draining", "raised", "merging",
                                   "saving", "over"}]
            BY DEF PlannerTypeOK
        <3>5. granted' \in [Plans -> SUBSET Plans]
            BY DEF PlannerTypeOK
        <3> QED
            BY <3>3, <3>4, <3>5 DEF PlannerTypeOK, PlanRows
    <2>3. PlanInv(p)'
        BY <2>1 DEF PlannerTypeOK, PlanInv, Quiet, Untouched, Gate, Ends, Waited, Attempts, Gathered,
            Answer
    <2>4. PlanInv(q)'
        BY <2>1 DEF PlannerTypeOK, PlanInv, Quiet, Untouched, Gate, Ends, Waited, Attempts, Gathered,
            Answer
    <2>5. ASSUME NEW r \in Plans \ {p, q} PROVE PlanInv(r)'
        <3>1. Same(r)
            BY DEF PlannerTypeOK, Same
        <3> QED
            BY <3>1, Others
    <2>6. Granted'
        <3>1. \A r \in Plans : plan[r].status = "pending_approval" => r # q
            BY DEF PlanInv, Ends
        <3>2. \A r \in Plans \ {p, q} : plan'[r] = plan[r]
            BY DEF PlannerTypeOK
        <3>3. plan'[p].status = "pending_approval" /\ plan'[p].approved = TRUE
            BY <2>1 DEF PlannerTypeOK
        <3>4. \A r \in Plans : granted'[r] = IF r = q THEN {p} ELSE granted[r]
            BY DEF PlannerTypeOK
        <3>5. \A r \in Plans : granted[r] \subseteq Plans
            BY DEF PlannerTypeOK
        <3>6. ASSUME NEW r \in Plans, NEW o \in granted'[r]
              PROVE  plan'[o].status = "pending_approval" /\ plan'[o].approved
            <4>1. CASE o = p
                BY <3>3, <4>1
            <4>2. CASE o # p
                <5>1. o \in granted[r] /\ o \in Plans
                    BY <3>4, <3>5, <3>6, <4>2
                <5>2. plan[o].status = "pending_approval" /\ plan[o].approved
                    BY <5>1, Zenon DEF Granted
                <5>3. plan'[o] = plan[o]
                    BY <3>1, <3>2, <4>2, <5>1, <5>2
                <5> QED
                    BY <5>2, <5>3, Zenon
            <4> QED
                BY <4>1, <4>2
        <3> QED
            BY <3>6, Zenon DEF Granted
    <2> QED
        BY <2>2, <2>3, <2>4, <2>5, <2>6
<1> QED
    BY <1>2, <1>3 DEF ApprovePlan

\* A restart ends what was under way.
LEMMA InvRestart == PlannerInv /\ Restart => PlannerInv'
<1> SUFFICES ASSUME PlannerInv, Restart PROVE PlannerInv'
    OBVIOUS
<1> USE DEF PlannerInv, Restart
<1>1. PlannerTypeOK'
    BY DEF PlannerTypeOK, Finished
<1>2. ASSUME NEW p \in Plans PROVE PlanInv(p)'
    <2>1. /\ step'[p] = IF step[p] = "none" THEN "none" ELSE "over"
          /\ \A a \in Agents : task'[p][a] = IF task[p][a] \in {"queued", "working"} THEN "lost"
                                                                                    ELSE task[p][a]
        OBVIOUS
    <2>2. \A a \in Agents : task'[p][a] \in Finished
        BY <2>1 DEF PlannerTypeOK, Finished
    <2>3. Untouched(p)' /\ Gate(p)'
        BY <2>1 DEF PlanInv, Untouched, Gate, Quiet
    <2>4. Ends(p)' /\ Waited(p)' /\ Gathered(p)'
        BY <2>1, <2>2 DEF PlanInv, Ends, Waited, Gathered
    <2>5. Attempts(p)'
        BY <2>1 DEF PlanInv, Attempts
    <2>6. Answer(p)'
        <3>1. plan[p].status = "succeeded" => \A a \in Agents : task[p][a] \in Finished
            BY DEF PlanInv, Ends, Waited
        <3>2. plan[p].status = "succeeded" => \A a \in Agents : task'[p][a] = task[p][a]
            BY <2>1, <3>1 DEF Finished, Outcomes
        <3>3. plan[p].selected \subseteq Agents /\ plan[p].result \subseteq Agents
            BY DEF PlannerTypeOK
        <3>4. UNCHANGED <<plan, late>>
            OBVIOUS
        <3>5. plan[p].status = "succeeded" => Pool(p, plan[p].selected)' = Pool(p, plan[p].selected)
            BY <3>2, <3>3, <3>4 DEF Pool
        <3>6. Answer(p)
            BY DEF PlanInv
        <3> HIDE DEF PlannerInv, Restart
        <3> QED
            BY <3>2, <3>3, <3>4, <3>5, <3>6 DEF Answer
    <2> QED
        BY <2>3, <2>4, <2>5, <2>6 DEF PlanInv
<1>3. Granted'
    BY DEF Granted
<1> QED
    BY <1>1, <1>2, <1>3

\* Every step keeps the invariant of the plans.
LEMMA PlannerInvNext == PlannerInv /\ [PlannerNext]_plannerVars => PlannerInv'
<1> SUFFICES ASSUME PlannerInv, [PlannerNext]_plannerVars PROVE PlannerInv'
    OBVIOUS
<1>1. CASE UNCHANGED plannerVars
    <2>1. \A q \in Plans : Same(q)
        BY <1>1 DEF plannerVars, Same
    <2>2. PlannerTypeOK' /\ Granted'
        BY <1>1 DEF PlannerInv, plannerVars, PlannerTypeOK, Granted
    <2> QED
        BY <2>1, <2>2, Others DEF PlannerInv
<1>2. CASE PlannerNext
    BY <1>2, InvPlan, InvThread, InvView, InvApprove, InvRestart DEF PlannerNext
<1> QED
    BY <1>1, <1>2

\* The model's variables keep their types (PlannerRun, AgentRun).
THEOREM PlannerTypeCorrect == PlannerSpec => []PlannerTypeOK
<1>1. PlannerInv => PlannerTypeOK
    BY DEF PlannerInv
<1> QED
    BY PlannerInvInit, PlannerInvNext, <1>1, PTL DEF PlannerSpec

\* However many plans and agents there are, and whatever fails, is late or is
\* lost: the answer of a plan that succeeded is made of every agent that found
\* something and of no failed run (PlannerService._parallel, merge).
THEOREM AnswersAreWhole == PlannerSpec => []PlanIsWhole
<1>1. PlannerInv => PlanIsWhole
    <2> SUFFICES ASSUME PlannerInv, NEW p \in Plans, plan[p].status = "succeeded"
                 PROVE  /\ \A a \in Agents : task[p][a] \in Finished
                        /\ ~late[p] => plan[p].result = Pool(p, plan[p].selected)
                        /\ \A a \in plan[p].result : run[p][a][Len(run[p][a])] = "succeeded"
                        /\ \A a \in plan[p].selected \ plan[p].result :
                             ~late[p] => (task[p][a] = "failed" => Len(run[p][a]) = 2)
        BY DEF PlanIsWhole
    <2>1. plan[p].result \subseteq Agents /\ plan[p].selected \subseteq Agents
        BY DEF PlannerInv, PlannerTypeOK
    <2> QED
        BY <2>1 DEF PlannerInv, PlanInv, Ends, Waited, Attempts, Answer
<1> QED
    BY PlannerInvInit, PlannerInvNext, <1>1, PTL DEF PlannerSpec

\* A plan that asked for approval starts no agent, and the one an approval starts
\* answers a plan that is held and approved (PlannerService.run, approve).
THEOREM ApprovalComesFirst == PlannerSpec => []HeldRunsNothing
<1>1. PlannerInv => HeldRunsNothing
    BY DEF PlannerInv, PlanInv, Gate, Quiet, Granted, HeldRunsNothing
<1> QED
    BY PlannerInvInit, PlannerInvNext, <1>1, PTL DEF PlannerSpec

-----------------------------------------------------------------------------
\* The rows of reports.
ReportRow == [version : Nat, current : BOOLEAN, deleted : BOOLEAN]

\* A version is at most as large as there are rows.
Bounded == \A i \in Rows : reports[i].version <= Len(reports)

\* A request that has met no other one is the only one in flight; its version is
\* above all there are, and once it has found its rows they are those that a
\* report still shows.
AloneIsRight(w) ==
    writing[w] # "idle" /\ w \notin overlapped =>
        /\ InFlightWriters = {w}
        /\ \A i \in Rows : reports[i].version < next[w]
        /\ writing[w] \in {"updating", "retired"} => ToRetire \subseteq target[w]

\* The inductive invariant of the reports.
ReportsInv ==
    /\ reports \in Seq(ReportRow)
    /\ writing \in [Writers -> {"idle", "numbered", "updating", "retired"}]
    /\ target \in [Writers -> SUBSET Nat]
    /\ next \in [Writers -> Nat]
    /\ \A w \in Writers : next[w] <= Len(reports) + 1
    /\ Bounded
    /\ \A w \in Writers : AloneIsRight(w)

\* A nonempty set of naturals below a bound has a largest one.
LEMMA LargestIsIn ==
    ASSUME NEW n \in Nat, NEW S \in SUBSET (0..n), S # {}
    PROVE  Max(S) \in S /\ \A y \in S : Max(S) >= y
<1> DEFINE T == {n - x : x \in S}
<1>1. T \subseteq Nat /\ T # {}
    <2>1. \A x \in S : n - x \in Nat
        OBVIOUS
    <2> QED
        BY <2>1
<1>2. PICK d \in T : \A e \in T : ~ (<<e, d>> \in OpToRel(<, Nat))
    <2> HIDE DEF T
    <2> QED
        BY <1>1, NatLessThanWellFounded, WFMin
<1>3. \A e \in T : ~ (e < d)
    BY <1>1, <1>2 DEF OpToRel
<1>4. PICK x \in S : d = n - x
    OBVIOUS
<1>5. \A y \in S : x >= y
    <2> TAKE y \in S
    <2>1. n - y \in T
        OBVIOUS
    <2>2. ~ (n - y < n - x)
        BY <1>3, <1>4, <2>1
    <2> QED
        BY <2>2
<1> QED
    BY <1>5 DEF Max

\* The number a request takes is above every version, and the next at most.
LEMMA NextIsAbove ==
    ASSUME reports \in Seq(ReportRow), Bounded
    PROVE  /\ NextVersion \in Nat
           /\ NextVersion <= Len(reports) + 1
           /\ \A i \in Rows : reports[i].version < NextVersion
<1> DEFINE S == {0} \union {reports[i].version : i \in Rows}
<1>1. Len(reports) \in Nat /\ \A i \in Rows : reports[i].version \in 0..Len(reports)
    <2>1. \A i \in Rows : reports[i] \in ReportRow
        BY DEF Rows
    <2> QED
        BY <2>1 DEF Bounded, ReportRow
<1>2. S \in SUBSET (0..Len(reports)) /\ S # {}
    BY <1>1
<1>3. \A i \in Rows : reports[i].version \in S
    OBVIOUS
<1>4. NextVersion = Max(S) + 1
    BY DEF NextVersion
<1> HIDE DEF S
<1>5. Max(S) \in 0..Len(reports) /\ \A y \in S : Max(S) >= y
    BY <1>1, <1>2, LargestIsIn
<1> QED
    BY <1>1, <1>3, <1>4, <1>5

\* Nothing has been written.
LEMMA ReportsInvInit == ReportsInit => ReportsInv
<1> SUFFICES ASSUME ReportsInit PROVE ReportsInv
    OBVIOUS
<1> USE DEF ReportsInit
<1>1. reports \in Seq(ReportRow) /\ Len(reports) = 0
    OBVIOUS
<1>2. Bounded /\ \A w \in Writers : AloneIsRight(w)
    BY DEF Bounded, Rows, AloneIsRight
<1> QED
    BY <1>1, <1>2 DEF ReportsInv

\* A request takes its number: alone it is above all, and otherwise everybody in
\* flight has met another.
LEMMA TakeVersionKeeps ==
    ASSUME ReportsInv, NEW w \in Writers, TakeVersion(w)
    PROVE  ReportsInv'
<1> USE DEF TakeVersion, ReportsInv
<1>1. Rows' = Rows /\ Bounded'
    BY DEF Rows, Bounded
<1>2. /\ NextVersion \in Nat /\ NextVersion <= Len(reports) + 1
      /\ \A i \in Rows : reports[i].version < NextVersion
    BY NextIsAbove
<1>3. next' \in [Writers -> Nat] /\ \A v \in Writers : next'[v] <= Len(reports) + 1
    BY <1>2
<1>4. writing' \in [Writers -> {"idle", "numbered", "updating", "retired"}]
    OBVIOUS
<1>5. ASSUME NEW v \in Writers, writing'[v] # "idle", v \notin overlapped'
      PROVE  v = w /\ InFlightWriters = {}
    <2>1. CASE InFlightWriters = {}
        BY <1>5, <2>1 DEF InFlightWriters
    <2>2. CASE InFlightWriters # {}
        <3>1. v \notin InFlightWriters /\ v # w
            BY <1>5, <2>2
        <3> QED
            BY <1>5, <3>1 DEF InFlightWriters
    <2> QED
        BY <2>1, <2>2
<1>6. ASSUME NEW v \in Writers PROVE AloneIsRight(v)'
    <2> SUFFICES ASSUME writing'[v] # "idle", v \notin overlapped'
                 PROVE  /\ InFlightWriters' = {v}
                        /\ \A i \in Rows' : reports'[i].version < next'[v]
                        /\ writing'[v] \notin {"updating", "retired"}
        BY DEF AloneIsRight
    <2>1. v = w /\ InFlightWriters = {}
        BY <1>5
    <2>2. InFlightWriters' = {w}
        BY <2>1 DEF InFlightWriters
    <2> QED
        BY <1>1, <1>2, <2>1, <2>2
<1> QED
    BY <1>1, <1>3, <1>4, <1>6

\* A request finds its rows, and then waits until it holds them.
LEMMA RowsFoundKeeps ==
    ASSUME ReportsInv, NEW w \in Writers, FindRows(w) \/ RetireRows(w)
    PROVE  ReportsInv'
<1> USE DEF FindRows, RetireRows, ReportsInv
<1>1. Rows' = Rows /\ Bounded' /\ ToRetire' = ToRetire /\ UNCHANGED <<reports, next, overlapped>>
    BY DEF Rows, Bounded, ToRetire
<1>2. ToRetire \subseteq Nat
    BY DEF ToRetire, Rows
<1>3. target' \in [Writers -> SUBSET Nat]
    BY <1>2
<1>4. writing' \in [Writers -> {"idle", "numbered", "updating", "retired"}] /\ writing'[w] # "idle"
    OBVIOUS
<1>5. InFlightWriters' = InFlightWriters
    BY DEF InFlightWriters
<1>6. ASSUME NEW v \in Writers PROVE AloneIsRight(v)'
    <2> SUFFICES ASSUME writing'[v] # "idle", v \notin overlapped'
                 PROVE  /\ InFlightWriters = {v}
                        /\ \A i \in Rows : reports[i].version < next[v]
                        /\ writing'[v] \in {"updating", "retired"} => ToRetire \subseteq target'[v]
        BY <1>1, <1>5 DEF AloneIsRight
    <2>1. writing[v] # "idle" /\ v \notin overlapped
        BY <1>1
    <2>2. InFlightWriters = {v} /\ \A i \in Rows : reports[i].version < next[v]
        BY <2>1 DEF AloneIsRight
    <2>3. v = w
        BY <2>2 DEF InFlightWriters
    <2>4. CASE FindRows(w)
        BY <2>2, <2>3, <2>4
    <2>5. CASE RetireRows(w)
        <3>1. ToRetire \subseteq target[w]
            BY <2>1, <2>3, <2>5 DEF AloneIsRight
        <3>2. target'[w] = {i \in target[w] : ~reports[i].deleted}
            BY <2>5
        <3> QED
            BY <2>2, <2>3, <3>1, <3>2 DEF ToRetire
    <2> QED
        BY <2>4, <2>5
<1> QED
    BY <1>1, <1>3, <1>4, <1>6

\* What a request writes when it commits.
LEMMA CreatedRows ==
    ASSUME ReportsInv, NEW w \in Writers, CreateReport(w)
    PROVE  /\ reports' \in Seq(ReportRow)
           /\ Len(reports') = Len(reports) + 1
           /\ Rows' = Rows \union {Len(reports')}
           /\ reports'[Len(reports')] = [version |-> next[w], current |-> TRUE, deleted |-> FALSE]
           /\ \A i \in Rows : /\ reports'[i].version = reports[i].version
                              /\ reports'[i].deleted = reports[i].deleted
                              /\ i \in target[w] => ~ reports'[i].current
<1> USE DEF ReportsInv, CreateReport
<1> DEFINE old == [i \in Rows |-> IF i \in target[w] THEN [reports[i] EXCEPT !.current = FALSE]
                                  ELSE reports[i]]
           row == [version |-> next[w], current |-> TRUE, deleted |-> FALSE]
<1>1. Len(reports) \in Nat /\ Rows = 1..Len(reports) /\ \A i \in Rows : reports[i] \in ReportRow
    BY DEF Rows
<1>2. \A i \in Rows : /\ old[i] \in ReportRow
                      /\ old[i].version = reports[i].version /\ old[i].deleted = reports[i].deleted
                      /\ i \in target[w] => ~ old[i].current
    BY <1>1 DEF ReportRow
<1>3. old \in Seq(ReportRow) /\ Len(old) = Len(reports)
    BY <1>1, <1>2
<1>4. row \in ReportRow
    BY DEF ReportRow
<1>5. reports' = Append(old, row)
    OBVIOUS
<1> HIDE DEF old, row
<1>6. /\ reports' \in Seq(ReportRow)
      /\ Len(reports') = Len(reports) + 1
      /\ \A i \in Rows : reports'[i] = old[i]
      /\ reports'[Len(reports')] = row
    <2>1. /\ Append(old, row) \in Seq(ReportRow)
          /\ Len(Append(old, row)) = Len(old) + 1
          /\ \A i \in 1..Len(old) : Append(old, row)[i] = old[i]
          /\ Append(old, row)[Len(old) + 1] = row
        BY <1>3, <1>4, AppendProperties
    <2> QED
        BY <1>1, <1>3, <1>5, <2>1
<1>7. Rows' = Rows \union {Len(reports')}
    BY <1>1, <1>6 DEF Rows
<1> QED
    BY <1>2, <1>6, <1>7 DEF row

\* A request commits, with everybody else's row as it was.
LEMMA CreateReportKeeps ==
    ASSUME ReportsInv, NEW w \in Writers, CreateReport(w)
    PROVE  ReportsInv'
<1> USE DEF ReportsInv
<1>1. /\ reports' \in Seq(ReportRow) /\ Len(reports') = Len(reports) + 1
      /\ Rows' = Rows \union {Len(reports')}
      /\ reports'[Len(reports')].version = next[w]
      /\ \A i \in Rows : reports'[i].version = reports[i].version
    <2>1. reports'[Len(reports')] = [version |-> next[w], current |-> TRUE, deleted |-> FALSE]
        BY CreatedRows
    <2> QED
        BY <2>1, CreatedRows
<1>2. Len(reports) \in Nat /\ \A i \in Rows : reports[i].version \in Nat
    <2>1. \A i \in Rows : reports[i] \in ReportRow
        BY DEF Rows
    <2> QED
        BY <2>1 DEF ReportRow
<1>3. Bounded'
    <2>1. \A i \in Rows : reports'[i].version <= Len(reports')
        BY <1>1, <1>2 DEF Bounded
    <2>2. next[w] <= Len(reports')
        BY <1>1
    <2> QED
        BY <1>1, <2>1, <2>2 DEF Bounded
<1>4. /\ next' = next /\ overlapped' = overlapped
      /\ writing' = [writing EXCEPT ![w] = "idle"] /\ writing[w] = "retired"
      /\ target' = [target EXCEPT ![w] = {}]
    BY DEF CreateReport
<1>5. /\ writing' \in [Writers -> {"idle", "numbered", "updating", "retired"}]
      /\ target' \in [Writers -> SUBSET Nat]
      /\ \A v \in Writers : next'[v] <= Len(reports') + 1
    BY <1>1, <1>2, <1>4
<1>6. ASSUME NEW v \in Writers PROVE AloneIsRight(v)'
    <2> SUFFICES ASSUME writing'[v] # "idle", v \notin overlapped' PROVE FALSE
        BY DEF AloneIsRight
    <2>1. v # w /\ writing[v] # "idle" /\ v \notin overlapped
        BY <1>4
    <2>2. InFlightWriters = {v}
        BY <2>1 DEF AloneIsRight
    <2>3. w \in InFlightWriters
        BY <1>4 DEF InFlightWriters
    <2> QED
        BY <2>1, <2>2, <2>3
<1> QED
    BY <1>1, <1>3, <1>4, <1>5, <1>6

\* A report is deleted; its version stays.
LEMMA DeleteReportKeeps ==
    ASSUME ReportsInv, NEW i \in Rows, DeleteReport(i)
    PROVE  ReportsInv'
<1> USE DEF ReportsInv
<1>1. Rows = 1..Len(reports) /\ reports[i] \in ReportRow
    BY DEF Rows
<1>2. reports' = [reports EXCEPT ![i] = [reports[i] EXCEPT !.deleted = TRUE]]
    BY DEF DeleteReport
<1> DEFINE row == [reports[i] EXCEPT !.deleted = TRUE]
<1>3. row \in ReportRow /\ row.version = reports[i].version /\ row.deleted
    BY <1>1 DEF ReportRow
<1>4. reports' = [reports EXCEPT ![i] = row]
    BY <1>2
<1> HIDE DEF row
<1>5. /\ reports' \in Seq(ReportRow) /\ Len(reports') = Len(reports)
      /\ \A j \in 1..Len(reports) : reports'[j] = IF j = i THEN row ELSE reports[j]
    BY <1>1, <1>3, <1>4, ExceptSeq
<1>6. Rows' = Rows
    BY <1>1, <1>5 DEF Rows
<1>7. /\ \A j \in Rows : reports'[j].version = reports[j].version
      /\ \A j \in Rows : ~ reports'[j].deleted => ~ reports[j].deleted
    BY <1>1, <1>3, <1>5
<1>8. Bounded'
    BY <1>5, <1>6, <1>7 DEF Bounded
<1>9. UNCHANGED <<writing, next, target, overlapped>>
    BY DEF DeleteReport
<1>10. ToRetire' \subseteq ToRetire
    BY <1>6, <1>7 DEF ToRetire
<1>11. \A v \in Writers : AloneIsRight(v)'
    BY <1>6, <1>7, <1>9, <1>10 DEF AloneIsRight, InFlightWriters
<1> QED
    BY <1>5, <1>8, <1>9, <1>11

\* Every step keeps the invariant.
LEMMA ReportsInvNext == ReportsInv /\ [ReportsNext]_reportVars => ReportsInv'
<1> SUFFICES ASSUME ReportsInv, [ReportsNext]_reportVars PROVE ReportsInv'
    OBVIOUS
<1>1. ASSUME NEW w \in Writers, TakeVersion(w) PROVE ReportsInv'
    BY <1>1, TakeVersionKeeps
<1>2. ASSUME NEW w \in Writers, FindRows(w) \/ RetireRows(w) PROVE ReportsInv'
    BY <1>2, RowsFoundKeeps
<1>3. ASSUME NEW w \in Writers, CreateReport(w) PROVE ReportsInv'
    BY <1>3, CreateReportKeeps
<1>4. ASSUME NEW i \in Rows, DeleteReport(i) PROVE ReportsInv'
    BY <1>4, DeleteReportKeeps
<1>5. CASE UNCHANGED reportVars
    BY <1>5 DEF reportVars, ReportsInv, Bounded, Rows, AloneIsRight, InFlightWriters, ToRetire
<1> QED
    BY <1>1, <1>2, <1>3, <1>4, <1>5 DEF ReportsNext

\* A request that met no other leaves one current report, its own, with a version
\* above that of every report there ever was, for any number of requests.
THEOREM AloneRequestsHeal == ReportsSpec => AloneHeals
<1> DEFINE Heals ==
      \A w \in Writers : writing[w] = "retired" /\ writing'[w] = "idle" /\ w \notin overlapped =>
            /\ Current' = {Len(reports')}
            /\ \A i \in Rows : reports[i].version < reports'[Len(reports')].version
<1>1. ReportsInv /\ [ReportsNext]_reportVars => [Heals]_reportVars
    <2> SUFFICES ASSUME ReportsInv, ReportsNext, NEW w \in Writers,
                        writing[w] = "retired", writing'[w] = "idle", w \notin overlapped
                 PROVE  /\ Current' = {Len(reports')}
                        /\ \A i \in Rows : reports[i].version < reports'[Len(reports')].version
        OBVIOUS
    <2>1. CreateReport(w)
        <3>1. writing \in [Writers -> {"idle", "numbered", "updating", "retired"}]
            BY DEF ReportsInv
        <3>2. ASSUME NEW v \in Writers, TakeVersion(v) \/ FindRows(v) \/ RetireRows(v)
              PROVE  FALSE
            BY <3>1, <3>2 DEF TakeVersion, FindRows, RetireRows
        <3>3. ASSUME NEW v \in Writers, CreateReport(v) PROVE v = w
            BY <3>1, <3>3 DEF CreateReport
        <3>4. ASSUME NEW i \in Rows, DeleteReport(i) PROVE FALSE
            BY <3>4 DEF DeleteReport
        <3> QED
            BY <3>2, <3>3, <3>4 DEF ReportsNext
    <2>2. ToRetire \subseteq target[w] /\ \A i \in Rows : reports[i].version < next[w]
        BY DEF ReportsInv, AloneIsRight
    <2>3. /\ Rows' = Rows \union {Len(reports')}
          /\ Len(reports') = Len(reports) + 1
          /\ reports'[Len(reports')] = [version |-> next[w], current |-> TRUE, deleted |-> FALSE]
          /\ \A i \in Rows : /\ reports'[i].deleted = reports[i].deleted
                             /\ i \in target[w] => ~ reports'[i].current
        BY <2>1, CreatedRows
    <2>4. \A i \in Rows : reports'[i].deleted \/ ~ reports'[i].current
        BY <2>2, <2>3 DEF ToRetire
    <2>5. Current' = {Len(reports')}
        BY <2>3, <2>4 DEF Current
    <2> QED
        BY <2>2, <2>3, <2>5
<1> QED
    BY ReportsInvInit, ReportsInvNext, <1>1, PTL DEF ReportsSpec, AloneHeals

-----------------------------------------------------------------------------
\* Where an element of a set of numbers comes among them.
Rank(A, k) == Cardinality({j \in A : j <= k})
\* The one that comes j-th.
Place(A, j) == CHOOSE k \in A : Cardinality({i \in A : i <= k}) = j

\* The numbers of a finite set are counted off, each once.
LEMMA RankBijects ==
    ASSUME NEW n \in Nat, NEW A \in SUBSET (1..n)
    PROVE  /\ Cardinality(A) \in Nat
           /\ \A k \in A : Rank(A, k) \in 1..Cardinality(A)
           /\ \A k, l \in A : Rank(A, k) = Rank(A, l) => k = l
           /\ \A j \in 1..Cardinality(A) : Place(A, j) \in A /\ Rank(A, Place(A, j)) = j
           /\ \A k \in A : Place(A, Rank(A, k)) = k
<1>1. IsFiniteSet(A) /\ Cardinality(A) \in Nat
    <2>1. IsFiniteSet(1..n)
        BY FS_Interval
    <2> QED
        BY <2>1, FS_Subset, FS_CardinalityType
<1> DEFINE Up(k) == {j \in A : j <= k}
<1>2. \A k \in A : IsFiniteSet(Up(k)) /\ Cardinality(Up(k)) \in Nat /\ Cardinality(Up(k)) <= Cardinality(A)
    <2> TAKE k \in A
    <2>1. Up(k) \in SUBSET A
        OBVIOUS
    <2> HIDE DEF Up
    <2> QED
        BY <1>1, <2>1, FS_Subset, FS_CardinalityType
<1>3. \A k \in A : Cardinality(Up(k)) # 0
    <2> TAKE k \in A
    <2>1. k \in Up(k)
        OBVIOUS
    <2>2. IsFiniteSet(Up(k))
        BY <1>2
    <2> HIDE DEF Up
    <2> QED
        BY <2>1, <2>2, FS_EmptySet
<1>4. \A k \in A : Rank(A, k) = Cardinality(Up(k))
    BY DEF Rank
<1>5. \A k, l \in A : k < l => Cardinality(Up(k)) # Cardinality(Up(l))
    <2> SUFFICES ASSUME NEW k \in A, NEW l \in A, k < l, Cardinality(Up(k)) = Cardinality(Up(l))
                 PROVE  FALSE
        OBVIOUS
    <2>0. k \in 1..n /\ l \in 1..n
        OBVIOUS
    <2>1. Up(k) \in SUBSET Up(l)
        <3>1. \A j \in A : j \in Nat
            OBVIOUS
        <3>2. \A j \in A : j <= k => j <= l
            BY <2>0, <3>1
        <3> QED
            BY <3>2
    <2>4. l \in Up(l)
        BY <2>0
    <2>5. l \notin Up(k)
        BY <2>0
    <2>2. IsFiniteSet(Up(l))
        BY <1>2
    <2> HIDE DEF Up
    <2>3. Up(l) = Up(k)
        BY <2>1, <2>2, FS_Subset
    <2> QED
        BY <2>3, <2>4, <2>5
<1>6. \A k, l \in A : Rank(A, k) = Rank(A, l) => k = l
    <2> SUFFICES ASSUME NEW k \in A, NEW l \in A, Rank(A, k) = Rank(A, l) PROVE k = l
        OBVIOUS
    <2>1. ~ (k < l) /\ ~ (l < k)
        BY <1>4, <1>5
    <2> QED
        BY <2>1
<1>7. \A k \in A : Rank(A, k) \in 1..Cardinality(A)
    <2> TAKE k \in A
    <2>1. /\ Cardinality(Up(k)) \in Nat /\ Cardinality(Up(k)) <= Cardinality(A)
          /\ Cardinality(Up(k)) # 0 /\ Rank(A, k) = Cardinality(Up(k))
        BY <1>2, <1>3, <1>4
    <2> HIDE DEF Up
    <2> QED
        BY <1>1, <2>1
<1>8. \A j \in 1..Cardinality(A) : \E k \in A : Rank(A, k) = j
    <2> DEFINE f == [k \in A |-> Rank(A, k)]
               T == 1..Cardinality(A)
    <2>1. f \in Injection(A, T)
        BY <1>6, <1>7 DEF Injection, IsInjective
    <2>2. IsFiniteSet(T) /\ Cardinality(T) = Cardinality(A)
        BY <1>1, FS_Interval
    <2>3. f \in Surjection(A, T)
        <3> HIDE DEF f, T
        <3> QED
            BY <2>1, <2>2, FS_Injection
    <2> QED
        BY <2>3 DEF Surjection
<1>9. \A j \in 1..Cardinality(A) : Place(A, j) \in A /\ Rank(A, Place(A, j)) = j
    BY <1>8 DEF Place, Rank
<1>10. \A k \in A : Place(A, Rank(A, k)) = k
    BY <1>6, <1>7, <1>9
<1> QED
    BY <1>1, <1>6, <1>7, <1>9, <1>10

-----------------------------------------------------------------------------
\* The rows of suggestions.
SuggestionRow == [item : Items, status : ApprovalStatus, record : Nat]
\* The rows of what is made of them: tasks, decisions and the like.
RecordRow == [task : BOOLEAN, suggestion : Nat]

\* What a materialization has read.
Reading(w) == \E items \in SUBSET Items : worker[w] = [pc |-> "read", items |-> items]
\* What a review has read.
Reviewing(u) ==
    /\ review[u].pc = "read" /\ review[u].act \in Acts
    /\ review[u].ids \subseteq DOMAIN suggestions /\ DOMAIN review[u].status = review[u].ids

\* The values of the variables.
SuggestionTypes ==
    /\ suggestions \in Seq(SuggestionRow)
    /\ records \in Seq(RecordRow)
    /\ \A r \in DOMAIN records : records[r].suggestion <= Len(suggestions)
    /\ analysis \subseteq Items
    /\ DOMAIN worker = Workers /\ \A w \in Workers : worker[w] = Resting \/ Reading(w)
    /\ DOMAIN review = Reviewers /\ \A u \in Reviewers : review[u] = Resting \/ Reviewing(u)

\* While no materialization has crossed another one reads at most, and nothing
\* of what it read has been suggested.
Uncrossed ==
    ~ crossed =>
        /\ \A v, w \in Workers : worker[v].pc # "idle" /\ worker[w].pc # "idle" => v = w
        /\ \A w \in Workers : worker[w].pc # "idle" => worker[w].items \cap Existing = {}

\* A converted suggestion became a record whose approval is in the log.
Traced(s) ==
    suggestions[s].status = "converted" =>
        /\ Became(s, suggestions[s].record)
        /\ Log("approved", suggestions[s].record) \in activity

\* A record the AI made has its approval in the log.
Logged == \A r \in DOMAIN records : records[r].suggestion # 0 => Log("approved", r) \in activity

\* Of a suggestion that is not contested there is one record, and none while it
\* is open.
SingleRecord(s) ==
    /\ \A q, r \in DOMAIN records :
         records[q].suggestion = s /\ records[r].suggestion = s => q = r
    /\ suggestions[s].status = "open" => \A r \in DOMAIN records : records[r].suggestion # s

\* What a review read of a suggestion that is not contested is still so, nobody
\* else reviews it, and it had not been closed if it is to be approved.
StillSo(u, s) ==
    /\ review[u].status[s] = suggestions[s].status
    /\ review[u].act \notin {"reject", "archive"} => suggestions[s].status \notin {"rejected", "archived"}
    /\ \A v \in Reviewers \ {u} : review[v].pc = "read" => s \notin review[v].ids

\* That, of all suggestions and reviews.
Uncontested ==
    /\ \A s \in DOMAIN suggestions \ contested : SingleRecord(s)
    /\ \A u \in Reviewers : review[u].pc = "read" =>
         \A s \in review[u].ids \ contested : StillSo(u, s)

\* The inductive invariant of the suggestions.
SuggestionsInv ==
    /\ SuggestionTypes
    /\ Uncrossed
    /\ SuggestedOnce
    /\ Logged
    /\ \A s \in DOMAIN suggestions : Traced(s)
    /\ Uncontested

\* Nothing has been suggested.
LEMMA SuggestionsInvInit == SuggestionsInit => SuggestionsInv
<1> SUFFICES ASSUME SuggestionsInit PROVE SuggestionsInv
    OBVIOUS
<1> USE DEF SuggestionsInit
<1>1. SuggestionTypes
    BY DEF SuggestionTypes
<1>2. \A w \in Workers : worker[w].pc = "idle"
    BY DEF Resting
<1>3. \A u \in Reviewers : review[u].pc = "idle"
    BY DEF Resting
<1> QED
    BY <1>1, <1>2, <1>3 DEF SuggestionsInv, Uncrossed, SuggestedOnce, Logged, Uncontested

\* New records, one for each element of A in its order.
Grown(A, f) ==
    /\ records' \in Seq(RecordRow)
    /\ Len(records') = Len(records) + Cardinality(A)
    /\ \A r \in DOMAIN records : r \in DOMAIN records' /\ records'[r] = records[r]
    /\ \A k \in A : /\ Len(records) + Rank(A, k) \in DOMAIN records' \ DOMAIN records
                    /\ records'[Len(records) + Rank(A, k)] = f[k]
    /\ \A r \in DOMAIN records' \ DOMAIN records : \E k \in A : r = Len(records) + Rank(A, k)

\* Appending them in the order of A.
LEMMA RecordsGrow ==
    ASSUME records \in Seq(RecordRow), NEW n \in Nat, NEW A \in SUBSET (1..n),
           NEW f \in [A -> RecordRow],
           records' = records \o [j \in 1..Cardinality(A) |-> f[Place(A, j)]]
    PROVE  Grown(A, f)
<1> DEFINE news == [j \in 1..Cardinality(A) |-> f[Place(A, j)]]
<1>1. /\ Cardinality(A) \in Nat
      /\ \A k \in A : Rank(A, k) \in 1..Cardinality(A) /\ Place(A, Rank(A, k)) = k
      /\ \A j \in 1..Cardinality(A) : Place(A, j) \in A /\ Rank(A, Place(A, j)) = j
    BY RankBijects
<1>2. \A j \in 1..Cardinality(A) : news[j] \in RecordRow /\ news[j] = f[Place(A, j)]
    BY <1>1
<1>3. news \in Seq(RecordRow) /\ Len(news) = Cardinality(A)
    BY <1>1, <1>2
<1>4. records' = records \o news
    OBVIOUS
<1> HIDE DEF news
<1>5. Len(records) \in Nat /\ DOMAIN records = 1..Len(records)
    OBVIOUS
<1>6. /\ records' \in Seq(RecordRow)
      /\ Len(records') = Len(records) + Cardinality(A)
      /\ \A i \in 1..(Len(records) + Cardinality(A)) :
           records'[i] = IF i <= Len(records) THEN records[i] ELSE news[i - Len(records)]
    <2>1. /\ records \o news \in Seq(RecordRow)
          /\ Len(records \o news) = Len(records) + Len(news)
          /\ \A i \in 1..(Len(records) + Len(news)) :
               (records \o news)[i] = IF i <= Len(records) THEN records[i] ELSE news[i - Len(records)]
        BY <1>3, ConcatProperties
    <2> QED
        BY <1>3, <1>4, <2>1
<1>7. DOMAIN records' = 1..(Len(records) + Cardinality(A))
    BY <1>6, LenProperties
<1>8. \A r \in DOMAIN records : r \in DOMAIN records' /\ records'[r] = records[r]
    BY <1>1, <1>5, <1>6, <1>7
<1>9. ASSUME NEW k \in A
      PROVE  /\ Len(records) + Rank(A, k) \in DOMAIN records' \ DOMAIN records
             /\ records'[Len(records) + Rank(A, k)] = f[k]
    <2>1. Rank(A, k) \in 1..Cardinality(A) /\ Place(A, Rank(A, k)) = k
        BY <1>1
    <2>2. news[Rank(A, k)] = f[k]
        BY <1>2, <2>1
    <2> QED
        BY <1>1, <1>5, <1>6, <1>7, <2>1, <2>2
<1>10. ASSUME NEW r \in DOMAIN records' \ DOMAIN records
       PROVE  \E k \in A : r = Len(records) + Rank(A, k)
    <2>1. r - Len(records) \in 1..Cardinality(A)
        BY <1>1, <1>5, <1>7
    <2>2. Place(A, r - Len(records)) \in A /\ Rank(A, Place(A, r - Len(records))) = r - Len(records)
        BY <1>1, <2>1
    <2> QED
        BY <1>5, <1>7, <2>2
<1> QED
    BY <1>6, <1>8, <1>9, <1>10 DEF Grown
\* A step that leaves the rows, the log and what is being done alone.
LEMMA SuggestionsInvRests ==
    ASSUME SuggestionsInv, analysis' \subseteq Items,
           UNCHANGED <<suggestions, records, activity, worker, review, contested, crossed>>
    PROVE  SuggestionsInv'
<1>1. SuggestionTypes'
    BY DEF SuggestionsInv, SuggestionTypes, Reading, Reviewing
<1>2. Uncrossed' /\ SuggestedOnce'
    BY DEF SuggestionsInv, Uncrossed, SuggestedOnce, Existing
<1>3. Logged' /\ (\A s \in DOMAIN suggestions' : Traced(s)')
    BY DEF SuggestionsInv, Logged, Traced, Became, Log
<1>4. Uncontested'
    BY DEF SuggestionsInv, Uncontested, SingleRecord, StillSo
<1> QED
    BY <1>1, <1>2, <1>3, <1>4 DEF SuggestionsInv

\* The task a user makes is of no suggestion.
LEMMA SuggestionsInvCreateTask ==
    ASSUME SuggestionsInv, CreateTask
    PROVE  SuggestionsInv'
<1> USE DEF CreateTask
<1> DEFINE row == [task |-> TRUE, suggestion |-> 0]
<1>1. row \in RecordRow /\ row.suggestion = 0
    BY DEF RecordRow
<1>2. records' = Append(records, row) /\ records \in Seq(RecordRow)
    BY DEF SuggestionsInv, SuggestionTypes
<1> HIDE DEF row
<1>3. /\ records' \in Seq(RecordRow) /\ Len(records') = Len(records) + 1
      /\ \A r \in 1..Len(records) : records'[r] = records[r]
      /\ records'[Len(records) + 1] = row
    <2>1. /\ Append(records, row) \in Seq(RecordRow) /\ Len(Append(records, row)) = Len(records) + 1
          /\ \A r \in 1..Len(records) : Append(records, row)[r] = records[r]
          /\ Append(records, row)[Len(records) + 1] = row
        BY <1>1, <1>2, AppendProperties
    <2> QED
        BY <1>2, <2>1
<1>4. Len(records) \in Nat /\ DOMAIN records = 1..Len(records) /\ DOMAIN records' = 1..(Len(records) + 1)
    BY <1>2, <1>3, LenProperties
<1>5. /\ \A r \in DOMAIN records : r \in DOMAIN records' /\ records'[r] = records[r]
      /\ \A r \in DOMAIN records' \ DOMAIN records : records'[r].suggestion = 0
    BY <1>1, <1>3, <1>4
<1>6. activity \subseteq activity'
    OBVIOUS
<1>7. UNCHANGED <<analysis, suggestions, worker, review, contested, crossed>>
    OBVIOUS
<1>8. Len(suggestions) \in Nat /\ DOMAIN suggestions = 1..Len(suggestions)
    BY DEF SuggestionsInv, SuggestionTypes
<1> HIDE DEF CreateTask
<1>9. SuggestionTypes'
    <2>1. \A r \in DOMAIN records' : records'[r].suggestion <= Len(suggestions')
        <3>1. \A r \in DOMAIN records : records[r].suggestion <= Len(suggestions)
            BY DEF SuggestionsInv, SuggestionTypes
        <3> QED
            BY <1>5, <1>7, <1>8, <3>1
    <2> QED
        BY <1>3, <1>7, <2>1 DEF SuggestionsInv, SuggestionTypes, Reading, Reviewing
<1>10. Uncrossed' /\ SuggestedOnce'
    BY <1>7 DEF SuggestionsInv, Uncrossed, SuggestedOnce, Existing
<1>11. Logged' /\ (\A s \in DOMAIN suggestions' : Traced(s)')
    BY <1>5, <1>6, <1>7 DEF SuggestionsInv, Logged, Traced, Became, Log
<1>12. Uncontested'
    <2>1. \A s \in DOMAIN suggestions \ contested : SingleRecord(s)'
        BY <1>5, <1>7, <1>8 DEF SuggestionsInv, Uncontested, SingleRecord
    <2> QED
        BY <1>7, <2>1 DEF SuggestionsInv, Uncontested, StillSo
<1> QED
    BY <1>9, <1>10, <1>11, <1>12 DEF SuggestionsInv

\* The first to read reads alone, and nothing it reads has been suggested.
LEMMA SuggestionsInvReadExisting ==
    ASSUME SuggestionsInv, NEW w \in Workers, ReadExisting(w)
    PROVE  SuggestionsInv'
<1> USE DEF ReadExisting
<1>1. UNCHANGED <<analysis, suggestions, records, activity, review, contested>>
    OBVIOUS
<1>2. /\ DOMAIN worker = Workers /\ analysis \subseteq Items
      /\ worker' = [worker EXCEPT ![w] = [pc |-> "read", items |-> analysis \ Existing]]
    BY DEF SuggestionsInv, SuggestionTypes
<1>3. /\ DOMAIN worker' = Workers /\ worker'[w] = [pc |-> "read", items |-> analysis \ Existing]
      /\ \A v \in Workers \ {w} : worker'[v] = worker[v]
    BY <1>2
<1>4. crossed' = (crossed \/ \E v \in Workers : worker[v].pc # "idle")
    OBVIOUS
<1> HIDE DEF ReadExisting
<1>5. SuggestionTypes'
    <2>1. Reading(w)'
        BY <1>2, <1>3 DEF Reading
    <2>2. \A v \in Workers : worker'[v] = Resting \/ Reading(v)'
        BY <1>3, <2>1 DEF SuggestionsInv, SuggestionTypes, Reading
    <2> QED
        BY <1>1, <1>3, <2>2 DEF SuggestionsInv, SuggestionTypes, Reading, Reviewing
<1>6. Uncrossed'
    <2> SUFFICES ASSUME ~ crossed'
                 PROVE  /\ \A u, v \in Workers : worker'[u].pc # "idle" /\ worker'[v].pc # "idle" => u = v
                        /\ \A v \in Workers : worker'[v].pc # "idle" => worker'[v].items \cap Existing' = {}
        BY DEF Uncrossed
    <2>1. \A v \in Workers : worker[v].pc = "idle"
        BY <1>4
    <2>2. \A v \in Workers : worker'[v].pc # "idle" => v = w
        BY <1>3, <2>1
    <2>3. worker'[w].items \cap Existing = {} /\ Existing' = Existing
        BY <1>1, <1>3 DEF Existing
    <2> QED
        BY <2>2, <2>3
<1>7. SuggestedOnce'
    BY <1>1, <1>4 DEF SuggestionsInv, SuggestedOnce
<1>8. Logged' /\ (\A s \in DOMAIN suggestions' : Traced(s)')
    BY <1>1 DEF SuggestionsInv, Logged, Traced, Became, Log
<1>9. Uncontested'
    BY <1>1 DEF SuggestionsInv, Uncontested, SingleRecord, StillSo
<1> QED
    BY <1>5, <1>6, <1>7, <1>8, <1>9 DEF SuggestionsInv

\* A materialization that fails leaves nothing.
LEMMA SuggestionsInvEmitFails ==
    ASSUME SuggestionsInv, NEW w \in Workers, EmitFails(w)
    PROVE  SuggestionsInv'
<1> USE DEF EmitFails
<1>1. UNCHANGED <<analysis, suggestions, records, activity, review, contested, crossed>>
    OBVIOUS
<1>2. DOMAIN worker = Workers /\ worker' = [worker EXCEPT ![w] = Resting]
    BY DEF SuggestionsInv, SuggestionTypes
<1>3. DOMAIN worker' = Workers /\ worker'[w] = Resting /\ \A v \in Workers \ {w} : worker'[v] = worker[v]
    BY <1>2
<1>4. worker'[w].pc = "idle"
    BY <1>3 DEF Resting
<1> HIDE DEF EmitFails
<1>5. SuggestionTypes'
    <2>1. \A v \in Workers : worker'[v] = Resting \/ Reading(v)'
        BY <1>3 DEF SuggestionsInv, SuggestionTypes, Reading
    <2> QED
        BY <1>1, <1>3, <2>1 DEF SuggestionsInv, SuggestionTypes, Reading, Reviewing
<1>6. Uncrossed'
    <2>1. Existing' = Existing
        BY <1>1 DEF Existing
    <2> QED
        BY <1>1, <1>3, <1>4, <2>1 DEF SuggestionsInv, Uncrossed
<1>7. SuggestedOnce'
    BY <1>1 DEF SuggestionsInv, SuggestedOnce
<1>8. Logged' /\ (\A s \in DOMAIN suggestions' : Traced(s)')
    BY <1>1 DEF SuggestionsInv, Logged, Traced, Became, Log
<1>9. Uncontested'
    BY <1>1 DEF SuggestionsInv, Uncontested, SingleRecord, StillSo
<1> QED
    BY <1>5, <1>6, <1>7, <1>8, <1>9 DEF SuggestionsInv

\* What is opened twice, or approved after it was closed, becomes contested.
LEMMA SuggestionsInvOpenReview ==
    ASSUME SuggestionsInv, NEW u \in Reviewers, NEW act \in Acts,
           NEW ids \in SUBSET DOMAIN suggestions, OpenReview(u, act, ids)
    PROVE  SuggestionsInv'
<1> USE DEF OpenReview
<1>1. UNCHANGED <<analysis, suggestions, records, activity, worker, crossed>>
    OBVIOUS
<1> DEFINE read == [pc |-> "read", act |-> act, ids |-> ids, status |-> [s \in ids |-> suggestions[s].status]]
<1>2. DOMAIN review = Reviewers /\ review' = [review EXCEPT ![u] = read] /\ review[u].pc = "idle"
    BY DEF SuggestionsInv, SuggestionTypes
<1>3. DOMAIN review' = Reviewers /\ review'[u] = read /\ \A v \in Reviewers \ {u} : review'[v] = review[v]
    BY <1>2
<1>4. /\ read.pc = "read" /\ read.act = act /\ read.ids = ids /\ DOMAIN read.status = ids
      /\ \A s \in ids : read.status[s] = suggestions[s].status
    OBVIOUS
<1>5. /\ contested \subseteq contested' /\ ids \cap UnderReview \subseteq contested'
      /\ act \notin {"reject", "archive"} => ids \cap Closed \subseteq contested'
    OBVIOUS
<1> HIDE DEF OpenReview, read
<1>6. SuggestionTypes'
    <2>1. Reviewing(u)'
        BY <1>1, <1>3, <1>4 DEF Reviewing
    <2>2. \A v \in Reviewers \ {u} : review'[v] = Resting \/ Reviewing(v)'
        BY <1>1, <1>3 DEF SuggestionsInv, SuggestionTypes, Reviewing
    <2>3. \A v \in Reviewers : review'[v] = Resting \/ Reviewing(v)'
        BY <2>1, <2>2
    <2> QED
        BY <1>1, <1>3, <2>3 DEF SuggestionsInv, SuggestionTypes, Reading
<1>7. Uncrossed' /\ SuggestedOnce'
    BY <1>1 DEF SuggestionsInv, Uncrossed, SuggestedOnce, Existing
<1>8. Logged' /\ (\A s \in DOMAIN suggestions' : Traced(s)')
    BY <1>1 DEF SuggestionsInv, Logged, Traced, Became, Log
<1>9. \A s \in DOMAIN suggestions \ contested' : SingleRecord(s)'
    BY <1>1, <1>5 DEF SuggestionsInv, Uncontested, SingleRecord
<1>10. \A v \in Reviewers, s \in DOMAIN suggestions :
         review[v].pc = "read" /\ s \in review[v].ids => s \in UnderReview
    BY DEF UnderReview
<1>11. \A s \in ids \ contested' : StillSo(u, s)'
    <2> SUFFICES ASSUME NEW s \in ids \ contested'
                 PROVE  /\ review'[u].status[s] = suggestions'[s].status
                        /\ review'[u].act \notin {"reject", "archive"} =>
                             suggestions'[s].status \notin {"rejected", "archived"}
                        /\ \A v \in Reviewers \ {u} : review'[v].pc = "read" => s \notin review'[v].ids
        BY DEF StillSo
    <2>1. review'[u].status[s] = suggestions'[s].status
        BY <1>1, <1>3, <1>4
    <2>2. act \notin {"reject", "archive"} => s \notin Closed
        BY <1>5
    <2>3. act \notin {"reject", "archive"} => suggestions[s].status \notin {"rejected", "archived"}
        BY <2>2 DEF Closed
    <2>4. \A v \in Reviewers \ {u} : review'[v].pc = "read" => s \notin review'[v].ids
        BY <1>3, <1>5, <1>10
    <2> QED
        BY <1>1, <1>3, <1>4, <2>1, <2>3, <2>4
<1>12. ASSUME NEW v \in Reviewers \ {u}, review[v].pc = "read", NEW s \in review[v].ids \ contested'
       PROVE  StillSo(v, s)'
    <2>1. s \in DOMAIN suggestions
        BY <1>12 DEF SuggestionsInv, SuggestionTypes, Reviewing, Resting
    <2>2. s \notin ids
        BY <1>5, <1>10, <1>12, <2>1
    <2>3. StillSo(v, s)
        BY <1>5, <1>12 DEF SuggestionsInv, Uncontested
    <2> QED
        BY <1>1, <1>3, <1>4, <2>2, <2>3 DEF StillSo
<1>13. Uncontested'
    <2>1. \A v \in Reviewers : review'[v].pc = "read" => \A s \in review'[v].ids \ contested' : StillSo(v, s)'
        BY <1>3, <1>4, <1>11, <1>12
    <2> QED
        BY <1>1, <1>9, <2>1 DEF Uncontested
<1> QED
    BY <1>6, <1>7, <1>8, <1>13 DEF SuggestionsInv
\* A sequence that enumerates a finite set of the same number names each once.
LEMMA EachOnce ==
    ASSUME NEW S, IsFiniteSet(S), NEW order \in [1..Cardinality(S) -> S],
           {order[k] : k \in DOMAIN order} = S
    PROVE  \A j, k \in 1..Cardinality(S) : order[j] = order[k] => j = k
<1> DEFINE T == 1..Cardinality(S)
<1>1. Cardinality(S) \in Nat
    BY FS_CardinalityType
<1>2. IsFiniteSet(T) /\ Cardinality(T) = Cardinality(S)
    BY <1>1, FS_Interval
<1>3. order \in Surjection(T, S)
    <2>1. \A x \in S : \E k \in T : order[k] = x
        OBVIOUS
    <2> QED
        BY <2>1 DEF Surjection
<1> HIDE DEF T
<1>4. order \in Injection(T, S)
    BY <1>2, <1>3, FS_Surjection
<1> QED
    BY <1>4 DEF Injection, IsInjective, T

\* What is emitted is new, each item once, and a record is made of what is
\* approved at once.
LEMMA SuggestionsInvEmit ==
    ASSUME SuggestionsInv, NEW w \in Workers, Emit(w)
    PROVE  SuggestionsInv'
<1> DEFINE items == worker[w].items
           c == Cardinality(items)
           n == Len(suggestions)
<1>1. UNCHANGED <<analysis, review, contested, crossed>> /\ worker[w].pc = "read"
    BY DEF Emit
<1>2. /\ DOMAIN worker' = Workers /\ worker'[w] = Resting
      /\ \A v \in Workers \ {w} : worker'[v] = worker[v]
    <2>1. DOMAIN worker = Workers /\ worker' = [worker EXCEPT ![w] = Resting]
        BY DEF SuggestionsInv, SuggestionTypes, Emit
    <2> QED
        BY <2>1
<1>3. items \subseteq Items /\ IsFiniteSet(items) /\ c \in Nat
    <2>1. Reading(w)
        BY <1>1 DEF SuggestionsInv, SuggestionTypes, Resting
    <2>2. items \subseteq Items
        BY <2>1 DEF Reading
    <2> QED
        BY <2>2, SuggestionsAssumption, FS_Subset, FS_CardinalityType
<1>4. /\ suggestions \in Seq(SuggestionRow) /\ records \in Seq(RecordRow)
      /\ n \in Nat /\ DOMAIN suggestions = 1..n
      /\ Len(records) \in Nat /\ DOMAIN records = 1..Len(records)
      /\ \A r \in DOMAIN records : records[r].suggestion <= n
    BY DEF SuggestionsInv, SuggestionTypes
<1>0. \A r \in DOMAIN records : records[r].suggestion \in Nat
    <2> TAKE r \in DOMAIN records
    <2>1. records[r] \in RecordRow
        BY <1>4
    <2> QED
        BY <2>1 DEF RecordRow
<1>5. PICK order \in [1..c -> items] : \E approved \in AutoApproved(items) :
        LET auto == {k \in DOMAIN order : order[k] \in approved}
        IN /\ {order[k] : k \in DOMAIN order} = items
           /\ suggestions' = suggestions \o [k \in DOMAIN order |->
                IF k \in auto THEN [item |-> order[k], status |-> "converted", record |-> Len(records) + Rank(auto, k)]
                ELSE [item |-> order[k], status |-> "open", record |-> 0]]
           /\ records' = records \o [j \in 1..Cardinality(auto) |->
                Record(order[Place(auto, j)], n + Place(auto, j))]
           /\ activity' = activity \cup {Log("approved", Len(records) + Rank(auto, k)) : k \in auto}
    BY DEF Emit, Rank, Place
<1>6. PICK auto \in SUBSET (1..c) :
           /\ {order[k] : k \in DOMAIN order} = items
           /\ suggestions' = suggestions \o [k \in DOMAIN order |->
                IF k \in auto THEN [item |-> order[k], status |-> "converted", record |-> Len(records) + Rank(auto, k)]
                ELSE [item |-> order[k], status |-> "open", record |-> 0]]
           /\ records' = records \o [j \in 1..Cardinality(auto) |->
                Record(order[Place(auto, j)], n + Place(auto, j))]
           /\ activity' = activity \cup {Log("approved", Len(records) + Rank(auto, k)) : k \in auto}
    BY <1>5
<1> DEFINE f == [k \in auto |-> Record(order[k], n + k)]
           at(k) == Len(records) + Rank(auto, k)
           news == [k \in 1..c |->
                      IF k \in auto THEN [item |-> order[k], status |-> "converted", record |-> at(k)]
                      ELSE [item |-> order[k], status |-> "open", record |-> 0]]
<1>7. /\ Cardinality(auto) \in Nat
      /\ \A k \in auto : Rank(auto, k) \in 1..Cardinality(auto)
      /\ \A j, k \in auto : Rank(auto, j) = Rank(auto, k) => j = k
      /\ \A j \in 1..Cardinality(auto) : Place(auto, j) \in auto
    BY <1>3, RankBijects
<1>8. \A k \in auto : f[k] \in RecordRow /\ f[k] = Record(order[k], n + k)
    BY <1>3, <1>4 DEF Record, RecordRow
<1>9. f \in [auto -> RecordRow]
    BY <1>8
<1>10. records' = records \o [j \in 1..Cardinality(auto) |-> f[Place(auto, j)]]
    BY <1>6, <1>7
<1>11. \A k \in 1..c : /\ news[k] \in SuggestionRow /\ news[k].item = order[k]
                       /\ k \in auto => news[k].status = "converted" /\ news[k].record = at(k)
                       /\ k \notin auto => news[k].status = "open"
    <2> TAKE k \in 1..c
    <2>1. order[k] \in Items
        BY <1>3
    <2>2. CASE k \in auto
        <3>1. at(k) \in Nat
            BY <1>4, <1>7, <2>2
        <3> QED
            BY <2>1, <2>2, <3>1 DEF SuggestionRow, ApprovalStatus
    <2>3. CASE k \notin auto
        BY <2>1, <2>3 DEF SuggestionRow, ApprovalStatus
    <2> QED
        BY <2>2, <2>3
<1>12. news \in Seq(SuggestionRow) /\ Len(news) = c
    <2>1. news = [k \in 1..c |-> news[k]]
        OBVIOUS
    <2> HIDE DEF news
    <2>2. news \in [1..c -> SuggestionRow]
        BY <1>11, <2>1
    <2> QED
        BY <1>3, <2>2
<1>13. suggestions' = suggestions \o news
    BY <1>6
<1>14. activity' = activity \cup {Log("approved", at(k)) : k \in auto}
    BY <1>6
<1>15. \A j, k \in 1..c : order[j] = order[k] => j = k
    BY <1>3, <1>6, EachOnce
<1> HIDE DEF f, news, at
<1>16. Grown(auto, f)
    BY <1>3, <1>4, <1>9, <1>10, RecordsGrow
<1>17. /\ suggestions' \in Seq(SuggestionRow) /\ Len(suggestions') = n + c
       /\ \A i \in 1..(n + c) : suggestions'[i] = IF i <= n THEN suggestions[i] ELSE news[i - n]
    <2>1. /\ suggestions \o news \in Seq(SuggestionRow) /\ Len(suggestions \o news) = n + Len(news)
          /\ \A i \in 1..(n + Len(news)) :
               (suggestions \o news)[i] = IF i <= n THEN suggestions[i] ELSE news[i - n]
        BY <1>4, <1>12, ConcatProperties
    <2> QED
        BY <1>12, <1>13, <2>1
<1>18. DOMAIN suggestions' = 1..(n + c)
    BY <1>17, LenProperties
<1>19. \A s \in 1..n : s \in DOMAIN suggestions' /\ suggestions'[s] = suggestions[s]
    BY <1>3, <1>4, <1>17, <1>18
<1>20. \A s \in DOMAIN suggestions' \ (1..n) :
          s - n \in 1..c /\ suggestions'[s] = news[s - n]
    BY <1>3, <1>4, <1>17, <1>18
<1>21. /\ records' \in Seq(RecordRow)
       /\ \A r \in DOMAIN records : r \in DOMAIN records' /\ records'[r] = records[r]
       /\ \A k \in auto : /\ at(k) \in DOMAIN records' \ DOMAIN records
                          /\ records'[at(k)].suggestion = n + k
       /\ \A r \in DOMAIN records' \ DOMAIN records : \E k \in auto : r = at(k)
    <2>1. \A k \in auto : f[k].suggestion = n + k
        <3> TAKE k \in auto
        <3> DEFINE kind == order[k] \in TaskItems
        <3>1. f[k] = [task |-> kind, suggestion |-> n + k]
            BY <1>8 DEF Record
        <3> HIDE DEF kind
        <3> QED
            BY <3>1
    <2> QED
        BY <1>16, <2>1 DEF Grown, at
<1>22. SuggestionTypes'
    <2>1. \A r \in DOMAIN records' : records'[r].suggestion <= Len(suggestions')
        <3> TAKE r \in DOMAIN records'
        <3>1. CASE r \in DOMAIN records
            <4>1. records[r].suggestion <= n /\ records[r].suggestion \in Nat /\ records'[r] = records[r]
                BY <1>0, <1>4, <1>21, <3>1
            <4> QED
                BY <1>3, <1>4, <1>17, <4>1
        <3>2. CASE r \notin DOMAIN records
            <4>1. PICK k \in auto : r = at(k)
                BY <1>21, <3>2
            <4>2. records'[r].suggestion = n + k /\ k \in 1..c
                BY <1>21, <4>1
            <4> QED
                BY <1>3, <1>4, <1>17, <4>2
        <3> QED
            BY <3>1, <3>2
    <2>2. \A v \in Workers : worker'[v] = Resting \/ Reading(v)'
        BY <1>2 DEF SuggestionsInv, SuggestionTypes, Reading
    <2>3. \A u \in Reviewers : review'[u] = Resting \/ Reviewing(u)'
        <3>1. DOMAIN suggestions \subseteq DOMAIN suggestions'
            BY <1>4, <1>19
        <3>2. \A u \in Reviewers : Reviewing(u) => Reviewing(u)'
            BY <1>1, <3>1 DEF Reviewing
        <3> QED
            BY <1>1, <3>2 DEF SuggestionsInv, SuggestionTypes
    <2> QED
        BY <1>1, <1>2, <1>17, <1>21, <2>1, <2>2, <2>3 DEF SuggestionsInv, SuggestionTypes
<1>23. Uncrossed'
    <2> SUFFICES ASSUME ~ crossed' PROVE \A v \in Workers : worker'[v].pc = "idle"
        BY DEF Uncrossed
    <2>1. \A v \in Workers : worker[v].pc # "idle" => v = w
        BY <1>1 DEF SuggestionsInv, Uncrossed
    <2> QED
        BY <1>2, <2>1 DEF Resting
<1>24. SuggestedOnce'
    <2> SUFFICES ASSUME ~ crossed', NEW s \in DOMAIN suggestions', NEW q \in DOMAIN suggestions',
                        suggestions'[s].item = suggestions'[q].item
                 PROVE  s = q
        BY DEF SuggestedOnce
    <2>1. items \cap Existing = {}
        BY <1>1 DEF SuggestionsInv, Uncrossed
    <2>2. \A i \in 1..n : suggestions'[i].item \in Existing
        BY <1>4, <1>19 DEF Existing
    <2>3. \A i \in DOMAIN suggestions' \ (1..n) :
            suggestions'[i].item = order[i - n] /\ i - n \in 1..c /\ order[i - n] \in items
        BY <1>11, <1>20
    <2>4. CASE s \in 1..n /\ q \in 1..n
        <3>1. suggestions[s].item = suggestions[q].item
            BY <1>19, <2>4
        <3> QED
            BY <1>1, <1>4, <2>4, <3>1 DEF SuggestionsInv, SuggestedOnce
    <2>5. CASE s \notin 1..n /\ q \notin 1..n
        <3>1. s - n = q - n
            BY <1>15, <2>3, <2>5
        <3>2. s \in Nat /\ q \in Nat
            BY <1>3, <1>4, <1>18
        <3> QED
            BY <1>4, <3>1, <3>2
    <2>6. CASE s \in 1..n /\ q \notin 1..n
        BY <2>1, <2>2, <2>3, <2>6
    <2>7. CASE s \notin 1..n /\ q \in 1..n
        BY <2>1, <2>2, <2>3, <2>7
    <2> QED
        BY <2>4, <2>5, <2>6, <2>7
<1>25. Logged'
    <2> SUFFICES ASSUME NEW r \in DOMAIN records', records'[r].suggestion # 0
                 PROVE  Log("approved", r) \in activity'
        BY DEF Logged, Log
    <2>1. CASE r \in DOMAIN records
        BY <1>14, <1>21, <2>1 DEF SuggestionsInv, Logged
    <2>2. CASE r \notin DOMAIN records
        BY <1>14, <1>21, <2>2
    <2> QED
        BY <2>1, <2>2
<1>26. \A s \in DOMAIN suggestions' : Traced(s)'
    <2> SUFFICES ASSUME NEW s \in DOMAIN suggestions', suggestions'[s].status = "converted"
                 PROVE  /\ Became(s, suggestions[s].record)'
                        /\ Log("approved", suggestions'[s].record) \in activity'
        BY DEF Traced, Log
    <2>1. CASE s \in 1..n
        <3>1. Traced(s) /\ suggestions'[s] = suggestions[s]
            BY <1>4, <1>19, <2>1 DEF SuggestionsInv
        <3> QED
            BY <1>14, <1>21, <3>1 DEF Traced, Became
    <2>2. CASE s \notin 1..n
        <3>1. s - n \in auto /\ suggestions'[s].record = at(s - n)
            BY <1>11, <1>20, <2>2
        <3>2. n + (s - n) = s
            BY <1>3, <1>4, <1>18
        <3> QED
            BY <1>14, <1>21, <3>1, <3>2 DEF Became
    <2> QED
        BY <2>1, <2>2
<1>27. Uncontested'
    <2>1. ASSUME NEW s \in DOMAIN suggestions' \ contested'
          PROVE  SingleRecord(s)'
        <3>1. CASE s \in 1..n
            <4>1. SingleRecord(s) /\ suggestions'[s] = suggestions[s]
                BY <1>1, <1>4, <1>19, <3>1 DEF SuggestionsInv, Uncontested
            <4>2. \A r \in DOMAIN records' \ DOMAIN records : records'[r].suggestion # s
                <5> TAKE r \in DOMAIN records' \ DOMAIN records
                <5>1. PICK k \in auto : r = at(k)
                    BY <1>21
                <5>2. records'[r].suggestion = n + k /\ k \in 1..c
                    BY <1>21, <5>1
                <5> QED
                    BY <1>4, <3>1, <5>2
            <4> QED
                BY <1>21, <4>1, <4>2 DEF SingleRecord
        <3>2. CASE s \notin 1..n
            <4>1. s \in Nat /\ s - n \in 1..c
                BY <1>3, <1>4, <1>18, <1>20, <3>2
            <4>2. \A r \in DOMAIN records : records'[r].suggestion # s
                <5> TAKE r \in DOMAIN records
                <5>1. records[r].suggestion <= n /\ records[r].suggestion \in Nat
                    BY <1>0, <1>4
                <5> QED
                    BY <1>4, <1>21, <4>1, <5>1
            <4>3. \A r \in DOMAIN records' \ DOMAIN records :
                     records'[r].suggestion = s => s - n \in auto /\ r = at(s - n)
                <5> SUFFICES ASSUME NEW r \in DOMAIN records' \ DOMAIN records, records'[r].suggestion = s
                             PROVE  s - n \in auto /\ r = at(s - n)
                    OBVIOUS
                <5>1. PICK k \in auto : r = at(k)
                    BY <1>21
                <5>2. records'[r].suggestion = n + k /\ k \in 1..c
                    BY <1>21, <5>1
                <5>3. k = s - n
                    BY <1>4, <4>1, <5>2
                <5> QED
                    BY <5>1, <5>3
            <4>4. s - n \notin auto => suggestions'[s].status = "open"
                BY <1>11, <1>20, <3>2
            <4>5. s - n \in auto => suggestions'[s].status = "converted"
                BY <1>11, <1>20, <3>2
            <4> QED
                BY <4>2, <4>3, <4>5 DEF SingleRecord
        <3> QED
            BY <3>1, <3>2
    <2>2. ASSUME NEW u \in Reviewers, review'[u].pc = "read", NEW s \in review'[u].ids \ contested'
          PROVE  StillSo(u, s)'
        <3>1. s \in 1..n
            BY <1>1, <1>4, <2>2 DEF SuggestionsInv, SuggestionTypes, Reviewing, Resting
        <3>2. StillSo(u, s)
            BY <1>1, <2>2 DEF SuggestionsInv, Uncontested
        <3> QED
            BY <1>1, <1>19, <3>1, <3>2 DEF StillSo
    <2> QED
        BY <2>1, <2>2 DEF Uncontested
<1> QED
    BY <1>22, <1>23, <1>24, <1>25, <1>26, <1>27 DEF SuggestionsInv
\* The review that commits has ended; what the others read of what it left
\* alone is still so.
LEMMA OthersStillSo ==
    ASSUME SuggestionsInv, NEW u \in Reviewers, review[u].pc = "read",
           review' = [review EXCEPT ![u] = Resting], contested' = contested,
           DOMAIN suggestions' = DOMAIN suggestions,
           \A s \in DOMAIN suggestions \ review[u].ids : suggestions'[s] = suggestions[s]
    PROVE  /\ DOMAIN review' = Reviewers
           /\ \A v \in Reviewers : review'[v] = Resting \/ Reviewing(v)'
           /\ \A v \in Reviewers : review'[v].pc = "read" =>
                \A s \in review'[v].ids \ contested' : StillSo(v, s)'
<1>1. DOMAIN review = Reviewers
    BY DEF SuggestionsInv, SuggestionTypes
<1>2. DOMAIN review' = Reviewers /\ review'[u] = Resting /\ \A v \in Reviewers \ {u} : review'[v] = review[v]
    BY <1>1
<1>3. \A v \in Reviewers \ {u} : Reviewing(v) => Reviewing(v)'
    BY <1>2 DEF Reviewing
<1>4. \A v \in Reviewers : review'[v] = Resting \/ Reviewing(v)'
    BY <1>2, <1>3 DEF SuggestionsInv, SuggestionTypes
<1>5. ASSUME NEW v \in Reviewers, review'[v].pc = "read", NEW s \in review'[v].ids \ contested'
      PROVE  StillSo(v, s)'
    <2>1. v # u /\ review'[v] = review[v]
        BY <1>2, <1>5 DEF Resting
    <2>2. s \in DOMAIN suggestions
        BY <1>5, <2>1 DEF SuggestionsInv, SuggestionTypes, Reviewing, Resting
    <2>3. StillSo(v, s)
        BY <1>5, <2>1 DEF SuggestionsInv, Uncontested
    <2>4. s \notin review[u].ids
        BY <2>1, <2>3 DEF StillSo
    <2>5. suggestions'[s] = suggestions[s]
        BY <2>2, <2>4
    <2> QED
        BY <1>2, <2>1, <2>3, <2>5 DEF StillSo, Resting
<1> QED
    BY <1>2, <1>4, <1>5

\* What has been suggested does not change when a review commits.
LEMMA SameItems ==
    ASSUME SuggestionsInv, UNCHANGED <<worker, crossed>>,
           DOMAIN suggestions' = DOMAIN suggestions,
           \A s \in DOMAIN suggestions : suggestions'[s].item = suggestions[s].item
    PROVE  Uncrossed' /\ SuggestedOnce'
<1>1. Existing' = Existing
    BY DEF Existing
<1> QED
    BY <1>1 DEF SuggestionsInv, Uncrossed, SuggestedOnce

\* What is rejected or archived keeps the record it has.
LEMMA SuggestionsInvCommitClosing ==
    ASSUME SuggestionsInv, NEW u \in Reviewers, CommitClosing(u)
    PROVE  SuggestionsInv'
<1> DEFINE closed == IF review[u].act = "reject" THEN "rejected" ELSE "archived"
           ids == review[u].ids
<1>1. UNCHANGED <<analysis, records, worker, contested, crossed>> /\ review[u].pc = "read"
    BY DEF CommitClosing
<1>2. review' = [review EXCEPT ![u] = Resting] /\ activity \subseteq activity'
    BY DEF CommitClosing
<1>3. suggestions' = [s \in DOMAIN suggestions |->
         IF s \in ids THEN [suggestions[s] EXCEPT !.status = closed] ELSE suggestions[s]]
    BY DEF CommitClosing
<1>4. /\ suggestions \in Seq(SuggestionRow) /\ Len(suggestions) \in Nat
      /\ DOMAIN suggestions = 1..Len(suggestions)
    BY DEF SuggestionsInv, SuggestionTypes
<1>5. closed \in {"rejected", "archived"}
    OBVIOUS
<1> HIDE DEF closed
<1>6. \A s \in DOMAIN suggestions : suggestions[s] \in SuggestionRow
    BY <1>4
<1>7. \A s \in DOMAIN suggestions :
         /\ suggestions'[s] \in SuggestionRow
         /\ suggestions'[s].item = suggestions[s].item
         /\ suggestions'[s].record = suggestions[s].record
         /\ s \in ids => suggestions'[s].status = closed
         /\ s \notin ids => suggestions'[s] = suggestions[s]
    <2> TAKE s \in DOMAIN suggestions
    <2>1. suggestions[s] \in SuggestionRow
        BY <1>6
    <2>2. CASE s \in ids
        <3>1. suggestions'[s] = [suggestions[s] EXCEPT !.status = closed]
            BY <1>3, <2>2
        <3> QED
            BY <1>5, <2>1, <2>2, <3>1 DEF SuggestionRow, ApprovalStatus
    <2>3. CASE s \notin ids
        <3>1. suggestions'[s] = suggestions[s]
            BY <1>3, <2>3
        <3> QED
            BY <2>1, <2>3, <3>1
    <2> QED
        BY <2>2, <2>3
<1>8. DOMAIN suggestions' = DOMAIN suggestions
    BY <1>3
<1>9. suggestions' \in Seq(SuggestionRow) /\ Len(suggestions') = Len(suggestions)
    <2>1. suggestions' = [s \in 1..Len(suggestions) |-> suggestions'[s]]
        BY <1>3, <1>4
    <2>2. suggestions' \in [1..Len(suggestions) -> SuggestionRow]
        BY <1>4, <1>7, <2>1
    <2> QED
        BY <1>4, <2>2
<1>10. Uncrossed' /\ SuggestedOnce'
    BY <1>1, <1>7, <1>8, SameItems
<1>11. /\ DOMAIN review' = Reviewers
       /\ \A v \in Reviewers : review'[v] = Resting \/ Reviewing(v)'
       /\ \A v \in Reviewers : review'[v].pc = "read" =>
            \A s \in review'[v].ids \ contested' : StillSo(v, s)'
    BY <1>1, <1>2, <1>7, <1>8, OthersStillSo
<1>12. SuggestionTypes'
    <2>1. \A w \in Workers : worker'[w] = Resting \/ Reading(w)'
        BY <1>1 DEF SuggestionsInv, SuggestionTypes, Reading
    <2> QED
        BY <1>1, <1>9, <1>11, <2>1 DEF SuggestionsInv, SuggestionTypes
<1>13. Logged'
    BY <1>1, <1>2 DEF SuggestionsInv, Logged, Log
<1>14. \A s \in DOMAIN suggestions' : Traced(s)'
    <2> SUFFICES ASSUME NEW s \in DOMAIN suggestions', suggestions'[s].status = "converted"
                 PROVE  /\ Became(s, suggestions[s].record)'
                        /\ Log("approved", suggestions'[s].record) \in activity'
        BY DEF Traced, Log
    <2>1. s \notin ids
        BY <1>5, <1>7, <1>8
    <2>2. suggestions'[s] = suggestions[s] /\ Traced(s)
        BY <1>7, <1>8, <2>1 DEF SuggestionsInv
    <2> QED
        BY <1>1, <1>2, <1>7, <1>8, <2>2 DEF Traced, Became
<1>15. \A s \in DOMAIN suggestions' \ contested' : SingleRecord(s)'
    <2> SUFFICES ASSUME NEW s \in DOMAIN suggestions' \ contested' PROVE SingleRecord(s)'
        OBVIOUS
    <2>1. SingleRecord(s)
        BY <1>1, <1>8 DEF SuggestionsInv, Uncontested
    <2>2. suggestions'[s].status = "open" => suggestions[s].status = "open"
        BY <1>5, <1>7, <1>8
    <2> QED
        BY <1>1, <2>1, <2>2 DEF SingleRecord
<1>16. Uncontested'
    BY <1>11, <1>15 DEF Uncontested
<1> QED
    BY <1>10, <1>12, <1>13, <1>14, <1>16 DEF SuggestionsInv

\* An approval makes a record of what is open still, or finds one.
LEMMA SuggestionsInvCommitApproval ==
    ASSUME SuggestionsInv, NEW u \in Reviewers, CommitApproval(u)
    PROVE  SuggestionsInv'
<1> DEFINE ids == Approved(review[u].status, review[u].ids)
           n == Len(suggestions)
<1>1. /\ UNCHANGED <<analysis, worker, contested, crossed>> /\ review[u].pc = "read"
      /\ review[u].act \in {"approve", "merge", "update"}
      /\ review' = [review EXCEPT ![u] = Resting]
    BY DEF CommitApproval
<1>2. PICK dup \in [ids -> {0} \cup DOMAIN records] :
         /\ \A s \in ids : dup[s] \in {0} \cup DuplicateTasks(review[u].act, s)
         /\ Approve(review[u].act, ids, dup)
    BY DEF CommitApproval
<1>3. /\ suggestions \in Seq(SuggestionRow) /\ records \in Seq(RecordRow)
      /\ n \in Nat /\ DOMAIN suggestions = 1..n
      /\ Len(records) \in Nat /\ DOMAIN records = 1..Len(records)
      /\ \A r \in DOMAIN records : records[r].suggestion <= n
    BY DEF SuggestionsInv, SuggestionTypes
<1>4. review[u].ids \in SUBSET (1..n) /\ ids \subseteq review[u].ids
    BY <1>1, <1>3 DEF SuggestionsInv, SuggestionTypes, Reviewing, Resting, Approved
<1>5. \A s \in ids : review[u].status[s] # "converted"
    BY DEF Approved
<1>6. \A s \in DOMAIN suggestions : /\ suggestions[s] \in SuggestionRow
                                    /\ suggestions[s].item \in Items
    <2> TAKE s \in DOMAIN suggestions
    <2>1. suggestions[s] \in SuggestionRow
        BY <1>3
    <2> QED
        BY <2>1 DEF SuggestionRow
<1>7. \A s \in ids : dup[s] # 0 => dup[s] \in DOMAIN records /\ Became(s, dup[s])
    <2> SUFFICES ASSUME NEW s \in ids, dup[s] # 0
                 PROVE  dup[s] \in DOMAIN records /\ Became(s, dup[s])
        OBVIOUS
    <2>1. dup[s] \in DuplicateTasks(review[u].act, s)
        BY <1>2
    <2> QED
        BY <2>1 DEF DuplicateTasks, Became
<1> DEFINE new == {s \in ids : dup[s] = 0}
<1>8. new \in SUBSET (1..n) /\ new \subseteq ids
    BY <1>4
<1>9. /\ Cardinality(new) \in Nat
      /\ \A k \in new : Rank(new, k) \in 1..Cardinality(new)
      /\ \A j, k \in new : Rank(new, j) = Rank(new, k) => j = k
      /\ \A j \in 1..Cardinality(new) : Place(new, j) \in new
    <2> HIDE DEF new
    <2> QED
        BY <1>3, <1>8, RankBijects
<1> DEFINE at(s) == Len(records) + Rank(new, s)
           made(s) == IF dup[s] # 0 THEN dup[s] ELSE at(s)
           f == [s \in new |-> Record(suggestions[s].item, s)]
<1>10. suggestions' = [s \in DOMAIN suggestions |->
         IF s \in ids THEN [suggestions[s] EXCEPT !.status = "converted", !.record = made(s)]
         ELSE suggestions[s]]
    BY <1>2 DEF Approve, Rank
<1>11. records' = records \o [j \in 1..Cardinality(new) |->
           Record(suggestions[Place(new, j)].item, Place(new, j))]
    BY <1>2 DEF Approve, Place
<1>12. activity \subseteq activity' /\ \A s \in ids : Log("approved", made(s)) \in activity'
    BY <1>2 DEF Approve, Rank
<1>13. \A s \in ids : dup[s] = 0 <=> s \in new
    OBVIOUS
<1> HIDE DEF new, ids
<1>14. \A s \in new : f[s] = Record(suggestions[s].item, s) /\ f[s] \in RecordRow
    BY <1>3, <1>6, <1>8 DEF Record, RecordRow
<1>15. f \in [new -> RecordRow]
    BY <1>14
<1>16. records' = records \o [j \in 1..Cardinality(new) |-> f[Place(new, j)]]
    BY <1>9, <1>11
<1> HIDE DEF f, at
<1>17. Grown(new, f)
    BY <1>3, <1>8, <1>15, <1>16, RecordsGrow
<1>18. /\ records' \in Seq(RecordRow)
       /\ \A r \in DOMAIN records : r \in DOMAIN records' /\ records'[r] = records[r]
       /\ \A s \in new : /\ at(s) \in DOMAIN records' \ DOMAIN records
                         /\ records'[at(s)].suggestion = s
       /\ \A r \in DOMAIN records' \ DOMAIN records : \E s \in new : r = at(s)
    <2>1. \A s \in new : f[s].suggestion = s
        <3> TAKE s \in new
        <3> DEFINE kind == suggestions[s].item \in TaskItems
        <3>1. f[s] = [task |-> kind, suggestion |-> s]
            BY <1>14 DEF Record
        <3> HIDE DEF kind
        <3> QED
            BY <3>1
    <2> QED
        BY <1>17, <2>1 DEF Grown, at
<1>19. \A s \in ids : /\ made(s) \in Nat /\ made(s) \in DOMAIN records'
                      /\ \/ records'[made(s)].suggestion = s
                         \/ suggestions[s].item \in TaskItems /\ records'[made(s)].task
    <2> TAKE s \in ids
    <2>1. CASE dup[s] # 0
        BY <1>3, <1>7, <1>18, <2>1 DEF Became
    <2>2. CASE dup[s] = 0
        <3>1. s \in new /\ made(s) = at(s)
            BY <1>13, <2>2
        <3>2. at(s) \in Nat
            BY <1>3, <1>9, <3>1 DEF at
        <3> HIDE DEF made
        <3> QED
            BY <1>18, <3>1, <3>2
    <2> QED
        BY <2>1, <2>2
<1>20. \A s \in new : made(s) = at(s)
    BY <1>8, <1>13
<1> HIDE DEF made
<1>21. \A s \in DOMAIN suggestions :
         /\ suggestions'[s] \in SuggestionRow
         /\ suggestions'[s].item = suggestions[s].item
         /\ s \in ids => suggestions'[s].status = "converted" /\ suggestions'[s].record = made(s)
         /\ s \notin ids => suggestions'[s] = suggestions[s]
    <2> TAKE s \in DOMAIN suggestions
    <2>1. suggestions[s] \in SuggestionRow
        BY <1>6
    <2>2. CASE s \in ids
        <3>1. suggestions'[s] = [suggestions[s] EXCEPT !.status = "converted", !.record = made(s)]
            BY <1>10, <2>2
        <3>2. made(s) \in Nat
            BY <1>19, <2>2
        <3> QED
            BY <2>1, <2>2, <3>1, <3>2 DEF SuggestionRow, ApprovalStatus
    <2>3. CASE s \notin ids
        <3>1. suggestions'[s] = suggestions[s]
            BY <1>10, <2>3
        <3> QED
            BY <2>1, <2>3, <3>1
    <2> QED
        BY <2>2, <2>3
<1>22. DOMAIN suggestions' = DOMAIN suggestions
    BY <1>10
<1>23. suggestions' \in Seq(SuggestionRow) /\ Len(suggestions') = n
    <2>1. suggestions' = [s \in 1..n |-> suggestions'[s]]
        BY <1>3, <1>10
    <2>2. suggestions' \in [1..n -> SuggestionRow]
        BY <1>3, <1>21, <2>1
    <2> QED
        BY <1>3, <2>2
<1>24. Uncrossed' /\ SuggestedOnce'
    BY <1>1, <1>21, <1>22, SameItems
<1>25. /\ DOMAIN review' = Reviewers
       /\ \A v \in Reviewers : review'[v] = Resting \/ Reviewing(v)'
       /\ \A v \in Reviewers : review'[v].pc = "read" =>
            \A s \in review'[v].ids \ contested' : StillSo(v, s)'
    <2>1. \A s \in DOMAIN suggestions \ review[u].ids : suggestions'[s] = suggestions[s]
        BY <1>4, <1>21
    <2> QED
        BY <1>1, <1>22, <2>1, OthersStillSo
<1>26. SuggestionTypes'
    <2>1. \A r \in DOMAIN records' : records'[r].suggestion <= Len(suggestions')
        <3> TAKE r \in DOMAIN records'
        <3>1. CASE r \in DOMAIN records
            BY <1>3, <1>18, <1>23, <3>1
        <3>2. CASE r \notin DOMAIN records
            <4>1. PICK s \in new : r = at(s)
                BY <1>18, <3>2
            <4>2. records'[r].suggestion = s /\ s \in 1..n
                BY <1>8, <1>18, <4>1
            <4> QED
                BY <1>3, <1>23, <4>2
        <3> QED
            BY <3>1, <3>2
    <2>2. \A w \in Workers : worker'[w] = Resting \/ Reading(w)'
        BY <1>1 DEF SuggestionsInv, SuggestionTypes, Reading
    <2> QED
        BY <1>1, <1>18, <1>23, <1>25, <2>1, <2>2 DEF SuggestionsInv, SuggestionTypes
<1>27. Logged'
    <2> SUFFICES ASSUME NEW r \in DOMAIN records', records'[r].suggestion # 0
                 PROVE  Log("approved", r) \in activity'
        BY DEF Logged, Log
    <2>1. CASE r \in DOMAIN records
        BY <1>12, <1>18, <2>1 DEF SuggestionsInv, Logged
    <2>2. CASE r \notin DOMAIN records
        <3>1. PICK s \in new : r = at(s)
            BY <1>18, <2>2
        <3> QED
            BY <1>8, <1>12, <1>20, <3>1
    <2> QED
        BY <2>1, <2>2
<1>28. \A s \in DOMAIN suggestions' : Traced(s)'
    <2> SUFFICES ASSUME NEW s \in DOMAIN suggestions', suggestions'[s].status = "converted"
                 PROVE  /\ Became(s, suggestions[s].record)'
                        /\ Log("approved", suggestions'[s].record) \in activity'
        BY DEF Traced, Log
    <2>1. CASE s \in ids
        BY <1>12, <1>19, <1>21, <1>22, <2>1 DEF Became
    <2>2. CASE s \notin ids
        <3>1. suggestions'[s] = suggestions[s] /\ Traced(s)
            BY <1>21, <1>22, <2>2 DEF SuggestionsInv
        <3> QED
            BY <1>12, <1>18, <3>1 DEF Traced, Became
    <2> QED
        BY <2>1, <2>2
<1>29. \A s \in DOMAIN suggestions' \ contested' : SingleRecord(s)'
    <2> SUFFICES ASSUME NEW s \in DOMAIN suggestions' \ contested' PROVE SingleRecord(s)'
        OBVIOUS
    <2>1. SingleRecord(s) /\ s \in DOMAIN suggestions \ contested
        BY <1>1, <1>22 DEF SuggestionsInv, Uncontested
    <2>2. \A r \in DOMAIN records' \ DOMAIN records :
             records'[r].suggestion = s => s \in new /\ r = at(s)
        BY <1>18
    <2>3. CASE s \in new
        <3>1. s \in ids /\ s \in review[u].ids \ contested
            BY <1>4, <1>8, <2>1, <2>3
        <3>2. StillSo(u, s)
            BY <1>1, <3>1 DEF SuggestionsInv, Uncontested
        <3>3. suggestions[s].status \notin {"converted", "rejected", "archived"}
            BY <1>1, <1>5, <3>1, <3>2 DEF StillSo
        <3>4. suggestions[s].status \in ApprovalStatus
            BY <1>6, <2>1 DEF SuggestionRow
        <3>5. suggestions[s].status = "open"
            BY <3>3, <3>4 DEF ApprovalStatus
        <3>6. \A r \in DOMAIN records : records'[r].suggestion # s
            BY <1>18, <2>1, <3>5 DEF SingleRecord
        <3>7. suggestions'[s].status = "converted"
            BY <1>21, <2>1, <3>1
        <3> QED
            BY <2>2, <3>6, <3>7 DEF SingleRecord
    <2>4. CASE s \notin new
        <3>1. \A r \in DOMAIN records' \ DOMAIN records : records'[r].suggestion # s
            BY <2>2, <2>4
        <3>2. suggestions'[s].status = "open" => suggestions[s].status = "open"
            BY <1>21, <2>1
        <3> QED
            BY <1>18, <2>1, <3>1, <3>2 DEF SingleRecord
    <2> QED
        BY <2>3, <2>4
<1>30. Uncontested'
    BY <1>25, <1>29 DEF Uncontested
<1> QED
    BY <1>24, <1>26, <1>27, <1>28, <1>30 DEF SuggestionsInv

\* Every step keeps it.
LEMMA SuggestionsInvNext == SuggestionsInv /\ [SuggestionsNext]_suggestionsVars => SuggestionsInv'
<1> SUFFICES ASSUME SuggestionsInv, [SuggestionsNext]_suggestionsVars PROVE SuggestionsInv'
    OBVIOUS
<1>0. analysis \subseteq Items
    BY DEF SuggestionsInv, SuggestionTypes
<1>1. CASE Analyse
    <2>1. analysis' \subseteq Items /\ UNCHANGED <<suggestions, records, activity, worker, review, contested, crossed>>
        BY <1>1 DEF Analyse
    <2> QED
        BY <2>1, SuggestionsInvRests
<1>2. CASE CreateTask
    BY <1>2, SuggestionsInvCreateTask
<1>3. ASSUME NEW w \in Workers, ReadExisting(w) \/ Emit(w) \/ EmitFails(w)
      PROVE  SuggestionsInv'
    BY <1>3, SuggestionsInvReadExisting, SuggestionsInvEmit, SuggestionsInvEmitFails
<1>4. ASSUME NEW u \in Reviewers, NEW act \in Acts, NEW ids \in SUBSET DOMAIN suggestions,
             OpenReview(u, act, ids)
      PROVE  SuggestionsInv'
    BY <1>4, SuggestionsInvOpenReview
<1>5. ASSUME NEW u \in Reviewers, CommitApproval(u) \/ CommitClosing(u)
      PROVE  SuggestionsInv'
    BY <1>5, SuggestionsInvCommitApproval, SuggestionsInvCommitClosing
<1>6. CASE UNCHANGED suggestionsVars
    <2>1. analysis' \subseteq Items /\ UNCHANGED <<suggestions, records, activity, worker, review, contested, crossed>>
        BY <1>0, <1>6 DEF suggestionsVars
    <2> QED
        BY <2>1, SuggestionsInvRests
<1> QED
    BY <1>1, <1>2, <1>3, <1>4, <1>5, <1>6 DEF SuggestionsNext

\* What was found once is suggested once (materialize).
THEOREM SuggestionsAreNotRepeated == SuggestionsSpec => []SuggestedOnce
<1>1. SuggestionsInv => SuggestedOnce
    BY DEF SuggestionsInv
<1> QED
    BY <1>1, SuggestionsInvInit, SuggestionsInvNext, PTL DEF SuggestionsSpec

\* The records the AI made can be traced to their approvals (approve_suggestion).
THEOREM ApprovalsAreTraced == SuggestionsSpec => []ApprovalIsTraced
<1>1. SuggestionsInv => ApprovalIsTraced
    <2> SUFFICES ASSUME SuggestionsInv PROVE ApprovalIsTraced
        OBVIOUS
    <2>1. Logged /\ \A s \in DOMAIN suggestions : Traced(s)
        BY DEF SuggestionsInv
    <2>2. ASSUME NEW s \in DOMAIN suggestions \ contested
          PROVE  Cardinality({r \in DOMAIN records : records[r].suggestion = s}) <= 1
        <3> DEFINE made == {r \in DOMAIN records : records[r].suggestion = s}
        <3>1. \A q, r \in made : q = r
            BY <2>2 DEF SuggestionsInv, Uncontested, SingleRecord
        <3> HIDE DEF made
        <3>2. CASE made = {}
            <4>1. Cardinality(made) = 0
                BY <3>2, FS_EmptySet
            <4> QED
                BY <4>1 DEF made
        <3>3. CASE made # {}
            <4>1. PICK r : made = {r}
                BY <3>1, <3>3
            <4>2. Cardinality(made) = 1
                BY <4>1, FS_Singleton
            <4> QED
                BY <4>2 DEF made
        <3> QED
            BY <3>2, <3>3
    <2> QED
        BY <2>1, <2>2 DEF ApprovalIsTraced, Logged, Traced
<1> QED
    BY <1>1, SuggestionsInvInit, SuggestionsInvNext, PTL DEF SuggestionsSpec

=============================================================================
