------------------------- MODULE MediaImportProofs -------------------------
(***************************************************************************)
(* Proofs about MediaImport, for any sets of sessions and workers.         *)
(*                                                                         *)
(* While nobody has asked to keep both copies and no two runs have created *)
(* at once (Quiet), a run that is about to create a meeting is the only    *)
(* one, and finds none (OneCreator).  A completed import is linked to a    *)
(* meeting that has been processed because nothing writes the link of a    *)
(* session without its status, and no meeting loses what its jobs have     *)
(* done (Grow).                                                            *)
(*                                                                         *)
(* What the eventual end of an import rests on beside fairness is that it  *)
(* is in somebody's hands until it has ended (NoneForgotten).              *)
(***************************************************************************)
EXTENDS MediaImport, SequenceTheorems, WellFoundedInduction, TLAPS

\* A worker that is not idle runs an import, and has a meeting when it stamps or
\* links it.
Busy ==
    \A w \in Workers :
        /\ pc[w] # "idle" => running[w] \in Sessions
        /\ pc[w] \in {"stamp", "link"} => target[w] # 0

\* on_duplicate is stored with the session.
Chosen == \A s \in Sessions : status[s] = "none" => choice[s] = "reject"

\* No import asked for a copy, and no two runs made meetings at once.
Quiet == (\A s \in Sessions : choice[s] # "keep_both") /\ ~overlapped

\* A run that is about to make a meeting.
Creating(w) == pc[w] = "store" /\ target[w] = 0

\* There is no meeting yet for a run that makes one, and it is the only such run.
OneCreator ==
    Quiet => \A w \in Workers : Creating(w) =>
                /\ Len(meetings) = 0
                /\ \A v \in Workers : Creating(v) => v = w

\* The inductive invariant.
Inv ==
    /\ TypeOK
    /\ Busy
    /\ Chosen
    /\ OneCreator
    /\ OneMeetingPerSource
    /\ CompletedIsProcessed

USE NoSessionAssumption, BoundsAssumption

-----------------------------------------------------------------------------
\* A set of positions of a sequence has a greatest one.
LEMMA MaxIsIn ==
    ASSUME NEW n \in Nat, NEW S \in SUBSET (1..n), S # {}
    PROVE  Max(S) \in S
<1> DEFINE T == {n - x : x \in S}
<1>1. T \subseteq Nat /\ T # {}
    <2>1. \A x \in S : n - x \in Nat
        OBVIOUS
    <2> QED
        BY <2>1
<1>2. PICK d \in T : \A e \in T : ~ (<<e, d>> \in OpToRel(<, Nat))
    <2> HIDE DEF T
    <2> QED
        BY <1>1, NatLessThanWellFounded, WFMin
<1>3. \A e \in T : ~ (e < d)
    BY <1>1, <1>2 DEF OpToRel
<1>4. PICK x \in S : d = n - x
    OBVIOUS
<1>5. \A y \in S : x >= y
    <2> TAKE y \in S
    <2>1. n - y \in T
        OBVIOUS
    <2>2. ~ (n - y < n - x)
        BY <1>3, <1>4, <2>1
    <2> QED
        BY <2>2
<1> QED
    BY <1>5 DEF Max

\* find_url_duplicate answers with a meeting the source is recorded on.
LEMMA RecordedIsMeeting ==
    ASSUME TypeOK
    PROVE  Recorded \in 0..Len(meetings)
<1> DEFINE R == {m \in DOMAIN meetings : meetings[m].recorded}
<1>1. Len(meetings) \in Nat /\ DOMAIN meetings = 1..Len(meetings)
    BY DEF TypeOK
<1>2. CASE R = {}
    BY <1>1, <1>2 DEF Recorded
<1>3. CASE R # {}
    <2>1. Max(R) \in R
        <3>1. R \in SUBSET (1..Len(meetings))
            BY <1>1
        <3> HIDE DEF R
        <3> QED
            BY <1>1, <1>3, <3>1, MaxIsIn
    <2>2. Recorded = Max(R)
        BY <1>3 DEF Recorded
    <2> QED
        BY <1>1, <2>1, <2>2
<1> QED
    BY <1>2, <1>3

\* find_duplicate_file answers with a meeting, unless the owner has none.
LEMMA StoredIsMeeting ==
    ASSUME TypeOK
    PROVE  /\ Stored \subseteq 0..Len(meetings)
           /\ 0 \in Stored => Len(meetings) = 0
<1>1. Len(meetings) \in Nat /\ DOMAIN meetings = 1..Len(meetings)
    BY DEF TypeOK
<1>2. CASE meetings = <<>>
    BY <1>1, <1>2 DEF Stored
<1>3. CASE meetings # <<>>
    BY <1>1, <1>3 DEF Stored
<1> QED
    BY <1>2, <1>3

\* Meetings stay, and so does what has been processed.
Grow ==
    /\ meetings' \in Seq(Meeting)
    /\ Len(meetings') \in Nat
    /\ Len(meetings) <= Len(meetings')
    /\ \A m \in 1..Len(meetings) : meetings[m].processed => meetings'[m].processed

\* The meetings are left as they are.
LEMMA MeetingsStay ==
    ASSUME TypeOK, UNCHANGED meetings
    PROVE  Grow
BY DEF TypeOK, Grow, Meeting

\* One of them changes.
LEMMA MeetingChanges ==
    ASSUME TypeOK, NEW m \in 1..Len(meetings), NEW x \in Meeting,
           meetings[m].processed => x.processed,
           meetings' = [meetings EXCEPT ![m] = x]
    PROVE  Grow /\ Len(meetings') = Len(meetings) /\ meetings'[m] = x
<1>1. meetings \in Seq(Meeting)
    BY DEF TypeOK, Meeting
<1>2. /\ meetings' \in Seq(Meeting)
      /\ Len(meetings') = Len(meetings)
      /\ \A j \in 1..Len(meetings) : meetings'[j] = IF j = m THEN x ELSE meetings[j]
    BY <1>1, ExceptSeq
<1>3. Len(meetings) \in Nat
    BY <1>1
<1> QED
    BY <1>2, <1>3 DEF Grow

\* What _set writes, how a run ends and how it goes on are well typed.
LEMMA PutTypes ==
    ASSUME TypeOK, NEW w \in Workers, NEW x \in Active \cup Terminal, Put(w, x),
           running[w] \in Sessions, UNCHANGED <<choice, meetings>>
    PROVE  RowTypes'
BY DEF TypeOK, RowTypes, WorkerTypes, Put

\* A run that ends.
LEMMA DoneTypes ==
    ASSUME TypeOK, NEW w \in Workers, Done(w), Len(meetings') = Len(meetings)
    PROVE  WorkerTypes'
<1>1. Len(meetings) \in Nat
    BY DEF TypeOK
<1> QED
    BY <1>1 DEF TypeOK, WorkerTypes, Done

\* A run that goes on.
LEMMA GotoTypes ==
    ASSUME TypeOK, NEW w \in Workers, NEW to \in {"check", "fetch", "store", "stamp", "link"},
           Goto(w, to), UNCHANGED <<running, own>>, Grow,
           target' \in [Workers -> 0..Len(meetings')]
    PROVE  WorkerTypes'
<1>1. own' \in [Workers -> 0..Len(meetings')]
    <2>1. \A v \in Workers : own[v] \in 0..Len(meetings')
        BY DEF TypeOK, WorkerTypes, Grow
    <2>2. own = [v \in Workers |-> own[v]]
        BY DEF TypeOK, WorkerTypes
    <2> QED
        BY <2>1, <2>2
<1>2. running' \in [Workers -> Sessions \cup {NoSession}]
    BY DEF TypeOK, WorkerTypes
<1>3. pc' \in [Workers -> {"idle", "check", "fetch", "store", "stamp", "link"}]
    BY DEF TypeOK, WorkerTypes, Goto
<1> QED
    BY <1>1, <1>2, <1>3 DEF WorkerTypes

-----------------------------------------------------------------------------
(* Requests.                                                               *)

\* The requests of the user.
LEMMA RequestKeeps ==
    ASSUME Inv, NEW s \in Sessions, Request(s)
    PROVE  Inv'
<1> USE DEF Inv
<1>0. Grow /\ UNCHANGED <<meetings, running, pc, own, target, overlapped, late>>
    BY MeetingsStay DEF Request, Create, FindActive, Cancel, worker, history
<1>1. Busy'
    BY <1>0 DEF Busy, worker
<1>2. ASSUME NEW c \in DuplicateActions, Create(s, c) PROVE Inv'
    <2> USE <1>2 DEF Create
    <2>1. Recorded \in 0..Len(meetings)
        BY RecordedIsMeeting
    <2>2. TypeOK'
        <3>1. RowTypes'
            BY <1>0, <2>1 DEF TypeOK, RowTypes, Active, Terminal, Failed, DuplicateActions
        <3>2. WorkerTypes'
            BY <1>0 DEF TypeOK, WorkerTypes
        <3>3. EventTypes'
            BY <1>0 DEF TypeOK, EventTypes
        <3> QED
            BY <1>0, <3>1, <3>2, <3>3 DEF TypeOK
    <2>3. Chosen'
        BY DEF TypeOK, RowTypes, Chosen
    <2>4. Quiet' => Quiet
        BY DEF Quiet, Chosen, TypeOK, RowTypes, history
    <2>5. OneCreator' /\ OneMeetingPerSource'
        BY <1>0, <2>4 DEF OneCreator, OneMeetingPerSource, Creating, Quiet, worker, history
    <2>6. CompletedIsProcessed'
        BY <1>0, <2>1 DEF CompletedIsProcessed, TypeOK, RowTypes, WorkerTypes
    <2> QED
        BY <1>1, <2>2, <2>3, <2>5, <2>6
<1>3. CASE FindActive(s) \/ Cancel(s)
    <2> USE <1>3 DEF FindActive, Cancel
    <2>1. TypeOK'
        <3>1. RowTypes'
            BY <1>0 DEF TypeOK, RowTypes, EventTypes, Active, Terminal, Failed, row
        <3>2. EventTypes'
            BY <1>0 DEF TypeOK, RowTypes, EventTypes, worker, history, Upset, NoRequest, row
        <3>3. WorkerTypes'
            BY <1>0 DEF TypeOK, WorkerTypes, worker
        <3> QED
            BY <1>0, <3>1, <3>2, <3>3 DEF TypeOK
    <2>2. Chosen'
        BY DEF TypeOK, RowTypes, Chosen, row
    <2>3. OneCreator' /\ OneMeetingPerSource'
        BY <1>0 DEF OneCreator, OneMeetingPerSource, Creating, Quiet, worker, history, row
    <2>4. CompletedIsProcessed'
        BY <1>0 DEF CompletedIsProcessed, TypeOK, RowTypes, WorkerTypes, row
    <2> QED
        BY <1>1, <2>1, <2>2, <2>3, <2>4
<1> QED
    BY <1>2, <1>3 DEF Request

-----------------------------------------------------------------------------
(* The worker.                                                             *)

\* The worker's own columns are all that a step of its run changes of them.
LEMMA TakeKeeps ==
    ASSUME Inv, NEW w \in Workers, NEW s \in Sessions, Take(w, s)
    PROVE  Inv'
<1> USE DEF Inv, Take, At, Ignore, Load, Goto
<1>0. Grow /\ UNCHANGED <<meetings, link, choice, history>>
    BY MeetingsStay
<1>1. TypeOK'
    <2>1. RowTypes'
        BY <1>0 DEF TypeOK, RowTypes, Active, Terminal, Failed, worker
    <2>2. WorkerTypes'
        <3>1. CASE UNCHANGED <<running, pc, own, target>>
            BY <1>0, <3>1 DEF TypeOK, WorkerTypes
        <3>2. CASE Load(w, s)
            BY <1>0, <3>2 DEF TypeOK, RowTypes, WorkerTypes
        <3> QED
            BY <3>1, <3>2 DEF worker
    <2>3. EventTypes'
        BY <1>0 DEF TypeOK, EventTypes, history
    <2> QED
        BY <1>0, <2>1, <2>2, <2>3 DEF TypeOK
<1>2. Busy' /\ Chosen'
    BY DEF TypeOK, RowTypes, WorkerTypes, Busy, Chosen, worker
<1>3. OneCreator' /\ OneMeetingPerSource'
    BY <1>0 DEF OneCreator, OneMeetingPerSource, Creating, Quiet, worker, history, TypeOK, WorkerTypes
<1>4. CompletedIsProcessed'
    BY <1>0 DEF CompletedIsProcessed, TypeOK, RowTypes, WorkerTypes
<1> QED
    BY <1>1, <1>2, <1>3, <1>4

\* A run looks for the source among the meetings.
LEMMA CheckSourceKeeps ==
    ASSUME Inv, NEW w \in Workers, CheckSource(w)
    PROVE  Inv'
<1> USE DEF Inv, CheckSource
<1>0. Grow /\ UNCHANGED <<meetings, choice, cancel, upsets, messages, overlapped, late>>
    BY MeetingsStay DEF At, history
<1>1. running[w] \in Sessions /\ Recorded \in 0..Len(meetings)
    BY RecordedIsMeeting DEF Busy, At
<1>2. \/ Done(w)
      \/ Goto(w, "fetch") /\ UNCHANGED <<running, own, target>>
    OBVIOUS
<1>3. TypeOK'
    <2>1. RowTypes'
        <3>1. CASE \E x \in Active \cup Terminal : Put(w, x)
            BY <1>0, <1>1, <3>1, PutTypes
        <3>2. CASE /\ link' = [link EXCEPT ![running[w]] = Recorded]
                   /\ status' = [status EXCEPT ![running[w]] = "completed"]
            BY <1>0, <1>1, <3>2 DEF TypeOK, RowTypes, Terminal
        <3> QED
            BY <3>1, <3>2 DEF Active, Terminal, Failed
    <2>2. WorkerTypes'
        BY <1>0, <1>2, DoneTypes, GotoTypes DEF TypeOK, WorkerTypes
    <2>3. EventTypes'
        BY <1>0 DEF TypeOK, EventTypes
    <2> QED
        BY <1>0, <2>1, <2>2, <2>3 DEF TypeOK
<1>4. Busy'
    <2>1. pc[w] = "check" /\ Busy
        BY DEF At
    <2>2. CASE Done(w)
        BY <2>1, <2>2 DEF TypeOK, WorkerTypes, Busy, Done
    <2>3. CASE Goto(w, "fetch") /\ UNCHANGED <<running, own, target>>
        BY <1>1, <2>1, <2>3 DEF TypeOK, WorkerTypes, Busy, Goto
    <2> QED
        BY <1>2, <2>2, <2>3
<1>5. Chosen'
    BY <1>0, <1>1 DEF TypeOK, RowTypes, Chosen, Put
<1>6. OneCreator' /\ OneMeetingPerSource'
    BY <1>0, <1>2 DEF OneCreator, OneMeetingPerSource, Creating, Quiet, TypeOK, WorkerTypes,
                      Done, Goto
<1>7. CompletedIsProcessed'
    BY <1>0, <1>1 DEF CompletedIsProcessed, TypeOK, RowTypes, Put
<1> QED
    BY <1>3, <1>4, <1>5, <1>6, <1>7

\* A run looks for the file among the meetings.
LEMMA CheckFileKeeps ==
    ASSUME Inv, NEW w \in Workers, CheckFile(w)
    PROVE  Inv'
<1> USE DEF Inv, Decide
<1>0. Grow /\ UNCHANGED <<meetings, choice, cancel, upsets, messages, late>>
    BY MeetingsStay DEF CheckFile, At
<1>1. PICK m \in Stored : Decide(w, m)
    BY DEF CheckFile
<1>2. running[w] \in Sessions /\ m \in 0..Len(meetings) /\ pc[w] = "fetch"
    BY <1>1, StoredIsMeeting DEF Busy, At
<1>3. TypeOK'
    <2>1. RowTypes'
        <3>1. PICK x \in Active \cup Terminal : Put(w, x)
            BY <1>1 DEF Hand, Refuse, Active, Terminal, Failed
        <3> QED
            BY <1>0, <1>2, <3>1, PutTypes
    <2>2. WorkerTypes'
        <3>1. CASE Done(w)
            BY <1>0, <3>1, DoneTypes
        <3>2. ASSUME NEW to \in {"store", "stamp"}, NEW t \in 0..Len(meetings), Hand(w, to, t)
              PROVE  WorkerTypes'
            <4>1. target' \in [Workers -> 0..Len(meetings')]
                BY <1>0, <3>2 DEF TypeOK, WorkerTypes, Hand
            <4> QED
                BY <1>0, <3>2, <4>1, GotoTypes DEF Hand
        <3>3. 0 \in 0..Len(meetings)
            BY DEF TypeOK
        <3> QED
            BY <1>1, <1>2, <3>1, <3>2, <3>3 DEF Refuse
    <2>3. EventTypes'
        <3>1. overlapped' \in BOOLEAN
            BY <1>1 DEF TypeOK, EventTypes, Hand, Refuse
        <3> QED
            BY <1>0, <3>1 DEF TypeOK, EventTypes
    <2> QED
        BY <1>0, <2>1, <2>2, <2>3 DEF TypeOK
<1> USE DEF At, Put, Done, Goto, Hand, Refuse
<1>4. Busy' /\ Chosen'
    <2>1. Busy'
        BY <1>1, <1>2 DEF TypeOK, WorkerTypes, Busy
    <2>2. Chosen'
        BY <1>0, <1>1, <1>2 DEF TypeOK, RowTypes, Chosen
    <2> QED
        BY <2>1, <2>2
<1>5. Quiet' => Quiet
    BY <1>0, <1>1 DEF Quiet
<1>6. OneMeetingPerSource'
    BY <1>0, <1>5 DEF OneMeetingPerSource, Quiet
<1>7. OneCreator'
    <2> SUFFICES ASSUME Quiet', NEW u \in Workers, Creating(u)'
                 PROVE  /\ Len(meetings) = 0
                        /\ \A v \in Workers : Creating(v)' => v = u
        BY <1>0 DEF OneCreator
    <2>1. \A v \in Workers \ {w} : Creating(v)' <=> Creating(v)
        BY <1>1 DEF TypeOK, WorkerTypes, Creating
    <2>2. CASE Creating(w)'
        <3>1. m = 0
            BY <1>0, <1>1, <1>2, <2>2 DEF Quiet, Creating, TypeOK, WorkerTypes
        <3>2. Len(meetings) = 0
            BY <1>1, <3>1, StoredIsMeeting
        <3>3. \A v \in Workers : ~ Creating(v)
            BY <1>1, <1>2, <2>2, <3>1 DEF Quiet, Creating, TypeOK, WorkerTypes
        <3> QED
            BY <2>1, <3>2, <3>3
    <2>3. CASE ~ Creating(w)'
        BY <1>5, <2>1, <2>3 DEF OneCreator
    <2> QED
        BY <2>2, <2>3
<1>8. CompletedIsProcessed'
    BY <1>0, <1>1, <1>2 DEF CompletedIsProcessed, TypeOK, RowTypes, WorkerTypes
<1> QED
    BY <1>3, <1>4, <1>6, <1>7, <1>8

\* What is in the row of a completed import stays true as meetings change.
LEMMA CompletedStays ==
    ASSUME Inv, Grow, UNCHANGED <<link, choice>>,
           \A s \in Sessions : status'[s] = "completed" => status[s] = "completed"
    PROVE  CompletedIsProcessed'
<1> SUFFICES ASSUME NEW s \in Sessions, status'[s] = "completed"
             PROVE  link'[s] # 0 /\ (meetings'[link'[s]].processed \/ choice'[s] = "ignore")
    BY DEF CompletedIsProcessed
<1>1. link[s] # 0 /\ (meetings[link[s]].processed \/ choice[s] = "ignore")
    BY DEF Inv, CompletedIsProcessed
<1>2. Len(meetings) \in Nat /\ link[s] \in 0..Len(meetings)
    BY DEF Inv, TypeOK, RowTypes
<1>3. link[s] \in 1..Len(meetings)
    BY <1>1, <1>2
<1> QED
    BY <1>1, <1>3 DEF Grow

\* A run stores what it fetched.
LEMMA StoreKeeps ==
    ASSUME Inv, NEW w \in Workers, Store(w)
    PROVE  Inv'
<1> USE DEF Inv, Store, At, Goto
<1>0. meetings \in Seq(Meeting) /\ Len(meetings) \in Nat /\ NewMeeting \in Meeting
    BY DEF TypeOK, Meeting, NewMeeting
<1>1. /\ Grow
      /\ target'[w] \in 1..Len(meetings')
      /\ target' \in [Workers -> 0..Len(meetings')]
      /\ \A v \in Workers \ {w} : target'[v] = target[v]
    <2>1. CASE target[w] = 0
        <3>1. meetings' = Append(meetings, NewMeeting)
            BY <2>1
        <3>2. /\ meetings' \in Seq(Meeting)
              /\ Len(meetings') = Len(meetings) + 1
              /\ \A m \in 1..Len(meetings) : meetings'[m] = meetings[m]
            BY <1>0, <3>1, AppendProperties
        <3>3. Grow
            BY <1>0, <3>2 DEF Grow
        <3>4. target' = [target EXCEPT ![w] = Len(meetings')]
            BY <2>1
        <3> QED
            BY <1>0, <3>2, <3>3, <3>4 DEF TypeOK, WorkerTypes
    <2>2. CASE target[w] # 0
        <3>1. target[w] \in 1..Len(meetings) /\ UNCHANGED target
            BY <1>0, <2>2 DEF TypeOK, WorkerTypes
        <3> DEFINE x == [meetings[target[w]] EXCEPT !.active = TRUE]
        <3>2. meetings[target[w]] \in Meeting
            BY <1>0, <3>1, ElementOfSeq
        <3>3. x \in Meeting /\ x.processed = meetings[target[w]].processed
            BY <3>2 DEF Meeting
        <3>4. meetings' = [meetings EXCEPT ![target[w]] = x]
            BY <2>2
        <3> HIDE DEF x
        <3>5. Grow /\ Len(meetings') = Len(meetings)
            BY <3>1, <3>3, <3>4, MeetingChanges
        <3> QED
            BY <3>1, <3>5 DEF TypeOK, WorkerTypes
    <2> QED
        BY <2>1, <2>2
<1>2. TypeOK'
    <2>1. RowTypes'
        BY <1>0, <1>1 DEF TypeOK, RowTypes, Grow
    <2>2. WorkerTypes'
        BY <1>1, GotoTypes DEF Goto
    <2>3. EventTypes'
        BY <1>0, <1>1 DEF TypeOK, EventTypes, Grow, history
    <2> QED
        BY <1>1, <2>1, <2>2, <2>3 DEF TypeOK, Grow
<1>3. Busy' /\ Chosen'
    BY <1>0, <1>1 DEF TypeOK, RowTypes, WorkerTypes, Busy, Chosen
<1>4. Quiet' => Quiet
    BY DEF Quiet, history
<1>5. OneCreator' /\ OneMeetingPerSource'
    <2>1. \A v \in Workers : Creating(v)' => v # w /\ Creating(v)
        BY <1>1 DEF Creating, TypeOK, WorkerTypes
    <2>2. CASE target[w] = 0
        <3>1. Creating(w)
            BY <2>2 DEF Creating
        <3>2. Quiet => Len(meetings') = 1 /\ \A v \in Workers : ~ Creating(v)'
            BY <1>0, <2>1, <2>2, <3>1, AppendProperties DEF OneCreator
        <3> QED
            BY <1>4, <3>2 DEF OneCreator, OneMeetingPerSource, Quiet
    <2>3. CASE target[w] # 0
        <3>1. Len(meetings') = Len(meetings)
            BY <1>0, <2>3
        <3> QED
            BY <1>4, <2>1, <3>1 DEF OneCreator, OneMeetingPerSource, Quiet
    <2> QED
        BY <2>2, <2>3
<1>6. CompletedIsProcessed'
    BY <1>1, CompletedStays
<1> QED
    BY <1>2, <1>3, <1>5, <1>6

\* The source that is recorded changes nothing that a job has done.
LEMMA StampKeeps ==
    ASSUME Inv, NEW w \in Workers, Stamp(w)
    PROVE  Inv'
<1> USE DEF Inv, Stamp
<1>0. /\ pc[w] = "stamp" /\ running[w] \in Sessions
      /\ Len(meetings) \in Nat /\ target[w] \in 1..Len(meetings)
      /\ UNCHANGED <<status, link, choice, cancel, upsets, messages, overlapped, late,
                     running, own, target>>
    BY DEF At, Busy, TypeOK, WorkerTypes, history
<1> DEFINE x == [meetings[target[w]] EXCEPT !.recorded = TRUE]
<1>1. Grow /\ Len(meetings') = Len(meetings)
    <2>1. meetings[target[w]] \in Meeting
        BY <1>0, ElementOfSeq DEF TypeOK
    <2>2. x \in Meeting /\ x.processed = meetings[target[w]].processed
        BY <2>1 DEF Meeting
    <2>3. meetings' = [meetings EXCEPT ![target[w]] = x]
        OBVIOUS
    <2> HIDE DEF x
    <2> QED
        BY <1>0, <2>2, <2>3, MeetingChanges
<1>2. TypeOK'
    <2>1. RowTypes'
        BY <1>0, <1>1 DEF TypeOK, RowTypes
    <2>2. target' \in [Workers -> 0..Len(meetings')]
        BY <1>0, <1>1 DEF TypeOK, WorkerTypes
    <2>3. WorkerTypes'
        BY <1>0, <1>1, <2>2, GotoTypes
    <2>4. EventTypes'
        BY <1>0, <1>1 DEF TypeOK, EventTypes
    <2> QED
        BY <1>1, <2>1, <2>3, <2>4 DEF TypeOK, Grow
<1>3. Busy'
    BY <1>0 DEF Busy, Goto, TypeOK, WorkerTypes
<1>4. Chosen'
    BY <1>0 DEF Chosen
<1>5. OneCreator' /\ OneMeetingPerSource'
    BY <1>0, <1>1 DEF OneCreator, OneMeetingPerSource, Creating, Quiet, Goto, TypeOK,
                      WorkerTypes
<1>6. CompletedIsProcessed'
    <2> SUFFICES ASSUME NEW s \in Sessions, status[s] = "completed"
                 PROVE  link[s] # 0 /\ (meetings'[link[s]].processed \/ choice[s] = "ignore")
        BY <1>0 DEF CompletedIsProcessed
    <2>1. link[s] # 0 /\ (meetings[link[s]].processed \/ choice[s] = "ignore")
        BY DEF CompletedIsProcessed
    <2>2. link[s] \in 1..Len(meetings)
        BY <1>0, <2>1 DEF TypeOK, RowTypes
    <2> QED
        BY <1>1, <2>1, <2>2 DEF Grow
<1> QED
    BY <1>2, <1>3, <1>4, <1>5, <1>6

\* Link completes no import: it waits for the end of the meeting's job.
LEMMA LinkKeeps ==
    ASSUME Inv, NEW w \in Workers, Link(w)
    PROVE  Inv'
<1> USE DEF Inv, Link
<1>0. /\ pc[w] = "link" /\ running[w] \in Sessions
      /\ Len(meetings) \in Nat /\ target[w] \in 1..Len(meetings)
      /\ UNCHANGED <<meetings, choice, cancel, upsets, messages, overlapped>>
    BY DEF At, Busy, TypeOK, WorkerTypes
<1>2. TypeOK'
    <2>1. RowTypes'
        BY <1>0 DEF TypeOK, RowTypes, Active
    <2>2. WorkerTypes'
        BY <1>0, DoneTypes
    <2>3. EventTypes'
        BY <1>0 DEF TypeOK, EventTypes
    <2> QED
        BY <1>0, <2>1, <2>2, <2>3 DEF TypeOK
<1>3. Busy'
    BY DEF Busy, Done, TypeOK, WorkerTypes
<1>4. Chosen'
    BY <1>0 DEF TypeOK, RowTypes, Chosen
<1>5. OneCreator' /\ OneMeetingPerSource'
    BY <1>0 DEF OneCreator, OneMeetingPerSource, Creating, Quiet, Done, TypeOK, WorkerTypes
<1>6. CompletedIsProcessed'
    <2> SUFFICES ASSUME NEW s \in Sessions, status'[s] = "completed"
                 PROVE  link'[s] # 0 /\ (meetings[link'[s]].processed \/ choice[s] = "ignore")
        BY <1>0 DEF CompletedIsProcessed
    <2>1. s # running[w] /\ status[s] = "completed" /\ link'[s] = link[s]
        BY <1>0 DEF TypeOK, RowTypes
    <2> QED
        BY <2>1 DEF CompletedIsProcessed
<1> QED
    BY <1>2, <1>3, <1>4, <1>5, <1>6

\* A run that raises, and one whose worker is lost, leave the meetings alone.
LEMMA FailKeeps ==
    ASSUME Inv, NEW w \in Workers, Fail(w)
    PROVE  Inv'
<1> USE DEF Inv, Fail
<1>0. /\ Grow /\ running[w] \in Sessions
      /\ UNCHANGED <<meetings, choice, cancel, upsets, messages, overlapped, late>>
    BY MeetingsStay DEF At, history, Busy
<1>1. PICK x \in Failed : Put(w, x)
    BY DEF Failed
<1>2. TypeOK'
    <2>1. RowTypes'
        BY <1>0, <1>1, PutTypes DEF Terminal
    <2>2. WorkerTypes'
        BY <1>0, DoneTypes
    <2>3. EventTypes'
        BY <1>0 DEF TypeOK, EventTypes
    <2> QED
        BY <1>0, <2>1, <2>2, <2>3 DEF TypeOK
<1>3. Busy'
    BY DEF Busy, Done, TypeOK, WorkerTypes
<1>4. Chosen'
    BY <1>0, <1>1 DEF TypeOK, RowTypes, Chosen, Put, Failed
<1>5. OneCreator' /\ OneMeetingPerSource'
    BY <1>0 DEF OneCreator, OneMeetingPerSource, Creating, Quiet, Done, TypeOK, WorkerTypes
<1>6. CompletedIsProcessed'
    BY <1>0, <1>1 DEF CompletedIsProcessed, TypeOK, RowTypes, Put, Failed
<1> QED
    BY <1>2, <1>3, <1>4, <1>5, <1>6

\* What else may happen to a run.
LEMMA UpsetKeeps ==
    ASSUME Inv, NEW w \in Workers, Lose(w) \/ Repeat(w)
    PROVE  Inv'
<1> USE DEF Inv, Lose, Repeat, Upset
<1>0. Grow /\ UNCHANGED <<meetings, status, link, choice, cancel, overlapped, late>>
    BY MeetingsStay DEF row, history
<1>1. Done(w) \/ UNCHANGED <<running, pc, own, target>>
    BY DEF worker
<1>2. TypeOK'
    <2>1. RowTypes'
        BY <1>0 DEF TypeOK, RowTypes
    <2>2. WorkerTypes'
        BY <1>0, <1>1, DoneTypes DEF TypeOK, WorkerTypes
    <2>3. EventTypes'
        <3>1. messages' \in [Sessions -> Nat]
            <4>1. running[w] \in Sessions /\ messages' = [messages EXCEPT ![running[w]] = @ + 1]
                BY DEF TypeOK, WorkerTypes
            <4> QED
                BY <4>1 DEF TypeOK, EventTypes
        <3>2. upsets' \in 0..MaxUpsets
            BY DEF TypeOK, EventTypes
        <3> QED
            BY <1>0, <3>1, <3>2 DEF TypeOK, EventTypes
    <2> QED
        BY <1>0, <2>1, <2>2, <2>3 DEF TypeOK
<1>3. Busy' /\ OneCreator'
    <2>1. CASE Done(w)
        BY <1>0, <2>1 DEF Busy, OneCreator, Creating, Quiet, Done, TypeOK, WorkerTypes
    <2>2. CASE UNCHANGED <<running, pc, own, target>>
        BY <1>0, <2>2 DEF Busy, OneCreator, Creating, Quiet
    <2> QED
        BY <1>1, <2>1, <2>2
<1>4. Chosen' /\ OneMeetingPerSource' /\ CompletedIsProcessed'
    BY <1>0 DEF Chosen, OneMeetingPerSource, CompletedIsProcessed
<1> QED
    BY <1>2, <1>3, <1>4

\* The end of a job completes the imports that wait for it when its meeting
\* has been processed.
LEMMA EndJobKeeps ==
    ASSUME Inv, NEW m \in DOMAIN meetings, NEW end \in Ends, EndJob(m, end)
    PROVE  Inv'
<1> USE DEF Inv, EndJob, EndActive
<1>0. /\ Len(meetings) \in Nat /\ m \in 1..Len(meetings)
      /\ UNCHANGED <<link, choice, messages, cancel, running, pc, own, target, upsets, overlapped>>
    BY DEF TypeOK, worker
<1> DEFINE x == [meetings[m] EXCEPT !.active = FALSE, !.processed = @ \/ end = "completed"]
<1>1. Grow /\ Len(meetings') = Len(meetings) /\ (end = "completed" => meetings'[m].processed)
    <2>1. meetings[m] \in Meeting
        BY <1>0, ElementOfSeq DEF TypeOK
    <2>2. /\ x \in Meeting
          /\ meetings[m].processed => x.processed
          /\ end = "completed" => x.processed
        BY <2>1 DEF Meeting
    <2>3. meetings' = [meetings EXCEPT ![m] = x]
        OBVIOUS
    <2> HIDE DEF x
    <2> QED
        BY <1>0, <2>2, <2>3, MeetingChanges
<1>2. \A s \in Sessions :
          \/ status'[s] = status[s]
          \/ s \in Waiting(m) /\ status'[s] = end
    BY DEF Settle
<1>3. TypeOK'
    <2>1. RowTypes'
        <3>1. status' \in [Sessions -> {"none"} \cup Active \cup Terminal]
            BY DEF TypeOK, RowTypes, Settle, Terminal, Failed, Ends
        <3> QED
            BY <1>0, <1>1, <3>1 DEF TypeOK, RowTypes
    <2>2. WorkerTypes'
        BY <1>0, <1>1 DEF TypeOK, WorkerTypes
    <2>3. EventTypes'
        BY <1>0, <1>1 DEF TypeOK, EventTypes, Waiting
    <2> QED
        BY <1>1, <2>1, <2>2, <2>3 DEF TypeOK, Grow
<1>4. Busy'
    BY <1>0 DEF Busy
<1>5. Chosen'
    BY <1>0, <1>2 DEF Chosen, Ends
<1>6. OneCreator' /\ OneMeetingPerSource'
    BY <1>0, <1>1 DEF OneCreator, OneMeetingPerSource, Creating, Quiet
<1>7. CompletedIsProcessed'
    <2> SUFFICES ASSUME NEW s \in Sessions, status'[s] = "completed"
                 PROVE  link[s] # 0 /\ (meetings'[link[s]].processed \/ choice[s] = "ignore")
        BY <1>0 DEF CompletedIsProcessed
    <2>1. CASE status[s] = "completed"
        <3>1. link[s] # 0 /\ (meetings[link[s]].processed \/ choice[s] = "ignore")
            BY <2>1 DEF CompletedIsProcessed
        <3>2. link[s] \in 1..Len(meetings)
            BY <1>0, <3>1 DEF TypeOK, RowTypes
        <3> QED
            BY <1>1, <3>1, <3>2 DEF Grow
    <2>2. CASE status[s] # "completed"
        <3>1. link[s] = m /\ end = "completed"
            BY <1>2, <2>2 DEF Waiting
        <3> QED
            BY <1>0, <1>1, <3>1
    <2> QED
        BY <2>1, <2>2
<1> QED
    BY <1>3, <1>4, <1>5, <1>6, <1>7

-----------------------------------------------------------------------------
\* There are no meetings at first.
LEMMA InvInit == ImportInit => Inv
<1> SUFFICES ASSUME ImportInit PROVE Inv
    OBVIOUS
<1>1. meetings \in Seq(Meeting) /\ (Len(meetings) = 0 \/ Len(meetings) = 1)
    <2>1. CASE meetings = <<>>
        BY <2>1
    <2>2. CASE meetings = <<Uploaded>>
        <3>1. Uploaded \in Meeting
            BY DEF Uploaded, Meeting
        <3> QED
            BY <2>2, <3>1
    <2> QED
        BY <2>1, <2>2 DEF ImportInit
<1>2. /\ status = [s \in Sessions |-> "none"]
      /\ link = [s \in Sessions |-> 0]
      /\ choice = [s \in Sessions |-> "reject"]
      /\ running = [w \in Workers |-> NoSession]
      /\ pc = [w \in Workers |-> "idle"]
      /\ own = [w \in Workers |-> 0]
      /\ target = [w \in Workers |-> 0]
    BY DEF ImportInit
<1>3. RowTypes
    BY <1>1, <1>2 DEF RowTypes, DuplicateActions
<1>4. WorkerTypes
    BY <1>1, <1>2 DEF WorkerTypes
<1>5. EventTypes
    <2>1. cancel \in [session : Sessions \cup {NoSession}, link : 0..Len(meetings)]
        BY <1>1 DEF ImportInit, NoRequest
    <2>2. messages \in [Sessions -> Nat] /\ upsets \in 0..MaxUpsets
        BY DEF ImportInit
    <2>3. overlapped \in BOOLEAN /\ late \subseteq Sessions
        BY DEF ImportInit
    <2> QED
        BY <2>1, <2>2, <2>3 DEF EventTypes
<1>6. Busy /\ Chosen /\ OneCreator
    BY <1>2 DEF Busy, Chosen, OneCreator, Creating
<1>7. OneMeetingPerSource
    BY <1>1 DEF OneMeetingPerSource
<1>8. CompletedIsProcessed
    BY <1>2 DEF CompletedIsProcessed
<1> QED
    BY <1>1, <1>3, <1>4, <1>5, <1>6, <1>7, <1>8 DEF Inv, TypeOK

\* Every step keeps the invariant.
LEMMA InvNext == Inv /\ [ImportNext]_importVars => Inv'
<1> SUFFICES ASSUME Inv, [ImportNext]_importVars PROVE Inv'
    OBVIOUS
<1>1. ASSUME NEW s \in Sessions, Request(s) PROVE Inv'
    BY <1>1, RequestKeeps
<1>2. ASSUME NEW s \in Sessions, NEW w \in Workers, Take(w, s) PROVE Inv'
    BY <1>2, TakeKeeps
<1>3. ASSUME NEW w \in Workers, RunStep(w) PROVE Inv'
    BY <1>3, CheckSourceKeeps, CheckFileKeeps, StoreKeeps, StampKeeps, LinkKeeps, FailKeeps
       DEF RunStep
<1>4. ASSUME NEW w \in Workers, Lose(w) \/ Repeat(w) PROVE Inv'
    BY <1>4, UpsetKeeps
<1>5. ASSUME NEW m \in DOMAIN meetings, NEW end \in Ends, EndJob(m, end) PROVE Inv'
    BY <1>5, EndJobKeeps
<1>6. CASE UNCHANGED importVars
    BY <1>6 DEF importVars, row, worker, history, Inv, TypeOK, RowTypes, WorkerTypes, EventTypes,
                Busy, Chosen, OneCreator, Quiet, Creating, OneMeetingPerSource,
                CompletedIsProcessed
<1> QED
    BY <1>1, <1>2, <1>3, <1>4, <1>5, <1>6 DEF ImportNext

\* It holds throughout.
LEMMA InvAlways == ImportSpec => []Inv
BY InvInit, InvNext, PTL DEF ImportSpec

\* Every reachable state is well typed.
THEOREM ImportTypeCorrect == ImportSpec => []TypeOK
BY InvAlways, PTL DEF Inv

\* Importing a source again and again makes one meeting of it, for any number
\* of sessions and workers, unless a user keeps both or two runs create at once.
THEOREM SourceHasOneMeeting == ImportSpec => []OneMeetingPerSource
BY InvAlways, PTL DEF Inv

\* A session says "completed" of a meeting that has been processed, or that it
\* was told to skip.
THEOREM CompletedMeansProcessed == ImportSpec => []CompletedIsProcessed
BY InvAlways, PTL DEF Inv

\* No step but one of a run that is in progress takes CANCELLED off a session.
THEOREM CancellationHolds == ImportSpec => CancelHolds
<1>1. ASSUME Inv, [ImportNext]_importVars
      PROVE  [\A s \in Sessions :
                status[s] = "cancelled" /\ (\A w \in Workers : running[w] # s)
                    => status'[s] = "cancelled"]_importVars
    <2> SUFFICES ASSUME ImportNext, NEW s \in Sessions, status[s] = "cancelled",
                        \A w \in Workers : running[w] # s
                 PROVE  status'[s] = "cancelled"
        BY <1>1
    <2>0. Inv /\ RowTypes
        BY <1>1 DEF Inv, TypeOK
    <2>1. ASSUME NEW r \in Sessions, Request(r)
          PROVE  status'[s] = "cancelled"
        BY <2>0, <2>1 DEF RowTypes, Request, Create, FindActive, Cancel, row
    <2>2. ASSUME NEW r \in Sessions, NEW w \in Workers, Take(w, r)
          PROVE  status'[s] = "cancelled"
        BY <2>0, <2>2 DEF RowTypes, Take, Ignore, Load
    <2>3. ASSUME NEW w \in Workers, RunStep(w)
          PROVE  status'[s] = "cancelled"
        BY <2>0, <2>3 DEF RowTypes, RunStep, CheckSource, CheckFile, Decide, Hand, Refuse,
                          Store, Stamp, Link, Fail, Put
    <2>4. ASSUME NEW w \in Workers, Lose(w) \/ Repeat(w)
          PROVE  status'[s] = "cancelled"
        BY <2>4 DEF Lose, Repeat, row
    <2>5. ASSUME NEW m \in DOMAIN meetings, NEW end \in Ends, EndJob(m, end)
          PROVE  status'[s] = "cancelled"
        BY <2>5 DEF EndJob, Settle, Waiting
    <2> QED
        BY <2>1, <2>2, <2>3, <2>4, <2>5 DEF ImportNext
<1> QED
    BY InvInit, InvNext, <1>1, PTL DEF ImportSpec, CancelHolds

-----------------------------------------------------------------------------
(* The safety half of ImportSettles.                                       *)

\* Somebody is still to say how the import ends: a message of it is in the
\* queue, a worker runs it, or it waits for a job that is active.
Pursued(s) ==
    \/ messages[s] > 0
    \/ \E w \in Workers : running[w] = s
    \/ /\ status[s] = "processing"
       /\ link[s] # 0
       /\ meetings[link[s]].active

\* No import that is under way has been forgotten by everybody, unless the end
\* of its job came before it was waited for, or was a cancellation.
NoneForgotten == \A s \in Sessions : status[s] \in Active => Pursued(s) \/ s \in late

\* A worker that is idle runs nothing.
IdleHasNone == \A w \in Workers : pc[w] = "idle" => running[w] = NoSession

\* A session whose row is left alone stays pursued: its message stays or is
\* taken by a run of it, its run goes on, and its job stays active.
LEMMA StaysPursued ==
    ASSUME NEW s \in Sessions, Pursued(s),
           status'[s] = status[s], link'[s] = link[s],
           messages[s] > 0 => messages'[s] > 0,
           \A w \in Workers : running[w] = s => running'[w] = s,
           link[s] # 0 /\ meetings[link[s]].active => meetings'[link[s]].active
    PROVE  Pursued(s)'
BY DEF Pursued

\* A request forgets nothing.
LEMMA RequestPursues ==
    ASSUME Inv, IdleHasNone, NoneForgotten, NEW r \in Sessions, Request(r)
    PROVE  IdleHasNone' /\ NoneForgotten'
<1> USE DEF Inv, TypeOK, RowTypes, EventTypes, Active, Terminal, Failed
<1>0. UNCHANGED <<meetings, running, pc, late>>
    BY DEF Request, Create, FindActive, Cancel, worker, history
<1>1. IdleHasNone'
    BY <1>0 DEF IdleHasNone
<1>2. ASSUME NEW s \in Sessions, status'[s] \in Active
      PROVE  Pursued(s)' \/ s \in late'
    <2>1. CASE status'[s] # status[s]
        <3>1. PICK c \in DuplicateActions : Create(r, c)
            BY <1>2, <2>1 DEF Request, FindActive, Cancel, row
        <3>2. messages'[s] > 0
            BY <1>2, <2>1, <3>1 DEF Create
        <3> QED
            BY <3>2 DEF Pursued
    <2>2. CASE status'[s] = status[s]
        <3>1. Pursued(s) \/ s \in late
            BY <1>2, <2>2 DEF NoneForgotten
        <3>2. messages[s] > 0 => messages'[s] > 0
            <4>1. messages \in [Sessions -> Nat]
                OBVIOUS
            <4>2. messages' = messages \/ messages' = [messages EXCEPT ![r] = @ + 1]
                BY DEF Request, Create, FindActive, Cancel
            <4> QED
                BY <4>1, <4>2
        <3>3. status[s] # "none"
            BY <1>2, <2>2
        <3>4. link'[s] = link[s]
            BY <1>2, <2>2, <3>3 DEF Request, Create, FindActive, Cancel, row
        <3> QED
            BY <1>0, <2>2, <3>1, <3>2, <3>4, StaysPursued
    <2> QED
        BY <2>1, <2>2
<1> QED
    BY <1>1, <1>2 DEF NoneForgotten

\* A worker leaves alone only a message of an import that has ended.
LEMMA TakePursues ==
    ASSUME Inv, IdleHasNone, NoneForgotten,
           NEW w \in Workers, NEW r \in Sessions, Take(w, r)
    PROVE  IdleHasNone' /\ NoneForgotten'
<1> USE DEF Inv, TypeOK, RowTypes, WorkerTypes, EventTypes, Active, Terminal, Failed,
            Take, At, Ignore, Load, Goto
<1>1. IdleHasNone'
    BY DEF IdleHasNone, worker
<1>2. ASSUME NEW s \in Sessions, status'[s] \in Active
      PROVE  Pursued(s)' \/ s \in late'
    <2>1. CASE s = r
        <3>1. running'[w] = s
            BY <1>2, <2>1 DEF worker
        <3> QED
            BY <3>1 DEF Pursued
    <2>2. CASE s # r
        <3>1. /\ status'[s] = status[s] /\ messages'[s] = messages[s]
              /\ UNCHANGED <<link, meetings, late>>
            BY <2>2 DEF history
        <3>2. running[w] # s
            BY NoSessionAssumption DEF IdleHasNone
        <3>3. \A v \in Workers : running[v] = s => running'[v] = s
            BY <3>2 DEF worker
        <3>4. Pursued(s) \/ s \in late
            BY <1>2, <3>1 DEF NoneForgotten
        <3> QED
            BY <3>1, <3>3, <3>4, StaysPursued
    <2> QED
        BY <2>1, <2>2
<1> QED
    BY <1>1, <1>2 DEF NoneForgotten

\* What a step of a run leaves alone: the rows, messages and runs of others,
\* and the jobs in progress.
LEMMA RunsAlone ==
    ASSUME Inv, IdleHasNone, NEW w \in Workers, RunStep(w)
    PROVE  /\ UNCHANGED messages /\ late \subseteq late'
           /\ \A s \in Sessions \ {running[w]} :
                /\ status'[s] = status[s] /\ link'[s] = link[s]
                /\ \A v \in Workers : running[v] = s => running'[v] = s
           /\ \A m \in 1..Len(meetings) : meetings[m].active => meetings'[m].active
<1> USE DEF Inv
<1>0. meetings \in Seq(Meeting) /\ Len(meetings) \in Nat
    BY DEF TypeOK, Meeting
<1>1. UNCHANGED messages /\ late \subseteq late'
    BY DEF RunStep, CheckSource, CheckFile, Decide, Store, Stamp, Link, Fail, history
<1>2. ASSUME NEW s \in Sessions \ {running[w]}
      PROVE  status'[s] = status[s] /\ link'[s] = link[s]
    BY <1>2 DEF TypeOK, RowTypes, RunStep, CheckSource, CheckFile, Decide, Store, Stamp, Link, Fail,
                Put, Hand, Refuse
<1>3. ASSUME NEW s \in Sessions \ {running[w]}, NEW v \in Workers, running[v] = s
      PROVE  running'[v] = s
    <2>1. v # w
        BY <1>3
    <2>2. UNCHANGED running \/ Done(w)
        BY DEF RunStep, CheckSource, CheckFile, Decide, Store, Stamp, Link, Fail, Hand, Refuse
    <2> QED
        BY <1>3, <2>1, <2>2 DEF Done, TypeOK, WorkerTypes
<1>4. ASSUME NEW m \in 1..Len(meetings), meetings[m].active
      PROVE  meetings'[m].active
    <2>1. CASE UNCHANGED meetings
        BY <1>4, <2>1
    <2>2. CASE Store(w)
        <3>1. CASE target[w] = 0
            <4>1. meetings' = Append(meetings, NewMeeting)
                BY <2>2, <3>1 DEF Store
            <4>2. meetings'[m] = meetings[m]
                BY <1>0, <4>1
            <4> QED
                BY <1>4, <4>2
        <3>2. CASE target[w] # 0
            <4>1. meetings' = [meetings EXCEPT ![target[w]].active = TRUE]
                BY <2>2, <3>2 DEF Store
            <4> QED
                BY <1>0, <1>4, <4>1 DEF Meeting
        <3> QED
            BY <3>1, <3>2
    <2>3. CASE Stamp(w)
        BY <1>0, <1>4, <2>3 DEF Stamp, Meeting
    <2> QED
        BY <2>1, <2>2, <2>3 DEF RunStep, CheckSource, CheckFile, Decide, Link, Fail
<1> QED
    BY <1>1, <1>2, <1>3, <1>4

\* A run goes on, or says how the import ends, or hands it to a job.
LEMMA RunPursues ==
    ASSUME Inv, IdleHasNone, NoneForgotten, NEW w \in Workers, RunStep(w)
    PROVE  IdleHasNone' /\ NoneForgotten'
<1> USE DEF Inv
<1>0. running[w] \in Sessions /\ pc[w] # "idle"
    BY DEF Busy, RunStep, CheckSource, CheckFile, Decide, Store, Stamp, Link, Fail, At
<1>1. \/ UNCHANGED running /\ \E to \in {"fetch", "store", "stamp", "link"} : Goto(w, to)
      \/ Done(w)
    BY DEF RunStep, CheckSource, CheckFile, Decide, Store, Stamp, Link, Fail, Hand, Refuse
<1>2. IdleHasNone'
    BY <1>1 DEF IdleHasNone, Goto, Done, TypeOK, WorkerTypes
<1>3. ASSUME NEW s \in Sessions, status'[s] \in Active
      PROVE  Pursued(s)' \/ s \in late'
    <2>1. CASE s # running[w]
        <3>1. /\ UNCHANGED messages /\ late \subseteq late'
              /\ status'[s] = status[s] /\ link'[s] = link[s]
              /\ \A v \in Workers : running[v] = s => running'[v] = s
            BY <2>1, RunsAlone
        <3>2. link[s] # 0 /\ meetings[link[s]].active => meetings'[link[s]].active
            <4>1. link[s] \in 0..Len(meetings) /\ Len(meetings) \in Nat
                BY DEF TypeOK, RowTypes
            <4>2. link[s] # 0 => link[s] \in 1..Len(meetings)
                BY <4>1
            <4> QED
                BY <4>2, RunsAlone
        <3>3. Pursued(s) \/ s \in late
            BY <1>3, <3>1 DEF NoneForgotten
        <3> QED
            BY <3>1, <3>2, <3>3, StaysPursued
    <2>2. CASE s = running[w] /\ ~Done(w)
        <3>1. running'[w] = s
            BY <1>1, <2>2
        <3> QED
            BY <3>1 DEF Pursued
    <2>3. CASE s = running[w] /\ Done(w) /\ Link(w)
        <3>1. /\ status'[s] = "processing" /\ link'[s] = target[w]
              /\ meetings' = meetings
              /\ late' = late \cup (IF meetings[target[w]].active THEN {} ELSE {s})
            BY <2>3 DEF Link, TypeOK, RowTypes
        <3>2. target[w] \in 1..Len(meetings)
            <4>1. target[w] # 0 /\ target[w] \in 0..Len(meetings) /\ Len(meetings) \in Nat
                BY <2>3 DEF Busy, Link, At, TypeOK, WorkerTypes
            <4> QED
                BY <4>1
        <3>4. CASE meetings[target[w]].active
            BY <3>1, <3>2, <3>4 DEF Pursued
        <3>5. CASE ~meetings[target[w]].active
            BY <3>1, <3>5
        <3> QED
            BY <3>4, <3>5
    <2>4. CASE s = running[w] /\ Done(w) /\ ~Link(w)
        <3>1. pc'[w] = "idle"
            BY <2>4 DEF Done, TypeOK, WorkerTypes
        <3>2. status'[s] \in {"failed", "completed", "blocked"}
            BY <2>4, <3>1 DEF RunStep, CheckSource, CheckFile, Decide, Store, Stamp, Fail,
                              Hand, Refuse, Goto, Put, TypeOK, RowTypes, WorkerTypes
        <3> QED
            BY <1>3, <3>2 DEF Active
    <2> QED
        BY <2>1, <2>2, <2>3, <2>4
<1> QED
    BY <1>2, <1>3 DEF NoneForgotten

\* A message that returns, or is delivered again, is one more.
LEMMA UpsetPursues ==
    ASSUME Inv, IdleHasNone, NoneForgotten, NEW w \in Workers, Lose(w) \/ Repeat(w)
    PROVE  IdleHasNone' /\ NoneForgotten'
<1> USE DEF Inv, TypeOK, WorkerTypes, EventTypes, Lose, Repeat
<1>0. running[w] \in Sessions /\ UNCHANGED <<status, link, meetings, late>>
    BY DEF row, history
<1>1. /\ messages \in [Sessions -> Nat]
      /\ messages' = [messages EXCEPT ![running[w]] = @ + 1]
    OBVIOUS
<1>2. messages'[running[w]] > 0
    BY <1>0, <1>1
<1>3. IdleHasNone'
    BY DEF IdleHasNone, Done, worker
<1>4. ASSUME NEW s \in Sessions, status'[s] \in Active
      PROVE  Pursued(s)' \/ s \in late'
    <2>1. CASE s = running[w]
        BY <1>2, <2>1 DEF Pursued
    <2>2. CASE s # running[w]
        <3>1. \A v \in Workers : running[v] = s => running'[v] = s
            BY <2>2 DEF Done, worker
        <3>2. messages[s] > 0 => messages'[s] > 0
            BY <1>1, <2>2
        <3>3. Pursued(s) \/ s \in late
            BY <1>0, <1>4 DEF NoneForgotten
        <3> QED
            BY <1>0, <3>1, <3>2, <3>3, StaysPursued
    <2> QED
        BY <2>1, <2>2
<1> QED
    BY <1>3, <1>4 DEF NoneForgotten

\* The end of a job settles whoever waits for it, but for a cancellation.
LEMMA EndJobPursues ==
    ASSUME Inv, IdleHasNone, NoneForgotten,
           NEW m \in DOMAIN meetings, NEW end \in Ends, EndJob(m, end)
    PROVE  IdleHasNone' /\ NoneForgotten'
<1> USE DEF Inv, TypeOK, RowTypes
<1>0. UNCHANGED <<link, messages, running, pc>>
    BY DEF EndJob, worker
<1>1. IdleHasNone'
    BY <1>0 DEF IdleHasNone
<1>2. late \subseteq late'
    BY DEF EndJob
<1>3. ASSUME NEW s \in Sessions, status'[s] \in Active
      PROVE  Pursued(s)' \/ s \in late'
    <2>1. CASE s \in Waiting(m)
        BY <1>3, <2>1 DEF EndJob, Settle, Ends, Active
    <2>2. CASE s \notin Waiting(m)
        <3>1. status'[s] = status[s]
            BY <2>2 DEF EndJob, Settle
        <3>2. Pursued(s) \/ s \in late
            BY <1>3, <3>1 DEF NoneForgotten
        <3>3. CASE s \in late \/ status[s] # "processing"
            BY <1>0, <1>2, <3>1, <3>2, <3>3 DEF Pursued
        <3>4. CASE status[s] = "processing" /\ link[s] # m
            <4>1. link[s] # 0 => meetings'[link[s]] = meetings[link[s]]
                BY <3>4 DEF EndJob, EndActive
            <4> QED
                BY <1>0, <1>2, <3>1, <3>2, <4>1, StaysPursued
        <3> QED
            BY <2>2, <3>3, <3>4 DEF Waiting
    <2> QED
        BY <2>1, <2>2
<1> QED
    BY <1>1, <1>3 DEF NoneForgotten

\* Every import that is under way is in somebody's hands: a message of it is on
\* the way, a worker runs it, or it waits for an active job, through lost
\* workers, repeated deliveries, stale cancellations and overlapping runs. What
\* is forgotten is what ImportSettles excepts.
THEOREM ImportsArePursued == ImportSpec => []NoneForgotten
<1>1. ImportInit => IdleHasNone /\ NoneForgotten
    BY DEF ImportInit, IdleHasNone, NoneForgotten, Active
<1>2. Inv /\ IdleHasNone /\ NoneForgotten /\ [ImportNext]_importVars => IdleHasNone' /\ NoneForgotten'
    <2> SUFFICES ASSUME Inv, IdleHasNone, NoneForgotten, [ImportNext]_importVars
                 PROVE  IdleHasNone' /\ NoneForgotten'
        OBVIOUS
    <2>1. CASE UNCHANGED importVars
        BY <2>1 DEF importVars, row, worker, history, IdleHasNone, NoneForgotten, Pursued
    <2> QED
        BY <2>1, RequestPursues, TakePursues, RunPursues, UpsetPursues, EndJobPursues DEF ImportNext
<1> QED
    BY <1>1, <1>2, InvAlways, PTL DEF ImportSpec
=============================================================================
