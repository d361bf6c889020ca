---------------------------- MODULE MediaImport ----------------------------
(***************************************************************************)
(* Imports of one media source by one owner: the request that creates an   *)
(* import session, the worker that analyses, downloads and hands over to   *)
(* create_upload, cancellation, and the end of the processing job, which   *)
(* settles the session.                                                    *)
(*                                                                         *)
(* Every session imports the same source and every download yields the     *)
(* same bytes: the case in which all three layers of duplicate detection   *)
(* speak.  A worker holds the session object it loaded, and what it writes *)
(* to the row overwrites a cancellation stored since.  Jobs end, as they   *)
(* do in JobEngine; jobs that supersede others are in MeetingProcessing.   *)
(***************************************************************************)
EXTENDS Naturals, Sequences, FiniteSetsExt

CONSTANTS
    Sessions,    \* import sessions
    NoSession,   \* none of them
    Workers,     \* workers of the media queue
    MaxMeetings, \* bound on the meetings of the recording
    MaxUpsets    \* bound on cancel requests, lost workers and repeated deliveries

ASSUME NoSessionAssumption == NoSession \notin Sessions
ASSUME BoundsAssumption == MaxMeetings \in Nat \ {0} /\ MaxUpsets \in Nat

VARIABLES
    status,   \* per session: the row's status, "none" before it is created
    link,     \* per session: the meeting the row is linked to, 0 for none
    choice,   \* per session: on_duplicate
    messages, \* per session: messages in the queue
    cancel,   \* the session a cancel request has found active, and its link
    meetings, \* the owner's meetings with this recording: whether its newest job
              \* is active, whether one has completed, and whether the source is
              \* recorded on it
    running,  \* per worker: the session whose import it runs
    pc,       \* per worker: where the run stands
    own,      \* per worker: the meeting of its session object
    target,   \* per worker: the meeting create_upload works on, 0 for a new one
    upsets,   \* cancel requests, lost workers and repeated deliveries so far
    overlapped, \* have two runs created meetings at once? (history)
    late      \* sessions whose job had ended when PROCESSING was stored, or was
              \* canceled (history)

row     == <<status, link, choice>>
worker  == <<running, pc, own, target>>
history == <<overlapped, late>>
importVars    == <<row, messages, cancel, meetings, worker, upsets, history>>

DuplicateActions == {"reject", "ignore", "replace", "keep_both"}
\* "importing" stands for every status between PENDING and PROCESSING.
Active   == {"pending", "importing", "processing"}
Failed   == {"failed", "blocked"}
Terminal == {"completed", "cancelled"} \cup Failed

NewMeeting == [active |-> TRUE, processed |-> FALSE, recorded |-> FALSE]
Uploaded   == [active |-> FALSE, processed |-> TRUE, recorded |-> FALSE]
NoRequest  == [session |-> NoSession, link |-> 0]

\* find_url_duplicate: the newest meeting the source is recorded on, 0 for none.
Recorded ==
    LET recorded == {m \in DOMAIN meetings : meetings[m].recorded}
    IN  IF recorded = {} THEN 0 ELSE Max(recorded)

\* find_duplicate_file: the meeting whose current file is the oldest with these
\* bytes (any of them: the order of the files is not kept), 0 for none.
Stored == IF meetings = <<>> THEN {0} ELSE DOMAIN meetings

Meeting == [active : BOOLEAN, processed : BOOLEAN, recorded : BOOLEAN]

RowTypes ==
    /\ status \in [Sessions -> {"none"} \cup Active \cup Terminal]
    /\ link \in [Sessions -> 0..Len(meetings)]
    /\ choice \in [Sessions -> DuplicateActions]

WorkerTypes ==
    /\ running \in [Workers -> Sessions \cup {NoSession}]
    /\ pc \in [Workers -> {"idle", "check", "fetch", "store", "stamp", "link"}]
    /\ own \in [Workers -> 0..Len(meetings)]
    /\ target \in [Workers -> 0..Len(meetings)]

EventTypes ==
    /\ messages \in [Sessions -> Nat]
    /\ cancel \in [session : Sessions \cup {NoSession}, link : 0..Len(meetings)]
    /\ upsets \in 0..MaxUpsets
    /\ overlapped \in BOOLEAN /\ late \subseteq Sessions

TypeOK == meetings \in Seq(Meeting) /\ RowTypes /\ WorkerTypes /\ EventTypes

\* The owner has uploaded the recording before, or not.
ImportInit ==
    /\ status = [s \in Sessions |-> "none"]
    /\ link = [s \in Sessions |-> 0]
    /\ choice = [s \in Sessions |-> "reject"]
    /\ messages = [s \in Sessions |-> 0]
    /\ cancel = NoRequest
    /\ meetings \in {<<>>, <<Uploaded>>}
    /\ running = [w \in Workers |-> NoSession]
    /\ pc = [w \in Workers |-> "idle"]
    /\ own = [w \in Workers |-> 0]
    /\ target = [w \in Workers |-> 0]
    /\ upsets = 0
    /\ overlapped = FALSE /\ late = {}

-----------------------------------------------------------------------------
Upset == upsets < MaxUpsets /\ upsets' = upsets + 1

(* Requests.                                                               *)

\* create_import: one transaction, whose message is sent after the commit.
Create(s, c) ==
    /\ status[s] = "none"
    /\ choice' = [choice EXCEPT ![s] = c]
    /\ \/ /\ Recorded # 0 /\ c = "reject"
          /\ status' = [status EXCEPT ![s] = "failed"]
          /\ UNCHANGED <<link, messages>>
       \/ /\ Recorded # 0 /\ c = "ignore"
          /\ link' = [link EXCEPT ![s] = Recorded]
          /\ status' = [status EXCEPT ![s] = "completed"]
          /\ UNCHANGED messages
       \/ /\ Recorded = 0 \/ c \notin {"reject", "ignore"}
          /\ status' = [status EXCEPT ![s] = "pending"]
          /\ messages' = [messages EXCEPT ![s] = @ + 1]
          /\ UNCHANGED link
    /\ UNCHANGED <<cancel, meetings, worker, upsets, history>>

\* cancel: the request reads the session ...
FindActive(s) ==
    /\ status[s] \in Active
    /\ cancel = NoRequest
    /\ Upset
    /\ cancel' = [session |-> s, link |-> link[s]]
    /\ UNCHANGED <<row, messages, meetings, worker, history>>

\* ... and stores CANCELLED, with the link it has read.
Cancel(s) ==
    /\ cancel.session = s
    /\ cancel' = NoRequest
    /\ status' = [status EXCEPT ![s] = "cancelled"]
    /\ link' = [link EXCEPT ![s] = IF cancel.link = 0 THEN @ ELSE cancel.link]
    /\ UNCHANGED <<choice, messages, meetings, worker, upsets, history>>

\* MediaImportViewSet.
Request(s) == (\E c \in DuplicateActions : Create(s, c)) \/ FindActive(s) \/ Cancel(s)

-----------------------------------------------------------------------------
(* The worker.                                                             *)

\* _set: the object's status and link go to the row, whatever the row says.
Put(w, x) ==
    /\ status' = [status EXCEPT ![running[w]] = x]
    /\ link' = [link EXCEPT ![running[w]] = IF own[w] = 0 THEN @ ELSE own[w]]

Goto(w, to) == pc' = [pc EXCEPT ![w] = to]

At(w, here) == pc[w] = here /\ UNCHANGED <<choice, cancel, upsets>>

\* The run ends and its message is acknowledged.
Done(w) ==
    /\ running' = [running EXCEPT ![w] = NoSession]
    /\ pc' = [pc EXCEPT ![w] = "idle"]
    /\ own' = [own EXCEPT ![w] = 0]
    /\ target' = [target EXCEPT ![w] = 0]

\* The session is loaded and marked as being analysed.
Load(w, s) ==
    /\ running' = [running EXCEPT ![w] = s]
    /\ own' = [own EXCEPT ![w] = link[s]]
    /\ status' = [status EXCEPT ![s] = "importing"]
    /\ Goto(w, "check")
    /\ UNCHANGED target

Ignore == UNCHANGED <<status, worker>>

\* Bug: only finished imports are left alone.
TakeCancelled(w, s) ==
    /\ At(w, "idle")
    /\ messages[s] > 0
    /\ messages' = [messages EXCEPT ![s] = @ - 1]
    /\ IF status[s] \in {"completed", "blocked"} THEN Ignore ELSE Load(w, s)
    /\ UNCHANGED <<link, meetings, history>>

\* run_import begins; a failed import is imported again.
Take(w, s) ==
    /\ At(w, "idle")
    /\ messages[s] > 0
    /\ messages' = [messages EXCEPT ![s] = @ - 1]
    /\ IF status[s] \in {"cancelled", "completed", "blocked"} THEN Ignore ELSE Load(w, s)
    /\ UNCHANGED <<link, meetings, history>>

\* The source is analysed: is it recorded on a meeting already?
CheckSource(w) ==
    /\ At(w, "check")
    /\ \/ /\ Recorded # 0 /\ choice[running[w]] = "reject"
          /\ Put(w, "failed")
          /\ Done(w)
       \/ /\ Recorded # 0 /\ choice[running[w]] = "ignore"
          /\ link' = [link EXCEPT ![running[w]] = Recorded]
          /\ status' = [status EXCEPT ![running[w]] = "completed"]
          /\ Done(w)
       \/ /\ Recorded = 0 \/ choice[running[w]] \notin {"reject", "ignore"}
          /\ Put(w, "importing")
          /\ Goto(w, "fetch")
          /\ UNCHANGED <<running, own, target>>
    /\ UNCHANGED <<messages, meetings, history>>

\* The run goes on with the meeting m, 0 for a new one.
Hand(w, to, m) ==
    /\ Put(w, "importing")
    /\ target' = [target EXCEPT ![w] = m]
    /\ Goto(w, to)
    /\ overlapped' = \/ overlapped
                     \/ /\ to = "store" /\ m = 0
                        /\ \E v \in Workers : pc[v] = "store" /\ target[v] = 0
    /\ UNCHANGED <<running, own>>

Refuse(w) == Put(w, "failed") /\ Done(w) /\ UNCHANGED overlapped

\* create_upload begins with the meeting m that has the file already.
Decide(w, m) ==
    /\ At(w, "fetch")
    /\ \/ (m = 0 \/ choice[running[w]] = "keep_both") /\ Hand(w, "store", 0)
       \/ m # 0 /\ choice[running[w]] = "replace" /\ Hand(w, "store", m)
       \/ m # 0 /\ choice[running[w]] = "ignore" /\ Hand(w, "stamp", m)
       \/ m # 0 /\ choice[running[w]] = "reject" /\ Refuse(w)
    /\ UNCHANGED <<messages, meetings, late>>

\* Bug: create_upload asks whether the source is recorded, not for the file.
CheckFileBySource(w) == Decide(w, Recorded)

\* Downloaded, and create_upload begins: does the owner have this file?
CheckFile(w) == \E m \in Stored : Decide(w, m)

\* create_upload commits a new meeting, or a new version of one, and its job.
Store(w) ==
    /\ At(w, "store")
    /\ IF target[w] = 0
       THEN /\ Len(meetings) < MaxMeetings
            /\ meetings' = Append(meetings, NewMeeting)
            /\ target' = [target EXCEPT ![w] = Len(meetings')]
       ELSE /\ meetings' = [meetings EXCEPT ![target[w]].active = TRUE]
            /\ UNCHANGED target
    /\ Goto(w, "stamp")
    /\ UNCHANGED <<status, link, messages, running, own, history>>

\* The source is recorded on the meeting ...
Stamp(w) ==
    /\ At(w, "stamp")
    /\ meetings' = [meetings EXCEPT ![target[w]].recorded = TRUE]
    /\ Goto(w, "link")
    /\ UNCHANGED <<status, link, messages, running, own, target, history>>

\* ... and the session is linked to it and waits for the end of its job.
Link(w) ==
    /\ At(w, "link")
    /\ status' = [status EXCEPT ![running[w]] = "processing"]
    /\ link' = [link EXCEPT ![running[w]] = target[w]]
    /\ Done(w)
    /\ late' = late \cup (IF meetings[target[w]].active THEN {} ELSE {running[w]})
    /\ UNCHANGED <<messages, meetings, overlapped>>

\* The provider, create_upload or anything else raises.
Fail(w) ==
    /\ \E here \in {"check", "fetch", "store", "stamp", "link"} : At(w, here)
    /\ \/ Put(w, "failed")
       \/ pc[w] \in {"check", "fetch"} /\ Put(w, "blocked")
    /\ Done(w)
    /\ UNCHANGED <<messages, meetings, history>>

RunStep(w) == CheckSource(w) \/ CheckFile(w) \/ Store(w) \/ Stamp(w) \/ Link(w) \/ Fail(w)

-----------------------------------------------------------------------------
(* The processing job of a meeting, and the broker.                        *)

Waiting(m) == {s \in Sessions : link[s] = m /\ status[s] = "processing"}

Settle(m, x) == status' = [s \in Sessions |-> IF s \in Waiting(m) THEN x ELSE status[s]]

EndActive(m, end) ==
    /\ meetings[m].active
    /\ meetings' = [meetings EXCEPT ![m].active = FALSE,
                                    ![m].processed = @ \/ end = "completed"]

\* Bug: whatever the end of the job, unless it failed, completes the import.
EndJobCompletes(m, end) ==
    /\ EndActive(m, end)
    /\ Settle(m, IF end = "failed" THEN "failed" ELSE "completed")
    /\ UNCHANGED <<link, choice, messages, cancel, worker, upsets, history>>

\* The job's event settles the sessions that wait for it; nobody subscribes to
\* its cancellation on their behalf.
EndJob(m, end) ==
    /\ EndActive(m, end)
    /\ IF end = "canceled"
       THEN late' = late \cup Waiting(m) /\ UNCHANGED status
       ELSE Settle(m, end) /\ UNCHANGED late
    /\ UNCHANGED <<link, choice, messages, cancel, worker, upsets, overlapped>>

\* Bug: the message was acknowledged when it was taken.
LoseAcknowledged(w) ==
    /\ Upset
    /\ running[w] # NoSession
    /\ Done(w)
    /\ UNCHANGED <<row, messages, cancel, meetings, history>>

\* A worker is lost and its message returns to the queue.
Lose(w) ==
    /\ Upset
    /\ running[w] # NoSession
    /\ messages' = [messages EXCEPT ![running[w]] = @ + 1]
    /\ Done(w)
    /\ UNCHANGED <<row, cancel, meetings, history>>

\* A message is delivered again while its import still runs.
Repeat(w) ==
    /\ Upset
    /\ running[w] # NoSession
    /\ messages' = [messages EXCEPT ![running[w]] = @ + 1]
    /\ UNCHANGED <<row, cancel, meetings, worker, history>>

Ends == {"completed", "failed", "canceled"}

ImportNext ==
    \/ \E s \in Sessions :
        \/ Request(s)
        \/ \E w \in Workers : Take(w, s)
    \/ \E w \in Workers : RunStep(w) \/ Lose(w) \/ Repeat(w)
    \/ \E m \in DOMAIN meetings, end \in Ends : EndJob(m, end)

ImportSpec == ImportInit /\ [][ImportNext]_importVars

\* Workers take messages and go on with what they run; jobs end (EveryRunEnds
\* of JobEngine).  Nothing is assumed of requests.
Work(w) == RunStep(w) \/ \E s \in Sessions : Take(w, s)
JobEnd  == \E m \in DOMAIN meetings, end \in Ends : EndJob(m, end)

ImportFairness == (\A w \in Workers : WF_importVars(Work(w))) /\ WF_importVars(JobEnd)

ImportFairSpec == ImportSpec /\ ImportFairness

-----------------------------------------------------------------------------
\* A cancelled import stays cancelled unless a run of it was in progress: then
\* the run's next _set overwrites CANCELLED and the import goes on.
CancelHolds ==
    [][\A s \in Sessions :
        status[s] = "cancelled" /\ (\A w \in Workers : running[w] # s)
            => status'[s] = "cancelled"]_importVars

\* Unless asked to keep both, importing a source again never makes a second
\* meeting of it, however often imports are repeated, lost or run side by
\* side, as long as no two look for the file before either has stored it
\* (create_upload holds no lock for the owner).
OneMeetingPerSource ==
    (\A s \in Sessions : choice[s] # "keep_both") /\ ~overlapped => Len(meetings) <= 1

\* A completed import is linked to a meeting that has been processed; only one
\* that was told to skip duplicates may be linked to a meeting in progress.
CompletedIsProcessed ==
    \A s \in Sessions : status[s] = "completed" =>
        /\ link[s] # 0
        /\ meetings[link[s]].processed \/ choice[s] = "ignore"

\* Requests, lost workers and repeated deliveries come to an end; then every
\* import settles for good, unless its job had ended before PROCESSING was stored
\* or was canceled: the event that would settle the session is then missed.
ImportSettles ==
    <>[](\A s \in Sessions : status[s] \in Active => s \in late)
=============================================================================
