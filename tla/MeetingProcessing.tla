------------------------- MODULE MeetingProcessing -------------------------
(***************************************************************************)
(* The jobs of one meeting: what requests do to queue, supersede, cancel   *)
(* and retry them, what their runs store, and what the subscribers of the  *)
(* job events make of the meeting's processing_status.                     *)
(*                                                                         *)
(* A job is what JobLifecycle says it is: claimed once per queuing, then   *)
(* run by one worker.  Stages are drawn together where nothing another     *)
(* actor does can tell them apart; broker faults, pausing and re-queuing   *)
(* are in JobEngine, the data within a run in MeetingPipeline.             *)
(***************************************************************************)
EXTENDS Naturals, FiniteSets

CONSTANTS
    Jobs,       \* the jobs that may be created for the meeting
    NoJob,      \* none of them
    Workers,    \* worker processes
    Operators,  \* clients of the jobs API
    MaxFiles,   \* bound on the versions of the recording
    MaxRequests \* bound on the requests of the jobs API

ASSUME JobsAssumption == Jobs # {}
ASSUME NoJobAssumption == NoJob \notin Jobs
ASSUME MaxFilesAssumption == MaxFiles \in Nat \ {0}
ASSUME MaxRequestsAssumption == MaxRequests \in Nat

VARIABLES
    jstatus,    \* per job: its status, "none" before it is created
    kind,       \* per job: which pipeline it runs
    mstatus,    \* the meeting's processing_status
    file,       \* the version of the meeting's current file
    transcript, \* the meeting's transcript: the job that made it, of which file
    analysis,   \* the transcript the current AI analysis is of
    job,        \* per worker: the job it is running
    pc,         \* per worker: where that run stands
    read,       \* per worker: the recording, then the transcript, it works on
    superseding,\* a superseding request is under way ...
    seen,       \* ... and has read these jobs as active
    asked,      \* per operator: the job a request has read, and its status then
    requests,   \* the number of such requests so far
    happened    \* what operators have done so far (history)

run      == <<job, pc, read>>
rows     == <<jstatus, kind, mstatus>>
contents == <<file, transcript, analysis>>
controls == <<asked, requests>>
request  == <<superseding, seen, controls>>
vars     == <<rows, contents, run, request, happened>>

Kinds    == {"meeting_processing", "ai_summarization"}
Terminal == {"succeeded", "failed", "canceled"}
Active   == {"queued", "running", "cancellation_requested"}

Cancelable == {"queued", "running"}
Retryable  == {"failed", "canceled"}

ActiveProcessing == {"queued", "running"}

Outcomes == {"completed", "failed", "canceled"}

Nothing     == [job |-> NoJob, file |-> 0]
Transcripts == [job : Jobs \cup {NoJob}, file : 0..MaxFiles]

NotAsked == [job |-> NoJob, status |-> "none"]
Asked    == [job : Jobs, status : Cancelable \cup Retryable] \cup {NotAsked}

Working == {"transcribe", "analyse", "store", "finish"}

ActiveJobs == {j \in Jobs : jstatus[j] \in Active}
Executing  == {job[w] : w \in Workers} \ {NoJob}
Fresh      == {j \in Jobs : jstatus[j] = "none"}

\* The first job, and the next; which it is does not matter.
FirstJob == CHOOSE j \in Jobs : TRUE
NewJob   == CHOOSE j \in Fresh : TRUE

RowTypes ==
    /\ jstatus \in [Jobs -> Active \cup Terminal \cup {"none"}]
    /\ kind \in [Jobs -> Kinds]
    /\ mstatus \in ActiveProcessing \cup Outcomes \cup {"pending"}

ContentTypes ==
    /\ file \in 1..MaxFiles
    /\ transcript \in Transcripts
    /\ analysis \in Transcripts

RunTypes ==
    /\ job \in [Workers -> Jobs \cup {NoJob}]
    /\ pc \in [Workers -> {"idle", "claimed"} \cup Working \cup Outcomes]
    /\ read \in [Workers -> Transcripts]

RequestTypes ==
    /\ superseding \in BOOLEAN
    /\ seen \subseteq Jobs
    /\ asked \in [Operators -> Asked]
    /\ requests \in 0..MaxRequests
    /\ happened \subseteq {"overlapped", "retried", "dropped", "late"}

TypeOK == RowTypes /\ ContentTypes /\ RunTypes /\ RequestTypes

\* A meeting just uploaded and queued, or one whose earlier jobs have ended
\* and left a transcript and its analysis.
Init ==
    /\ \/ /\ jstatus = [j \in Jobs |-> IF j = FirstJob THEN "queued" ELSE "none"]
          /\ mstatus = "queued"
          /\ transcript = Nothing
       \/ /\ jstatus = [j \in Jobs |-> "none"]
          /\ mstatus = "completed"
          /\ transcript = [job |-> NoJob, file |-> 1]
    /\ kind = [j \in Jobs |-> "meeting_processing"]
    /\ file = 1
    /\ analysis = transcript
    /\ job = [w \in Workers |-> NoJob]
    /\ pc = [w \in Workers |-> "idle"]
    /\ read = [w \in Workers |-> Nothing]
    /\ superseding = FALSE
    /\ seen = {}
    /\ asked = [o \in Operators |-> NotAsked]
    /\ requests = 0
    /\ happened = {}

-----------------------------------------------------------------------------
(* Requests.  Each is one transaction; the row of the meeting is locked    *)
(* while a job is created for it.                                          *)

\* For the properties: was a run still in progress, or still to publish its end?
NoteOverlap ==
    happened' = happened \cup (IF Executing = {} THEN {} ELSE {"overlapped"})

\* A job of pipeline k is queued beside what statuses says of the others.
Creates(statuses, k) ==
    /\ Fresh # {}
    /\ jstatus' = [statuses EXCEPT ![NewJob] = "queued"]
    /\ kind' = [kind EXCEPT ![NewJob] = k]

\* Bug: only the meeting's status is asked.
ReprocessByStatus ==
    /\ mstatus \notin ActiveProcessing
    /\ Creates(jstatus, "meeting_processing")
    /\ mstatus' = "queued"
    /\ NoteOverlap
    /\ UNCHANGED <<contents, run, request>>

\* reprocess: enqueue_meeting_processing and its lock.
Reprocess ==
    /\ mstatus \notin ActiveProcessing
    /\ ActiveJobs = {}
    /\ Creates(jstatus, "meeting_processing")
    /\ mstatus' = "queued"
    /\ NoteOverlap
    /\ UNCHANGED <<contents, run, request>>

\* Bug: the summary is queued without asking for active jobs.
RegenerateUnlocked ==
    /\ Creates(jstatus, "ai_summarization")
    /\ NoteOverlap
    /\ UNCHANGED <<mstatus, contents, run, request>>

\* ai/regenerate: the meeting's status is neither asked nor set.
Regenerate ==
    /\ ActiveJobs = {}
    /\ Creates(jstatus, "ai_summarization")
    /\ NoteOverlap
    /\ UNCHANGED <<mstatus, contents, run, request>>

\* A superseding request reads the active jobs ...  (Bound: only while there is
\* a job left for it to create.)
ReadActive ==
    /\ ~ superseding
    /\ Fresh # {}
    /\ superseding' = TRUE
    /\ seen' = ActiveJobs
    /\ UNCHANGED <<rows, contents, run, controls, happened>>

\* ... and writes CANCELED on what it read, whatever they are by now.
Superseded == [j \in Jobs |-> IF j \in seen THEN "canceled" ELSE jstatus[j]]

Supersede ==
    /\ superseding
    /\ superseding' = FALSE
    /\ seen' = {}
    /\ NoteOverlap
    /\ UNCHANGED controls

\* The job and the QUEUED that follow; refused if another job is active.
Requeues ==
    /\ ActiveJobs \subseteq seen
    /\ Creates(Superseded, "meeting_processing")
    /\ mstatus' = "queued"

Retranscribe ==
    /\ Supersede
    /\ Requeues
    /\ UNCHANGED <<contents, run>>

\* The view turns the refusal into a 409, so what is superseded stays so.
RetranscribeRefused ==
    /\ Supersede
    /\ ~ (ActiveJobs \subseteq seen)
    /\ jstatus' = Superseded
    /\ mstatus' = "pending"
    /\ UNCHANGED <<kind, contents, run>>

\* create_upload with REPLACE: the same, with a new version of the file.
Replace ==
    /\ Supersede
    /\ file < MaxFiles
    /\ Requeues
    /\ file' = file + 1
    /\ UNCHANGED <<transcript, analysis, run>>

\* create_upload is atomic: refused or failed, it changes nothing.
RollBack ==
    /\ superseding
    /\ superseding' = FALSE
    /\ seen' = {}
    /\ UNCHANGED <<rows, contents, run, controls, happened>>

\* A request of the jobs API reads the job without a lock ...
ReadJob(o) ==
    /\ asked[o] = NotAsked
    /\ \E j \in Jobs :
        /\ jstatus[j] \in Cancelable \cup Retryable
        /\ asked' = [asked EXCEPT ![o] = [job |-> j, status |-> jstatus[j]]]
    /\ requests < MaxRequests
    /\ requests' = requests + 1
    /\ UNCHANGED <<rows, contents, run, superseding, seen, happened>>

\* ... and writes what that status calls for, whatever the row says by now.
Writes(o, status) ==
    /\ jstatus' = [jstatus EXCEPT ![asked[o].job] = status]
    /\ asked' = [asked EXCEPT ![o] = NotAsked]
    /\ UNCHANGED <<kind, mstatus, contents, run, superseding, seen, requests>>

\* For the properties: a queued job is dropped, or a job that is no longer
\* under way is asked to stop.
NoteCancel(o) ==
    LET found == jstatus[asked[o].job] IN
    happened' = happened
        \cup (IF found = "queued" THEN {"dropped"} ELSE {})
        \cup (IF asked[o].status = "running" /\ found \notin {"running", "cancellation_requested"}
              THEN {"late"} ELSE {})

\* A queued job is cancelled at once, a running one by a request.  Neither
\* touches the meeting.
Cancel(o) ==
    /\ asked[o].status \in Cancelable
    /\ Writes(o, IF asked[o].status = "queued" THEN "canceled" ELSE "cancellation_requested")
    /\ NoteCancel(o)

\* A retry does not ask for the meeting's other jobs.
Retry(o) ==
    /\ asked[o].status \in Retryable
    /\ Writes(o, "queued")
    /\ happened' = happened \cup {"retried"}

Request ==
    \/ Reprocess \/ Regenerate
    \/ ReadActive \/ Retranscribe \/ RetranscribeRefused \/ Replace \/ RollBack
    \/ \E o \in Operators : ReadJob(o) \/ Cancel(o) \/ Retry(o)

-----------------------------------------------------------------------------
(* Runs.                                                                   *)

\* An idle worker; which does not matter.
IdleWorker == CHOOSE w \in Workers : pc[w] = "idle"

Claim(w) ==
    /\ pc[w] = "idle"
    /\ w = IdleWorker
    /\ \E j \in Jobs :
        /\ jstatus[j] = "queued"
        /\ jstatus' = [jstatus EXCEPT ![j] = "running"]
        /\ job' = [job EXCEPT ![w] = j]
    /\ pc' = [pc EXCEPT ![w] = "claimed"]
    /\ UNCHANGED <<kind, mstatus, contents, read, request, happened>>

\* JOB_STARTED; the first stage then reads and keeps the current file.
Start(w) ==
    /\ pc[w] = "claimed"
    /\ mstatus' = "running"
    /\ \/ /\ kind[job[w]] = "meeting_processing"
          /\ pc' = [pc EXCEPT ![w] = "transcribe"]
          /\ read' = [read EXCEPT ![w] = [job |-> job[w], file |-> file]]
       \/ /\ kind[job[w]] = "ai_summarization"
          /\ pc' = [pc EXCEPT ![w] = "analyse"]
          /\ UNCHANGED read
    /\ UNCHANGED <<jstatus, kind, contents, job, request, happened>>

\* The stages up to store_transcript.
StoreTranscript(w) ==
    /\ pc[w] = "transcribe"
    /\ transcript' = read[w]
    /\ read' = [read EXCEPT ![w] = Nothing]
    /\ pc' = [pc EXCEPT ![w] = "analyse"]
    /\ UNCHANGED <<rows, file, analysis, job, request, happened>>

\* ai_analysis reads the transcript there is ...
Analyse(w) ==
    /\ pc[w] = "analyse"
    /\ transcript # Nothing
    /\ read' = [read EXCEPT ![w] = transcript]
    /\ pc' = [pc EXCEPT ![w] = "store"]
    /\ UNCHANGED <<rows, contents, job, request, happened>>

\* ... and store_ai_results makes what came of it the current analysis.
StoreAIResults(w) ==
    /\ pc[w] = "store"
    /\ analysis' = read[w]
    /\ read' = [read EXCEPT ![w] = Nothing]
    /\ pc' = [pc EXCEPT ![w] = "finish"]
    /\ UNCHANGED <<rows, file, transcript, job, request, happened>>

\* The row gets its final status; the event is still to be published.
EndRun(w, status, outcome) ==
    /\ jstatus' = [jstatus EXCEPT ![job[w]] = status]
    /\ pc' = [pc EXCEPT ![w] = outcome]
    /\ read' = [read EXCEPT ![w] = Nothing]
    /\ UNCHANGED <<kind, mstatus, contents, job, request, happened>>

Succeed(w) ==
    /\ pc[w] = "finish"
    /\ EndRun(w, "succeeded", "completed")

Fail(w) ==
    /\ pc[w] \in Working
    /\ EndRun(w, "failed", "failed")

\* Between stages: only CANCELLATION_REQUESTED stops a run, CANCELED does not.
SeeCancellation(w) ==
    /\ pc[w] \in Working
    /\ jstatus[job[w]] = "cancellation_requested"
    /\ EndRun(w, "canceled", "canceled")

\* Bug: a cancelled run says nothing to the meeting.
PublishEndings(w) ==
    /\ pc[w] \in Outcomes
    /\ mstatus' = IF pc[w] = "canceled" THEN mstatus ELSE pc[w]
    /\ job' = [job EXCEPT ![w] = NoJob]
    /\ pc' = [pc EXCEPT ![w] = "idle"]
    /\ UNCHANGED <<jstatus, kind, contents, read, request, happened>>

\* JOB_COMPLETED, JOB_FAILED, JOB_CANCELLED and their subscribers.
Publish(w) ==
    /\ pc[w] \in Outcomes
    /\ mstatus' = pc[w]
    /\ job' = [job EXCEPT ![w] = NoJob]
    /\ pc' = [pc EXCEPT ![w] = "idle"]
    /\ UNCHANGED <<jstatus, kind, contents, read, request, happened>>

RunStep(w) ==
    \/ Start(w) \/ StoreTranscript(w) \/ Analyse(w) \/ StoreAIResults(w)
    \/ Succeed(w) \/ Fail(w) \/ SeeCancellation(w) \/ Publish(w)

Next == Request \/ \E w \in Workers : Claim(w) \/ RunStep(w)

Spec == Init /\ [][Next]_vars

\* Workers go on with their runs and take up queued jobs.
Fairness ==
    \A w \in Workers : WF_vars(RunStep(w)) /\ WF_vars(Claim(w))

FairSpec == Spec /\ Fairness

-----------------------------------------------------------------------------

Quiet == ActiveJobs = {} /\ Executing = {}

\* The processing lock: no matter how requests, cancellations and runs of a
\* superseded job interleave, at most one job of the meeting is queued or
\* running, unless an operator has put one back through the jobs API, which does
\* not ask; and at most one is active, unless a cancellation that had read
\* RUNNING has come after the end of its job, which then says
\* CANCELLATION_REQUESTED with nobody to obey it.
OneActiveJob ==
    "retried" \notin happened =>
        /\ \A i, j \in Jobs : jstatus[i] \in Cancelable /\ jstatus[j] \in Cancelable => i = j
        /\ "late" \notin happened => \A i, j \in ActiveJobs : i = j

\* "Processing states that mean 'a run is in flight'": while the meeting says
\* QUEUED or RUNNING (and reprocess is refused), a job is there to be claimed or
\* a run is still to publish its end; a row that says RUNNING settles nothing by
\* itself.  Cancelling a queued job breaks this: it has no event, and no run to
\* publish one.
InFlight ==
    mstatus \in ActiveProcessing /\ "dropped" \notin happened
        => (\E j \in Jobs : jstatus[j] = "queued") \/ Executing # {}

\* Unless runs were made to overlap, a processing run that completes leaves its
\* own transcript, of the recording that is current, and its own analysis.
CompletedRunIsShown ==
    \A w \in Workers :
        /\ pc[w] = "completed"
        /\ kind[job[w]] = "meeting_processing"
        /\ happened \cap {"overlapped", "retried"} = {}
        => /\ transcript = [job |-> job[w], file |-> file]
           /\ analysis = transcript

\* A meeting does not stay QUEUED or RUNNING.
MeetingSettles ==
    mstatus \in ActiveProcessing
        ~> mstatus \notin ActiveProcessing \/ "dropped" \in happened

\* "A replacement version supersedes any in-flight run for the old recording":
\* if it does, then with every job at its end, and successful, the meeting shows
\* the transcript of its current recording.
SupersededRunsAreHarmless ==
    /\ Quiet
    /\ mstatus = "completed"
    /\ "retried" \notin happened
    /\ \A j \in Jobs : /\ jstatus[j] = "succeeded"
                      /\ kind[j] = "meeting_processing"
    => transcript.file = file
=============================================================================
