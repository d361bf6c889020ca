---------------------- MODULE MeetingProcessingProofs ----------------------
(***************************************************************************)
(* Proofs about MeetingProcessing, for any sets of jobs and workers.       *)
(*                                                                         *)
(* OneActiveJob and InFlight are inductive together with the types and     *)
(* with Busy: a worker that is not idle is in the run of some job.  Every  *)
(* operation that creates a job finds no active one, or has just cancelled *)
(* all there are; a claim takes the queued job there is into a run, and a  *)
(* run takes the meeting out of QUEUED and RUNNING when it publishes its   *)
(* end.                                                                    *)
(*                                                                         *)
(* CompletedRunIsShown needs that runs which nobody made overlap come one  *)
(* at a time (ShownInv), although a cancellation that comes late may leave *)
(* the row of any job saying anything but QUEUED.                          *)
(***************************************************************************)
EXTENDS MeetingProcessing, TLAPS

\* A worker at work is in the run of a job.
Busy == \A w \in Workers : pc[w] # "idle" => job[w] \in Jobs

\* The inductive invariant of OneActiveJob and InFlight.
Inv == TypeOK /\ Busy /\ OneActiveJob /\ InFlight

USE JobsAssumption, NoJobAssumption, MaxFilesAssumption, MaxRequestsAssumption

\* What is chosen is there.
LEMMA Chosen == FirstJob \in Jobs /\ (Fresh # {} => NewJob \in Fresh)
BY DEF FirstJob, NewJob

\* The meeting is as the upload left it.
LEMMA TypeInit == Init => TypeOK /\ Busy
<1> SUFFICES ASSUME Init PROVE TypeOK /\ Busy
    OBVIOUS
<1>1. RowTypes
    BY DEF Init, RowTypes, Active, Kinds, ActiveProcessing, Outcomes
<1>2. Nothing \in Transcripts /\ [job |-> NoJob, file |-> 1] \in Transcripts
    BY DEF Transcripts, Nothing
<1>3. ContentTypes
    BY <1>2 DEF Init, ContentTypes
<1>4. RunTypes /\ Busy
    BY <1>2 DEF Init, RunTypes, Busy
<1>5. RequestTypes
    <2>1. NotAsked \in Asked
        BY DEF Asked
    <2>2. asked \in [Operators -> Asked]
        BY <2>1 DEF Init
    <2>3. superseding \in BOOLEAN
        BY DEF Init
    <2>4. requests \in 0..MaxRequests
        BY DEF Init
    <2>5. seen = {} /\ happened = {}
        BY DEF Init
    <2> QED
        BY <2>2, <2>3, <2>4, <2>5 DEF RequestTypes
<1> QED
    BY <1>1, <1>3, <1>4, <1>5 DEF TypeOK

\* A request changes no run, and leaves everything well typed.
LEMMA TypeRequest ==
    ASSUME TypeOK, Busy, Request
    PROVE  TypeOK' /\ Busy'
<1> USE DEF TypeOK
<1>1. RunTypes' /\ Busy'
    <2>1. UNCHANGED run
        BY DEF Request, Reprocess, Regenerate, ReadActive, Retranscribe,
               RetranscribeRefused, Replace, RollBack, ReadJob, Cancel, Retry, Writes
    <2> QED
        BY <2>1 DEF RunTypes, Busy, run
<1>2. ContentTypes'
    <2>1. CASE Replace
        BY <2>1 DEF Replace, ContentTypes
    <2>2. CASE ~ Replace
        <3>1. UNCHANGED contents
            BY <2>2 DEF Request, Reprocess, Regenerate, ReadActive, Retranscribe,
                        RetranscribeRefused, RollBack, ReadJob, Cancel, Retry, Writes
        <3> QED
            BY <3>1 DEF ContentTypes, contents
    <2> QED
        BY <2>1, <2>2
<1>3. RequestTypes'
    <2>1. CASE Reprocess \/ Regenerate
        BY <2>1 DEF Reprocess, Regenerate, NoteOverlap, RequestTypes, request, controls
    <2>2. CASE ReadActive \/ RollBack
        BY <2>2 DEF ReadActive, RollBack, ActiveJobs, RequestTypes, controls
    <2>3. CASE Retranscribe \/ RetranscribeRefused \/ Replace
        BY <2>3 DEF Retranscribe, RetranscribeRefused, Replace, Supersede,
                    NoteOverlap, RequestTypes, controls
    <2>4. ASSUME NEW o \in Operators, ReadJob(o) PROVE RequestTypes'
        <3>1. PICK j \in Jobs : /\ jstatus[j] \in Cancelable \cup Retryable
                               /\ asked' = [asked EXCEPT ![o] = [job |-> j, status |-> jstatus[j]]]
            BY <2>4 DEF ReadJob
        <3>2. [job |-> j, status |-> jstatus[j]] \in Asked
            BY <3>1 DEF Asked
        <3> QED
            BY <2>4, <3>1, <3>2 DEF ReadJob, RequestTypes
    <2>5. ASSUME NEW o \in Operators, Cancel(o) \/ Retry(o) PROVE RequestTypes'
        <3>1. asked' \in [Operators -> Asked]
            BY <2>5 DEF Cancel, Retry, Writes, RequestTypes, Asked
        <3>2. happened' \subseteq {"overlapped", "retried", "dropped", "late"}
            BY <2>5 DEF Cancel, Retry, NoteCancel, RequestTypes
        <3> QED
            BY <2>5, <3>1, <3>2 DEF Cancel, Retry, Writes, RequestTypes
    <2> QED
        BY <2>1, <2>2, <2>3, <2>4, <2>5 DEF Request
<1>4. RowTypes'
    <2> USE DEF RowTypes, Active, Terminal, ActiveProcessing, Kinds
    <2>1. CASE Reprocess \/ Regenerate
        BY <2>1, Chosen DEF Reprocess, Regenerate, Creates, Fresh
    <2>2. CASE ReadActive \/ RollBack
        BY <2>2 DEF ReadActive, RollBack, rows
    <2>3. CASE Retranscribe \/ Replace
        BY <2>3, Chosen DEF Retranscribe, Replace, Requeues, Creates, Superseded, Fresh
    <2>4. CASE RetranscribeRefused
        BY <2>4 DEF RetranscribeRefused, Superseded
    <2>5. ASSUME NEW o \in Operators, ReadJob(o) \/ Cancel(o) \/ Retry(o) PROVE RowTypes'
        BY <2>5 DEF ReadJob, Cancel, Retry, Writes, rows
    <2> QED
        BY <2>1, <2>2, <2>3, <2>4, <2>5 DEF Request
<1> QED
    BY <1>1, <1>2, <1>3, <1>4

\* The same for the steps of a run.
LEMMA TypeRun ==
    ASSUME TypeOK, Busy, NEW w \in Workers, Claim(w) \/ RunStep(w)
    PROVE  TypeOK' /\ Busy'
<1> USE DEF TypeOK
<1>1. RequestTypes'
    BY DEF Claim, RunStep, Start, StoreTranscript, Analyse, StoreAIResults,
           Succeed, Fail, SeeCancellation, EndRun, Publish, RequestTypes, request,
           controls, Asked, NotAsked, Cancelable, Retryable
<1>2. ContentTypes'
    BY DEF Claim, RunStep, Start, StoreTranscript, Analyse, StoreAIResults,
           Succeed, Fail, SeeCancellation, EndRun, Publish, ContentTypes, RunTypes,
           contents
<1>3. CASE Claim(w)
    BY <1>1, <1>2, <1>3 DEF Claim, RowTypes, RunTypes, Busy, Active
<1>4. CASE Start(w)
    <2>1. job[w] \in Jobs
        BY <1>4 DEF Start, Busy
    <2>2. [job |-> job[w], file |-> file] \in Transcripts
        BY <2>1 DEF ContentTypes, Transcripts
    <2>3. RunTypes' /\ Busy'
        BY <1>4, <2>1, <2>2 DEF Start, RunTypes, Busy, Working
    <2>4. RowTypes'
        BY <1>4 DEF Start, RowTypes, ActiveProcessing
    <2> QED
        BY <1>1, <1>2, <2>3, <2>4
<1>5. CASE StoreTranscript(w) \/ Analyse(w) \/ StoreAIResults(w)
    <2>1. RowTypes'
        BY <1>5 DEF StoreTranscript, Analyse, StoreAIResults, RowTypes, rows
    <2>2. RunTypes' /\ Busy'
        <3>1. Nothing \in Transcripts
            BY DEF Nothing, Transcripts
        <3>2. \E s \in Working, r \in Transcripts : pc' = [pc EXCEPT ![w] = s] /\ read' = [read EXCEPT ![w] = r]
            BY <1>5, <3>1 DEF StoreTranscript, Analyse, StoreAIResults, Working, ContentTypes
        <3>3. job' = job /\ pc[w] # "idle"
            BY <1>5 DEF StoreTranscript, Analyse, StoreAIResults
        <3> QED
            BY <3>2, <3>3 DEF RunTypes, Busy
    <2> QED
        BY <1>1, <1>2, <2>1, <2>2
<1>6. CASE Succeed(w) \/ Fail(w) \/ SeeCancellation(w)
    <2>1. PICK s \in Terminal, o \in Outcomes : EndRun(w, s, o)
        BY <1>6 DEF Succeed, Fail, SeeCancellation, Terminal, Outcomes
    <2>2. pc[w] \in Working /\ job[w] \in Jobs
        BY <1>6 DEF Busy, Succeed, Fail, SeeCancellation, Working
    <2>3. Nothing \in Transcripts
        BY DEF Nothing, Transcripts
    <2>4. RowTypes'
        BY <2>1, <2>2 DEF EndRun, RowTypes
    <2>5. RunTypes' /\ Busy'
        BY <2>1, <2>2, <2>3 DEF EndRun, RunTypes, Busy
    <2> QED
        BY <1>1, <1>2, <2>4, <2>5
<1>7. CASE Publish(w)
    BY <1>1, <1>2, <1>7 DEF Publish, RowTypes, RunTypes, Busy
<1> QED
    BY <1>3, <1>4, <1>5, <1>6, <1>7 DEF RunStep

\* A request that creates a job leaves it the only active one; one that cancels
\* or retries says in the history what it has done.
LEMMA RequestKeeps ==
    ASSUME Inv, Request
    PROVE  OneActiveJob' /\ InFlight'
<1> USE DEF Inv, TypeOK, RowTypes, RequestTypes, OneActiveJob, InFlight,
            ActiveJobs, Active, Cancelable, ActiveProcessing, Executing
<1>1. CASE Reprocess \/ Regenerate
    <2>1. NewJob \in Jobs /\ jstatus' = [jstatus EXCEPT ![NewJob] = "queued"]
        BY <1>1, Chosen DEF Reprocess, Regenerate, Creates, Fresh
    <2>2. \A j \in Jobs : j # NewJob => jstatus'[j] \notin Active
        BY <1>1, <2>1 DEF Reprocess, Regenerate
    <2> QED
        BY <2>1, <2>2
<1>2. CASE ReadActive \/ RollBack
    BY <1>2 DEF ReadActive, RollBack, rows, contents, run
<1>3. CASE Retranscribe \/ Replace
    <2>1. NewJob \in Jobs /\ jstatus' = [Superseded EXCEPT ![NewJob] = "queued"]
        BY <1>3, Chosen DEF Retranscribe, Replace, Requeues, Creates, Fresh
    <2>2. \A j \in Jobs : j # NewJob => jstatus'[j] \notin Active
        BY <1>3, <2>1 DEF Superseded, Retranscribe, Replace, Requeues
    <2> QED
        BY <2>1, <2>2 DEF Superseded
<1>4. CASE RetranscribeRefused
    BY <1>4 DEF RetranscribeRefused, Supersede, Superseded, NoteOverlap
<1>5. ASSUME NEW o \in Operators, ReadJob(o) PROVE OneActiveJob' /\ InFlight'
    BY <1>5 DEF ReadJob, rows, contents, run
<1>6. ASSUME NEW o \in Operators, Cancel(o) PROVE OneActiveJob' /\ InFlight'
    <2> DEFINE c == asked[o].job
    <2>1. c \in Jobs
        BY <1>6 DEF Cancel, Asked, NotAsked
    <2>2. UNCHANGED <<mstatus, job>> /\ happened \subseteq happened'
        BY <1>6 DEF Cancel, Writes, NoteCancel, run
    <2>3. PICK s \in {"canceled", "cancellation_requested"} :
              /\ jstatus' = [jstatus EXCEPT ![c] = s]
              /\ s = "cancellation_requested" => asked[o].status = "running"
        BY <1>6 DEF Cancel, Writes
    <2>4. \A j \in Jobs : jstatus'[j] \in {"queued", "running"} => jstatus[j] = jstatus'[j]
        BY <2>1, <2>3
    <2>5. ASSUME "late" \notin happened' PROVE ActiveJobs' \subseteq ActiveJobs
        <3>1. asked[o].status = "running" => c \in ActiveJobs
            BY <1>6, <2>1, <2>5 DEF Cancel, NoteCancel
        <3> QED
            BY <2>1, <2>3, <3>1
    <2>6. OneActiveJob'
        BY <2>2, <2>4, <2>5
    <2>7. InFlight'
        <3>1. jstatus[c] = "queued" => "dropped" \in happened'
            BY <1>6 DEF Cancel, NoteCancel
        <3>2. \A j \in Jobs : j # c => jstatus'[j] = jstatus[j]
            BY <2>3
        <3> QED
            BY <2>2, <3>1, <3>2
    <2> QED
        BY <2>6, <2>7
<1>7. ASSUME NEW o \in Operators, Retry(o) PROVE OneActiveJob' /\ InFlight'
    <2>1. asked[o].job \in Jobs /\ jstatus' = [jstatus EXCEPT ![asked[o].job] = "queued"]
        BY <1>7 DEF Retry, Writes, Asked, NotAsked, Retryable
    <2>2. UNCHANGED <<mstatus, job>> /\ happened' = happened \cup {"retried"}
        BY <1>7 DEF Retry, Writes, run
    <2> QED
        BY <2>1, <2>2
<1> QED
    BY <1>1, <1>2, <1>3, <1>4, <1>5, <1>6, <1>7 DEF Request

\* A run changes the status of its own job only, and says so when it ends.
LEMMA RunKeeps ==
    ASSUME Inv, NEW w \in Workers, Claim(w) \/ RunStep(w)
    PROVE  OneActiveJob' /\ InFlight'
<1> USE DEF Inv, TypeOK, RowTypes, RunTypes, Busy, OneActiveJob, InFlight,
            ActiveJobs, Active, Cancelable, ActiveProcessing, Executing
<1>1. CASE Claim(w)
    <2>1. PICK j \in Jobs : /\ jstatus[j] = "queued"
                           /\ jstatus' = [jstatus EXCEPT ![j] = "running"]
                           /\ job' = [job EXCEPT ![w] = j]
        BY <1>1 DEF Claim
    <2>2. UNCHANGED happened
        BY <1>1 DEF Claim
    <2>3. InFlight'
        BY <2>1
    <2> QED
        BY <2>1, <2>2, <2>3
<1>2. CASE Start(w)
    <2>1. job'[w] \in Jobs
        BY <1>2 DEF Start
    <2> QED
        BY <1>2, <2>1 DEF Start
<1>3. CASE StoreTranscript(w) \/ Analyse(w) \/ StoreAIResults(w)
    <2>1. \A v \in Workers : job'[v] = job[v]
        BY <1>3 DEF StoreTranscript, Analyse, StoreAIResults
    <2>2. UNCHANGED <<jstatus, mstatus, happened>>
        BY <1>3 DEF StoreTranscript, Analyse, StoreAIResults, rows
    <2> QED
        BY <2>1, <2>2
<1>4. CASE Succeed(w) \/ Fail(w) \/ SeeCancellation(w)
    <2>1. PICK s \in Terminal, o \in Outcomes : EndRun(w, s, o)
        BY <1>4 DEF Succeed, Fail, SeeCancellation, Terminal, Outcomes
    <2>2. job[w] \in Jobs /\ job'[w] = job[w]
        BY <1>4, <2>1 DEF EndRun, Working, Succeed, Fail, SeeCancellation
    <2>3. \A j \in Jobs : jstatus'[j] \in Active => jstatus[j] = jstatus'[j]
        BY <2>1, <2>2 DEF EndRun, Terminal
    <2>4. job[w] \in Executing'
        BY <2>2
    <2>5. UNCHANGED happened
        BY <2>1 DEF EndRun
    <2> QED
        BY <2>3, <2>4, <2>5
<1>5. CASE Publish(w)
    BY <1>5 DEF Publish, Outcomes
<1> QED
    BY <1>1, <1>2, <1>3, <1>4, <1>5 DEF RunStep

\* No job is active at first.
LEMMA InvInit == Init => Inv
<1>1. Init => OneActiveJob /\ InFlight
    BY JobsAssumption, Chosen DEF Init, OneActiveJob, InFlight, ActiveJobs, Active, Cancelable, ActiveProcessing
<1> QED
    BY <1>1, TypeInit DEF Inv

\* Every step keeps it.
LEMMA InvNext == Inv /\ [Next]_vars => Inv'
<1> SUFFICES ASSUME Inv, [Next]_vars PROVE Inv'
    OBVIOUS
<1>1. CASE Request
    BY <1>1, TypeRequest, RequestKeeps DEF Inv
<1>2. ASSUME NEW w \in Workers, Claim(w) \/ RunStep(w) PROVE Inv'
    BY <1>2, TypeRun, RunKeeps DEF Inv
<1>3. CASE UNCHANGED vars
    <2>1. UNCHANGED <<rows, contents, run, request, happened>>
        BY <1>3 DEF vars
    <2>2. TypeOK' /\ Busy'
        BY <2>1 DEF rows, contents, run, request, controls, Inv, TypeOK, RowTypes,
                    ContentTypes, RunTypes, RequestTypes, Busy
    <2>3. OneActiveJob' /\ InFlight'
        BY <2>1 DEF rows, run, Inv, OneActiveJob, InFlight, ActiveJobs, Executing
    <2> QED
        BY <2>2, <2>3 DEF Inv
<1> QED
    BY <1>1, <1>2, <1>3 DEF Next

\* It holds throughout.
LEMMA InvAlways == Spec => []Inv
BY InvInit, InvNext, PTL DEF Spec

\* Every reachable state is well typed.
THEOREM TypeCorrect == Spec => []TypeOK
BY InvAlways, PTL DEF Inv

\* The processing lock holds for any number of jobs, workers and requests of the
\* jobs API acting on what they have read: never two jobs queued or running,
\* unless one is retried, nor two active, unless a cancellation comes after the
\* end of its job.
THEOREM LockHolds == Spec => []OneActiveJob
BY InvAlways, PTL DEF Inv

\* A meeting that says QUEUED or RUNNING has a job to be claimed or a run that
\* will say otherwise, unless an operator cancels a queued job: what is left of
\* MeetingSettles is that the workers go on.
THEOREM RunIsInFlight == Spec => []InFlight
BY InvAlways, PTL DEF Inv
-----------------------------------------------------------------------------
(* CompletedRunIsShown.  Until runs are made to overlap there is one at a   *)
(* time (Alone): a job is made with no run in progress, and while one is no *)
(* other is queued (Lone), whatever the rows of ended jobs say.  So what    *)
(* the run read is still current when it stores what it made of it (Shown). *)

\* Nobody has made runs overlap: a retry of an old job, or a claim of one taken for lost.
Calm == happened \cap {"overlapped", "retried"} = {}

\* The transcript that the run of w makes.
Own(w) == [job |-> job[w], file |-> file]

\* What the run has read or stored so far is its own.
Shown(w) ==
    kind[job[w]] = "meeting_processing" =>
        /\ pc[w] = "transcribe" => read[w] = Own(w)
        /\ pc[w] \in {"analyse", "store", "finish", "completed"} => transcript = Own(w)
        /\ pc[w] = "store" => read[w] = Own(w)
        /\ pc[w] \in {"finish", "completed"} => analysis = Own(w)

\* One run at a time, and none to follow it yet.
Alone == \A v, w \in Workers : pc[v] # "idle" /\ pc[w] # "idle" => v = w
Lone  == \A w \in Workers : pc[w] # "idle" => \A j \in Jobs : jstatus[j] # "queued"

\* The inductive invariant of CompletedRunIsShown, with Inv.
ShownInv == Calm => Alone /\ Lone /\ \A w \in Workers : pc[w] # "idle" => Shown(w)

\* A step that leaves every worker idle, or makes runs overlap.
LEMMA NothingToShow ==
    ASSUME Calm' => \A w \in Workers : pc'[w] = "idle"
    PROVE  ShownInv'
BY DEF ShownInv, Alone, Lone

\* A request that makes or supersedes a job finds no run in progress.
LEMMA RequestShows ==
    ASSUME Inv, ShownInv, Request
    PROVE  ShownInv'
<1>1. CASE Reprocess \/ Regenerate \/ Retranscribe \/ RetranscribeRefused \/ Replace
    <2>1. NoteOverlap /\ UNCHANGED run
        BY <1>1 DEF Reprocess, Regenerate, Retranscribe, RetranscribeRefused, Replace, Supersede
    <2>2. ASSUME Calm', NEW w \in Workers PROVE pc'[w] = "idle"
        <3>1. Executing = {}
            BY <2>1, <2>2 DEF NoteOverlap, Calm
        <3>2. job[w] = NoJob
            BY <3>1 DEF Executing
        <3>3. pc[w] = "idle"
            BY <3>2 DEF Inv, Busy
        <3> QED
            BY <2>1, <3>3 DEF run
    <2> QED
        BY <2>2, NothingToShow
<1>2. CASE ReadActive \/ RollBack
    <2>1. UNCHANGED <<rows, contents, run, happened>>
        BY <1>2 DEF ReadActive, RollBack
    <2> QED
        BY <2>1 DEF rows, contents, run, ShownInv, Calm, Alone, Lone, Shown, Own
<1>3. ASSUME NEW o \in Operators, Retry(o) PROVE ShownInv'
    BY <1>3 DEF Retry, ShownInv, Calm
<1>4. ASSUME NEW o \in Operators, ReadJob(o) \/ Cancel(o) PROVE ShownInv'
    <2>1. /\ UNCHANGED <<kind, file, transcript, analysis, job, pc, read>>
          /\ happened \subseteq happened'
        BY <1>4 DEF ReadJob, Cancel, Writes, NoteCancel, rows, contents, run
    <2>2. \A j \in Jobs : jstatus'[j] = "queued" => jstatus[j] = "queued"
        BY <1>4 DEF ReadJob, Cancel, Writes, rows, Inv, TypeOK, RowTypes
    <2> QED
        BY <2>1, <2>2 DEF ShownInv, Calm, Alone, Lone, Shown, Own
<1> QED
    BY <1>1, <1>2, <1>3, <1>4 DEF Request

\* A run is claimed when no other is in progress, and stores what it has read.
LEMMA RunShows ==
    ASSUME Inv, ShownInv, NEW w \in Workers, Claim(w) \/ RunStep(w)
    PROVE  ShownInv'
<1> SUFFICES ASSUME Calm' PROVE ShownInv'
    BY DEF ShownInv
<1>1. UNCHANGED <<happened, kind, file>>
    BY DEF Claim, RunStep, Start, StoreTranscript, Analyse, StoreAIResults, Succeed, Fail,
           SeeCancellation, EndRun, Publish, rows, contents
<1>2. Calm /\ Alone /\ Lone /\ OneActiveJob /\ TypeOK /\ Busy
    BY <1>1 DEF Calm, ShownInv, Inv
<1>3. DOMAIN jstatus = Jobs /\ DOMAIN job = Workers /\ DOMAIN pc = Workers /\ DOMAIN read = Workers
    BY <1>2 DEF TypeOK, RowTypes, RunTypes
<1>4. \A v \in Workers : v # w => pc'[v] = pc[v]
    BY <1>3 DEF Claim, RunStep, Start, StoreTranscript, Analyse, StoreAIResults, Succeed, Fail,
           SeeCancellation, EndRun, Publish
<1>5. CASE Claim(w)
    <2>1. PICK j \in Jobs : jstatus[j] = "queued" /\ jstatus' = [jstatus EXCEPT ![j] = "running"]
                            /\ job' = [job EXCEPT ![w] = j]
        BY <1>5 DEF Claim
    <2>2. ASSUME NEW v \in Workers, pc[v] # "idle" PROVE FALSE
        BY <1>2, <2>1, <2>2 DEF Lone
    <2>3. pc'[w] = "claimed" /\ job'[w] = j /\ jstatus'[j] = "running"
        BY <1>3, <1>5, <2>1 DEF Claim
    <2>4. \A v \in Workers : pc'[v] # "idle" => v = w
        BY <1>4, <2>2
    <2>5. Shown(w)'
        BY <2>3 DEF Shown
    <2>6. \A i \in Jobs : jstatus'[i] # "queued"
        <3>1. \A i \in Jobs : jstatus[i] = "queued" => i = j
            BY <1>2, <2>1 DEF OneActiveJob, Calm, Cancelable
        <3> QED
            BY <1>3, <2>1, <3>1
    <2> QED
        BY <2>4, <2>5, <2>6 DEF ShownInv, Alone, Lone
<1>6. CASE RunStep(w)
    <2>1. pc[w] # "idle"
        BY <1>6 DEF RunStep, Start, StoreTranscript, Analyse, StoreAIResults, Succeed, Fail,
                    SeeCancellation, Publish, Working, Outcomes
    <2>2. \A v \in Workers : pc'[v] # "idle" => v = w
        BY <1>2, <1>4, <2>1 DEF Alone
    <2>3. Lone'
        <3>1. \A j \in Jobs : jstatus[j] # "queued"
            BY <1>2, <2>1 DEF Lone
        <3>2. \A j \in Jobs : jstatus'[j] # "queued"
            BY <1>3, <1>6, <3>1 DEF RunStep, Start, StoreTranscript, Analyse, StoreAIResults,
                        Succeed, Fail, SeeCancellation, EndRun, Publish, rows
        <3> QED
            BY <3>2 DEF Lone
    <2>4. ASSUME Shown(w)' PROVE ShownInv'
        BY <2>2, <2>3, <2>4 DEF ShownInv, Alone
    <2>5. CASE Start(w)
        <3>1. pc[w] = "claimed" /\ UNCHANGED job
            BY <2>5 DEF Start
        <3>2. kind[job[w]] = "meeting_processing" => pc'[w] = "transcribe" /\ read'[w] = Own(w)
            BY <1>3, <2>5 DEF Start, Own
        <3> QED
            BY <1>1, <2>4, <3>1, <3>2 DEF Shown, Own
    <2>6. CASE StoreTranscript(w)
        <3>1. pc[w] = "transcribe" /\ pc'[w] = "analyse" /\ transcript' = read[w] /\ UNCHANGED job
            BY <1>3, <2>6 DEF StoreTranscript
        <3> QED
            BY <1>1, <1>2, <2>1, <2>4, <3>1 DEF ShownInv, Shown, Own
    <2>7. CASE Analyse(w)
        <3>1. UNCHANGED <<job, transcript>> /\ pc[w] = "analyse" /\ pc'[w] = "store" /\ read'[w] = transcript
            BY <1>3, <2>7 DEF Analyse, contents
        <3> QED
            BY <1>1, <1>2, <2>1, <2>4, <3>1 DEF ShownInv, Shown, Own
    <2>8. CASE StoreAIResults(w)
        <3>1. UNCHANGED <<job, transcript>> /\ pc[w] = "store" /\ pc'[w] = "finish" /\ analysis' = read[w]
            BY <1>3, <2>8 DEF StoreAIResults
        <3> QED
            BY <1>1, <1>2, <2>1, <2>4, <3>1 DEF ShownInv, Shown, Own
    <2>9. CASE Succeed(w) \/ Fail(w) \/ SeeCancellation(w)
        <3>1. PICK s \in Terminal, o \in Outcomes : EndRun(w, s, o) /\ (o = "completed" => pc[w] = "finish")
            BY <2>9 DEF Succeed, Fail, SeeCancellation, Terminal, Outcomes
        <3>2. UNCHANGED <<job, transcript, analysis>> /\ pc'[w] = o
            BY <1>3, <3>1 DEF EndRun, contents
        <3> QED
            BY <1>1, <1>2, <2>1, <2>4, <3>1, <3>2 DEF ShownInv, Shown, Own, Outcomes
    <2>10. CASE Publish(w)
        <3>1. pc'[w] = "idle"
            BY <1>3, <2>10 DEF Publish
        <3> QED
            BY <2>2, <3>1, NothingToShow
    <2> QED
        BY <1>6, <2>5, <2>6, <2>7, <2>8, <2>9, <2>10 DEF RunStep
<1> QED
    BY <1>5, <1>6

\* Nobody runs anything at first, and every step keeps it.
LEMMA ShownAlways == Spec => []ShownInv
<1>1. Init => ShownInv
    BY DEF Init, ShownInv, Alone, Lone
<1>2. Inv /\ ShownInv /\ [Next]_vars => ShownInv'
    <2> SUFFICES ASSUME Inv, ShownInv, [Next]_vars PROVE ShownInv'
        OBVIOUS
    <2>1. CASE UNCHANGED vars
        <3>1. UNCHANGED <<rows, contents, run, happened>>
            BY <2>1 DEF vars
        <3> QED
            BY <3>1 DEF rows, contents, run, ShownInv, Calm, Alone, Lone, Shown, Own
    <2> QED
        BY <2>1, RequestShows, RunShows DEF Next
<1> QED
    BY <1>1, <1>2, InvAlways, PTL DEF Spec

\* Unless runs are made to overlap, what the meeting shows when a processing run
\* has completed is the run's own transcript, of the current recording, and its
\* analysis, whatever is cancelled, replaced or fails (store_transcript,
\* store_ai_results).
THEOREM CompletedRunShows == Spec => []CompletedRunIsShown
<1>1. ShownInv => CompletedRunIsShown
    BY DEF ShownInv, Calm, Shown, Own, CompletedRunIsShown
<1> QED
    BY <1>1, ShownAlways, PTL
=============================================================================
