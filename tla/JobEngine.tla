----------------------------- MODULE JobEngine -----------------------------
(***************************************************************************)
(* One BackgroundJob row, the Celery workers that run it, the broker that  *)
(* carries its task messages and the API requests that control it          *)
(* (backend/apps/jobs).                                                    *)
(*                                                                         *)
(* Every worker keeps a Python object it loaded when it claimed the job    *)
(* and writes it back column by column (save(update_fields=...)); a        *)
(* request loads its own object, decides on it and writes in the one       *)
(* transaction of the request (ATOMIC_REQUESTS).  A request is therefore   *)
(* two steps, ReadJob and a Commit action, and a run is one step per read  *)
(* or write of the row.                                                    *)
(*                                                                         *)
(* The stages of the pipeline are the positions 1..NStages of the order    *)
(* PipelineDefinition.ordered returns.  Left out because no decision reads *)
(* them: progress, current_stage, locked_at/locked_by, timestamps, logs,   *)
(* the error texts and the retry history.                                  *)
(***************************************************************************)
EXTENDS Naturals

CONSTANTS
    Workers,        \* worker processes
    Requests,       \* API requests; each is served at most once
    NStages,        \* number of stages of the pipeline
    Retryable,      \* the stages whose failures should_retry accepts
    MaxRetries,     \* Stage.max_retries, 3 in the code
    Controls,       \* the controls requests may use
    QuietRequeue,   \* TRUE: operators re-queue only when no run is in progress
    Faults,         \* the kinds of fault that may happen
    MaxFaults       \* bound on lost runs, redeliveries and lost sends together

Stages == 1..NStages

\* WAITING, RETRYING and EXPIRED are declared in JobStatus and never stored:
\* nothing assigns WAITING or EXPIRED, and the engine always fails a job with
\* terminal=True, so mark_failed never chooses RETRYING.
Terminal == {"succeeded", "failed", "canceled"}
Active   == {"queued", "running", "paused", "cancellation_requested"}
Status   == Terminal \cup Active

AllControls ==
    {"cancel", "pause", "resume", "retry", "requeue", "supersede"}

AllFaults == {"lost_send", "redelivery", "worker_lost", "task_aborted"}

ASSUME JobEngineAssumption ==
    /\ NStages \in Nat \ {0}
    /\ MaxRetries \in Nat
    /\ MaxFaults \in Nat
    /\ Retryable \subseteq Stages
    /\ Controls \subseteq AllControls
    /\ Faults \subseteq AllFaults
    /\ QuietRequeue \in BOOLEAN

VARIABLES
    status,         \* row: status
    done,           \* row: metadata["completed_stages"]
    attempts,       \* row: attempts, the number of claims ever made
    pc,             \* per worker: where its run stands
    pos,            \* per worker: position in the stage order
    mem,            \* per worker: its `completed` set and in-memory metadata
    attempt,        \* per worker: attempt number of the current stage
    req,            \* per request: what it read and wants to do
    unsent,         \* committed dispatches whose on_commit hook has not run
    msgs,           \* task messages ready on the broker
    crashes,        \* runs lost with their worker
    redeliveries,   \* messages the broker delivered again
    lostSends,      \* dispatches lost between commit and apply_async
    queuings,       \* history: how often the job was put into QUEUED
    executed        \* history: the stages that have ever run to the end

row     == <<status, done, attempts>>
run     == <<pc, pos, mem, attempt>>
broker  == <<unsent, msgs>>
faults  == <<crashes, redeliveries, lostSends>>
history == <<queuings, executed>>
vars    == <<row, run, req, broker, faults, history>>

PCs == {"idle", "loop", "check", "stage", "commit", "fail", "cancel"}

Executing(w) == pc[w] # "idle"
Quiet        == \A w \in Workers : ~Executing(w)

NoRequest == [phase |-> "idle", kind |-> "none", seen |-> "queued"]
Served    == [phase |-> "served", kind |-> "none", seen |-> "queued"]

TypeOK ==
    /\ status \in Status
    /\ done \subseteq Stages
    /\ attempts \in Nat
    /\ pc \in [Workers -> PCs]
    /\ pos \in [Workers -> 1..(NStages + 1)]
    /\ mem \in [Workers -> SUBSET Stages]
    /\ attempt \in [Workers -> 1..(MaxRetries + 1)]
    /\ req \in [Requests -> [phase : {"idle", "held", "served"},
                             kind  : Controls \cup {"none"},
                             seen  : Status]]
    /\ unsent \in Nat /\ msgs \in Nat
    /\ crashes \in Nat /\ redeliveries \in Nat /\ lostSends \in Nat
    /\ queuings \in Nat
    /\ executed \subseteq Stages

\* JobManager.enqueue has committed the row and registered its on_commit send.
Init ==
    /\ status = "queued"
    /\ done = {}
    /\ attempts = 0
    /\ pc = [w \in Workers |-> "idle"]
    /\ pos = [w \in Workers |-> 1]
    /\ mem = [w \in Workers |-> {}]
    /\ attempt = [w \in Workers |-> 1]
    /\ req = [r \in Requests |-> NoRequest]
    /\ unsent = 1
    /\ msgs = 0
    /\ crashes = 0 /\ redeliveries = 0 /\ lostSends = 0
    /\ queuings = 1
    /\ executed = {}

-----------------------------------------------------------------------------
(* The broker.                                                             *)

\* The on_commit hook hands the job id to the broker.
Send ==
    /\ unsent > 0
    /\ unsent' = unsent - 1
    /\ msgs' = msgs + 1
    /\ UNCHANGED <<row, run, req, faults, history>>

Possible(fault) ==
    /\ fault \in Faults
    /\ crashes + redeliveries + lostSends < MaxFaults

\* The API process dies, or the broker refuses, after the commit.
LoseSend ==
    /\ Possible("lost_send")
    /\ unsent > 0
    /\ unsent' = unsent - 1
    /\ lostSends' = lostSends + 1
    /\ UNCHANGED <<row, run, req, msgs, crashes, redeliveries, history>>

\* acks_late: the message of a run is unacknowledged until the run ends, and
\* Redis delivers it again once visibility_timeout has passed.
Redeliver(w) ==
    /\ Possible("redelivery")
    /\ Executing(w)
    /\ msgs' = msgs + 1
    /\ redeliveries' = redeliveries + 1
    /\ UNCHANGED <<row, run, req, unsent, crashes, lostSends, history>>

-----------------------------------------------------------------------------
(* A worker's run.                                                         *)

\* Bugs the properties must catch: no status test under the lock, a run that
\* starts without the completed stages of the row, and a claim refused to a job
\* that has used up its attempts.
ClaimWithoutTest(w) ==
    /\ ~Executing(w)
    /\ msgs > 0
    /\ msgs' = msgs - 1
    /\ status' = "running"
    /\ attempts' = attempts + 1
    /\ pc' = [pc EXCEPT ![w] = "loop"]
    /\ pos' = [pos EXCEPT ![w] = 1]
    /\ mem' = [mem EXCEPT ![w] = done]
    /\ UNCHANGED <<done, attempt, req, unsent, faults, history>>

ClaimForgetsDone(w) ==
    /\ ~Executing(w)
    /\ msgs > 0
    /\ status = "queued"
    /\ msgs' = msgs - 1
    /\ status' = "running"
    /\ attempts' = attempts + 1
    /\ pc' = [pc EXCEPT ![w] = "loop"]
    /\ pos' = [pos EXCEPT ![w] = 1]
    /\ mem' = [mem EXCEPT ![w] = {}]
    /\ UNCHANGED <<done, attempt, req, unsent, faults, history>>

\* acquire: the row is read and marked RUNNING under select_for_update, so the
\* test and the write are one step; the run then works on the object it read.
Claim(w) ==
    /\ ~Executing(w)
    /\ msgs > 0
    /\ status = "queued"
    /\ msgs' = msgs - 1
    /\ status' = "running"
    /\ attempts' = attempts + 1
    /\ pc' = [pc EXCEPT ![w] = "loop"]
    /\ pos' = [pos EXCEPT ![w] = 1]
    /\ mem' = [mem EXCEPT ![w] = done]
    /\ UNCHANGED <<done, attempt, req, unsent, faults, history>>

\* acquire returns None: the task ends, and the message is acknowledged.
Drop(w) ==
    /\ ~Executing(w)
    /\ msgs > 0
    /\ status # "queued"
    /\ msgs' = msgs - 1
    /\ UNCHANGED <<row, run, req, unsent, faults, history>>

\* The check between stages, and the one before each attempt, re-read the row.
SeeCancellation(w) ==
    /\ \/ pc[w] = "loop" /\ pos[w] <= NStages
       \/ pc[w] = "check"
    /\ status = "cancellation_requested"
    /\ pc' = [pc EXCEPT ![w] = "cancel"]
    /\ UNCHANGED <<row, pos, mem, attempt, req, broker, faults, history>>

\* `if key in completed: continue`
SkipStage(w) ==
    /\ pc[w] = "loop"
    /\ pos[w] <= NStages
    /\ status # "cancellation_requested"
    /\ pos[w] \in mem[w]
    /\ pos' = [pos EXCEPT ![w] = @ + 1]
    /\ UNCHANGED <<row, pc, mem, attempt, req, broker, faults, history>>

EnterStage(w) ==
    /\ pc[w] = "loop"
    /\ pos[w] <= NStages
    /\ status # "cancellation_requested"
    /\ pos[w] \notin mem[w]
    /\ pc' = [pc EXCEPT ![w] = "check"]
    /\ attempt' = [attempt EXCEPT ![w] = 1]
    /\ UNCHANGED <<row, pos, mem, req, broker, faults, history>>

StartAttempt(w) ==
    /\ pc[w] = "check"
    /\ status # "cancellation_requested"
    /\ pc' = [pc EXCEPT ![w] = "stage"]
    /\ UNCHANGED <<row, pos, mem, attempt, req, broker, faults, history>>

StageSucceeds(w) ==
    /\ pc[w] = "stage"
    /\ pc' = [pc EXCEPT ![w] = "commit"]
    /\ executed' = executed \cup {pos[w]}
    /\ UNCHANGED <<row, pos, mem, attempt, req, broker, faults, queuings>>

\* A transient failure with retries left.  _record_retry saves the run's whole
\* metadata object, completed_stages included, over the row's.
StageRetries(w) ==
    /\ pc[w] = "stage"
    /\ pos[w] \in Retryable
    /\ attempt[w] <= MaxRetries
    /\ done' = mem[w]
    /\ attempt' = [attempt EXCEPT ![w] = @ + 1]
    /\ pc' = [pc EXCEPT ![w] = "check"]
    /\ UNCHANGED <<status, attempts, pos, mem, req, broker, faults, history>>

\* Bug: an exhausted stage counts as done.
StageFailsOpen(w) ==
    /\ pc[w] = "stage"
    /\ done' = mem[w]
    /\ pc' = [pc EXCEPT ![w] = "commit"]
    /\ UNCHANGED <<status, attempts, pos, mem, attempt, req, broker, faults,
                   history>>

\* A permanent failure (should_retry refuses the exception), or no retry left.
StageFails(w) ==
    /\ pc[w] = "stage"
    /\ done' = mem[w]
    /\ pc' = [pc EXCEPT ![w] = "fail"]
    /\ UNCHANGED <<status, attempts, pos, mem, attempt, req, broker, faults,
                   history>>

\* Bug: only the stages of this run are recorded.
CommitOnlyThisStage(w) ==
    /\ pc[w] = "commit"
    /\ mem' = [mem EXCEPT ![w] = @ \cup {pos[w]}]
    /\ done' = {pos[w]}
    /\ pos' = [pos EXCEPT ![w] = @ + 1]
    /\ pc' = [pc EXCEPT ![w] = "loop"]
    /\ UNCHANGED <<status, attempts, attempt, req, broker, faults, history>>

\* completed.add(key), and the metadata column is overwritten with this run's.
CommitStage(w) ==
    /\ pc[w] = "commit"
    /\ mem' = [mem EXCEPT ![w] = @ \cup {pos[w]}]
    /\ done' = mem[w] \cup {pos[w]}
    /\ pos' = [pos EXCEPT ![w] = @ + 1]
    /\ pc' = [pc EXCEPT ![w] = "loop"]
    /\ UNCHANGED <<status, attempts, attempt, req, broker, faults, history>>

EndRun(w, s) ==
    /\ status' = s
    /\ pc' = [pc EXCEPT ![w] = "idle"]
    /\ UNCHANGED <<done, attempts, pos, mem, attempt, req, broker, faults,
                   history>>

\* mark_succeeded: no cancellation check after the last stage, no status test.
Succeed(w) == pc[w] = "loop" /\ pos[w] > NStages /\ EndRun(w, "succeeded")

\* mark_failed(terminal=True), then _StageFailed.
Fail(w) == pc[w] = "fail" /\ EndRun(w, "failed")

\* Bug: the run stops without marking the job.
CancelUnmarked(w) == pc[w] = "cancel" /\ EndRun(w, status)

\* mark_cancelled, whatever the row says by now.
Cancel(w) == pc[w] = "cancel" /\ EndRun(w, "canceled")

\* The worker process is lost: reject_on_worker_lost puts the message back.
WorkerLost(w) ==
    /\ Possible("worker_lost")
    /\ Executing(w)
    /\ pc' = [pc EXCEPT ![w] = "idle"]
    /\ msgs' = msgs + 1
    /\ crashes' = crashes + 1
    /\ UNCHANGED <<row, pos, mem, attempt, req, unsent, redeliveries,
                   lostSends, history>>

\* The hard time limit, or an exception outside stage.run: the task fails, the
\* message is acknowledged, and the row keeps the status it had.
TaskAborted(w) ==
    /\ Possible("task_aborted")
    /\ Executing(w)
    /\ pc' = [pc EXCEPT ![w] = "idle"]
    /\ crashes' = crashes + 1
    /\ UNCHANGED <<row, pos, mem, attempt, req, broker, redeliveries,
                   lostSends, history>>

-----------------------------------------------------------------------------
(* The controls.                                                           *)

\* The views' guards: 409 for cancelling a finished job and for retrying any
\* but a failed or cancelled one; _cancel_active_processing selects active
\* jobs; pause, resume and requeue are not guarded.
Accepts(kind, s) ==
    CASE kind = "cancel"    -> s \notin Terminal
      [] kind = "retry"     -> s \in {"failed", "canceled"}
      [] kind = "supersede" -> s \in Active
      [] OTHER              -> TRUE

\* get_object(): a plain read, no lock.
ReadJob(r) ==
    /\ req[r].phase = "idle"
    /\ \E kind \in Controls :
        /\ Accepts(kind, status)
        /\ req' = [req EXCEPT ![r] =
                      [phase |-> "held", kind |-> kind, seen |-> status]]
    /\ UNCHANGED <<row, run, broker, faults, history>>

Holds(r, kind) == req[r].phase = "held" /\ req[r].kind = kind

Serve(r) == req' = [req EXCEPT ![r] = Served]

\* The assumption QuietRequeue names: it is the operator's, not the code's.
MayRequeue == QuietRequeue => Quiet

\* The job becomes QUEUED and a send is registered for after the commit.
PutInQueue ==
    /\ MayRequeue
    /\ status' = "queued"
    /\ unsent' = unsent + 1
    /\ queuings' = queuings + 1

\* request_cancellation decides on the status the request read.
CommitCancel(r) ==
    /\ Holds(r, "cancel")
    /\ Serve(r)
    /\ \/ /\ req[r].seen \in {"queued", "paused"}
          /\ status' = "canceled"
       \/ /\ req[r].seen = "running"
          /\ status' = "cancellation_requested"
       \/ /\ req[r].seen = "cancellation_requested"
          /\ UNCHANGED status
    /\ UNCHANGED <<done, attempts, run, broker, faults, history>>

CommitPause(r) ==
    /\ Holds(r, "pause")
    /\ Serve(r)
    /\ status' = IF req[r].seen \in {"queued", "running"} THEN "paused"
                 ELSE status
    /\ UNCHANGED <<done, attempts, run, broker, faults, history>>

\* Bug: the job goes back to QUEUED and nothing is sent.
ResumeWithoutDispatch(r) ==
    /\ Holds(r, "resume")
    /\ Serve(r)
    /\ \/ /\ req[r].seen = "paused"
          /\ MayRequeue
          /\ status' = "queued"
          /\ queuings' = queuings + 1
       \/ /\ req[r].seen # "paused"
          /\ UNCHANGED <<status, queuings>>
    /\ UNCHANGED <<done, attempts, run, unsent, msgs, faults, executed>>

\* JobManager.resume dispatches whenever its object is QUEUED afterwards, so a
\* job that was QUEUED already gets a second message.
CommitResume(r) ==
    /\ Holds(r, "resume")
    /\ Serve(r)
    /\ \/ req[r].seen = "paused" /\ PutInQueue
       \/ /\ req[r].seen = "queued"
          /\ unsent' = unsent + 1
          /\ UNCHANGED <<status, queuings>>
       \/ /\ req[r].seen \notin {"paused", "queued"}
          /\ UNCHANGED <<status, unsent, queuings>>
    /\ UNCHANGED <<done, attempts, run, msgs, faults, executed>>

CommitRetry(r) ==
    /\ Holds(r, "retry")
    /\ Serve(r)
    /\ PutInQueue
    /\ UNCHANGED <<done, attempts, run, msgs, faults, executed>>

\* requeue forgets the completed stages, then retries.
CommitRequeue(r) ==
    /\ Holds(r, "requeue")
    /\ Serve(r)
    /\ PutInQueue
    /\ done' = {}
    /\ UNCHANGED <<attempts, run, msgs, faults, executed>>

\* _cancel_active_processing: mark_cancelled on every active job, running or not.
CommitSupersede(r) ==
    /\ Holds(r, "supersede")
    /\ Serve(r)
    /\ status' = "canceled"
    /\ UNCHANGED <<done, attempts, run, broker, faults, history>>

-----------------------------------------------------------------------------

Receive(w) == Claim(w) \/ Drop(w)

EngineStep(w) ==
    \/ SeeCancellation(w) \/ SkipStage(w) \/ EnterStage(w) \/ StartAttempt(w)
    \/ StageSucceeds(w) \/ StageRetries(w) \/ StageFails(w) \/ CommitStage(w)
    \/ Succeed(w) \/ Fail(w) \/ Cancel(w)

Fault ==
    \/ LoseSend
    \/ \E w \in Workers : Redeliver(w) \/ WorkerLost(w) \/ TaskAborted(w)

Control(r) ==
    \/ ReadJob(r)
    \/ CommitCancel(r) \/ CommitPause(r) \/ CommitResume(r)
    \/ CommitRetry(r) \/ CommitRequeue(r) \/ CommitSupersede(r)

Next ==
    \/ Send
    \/ \E w \in Workers : Receive(w) \/ EngineStep(w)
    \/ \E r \in Requests : Control(r)
    \/ Fault

Spec == Init /\ [][Next]_vars

\* The send runs when the transaction has committed; an idle worker consumes
\* what the broker holds; a stage ends, by itself or at its time limit.  No
\* operator has to act, and no fault has to happen.
Fairness ==
    /\ WF_vars(Send)
    /\ \A w \in Workers : WF_vars(Receive(w)) /\ WF_vars(EngineStep(w))

FairSpec == Spec /\ Fairness

-----------------------------------------------------------------------------
(* What holds whatever the operators do, and whatever faults happen.       *)

\* Only a claim of a queued job begins a run, and every claim is counted: the
\* abstract lifecycle of JobLifecycle, under the identity mapping.
Lifecycle == INSTANCE JobLifecycle
ImplementsLifecycle == Lifecycle!Spec

\* Runs never outnumber the times the job was put into QUEUED: a duplicated,
\* delayed or returned message starts no run of its own, because acquire tests
\* the status under the row lock.
RunsBounded == attempts + (IF status = "queued" THEN 1 ELSE 0) <= queuings

DownClosed(S) == \A i \in S, j \in Stages : j < i => j \in S

\* A resumed run never skips a stage that lacks a predecessor: whatever
\* overlapping runs write over each other's metadata, the completed stages of
\* the row are a prefix of the execution order.
CommittedIsPrefix == DownClosed(done)

\* A job reported as completed has run each of its stages to the end at some
\* time, in this run or in one whose record it resumed from.
SucceededRanEverything == status = "succeeded" => executed = Stages

\* A queued job that nothing will deliver.
Undelivered == status = "queued" /\ unsent + msgs = 0

\* A queued job is on its way to a worker: every path into QUEUED dispatches,
\* and a message is given up only when the job is not QUEUED.  The only step
\* that strands a queued job is the loss of a send after its commit.
QueuedIsDispatched ==
    [][Undelivered' => Undelivered \/ lostSends' > lostSends]_vars

-----------------------------------------------------------------------------
(* What holds if nobody re-queues the job while it is being run.           *)

\* acquire "prevents double-runs": no two workers are inside one job.
SingleRun ==
    \A v, w \in Workers : Executing(v) /\ Executing(w) => v = w

\* "retries never redo committed work": a stage recorded as completed is not
\* started again (requeue erases the record first).
NeverRedo ==
    [][\A w \in Workers :
          pc[w] = "check" /\ pc'[w] = "stage" => pos[w] \notin done]_vars

\* The record of a completed job is complete, whatever failed, was cancelled,
\* paused or retried on the way.
SucceededIsComplete == status = "succeeded" => done = Stages

-----------------------------------------------------------------------------
(* Liveness, under Fairness.                                               *)

\* A queued job does not stay queued: a worker claims it or a control moves
\* it, unless its dispatch was lost.
QueuedIsTakenUp ==
    status = "queued" ~> (status # "queued" \/ lostSends > 0)

\* Every run ends: retries are counted and exhausted.
EveryRunEnds == \A w \in Workers : Executing(w) ~> ~Executing(w)

\* A cancellation requested of a job that is being run is settled: the run
\* sees it or finishes first.  (A lost run leaves it pending for ever.)
CancellationSettles ==
    (status = "cancellation_requested" /\ ~Quiet)
        ~> (status # "cancellation_requested" \/ crashes > 0)

\* A job settles: it is taken up, its run ends, and a cancellation is answered.
JobSettles == QueuedIsTakenUp /\ EveryRunEnds /\ CancellationSettles

-----------------------------------------------------------------------------
(* What the documents promise and the code does not keep.                  *)

\* docs/PRODUCTION_READINESS.md: "acks_late + reject_on_worker_lost prevent
\* loss".  A job the row shows as RUNNING is being run, or a message that can
\* still start it is on the way.
NoJobLost ==
    status = "running" => ~Quiet \/ unsent + msgs > 0
=============================================================================
