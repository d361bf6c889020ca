-------------------------- MODULE JobEngineProofs --------------------------
(***************************************************************************)
(* Proofs about JobEngine, for every number of workers, requests, stages,  *)
(* retries and faults and every set of controls.                           *)
(*                                                                         *)
(* TypeInv strengthens TypeOK with where a run may stand; RecordInv says   *)
(* what the row's and the runs' records of completed stages have to do     *)
(* with the stages that really ran; QuietInv is what holds on top of them  *)
(* when no operator re-queues a job in the middle of a run.                *)
(*                                                                         *)
(* At the end is what the eventual end of a job rests on beside fairness:  *)
(* a queued job has somebody to deliver it, a run has so many steps and    *)
(* every one of its steps takes one off, and a cancellation that was asked *)
(* for has a run to see it.                                                *)
(***************************************************************************)
EXTENDS JobEngine, Integers, TLAPS

-----------------------------------------------------------------------------
(* Types.                                                                  *)

\* A run inside a stage stands at a stage: CommitStage could not move on
\* within 1..NStages+1 otherwise.
AtStage == \A w \in Workers : pc[w] \in {"check", "stage", "commit"}
                                 => pos[w] \in Stages

\* The types, and a job that runs is at a stage.
TypeInv == TypeOK /\ AtStage

\* A job that was enqueued.
LEMMA TypeInit == Init => TypeInv
BY JobEngineAssumption
   DEF Init, TypeInv, TypeOK, AtStage, Stages, Status, Terminal, Active, PCs,
       NoRequest

\* Every step keeps the types.
LEMMA TypeNext == TypeInv /\ [Next]_vars => TypeInv'
<1> SUFFICES ASSUME TypeInv, [Next]_vars PROVE TypeInv'
    OBVIOUS
<1> USE JobEngineAssumption
    DEF TypeInv, TypeOK, AtStage, Stages, Status, Terminal, Active, PCs,
        row, run, broker, faults, history, Served
<1>1. CASE Send
    BY <1>1 DEF Send
<1>2. ASSUME NEW w \in Workers, Claim(w) PROVE TypeInv'
    BY <1>2 DEF Claim
<1>3. ASSUME NEW w \in Workers, Drop(w) PROVE TypeInv'
    BY <1>3 DEF Drop
<1>4. ASSUME NEW w \in Workers, SeeCancellation(w) PROVE TypeInv'
    BY <1>4 DEF SeeCancellation
<1>5. ASSUME NEW w \in Workers, SkipStage(w) PROVE TypeInv'
    BY <1>5 DEF SkipStage
<1>6. ASSUME NEW w \in Workers, EnterStage(w) PROVE TypeInv'
    BY <1>6 DEF EnterStage
<1>7. ASSUME NEW w \in Workers, StartAttempt(w) PROVE TypeInv'
    BY <1>7 DEF StartAttempt
<1>8. ASSUME NEW w \in Workers, StageSucceeds(w) PROVE TypeInv'
    BY <1>8 DEF StageSucceeds
<1>9. ASSUME NEW w \in Workers, StageRetries(w) PROVE TypeInv'
    BY <1>9 DEF StageRetries
<1>10. ASSUME NEW w \in Workers, StageFails(w) PROVE TypeInv'
    BY <1>10 DEF StageFails
<1>11. ASSUME NEW w \in Workers, CommitStage(w) PROVE TypeInv'
    BY <1>11 DEF CommitStage
<1>12. ASSUME NEW w \in Workers, Succeed(w) \/ Fail(w) \/ Cancel(w)
       PROVE TypeInv'
    BY <1>12 DEF Succeed, Fail, Cancel, EndRun
<1>13. CASE LoseSend
    BY <1>13 DEF LoseSend
<1>14. ASSUME NEW w \in Workers, Redeliver(w) PROVE TypeInv'
    BY <1>14 DEF Redeliver
<1>15. ASSUME NEW w \in Workers, WorkerLost(w) PROVE TypeInv'
    BY <1>15 DEF WorkerLost
<1>16. ASSUME NEW w \in Workers, TaskAborted(w) PROVE TypeInv'
    BY <1>16 DEF TaskAborted
<1>17. ASSUME NEW r \in Requests, ReadJob(r) PROVE TypeInv'
    BY <1>17 DEF ReadJob
<1>18. ASSUME NEW r \in Requests, CommitCancel(r) PROVE TypeInv'
    BY <1>18 DEF CommitCancel, Serve
<1>19. ASSUME NEW r \in Requests, CommitPause(r) PROVE TypeInv'
    BY <1>19 DEF CommitPause, Serve
<1>20. ASSUME NEW r \in Requests, CommitResume(r) PROVE TypeInv'
    BY <1>20 DEF CommitResume, Serve, PutInQueue
<1>21. ASSUME NEW r \in Requests, CommitRetry(r) PROVE TypeInv'
    BY <1>21 DEF CommitRetry, Serve, PutInQueue
<1>22. ASSUME NEW r \in Requests, CommitRequeue(r) PROVE TypeInv'
    BY <1>22 DEF CommitRequeue, Serve, PutInQueue
<1>23. ASSUME NEW r \in Requests, CommitSupersede(r) PROVE TypeInv'
    BY <1>23 DEF CommitSupersede, Serve
<1>24. CASE UNCHANGED vars
    BY <1>24 DEF vars
<1>25. QED
    BY <1>1, <1>2, <1>3, <1>4, <1>5, <1>6, <1>7, <1>8, <1>9, <1>10, <1>11,
       <1>12, <1>13, <1>14, <1>15, <1>16, <1>17, <1>18, <1>19, <1>20, <1>21,
       <1>22, <1>23, <1>24
    DEF Next, Receive, EngineStep, Fault, Control

\* Every value stays in its range; in particular no stage is attempted more
\* often than max_retries allows.
THEOREM TypeCorrect == Spec => []TypeOK
<1>1. Spec => []TypeInv
    BY TypeInit, TypeNext, PTL DEF Spec
<1>2. TypeInv => TypeOK
    BY DEF TypeInv
<1>3. QED
    BY <1>1, <1>2, PTL

-----------------------------------------------------------------------------
(* The abstract lifecycle.                                                 *)

\* The engine starts where the life cycle does.
LEMMA LifecycleInit == Init => Lifecycle!Init
BY DEF Init, Lifecycle!Init

\* Every step claims, queues, settles, or leaves the status and both counters
\* alone.
LEMMA LifecycleStep ==
    TypeInv /\ [Next]_vars => [Lifecycle!Next]_(Lifecycle!vars)
<1> SUFFICES ASSUME TypeInv, [Next]_vars
             PROVE  [Lifecycle!Next]_(Lifecycle!vars)
    OBVIOUS
<1> USE DEF Lifecycle!Next, Lifecycle!vars, Lifecycle!Enqueue,
            Lifecycle!Claim, Lifecycle!Settle, Lifecycle!Settled,
            row, run, broker, faults, history
<1>1. ASSUME NEW w \in Workers, Claim(w)
      PROVE  [Lifecycle!Next]_(Lifecycle!vars)
    BY <1>1 DEF Claim
<1>2. ASSUME NEW w \in Workers, Succeed(w) \/ Fail(w) \/ Cancel(w)
      PROVE  [Lifecycle!Next]_(Lifecycle!vars)
    BY <1>2 DEF Succeed, Fail, Cancel, EndRun
<1>3. ASSUME NEW r \in Requests, CommitCancel(r) \/ CommitPause(r)
      PROVE  [Lifecycle!Next]_(Lifecycle!vars)
    BY <1>3 DEF CommitCancel, CommitPause
<1>4. ASSUME NEW r \in Requests, CommitResume(r)
      PROVE  [Lifecycle!Next]_(Lifecycle!vars)
    BY <1>4 DEF CommitResume, PutInQueue
<1>5. ASSUME NEW r \in Requests,
             CommitRetry(r) \/ CommitRequeue(r) \/ CommitSupersede(r)
      PROVE  [Lifecycle!Next]_(Lifecycle!vars)
    BY <1>5 DEF CommitRetry, CommitRequeue, CommitSupersede, PutInQueue
<1>6. ASSUME \/ Send \/ LoseSend
             \/ \E w \in Workers :
                    \/ Drop(w) \/ SeeCancellation(w) \/ SkipStage(w)
                    \/ EnterStage(w) \/ StartAttempt(w) \/ StageSucceeds(w)
                    \/ StageRetries(w) \/ StageFails(w) \/ CommitStage(w)
                    \/ Redeliver(w) \/ WorkerLost(w) \/ TaskAborted(w)
             \/ \E r \in Requests : ReadJob(r)
             \/ UNCHANGED vars
      PROVE  UNCHANGED <<status, attempts, queuings>>
    BY <1>6 DEF Send, LoseSend, Drop, SeeCancellation, SkipStage, EnterStage,
                StartAttempt, StageSucceeds, StageRetries, StageFails,
                CommitStage, Redeliver, WorkerLost, TaskAborted, ReadJob, vars
<1>7. QED
    BY <1>1, <1>2, <1>3, <1>4, <1>5, <1>6
    DEF Next, Receive, EngineStep, Fault, Control

\* JobEngine implements JobLifecycle.
THEOREM Refinement == Spec => ImplementsLifecycle
<1>1. Spec => []TypeInv
    BY TypeInit, TypeNext, PTL DEF Spec
<1>2. QED
    BY <1>1, LifecycleInit, LifecycleStep, PTL
    DEF Spec, ImplementsLifecycle, Lifecycle!Spec

\* Runs never outnumber the times the job was queued.
THEOREM RunsAreBounded == Spec => []RunsBounded
<1>1. Spec => []TypeInv
    BY TypeInit, TypeNext, PTL DEF Spec
<1>2. Init => RunsBounded
    BY DEF Init, RunsBounded
<1>3. RunsBounded /\ TypeInv /\ [Next]_vars => RunsBounded'
    BY LifecycleStep
    DEF RunsBounded, TypeInv, TypeOK, Lifecycle!Next, Lifecycle!vars,
        Lifecycle!Enqueue, Lifecycle!Claim, Lifecycle!Settle,
        Lifecycle!Settled
<1>4. QED
    BY <1>1, <1>2, <1>3, PTL DEF Spec

\* A queued job stays deliverable unless its send is lost.
THEOREM QueuedStaysDispatched == Spec => QueuedIsDispatched
<1>1. Spec => []TypeInv
    BY TypeInit, TypeNext, PTL DEF Spec
<1>2. TypeInv /\ [Next]_vars =>
          [Undelivered' => Undelivered \/ lostSends' > lostSends]_vars
  <2> SUFFICES ASSUME TypeInv, Next, Undelivered'
               PROVE  Undelivered \/ lostSends' > lostSends
    BY DEF vars
  <2> USE DEF TypeInv, TypeOK, Undelivered, row, run, broker, faults, history
  <2>1. CASE Send
    BY <2>1 DEF Send
  <2>2. CASE LoseSend
    BY <2>2 DEF LoseSend
  <2>3. ASSUME NEW w \in Workers, Receive(w) PROVE Undelivered
    BY <2>3 DEF Receive, Claim, Drop
  <2>4. ASSUME NEW w \in Workers, EngineStep(w) PROVE Undelivered
    <3>1. (UNCHANGED status \/ status' # "queued") /\ UNCHANGED broker
      BY <2>4 DEF EngineStep, SeeCancellation, SkipStage, EnterStage,
                  StartAttempt, StageSucceeds, StageRetries, StageFails,
                  CommitStage, Succeed, Fail, Cancel, EndRun
    <3>2. QED
      BY <3>1
  <2>5. ASSUME NEW w \in Workers,
               Redeliver(w) \/ WorkerLost(w) \/ TaskAborted(w)
        PROVE  Undelivered
    BY <2>5 DEF Redeliver, WorkerLost, TaskAborted
  <2>6. ASSUME NEW r \in Requests,
               ReadJob(r) \/ CommitCancel(r) \/ CommitPause(r)
        PROVE  Undelivered
    BY <2>6 DEF ReadJob, CommitCancel, CommitPause
  <2>7. ASSUME NEW r \in Requests, CommitResume(r) PROVE Undelivered
    BY <2>7 DEF CommitResume, PutInQueue
  <2>8. ASSUME NEW r \in Requests,
               CommitRetry(r) \/ CommitRequeue(r) \/ CommitSupersede(r)
        PROVE  Undelivered
    BY <2>8 DEF CommitRetry, CommitRequeue, CommitSupersede, PutInQueue
  <2>9. QED
    BY <2>1, <2>2, <2>3, <2>4, <2>5, <2>6, <2>7, <2>8
    DEF Next, Fault, Control
<1>3. QED
    BY <1>1, <1>2, PTL DEF Spec, QueuedIsDispatched

-----------------------------------------------------------------------------
(* The record of completed stages, under every interference.               *)

\* A run stands behind stages its record holds, and every record, the row's
\* and the runs', is a prefix of stages that really ran.
RunRecord(w) ==
    /\ DownClosed(mem[w])
    /\ mem[w] \subseteq executed
    /\ Executing(w) => \A i \in Stages : i < pos[w] => i \in mem[w]
    /\ pc[w] = "commit" => pos[w] \in executed

\* What is recorded as done was executed.
RecordInv ==
    /\ DownClosed(done)
    /\ done \subseteq executed
    /\ \A w \in Workers : RunRecord(w)
    /\ SucceededRanEverything

\* Nothing is done at first.
LEMMA RecordInit == Init => RecordInv
BY DEF Init, RecordInv, RunRecord, DownClosed, Executing,
       SucceededRanEverything

\* Every step keeps the record.
LEMMA RecordNext == TypeInv /\ RecordInv /\ [Next]_vars => RecordInv'
<1> SUFFICES ASSUME TypeInv, RecordInv, [Next]_vars PROVE RecordInv'
    OBVIOUS
<1> USE JobEngineAssumption
    DEF TypeInv, TypeOK, AtStage, RecordInv, RunRecord, DownClosed, Stages,
        Executing, SucceededRanEverything, row, run, broker, faults, history
<1>1. ASSUME NEW w \in Workers, Receive(w) PROVE RecordInv'
  <2>1. CASE Claim(w)
    <3>1. ASSUME NEW v \in Workers PROVE RunRecord(v)'
      <4>1. CASE v # w
        BY <2>1, <4>1 DEF Claim
      <4>2. CASE v = w
        <5>1. mem'[v] = done /\ pos'[v] = 1 /\ pc'[v] = "loop"
          BY <2>1, <4>2 DEF Claim
        <5>2. executed' = executed
          BY <2>1 DEF Claim
        <5>3. QED
          BY <5>1, <5>2
      <4>3. QED
        BY <4>1, <4>2
    <3>2. UNCHANGED <<done, executed>> /\ status' # "succeeded"
      BY <2>1 DEF Claim
    <3>3. QED
      BY <3>1, <3>2
  <2>2. CASE Drop(w)
    BY <2>2 DEF Drop
  <2>3. QED
    BY <1>1, <2>1, <2>2 DEF Receive
<1>2. ASSUME NEW w \in Workers,
             \/ SeeCancellation(w) \/ EnterStage(w) \/ StartAttempt(w)
      PROVE  RecordInv'
    BY <1>2 DEF SeeCancellation, EnterStage, StartAttempt
<1>3. ASSUME NEW w \in Workers, SkipStage(w) PROVE RecordInv'
    BY <1>3 DEF SkipStage
<1>4. ASSUME NEW w \in Workers, StageSucceeds(w) PROVE RecordInv'
    BY <1>4 DEF StageSucceeds
<1>5. ASSUME NEW w \in Workers, StageRetries(w) \/ StageFails(w)
      PROVE  RecordInv'
    BY <1>5 DEF StageRetries, StageFails
<1>6. ASSUME NEW w \in Workers, CommitStage(w) PROVE RecordInv'
    BY <1>6 DEF CommitStage
<1>7. ASSUME NEW w \in Workers, Succeed(w) PROVE RecordInv'
  <2>1. Stages \subseteq mem[w]
    BY <1>7 DEF Succeed
  <2>2. executed = Stages
    BY <2>1
  <2>3. QED
    BY <1>7, <2>2 DEF Succeed, EndRun
<1>8. ASSUME NEW w \in Workers, Fail(w) \/ Cancel(w) PROVE RecordInv'
    BY <1>8 DEF Fail, Cancel, EndRun
<1>9. ASSUME NEW w \in Workers,
             Redeliver(w) \/ WorkerLost(w) \/ TaskAborted(w)
      PROVE  RecordInv'
    BY <1>9 DEF Redeliver, WorkerLost, TaskAborted
<1>10. ASSUME NEW r \in Requests,
              \/ ReadJob(r) \/ CommitCancel(r) \/ CommitPause(r)
              \/ CommitSupersede(r)
       PROVE  RecordInv'
    BY <1>10 DEF ReadJob, CommitCancel, CommitPause, CommitSupersede
<1>11. ASSUME NEW r \in Requests,
              CommitResume(r) \/ CommitRetry(r) \/ CommitRequeue(r)
       PROVE  RecordInv'
    BY <1>11 DEF CommitResume, CommitRetry, CommitRequeue, PutInQueue
<1>12. CASE Send \/ LoseSend \/ UNCHANGED vars
    BY <1>12 DEF Send, LoseSend, vars
<1>13. QED
    BY <1>1, <1>2, <1>3, <1>4, <1>5, <1>6, <1>7, <1>8, <1>9, <1>10, <1>11,
       <1>12
    DEF Next, EngineStep, Fault, Control

\* It holds throughout.
LEMMA RecordAlways == Spec => [](TypeInv /\ RecordInv)
BY TypeInit, TypeNext, RecordInit, RecordNext, PTL DEF Spec

\* The completed stages of the row are a prefix of the execution order.
THEOREM CommittedStagesArePrefix == Spec => []CommittedIsPrefix
<1>1. RecordInv => CommittedIsPrefix
    BY DEF RecordInv, CommittedIsPrefix
<1>2. QED
    BY <1>1, RecordAlways, PTL

\* A completed job has run every stage.
THEOREM SucceededMeansRun == Spec => []SucceededRanEverything
<1>1. RecordInv => SucceededRanEverything
    BY DEF RecordInv
<1>2. QED
    BY <1>1, RecordAlways, PTL

-----------------------------------------------------------------------------
(* Without re-queues during a run.                                         *)

\* There is one run at a time, it alone writes the record, and it works on a
\* copy that agrees with the row.
QuietInv ==
    /\ SingleRun
    /\ status = "queued" => Quiet
    /\ \A w \in Workers :
          /\ Executing(w) => mem[w] = done
          /\ pc[w] \in {"check", "stage"} => pos[w] \notin mem[w]
    /\ SucceededIsComplete

\* Nothing went wrong at first.
LEMMA QuietInit == Init => QuietInv
BY DEF Init, QuietInv, SingleRun, Quiet, Executing, SucceededIsComplete

\* Every step keeps the invariant of quiet runs.
LEMMA QuietNext ==
    ASSUME QuietRequeue, TypeInv, RecordInv, QuietInv, [Next]_vars
    PROVE  QuietInv'
<1> USE JobEngineAssumption
    DEF TypeInv, TypeOK, AtStage, QuietInv, Stages, SingleRun, Quiet,
        Executing, SucceededIsComplete, row, run, broker, faults, history
<1>1. ASSUME NEW w \in Workers, Receive(w) PROVE QuietInv'
  <2>1. CASE Claim(w)
    BY <2>1 DEF Claim
  <2>2. CASE Drop(w)
    BY <2>2 DEF Drop
  <2>3. QED
    BY <1>1, <2>1, <2>2 DEF Receive
<1>2. ASSUME NEW w \in Workers,
             \/ SeeCancellation(w) \/ EnterStage(w) \/ StartAttempt(w)
      PROVE  QuietInv'
    BY <1>2 DEF SeeCancellation, EnterStage, StartAttempt
<1>3. ASSUME NEW w \in Workers, SkipStage(w) \/ StageSucceeds(w)
      PROVE  QuietInv'
    BY <1>3 DEF SkipStage, StageSucceeds
<1>4. ASSUME NEW w \in Workers, StageRetries(w) \/ StageFails(w)
      PROVE  QuietInv'
    BY <1>4 DEF StageRetries, StageFails
<1>5. ASSUME NEW w \in Workers, CommitStage(w) PROVE QuietInv'
    BY <1>5 DEF CommitStage
<1>6. ASSUME NEW w \in Workers, Succeed(w) PROVE QuietInv'
  <2>1. Stages \subseteq mem[w]
    BY <1>6 DEF Succeed, RecordInv, RunRecord
  <2>2. done = Stages
    BY <2>1, <1>6 DEF Succeed
  <2>3. QED
    BY <1>6, <2>2 DEF Succeed, EndRun
<1>7. ASSUME NEW w \in Workers, Fail(w) \/ Cancel(w) PROVE QuietInv'
    BY <1>7 DEF Fail, Cancel, EndRun
<1>8. ASSUME NEW w \in Workers,
             Redeliver(w) \/ WorkerLost(w) \/ TaskAborted(w)
      PROVE  QuietInv'
    BY <1>8 DEF Redeliver, WorkerLost, TaskAborted
<1>9. ASSUME NEW r \in Requests,
             \/ ReadJob(r) \/ CommitCancel(r) \/ CommitPause(r)
             \/ CommitSupersede(r)
      PROVE  QuietInv'
    BY <1>9 DEF ReadJob, CommitCancel, CommitPause, CommitSupersede
<1>10. ASSUME NEW r \in Requests,
              CommitResume(r) \/ CommitRetry(r) \/ CommitRequeue(r)
       PROVE  QuietInv'
    BY <1>10
    DEF CommitResume, CommitRetry, CommitRequeue, PutInQueue, MayRequeue
<1>11. CASE Send \/ LoseSend \/ UNCHANGED vars
    BY <1>11 DEF Send, LoseSend, vars
<1>12. QED
    BY <1>1, <1>2, <1>3, <1>4, <1>5, <1>6, <1>7, <1>8, <1>9, <1>10, <1>11
    DEF Next, EngineStep, Fault, Control

\* It holds throughout.
LEMMA QuietAlways == QuietRequeue /\ Spec => [](TypeInv /\ RecordInv /\ QuietInv)
<1>1. ASSUME QuietRequeue PROVE Spec => [](TypeInv /\ RecordInv /\ QuietInv)
  <2>1. TypeInv /\ RecordInv /\ QuietInv /\ [Next]_vars => QuietInv'
    BY <1>1, QuietNext
  <2>2. QED
    BY <2>1, QuietInit, RecordAlways, PTL DEF Spec
<1>2. QED
    BY <1>1

\* No two workers run the job at once.
THEOREM RunsDoNotOverlap == QuietRequeue /\ Spec => []SingleRun
<1>1. QuietInv => SingleRun
    BY DEF QuietInv
<1>2. QED
    BY <1>1, QuietAlways, PTL

\* A stage the row records as completed is not started again.
THEOREM CommittedWorkIsKept == QuietRequeue /\ Spec => NeverRedo
<1>1. QuietInv => \A w \in Workers :
          pc[w] = "check" /\ pc'[w] = "stage" => pos[w] \notin done
    BY DEF QuietInv, Executing
<1>2. QED
    BY <1>1, QuietAlways, PTL DEF NeverRedo

\* The record of a completed job is complete.
THEOREM CompletedJobsAreComplete == QuietRequeue /\ Spec => []SucceededIsComplete
<1>1. QuietInv => SucceededIsComplete
    BY DEF QuietInv
<1>2. QED
    BY <1>1, QuietAlways, PTL

-----------------------------------------------------------------------------
(* The safety half of the liveness properties: all that is left to fairness *)
(* is to take the steps there are.                                         *)

\* A job that is queued with nothing to deliver it has lost a send.
StrandedByLoss == Undelivered => lostSends > 0

\* The number of lost sends never falls.
LEMMA LossesGrow == TypeInv /\ [Next]_vars => lostSends' >= lostSends
<1> SUFFICES ASSUME TypeInv, [Next]_vars PROVE lostSends' >= lostSends
    OBVIOUS
<1> USE DEF TypeInv, TypeOK, row, run, broker, faults, history
<1>1. CASE LoseSend
    BY <1>1 DEF LoseSend
<1>2. ASSUME NEW w \in Workers, Receive(w) \/ EngineStep(w)
      PROVE  lostSends' = lostSends
    BY <1>2 DEF Receive, Claim, Drop, EngineStep, SeeCancellation, SkipStage,
                EnterStage, StartAttempt, StageSucceeds, StageRetries,
                StageFails, CommitStage, Succeed, Fail, Cancel, EndRun
<1>3. ASSUME NEW w \in Workers,
             Redeliver(w) \/ WorkerLost(w) \/ TaskAborted(w)
      PROVE  lostSends' = lostSends
    BY <1>3 DEF Redeliver, WorkerLost, TaskAborted
<1>4. ASSUME NEW r \in Requests, Control(r) PROVE lostSends' = lostSends
    BY <1>4 DEF Control, ReadJob, CommitCancel, CommitPause, CommitResume,
                CommitRetry, CommitRequeue, CommitSupersede
<1>5. CASE Send \/ UNCHANGED vars
    BY <1>5 DEF Send, vars
<1>6. QED
    BY <1>1, <1>2, <1>3, <1>4, <1>5 DEF Next, Fault

\* However controls, stale requests, duplicates and lost workers interleave, no
\* queued job waits for a message that was never sent, unless a send was lost.
THEOREM QueuedJobsAreDelivered == Spec => []StrandedByLoss
<1>1. Spec => []TypeInv
    BY TypeInit, TypeNext, PTL DEF Spec
<1>2. Init => StrandedByLoss
    BY DEF Init, StrandedByLoss, Undelivered
<1>3. TypeInv /\ StrandedByLoss /\ [Next]_vars
          /\ [Undelivered' => Undelivered \/ lostSends' > lostSends]_vars
      => StrandedByLoss'
  <2> SUFFICES ASSUME TypeInv, StrandedByLoss, [Next]_vars,
                      [Undelivered' => Undelivered \/ lostSends' > lostSends]_vars,
                      Undelivered'
               PROVE  lostSends' > 0
    BY DEF StrandedByLoss
  <2>1. lostSends \in Nat /\ lostSends' \in Int /\ lostSends' >= lostSends
    BY LossesGrow, TypeNext DEF TypeInv, TypeOK
  <2>2. UNCHANGED vars => Undelivered
    BY DEF vars, row, broker, Undelivered
  <2>3. QED
    BY <2>1, <2>2 DEF StrandedByLoss
<1>4. QED
    BY <1>1, <1>2, <1>3, QueuedStaysDispatched, PTL DEF Spec, QueuedIsDispatched

\* The steps one stage takes at most: it is entered, the row is read and the
\* stage run once per attempt, and it is recorded.
StageSteps == 2 * MaxRetries + 4

\* The stages that a run has not entered.
Ahead(w) == IF pc[w] = "loop" THEN NStages + 1 - pos[w] ELSE NStages - pos[w]

\* The steps to the record of the stage a run is in.
InStage(w) ==
    CASE pc[w] = "loop"   -> 0
      [] pc[w] = "check"  -> 2 * (MaxRetries + 1 - attempt[w]) + 3
      [] pc[w] = "stage"  -> 2 * (MaxRetries + 1 - attempt[w]) + 2
      [] OTHER            -> 1

\* The steps a worker still takes at most in the run it is in.
StepsLeft(w) ==
    CASE pc[w] = "idle"              -> 0
      [] pc[w] \in {"fail", "cancel"} -> 1
      [] OTHER -> StageSteps * Ahead(w) + InStage(w) + 2

\* A run in progress has steps left, and none is longer than every stage with
\* all of its retries.
RunsAreShort ==
    \A w \in Workers : /\ StepsLeft(w) \in 0..(StageSteps * NStages + 2)
                       /\ Executing(w) <=> StepsLeft(w) > 0

\* Whatever other runs, requests and faults do to the row, a run in progress
\* only comes nearer to its end.
RunsShorten ==
    [][\A w \in Workers : Executing(w) =>
          \/ StepsLeft(w)' < StepsLeft(w)
          \/ UNCHANGED <<pc[w], pos[w], mem[w], attempt[w]>>]_vars

\* A product over a difference.
LEMMA OneLess == \A k, a \in Int : k * (a - 1) = k * a - k
OBVIOUS

\* Shorter factors give shorter products.
LEMMA ProductBound ==
    \A k, n \in Nat, a \in Int : 0 <= a /\ a <= n => 0 <= k * a /\ k * a <= k * n
<1>1. \A k, d \in Nat : 0 <= k * d
    OBVIOUS
<1>2. \A k, n, a \in Int : k * (n - a) = k * n - k * a
    OBVIOUS
<1>3. QED
    BY <1>1, <1>2

\* The bound follows from the types.
LEMMA ShortRun == TypeInv => RunsAreShort
<1> SUFFICES ASSUME TypeInv, NEW w \in Workers
             PROVE  /\ StepsLeft(w) \in 0..(StageSteps * NStages + 2)
                    /\ Executing(w) <=> StepsLeft(w) > 0
    BY DEF RunsAreShort
<1> USE JobEngineAssumption
    DEF TypeInv, TypeOK, AtStage, Stages, PCs
<1>1. StageSteps \in Nat /\ NStages \in Nat /\ StageSteps = 2 * MaxRetries + 4
    BY DEF StageSteps
<1>2. CASE pc[w] \in {"idle", "fail", "cancel"}
  <2>1. StageSteps * NStages \in Nat
    BY <1>1
  <2>2. QED
    BY <1>2, <2>1 DEF StepsLeft, Executing
<1>3. CASE pc[w] = "loop"
  <2>1. Ahead(w) \in Int /\ 0 <= Ahead(w) /\ Ahead(w) <= NStages
    BY <1>3 DEF Ahead
  <2>2. 0 <= StageSteps * Ahead(w) /\ StageSteps * Ahead(w) <= StageSteps * NStages
    BY <1>1, <2>1, ProductBound
  <2>3. StepsLeft(w) = StageSteps * Ahead(w) + 2
    BY <1>3, <2>1, <1>1 DEF StepsLeft, InStage
  <2>4. StageSteps * Ahead(w) \in Int /\ StageSteps * NStages \in Int
    BY <1>1, <2>1
  <2>5. QED
    BY <1>3, <2>2, <2>3, <2>4 DEF Executing
<1>4. CASE pc[w] \in {"check", "stage", "commit"}
  <2>1. Ahead(w) \in Int /\ 0 <= Ahead(w) /\ Ahead(w) <= NStages - 1
    BY <1>4 DEF Ahead
  <2>2. Ahead(w) + 1 \in Int /\ 0 <= Ahead(w) + 1 /\ Ahead(w) + 1 <= NStages
    BY <2>1
  <2>3. 0 <= StageSteps * Ahead(w)
    BY <1>1, <2>1, ProductBound
  <2>4. StageSteps * (Ahead(w) + 1) <= StageSteps * NStages
    BY <1>1, <2>2, ProductBound
  <2>5. StageSteps * Ahead(w) = StageSteps * (Ahead(w) + 1) - StageSteps
    BY <1>1, <2>1, OneLess
  <2>6. InStage(w) \in Int /\ 1 <= InStage(w) /\ InStage(w) <= StageSteps
    BY <1>4, <1>1 DEF InStage
  <2>7. StepsLeft(w) = StageSteps * Ahead(w) + InStage(w) + 2
    BY <1>4 DEF StepsLeft
  <2>8. StageSteps * Ahead(w) \in Int /\ StageSteps * NStages \in Int
    BY <1>1, <2>1
  <2>9. StageSteps * (Ahead(w) + 1) \in Int
    BY <1>1, <2>1
  <2>10. \A a, b, c, i, k \in Int :
            /\ 0 <= a /\ b <= c /\ a = b - k
            /\ 1 <= i /\ i <= k
            => a + i + 2 \in 1..(c + 2)
    OBVIOUS
  <2>11. StepsLeft(w) \in 1..(StageSteps * NStages + 2)
    BY <1>1, <2>3, <2>4, <2>5, <2>6, <2>7, <2>8, <2>9, <2>10
  <2>12. QED
    BY <1>4, <2>8, <2>11 DEF Executing
<1>5. QED
    BY <1>2, <1>3, <1>4

\* No run is longer than all stages with all retries.
THEOREM RunsAreBoundedInLength == Spec => []RunsAreShort
<1>1. Spec => []TypeInv
    BY TypeInit, TypeNext, PTL DEF Spec
<1>2. QED
    BY <1>1, ShortRun, PTL

\* A step of its own brings a run nearer to its end.
LEMMA OwnStepShortens ==
    ASSUME TypeInv, NEW w \in Workers, EngineStep(w)
    PROVE  StepsLeft(w)' < StepsLeft(w)
<1> USE JobEngineAssumption
    DEF TypeInv, TypeOK, AtStage, Stages, PCs
<1>1. StageSteps \in Nat /\ StageSteps = 2 * MaxRetries + 4 /\ NStages \in Nat
    BY DEF StageSteps
<1>2. Ahead(w) \in Int /\ StageSteps * Ahead(w) \in Int
    BY <1>1 DEF Ahead
<1>3. CASE SeeCancellation(w) \/ StageFails(w)
  <2>1. StepsLeft(w)' = 1
    BY <1>3 DEF SeeCancellation, StageFails, StepsLeft
  <2>2. pc[w] \in {"loop", "check", "stage"} /\ (pc[w] = "loop" => pos[w] <= NStages)
    BY <1>3 DEF SeeCancellation, StageFails
  <2>3. 0 <= Ahead(w)
    BY <2>2 DEF Ahead
  <2>4. 0 <= StageSteps * Ahead(w)
    BY <1>1, <1>2, <2>3, ProductBound
  <2>5. InStage(w) \in Nat
    BY <2>2 DEF InStage
  <2>6. StepsLeft(w) = StageSteps * Ahead(w) + InStage(w) + 2
    BY <2>2 DEF StepsLeft
  <2>7. \A p \in Int, i \in Nat : 0 <= p => 1 < p + i + 2
    OBVIOUS
  <2>8. QED
    BY <1>2, <2>1, <2>4, <2>5, <2>6, <2>7
<1>4. CASE Succeed(w) \/ Fail(w) \/ Cancel(w)
  <2>1. StepsLeft(w)' = 0
    BY <1>4 DEF Succeed, Fail, Cancel, EndRun, StepsLeft
  <2>2. StepsLeft(w) > 0 /\ StepsLeft(w) \in Int
    BY <1>1, <1>2, <1>4, ShortRun
    DEF RunsAreShort, Executing, Succeed, Fail, Cancel
  <2>3. QED
    BY <2>1, <2>2
<1>5. CASE SkipStage(w)
  <2>1. Ahead(w)' = Ahead(w) - 1
    BY <1>5 DEF SkipStage, Ahead
  <2>2. StageSteps * (Ahead(w) - 1) = StageSteps * Ahead(w) - StageSteps
    BY <1>1, <1>2, OneLess
  <2>3. InStage(w) = 0 /\ InStage(w)' = 0
    BY <1>5 DEF SkipStage, InStage
  <2>4. StepsLeft(w) = StageSteps * Ahead(w) + InStage(w) + 2
    BY <1>5 DEF SkipStage, StepsLeft
  <2>5. StepsLeft(w)' = StageSteps * Ahead(w)' + InStage(w)' + 2
    BY <1>5 DEF SkipStage, StepsLeft, StageSteps
  <2>6. \A p, k \in Int : 0 < k => (p - k) + 0 + 2 < p + 0 + 2
    OBVIOUS
  <2>7. QED
    BY <1>1, <1>2, <2>1, <2>2, <2>3, <2>4, <2>5, <2>6
<1>6. CASE EnterStage(w)
  <2>1. Ahead(w)' = Ahead(w) - 1
    BY <1>6 DEF EnterStage, Ahead
  <2>2. StageSteps * (Ahead(w) - 1) = StageSteps * Ahead(w) - StageSteps
    BY <1>1, <1>2, OneLess
  <2>3. InStage(w) = 0 /\ InStage(w)' = StageSteps - 1
    BY <1>1, <1>6 DEF EnterStage, InStage
  <2>4. StepsLeft(w) = StageSteps * Ahead(w) + InStage(w) + 2
    BY <1>6 DEF EnterStage, StepsLeft
  <2>5. StepsLeft(w)' = StageSteps * Ahead(w)' + InStage(w)' + 2
    BY <1>6 DEF EnterStage, StepsLeft, StageSteps
  <2>6. \A p, k \in Int : (p - k) + (k - 1) + 2 < p + 0 + 2
    OBVIOUS
  <2>7. QED
    BY <1>1, <1>2, <2>1, <2>2, <2>3, <2>4, <2>5, <2>6
<1>7. CASE StartAttempt(w) \/ StageSucceeds(w) \/ StageRetries(w)
  <2>1. Ahead(w)' = Ahead(w)
    BY <1>7 DEF StartAttempt, StageSucceeds, StageRetries, Ahead
  <2>2. InStage(w) \in Int /\ InStage(w)' \in Int /\ InStage(w)' < InStage(w)
    BY <1>7 DEF StartAttempt, StageSucceeds, StageRetries, InStage
  <2>3. StepsLeft(w) = StageSteps * Ahead(w) + InStage(w) + 2
    BY <1>7 DEF StartAttempt, StageSucceeds, StageRetries, StepsLeft
  <2>4. StepsLeft(w)' = StageSteps * Ahead(w)' + InStage(w)' + 2
    BY <1>7 DEF StartAttempt, StageSucceeds, StageRetries, StepsLeft, StageSteps
  <2>5. \A p, i, j \in Int : i < j => p + i + 2 < p + j + 2
    OBVIOUS
  <2>6. QED
    BY <1>2, <2>1, <2>2, <2>3, <2>4, <2>5
<1>8. CASE CommitStage(w)
  <2>1. Ahead(w)' = Ahead(w)
    BY <1>8 DEF CommitStage, Ahead
  <2>2. InStage(w) = 1 /\ InStage(w)' = 0
    BY <1>8 DEF CommitStage, InStage
  <2>3. StepsLeft(w) = StageSteps * Ahead(w) + InStage(w) + 2
    BY <1>8 DEF CommitStage, StepsLeft
  <2>4. StepsLeft(w)' = StageSteps * Ahead(w)' + InStage(w)' + 2
    BY <1>8 DEF CommitStage, StepsLeft, StageSteps
  <2>5. \A p \in Int : p + 0 + 2 < p + 1 + 2
    OBVIOUS
  <2>6. QED
    BY <1>2, <2>1, <2>2, <2>3, <2>4, <2>5
<1>9. QED
    BY <1>3, <1>4, <1>5, <1>6, <1>7, <1>8 DEF EngineStep

\* Nobody else touches what a run keeps, but a fault that ends it.
LEMMA OthersLeaveRun ==
    ASSUME TypeInv, Next, NEW w \in Workers, Executing(w), ~EngineStep(w)
    PROVE  \/ pc'[w] = "idle"
           \/ UNCHANGED <<pc[w], pos[w], mem[w], attempt[w]>>
<1> USE DEF TypeInv, TypeOK, row, run, broker, faults, history, Executing
<1>1. CASE Send \/ LoseSend
    BY <1>1 DEF Send, LoseSend
<1>2. ASSUME NEW v \in Workers, Receive(v)
      PROVE  UNCHANGED <<pc[w], pos[w], mem[w], attempt[w]>>
    BY <1>2 DEF Receive, Claim, Drop
<1>3. ASSUME NEW v \in Workers, EngineStep(v)
      PROVE  UNCHANGED <<pc[w], pos[w], mem[w], attempt[w]>>
  <2>1. v # w
    BY <1>3
  <2>2. QED
    BY <1>3, <2>1
    DEF EngineStep, SeeCancellation, SkipStage, EnterStage, StartAttempt,
        StageSucceeds, StageRetries, StageFails, CommitStage, Succeed, Fail,
        Cancel, EndRun
<1>4. ASSUME NEW v \in Workers,
             Redeliver(v) \/ WorkerLost(v) \/ TaskAborted(v)
      PROVE  \/ pc'[w] = "idle"
             \/ UNCHANGED <<pc[w], pos[w], mem[w], attempt[w]>>
    BY <1>4 DEF Redeliver, WorkerLost, TaskAborted
<1>5. ASSUME NEW r \in Requests, Control(r)
      PROVE  UNCHANGED <<pc[w], pos[w], mem[w], attempt[w]>>
    BY <1>5 DEF Control, ReadJob, CommitCancel, CommitPause, CommitResume,
                CommitRetry, CommitRequeue, CommitSupersede
<1>6. QED
    BY <1>1, <1>2, <1>3, <1>4, <1>5 DEF Next, Fault

\* No retry, resumption or interference makes a run longer: each of its steps
\* brings it nearer to its end.
THEOREM RunsComeToAnEnd == Spec => RunsShorten
<1>1. Spec => []TypeInv
    BY TypeInit, TypeNext, PTL DEF Spec
<1>2. TypeInv /\ [Next]_vars =>
          [\A w \in Workers : Executing(w) =>
              \/ StepsLeft(w)' < StepsLeft(w)
              \/ UNCHANGED <<pc[w], pos[w], mem[w], attempt[w]>>]_vars
  <2> SUFFICES ASSUME TypeInv, Next, NEW w \in Workers, Executing(w)
               PROVE  \/ StepsLeft(w)' < StepsLeft(w)
                      \/ UNCHANGED <<pc[w], pos[w], mem[w], attempt[w]>>
    OBVIOUS
  <2>1. CASE EngineStep(w)
    BY <2>1, OwnStepShortens
  <2>2. CASE pc'[w] = "idle"
    <3>1. StepsLeft(w)' = 0
      BY <2>2 DEF StepsLeft
    <3>2. StepsLeft(w) > 0 /\ StepsLeft(w) \in Int
      BY ShortRun, JobEngineAssumption DEF RunsAreShort, StageSteps
    <3>3. QED
      BY <3>1, <3>2
  <2>3. QED
    BY <2>1, <2>2, OthersLeaveRun
<1>3. QED
    BY <1>1, <1>2, PTL DEF Spec, RunsShorten

\* A cancellation is requested of a job that nobody runs.
Unanswered == status = "cancellation_requested" /\ Quiet

\* The steps that leave a cancellation request without a run to answer it: the
\* loss of the run, and a request that read RUNNING and writes after its end.
CancellationIsAnswered ==
    [][Unanswered' =>
          \/ Unanswered
          \/ crashes' > crashes
          \/ \E r \in Requests : CommitCancel(r) /\ req[r].seen = "running"]_vars

\* A run that was asked to stop does not end without an answer, whatever it
\* was doing when it was asked.
THEOREM CancellationsAreAnswered == Spec => CancellationIsAnswered
<1>1. Spec => []TypeInv
    BY TypeInit, TypeNext, PTL DEF Spec
<1>2. TypeInv /\ [Next]_vars =>
          [Unanswered' =>
              \/ Unanswered
              \/ crashes' > crashes
              \/ \E r \in Requests : CommitCancel(r) /\ req[r].seen = "running"]_vars
  <2> SUFFICES ASSUME TypeInv, Next, Unanswered'
               PROVE  \/ Unanswered
                      \/ crashes' > crashes
                      \/ \E r \in Requests :
                             CommitCancel(r) /\ req[r].seen = "running"
    OBVIOUS
  <2> USE DEF TypeInv, TypeOK, Unanswered, Quiet, Executing,
              row, run, broker, faults, history
  <2>1. CASE Send \/ LoseSend
    BY <2>1 DEF Send, LoseSend
  <2>2. ASSUME NEW w \in Workers, Receive(w) PROVE Unanswered
    BY <2>2 DEF Receive, Claim, Drop
  <2>3. ASSUME NEW w \in Workers, Succeed(w) \/ Fail(w) \/ Cancel(w)
        PROVE  Unanswered
    BY <2>3 DEF Succeed, Fail, Cancel, EndRun
  <2>4. ASSUME NEW w \in Workers,
               \/ SeeCancellation(w) \/ SkipStage(w) \/ EnterStage(w)
               \/ StartAttempt(w) \/ StageSucceeds(w) \/ StageRetries(w)
               \/ StageFails(w) \/ CommitStage(w)
        PROVE  Unanswered
    <3>1. pc[w] # "idle" /\ pc'[w] # "idle"
      BY <2>4 DEF SeeCancellation, SkipStage, EnterStage, StartAttempt,
                  StageSucceeds, StageRetries, StageFails, CommitStage
    <3>2. QED
      BY <3>1
  <2>5. ASSUME NEW w \in Workers, Redeliver(w) PROVE Unanswered
    BY <2>5 DEF Redeliver
  <2>6. ASSUME NEW w \in Workers, WorkerLost(w) \/ TaskAborted(w)
        PROVE  crashes' > crashes
    BY <2>6 DEF WorkerLost, TaskAborted
  <2>7. ASSUME NEW r \in Requests, CommitCancel(r), req[r].seen # "running"
        PROVE  Unanswered
    BY <2>7 DEF CommitCancel
  <2>8. ASSUME NEW r \in Requests,
               \/ ReadJob(r) \/ CommitPause(r) \/ CommitResume(r)
               \/ CommitRetry(r) \/ CommitRequeue(r) \/ CommitSupersede(r)
        PROVE  Unanswered
    BY <2>8 DEF ReadJob, CommitPause, CommitResume, CommitRetry,
                CommitRequeue, CommitSupersede, PutInQueue
  <2>9. QED
    BY <2>1, <2>2, <2>3, <2>4, <2>5, <2>6, <2>7, <2>8
    DEF Next, EngineStep, Fault, Control
<1>3. QED
    BY <1>1, <1>2, PTL DEF Spec, CancellationIsAnswered
=============================================================================
