\* Operators who re-queue a job only when no run of it is in progress.
SPECIFICATION FairSpec
CONSTANTS
    Workers = {w1, w2}
    Requests = {r1, r2}
    NStages = 2
    Retryable = {1}
    MaxRetries = 1
    Controls = {"cancel", "pause", "resume", "retry", "requeue", "supersede"}
    QuietRequeue = TRUE
    Faults = {"lost_send", "redelivery", "worker_lost", "task_aborted"}
    MaxFaults = 1
INVARIANTS
    SingleRun
PROPERTIES
    NeverRedo
    JobSettles
CHECK_DEADLOCK FALSE
