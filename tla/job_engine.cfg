\* Every control, raced by stale requests, with faults.
SPECIFICATION Spec
CONSTANTS
    Workers = {w1, w2}
    Requests = {r1, r2, r3}
    NStages = 2
    Retryable = {1}
    MaxRetries = 1
    Controls = {"cancel", "pause", "resume", "retry", "requeue", "supersede"}
    QuietRequeue = FALSE
    Faults = {"lost_send", "redelivery", "worker_lost", "task_aborted"}
    MaxFaults = 1
SYMMETRY Symmetry
INVARIANTS
    CommittedIsPrefix
    SucceededRanEverything
PROPERTIES
    QueuedIsDispatched
    ImplementsLifecycle
CHECK_DEADLOCK FALSE
