\* A worker is lost in the middle of a run; nobody touches the job.
SPECIFICATION Spec
CONSTANTS
    Workers = {w1, w2}
    Requests = {r1}
    NStages = 2
    Retryable = {1}
    MaxRetries = 1
    Controls = {}
    QuietRequeue = TRUE
    Faults = {"worker_lost"}
    MaxFaults = 1
INVARIANT NoJobLost
CHECK_DEADLOCK FALSE
