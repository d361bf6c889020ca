\* An operator pauses a running job and resumes it.
SPECIFICATION Spec
CONSTANTS
    Workers = {w1, w2}
    Requests = {r1, r2}
    NStages = 2
    Retryable = {1}
    MaxRetries = 1
    Controls = {"pause", "resume"}
    QuietRequeue = FALSE
    Faults = {}
    MaxFaults = 0
INVARIANT SingleRun
CHECK_DEADLOCK FALSE
