SPECIFICATION Spec
CONSTANTS
    Jobs = {j1, j2}
    Workers = {w1, w2}
    Operators = {o1}
    NoJob = NoJob
    MaxFiles = 2
    MaxRequests = 2
INVARIANT SupersededRunsAreHarmless
CHECK_DEADLOCK FALSE
