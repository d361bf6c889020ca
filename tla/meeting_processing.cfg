\* Two jobs, two workers, two versions of the recording.
SPECIFICATION FairSpec
CONSTANTS
    Jobs = {j1, j2}
    Workers = {w1, w2}
    Operators = {o1}
    NoJob = NoJob
    MaxFiles = 2
    MaxRequests = 2
INVARIANTS
    OneActiveJob
    InFlight
    CompletedRunIsShown
PROPERTY MeetingSettles
CHECK_DEADLOCK FALSE
