\* A recording of three units of audio, two of them worth a meeting, with two pauses;
\* two imports of one source, two workers, one cancel request, lost worker or
\* repeated delivery.
SPECIFICATION CaptureFairSpec
CONSTANTS
    MaxHeard = 3
    MaxPauses = 2
    MinFinalize = 2
    Sessions = {s1, s2}
    NoSession = NoSession
    Workers = {w1, w2}
    MaxMeetings = 2
    MaxUpsets = 1
INVARIANTS
    CompletedHoldsSent
    OneMeeting
    OneMeetingPerSource
    CompletedIsProcessed
PROPERTIES
    RecordingSettles
    CancelHolds
    ImportSettles
CHECK_DEADLOCK FALSE
