\* Two units of audio are enough for one to be recorded after the last timeslice.
SPECIFICATION LiveSpec
CONSTANTS
    MaxHeard = 2
    MaxPauses = 0
    MinFinalize = 2
INVARIANT RecordingIsWhole
CHECK_DEADLOCK FALSE
