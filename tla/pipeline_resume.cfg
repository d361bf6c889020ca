\* One failure and one retry.
SPECIFICATION PipelineSpec
CONSTANT MaxRuns = 2
INVARIANT ResumedRunLacksNothing
CHECK_DEADLOCK FALSE
