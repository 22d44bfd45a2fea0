SPECIFICATION Spec
CONSTANTS
    j1 = j1
    j2 = j2
    j3 = j3
    Jobs = {j1, j2, j3}
    MaxConcurrent = 1
    FlushBatch = 2
    HasFallback = TRUE
    PostTime = 0
    MaxAge = 2
    MaxFails = 2
INVARIANTS
    ReportedPromptly
CHECK_DEADLOCK FALSE
