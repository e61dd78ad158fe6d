SPECIFICATION WholeSpec
CONSTANTS
    j1 = j1
    Stack <- DevStack
    DirCount = 6
    StepAfter <- DevSteps
    Entry = {"destroy"}
    Job = {j1}
    Serial = TRUE
    Parallel = 2
    StaleLocks = 1
    Careful = TRUE
INVARIANT RetryPicksUp
