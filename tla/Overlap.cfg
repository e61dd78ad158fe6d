SPECIFICATION FairSpec
CONSTANTS
    j1 = j1
    j2 = j2
    Stack <- SmallStack
    DirCount = 2
    StepAfter <- SmallSteps
    Entry = {"deploy", "destroy"}
    Job = {j1, j2}
    Serial = FALSE
    Parallel = 2
    StaleLocks = 1
    Careful = TRUE
INVARIANTS LockExclusion NoOrphanLock
PROPERTIES JobsOnlyMoveOn
