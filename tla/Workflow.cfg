SPECIFICATION Spec
CONSTANTS
    j1 = j1
    Stack <- DevStack
    DirCount = 6
    StepAfter <- DevSteps
    Entry = {"deploy", "destroy"}
    Job = {j1}
    Serial = TRUE
    Parallel = 2
    StaleLocks = 1
    Careful = TRUE
INVARIANTS TypeOK NoMissingPrerequisite DestroyedMeansGone DeployStopsAtFailure LoopHonoursOrder
