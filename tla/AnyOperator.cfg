SPECIFICATION FairSpec
CONSTANTS
    j1 = j1
    j2 = j2
    Stack <- SmallStack
    DirCount = 2
    StepAfter <- SmallSteps
    Entry = {"deploy", "destroy", "make-apply", "make-destroy"}
    Job = {j1}
    Serial = TRUE
    Parallel = 3
    StaleLocks = 1
    Careful = FALSE
INVARIANTS NothingFloats
PROPERTIES JobTerminates LayeredSpec
