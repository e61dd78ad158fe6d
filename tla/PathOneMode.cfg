SPECIFICATION FairSpec
CONSTANTS
    Modes = {"public", "private"}
    Switching = FALSE
    InBand = {TRUE, FALSE}
    MaxDeploys = 3
INVARIANTS TypeOK NothingBlocks GreenDeployWorks GreenDestroyLeavesNothing NothingDangles SettledRetryWins SkippedMeansEmpty
PROPERTIES  ResourcesInOrder
