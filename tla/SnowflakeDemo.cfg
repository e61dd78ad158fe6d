SPECIFICATION FairSpec
CONSTANTS
    MAX_PEELS = 2
    MaxActs = 6
    MaxFaults = 2
INVARIANTS TypeOK GreenMeansFree
PROPERTIES NoGhostOfItsOwn EveryRunEnds EventuallyDown
