SPECIFICATION FairSpec
CONSTANTS
    Modes = {"public", "private"}
    Switching = TRUE
    InBand = {TRUE}
    MaxDeploys = 2
PROPERTY FullRunIsCorrect
