SPECIFICATION FairSpec
CONSTANTS
    NumWorkers = 4
    Interval <- MCInterval
    Cap = 12
    Millisecond = 2
    MaxPerform = 2
    Jitter = 2
    MaxLosses = 1
INVARIANT Punctual
PROPERTY AgainAndAgain
