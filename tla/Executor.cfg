CONSTANTS
    None = None
    Capacity <- MCCapacity
    Macros <- MCMacros
    Longest = 1
    MaxTries = 1
    MaxJobs <- MCMaxJobs
    MaxWakes = 2
    Environments <- MCEnvironments
SPECIFICATION FairSpec
INVARIANT NoneForgotten
INVARIANT CancelledNeverRuns
PROPERTY JobsInOrder
PROPERTY JobsBegin
PROPERTY StopEnds
CHECK_DEADLOCK FALSE
