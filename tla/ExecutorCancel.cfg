CONSTANTS
    None = None
    Capacity <- MCCapacity
    Macros <- MCMacros
    Longest = 1
    MaxTries = 1
    MaxJobs <- MCMaxJobs
    MaxWakes = 2
    Environments <- MCCancel
SPECIFICATION Spec
INVARIANT CancelledNeverRuns
CHECK_DEADLOCK FALSE
