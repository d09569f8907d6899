CONSTANTS
    a = a
    b = b
    None = None
    Key = {a, b}
    Group <- Groups
    Modifiers = {a}
    Refusals = TRUE
    MaxTime = 4
    MaxSeq = 4
    MaxReset = 1
SPECIFICATION WorldSpec
INVARIANTS
    OutcomeByClock
    EntriesKept
PROPERTY TimersRun
