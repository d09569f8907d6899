CONSTANTS
    p = p
    None = None
    Client = {p}
    Capacity = 2
    MaxAsks = 2
    MaxSaves = 2
    Environments <- MCEnvironments
SPECIFICATION Spec
INVARIANTS
    AnswersTrue
    SavedIsLive
    KeysNotHeld
    WakesKept
PROPERTY Ends
CHECK_DEADLOCK FALSE
