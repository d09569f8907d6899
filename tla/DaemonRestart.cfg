CONSTANTS
    p = p
    None = None
    Client = {p}
    Capacity = 2
    MaxAsks = 2
    MaxSaves = 2
    Environments <- MCRestart
SPECIFICATION Spec
INVARIANT RestartNotRefused
CHECK_DEADLOCK FALSE
