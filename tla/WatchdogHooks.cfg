CONSTANTS
    None = None
    LiveEnvironments = {{"backlog", "late", "timer"}, {"busy", "late", "timer", "full", "away", "end"}}
    DeadEnvironments = {{"remove", "refuse", "giveup", "timer", "full", "busy", "late"}, {"remove", "refuse", "giveup", "full", "backlog", "late", "held"}}
SPECIFICATION Spec
INVARIANT StatusTrue
PROPERTY SpacedOut
PROPERTY LiveHookKept
