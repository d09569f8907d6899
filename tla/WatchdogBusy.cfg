CONSTANTS
    None = None
    Silence = 2
    ActiveFor = 4
    MinEvidence = 2
    BackoffLimit = 0
    MaxKeys = 4
    Environments = {{"busy", "backlog"}}
SPECIFICATION Spec
PROPERTY LiveHookKept
