CONSTANTS
    None = None
    Silence = 2
    ActiveFor = 3
    MinEvidence = 2
    BackoffLimit = 1
    MaxKeys = 2
    Environments = {{"remove", "giveup", "timer", "busy"}, {"giveup", "busy", "end"}}
SPECIFICATION FairSpec
PROPERTY EvidenceActs
PROPERTY HookReturns
