CONSTANTS
    None = None
    Other = Other
    v = v
    w = w
    main = main
    worker = worker
    Nobody = Nobody
    Window = {v, w}
    Copies <- MCCopies
    Delays = {1, 3}
    ChainLimit = 2
    ModifierLimit = 1
    OpenBackoff <- MCBackoff
    HungLimit = 4
    TargetRetry = 1
    Settle = 1
    RestoreLimit = 2
    ClosingLimit = 1
    MaxPastes = 2
    MaxMoves = 2
    MaxTime = 8
    Environments = {{"copy", "hold"}, {"hung", "gone"}, {"hold", "user"}, {"user", "cancel", "slow"}, {"hold", "stop"}, {"hung", "timer", "hold"}, {"refuse"}, {"copy", "hung"}}
    LogEnvironments = {{"flush", "minute", "selection", "slow"}, {"panic", "selection"}, {"gone", "panic"}, {"none", "panic", "selection"}, {"fatal", "selection"}, {"long", "refusal", "delete", "earlier"}, {"long", "delete"}}
SYMMETRY Windows
SPECIFICATION PartSpec
PROPERTY ClipboardBack
PROPERTY CopiesKept
PROPERTY PhraseRead
INVARIANT FlushTold
INVARIANT FilesWhole
INVARIANT HeldBriefly
CHECK_DEADLOCK FALSE
