CONSTANTS
    lshift = lshift
    shift = shift
    keyA = keyA
    keyB = keyB
    Always = Always
    app = app
    None = None
    Garbled = Garbled
    v = v
    w = w
    editor = editor
    browser = browser
    Daemon = Daemon
    other = other
    Key = {lshift, keyA, keyB}
    Generic = {shift}
    Sided = {lshift}
    Menu = {}
    Pair <- ShiftPair
    Family <- Families
    Condition = {Always, app, other}
    Files <- MCFiles
    Sent <- MCSent
    Views <- MCViews
    MaxTime = 3
    MaxLog = 3
    MaxReset = 1
SPECIFICATION PartSpec
INVARIANTS
    OneWinner
    ChordsByClock
    SequencesByClock
    TablesKept
    HotkeyKept
    LoadedRight
    FileKept
    AppTrue
CHECK_DEADLOCK FALSE
