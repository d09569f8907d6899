CONSTANTS
    lalt = lalt
    a = a
    None = None
    Key = {lalt, a}
    Sided = {lalt}
    Generic = {}
    Menu = {lalt}
    Pair <- NoPair
    Feature = {"hidden", "inject", "desktop", "switch", "unhook", "chord"}
SPECIFICATION Spec
INVARIANTS
    TypeOK
    NothingStuck
    PressWhole
    FlagsMatch
PROPERTY NoLoneKeyUp
