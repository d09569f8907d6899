CONSTANTS
    None = None
    lalt = lalt
    a = a
    alt = alt
    lshift = lshift
    rshift = rshift
    shift = shift
SPECIFICATION Spec
INVARIANT PressWhole
PROPERTY MaskRule
PROPERTY Healed
