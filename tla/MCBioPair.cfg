SPECIFICATION Spec
CONSTANTS
    Sides = {a, b}
    Writers = {a}
    Bytes = {x, y}
    MaxCall = 3
    Sizes = {2, 3}
    DefaultSize = 3
    NoBuf = NoBuf
    Junk = Junk
INVARIANTS StructComments TwoCallsEnough
PROPERTY IsPipe
CHECK_DEADLOCK FALSE
