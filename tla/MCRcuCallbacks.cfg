SPECIFICATION Spec
CONSTANTS
    Readers = {r1}
    Writers = {w1, w2}
    Objects = {o1, o2, o3}
    Deferring = {w1, w2}
    NumWriters = {1, 2}
    ReaderMod = 4
    IdMod = 3
    MaxDepth = 1
SYMMETRY Symmetry
INVARIANTS
    NothingLeaked
