\* Two clients of one thread with two descriptors each; the pool of the first
\* use, without a limit, or one of one job.
SPECIFICATION Spec
CONSTANTS
    Clients = {c1, c2}
    Jobs = {j1, j2}
    Keys = {k1, k2}
    LibCtxs = {l1, l2}
    Top = Top
    NoJob = NoJob
    NoClient = NoClient
    MaxSizes = {1}
    MinNodes = 4
    MaxBlocked = 1
SYMMETRY Interchangeable
INVARIANTS TypeOK JobsAccounted Isolated FdsTracked
