\* The same threads and sessions, with a hash table whose insertion may fail.
SPECIFICATION Spec
CONSTANTS
    Threads = {t1, t2}
    Sessions = {s1, s2, s3}
    Ids = {i1, i2, i3}
    NoSession = NoSession
    CacheSizes = {0, 3}
    MaxTime = 2
    UpdatesTime = TRUE
    TableFails = TRUE
    StackFails = TRUE
SYMMETRY Interchangeable
CHECK_DEADLOCK FALSE
INVARIANT NotInsertedNotListed
