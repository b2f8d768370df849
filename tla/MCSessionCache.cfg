\* A session may be handed out again once it is freed.  The process may stop: a
\* crash in SSL_SESSION_set_timeout ends it.
SPECIFICATION Spec
CONSTANTS
    Threads = {t1, t2}
    Sessions = {s1, s2, s3}
    Ids = {i1, i2, i3}
    NoSession = NoSession
    CacheSizes = {0, 1, 3}
    MaxTime = 2
    UpdatesTime = TRUE
    TableFails = FALSE
    StackFails = TRUE
SYMMETRY Interchangeable
CHECK_DEADLOCK FALSE
INVARIANTS TypeOK RefsExact CacheAgrees
PROPERTY FlushExact
