\* Two threads on two frames and three pages: hits, misses, evictions and
\* flushes of frames that another thread has pinned or is modifying; writes of
\* pages may fail, before or after the bytes are in the file, the log may fail
\* to be forced before them, and so may reads.
SPECIFICATION Spec
CONSTANTS
    pool_size = 2
    Files = {file}
    MaxPages = 3
    Threads = {t1, t2}
    MaxPins = 1
    MaxWrites = 1
    MaxLosses = 0
    Faults = {"read", "write", "log"}
    Stamps = {TRUE, FALSE}
    GuardsAcrossCalls = FALSE
    NoPage = NoPage
    NoThread = NoThread
SYMMETRY Symmetry
CONSTRAINT FailedReadsAlone
INVARIANTS MappingConsistent PinsExact PinnedPageStays CleanFrameMatchesFile
PROPERTIES FlushAllIsComplete
