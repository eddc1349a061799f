\* One thread that pins up to three pages at a time in two frames, with one
\* dropped relation, whose frames stay in the queue, or one crash, after which
\* the LSNs start again at 1 while the pages in the file keep the old ones.
SPECIFICATION Spec
CONSTANTS
    pool_size = 2
    Files = {file}
    MaxPages = 3
    Threads = {t1}
    MaxPins = 3
    MaxWrites = 2
    MaxLosses = 1
    Faults = {}
    Stamps = {TRUE}
    GuardsAcrossCalls = FALSE
    NoPage = NoPage
    NoThread = NoThread
CONSTRAINT PinsOrWrites
INVARIANTS UnpinnedIsEvictable WALBeforeData
PROPERTIES ImplementsStore NoFreeFramesMeansAllPinned EvictsLeastRecentlyUsed AllocatedPageIsBlank
