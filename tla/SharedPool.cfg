\* The statement thread with up to two pins and the checkpointer, on two frames
\* and three pages.  Any write of a page may fail.
SPECIFICATION FairSharedSpec
CONSTANTS
    pool_size = 2
    Files = {file}
    MaxPages = 3
    Threads = {stmt, cp}
    Statements = {stmt}
    Checkpointers = {cp}
    MaxPins = 2
    MaxWrites = 1
    MaxLosses = 0
    Faults = {"write"}
    Stamps = {TRUE}
    GuardsAcrossCalls = TRUE
    NoPage = NoPage
    NoThread = NoThread
INVARIANTS Bookkeeping CheckpointMeetsNoGuard
PROPERTIES CallsReturn
