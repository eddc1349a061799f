\* Three threads, inside the log at the same time or taking turns, one
\* checkpoint and one restart; writes fail, and a crash may tear the record
\* being written.
SPECIFICATION Spec
CONSTANTS
    Threads = {t1, t2, t3}
    MaxRecords = 3
    MaxTruncations = 1
    MaxCrashes = 1
    Faults = {"write", "tear"}
SYMMETRY Symmetry
INVARIANTS EveryRecordOnce FlushedLsnIsTrue
PROPERTIES FlushedIsDurable ImplementsLog
