SPECIFICATION Spec
CONSTANTS
    Keys = {k1, k2}
    MaxRows = 4
    MaxDeletes = 2
    PageSlots = 2
    MaxHeap = 4
    MaxCheckpoints = 2
    MaxCrashes = 2
    MaxFaults = 1
    Faults = {"page", "log", "tear"}
    Starts <- ShortOfSteal
SYMMETRY Symmetry
CHECK_DEADLOCK FALSE
CONSTRAINT Small
INVARIANTS RowsAreDurable IndexMatchesHeap CountIsRows RecoveryCompletes Recoverable
PROPERTIES DeletionsAfterLog
