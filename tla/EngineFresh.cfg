SPECIFICATION Spec
CONSTANTS
    Keys = {k1, k2}
    MaxRows = 3
    MaxDeletes = 1
    PageSlots = 2
    MaxHeap = 3
    MaxCheckpoints = 0
    MaxCrashes = 1
    MaxFaults = 0
    Faults = {}
    Starts <- New
SYMMETRY Symmetry
CHECK_DEADLOCK FALSE
INVARIANTS RecoveryCompletes
