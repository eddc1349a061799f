SPECIFICATION Spec
CONSTANTS
    Keys = {k1, k2}
    MaxRows = 2
    MaxDeletes = 1
    PageSlots = 2
    MaxHeap = 2
    MaxCheckpoints = 0
    MaxCrashes = 2
    MaxFaults = 1
    Faults = {"tear"}
    Starts <- Calm
SYMMETRY Symmetry
CHECK_DEADLOCK FALSE
INVARIANTS StatementsAreDurable
