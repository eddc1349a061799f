\* Six keys in leaves and internal nodes of two: the climb of splits reaches a
\* third level, leaves get empty and are merged, and a leaf left alone under
\* its parent stays empty in the chain.
SPECIFICATION Spec
CONSTANTS
    Keys = {1, 2, 3, 4, 5, 6}
    CTIDs <- OneEach
    leaf_max_keys = 2
    internal_max_keys = 2
    MaxPages = 9
    MaxDeletes = 3
    INVALID_PAGE_ID = INVALID_PAGE_ID
INVARIANTS TreeIsSound SearchFindsEntries RangeSearchIsComplete NoEmptyLeafBesideAnother
PROPERTIES ImplementsIndex
