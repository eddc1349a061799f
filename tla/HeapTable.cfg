\* Pages of 8 KB; rows that fill a page to the last byte or miss it by one.
SPECIFICATION Spec
CONSTANTS
    PAGE_SIZE = 8192
    Schema <- Columns
    RightSchema <- RightColumns
    Tuples <- Offered
    MaxInserts = 3
    MaxDeletes = 2
    Wheres <- Statements
    JoinWheres <- OverBoth
    JoinColumns <- OnEither
    ChunkSizes = {1, 2, 3, 4}
CHECK_DEADLOCK FALSE
INVARIANTS LayoutIsSound RowsAreFound QueriesAreExact
PROPERTIES PagesAreFilled
