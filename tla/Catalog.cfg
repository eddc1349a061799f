SPECIFICATION Spec
CONSTANTS
    Names = {t, demo_users}
    DemoTable = demo_users
    MaxKey = 1
    DemoCount = 1
    Faults = {"open", "write", "rename"}
    MaxCreates = 2
    MaxRows = 2
    MaxDeletes = 1
    MaxCheckpoints = 1
    MaxCrashes = 2
    MaxFaults = 2
    MaxResets = 1
CHECK_DEADLOCK FALSE
INVARIANTS RelationsAreOwned StatementsAreSaved NewTablesAreEmpty TablesHoldTheirRows CountIsNeverTooHigh
PROPERTIES ImplementsSavedValue
CONSTRAINT OneThingWithReset
