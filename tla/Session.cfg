SPECIFICATION Spec
CONSTANTS
    Statements <- Meant
    Followers <- Shorter
    Commands = {"checkpoint", "exit"}
    Comments <- NoteTexts
    MaxStatements = 2
    MaxOdd = 1
CHECK_DEADLOCK FALSE
INVARIANTS ExecutesAsMeant
