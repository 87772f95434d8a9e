CONSTANTS
    MaxRels = 3
    MaxRows = 3
    Queries <- Statements
    Faults = {"openCursor", "cursor", "get"}
    MaxFaults = 2
    Comparison <- Compared
    Depth = 3
SPECIFICATION FairSpec
INVARIANTS
    TypeOK
    OuterRowIsCurrent
    RowsSelectedOnce
    AnswerOfFirstTable
PROPERTIES
    ImplementsSelect
    Answered
CHECK_DEADLOCK FALSE
