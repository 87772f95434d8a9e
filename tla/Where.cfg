CONSTANTS
    r1 = r1
    r2 = r2
    r3 = r3
    x = x
    NoTable = NoTable
    Unknown = Unknown
    TableNames = {r1, r2, r3}
    ColumnNames = {x}
    Columns <- TableColumns
    Indexes <- NoIndexes
    Values = {1}
    Rows <- NoRows
    Operators = {"="}
    Texts <- AllSelects
    Comparison <- Compared
    Depth = 4
SPECIFICATION Spec
INVARIANTS
    MeaningKept
    RootEvaluatesWhole
    NoRowDroppedUnlessMixed
CHECK_DEADLOCK FALSE
