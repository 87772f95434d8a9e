CONSTANTS
    a = a
    b = b
    d = d
    n = n
    x = x
    y = y
    w = w
    q = q
    NoTable = NoTable
    Unknown = Unknown
    TableNames = {a, b, d, n}
    ColumnNames = {x, y, w, q}
    Columns <- TableColumns
    Indexes <- IndexList
    Values = {0, 1}
    Rows <- TableRows
    Texts <- Statements
    Operators = {"=", "<", "column"}
    Comparison <- Compared
    Depth = 3
SPECIFICATION Spec
INVARIANTS
    TypeOK
    RowsPassBoundPart
    ResultFitsSelectList
    SameBinding
    IndexedByClause
    UndefinedOnlyUnchecked
CHECK_DEADLOCK FALSE
