CONSTANTS
    Column <- Columns
    Value = {1, 2}
    IndexName <- Indexes
    KeyColumn <- ColumnOf
    UniqueIndex <- UniqueOnes
    Statements <- Changes
    Faults = {"openCursor", "cursor", "get", "put", "commit"}
    MaxRows = 2
SPECIFICATION Spec
INVARIANTS
    TypeOK
    IndexFitsTable
    NewRowsUnique
PROPERTIES
    EffectIsPrefix
