CONSTANTS
    TableName <- Tables
    IndexName <- Indexes
    Wanted <- WantedOnFault
    kSchemaTableName <- SchemaTableName
    kSchemaIndexName <- SchemaIndexName
    Faults = {"open", "put", "associate", "openCursor", "cursor", "dbremove"}
    MaxFaults = 2
    MaxCrashes = 1
SPECIFICATION Spec
INVARIANTS
    RowsHavePhysical
    RowsNotShared
    OrphansWereCut
CHECK_DEADLOCK FALSE
