CONSTANTS
    TableName <- Tables
    IndexName <- Indexes
    Wanted <- WantedOnRetry
    kSchemaTableName <- SchemaTableName
    kSchemaIndexName <- SchemaIndexName
    Faults = {"open", "put", "associate", "dbremove"}
    MaxFaults = 1
    MaxCrashes = 1
SPECIFICATION FairSpec
INVARIANTS
    ClosedHandlesWereCut
    DroppedForGood
PROPERTIES
    CallsReturn
CHECK_DEADLOCK FALSE
