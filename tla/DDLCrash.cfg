CONSTANTS
    TableName <- Tables
    IndexName <- Indexes
    Wanted <- WantedOnCrash
    kSchemaTableName <- SchemaTableName
    kSchemaIndexName <- SchemaIndexName
    Faults = {}
    MaxFaults = 0
    MaxCrashes = 1
SPECIFICATION Spec
INVARIANTS
    TypeOK
    CatalogIsSchema
    DanglingWereCut
PROPERTIES
    OpenAnswers
    AssertsHold
    ImplementsSchema
