CONSTANTS
    Tables <- TypeLists
    Literals <- Values
    InsertLists <- InOrder
    UpdateLists <- ShortList
SPECIFICATION Spec
INVARIANTS
    TypeOK
    WholeStringConsumed
    RowIsWhatWasWritten
    KeyIsColumn
    WrittenIsFound
