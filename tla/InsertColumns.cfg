CONSTANTS
    Tables <- TypeLists
    Literals <- Values
    InsertLists <- AnyList
    UpdateLists <- ShortList
SPECIFICATION Spec
INVARIANTS
    WholeStringConsumed
