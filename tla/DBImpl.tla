------------------------------- MODULE DBImpl -------------------------------
(***************************************************************************)
(* The schema of a PandaSQL database: DBImpl::Open and Close and the four  *)
(* schema statements (CREATE TABLE, DROP TABLE, CREATE INDEX, DROP INDEX)  *)
(* over the Berkeley DB backend, with the process dying between any two    *)
(* calls to the backend and with calls to the backend that fail.           *)
(*                                                                         *)
(* A statement is cut into one action per call that Berkeley DB commits on *)
(* its own, since nothing but the end of the process can come between two  *)
(* statements of this single-threaded program; what a handler does to the  *)
(* catalogs in memory belongs to the action of the call it follows.        *)
(* Each such call is taken to be atomic and durable: Berkeley DB promises  *)
(* that once its log has been replayed, which this program leaves to an    *)
(* administrator (its environment is opened without DB_RECOVER).           *)
(* A table that is created again is taken to have the columns it had.      *)
(* PDASSERT is modelled as in a release build, where it does nothing;      *)
(* failedAsserts records the ones a debug build would have stopped at.     *)
(*                                                                         *)
(* Above some operators stands a second one whose name begins with theirs  *)
(* (ExclusiveWithoutFlag above Exclusive): a likely mistake in the code it *)
(* models, put in its place only to see that a property notices.           *)
(***************************************************************************)
EXTENDS Naturals, Sequences, FiniteSets

CONSTANTS
    TableName,          \* names of user tables, sequences of characters
    IndexName,          \* names of indexes, sequences of characters
    Wanted,             \* the <<index, table>> pairs that statements name, a
                        \* bound of the instance
    kSchemaTableName,   \* "PD_Table"
    kSchemaIndexName,   \* "PD_Index"
    Faults,             \* the calls to Berkeley DB that may fail, of FaultKind
    MaxFaults,          \* how many of them fail in one behaviour
    MaxCrashes          \* how often the process dies

(* The calls that can fail: opening (creating) a physical database, put of *)
(* a schema row, associate of an index with its table, opening the cursor  *)
(* of a scan, a get or del through it, the commit at the end of a scan,    *)
(* dbremove of a physical database.                                        *)
FaultKind ==
    {"open", "put", "associate", "openCursor", "cursor", "commit", "dbremove"}

System   == {kSchemaTableName, kSchemaIndexName}
AnyTable == TableName \cup System
AnyIndex == IndexName \X AnyTable

GetFullIndexName(i, t) == t \o i

PhysicalName ==
    AnyTable \cup {GetFullIndexName(x[1], x[2]) : x \in AnyIndex}

ASSUME NameAssumption ==
    /\ \A n \in AnyTable \cup IndexName : n \in Seq(STRING)
    /\ kSchemaTableName # kSchemaIndexName
    /\ System \cap TableName = {}

ASSUME BoundAssumption ==
    /\ Wanted \subseteq AnyIndex
    /\ Faults \subseteq FaultKind
    /\ MaxFaults \in Nat
    /\ MaxCrashes \in Nat

Status ==
    {"none", "kOK", "kTableAlreadyExists", "kIndexAlreadyExists",
     "kTableMissing", "kIndexMissing", "kColumnMissing", "kInternalError",
     "kInvalidCommand"}

(* The PDASSERTs that Open and the schema statements reach in DBImpl.cpp   *)
(* and in the two catalogs, by line. The others of these files are not     *)
(* about the schema (the layout of the schema tables at 64 to 115, a       *)
(* callback or an argument that is given at 645, 705 and 836), or about a  *)
(* caller who deletes a DB that is open (132) or closes one that is not    *)
(* (876); 881 asserts the status of BDBBackend::Close, which sets none.    *)
AssertSite ==
    {"TableCatalog:36", "TableCatalog:45", "IndexCatalog:75", "IndexCatalog:88",
     "DBImpl:145", "DBImpl:273", "DBImpl:346", "DBImpl:424", "DBImpl:497"}

VARIABLES
    \* the file mydb.panda
    phys,           \* the physical databases in it, by name
    PD_Table,       \* the number of rows of PD_Table naming each table
    PD_Index,       \* the number of rows of PD_Index naming each index
    \* the DBImpl object
    object,         \* mIsOpen and mpBackend, see below
    mTableCatalog,  \* the tables with an entry
    mIndexCatalog,  \* the <<index, table>> pairs with an entry
    closed,         \* tables whose entry holds a closed Berkeley DB handle
    closedIndex,    \* indexes whose entry does
    \* the call in progress, or the last one
    pc,             \* where it has come to
    call,           \* what was asked, kept when the call has returned
    tablesToDo,     \* rows of PD_Table that Open has still to read
    indexesToDo,    \* rows of PD_Index that Open has still to read, or
                    \* indexes that DropTable has still to drop
    result,         \* the Status it returned
    \* history
    failedAsserts,  \* PDASSERTs that did not hold
    cut,            \* physical databases whose statement was cut short
    refused,        \* those of them that an index of a schema table cut short,
                    \* since the DBImpl object was made
    faults, crashes

disk     == <<phys, PD_Table, PD_Index>>
catalogs == <<mTableCatalog, mIndexCatalog, closed, closedIndex>>
toDo     == <<tablesToDo, indexesToDo>>
budget   == <<faults, crashes>>
vars     == <<disk, object, catalogs, pc, call, toDo, result,
              failedAsserts, cut, refused, budget>>

(* mIsOpen is set at the end of a successful Open and never reset;         *)
(* mpBackend is not NULL from the start of Open to Close.                  *)
ObjectState == {"new", "opening", "open", "closed"}
mIsOpen     == object \in {"open", "closed"}
mpBackend   == object \in {"opening", "open"}

Op ==
    {"none", "Open", "Close", "CreateTable", "DropTable", "CreateIndex", "DropIndex"}

NoName == << >>
NoCall == [op |-> "none", table |-> NoName, index |-> NoName]
Call(op, t, i) == [op |-> op, table |-> t, index |-> i]

Step ==
    {"idle", "loadTables", "loadIndexes", "insertTableRow", "insertIndexRow",
     "dropIndexes", "dropIndexPhys", "undefined"}

DiskTypeOK ==
    /\ phys \subseteq PhysicalName
    /\ PD_Table \in [AnyTable -> Nat]
    /\ PD_Index \in [AnyIndex -> Nat]

ObjectTypeOK ==
    /\ object \in ObjectState
    /\ mTableCatalog \subseteq AnyTable
    /\ mIndexCatalog \subseteq AnyIndex
    /\ closed \subseteq AnyTable
    /\ closedIndex \subseteq AnyIndex

CallTypeOK ==
    /\ pc \in Step
    /\ call \in [op : Op, table : AnyTable \cup {NoName},
                 index : IndexName \cup {NoName}]
    /\ tablesToDo \subseteq AnyTable
    /\ indexesToDo \subseteq AnyIndex
    /\ result \in Status

HistoryTypeOK ==
    /\ failedAsserts \subseteq AssertSite
    /\ cut \subseteq PhysicalName
    /\ refused \subseteq cut
    /\ faults \in Nat
    /\ crashes \in Nat

TypeOK == DiskTypeOK /\ ObjectTypeOK /\ CallTypeOK /\ HistoryTypeOK

(***************************************************************************)
(* The backend's calls                                                     *)
(***************************************************************************)

Succeeds == faults' = faults

Fails(kind) ==
    /\ kind \in Faults
    /\ faults < MaxFaults
    /\ faults' = faults + 1

Broken(P, site) == IF P THEN {} ELSE {site}

AssertThat(P, site) == failedAsserts' = failedAsserts \cup Broken(P, site)

CutShort(names) ==
    /\ cut' = cut \cup names
    /\ UNCHANGED refused

(* Cut short by an index of a schema table.                                *)
CutShortByIndex(names) ==
    /\ cut' = cut \cup names
    /\ refused' = refused \cup names

Rows(S) == {n \in DOMAIN S : S[n] > 0}

(* A schema table with an index of its own may refuse a row: put fails     *)
(* where a unique index has the key, and del where an index has no entry   *)
(* for the row, since associate makes none for the rows that are older     *)
(* than the index (RowStore.tla has both for user tables). Which rows have *)
(* an entry is not kept here: any put and any del may meet a refusal.      *)
Indexed(table) == \E x \in mIndexCatalog \ closedIndex : x[2] = table

(* Opening with DB_CREATE and DB_EXCL.                                     *)
ExclusiveWithoutFlag(name) == TRUE
Exclusive(name) == name \notin phys

(* DB_ENV::dbremove of a physical database whose handle has been closed.   *)
OnlyHandleClosed(name) == UNCHANGED phys
Dbremove(name) == phys' = phys \ {name}

(* DBImpl::AddTable_Private after a backend call that opened the table.    *)
AddTableKeepingOld(t) ==
    /\ mTableCatalog' = mTableCatalog \cup {t}
    /\ closed' = closed \ ({t} \ mTableCatalog)
    /\ UNCHANGED <<mIndexCatalog, closedIndex>>

AddTable(t) ==
    /\ mTableCatalog' = mTableCatalog \cup {t}
    /\ closed' = closed \ {t}
    /\ UNCHANGED <<mIndexCatalog, closedIndex>>

(* DBImpl::AddIndex_Private.                                               *)
AddIndexNowhere(x) == UNCHANGED catalogs

AddIndex(x) ==
    /\ mIndexCatalog' = mIndexCatalog \cup {x}
    /\ closedIndex' = closedIndex \ {x}
    /\ UNCHANGED <<mTableCatalog, closed>>

Return(c, status) ==
    /\ pc' = "idle"
    /\ call' = c
    /\ tablesToDo' = {}
    /\ indexesToDo' = {}
    /\ result' = status

Goto(step, c) ==
    /\ pc' = step
    /\ call' = c
    /\ result' = "none"

(* A Berkeley DB handle is used after its close: anything may follow, and  *)
(* the model stops here until the process dies.                            *)
UseClosedHandle(c) ==
    /\ Goto("undefined", c)
    /\ UNCHANGED toDo

(***************************************************************************)
(* Open                                                                    *)
(***************************************************************************)

(* Close_Private: the catalogs keep their entries, whose handles die with  *)
(* the environment.                                                        *)
CloseEnvironment ==
    /\ object' = IF mIsOpen THEN "closed" ELSE "new"
    /\ closed' = mTableCatalog
    /\ closedIndex' = mIndexCatalog
    /\ UNCHANGED <<mTableCatalog, mIndexCatalog>>

(* Open gives up: Close_Private(true).                                      *)
FailOpenAnsweringClose(status) ==
    /\ Return(Call("Open", NoName, NoName), "kOK")
    /\ CloseEnvironment

FailOpen(status) ==
    /\ Return(Call("Open", NoName, NoName), status)
    /\ CloseEnvironment

OpenRefused ==
    /\ pc = "idle"
    /\ mIsOpen
    /\ Return(Call("Open", NoName, NoName), "kInvalidCommand")
    /\ UNCHANGED <<disk, object, catalogs, failedAsserts, cut, refused, budget>>

(* A new environment, then PD_Table is opened, and created if missing.     *)
Open ==
    /\ pc = "idle"
    /\ ~mIsOpen
    /\ \/ /\ Succeeds
          /\ phys' = phys \cup {kSchemaTableName}
          /\ AddTable(kSchemaTableName)
          /\ failedAsserts' =
                 failedAsserts \cup Broken(~mpBackend, "DBImpl:145")
                     \cup Broken(kSchemaTableName \notin mTableCatalog, "TableCatalog:36")
          /\ object' = "opening"
          /\ Goto("loadTables", Call("Open", NoName, NoName))
          /\ tablesToDo' = Rows(PD_Table)
          /\ UNCHANGED indexesToDo
       \/ /\ Fails("open")
          /\ FailOpen("kInternalError")
          /\ AssertThat(~mpBackend, "DBImpl:145")
          /\ UNCHANGED phys
    /\ UNCHANGED <<PD_Table, PD_Index, cut, refused, crashes>>

(* The creation statement of the next row is parsed and executed again,    *)
(* which opens the table and never creates it.                             *)
LoadTable(t) ==
    /\ pc = "loadTables"
    /\ t \in tablesToDo
    /\ \/ /\ t \in phys
          /\ Succeeds
          /\ AddTable(t)
          /\ AssertThat(t \notin mTableCatalog /\ PD_Table[t] = 1, "TableCatalog:36")
          /\ tablesToDo' = tablesToDo \ {t}
          /\ UNCHANGED <<object, pc, call, indexesToDo, result>>
       \/ /\ IF t \in phys THEN Fails("open") ELSE Succeeds
          /\ FailOpen("kInternalError")
          /\ UNCHANGED failedAsserts
    /\ UNCHANGED <<disk, cut, refused, crashes>>

(* The scan ends early on an error of its cursor, and Open does not look   *)
(* at the iterator's last error: the rows left are taken not to exist.     *)
LoadEndsEarly ==
    /\ pc \in {"loadTables", "loadIndexes"}
    /\ tablesToDo \cup indexesToDo # {}
    /\ Fails("cursor") \/ Fails("openCursor")
    /\ tablesToDo' = {}
    /\ indexesToDo' = {}
    /\ UNCHANGED <<disk, object, catalogs, pc, call, result, failedAsserts,
                   cut, refused, crashes>>

OpenIndexTable ==
    /\ pc = "loadTables"
    /\ tablesToDo = {}
    /\ \/ /\ Succeeds
          /\ phys' = phys \cup {kSchemaIndexName}
          /\ AddTable(kSchemaIndexName)
          /\ AssertThat(kSchemaIndexName \notin mTableCatalog, "TableCatalog:36")
          /\ Goto("loadIndexes", call)
          /\ indexesToDo' = Rows(PD_Index)
          /\ UNCHANGED <<object, tablesToDo>>
       \/ /\ Fails("open")
          /\ FailOpen("kInternalError")
          /\ UNCHANGED <<phys, failedAsserts>>
    /\ UNCHANGED <<PD_Table, PD_Index, cut, refused, crashes>>

(* Statement::Prepare looks up the columns of a CREATE INDEX before it is  *)
(* executed. That a table is missing is told of a column qualified by one: *)
(* by that of the index if it is not there, by another even if it is.      *)
PrepareFails == {"kColumnMissing", "kTableMissing"}

LoadIndex(i, t) ==
    /\ pc = "loadIndexes"
    /\ <<i, t>> \in indexesToDo
    /\ \/ /\ t \notin mTableCatalog
          /\ Succeeds
          /\ \E status \in PrepareFails : FailOpen(status)
          /\ UNCHANGED failedAsserts
       \/ /\ t \in mTableCatalog \ closed
          /\ GetFullIndexName(i, t) \in phys
          /\ Succeeds
          /\ AddIndex(<<i, t>>)
          /\ AssertThat(<<i, t>> \notin mIndexCatalog /\ PD_Index[<<i, t>>] = 1,
                        "IndexCatalog:75")
          /\ indexesToDo' = indexesToDo \ {<<i, t>>}
          /\ UNCHANGED <<object, pc, call, tablesToDo, result>>
       \/ /\ t \in mTableCatalog
          /\ IF GetFullIndexName(i, t) \in phys
             THEN Fails("open") \/ (t \notin closed /\ Fails("associate"))
             ELSE Succeeds
          /\ FailOpen("kInternalError")
          /\ UNCHANGED failedAsserts
       \/ /\ t \in closed
          /\ GetFullIndexName(i, t) \in phys
          /\ Succeeds
          /\ UseClosedHandle(call)
          /\ UNCHANGED <<object, catalogs, failedAsserts>>
    /\ UNCHANGED <<disk, cut, refused, crashes>>

OpenDone ==
    /\ pc = "loadIndexes"
    /\ indexesToDo = {}
    /\ object' = "open"
    /\ Return(call, "kOK")
    /\ UNCHANGED <<disk, catalogs, failedAsserts, cut, refused, budget>>

(***************************************************************************)
(* CREATE TABLE and CREATE INDEX                                           *)
(***************************************************************************)

Ready == pc = "idle" /\ mIsOpen /\ mpBackend

Refuse(c, status) ==
    /\ Return(c, status)
    /\ UNCHANGED <<disk, object, catalogs, failedAsserts, cut, refused, crashes>>

(* The table is created with DB_EXCL and enters the catalog; its row of    *)
(* PD_Table is another call.                                               *)
CreateTable(t) ==
    LET this == Call("CreateTable", t, NoName) IN
    /\ Ready
    /\ \/ /\ t \in mTableCatalog \/ ~Exclusive(t)
          /\ Succeeds
          /\ Refuse(this, "kTableAlreadyExists")
       \/ /\ t \notin mTableCatalog
          /\ Fails("open")
          /\ Refuse(this, "kInternalError")
       \/ /\ t \notin mTableCatalog
          /\ Exclusive(t)
          /\ Succeeds
          /\ phys' = phys \cup {t}
          /\ AddTable(t)
          /\ Goto("insertTableRow", this)
          /\ UNCHANGED <<PD_Table, PD_Index, object, toDo, failedAsserts,
                         cut, refused, crashes>>

(* BDBBackend::InsertData reports success whatever put returned.           *)
InsertTableRow ==
    /\ pc = "insertTableRow"
    /\ \/ /\ Succeeds
          /\ PD_Table' = [PD_Table EXCEPT ![call.table] = @ + 1]
          /\ UNCHANGED <<cut, refused>>
       \/ /\ Fails("put")
          /\ CutShort({call.table})
          /\ UNCHANGED PD_Table
       \/ /\ Indexed(kSchemaTableName)
          /\ Succeeds
          /\ CutShortByIndex({call.table})
          /\ UNCHANGED PD_Table
    /\ AssertThat(kSchemaTableName \in mTableCatalog, "DBImpl:273")
    /\ Return(call, "kOK")
    /\ UNCHANGED <<phys, PD_Index, object, catalogs, crashes>>

(* The index is created with DB_EXCL, then associated with its table's     *)
(* handle; a failing associate leaves it behind.                           *)
CreateIndex(i, t) ==
    LET name == GetFullIndexName(i, t)
        this == Call("CreateIndex", t, i)
    IN
    /\ Ready
    /\ \/ /\ Succeeds
          /\ \E status \in PrepareFails : Refuse(this, status)
       \/ /\ t \in mTableCatalog
          /\ ~Exclusive(name)
          /\ Succeeds
          /\ Refuse(this, "kIndexAlreadyExists")
       \/ /\ t \in mTableCatalog
          /\ Fails("open")
          /\ Refuse(this, "kInternalError")
       \/ /\ t \in mTableCatalog
          /\ Exclusive(name)
          /\ phys' = phys \cup {name}
          /\ UNCHANGED <<PD_Table, PD_Index, object, crashes>>
          /\ \/ /\ t \notin closed
                /\ Succeeds
                /\ AddIndex(<<i, t>>)
                /\ AssertThat(<<i, t>> \notin mIndexCatalog, "IndexCatalog:75")
                /\ Goto("insertIndexRow", this)
                /\ UNCHANGED <<toDo, cut, refused>>
             \/ /\ t \notin closed
                /\ Fails("associate")
                /\ Return(this, "kInternalError")
                /\ CutShort({name})
                /\ UNCHANGED <<catalogs, failedAsserts>>
             \/ /\ t \in closed
                /\ Succeeds
                /\ UseClosedHandle(this)
                /\ CutShort({name})
                /\ UNCHANGED <<catalogs, failedAsserts>>

InsertIndexRow ==
    /\ pc = "insertIndexRow"
    /\ \/ /\ Succeeds
          /\ PD_Index' = [PD_Index EXCEPT ![<<call.index, call.table>>] = @ + 1]
          /\ UNCHANGED <<cut, refused>>
       \/ /\ Fails("put")
          /\ CutShort({GetFullIndexName(call.index, call.table)})
          /\ UNCHANGED PD_Index
       \/ /\ Indexed(kSchemaIndexName)
          /\ Succeeds
          /\ CutShortByIndex({GetFullIndexName(call.index, call.table)})
          /\ UNCHANGED PD_Index
    /\ AssertThat(kSchemaIndexName \in mTableCatalog, "DBImpl:424")
    /\ Return(call, "kOK")
    /\ UNCHANGED <<phys, PD_Table, object, catalogs, crashes>>

(***************************************************************************)
(* DROP INDEX and DROP TABLE                                               *)
(***************************************************************************)

(* The scan of a schema table that removes the row of the dropped object,  *)
(* of which the table holds n. Where an index of the schema table refuses, *)
(* the row stays. A failed commit goes unnoticed, since the iterator       *)
(* commits in its destructor: the row stays, and so does kOK.              *)
ScanOutcome == {"removed", "refused", "notFound", "openCursor", "cursor", "commit"}

RemoveRowUntilFound(table, out, n) ==
    \/ out = "removed" /\ n > 0 /\ Succeeds
    \/ out = "refused" /\ n > 0 /\ Indexed(table) /\ Succeeds
    \/ out \in {"openCursor", "cursor"} /\ Fails(out)

RemoveRowUnchecked(table, out, n) == out = "removed" /\ Succeeds

RemoveRow(table, out, n) ==
    \/ out = "removed"  /\ n > 0 /\ Succeeds
    \/ out = "refused"  /\ n > 0 /\ Indexed(table) /\ Succeeds
    \/ out = "notFound" /\ n = 0 /\ Succeeds
    \/ out \in {"openCursor", "cursor"} /\ Fails(out)
    \/ out = "commit"   /\ n > 0 /\ Fails(out)

GoesOnAfterError(out) == out # "notFound"
GoesOn(out) == out \in {"removed", "commit"}

(* After the scan an invalid iterator means that no row matched, or that   *)
(* a get or the del of its cursor failed.                                  *)
AssertFound(out, site) ==
    AssertThat(out \notin {"refused", "notFound", "cursor"}, site)

(* The first half of DBImpl::DropIndex: the row of PD_Index.               *)
RemoveIndexRow(i, t, out) ==
    /\ RemoveRow(kSchemaIndexName, out, PD_Index[<<i, t>>])
    /\ PD_Index' = IF out = "removed"
                   THEN [PD_Index EXCEPT ![<<i, t>>] = @ - 1]
                   ELSE PD_Index
    /\ AssertFound(out, "DBImpl:497")
    /\ UNCHANGED <<phys, PD_Table, object, catalogs, crashes>>

DropIndex(i, t, out) ==
    LET this == Call("DropIndex", t, i) IN
    /\ Ready
    /\ \/ /\ t \notin mTableCatalog
          /\ out = "notFound"
          /\ Succeeds
          /\ Refuse(this, "kTableMissing")
       \/ /\ t \in mTableCatalog
          /\ <<i, t>> \notin mIndexCatalog
          /\ out = "notFound"
          /\ Succeeds
          /\ Refuse(this, "kIndexMissing")
       \/ /\ t \in mTableCatalog
          /\ <<i, t>> \in mIndexCatalog
          /\ RemoveIndexRow(i, t, out)
          /\ IF GoesOn(out)
             THEN Goto("dropIndexPhys", this) /\ UNCHANGED toDo
             ELSE Return(this, "kInternalError")
          /\ UNCHANGED <<cut, refused>>

(* The second half: the physical index, then the catalog.                  *)
DropIndexPhys ==
    LET x == <<call.index, call.table>>
        name == GetFullIndexName(call.index, call.table)
        names == IF call.op = "DropTable" THEN {name, call.table} ELSE {name}
    IN
    /\ pc = "dropIndexPhys"
    /\ \/ /\ x \in closedIndex
          /\ Succeeds
          /\ UseClosedHandle(call)
          /\ CutShort(names)
          /\ UNCHANGED <<phys, mIndexCatalog, closedIndex, failedAsserts>>
       \/ /\ x \notin closedIndex
          /\ name \in phys
          /\ Succeeds
          /\ AssertThat(x \in mIndexCatalog, "IndexCatalog:88")
          /\ Dbremove(name)
          /\ mIndexCatalog' = mIndexCatalog \ {x}
          /\ indexesToDo' = indexesToDo \ {x}
          /\ IF call.op = "DropTable"
             THEN Goto("dropIndexes", [call EXCEPT !.index = NoName])
             ELSE pc' = "idle" /\ UNCHANGED call /\ result' = "kOK"
          /\ UNCHANGED <<closedIndex, tablesToDo, cut, refused>>
       \/ /\ x \notin closedIndex
          /\ IF name \in phys THEN Fails("dbremove") ELSE Succeeds
          /\ closedIndex' = closedIndex \cup {x}
          /\ Return(call, IF name \in phys THEN "kInternalError" ELSE "kIndexMissing")
          /\ CutShort(names)
          /\ UNCHANGED <<phys, mIndexCatalog, failedAsserts>>
    /\ UNCHANGED <<PD_Table, PD_Index, object, mTableCatalog, closed, crashes>>

(* IndexCatalog::GetIndexNameListForTable.                                 *)
IndexesOfAny(t) == {<<x[1], t>> : x \in mIndexCatalog}

IndexesNamed(t) == {x \in mIndexCatalog : x[1] = t}
IndexesOf(t) == {x \in mIndexCatalog : x[2] = t}

(* DROP TABLE removes the row first, then every index of the table, then   *)
(* the table.                                                              *)
DropTable(t, out) ==
    LET this == Call("DropTable", t, NoName) IN
    /\ Ready
    /\ \/ /\ t \notin mTableCatalog
          /\ out = "notFound"
          /\ Succeeds
          /\ Refuse(this, "kTableMissing")
       \/ /\ t \in mTableCatalog
          /\ RemoveRow(kSchemaTableName, out, PD_Table[t])
          /\ PD_Table' = IF out = "removed"
                         THEN [PD_Table EXCEPT ![t] = @ - 1]
                         ELSE PD_Table
          /\ AssertFound(out, "DBImpl:346")
          /\ IF GoesOn(out)
             THEN /\ Goto("dropIndexes", this)
                  /\ indexesToDo' = IndexesOf(t)
                  /\ UNCHANGED tablesToDo
             ELSE Return(this, "kInternalError")
          /\ UNCHANGED <<phys, PD_Index, object, catalogs, cut, refused, crashes>>

DropNextIndex(i, t, out) ==
    /\ pc = "dropIndexes"
    /\ <<i, t>> \in indexesToDo
    /\ RemoveIndexRow(i, t, out)
    /\ IF GoesOn(out)
       THEN /\ Goto("dropIndexPhys", [call EXCEPT !.index = i])
            /\ UNCHANGED <<toDo, cut, refused>>
       ELSE /\ Return(call, "kInternalError")
            /\ IF out = "refused" \/ GetFullIndexName(i, t) \in refused
               THEN CutShortByIndex({t})
               ELSE CutShort({t})

(* BDBBackend::DropTable closes the table's handle before dbremove, and    *)
(* the entry keeps the closed handle if dbremove fails.                    *)
DropTablePhys ==
    LET t == call.table IN
    /\ pc = "dropIndexes"
    /\ indexesToDo = {}
    /\ \/ /\ t \in closed
          /\ Succeeds
          /\ UseClosedHandle(call)
          /\ CutShort({t})
          /\ UNCHANGED <<phys, mTableCatalog, closed, failedAsserts>>
       \/ /\ t \in phys \ closed
          /\ Succeeds
          /\ AssertThat(t \in mTableCatalog, "TableCatalog:45")
          /\ Dbremove(t)
          /\ mTableCatalog' = mTableCatalog \ {t}
          /\ Return(call, "kOK")
          /\ UNCHANGED <<closed, cut, refused>>
       \/ /\ t \notin closed
          /\ IF t \in phys THEN Fails("dbremove") ELSE Succeeds
          /\ closed' = closed \cup {t}
          /\ Return(call, IF t \in phys THEN "kInternalError" ELSE "kTableMissing")
          /\ CutShort({t})
          /\ UNCHANGED <<phys, mTableCatalog, failedAsserts>>
    /\ UNCHANGED <<PD_Table, PD_Index, object, mIndexCatalog, closedIndex, crashes>>

(***************************************************************************)
(* Close, a new DB object, and the end of the process                      *)
(***************************************************************************)

(* Close_Private(false): mIsOpen stays TRUE.                               *)
Close ==
    /\ Ready
    /\ CloseEnvironment
    /\ Return(Call("Close", NoName, NoName), "kOK")
    /\ UNCHANGED <<disk, failedAsserts, cut, refused, budget>>

FreshObject ==
    /\ object' = "new"
    /\ mTableCatalog' = {}
    /\ mIndexCatalog' = {}
    /\ closed' = {}
    /\ closedIndex' = {}
    /\ refused' = {}

(* The caller deletes its closed DB and constructs another one.            *)
NewDB ==
    /\ pc = "idle"
    /\ ~mpBackend
    /\ FreshObject
    /\ Return(NoCall, "none")
    /\ UNCHANGED <<disk, failedAsserts, cut, budget>>

(* What the statement in progress leaves behind if it goes no further.     *)
InFlight ==
    CASE pc = "insertTableRow" -> {call.table}
      [] pc = "insertIndexRow" -> {GetFullIndexName(call.index, call.table)}
      [] pc = "dropIndexes"    -> {call.table}
      [] pc = "dropIndexPhys" /\ call.op = "DropIndex" ->
             {GetFullIndexName(call.index, call.table)}
      [] pc = "dropIndexPhys" /\ call.op = "DropTable" ->
             {GetFullIndexName(call.index, call.table), call.table}
      [] OTHER -> {}

Crash ==
    /\ mpBackend
    /\ crashes < MaxCrashes
    /\ crashes' = crashes + 1
    /\ FreshObject
    /\ Return(NoCall, "none")
    /\ cut' = cut \cup InFlight
    /\ UNCHANGED <<disk, failedAsserts, faults>>

(***************************************************************************)
(* Specification                                                           *)
(***************************************************************************)

Init ==
    /\ phys = {}
    /\ PD_Table = [t \in AnyTable |-> 0]
    /\ PD_Index = [x \in AnyIndex |-> 0]
    /\ object = "new"
    /\ mTableCatalog = {}
    /\ mIndexCatalog = {}
    /\ closed = {}
    /\ closedIndex = {}
    /\ pc = "idle"
    /\ call = NoCall
    /\ tablesToDo = {}
    /\ indexesToDo = {}
    /\ result = "none"
    /\ failedAsserts = {}
    /\ cut = {}
    /\ refused = {}
    /\ faults = 0
    /\ crashes = 0

(* A step of the call in progress.                                         *)
Continue ==
    \/ \E t \in AnyTable : LoadTable(t)
    \/ LoadEndsEarly
    \/ OpenIndexTable
    \/ \E i \in IndexName, t \in AnyTable : LoadIndex(i, t)
    \/ OpenDone
    \/ InsertTableRow
    \/ InsertIndexRow
    \/ DropIndexPhys
    \/ \E i \in IndexName, t \in AnyTable, out \in ScanOutcome :
           DropNextIndex(i, t, out)
    \/ DropTablePhys

(* A call that the program makes.                                          *)
Begin ==
    \/ OpenRefused
    \/ Open
    \/ \E t \in AnyTable : CreateTable(t)
    \/ \E i \in IndexName, t \in AnyTable : <<i, t>> \in Wanted /\ CreateIndex(i, t)
    \/ \E t \in AnyTable, out \in ScanOutcome : DropTable(t, out)
    \/ \E i \in IndexName, t \in AnyTable, out \in ScanOutcome :
           <<i, t>> \in Wanted /\ DropIndex(i, t, out)
    \/ Close
    \/ NewDB

Next == Begin \/ Continue \/ Crash

Spec == Init /\ [][Next]_vars

(* A call that has begun runs on: the program has one thread and no wait   *)
(* between its backend calls. Nothing makes the caller call again.         *)
FairSpec == Spec /\ WF_vars(Continue)

(***************************************************************************)
(* Invariants                                                              *)
(***************************************************************************)

FullName(x) == GetFullIndexName(x[1], x[2])

RowNames == Rows(PD_Table) \cup {FullName(x) : x \in Rows(PD_Index)}

(* Every row of PD_Table and PD_Index names a physical database that       *)
(* exists, whenever the process ends: CREATE makes the database before the *)
(* row, DROP removes the row before the database.                          *)
RowsHavePhysical == RowNames \subseteq phys

(* No two rows stand for the same physical database, although the full     *)
(* names of indexes collide with each other and with names of tables (an   *)
(* index "b" on table "a" and a table "ab"): DB_EXCL is all that keeps     *)
(* them apart, over deaths between the creation and the row.               *)
RowsNotShared ==
    /\ \A t \in AnyTable : PD_Table[t] <= 1
    /\ \A x \in AnyIndex : PD_Index[x] <= 1
    /\ \A x, y \in Rows(PD_Index) : FullName(x) = FullName(y) => x = y
    /\ \A x \in Rows(PD_Index) : FullName(x) \notin Rows(PD_Table)

(* Between two statements of an open database, where no call fails, the    *)
(* catalogs in memory hold what the schema tables on disk hold, and the    *)
(* handles are open. An entry has no row only where an index of a schema   *)
(* table refused the row of a CREATE, or the row of an index in the midst  *)
(* of a DROP TABLE, whose own row was gone by then. A row always has its   *)
(* entry.                                                                  *)
CatalogIsSchema ==
    Ready => /\ System \cup Rows(PD_Table) \subseteq mTableCatalog
             /\ mTableCatalog \ (System \cup Rows(PD_Table)) \subseteq refused
             /\ Rows(PD_Index) \subseteq mIndexCatalog
             /\ \A x \in mIndexCatalog \ Rows(PD_Index) : FullName(x) \in refused
             /\ closed = {} /\ closedIndex = {}

(* A physical database without a row is left behind only by a statement    *)
(* that was cut short: by the end of the process, by a failing call, or by *)
(* an index of a schema table.                                             *)
OrphansWereCut == phys \subseteq System \cup RowNames \cup cut \cup InFlight

Dangling ==
    {x \in Rows(PD_Index) : x[2] \notin System \cup Rows(PD_Table)}

(* A row of PD_Index whose table has no row of PD_Table is left behind     *)
(* only by a DROP TABLE that was cut short, or by a CREATE TABLE whose row *)
(* was not stored.                                                         *)
DanglingWereCut == \A x \in Dangling : x[2] \in cut \cup InFlight

(* Where no call fails, Open answers kOK if and only if no index row is    *)
(* left without its table: an interrupted DROP TABLE of an indexed table   *)
(* makes a database that never opens again, and nothing else does.         *)
OpenAnswers ==
    [][/\ pc \in {"loadTables", "loadIndexes"}
       /\ pc' = "idle"
       /\ crashes' = crashes
       => (result' = "kOK" <=> Dangling = {})]_vars

(* Between two statements of an open database an entry of the catalogs     *)
(* holds a closed handle only where a DROP closed it and could not remove  *)
(* the database: not one is left over from an earlier Open that failed on  *)
(* the same object, and what it names has no row to bring it back. So Open *)
(* never uses a closed handle, and a CREATE INDEX only on such a table.    *)
ClosedHandlesWereCut ==
    /\ Ready => /\ closed \subseteq cut \ Rows(PD_Table)
                /\ \A x \in closedIndex :
                       FullName(x) \in cut /\ x \notin Rows(PD_Index)
    /\ pc = "undefined" => /\ call.op = "CreateIndex"
                           /\ call.table \in closed \cap cut

(* A call that began returns, unless the process ends or a closed handle   *)
(* has been used.                                                          *)
CallsReturn == pc # "idle" ~> pc \in {"idle", "undefined"}

(* A DROP TABLE that answers kOK did "Remove the entry from schema table"  *)
(* (DBImpl.cpp:311) and "Drop all indexes for the table" (:356), and left  *)
(* neither the physical table nor an entry for it or for an index of it,   *)
(* whatever earlier statements left half done. A read error of an Open or  *)
(* a commit lost by an iterator breaks it: neither is noticed.             *)
DroppedForGood ==
    (pc = "idle" /\ call.op = "DropTable" /\ result = "kOK") =>
        /\ call.table \notin phys \cup Rows(PD_Table) \cup mTableCatalog
        /\ \A x \in Rows(PD_Index) \cup mIndexCatalog : x[2] # call.table

(* Where no call fails, the catalogs and the schema rows agree wherever a  *)
(* statement asserts it: every index dropped has its row, every name added *)
(* to a catalog is new to it. Three callers break that: DROP TABLE of a    *)
(* table that has no row because it is PD_Table or PD_Index; an Open that  *)
(* follows one that failed and left its entries in the catalogs; and a     *)
(* DROP whose row an index of a schema table refuses to let go, or refused *)
(* to take in.                                                             *)
AssertsHold ==
    [][failedAsserts' # failedAsserts =>
        \/ pc' = "idle" /\ call'.op = "DropTable" /\ call'.table \in System
        \/ /\ call'.op = "Open"
           /\ IF pc = "idle" THEN mTableCatalog # {}
                             ELSE "TableCatalog:36" \in failedAsserts
        \/ /\ call'.op \in {"DropTable", "DropIndex"}
           /\ failedAsserts' \ failedAsserts \subseteq {"DBImpl:346", "DBImpl:497"}
           /\ \/ refused # {}
              \/ Indexed(kSchemaTableName)
              \/ Indexed(kSchemaIndexName)]_vars

(***************************************************************************)
(* Refinement                                                              *)
(***************************************************************************)

(* The schema is what the rows say. The indexes of a table leave it with   *)
(* the row of the table, before their own rows are removed. Nothing is     *)
(* promised once an index of a schema table has refused a row.             *)
Promise == INSTANCE Schema WITH
    tables  <- Rows(PD_Table),
    indexes <- Rows(PD_Index) \ Dangling,
    call    <- IF call.op = "DropTable" THEN [call EXCEPT !.index = NoName] ELSE call,
    running <- pc # "idle",
    done    <- pc \in {"dropIndexes", "dropIndexPhys"},
    answer  <- result,
    broken  <- refused # {}

ImplementsSchema == Promise!Spec
=============================================================================
