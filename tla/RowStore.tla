------------------------------ MODULE RowStore ------------------------------
(***************************************************************************)
(* INSERT, UPDATE and DELETE on one table and its indexes.                 *)
(*                                                                         *)
(* An INSERT is one DB->put that commits on its own. An UPDATE or a DELETE *)
(* is a scan of the table in one transaction (PerformIterator_Private)     *)
(* that rewrites or removes the row under the cursor wherever the clause   *)
(* holds, and commits in the destructor of the iterator, whatever went     *)
(* wrong before. Indexes are secondary databases Berkeley DB maintains;    *)
(* one is associated with its table without DB_CREATE, so that the rows    *)
(* that are there already get no entry.                                    *)
(*                                                                         *)
(* A tuple has a value for each column, a clause is the set of the tuples  *)
(* that satisfy it, the set of all tuples if there is no clause. An INSERT *)
(* names every column in the order of the table. CREATE INDEX and DROP     *)
(* INDEX are one step here, DBImpl.tla has what can come between.          *)
(*                                                                         *)
(* Operators whose names begin with that of the next one are mistakes to   *)
(* be tried in its place.                                                  *)
(***************************************************************************)
EXTENDS Naturals

CONSTANTS
    Column, Value,
    IndexName,      \* the indexes the table may have
    KeyColumn,      \* the column of each
    UniqueIndex,    \* those created by CREATE UNIQUE INDEX
    Statements,     \* the UPDATEs and DELETEs, see StatementType
    Faults,         \* the calls of Berkeley DB that may fail, of FaultKind
    MaxRows         \* how many rows are ever inserted

Tuple  == [Column -> Value]
Record == 1 .. MaxRows

(* Opening a cursor, moving it, reading the row under it, writing or       *)
(* removing a row, committing a transaction.                               *)
FaultKind == {"openCursor", "cursor", "get", "put", "commit"}

(* set: what the SET list assigns to the columns it names.                 *)
StatementType ==
    [kind : {"update", "delete"}, where : SUBSET Tuple,
     set : UNION {[C -> Value] : C \in SUBSET Column}]

NoStatement == [kind |-> "none"]

ASSUME IndexAssumption ==
    KeyColumn \in [IndexName -> Column] /\ UniqueIndex \subseteq IndexName

ASSUME StatementAssumption == Statements \subseteq StatementType

ASSUME BoundAssumption == Faults \subseteq FaultKind /\ MaxRows \in Nat

VARIABLES
    rows,           \* the rows, by record number, as the calls see them
    entries,        \* what each index holds: values with record numbers
    diskRows,       \* what is left of them
    diskEntries,    \*     when the process dies now
    last,           \* the last record number given out
    indexes,        \* the indexes there are
    bornAt,         \* the last record when each was created
    torn,           \* records a write failed on that had changed an index
    pc,             \* "idle" between statements
    stmt,           \* the UPDATE or DELETE that runs
    cursor,         \* the record under the cursor, 0 before the first
    readFailed,     \* the scan ended at an error
    lost,           \* the commit of the last statement to end failed
    answer          \* the Status of the statement

table == <<rows, entries>>
disk  == <<diskRows, diskEntries>>
ddl   == <<indexes, bornAt>>
scan  == <<stmt, cursor, readFailed>>
vars  == <<table, disk, last, ddl, torn, pc, scan, lost, answer>>

TypeOK ==
    /\ \E R \in SUBSET Record : rows \in [R -> Tuple]
    /\ \E R \in SUBSET Record : diskRows \in [R -> Tuple]
    /\ entries \in [IndexName -> SUBSET (Value \X Record)]
    /\ diskEntries \in [IndexName -> SUBSET (Value \X Record)]
    /\ last \in 0 .. MaxRows
    /\ indexes \subseteq IndexName
    /\ bornAt \in [IndexName -> 0 .. MaxRows]
    /\ torn \subseteq Record
    /\ pc \in {"idle", "scan", "commit"}
    /\ stmt \in Statements \cup {NoStatement}
    /\ cursor \in 0 .. MaxRows
    /\ readFailed \in BOOLEAN
    /\ lost \in BOOLEAN
    /\ answer \in {"none", "kOK", "kInternalError"}

MayFail(kind) == kind \in Faults

-----------------------------------------------------------------------------
(***************************************************************************)
(* What a put or a delete does to the indexes of the table.                *)
(***************************************************************************)

(* IndexBinder takes the key out of the row.                               *)
KeyOf(i, t) == t[KeyColumn[i]]
EntryOf(i, t, r) == <<KeyOf(i, t), r>>

TakenNever(i, t, r) == FALSE

(* A unique index has no duplicates: a put that would make one is refused. *)
Taken(i, t, r) ==
    /\ i \in UniqueIndex
    /\ \E other \in Record \ {r} : EntryOf(i, t, other) \in entries[i]

(* An entry that has to go and is not there fails the call.                *)
Missing(i, t, r) == EntryOf(i, t, r) \notin entries[i]

CanInsert(t, r) == \A i \in indexes : ~Taken(i, t, r)

CanReplace(old, new, r) ==
    \A i \in indexes :
        /\ ~Taken(i, new, r)
        /\ Missing(i, old, r) => KeyOf(i, old) = KeyOf(i, new)

CanRemove(old, r) == \A i \in indexes : ~Missing(i, old, r)

AddEntriesPastEnd(t, r) ==
    entries' = [i \in IndexName |->
        entries[i] \cup (IF i \in indexes THEN {EntryOf(i, t, r + 1)} ELSE {})]

AddEntries(t, r) ==
    entries' = [i \in IndexName |->
        entries[i] \cup (IF i \in indexes THEN {EntryOf(i, t, r)} ELSE {})]

(* A put of a row that keeps its key may add an entry the index lacks.     *)
MoveEntries(old, new, r) ==
    \E stays \in SUBSET {i \in indexes : Missing(i, old, r)} :
        entries' = [i \in IndexName |->
            IF i \in indexes \ stays
            THEN (entries[i] \ {EntryOf(i, old, r)}) \cup {EntryOf(i, new, r)}
            ELSE entries[i]]

RemoveEntries(old, r) ==
    entries' = [i \in IndexName |-> entries[i] \ {EntryOf(i, old, r)}]

(* The indexes are written one after the other and before the table: a     *)
(* call that fails inside a transaction can have written some of them.     *)
TearEntries(old, new, r) ==
    \E added \in SUBSET {i \in indexes : ~Taken(i, new, r)} :
    \E removed \in SUBSET indexes :
        /\ entries' = [i \in IndexName |->
               (entries[i] \cup
                   (IF i \in added THEN {EntryOf(i, new, r)} ELSE {}))
                 \ (IF i \in removed THEN {EntryOf(i, old, r)} ELSE {})]
        /\ torn' = IF entries' = entries THEN torn ELSE torn \cup {r}

-----------------------------------------------------------------------------
(***************************************************************************)
(* Statements that are one transaction on their own.                       *)
(***************************************************************************)

CommitAtOnce == diskRows' = rows' /\ diskEntries' = entries'

(* What DB->put returns is printed: the answer is kOK.                     *)
Insert(t) ==
    /\ pc = "idle"
    /\ last < MaxRows
    /\ \/ /\ CanInsert(t, last + 1)
          /\ rows' = [r \in DOMAIN rows \cup {last + 1} |->
                         IF r = last + 1 THEN t ELSE rows[r]]
          /\ AddEntries(t, last + 1)
          /\ last' = last + 1
          /\ CommitAtOnce
       \/ /\ CanInsert(t, last + 1) => MayFail("put")
          /\ UNCHANGED <<table, disk, last>>
    /\ answer' = "kOK"
    /\ UNCHANGED <<ddl, torn, lost, pc, scan>>

CreateIndex(i) ==
    /\ pc = "idle"
    /\ i \notin indexes
    /\ indexes' = indexes \cup {i}
    /\ bornAt' = [bornAt EXCEPT ![i] = last]
    /\ entries' = [entries EXCEPT ![i] = {}]
    /\ UNCHANGED rows
    /\ CommitAtOnce
    /\ answer' = "kOK"
    /\ UNCHANGED <<last, torn, lost, pc, scan>>

DropIndex(i) ==
    /\ pc = "idle"
    /\ i \in indexes
    /\ indexes' = indexes \ {i}
    /\ bornAt' = [bornAt EXCEPT ![i] = 0]
    /\ entries' = [entries EXCEPT ![i] = {}]
    /\ UNCHANGED rows
    /\ CommitAtOnce
    /\ answer' = "kOK"
    /\ UNCHANGED <<last, torn, lost, pc, scan>>

-----------------------------------------------------------------------------
(***************************************************************************)
(* UPDATE and DELETE.                                                      *)
(***************************************************************************)

(* The iterator of a table that could not open its cursor is deleted.      *)
Begin(s) ==
    /\ pc = "idle"
    /\ \/ pc' = "scan" /\ stmt' = s /\ answer' = "kOK"
       \/ /\ MayFail("openCursor")
          /\ answer' = "kInternalError"
          /\ UNCHANGED <<pc, stmt>>
    /\ UNCHANGED <<table, disk, last, ddl, torn, lost, cursor, readFailed>>

LaterRecords == {r \in DOMAIN rows : r > cursor}

(* The row Next moves the cursor to.                                       *)
Reaches(r) ==
    /\ pc = "scan"
    /\ r \in LaterRecords
    /\ \A other \in LaterRecords : r <= other

Matches(r) == rows[r] \in stmt.where

Updated(s, t) ==
    [c \in Column |-> IF c \in DOMAIN s.set THEN s.set[c] ELSE t[c]]

Leave == pc' = "commit" /\ UNCHANGED <<stmt, cursor>>

NoMoreRows ==
    /\ pc = "scan"
    /\ LaterRecords = {}
    /\ Leave
    /\ UNCHANGED <<table, disk, last, ddl, torn, lost, readFailed, answer>>

(* A Next that fails looks like the end of the table, and so does the one  *)
(* after a GetValue for the clause that failed.                            *)
ReadFails ==
    /\ pc = "scan"
    /\ \/ MayFail("cursor")
       \/ MayFail("get") /\ LaterRecords # {} /\ stmt.where # Tuple
    /\ readFailed' = TRUE
    /\ Leave
    /\ UNCHANGED <<table, disk, last, ddl, torn, lost, answer>>

SkipRow(r) ==
    /\ Reaches(r)
    /\ ~Matches(r)
    /\ cursor' = r
    /\ UNCHANGED <<table, disk, last, ddl, torn, lost, pc, stmt, readFailed, answer>>

UpdateRowOnly(r) ==
    /\ Reaches(r)
    /\ Matches(r)
    /\ stmt.kind = "update"
    /\ rows' = [rows EXCEPT ![r] = Updated(stmt, rows[r])]
    /\ UNCHANGED entries
    /\ cursor' = r
    /\ UNCHANGED <<disk, last, ddl, torn, lost, pc, stmt, readFailed, answer>>

UpdateRowAtOnce(r) ==
    /\ Reaches(r)
    /\ Matches(r)
    /\ stmt.kind = "update"
    /\ CanReplace(rows[r], Updated(stmt, rows[r]), r)
    /\ MoveEntries(rows[r], Updated(stmt, rows[r]), r)
    /\ rows' = [rows EXCEPT ![r] = Updated(stmt, rows[r])]
    /\ CommitAtOnce
    /\ cursor' = r
    /\ UNCHANGED <<last, ddl, torn, lost, pc, stmt, readFailed, answer>>

(* UpdateCurrent.                                                          *)
UpdateRow(r) ==
    /\ Reaches(r)
    /\ Matches(r)
    /\ stmt.kind = "update"
    /\ CanReplace(rows[r], Updated(stmt, rows[r]), r)
    /\ MoveEntries(rows[r], Updated(stmt, rows[r]), r)
    /\ rows' = [rows EXCEPT ![r] = Updated(stmt, rows[r])]
    /\ cursor' = r
    /\ UNCHANGED <<disk, last, ddl, torn, lost, pc, stmt, readFailed, answer>>

(* DeleteCurrent.                                                          *)
DeleteRow(r) ==
    /\ Reaches(r)
    /\ Matches(r)
    /\ stmt.kind = "delete"
    /\ CanRemove(rows[r], r)
    /\ RemoveEntries(rows[r], r)
    /\ rows' = [other \in DOMAIN rows \ {r} |-> rows[other]]
    /\ cursor' = r
    /\ UNCHANGED <<disk, last, ddl, torn, lost, pc, stmt, readFailed, answer>>

(* The performer answers kInternalError and the loop breaks.               *)
UpdateFails(r) ==
    /\ Reaches(r)
    /\ Matches(r)
    /\ stmt.kind = "update"
    /\ \/ MayFail("get") /\ UNCHANGED <<entries, torn>>
       \/ /\ CanReplace(rows[r], Updated(stmt, rows[r]), r) => MayFail("put")
          /\ TearEntries(rows[r], Updated(stmt, rows[r]), r)
    /\ answer' = "kInternalError"
    /\ Leave
    /\ UNCHANGED <<rows, disk, last, ddl, lost, readFailed>>

DeleteFails(r) ==
    /\ Reaches(r)
    /\ Matches(r)
    /\ stmt.kind = "delete"
    /\ CanRemove(rows[r], r) => MayFail("put")
    /\ TearEntries(rows[r], rows[r], r)
    /\ answer' = "kInternalError"
    /\ Leave
    /\ UNCHANGED <<rows, disk, last, ddl, lost, readFailed>>

ScanOver ==
    /\ pc' = "idle"
    /\ stmt' = NoStatement
    /\ cursor' = 0
    /\ readFailed' = FALSE

(* The destructor of the iterator commits, and drops what came of it.      *)
Commit ==
    /\ pc = "commit"
    /\ ScanOver
    /\ \/ diskRows' = rows /\ diskEntries' = entries /\ lost' = FALSE /\ UNCHANGED table
       \/ /\ MayFail("commit")
          /\ rows' = diskRows /\ entries' = diskEntries /\ lost' = TRUE /\ UNCHANGED disk
    /\ UNCHANGED <<last, ddl, torn, answer>>

(* The process dies, is started again and opens the database.              *)
Crash ==
    /\ rows' = diskRows
    /\ entries' = diskEntries
    /\ ScanOver
    /\ answer' = "none"
    /\ UNCHANGED <<disk, last, ddl, torn, lost>>

-----------------------------------------------------------------------------

Init ==
    /\ rows = [r \in {} |-> {}]
    /\ diskRows = rows
    /\ entries = [i \in IndexName |-> {}]
    /\ diskEntries = entries
    /\ last = 0
    /\ indexes = {}
    /\ bornAt = [i \in IndexName |-> 0]
    /\ torn = {}
    /\ pc = "idle"
    /\ stmt = NoStatement
    /\ cursor = 0
    /\ readFailed = FALSE
    /\ lost = FALSE
    /\ answer = "none"

PerformIterator ==
    \/ NoMoreRows
    \/ ReadFails
    \/ \E r \in Record :
        \/ SkipRow(r)
        \/ UpdateRow(r)
        \/ DeleteRow(r)
        \/ UpdateFails(r)
        \/ DeleteFails(r)
    \/ Commit

Next ==
    \/ \E t \in Tuple : Insert(t)
    \/ \E i \in IndexName : CreateIndex(i) \/ DropIndex(i)
    \/ \E s \in Statements : Begin(s)
    \/ PerformIterator
    \/ Crash

Spec == Init /\ [][Next]_vars

-----------------------------------------------------------------------------
(***************************************************************************)
(* Properties.                                                             *)
(***************************************************************************)

EntriesFor(i, r) == {e \in entries[i] : e[2] = r}

(* An index has one entry, under the key of the row, for each row inserted *)
(* since the index was created, at most that one for an older row, none    *)
(* for a row that is gone: what a scan of the index can deliver            *)
(* (BDBIndexScanIterator) is the table but for old rows. Records on which  *)
(* a call failed half-way are out of it.                                   *)
IndexFitsTable ==
    \A i \in indexes, r \in Record \ torn :
        IF r \in DOMAIN rows
        THEN /\ EntriesFor(i, r) \subseteq {EntryOf(i, rows[r], r)}
             /\ r > bornAt[i] => EntriesFor(i, r) # {}
        ELSE EntriesFor(i, r) = {}

(* Two rows inserted since a unique index was created differ in its        *)
(* column, through updates, deletes, failures and deaths.                  *)
NewRowsUnique ==
    \A i \in indexes \cap UniqueIndex, r, other \in DOMAIN rows \ torn :
        /\ r # other
        /\ r > bornAt[i]
        /\ other > bornAt[i]
        => KeyOf(i, rows[r]) # KeyOf(i, rows[other])

(* What the statement makes of the rows up to record n.                    *)
Applied(s, before, n) ==
    LET hit(r) == r <= n /\ before[r] \in s.where
    IN  [r \in {x \in DOMAIN before : s.kind = "delete" => ~hit(x)} |->
            IF hit(r) THEN Updated(s, before[r]) ELSE before[r]]

(* An UPDATE or a DELETE that has ended has changed on disk the rows that  *)
(* satisfied its clause before it began, up to some record; up to the last *)
(* one if it answers kOK and no read failed. If its commit failed it has   *)
(* changed nothing, whatever it answers. Nothing else than the end of one  *)
(* and an INSERT changes rows on disk: no death in the middle of one does. *)
EffectIsPrefix ==
    [][IF pc = "commit" /\ pc' = "idle" /\ answer' # "none"
       THEN IF lost'
            THEN UNCHANGED diskRows
            ELSE \E n \in 0 .. last :
                     /\ diskRows' = Applied(stmt, diskRows, n)
                     /\ answer' = "kOK" /\ ~readFailed => n = last
       ELSE \/ UNCHANGED diskRows
            \/ \E t \in Tuple :
                   diskRows' = [r \in DOMAIN diskRows \cup {last + 1} |->
                                   IF r = last + 1 THEN t ELSE diskRows[r]]]_vars
=============================================================================
