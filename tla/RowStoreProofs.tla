--------------------------- MODULE RowStoreProofs ---------------------------
(***************************************************************************)
(* Proofs about RowStore.tla, for any columns, values, indexes, statements *)
(* and failures, and any number of rows.                                   *)
(*                                                                         *)
(* IndexFitsTable alone is not inductive: a death brings the disk back, so *)
(* the same must hold of what is on disk; a row inserted must be the first *)
(* of its number, so numbers given out are bounded by last; and that two   *)
(* new rows differ in a unique column needs that a unique index has one    *)
(* entry for a value. The effect of a statement is Effect: what the scan   *)
(* has come to is the statement applied to the rows on disk.               *)
(***************************************************************************)
EXTENDS RowStore, TLAPS

(* What IndexFitsTable says, of any rows and entries.                      *)
Fits(R, E) ==
    \A i \in indexes, r \in Record \ torn :
        /\ r \in DOMAIN R =>
            /\ \A e \in E[i] : e[2] = r => e = EntryOf(i, R[r], r)
            /\ r > bornAt[i] => EntryOf(i, R[r], r) \in E[i]
        /\ r \notin DOMAIN R => \A e \in E[i] : e[2] # r

(* A unique index has one entry for a value.                               *)
OneEntryPerKey(E) ==
    \A i \in indexes \cap UniqueIndex : \A e, other \in E[i] :
        e[1] = other[1] => e = other

NumbersGivenOut(R) == \A r \in DOMAIN R : r <= last

Idle == pc = "idle" => rows = diskRows /\ entries = diskEntries

Indexed ==
    /\ Fits(rows, entries)
    /\ Fits(diskRows, diskEntries)
    /\ OneEntryPerKey(entries)
    /\ OneEntryPerKey(diskEntries)
    /\ NumbersGivenOut(rows)
    /\ NumbersGivenOut(diskRows)
    /\ \A r \in torn : r <= last
    /\ \A i \in IndexName : bornAt[i] <= last
    /\ Idle

(* The scan has applied the statement up to the cursor; when it is over,   *)
(* up to some record, up to the last one if its answer is kOK and no read  *)
(* has failed.                                                             *)
Effect ==
    /\ pc = "idle" => cursor = 0 /\ ~readFailed
    /\ pc \in {"scan", "commit"} => stmt \in Statements /\ answer # "none"
    /\ pc = "scan" => answer = "kOK" /\ ~readFailed
    /\ cursor <= last
    /\ pc \in {"scan", "commit"} => rows = Applied(stmt, diskRows, cursor)
    /\ pc = "commit" /\ answer = "kOK" /\ ~readFailed =>
           rows = Applied(stmt, diskRows, last)

-----------------------------------------------------------------------------
(***************************************************************************)
(* Types.                                                                  *)
(***************************************************************************)

Rows == UNION {[D -> Tuple] : D \in SUBSET Record}
Entries == [IndexName -> SUBSET (Value \X Record)]

(* A function from records to tuples is a content of the table.            *)
LEMMA RowsAre ==
    ASSUME NEW D \in SUBSET Record, NEW R, R \in [D -> Tuple]
    PROVE  R \in Rows
BY DEF Rows

(* And conversely.                                                         *)
LEMMA RowsHave ==
    ASSUME NEW R \in Rows
    PROVE  /\ DOMAIN R \subseteq Record
           /\ \A r \in DOMAIN R : R[r] \in Tuple
           /\ R \in [DOMAIN R -> Tuple]
<1>1. PICK D \in SUBSET Record : R \in [D -> Tuple]
  BY DEF Rows
<1> QED
  BY <1>1

(* The type invariant with the two sets named.                             *)
LEMMA TypeOKIs ==
    TypeOK <=> /\ rows \in Rows
               /\ diskRows \in Rows
               /\ entries \in Entries
               /\ diskEntries \in Entries
               /\ last \in 0 .. MaxRows
               /\ indexes \subseteq IndexName
               /\ bornAt \in [IndexName -> 0 .. MaxRows]
               /\ torn \subseteq Record
               /\ pc \in {"idle", "scan", "commit"}
               /\ stmt \in Statements \cup {NoStatement}
               /\ cursor \in 0 .. MaxRows
               /\ readFailed \in BOOLEAN
               /\ lost \in BOOLEAN
               /\ answer \in {"none", "kOK", "kInternalError"}
<1>1. rows \in Rows <=> \E R \in SUBSET Record : rows \in [R -> Tuple]
  BY DEF Rows
<1>2. diskRows \in Rows <=> \E R \in SUBSET Record : diskRows \in [R -> Tuple]
  BY DEF Rows
<1> QED
  BY <1>1, <1>2 DEF TypeOK, Entries

(* The key of a tuple in an index is a value.                              *)
LEMMA EntryType ==
    ASSUME NEW i \in IndexName, NEW t \in Tuple, NEW r \in Record
    PROVE  /\ EntryOf(i, t, r) \in Value \X Record
           /\ EntryOf(i, t, r)[1] = KeyOf(i, t)
           /\ EntryOf(i, t, r)[2] = r
BY IndexAssumption DEF EntryOf, KeyOf, Tuple

(* A SET list makes tuples of tuples.                                      *)
LEMMA UpdatedType ==
    ASSUME NEW s \in Statements, NEW t \in Tuple
    PROVE  Updated(s, t) \in Tuple
<1>1. s.set \in UNION {[C -> Value] : C \in SUBSET Column}
  BY StatementAssumption DEF StatementType
<1>2. PICK C \in SUBSET Column : s.set \in [C -> Value]
  BY <1>1
<1>3. DOMAIN s.set = C /\ \A c \in C : s.set[c] \in Value
  BY <1>2
<1>4. \A c \in Column : (IF c \in DOMAIN s.set THEN s.set[c] ELSE t[c]) \in Value
  BY <1>3 DEF Tuple
<1> QED
  BY <1>4 DEF Updated, Tuple

(* A call that fails half-way leaves entries of the right type.            *)
LEMMA TearType ==
    ASSUME entries \in Entries, indexes \subseteq IndexName, torn \subseteq Record,
           NEW old \in Tuple, NEW new \in Tuple, NEW r \in Record,
           TearEntries(old, new, r)
    PROVE  entries' \in Entries /\ torn' \subseteq Record
<1>1. PICK added \in SUBSET {i \in indexes : ~Taken(i, new, r)},
           removed \in SUBSET indexes :
        entries' = [i \in IndexName |->
               (entries[i] \cup
                   (IF i \in added THEN {EntryOf(i, new, r)} ELSE {}))
                 \ (IF i \in removed THEN {EntryOf(i, old, r)} ELSE {})]
  BY DEF TearEntries
<1>2. \A i \in IndexName :
        (entries[i] \cup
            (IF i \in added THEN {EntryOf(i, new, r)} ELSE {}))
          \ (IF i \in removed THEN {EntryOf(i, old, r)} ELSE {})
        \in SUBSET (Value \X Record)
  BY EntryType DEF Entries
<1>3. entries' \in Entries
  BY <1>1, <1>2 DEF Entries
<1>4. torn' \subseteq Record
  BY DEF TearEntries
<1> QED
  BY <1>3, <1>4

(* The scalars.                                                            *)
LEMMA LostStep ==
    ASSUME TypeOK, [Next]_vars
    PROVE  lost' \in BOOLEAN
<1>1. CASE UNCHANGED lost
  BY <1>1 DEF TypeOK
<1>2. CASE Commit
  BY <1>2 DEF Commit
<1>3. CASE PerformIterator /\ ~Commit
  BY <1>1, <1>3 DEF PerformIterator, NoMoreRows, ReadFails, SkipRow, UpdateRow, DeleteRow,
                    UpdateFails, DeleteFails
<1> QED
  BY <1>1, <1>2, <1>3 DEF Next, vars, Insert, CreateIndex, DropIndex, Begin, Crash

LEMMA ScalarStep ==
    ASSUME TypeOK, [Next]_vars
    PROVE  /\ last' \in 0 .. MaxRows
           /\ indexes' \subseteq IndexName
           /\ bornAt' \in [IndexName -> 0 .. MaxRows]
           /\ pc' \in {"idle", "scan", "commit"}
           /\ stmt' \in Statements \cup {NoStatement}
           /\ cursor' \in 0 .. MaxRows
           /\ readFailed' \in BOOLEAN
           /\ answer' \in {"none", "kOK", "kInternalError"}
<1> USE BoundAssumption
<1>1. ASSUME NEW t \in Tuple, Insert(t)
      PROVE  /\ last' \in 0 .. MaxRows
             /\ UNCHANGED <<ddl, pc, scan>>
             /\ answer' \in {"none", "kOK", "kInternalError"}
  BY <1>1 DEF TypeOK, Insert
<1>2. ASSUME NEW i \in IndexName, CreateIndex(i) \/ DropIndex(i)
      PROVE  /\ indexes' \subseteq IndexName
             /\ bornAt' \in [IndexName -> 0 .. MaxRows]
             /\ UNCHANGED <<last, pc, scan>>
             /\ answer' \in {"none", "kOK", "kInternalError"}
  BY <1>2 DEF TypeOK, CreateIndex, DropIndex
<1>3. ASSUME NEW s \in Statements, Begin(s)
      PROVE  /\ UNCHANGED <<last, ddl, cursor, readFailed>>
             /\ pc' \in {"idle", "scan", "commit"}
             /\ stmt' \in Statements \cup {NoStatement}
             /\ answer' \in {"none", "kOK", "kInternalError"}
  BY <1>3 DEF TypeOK, Begin
<1>4. ASSUME PerformIterator \/ Crash
      PROVE  /\ UNCHANGED <<last, ddl>>
             /\ pc' \in {"idle", "scan", "commit"}
             /\ stmt' \in Statements \cup {NoStatement}
             /\ cursor' \in 0 .. MaxRows
             /\ readFailed' \in BOOLEAN
             /\ answer' \in {"none", "kOK", "kInternalError"}
  <2>1. CASE NoMoreRows \/ ReadFails
    BY <2>1 DEF TypeOK, NoMoreRows, ReadFails, Leave
  <2>2. ASSUME NEW r \in Record, SkipRow(r) \/ UpdateRow(r) \/ DeleteRow(r)
        PROVE  /\ UNCHANGED <<last, ddl, pc, stmt, readFailed, answer>>
               /\ cursor' \in 0 .. MaxRows
    BY <2>2 DEF TypeOK, SkipRow, UpdateRow, DeleteRow, Record
  <2>3. ASSUME NEW r \in Record, UpdateFails(r) \/ DeleteFails(r)
        PROVE  /\ UNCHANGED <<last, ddl, stmt, cursor, readFailed>>
               /\ pc' = "commit"
               /\ answer' = "kInternalError"
    BY <2>3 DEF UpdateFails, DeleteFails, Leave
  <2>4. CASE Commit \/ Crash
    <3>1. ScanOver /\ UNCHANGED <<last, ddl>>
      BY <2>4 DEF Commit, Crash
    <3>2. answer' = answer \/ answer' = "none"
      BY <2>4 DEF Commit, Crash
    <3>3. cursor' = 0 /\ pc' = "idle" /\ stmt' = NoStatement
      BY <3>1 DEF ScanOver
    <3>4. readFailed' \in BOOLEAN
      BY <3>1 DEF ScanOver
    <3>5. answer \in {"none", "kOK", "kInternalError"}
      BY DEF TypeOK
    <3> QED
      BY <3>1, <3>2, <3>3, <3>4, <3>5
  <2> QED
    BY <1>4, <2>1, <2>2, <2>3, <2>4 DEF PerformIterator, TypeOK, ddl
<1> QED
  BY <1>1, <1>2, <1>3, <1>4 DEF Next, vars, ddl, scan, TypeOK

(* The rows, the entries and the torn records.                             *)
LEMMA TableStep ==
    ASSUME TypeOK, [Next]_vars
    PROVE  /\ rows' \in Rows /\ diskRows' \in Rows
           /\ entries' \in Entries /\ diskEntries' \in Entries
           /\ torn' \subseteq Record
<1> DEFINE Good == /\ rows' \in Rows /\ diskRows' \in Rows
                   /\ entries' \in Entries /\ diskEntries' \in Entries
                   /\ torn' \subseteq Record
<1> USE TypeOKIs, BoundAssumption
<1>h. /\ DOMAIN rows \subseteq Record
      /\ \A r \in DOMAIN rows : rows[r] \in Tuple
  BY RowsHave
<1>1. ASSUME NEW t \in Tuple, Insert(t)  PROVE Good
  <2>1. CASE UNCHANGED <<table, disk>>
    BY <1>1, <2>1 DEF Insert, table, disk
  <2>2. CASE /\ rows' = [r \in DOMAIN rows \cup {last + 1} |->
                            IF r = last + 1 THEN t ELSE rows[r]]
             /\ AddEntries(t, last + 1)
             /\ CommitAtOnce
    <3>1. last + 1 \in Record
      BY <1>1 DEF Insert, Record
    <3>2. rows' \in Rows
      <4>1. rows' \in [DOMAIN rows \cup {last + 1} -> Tuple]
        BY <1>h, <2>2
      <4> QED
        BY <1>h, <3>1, <4>1, RowsAre
    <3>3. entries' \in Entries
      BY <2>2, <3>1, EntryType DEF AddEntries, Entries
    <3> QED
      BY <1>1, <2>2, <3>2, <3>3 DEF Insert, CommitAtOnce
  <2> QED
    BY <1>1, <2>1, <2>2 DEF Insert
<1>2. ASSUME NEW i \in IndexName, CreateIndex(i) \/ DropIndex(i)
      PROVE  Good
  <2>1. entries' = [entries EXCEPT ![i] = {}] /\ rows' = rows /\ torn' = torn
    BY <1>2 DEF CreateIndex, DropIndex
  <2>2. entries' \in Entries
    BY <2>1 DEF Entries
  <2> QED
    BY <1>2, <2>1, <2>2 DEF CreateIndex, DropIndex, CommitAtOnce
<1>3. ASSUME NEW s \in Statements, Begin(s)  PROVE Good
  BY <1>3 DEF Begin, table, disk
<1>4. CASE NoMoreRows \/ ReadFails
  BY <1>4 DEF NoMoreRows, ReadFails, table, disk
<1>5. ASSUME NEW r \in Record, SkipRow(r)  PROVE Good
  BY <1>5 DEF SkipRow, table, disk
<1>6. ASSUME NEW r \in Record, UpdateRow(r)  PROVE Good
  <2>0. r \in DOMAIN rows /\ stmt \in Statements
    BY <1>6 DEF UpdateRow, Reaches, LaterRecords, NoStatement
  <2> DEFINE new == Updated(stmt, rows[r])
  <2>1. new \in Tuple /\ rows[r] \in Tuple
    BY <1>h, <2>0, UpdatedType
  <2> HIDE DEF new
  <2>2. rows' = [rows EXCEPT ![r] = new]
    BY <1>6 DEF UpdateRow, new
  <2>3. rows' \in [DOMAIN rows -> Tuple]
    BY <1>h, <2>1, <2>2, RowsHave
  <2>4. PICK stays \in SUBSET {i \in indexes : Missing(i, rows[r], r)} :
          entries' = [i \in IndexName |->
            IF i \in indexes \ stays
            THEN (entries[i] \ {EntryOf(i, rows[r], r)}) \cup {EntryOf(i, new, r)}
            ELSE entries[i]]
    BY <1>6 DEF UpdateRow, MoveEntries, new
  <2>5. entries' \in Entries
    BY <2>1, <2>4, EntryType DEF Entries
  <2> QED
    BY <1>h, <1>6, <2>3, <2>5, RowsAre DEF UpdateRow, disk
<1>7. ASSUME NEW r \in Record, DeleteRow(r)  PROVE Good
  <2>1. rows' = [other \in DOMAIN rows \ {r} |-> rows[other]]
    BY <1>7 DEF DeleteRow
  <2>2. rows' \in [DOMAIN rows \ {r} -> Tuple]
    BY <1>h, <2>1
  <2>3. entries' \in Entries
    BY <1>7 DEF DeleteRow, RemoveEntries, Entries
  <2> QED
    BY <1>h, <1>7, <2>2, <2>3, RowsAre DEF DeleteRow, disk
<1>8. ASSUME NEW r \in Record, UpdateFails(r)  PROVE Good
  <2>0. r \in DOMAIN rows /\ stmt \in Statements
    BY <1>8 DEF UpdateFails, Reaches, LaterRecords, NoStatement
  <2>1. Updated(stmt, rows[r]) \in Tuple /\ rows[r] \in Tuple
    BY <1>h, <2>0, UpdatedType
  <2>2. CASE UNCHANGED <<entries, torn>>
    BY <1>8, <2>2 DEF UpdateFails, disk
  <2>3. CASE TearEntries(rows[r], Updated(stmt, rows[r]), r)
    BY <1>8, <2>1, <2>3, TearType DEF UpdateFails, disk
  <2> QED
    BY <1>8, <2>2, <2>3 DEF UpdateFails
<1>9. ASSUME NEW r \in Record, DeleteFails(r)  PROVE Good
  <2>1. rows[r] \in Tuple
    BY <1>h, <1>9 DEF DeleteFails, Reaches, LaterRecords
  <2> QED
    BY <1>9, <2>1, TearType DEF DeleteFails, disk
<1>10. CASE Commit
  BY <1>10 DEF Commit, table, disk
<1>11. CASE Crash
  BY <1>11 DEF Crash, disk
<1>12. CASE UNCHANGED vars
  BY <1>12 DEF vars, table, disk
<1> QED
  BY <1>1, <1>2, <1>3, <1>4, <1>5, <1>6, <1>7, <1>8, <1>9, <1>10, <1>11,
     <1>12 DEF Next, PerformIterator

(* TypeOK: rows, entries and control stay of their types.                  *)
THEOREM TypeCorrect == Spec => []TypeOK
<1>1. Init => TypeOK
  <2> SUFFICES ASSUME Init PROVE TypeOK
    OBVIOUS
  <2>1. rows \in [{} -> Tuple]
    BY DEF Init
  <2>2. rows \in Rows
    BY <2>1, RowsAre
  <2>3. entries \in Entries
    BY DEF Init, Entries
  <2>4. /\ bornAt \in [IndexName -> 0 .. MaxRows]
        /\ last \in 0 .. MaxRows /\ cursor \in 0 .. MaxRows
    BY BoundAssumption DEF Init
  <2>5. readFailed \in BOOLEAN /\ lost \in BOOLEAN
    BY DEF Init
  <2>6. /\ diskRows = rows /\ diskEntries = entries /\ torn = {}
        /\ indexes = {} /\ pc = "idle" /\ stmt = NoStatement /\ answer = "none"
    BY DEF Init
  <2> QED
    BY <2>2, <2>3, <2>4, <2>5, <2>6, TypeOKIs
<1>2. TypeOK /\ [Next]_vars => TypeOK'
  <2> SUFFICES ASSUME TypeOK, [Next]_vars PROVE TypeOK'
    OBVIOUS
  <2>1. /\ \E R \in SUBSET Record : rows' \in [R -> Tuple]
        /\ \E R \in SUBSET Record : diskRows' \in [R -> Tuple]
    BY TableStep DEF Rows
  <2> QED
    BY <2>1, TableStep, ScalarStep, LostStep DEF TypeOK, Entries
<1> QED
  BY <1>1, <1>2, PTL DEF Spec

-----------------------------------------------------------------------------
(***************************************************************************)
(* Indexes.                                                                *)
(***************************************************************************)

(* An entry is a value with a record.                                      *)
LEMMA EntriesHave ==
    ASSUME NEW E \in Entries, NEW i \in IndexName, NEW e \in E[i]
    PROVE  e = <<e[1], e[2]>> /\ e[1] \in Value /\ e[2] \in Record
BY DEF Entries

(* One more entry, under a key no other record has.                        *)
LEMMA OneMoreEntry ==
    ASSUME NEW S \in SUBSET (Value \X Record),
           \A e, other \in S : e[1] = other[1] => e = other,
           NEW k \in Value, NEW r \in Record,
           \A x \in Record \ {r} : <<k, x>> \notin S,
           NEW T, T \subseteq S \cup {<<k, r>>}
    PROVE  \A e, other \in T : e[1] = other[1] => e = other
<1> SUFFICES ASSUME NEW e \in T, NEW other \in T, e[1] = other[1]
             PROVE  e = other
  OBVIOUS
<1>1. ASSUME NEW x \in S, x[1] = k  PROVE x = <<k, r>>
  <2>1. x = <<k, x[2]>> /\ x[2] \in Record
    BY <1>1
  <2> QED
    BY <2>1
<1>2. <<k, r>>[1] = k
  OBVIOUS
<1> QED
  BY <1>1, <1>2

(* The entries of an index whose change is at most one new entry the index *)
(* does not refuse.                                                        *)
LEMMA OneEntryStep ==
    ASSUME TypeOK, OneEntryPerKey(entries), UNCHANGED indexes,
           NEW t \in Tuple, NEW r \in Record,
           \A i \in indexes \cap UniqueIndex :
               \/ entries'[i] \subseteq entries[i]
               \/ /\ ~Taken(i, t, r)
                  /\ entries'[i] \subseteq entries[i] \cup {EntryOf(i, t, r)}
    PROVE  OneEntryPerKey(entries)'
<1> SUFFICES ASSUME NEW i \in indexes \cap UniqueIndex
             PROVE  \A e, other \in entries'[i] : e[1] = other[1] => e = other
  BY DEF OneEntryPerKey
<1>1. i \in IndexName /\ entries[i] \in SUBSET (Value \X Record)
  BY TypeOKIs DEF Entries
<1>2. \A e, other \in entries[i] : e[1] = other[1] => e = other
  BY DEF OneEntryPerKey
<1>3. CASE entries'[i] \subseteq entries[i]
  BY <1>2, <1>3
<1>4. CASE /\ ~Taken(i, t, r)
           /\ entries'[i] \subseteq entries[i] \cup {EntryOf(i, t, r)}
  <2>1. KeyOf(i, t) \in Value
    BY <1>1, IndexAssumption DEF KeyOf, Tuple
  <2>2. \A x \in Record \ {r} : <<KeyOf(i, t), x>> \notin entries[i]
    BY <1>4 DEF Taken, EntryOf
  <2>3. entries'[i] \subseteq entries[i] \cup {<<KeyOf(i, t), r>>}
    BY <1>4 DEF EntryOf
  <2> QED
    BY <1>1, <1>2, <2>1, <2>2, <2>3, OneMoreEntry
<1> QED
  BY <1>3, <1>4

(* The rows fit the entries after a step that leaves those of all other    *)
(* records alone, if they do for the one it is about.                      *)
LEMMA FitsStep ==
    ASSUME TypeOK, Fits(rows, entries), UNCHANGED <<indexes, bornAt>>,
           torn \subseteq torn',
           NEW r \in Record,
           \A x \in Record \ {r} : /\ x \in DOMAIN rows' <=> x \in DOMAIN rows
                                   /\ x \in DOMAIN rows => rows'[x] = rows[x],
           \A i \in indexes, x \in Record \ {r} :
               /\ \A e \in entries'[i] : e[2] = x => e \in entries[i]
               /\ \A e \in entries[i] : e[2] = x => e \in entries'[i],
           r \notin torn' => \A i \in indexes :
               /\ r \in DOMAIN rows' =>
                    /\ \A e \in entries'[i] : e[2] = r => e = EntryOf(i, rows'[r], r)
                    /\ r > bornAt[i] => EntryOf(i, rows'[r], r) \in entries'[i]
               /\ r \notin DOMAIN rows' => \A e \in entries'[i] : e[2] # r
    PROVE  Fits(rows, entries)'
<1> SUFFICES ASSUME NEW i \in indexes, NEW x \in Record \ torn'
    PROVE  /\ x \in DOMAIN rows' =>
                /\ \A e \in entries'[i] : e[2] = x => e = EntryOf(i, rows'[x], x)
                /\ x > bornAt[i] => EntryOf(i, rows'[x], x) \in entries'[i]
           /\ x \notin DOMAIN rows' => \A e \in entries'[i] : e[2] # x
  BY DEF Fits
<1>1. CASE x = r
  BY <1>1
<1>2. CASE x # r
  <2>1. /\ x \in DOMAIN rows =>
             /\ \A e \in entries[i] : e[2] = x => e = EntryOf(i, rows[x], x)
             /\ x > bornAt[i] => EntryOf(i, rows[x], x) \in entries[i]
        /\ x \notin DOMAIN rows => \A e \in entries[i] : e[2] # x
    BY DEF Fits
  <2>2. EntryOf(i, rows[x], x)[2] = x
    BY DEF EntryOf
  <2>3. /\ x \in DOMAIN rows' <=> x \in DOMAIN rows
        /\ x \in DOMAIN rows => rows'[x] = rows[x]
    BY <1>2
  <2>4. /\ \A e \in entries'[i] : e[2] = x => e \in entries[i]
        /\ \A e \in entries[i] : e[2] = x => e \in entries'[i]
    BY <1>2
  <2>5. x > bornAt[i] /\ x \in DOMAIN rows => EntryOf(i, rows[x], x) \in entries'[i]
    BY <2>1, <2>2, <2>4
  <2>6. bornAt' = bornAt
    OBVIOUS
  <2> QED
    BY <2>1, <2>3, <2>4, <2>5, <2>6
<1> QED
  BY <1>1, <1>2

(* What is on disk fits while it and the indexes stay.                     *)
LEMMA DiskStep ==
    ASSUME Indexed, UNCHANGED <<disk, indexes, bornAt, last>>, torn \subseteq torn'
    PROVE  /\ Fits(diskRows, diskEntries)'
           /\ OneEntryPerKey(diskEntries)'
           /\ NumbersGivenOut(diskRows)'
<1>1. diskRows' = diskRows /\ diskEntries' = diskEntries
  BY DEF disk
<1>2. Fits(diskRows, diskEntries)'
  BY <1>1 DEF Indexed, Fits
<1>3. OneEntryPerKey(diskEntries)'
  BY <1>1 DEF Indexed, OneEntryPerKey
<1>4. NumbersGivenOut(diskRows)'
  BY <1>1 DEF Indexed, NumbersGivenOut
<1> QED
  BY <1>2, <1>3, <1>4

(* INSERT.                                                                 *)
LEMMA InsertKeepsIndexed ==
    ASSUME TypeOK, Indexed, NEW t \in Tuple, Insert(t)
    PROVE  Indexed'
<1>1. CASE UNCHANGED <<table, disk, last>>
  <2>1. rows' = rows /\ entries' = entries /\ UNCHANGED <<indexes, bornAt, torn, pc>>
    BY <1>1 DEF Insert, table, ddl
  <2> QED
    BY <1>1, <2>1 DEF Indexed, Fits, OneEntryPerKey, NumbersGivenOut, Idle, disk
<1>2. CASE /\ CanInsert(t, last + 1)
           /\ rows' = [r \in DOMAIN rows \cup {last + 1} |->
                          IF r = last + 1 THEN t ELSE rows[r]]
           /\ AddEntries(t, last + 1)
           /\ last' = last + 1
           /\ CommitAtOnce
  <2> DEFINE n == last + 1
  <2>1. /\ n \in Record /\ n \in Nat /\ last \in Nat /\ n > last
        /\ UNCHANGED <<indexes, bornAt, torn, pc>>
        /\ last' = n
    BY <1>2, BoundAssumption DEF Insert, TypeOK, Record, ddl
  <2>2. n \notin DOMAIN rows
    BY <2>1 DEF Indexed, NumbersGivenOut
  <2>3. entries' = [i \in IndexName |->
            entries[i] \cup (IF i \in indexes THEN {EntryOf(i, t, n)} ELSE {})]
    BY <1>2 DEF AddEntries
  <2>4. /\ DOMAIN rows' = DOMAIN rows \cup {n}
        /\ rows'[n] = t
        /\ \A x \in Record \ {n} : x \in DOMAIN rows => rows'[x] = rows[x]
    BY <1>2
  <2>5. n \notin torn
    BY <2>1 DEF Indexed
  <2> HIDE DEF n
  <2>6. \A i \in indexes : /\ i \in IndexName
                           /\ entries'[i] = entries[i] \cup {EntryOf(i, t, n)}
                           /\ EntryOf(i, t, n)[2] = n
    BY <2>3 DEF TypeOK, EntryOf
  <2>7. Fits(rows, entries)'
    <3>1. \A i \in indexes : \A e \in entries[i] : e[2] # n
      BY <2>1, <2>2, <2>5 DEF Indexed, Fits
    <3>2. Fits(rows, entries) /\ n \notin torn'
      BY <2>1, <2>5 DEF Indexed
    <3> QED
      BY <2>1, <2>4, <2>6, <3>1, <3>2, FitsStep
  <2>8. OneEntryPerKey(entries)'
    <3>1. \A i \in indexes : ~Taken(i, t, n)
      BY <1>2 DEF CanInsert, n
    <3> QED
      BY <2>1, <2>6, <3>1, OneEntryStep DEF Indexed
  <2>9. NumbersGivenOut(rows)'
    BY <2>1, <2>4, RowsHave, TypeOKIs DEF Indexed, NumbersGivenOut, Record
  <2>10. diskRows' = rows' /\ diskEntries' = entries'
    BY <1>2 DEF CommitAtOnce
  <2>11. \A r \in torn' : r <= last'
    BY <2>1 DEF Indexed, TypeOK, Record
  <2>12. \A i \in IndexName : bornAt'[i] <= last'
    <3>1. \A i \in IndexName : bornAt[i] \in Nat /\ bornAt[i] <= last
      BY BoundAssumption DEF Indexed, TypeOK
    <3> QED
      BY <2>1, <3>1
  <2> QED
    BY <2>7, <2>8, <2>9, <2>10, <2>11, <2>12
    DEF Indexed, Idle, Fits, OneEntryPerKey, NumbersGivenOut
<1> QED
  BY <1>1, <1>2 DEF Insert

(* CREATE INDEX and DROP INDEX.                                            *)
LEMMA IndexDDLKeepsIndexed ==
    ASSUME TypeOK, Indexed, NEW i \in IndexName, CreateIndex(i) \/ DropIndex(i)
    PROVE  Indexed'
<1>1. /\ rows' = rows /\ diskRows' = rows /\ diskEntries' = entries'
      /\ entries' = [entries EXCEPT ![i] = {}]
      /\ UNCHANGED <<last, torn, pc>>
  BY DEF CreateIndex, DropIndex, CommitAtOnce
<1>2. /\ entries'[i] = {}
      /\ \A x \in IndexName \ {i} : entries'[x] = entries[x]
  BY <1>1, TypeOKIs DEF Entries
<1>3. /\ indexes' \subseteq indexes \cup {i}
      /\ i \in indexes' => bornAt'[i] = last
      /\ bornAt' \in [IndexName -> Nat]
      /\ \A x \in IndexName \ {i} : bornAt'[x] = bornAt[x]
      /\ bornAt'[i] <= last
      /\ last \in Nat
  BY BoundAssumption DEF CreateIndex, DropIndex, TypeOK
<1>4. indexes \subseteq IndexName
  BY DEF TypeOK
<1>5. Fits(rows, entries)'
  <2> SUFFICES ASSUME NEW x \in indexes', NEW r \in Record \ torn
      PROVE /\ r \in DOMAIN rows =>
                 /\ \A e \in entries'[x] : e[2] = r => e = EntryOf(x, rows[r], r)
                 /\ r > bornAt'[x] => EntryOf(x, rows[r], r) \in entries'[x]
            /\ r \notin DOMAIN rows => \A e \in entries'[x] : e[2] # r
    BY <1>1 DEF Fits
  <2>1. CASE x = i
    <3>1. r \in DOMAIN rows => r <= last /\ r \in Nat
      BY DEF Indexed, NumbersGivenOut, Record
    <3> QED
      BY <1>2, <1>3, <2>1, <3>1
  <2>2. CASE x # i
    BY <1>2, <1>3, <1>4, <2>2 DEF Indexed, Fits
  <2> QED
    BY <2>1, <2>2
<1>6. OneEntryPerKey(entries)'
  BY <1>2, <1>3, <1>4 DEF Indexed, OneEntryPerKey
<1>7. NumbersGivenOut(rows)' /\ \A r \in torn' : r <= last'
  BY <1>1 DEF Indexed, NumbersGivenOut
<1>8. \A x \in IndexName : bornAt'[x] <= last'
  BY <1>1, <1>3 DEF Indexed
<1> QED
  BY <1>1, <1>5, <1>6, <1>7, <1>8
  DEF Indexed, Idle, Fits, OneEntryPerKey, NumbersGivenOut

(* The record under the cursor, and the transaction it is changed in.      *)
LEMMA AtCursor ==
    ASSUME TypeOK, NEW r \in Record, Reaches(r)
    PROVE  /\ pc = "scan"
           /\ r \in DOMAIN rows
           /\ rows[r] \in Tuple
           /\ r \in Nat /\ cursor \in Nat /\ r > cursor
           /\ \A x \in DOMAIN rows : x > cursor => r <= x
BY RowsHave, TypeOKIs DEF Reaches, LaterRecords, Record

(* UPDATE of a row.                                                        *)
LEMMA UpdateKeepsIndexed ==
    ASSUME TypeOK, Indexed, NEW r \in Record, UpdateRow(r),
           stmt \in Statements
    PROVE  Indexed'
<1> DEFINE old == rows[r]
           new == Updated(stmt, rows[r])
<1>1. /\ pc = "scan" /\ r \in DOMAIN rows /\ old \in Tuple
      /\ UNCHANGED <<disk, last, indexes, bornAt, torn, pc>>
  BY AtCursor DEF UpdateRow, ddl
<1>2. new \in Tuple
  BY <1>1, UpdatedType
<1>3. /\ CanReplace(old, new, r)
      /\ rows' = [rows EXCEPT ![r] = new]
  BY DEF UpdateRow
<1>4. PICK stays \in SUBSET {i \in indexes : Missing(i, old, r)} :
        entries' = [i \in IndexName |->
            IF i \in indexes \ stays
            THEN (entries[i] \ {EntryOf(i, old, r)}) \cup {EntryOf(i, new, r)}
            ELSE entries[i]]
  BY DEF UpdateRow, MoveEntries
<1> HIDE DEF old, new
<1>5. /\ DOMAIN rows' = DOMAIN rows
      /\ rows'[r] = new
      /\ \A x \in DOMAIN rows \ {r} : rows'[x] = rows[x]
  BY <1>1, <1>3, RowsHave, TypeOKIs
<1>6. \A i \in indexes :
        /\ i \in IndexName
        /\ EntryOf(i, old, r)[2] = r /\ EntryOf(i, new, r)[2] = r
        /\ i \in stays =>
              /\ entries'[i] = entries[i]
              /\ EntryOf(i, old, r) \notin entries[i]
              /\ EntryOf(i, old, r) = EntryOf(i, new, r)
        /\ i \notin stays =>
              entries'[i] =
                (entries[i] \ {EntryOf(i, old, r)}) \cup {EntryOf(i, new, r)}
  BY <1>3, <1>4 DEF TypeOK, EntryOf, CanReplace, Missing
<1>7. Fits(rows, entries)'
  <2>1. \A i \in indexes, x \in Record \ {r} :
            /\ \A e \in entries'[i] : e[2] = x => e \in entries[i]
            /\ \A e \in entries[i] : e[2] = x => e \in entries'[i]
    BY <1>6
  <2>2. ASSUME r \notin torn', NEW i \in indexes
        PROVE  /\ \A e \in entries'[i] : e[2] = r => e = EntryOf(i, new, r)
               /\ r > bornAt[i] => EntryOf(i, new, r) \in entries'[i]
    <3>1. /\ \A e \in entries[i] : e[2] = r => e = EntryOf(i, old, r)
          /\ r > bornAt[i] => EntryOf(i, old, r) \in entries[i]
      BY <1>1, <2>2 DEF Indexed, Fits, old
    <3> QED
      BY <1>6, <3>1
  <2> QED
    BY <1>1, <1>5, <2>1, <2>2, FitsStep DEF Indexed
<1>8. OneEntryPerKey(entries)'
  <2>1. \A i \in indexes : ~Taken(i, new, r)
    BY <1>3 DEF CanReplace
  <2>2. \A i \in indexes : entries'[i] \subseteq entries[i] \cup {EntryOf(i, new, r)}
    BY <1>6
  <2> QED
    BY <1>1, <1>2, <2>1, <2>2, OneEntryStep DEF Indexed
<1>9. NumbersGivenOut(rows)'
  BY <1>1, <1>5 DEF Indexed, NumbersGivenOut
<1>10. Idle'
  BY <1>1 DEF Idle
<1> QED
  BY <1>1, <1>7, <1>8, <1>9, <1>10, DiskStep DEF Indexed

(* DELETE of a row.                                                        *)
LEMMA DeleteKeepsIndexed ==
    ASSUME TypeOK, Indexed, NEW r \in Record, DeleteRow(r)
    PROVE  Indexed'
<1> DEFINE old == rows[r]
<1>1. /\ pc = "scan" /\ r \in DOMAIN rows /\ old \in Tuple
      /\ UNCHANGED <<disk, last, indexes, bornAt, torn, pc>>
  BY AtCursor DEF DeleteRow, ddl
<1>2. /\ rows' = [x \in DOMAIN rows \ {r} |-> rows[x]]
      /\ entries' = [i \in IndexName |-> entries[i] \ {EntryOf(i, old, r)}]
  BY DEF DeleteRow, RemoveEntries
<1> HIDE DEF old
<1>3. \A i \in indexes : /\ i \in IndexName
                         /\ EntryOf(i, old, r)[2] = r
                         /\ entries'[i] = entries[i] \ {EntryOf(i, old, r)}
  BY <1>2 DEF TypeOK, EntryOf
<1>4. Fits(rows, entries)'
  <2>1. \A i \in indexes, x \in Record \ {r} :
            /\ \A e \in entries'[i] : e[2] = x => e \in entries[i]
            /\ \A e \in entries[i] : e[2] = x => e \in entries'[i]
    BY <1>3
  <2>2. ASSUME r \notin torn', NEW i \in indexes
        PROVE  \A e \in entries'[i] : e[2] # r
    <3>1. \A e \in entries[i] : e[2] = r => e = EntryOf(i, old, r)
      BY <1>1, <2>2 DEF Indexed, Fits, old
    <3> QED
      BY <1>3, <3>1
  <2>3. /\ r \notin DOMAIN rows'
        /\ \A x \in Record \ {r} : /\ x \in DOMAIN rows' <=> x \in DOMAIN rows
                                   /\ x \in DOMAIN rows => rows'[x] = rows[x]
    BY <1>2
  <2> QED
    BY <1>1, <2>1, <2>2, <2>3, FitsStep DEF Indexed
<1>5. OneEntryPerKey(entries)'
  BY <1>1, <1>3 DEF Indexed, OneEntryPerKey
<1>6. NumbersGivenOut(rows)'
  BY <1>1, <1>2 DEF Indexed, NumbersGivenOut
<1>7. Idle'
  BY <1>1 DEF Idle
<1> QED
  BY <1>1, <1>4, <1>5, <1>6, <1>7, DiskStep DEF Indexed

(* A call that fails half-way.                                             *)
LEMMA TearKeepsIndexed ==
    ASSUME TypeOK, Indexed, NEW r \in Record, NEW old \in Tuple, NEW new \in Tuple,
           Reaches(r), TearEntries(old, new, r),
           UNCHANGED <<rows, disk, last, ddl>>, pc' = "commit"
    PROVE  Indexed'
<1>1. PICK added \in SUBSET {i \in indexes : ~Taken(i, new, r)},
           removed \in SUBSET indexes :
        entries' = [i \in IndexName |->
               (entries[i] \cup
                   (IF i \in added THEN {EntryOf(i, new, r)} ELSE {}))
                 \ (IF i \in removed THEN {EntryOf(i, old, r)} ELSE {})]
  BY DEF TearEntries
<1>2. torn' = IF entries' = entries THEN torn ELSE torn \cup {r}
  BY DEF TearEntries
<1>3. r \in DOMAIN rows /\ r <= last
  BY AtCursor DEF Indexed, NumbersGivenOut
<1>4. UNCHANGED <<indexes, bornAt>>
  BY DEF ddl
<1>5. \A i \in indexes :
        /\ i \in IndexName
        /\ EntryOf(i, old, r)[2] = r /\ EntryOf(i, new, r)[2] = r
        /\ entries'[i] =
               (entries[i] \cup
                   (IF i \in added THEN {EntryOf(i, new, r)} ELSE {}))
                 \ (IF i \in removed THEN {EntryOf(i, old, r)} ELSE {})
  BY <1>1 DEF TypeOK, EntryOf
<1>6. Fits(rows, entries)'
  <2>1. CASE entries' = entries
    BY <1>2, <1>4, <2>1 DEF Indexed, Fits
  <2>2. CASE entries' # entries
    <3>1. r \in torn' /\ torn \subseteq torn'
      BY <1>2, <2>2
    <3>2. \A i \in indexes, x \in Record \ {r} :
            /\ \A e \in entries'[i] : e[2] = x => e \in entries[i]
            /\ \A e \in entries[i] : e[2] = x => e \in entries'[i]
      BY <1>5
    <3> QED
      BY <1>4, <3>1, <3>2, FitsStep DEF Indexed
  <2> QED
    BY <2>1, <2>2
<1>7. OneEntryPerKey(entries)'
  <2>1. \A i \in indexes :
          \/ entries'[i] \subseteq entries[i]
          \/ /\ ~Taken(i, new, r)
             /\ entries'[i] \subseteq entries[i] \cup {EntryOf(i, new, r)}
    BY <1>5
  <2> QED
    BY <1>4, <2>1, OneEntryStep DEF Indexed
<1>8. torn \subseteq torn' /\ \A x \in torn' : x <= last
  BY <1>2, <1>3 DEF Indexed
<1>9. NumbersGivenOut(rows)' /\ Idle'
  BY DEF Indexed, NumbersGivenOut, Idle
<1> QED
  BY <1>4, <1>6, <1>7, <1>8, <1>9, DiskStep DEF Indexed

(* Every step.                                                             *)
LEMMA StepKeepsIndexed ==
    ASSUME TypeOK, Indexed, [Next]_vars
    PROVE  Indexed'
<1>1. ASSUME UNCHANGED <<rows, entries, disk, last, indexes, bornAt, torn>>,
             pc' = "idle" => pc = "idle"
      PROVE  Indexed'
  <2>1. diskRows' = diskRows /\ diskEntries' = diskEntries
    BY <1>1 DEF disk
  <2>2. Fits(rows, entries)' /\ Fits(diskRows, diskEntries)'
    BY <1>1, <2>1 DEF Indexed, Fits
  <2>3. OneEntryPerKey(entries)' /\ OneEntryPerKey(diskEntries)'
    BY <1>1, <2>1 DEF Indexed, OneEntryPerKey
  <2>4. NumbersGivenOut(rows)' /\ NumbersGivenOut(diskRows)'
    BY <1>1, <2>1 DEF Indexed, NumbersGivenOut
  <2>5. Idle'
    BY <1>1, <2>1 DEF Indexed, Idle
  <2> QED
    BY <1>1, <2>2, <2>3, <2>4, <2>5 DEF Indexed
<1>2. ASSUME NEW t \in Tuple, Insert(t)  PROVE Indexed'
  BY <1>2, InsertKeepsIndexed
<1>3. ASSUME NEW i \in IndexName, CreateIndex(i) \/ DropIndex(i)  PROVE Indexed'
  BY <1>3, IndexDDLKeepsIndexed
<1>4. ASSUME NEW s \in Statements, Begin(s)  PROVE Indexed'
  BY <1>1, <1>4 DEF Begin, table, ddl
<1>5. CASE NoMoreRows \/ ReadFails
  BY <1>1, <1>5 DEF NoMoreRows, ReadFails, Leave, table, ddl
<1>6. ASSUME NEW r \in Record, SkipRow(r)  PROVE Indexed'
  BY <1>1, <1>6 DEF SkipRow, table, ddl
<1>7. ASSUME NEW r \in Record, UpdateRow(r)  PROVE Indexed'
  <2>1. stmt \in Statements
    BY <1>7 DEF UpdateRow, TypeOK, NoStatement
  <2> QED
    BY <1>7, <2>1, UpdateKeepsIndexed
<1>8. ASSUME NEW r \in Record, DeleteRow(r)  PROVE Indexed'
  BY <1>8, DeleteKeepsIndexed
<1>9. ASSUME NEW r \in Record, UpdateFails(r)  PROVE Indexed'
  <2>1. /\ stmt \in Statements /\ Reaches(r) /\ pc' = "commit"
        /\ UNCHANGED <<rows, disk, last, ddl>>
    BY <1>9 DEF UpdateFails, TypeOK, NoStatement, Leave
  <2>2. rows[r] \in Tuple /\ Updated(stmt, rows[r]) \in Tuple
    BY <2>1, AtCursor, UpdatedType
  <2>3. CASE UNCHANGED <<entries, torn>>
    BY <1>1, <2>1, <2>3 DEF ddl
  <2>4. CASE TearEntries(rows[r], Updated(stmt, rows[r]), r)
    BY <2>1, <2>2, <2>4, TearKeepsIndexed
  <2> QED
    BY <1>9, <2>3, <2>4 DEF UpdateFails
<1>10. ASSUME NEW r \in Record, DeleteFails(r)  PROVE Indexed'
  <2>1. /\ Reaches(r) /\ TearEntries(rows[r], rows[r], r) /\ pc' = "commit"
        /\ UNCHANGED <<rows, disk, last, ddl>>
    BY <1>10 DEF DeleteFails, Leave
  <2>2. rows[r] \in Tuple
    BY <2>1, AtCursor
  <2> QED
    BY <2>1, <2>2, TearKeepsIndexed
<1>11. CASE Commit \/ Crash
  <2>1. /\ rows' = diskRows' /\ entries' = diskEntries'
        /\ \/ diskRows' = rows /\ diskEntries' = entries
           \/ diskRows' = diskRows /\ diskEntries' = diskEntries
        /\ UNCHANGED <<last, indexes, bornAt, torn>>
    BY <1>11 DEF Commit, Crash, table, disk, ddl
  <2>2. Fits(rows, entries)' /\ Fits(diskRows, diskEntries)'
    BY <2>1 DEF Indexed, Fits
  <2>3. OneEntryPerKey(entries)' /\ OneEntryPerKey(diskEntries)'
    BY <2>1 DEF Indexed, OneEntryPerKey
  <2>4. NumbersGivenOut(rows)' /\ NumbersGivenOut(diskRows)'
    BY <2>1 DEF Indexed, NumbersGivenOut
  <2> QED
    BY <2>1, <2>2, <2>3, <2>4 DEF Indexed, Idle
<1>12. CASE UNCHANGED vars
  BY <1>1, <1>12 DEF vars, table, ddl
<1> QED
  BY <1>2, <1>3, <1>4, <1>5, <1>6, <1>7, <1>8, <1>9, <1>10, <1>11, <1>12
  DEF Next, PerformIterator

(* The indexes fit the table, in memory and on disk.                       *)
THEOREM IndexedInvariant == Spec => [](TypeOK /\ Indexed)
<1>1. Init => Indexed
  BY DEF Init, Indexed, Fits, OneEntryPerKey, NumbersGivenOut, Idle
<1>2. TypeOK /\ Indexed /\ [Next]_vars => Indexed'
  BY StepKeepsIndexed
<1> QED
  BY <1>1, <1>2, TypeCorrect, PTL DEF Spec

(* IndexFitsTable: each row inserted since an index was created has its    *)
(* entry there, and nothing else is, torn records excepted.                *)
THEOREM IndexAlwaysFits == Spec => []IndexFitsTable
<1>1. TypeOK /\ Indexed => IndexFitsTable
  <2> SUFFICES ASSUME TypeOK, Indexed, NEW i \in indexes, NEW r \in Record \ torn
      PROVE  IF r \in DOMAIN rows
             THEN /\ EntriesFor(i, r) \subseteq {EntryOf(i, rows[r], r)}
                  /\ r > bornAt[i] => EntriesFor(i, r) # {}
             ELSE EntriesFor(i, r) = {}
    BY DEF IndexFitsTable
  <2>1. EntryOf(i, rows[r], r)[2] = r
    BY DEF EntryOf
  <2> QED
    BY <2>1 DEF Indexed, Fits, EntriesFor
<1> QED
  BY <1>1, IndexedInvariant, PTL

(* NewRowsUnique: rows inserted since a unique index was created differ in *)
(* its column.                                                             *)
THEOREM NewRowsAlwaysUnique == Spec => []NewRowsUnique
<1>1. TypeOK /\ Indexed => NewRowsUnique
  <2> SUFFICES ASSUME TypeOK, Indexed, NEW i \in indexes \cap UniqueIndex,
                      NEW r \in DOMAIN rows \ torn, NEW other \in DOMAIN rows \ torn,
                      r # other, r > bornAt[i], other > bornAt[i],
                      KeyOf(i, rows[r]) = KeyOf(i, rows[other])
               PROVE  FALSE
    BY DEF NewRowsUnique
  <2>1. r \in Record /\ other \in Record
    BY RowsHave, TypeOKIs
  <2>2. EntryOf(i, rows[r], r) \in entries[i] /\ EntryOf(i, rows[other], other) \in entries[i]
    BY <2>1 DEF Indexed, Fits
  <2>3. EntryOf(i, rows[r], r) = EntryOf(i, rows[other], other)
    BY <2>2 DEF Indexed, OneEntryPerKey, EntryOf
  <2> QED
    BY <2>3 DEF EntryOf
<1> QED
  BY <1>1, IndexedInvariant, PTL

-----------------------------------------------------------------------------
(***************************************************************************)
(* The effect of UPDATE and DELETE.                                        *)
(***************************************************************************)

Hit(s, R, n, r) == r <= n /\ R[r] \in s.where

Without(f, r) == [x \in DOMAIN f \ {r} |-> f[x]]
Replaced(f, r, v) == [x \in DOMAIN f |-> IF x = r THEN v ELSE f[x]]

(* Only what is hit matters.                                               *)
LEMMA AppliedSame ==
    ASSUME NEW s, NEW R, NEW m, NEW n,
           \A x \in DOMAIN R : Hit(s, R, m, x) <=> Hit(s, R, n, x)
    PROVE  Applied(s, R, m) = Applied(s, R, n)
<1> DEFINE D(k) == {x \in DOMAIN R : s.kind = "delete" => ~Hit(s, R, k, x)}
           V(k, x) == IF Hit(s, R, k, x) THEN Updated(s, R[x]) ELSE R[x]
<1>1. D(m) = D(n)
  OBVIOUS
<1>2. \A x \in D(m) : V(m, x) = V(n, x)
  OBVIOUS
<1>3. /\ Applied(s, R, m) = [x \in D(m) |-> V(m, x)]
      /\ Applied(s, R, n) = [x \in D(n) |-> V(n, x)]
  BY DEF Applied, Hit
<1> HIDE DEF D, V
<1> QED
  BY <1>1, <1>2, <1>3

(* One more row that is hit.                                               *)
LEMMA AppliedMore ==
    ASSUME NEW s, NEW R, NEW c, NEW r \in DOMAIN R,
           Hit(s, R, r, r), ~Hit(s, R, c, r),
           \A x \in DOMAIN R \ {r} : Hit(s, R, r, x) <=> Hit(s, R, c, x)
    PROVE  /\ s.kind = "delete" =>
                Applied(s, R, r) = Without(Applied(s, R, c), r)
           /\ s.kind # "delete" =>
                Applied(s, R, r) = Replaced(Applied(s, R, c), r, Updated(s, R[r]))
<1> DEFINE A == Applied(s, R, c)
           B == Applied(s, R, r)
           D(k) == {x \in DOMAIN R : s.kind = "delete" => ~Hit(s, R, k, x)}
           V(k, x) == IF Hit(s, R, k, x) THEN Updated(s, R[x]) ELSE R[x]
<1>0. A = [x \in D(c) |-> V(c, x)] /\ B = [x \in D(r) |-> V(r, x)]
  BY DEF Applied, Hit
<1>1. /\ DOMAIN A = D(c)
      /\ \A x \in DOMAIN A : A[x] = V(c, x)
  BY <1>0
<1>2. /\ DOMAIN B = D(r)
      /\ B = [x \in DOMAIN B |-> V(r, x)]
  BY <1>0
<1> HIDE DEF A, B
<1>3. CASE s.kind = "delete"
  <2>1. DOMAIN B = DOMAIN A \ {r}
    BY <1>1, <1>2, <1>3
  <2>2. \A x \in DOMAIN A \ {r} :
            (IF Hit(s, R, r, x) THEN Updated(s, R[x]) ELSE R[x]) = A[x]
    BY <1>1
  <2>3. B = [x \in DOMAIN A \ {r} |-> A[x]]
    BY <1>2, <2>1, <2>2
  <2> QED
    BY <1>3, <2>3 DEF A, B, Without
<1>4. CASE s.kind # "delete"
  <2>1. DOMAIN A = DOMAIN R /\ DOMAIN B = DOMAIN R
    BY <1>1, <1>2, <1>4
  <2>2. \A x \in DOMAIN R :
            (IF Hit(s, R, r, x) THEN Updated(s, R[x]) ELSE R[x]) =
            IF x = r THEN Updated(s, R[r]) ELSE A[x]
    BY <1>1, <2>1
  <2>3. B = [x \in DOMAIN R |-> IF x = r THEN Updated(s, R[r]) ELSE A[x]]
    BY <1>2, <2>1, <2>2
  <2> QED
    BY <1>4, <2>1, <2>3 DEF A, B, Replaced
<1> QED
  BY <1>3, <1>4

(* Between the cursor and the record it moves to there is nothing to hit.  *)
LEMMA NothingBetween ==
    ASSUME TypeOK, Effect, pc = "scan", NEW x \in DOMAIN diskRows, x > cursor
    PROVE  x \in DOMAIN rows /\ rows[x] = diskRows[x]
<1>1. rows = Applied(stmt, diskRows, cursor)
  BY DEF Effect
<1>2. x \in Nat /\ cursor \in Nat
  BY RowsHave, TypeOKIs DEF Record
<1>3. ~(x <= cursor)
  BY <1>2
<1> QED
  BY <1>1, <1>3 DEF Applied

(* A record of the table is on disk: UPDATE and DELETE add none.           *)
LEMMA ReachedOnDisk ==
    ASSUME TypeOK, Effect, NEW r \in Record, Reaches(r)
    PROVE  /\ r \in DOMAIN diskRows
           /\ rows[r] = diskRows[r]
           /\ \A x \in DOMAIN diskRows : x > cursor => r <= x
<1>1. rows = Applied(stmt, diskRows, cursor) /\ r \in DOMAIN rows /\ r > cursor
  BY AtCursor DEF Effect
<1>2. r \in DOMAIN diskRows
  BY <1>1 DEF Applied
<1> QED
  BY <1>1, <1>2, AtCursor, NothingBetween

(* The scan goes on with the next record.                                  *)
LEMMA ScanKeepsEffect ==
    ASSUME TypeOK, Indexed, Effect, NEW r \in Record,
           SkipRow(r) \/ UpdateRow(r) \/ DeleteRow(r)
    PROVE  Effect'
<1>1. /\ Reaches(r) /\ cursor' = r
      /\ UNCHANGED <<disk, last, pc, stmt, readFailed, answer>>
  BY DEF SkipRow, UpdateRow, DeleteRow
<1>2. /\ pc = "scan" /\ r \in DOMAIN rows /\ r > cursor
      /\ r \in Nat /\ cursor \in Nat
  BY <1>1, AtCursor
<1>3. /\ r \in DOMAIN diskRows /\ rows[r] = diskRows[r]
      /\ \A x \in DOMAIN diskRows : x > cursor => r <= x
  BY <1>1, ReachedOnDisk
<1>4. /\ rows = Applied(stmt, diskRows, cursor) /\ stmt \in Statements
      /\ answer = "kOK" /\ ~readFailed
  BY <1>2 DEF Effect
<1>5. diskRows' = diskRows /\ stmt' = stmt
  BY <1>1 DEF disk
<1>6. \A x \in DOMAIN diskRows : x \in Nat
  BY RowsHave, TypeOKIs DEF Record
<1>7. \A x \in DOMAIN diskRows \ {r} : x <= r <=> x <= cursor
  BY <1>2, <1>3, <1>6
<1>8. ~(r <= cursor) /\ r <= r
  BY <1>2
<1>9. rows' = Applied(stmt, diskRows, r)
  <2>1. CASE SkipRow(r)
    <3>1. rows' = rows /\ diskRows[r] \notin stmt.where
      BY <1>3, <2>1 DEF SkipRow, Matches, table
    <3>2. \A x \in DOMAIN diskRows :
              Hit(stmt, diskRows, cursor, x) <=> Hit(stmt, diskRows, r, x)
      BY <1>7, <3>1 DEF Hit
    <3> QED
      BY <1>4, <3>1, <3>2, AppliedSame
  <2>2. CASE UpdateRow(r) \/ DeleteRow(r)
    <3>1. /\ Hit(stmt, diskRows, r, r)
          /\ ~Hit(stmt, diskRows, cursor, r)
          /\ \A x \in DOMAIN diskRows \ {r} :
                Hit(stmt, diskRows, r, x) <=> Hit(stmt, diskRows, cursor, x)
      BY <1>3, <1>7, <1>8, <2>2 DEF UpdateRow, DeleteRow, Matches, Hit
    <3>2. CASE UpdateRow(r)
      <4>1. /\ stmt.kind # "delete"
            /\ rows' = [rows EXCEPT ![r] = Updated(stmt, rows[r])]
        BY <3>2 DEF UpdateRow
      <4>2. rows' = Replaced(rows, r, Updated(stmt, rows[r]))
        <5>1. rows \in [DOMAIN rows -> Tuple]
          BY RowsHave, TypeOKIs
        <5> DEFINE new == Updated(stmt, rows[r])
        <5>2. rows' = [rows EXCEPT ![r] = new]
          BY <4>1
        <5> HIDE DEF new
        <5>3. rows' = [x \in DOMAIN rows |-> IF x = r THEN new ELSE rows[x]]
          BY <5>1, <5>2
        <5> QED
          BY <5>3 DEF new, Replaced
      <4> QED
        BY <1>3, <1>4, <3>1, <4>1, <4>2, AppliedMore
    <3>3. CASE DeleteRow(r)
      <4>1. stmt.kind = "delete" /\ rows' = Without(rows, r)
        BY <3>3 DEF DeleteRow, Without
      <4> QED
        BY <1>3, <1>4, <3>1, <4>1, AppliedMore
    <3> QED
      BY <2>2, <3>2, <3>3
  <2> QED
    BY <2>1, <2>2 DEF SkipRow, UpdateRow, DeleteRow
<1>10. r <= last
  BY <1>2 DEF Indexed, NumbersGivenOut
<1> QED
  BY <1>1, <1>2, <1>4, <1>5, <1>9, <1>10 DEF Effect

(* The scan ends.                                                          *)
LEMMA EndKeepsEffect ==
    ASSUME TypeOK, Indexed, Effect,
           \/ NoMoreRows \/ ReadFails
           \/ \E r \in Record : UpdateFails(r) \/ DeleteFails(r)
    PROVE  Effect'
<1>1. /\ pc = "scan" /\ pc' = "commit" /\ rows' = rows /\ diskRows' = diskRows
      /\ UNCHANGED <<stmt, cursor, last>> /\ answer' # "none"
  BY DEF NoMoreRows, ReadFails, UpdateFails, DeleteFails, Leave, table, disk,
         Reaches, Effect
<1>2. CASE NoMoreRows
  <2>1. \A x \in DOMAIN diskRows : x \in Nat /\ x <= last /\ ~(x > cursor)
    <3>1. \A x \in DOMAIN rows : ~(x > cursor)
      BY <1>2 DEF NoMoreRows, LaterRecords
    <3>2. \A x \in DOMAIN diskRows : x \in Nat
      BY RowsHave, TypeOKIs DEF Record
    <3> QED
      BY <1>1, <3>1, <3>2, NothingBetween DEF Indexed, NumbersGivenOut
  <2>2. cursor \in Nat
    BY DEF TypeOK
  <2>3. \A x \in DOMAIN diskRows :
            Hit(stmt, diskRows, cursor, x) <=> Hit(stmt, diskRows, last, x)
    BY <2>1, <2>2 DEF Hit
  <2>4. rows = Applied(stmt, diskRows, last)
    BY <1>1, <2>3, AppliedSame DEF Effect
  <2> QED
    BY <1>1, <2>4 DEF Effect
<1>3. CASE ReadFails \/ \E r \in Record : UpdateFails(r) \/ DeleteFails(r)
  <2>1. readFailed' = TRUE \/ answer' = "kInternalError"
    BY <1>3 DEF ReadFails, UpdateFails, DeleteFails
  <2> QED
    BY <1>1, <2>1 DEF Effect
<1> QED
  BY <1>2, <1>3

(* Every step.                                                             *)
LEMMA StepKeepsEffect ==
    ASSUME TypeOK, Indexed, Effect, [Next]_vars
    PROVE  Effect'
<1>1. ASSUME NEW t \in Tuple, Insert(t)  PROVE Effect'
  <2>1. /\ pc = "idle" /\ UNCHANGED <<pc, cursor, readFailed>>
    BY <1>1 DEF Insert, scan
  <2>2. last' = last \/ last' = last + 1
    BY <1>1 DEF Insert
  <2>3. last \in Nat /\ cursor \in Nat
    BY BoundAssumption DEF TypeOK
  <2>4. cursor' <= last'
    BY <2>1, <2>2, <2>3 DEF Effect
  <2> QED
    BY <2>1, <2>4 DEF Effect
<1>2. ASSUME NEW i \in IndexName, CreateIndex(i) \/ DropIndex(i)  PROVE Effect'
  <2>1. pc = "idle" /\ UNCHANGED <<pc, cursor, readFailed, last>>
    BY <1>2 DEF CreateIndex, DropIndex, scan
  <2> QED
    BY <2>1 DEF Effect
<1>3. ASSUME NEW s \in Statements, Begin(s)  PROVE Effect'
  <2>1. /\ pc = "idle" /\ rows' = rows /\ diskRows' = diskRows
        /\ UNCHANGED <<cursor, readFailed, last>>
    BY <1>3 DEF Begin, table, disk
  <2>2. CASE pc' = "idle"
    BY <2>1, <2>2 DEF Effect
  <2>3. CASE pc' = "scan" /\ stmt' = s /\ answer' = "kOK"
    <3>1. \A x \in DOMAIN diskRows : x \in Nat /\ x > 0
      BY RowsHave, TypeOKIs DEF Record
    <3>2. rows = diskRows /\ cursor = 0 /\ ~readFailed
      BY <2>1 DEF Indexed, Idle, Effect
    <3>3. diskRows = Applied(s, diskRows, 0)
      <4>1. \A x \in DOMAIN diskRows : ~(x <= 0)
        BY <3>1
      <4>2. diskRows = [x \in DOMAIN diskRows |-> diskRows[x]]
        BY RowsHave, TypeOKIs
      <4> QED
        BY <4>1, <4>2 DEF Applied
    <3> QED
      BY <2>1, <2>3, <3>2, <3>3 DEF Effect
  <2> QED
    BY <1>3, <2>1, <2>2, <2>3 DEF Begin
<1>4. CASE \/ NoMoreRows \/ ReadFails
           \/ \E r \in Record : UpdateFails(r) \/ DeleteFails(r)
  BY <1>4, EndKeepsEffect
<1>5. ASSUME NEW r \in Record, SkipRow(r) \/ UpdateRow(r) \/ DeleteRow(r)
      PROVE  Effect'
  BY <1>5, ScanKeepsEffect
<1>6. CASE Commit \/ Crash
  <2>1. ScanOver /\ last' = last /\ last \in Nat
    BY <1>6, BoundAssumption DEF Commit, Crash, TypeOK
  <2>2. pc' = "idle" /\ cursor' = 0 /\ ~readFailed'
    BY <2>1 DEF ScanOver
  <2> QED
    BY <2>1, <2>2 DEF Effect
<1>7. CASE UNCHANGED vars
  <2>1. /\ rows' = rows /\ diskRows' = diskRows
        /\ UNCHANGED <<pc, stmt, cursor, readFailed, answer, last>>
    BY <1>7 DEF vars, table, disk, scan
  <2> QED
    BY <2>1 DEF Effect
<1> QED
  BY <1>1, <1>2, <1>3, <1>4, <1>5, <1>6, <1>7 DEF Next, PerformIterator

(* What the scan has come to is the statement applied to the rows on disk. *)
THEOREM EffectInvariant == Spec => [](TypeOK /\ Indexed /\ Effect)
<1>1. Init => Effect
  BY DEF Init, Effect
<1>2. TypeOK /\ Indexed /\ Effect /\ [Next]_vars => Effect'
  BY StepKeepsEffect
<1> QED
  BY <1>1, <1>2, IndexedInvariant, PTL DEF Spec

(* EffectIsPrefix: an UPDATE or a DELETE that ended has changed on disk    *)
(* what satisfied its clause before it began, up to some record, up to the *)
(* last if it answers kOK and no read failed, or nothing if its commit     *)
(* failed; and rows on disk change by nothing else but an INSERT.          *)
THEOREM EffectsArePrefixes == Spec => EffectIsPrefix
<1> DEFINE Ends == pc = "commit" /\ pc' = "idle" /\ answer' # "none"
           Took ==
               IF lost'
               THEN UNCHANGED diskRows
               ELSE \E n \in 0 .. last :
                        /\ diskRows' = Applied(stmt, diskRows, n)
                        /\ answer' = "kOK" /\ ~readFailed => n = last
           Else ==
               \/ UNCHANGED diskRows
               \/ \E t \in Tuple :
                      diskRows' = [r \in DOMAIN diskRows \cup {last + 1} |->
                                      IF r = last + 1 THEN t ELSE diskRows[r]]
<1>1. ASSUME TypeOK, Indexed, Effect, [Next]_vars
      PROVE  IF Ends THEN Took ELSE Else
  <2>1. ASSUME NEW t \in Tuple, Insert(t)  PROVE ~Ends /\ Else
    <3>1. rows = diskRows /\ pc = "idle"
      BY <1>1, <2>1 DEF Insert, Indexed, Idle
    <3>2. \/ UNCHANGED diskRows
          \/ diskRows' = [r \in DOMAIN diskRows \cup {last + 1} |->
                             IF r = last + 1 THEN t ELSE diskRows[r]]
      BY <2>1, <3>1 DEF Insert, CommitAtOnce, disk
    <3> QED
      BY <3>1, <3>2
  <2>2. ASSUME NEW i \in IndexName, CreateIndex(i) \/ DropIndex(i)  PROVE ~Ends /\ Else
    BY <1>1, <2>2 DEF CreateIndex, DropIndex, CommitAtOnce, Indexed, Idle
  <2>3. ASSUME NEW s \in Statements, Begin(s)  PROVE ~Ends /\ Else
    BY <1>1, <2>3 DEF Begin, disk
  <2>4. CASE \/ NoMoreRows \/ ReadFails
             \/ \E r \in Record : \/ SkipRow(r) \/ UpdateRow(r) \/ DeleteRow(r)
                                 \/ UpdateFails(r) \/ DeleteFails(r)
    <3>1. pc = "scan" /\ UNCHANGED disk
      BY <2>4 DEF NoMoreRows, ReadFails, SkipRow, UpdateRow, DeleteRow, UpdateFails, DeleteFails,
                  Reaches
    <3> QED
      BY <3>1 DEF disk
  <2>5. CASE Commit
    <3>1. Ends
      BY <1>1, <2>5 DEF Commit, ScanOver, Effect
    <3>2. CASE lost'
      BY <2>5, <3>1, <3>2 DEF Commit, disk
    <3>3. CASE ~lost'
      <4>1. diskRows' = rows /\ answer' = answer
        BY <2>5, <3>3 DEF Commit
      <4>2. cursor \in 0 .. last /\ last \in 0 .. last
        BY <1>1, BoundAssumption DEF TypeOK, Effect
      <4>3. CASE answer = "kOK" /\ ~readFailed
        BY <1>1, <3>1, <3>3, <4>1, <4>2, <4>3 DEF Effect
      <4>4. CASE ~(answer = "kOK" /\ ~readFailed)
        BY <1>1, <3>1, <3>3, <4>1, <4>2, <4>4 DEF Effect
      <4> QED
        BY <4>3, <4>4
    <3> QED
      BY <3>2, <3>3
  <2>6. CASE Crash
    BY <2>6 DEF Crash, disk
  <2>7. CASE UNCHANGED vars
    BY <2>7 DEF vars, disk
  <2> QED
    BY <1>1, <2>1, <2>2, <2>3, <2>4, <2>5, <2>6, <2>7 DEF Next, PerformIterator
<1>2. TypeOK /\ Indexed /\ Effect /\ [Next]_vars =>
          [IF Ends THEN Took ELSE Else]_vars
  BY <1>1
<1> QED
  BY <1>2, EffectInvariant, PTL DEF Spec, EffectIsPrefix

=============================================================================
