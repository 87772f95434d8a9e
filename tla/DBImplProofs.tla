---------------------------- MODULE DBImplProofs ----------------------------
(***************************************************************************)
(* Proofs about DBImpl.tla for every set of names and every number of      *)
(* failures and deaths of the process, in three parts: the types; the rows *)
(* of the schema tables and the physical databases; the catalogs and the   *)
(* promise of Schema.tla.                                                  *)
(***************************************************************************)
EXTENDS DBImpl, TLAPS

(***************************************************************************)
(* PART 1. Types.                                                          *)
(***************************************************************************)

(* What a call in progress has been asked.                                 *)
CallOK ==
    /\ pc \in {"insertTableRow", "insertIndexRow", "dropIndexes", "dropIndexPhys"}
           => call.table \in AnyTable
    /\ pc \in {"insertIndexRow", "dropIndexPhys"} => call.index \in IndexName

TypeInv == TypeOK /\ CallOK

LEMMA InitTypeInv == Init => TypeInv
<1> SUFFICES ASSUME Init PROVE TypeInv
  OBVIOUS
<1>1. DiskTypeOK /\ HistoryTypeOK
  BY DEF Init, DiskTypeOK, HistoryTypeOK
<1>2. ObjectTypeOK
  BY DEF Init, ObjectTypeOK, ObjectState
<1>3. CallTypeOK /\ CallOK
  BY DEF Init, CallTypeOK, CallOK, Step, Status, Op, NoCall, NoName
<1> QED
  BY <1>1, <1>2, <1>3 DEF TypeInv, TypeOK

(* Full names of indexes are names of physical databases.                  *)
LEMMA FullNamePhysical ==
    ASSUME NEW i \in IndexName, NEW t \in AnyTable
    PROVE  GetFullIndexName(i, t) \in PhysicalName
<1>1. <<i, t>> \in AnyIndex
  BY DEF AnyIndex
<1>2. GetFullIndexName(<<i, t>>[1], <<i, t>>[2]) = GetFullIndexName(i, t)
  OBVIOUS
<1> QED
  BY <1>1, <1>2 DEF PhysicalName

LEMMA TableNames ==
    System \subseteq AnyTable /\ AnyTable \subseteq PhysicalName
BY DEF System, AnyTable, PhysicalName

LEMMA RowTypes ==
    Rows(PD_Table) \subseteq DOMAIN PD_Table /\ Rows(PD_Index) \subseteq DOMAIN PD_Index
BY DEF Rows

(* The helpers that set a group of variables give each its type.           *)
LEMMA ReturnType ==
    ASSUME NEW c \in [op : Op, table : AnyTable \cup {NoName},
                      index : IndexName \cup {NoName}],
           NEW status \in {result} \cup Status, TypeOK, Return(c, status)
    PROVE  CallTypeOK' /\ CallOK'
BY DEF Return, CallTypeOK, CallOK, Step, TypeOK

LEMMA CallTypes ==
    /\ \A op \in Op : Call(op, NoName, NoName) \in
           [op : Op, table : AnyTable \cup {NoName}, index : IndexName \cup {NoName}]
    /\ \A op \in Op, t \in AnyTable : Call(op, t, NoName) \in
           [op : Op, table : AnyTable \cup {NoName}, index : IndexName \cup {NoName}]
    /\ \A op \in Op, t \in AnyTable, i \in IndexName : Call(op, t, i) \in
           [op : Op, table : AnyTable \cup {NoName}, index : IndexName \cup {NoName}]
    /\ NoCall \in
           [op : Op, table : AnyTable \cup {NoName}, index : IndexName \cup {NoName}]
BY DEF Call, NoCall, Op

LEMMA CloseType ==
    ASSUME TypeOK, CloseEnvironment
    PROVE  ObjectTypeOK'
BY DEF TypeOK, CloseEnvironment, ObjectTypeOK, ObjectState, mIsOpen

LEMMA FailOpenType ==
    ASSUME NEW status \in Status, TypeOK, FailOpen(status)
    PROVE  ObjectTypeOK' /\ CallTypeOK' /\ CallOK'
<1>1. Call("Open", NoName, NoName) \in
        [op : Op, table : AnyTable \cup {NoName}, index : IndexName \cup {NoName}]
  BY CallTypes DEF Op
<1> QED
  BY <1>1, ReturnType, CloseType DEF FailOpen

LEMMA AssertType ==
    ASSUME TypeOK, NEW P, NEW site \in AssertSite, AssertThat(P, site)
    PROVE  failedAsserts' \subseteq AssertSite
BY DEF TypeOK, HistoryTypeOK, AssertThat, Broken

LEMMA AddTableType ==
    ASSUME TypeOK, NEW t \in AnyTable, AddTable(t), object' \in ObjectState
    PROVE  ObjectTypeOK'
BY DEF TypeOK, ObjectTypeOK, AddTable

LEMMA AddIndexType ==
    ASSUME TypeOK, NEW x \in AnyIndex, AddIndex(x), object' \in ObjectState
    PROVE  ObjectTypeOK'
BY DEF TypeOK, ObjectTypeOK, AddIndex

LEMMA RefuseType ==
    ASSUME TypeOK, NEW status \in Status, faults' \in Nat,
           NEW c \in [op : Op, table : AnyTable \cup {NoName},
                      index : IndexName \cup {NoName}],
           Refuse(c, status)
    PROVE  TypeOK' /\ CallOK'
<1>1. CallTypeOK' /\ CallOK'
  BY ReturnType DEF Refuse
<1>2. DiskTypeOK' /\ HistoryTypeOK'
  BY DEF Refuse, disk, TypeOK, DiskTypeOK, HistoryTypeOK
<1>3. ObjectTypeOK'
  BY DEF Refuse, catalogs, TypeOK, ObjectTypeOK
<1> QED
  BY <1>1, <1>2, <1>3 DEF TypeOK

LEMMA FaultsType ==
    ASSUME TypeOK
    PROVE  /\ Succeeds => faults' \in Nat
           /\ \A kind : Fails(kind) => faults' \in Nat
           /\ \A table, out, n : RemoveRow(table, out, n) => faults' \in Nat
BY DEF TypeOK, HistoryTypeOK, Succeeds, Fails, RemoveRow

LEMMA TypeStep == TypeInv /\ [Next]_vars => TypeInv'
<1> SUFFICES ASSUME TypeOK, CallOK, [Next]_vars
             PROVE  TypeOK' /\ CallOK'
  BY DEF TypeInv
<1>g. DiskTypeOK' /\ ObjectTypeOK' /\ CallTypeOK' /\ CallOK' /\ HistoryTypeOK'
      => TypeOK' /\ CallOK'
  BY DEF TypeOK
<1>o. /\ {"Open", "Close", "CreateTable", "DropTable", "CreateIndex", "DropIndex"} \subseteq Op
      /\ "kInternalError" \in Status
  BY DEF Op, Status
<1>t. DiskTypeOK /\ ObjectTypeOK /\ CallTypeOK /\ HistoryTypeOK
  BY DEF TypeOK
<1>1. CASE OpenRefused
  <2>1. CallTypeOK' /\ CallOK'
    BY <1>1, <1>o, CallTypes, ReturnType DEF OpenRefused, Status
  <2>2. DiskTypeOK' /\ HistoryTypeOK'
    BY <1>1, <1>t DEF OpenRefused, disk, budget, DiskTypeOK, HistoryTypeOK
  <2>3. ObjectTypeOK'
    BY <1>1, <1>t DEF OpenRefused, catalogs, ObjectTypeOK
  <2> QED
    BY <1>g, <2>1, <2>2, <2>3
<1>2. CASE Open
  <2>1. DiskTypeOK'
    BY <1>2, <1>t, TableNames DEF Open, DiskTypeOK, System
  <2>2. ObjectTypeOK'
    BY <1>2, <1>o, TableNames, FailOpenType, AddTableType DEF Open, System, ObjectState
  <2>3. HistoryTypeOK'
    BY <1>2, <1>t, AssertType, FaultsType DEF Open, HistoryTypeOK, AssertSite, Broken
  <2>4. CallTypeOK' /\ CallOK'
    <3>1. CASE Goto("loadTables", Call("Open", NoName, NoName))
      BY <1>2, <1>t, <1>o, <3>1, CallTypes, RowTypes
         DEF Open, Goto, FailOpen, Return, CallTypeOK, CallOK, Step, Status, DiskTypeOK
    <3> QED
      BY <1>2, <1>o, <3>1, FailOpenType DEF Open
  <2> QED
    BY <1>g, <2>1, <2>2, <2>3, <2>4
<1>3. CASE LoadEndsEarly
  BY <1>3, <1>t, <1>g DEF LoadEndsEarly, Fails, disk, catalogs, DiskTypeOK, ObjectTypeOK,
     CallTypeOK, CallOK, HistoryTypeOK
<1>4. CASE OpenIndexTable
  <2>1. DiskTypeOK'
    BY <1>4, <1>t, TableNames DEF OpenIndexTable, DiskTypeOK, System
  <2>2. ObjectTypeOK'
    BY <1>4, <1>t, <1>o, TableNames, FailOpenType, AddTableType
       DEF OpenIndexTable, System, ObjectTypeOK
  <2>3. HistoryTypeOK'
    BY <1>4, <1>t, AssertType, FaultsType DEF OpenIndexTable, HistoryTypeOK, AssertSite
  <2>4. CallTypeOK' /\ CallOK'
    <3>1. CASE Goto("loadIndexes", call)
      BY <1>4, <1>t, <1>o, <3>1, RowTypes
         DEF OpenIndexTable, Goto, FailOpen, Return, CallTypeOK, CallOK, Step, Status,
             DiskTypeOK
    <3> QED
      BY <1>4, <1>o, <3>1, FailOpenType DEF OpenIndexTable
  <2> QED
    BY <1>g, <2>1, <2>2, <2>3, <2>4
<1>5. CASE OpenDone
  <2>1. CallTypeOK' /\ CallOK'
    BY <1>5, <1>t, ReturnType DEF OpenDone, Status, CallTypeOK
  <2> QED
    BY <1>5, <2>1, <1>t, <1>g DEF OpenDone, disk, catalogs, budget, DiskTypeOK, ObjectTypeOK,
       HistoryTypeOK, ObjectState
<1>6. CASE InsertTableRow
  <2>1. CallTypeOK' /\ CallOK'
    BY <1>6, <1>t, ReturnType DEF InsertTableRow, Status, CallTypeOK
  <2>2. DiskTypeOK'
    BY <1>6, <1>t DEF InsertTableRow, DiskTypeOK, CallOK
  <2>3. HistoryTypeOK'
    BY <1>6, <1>t, TableNames, AssertType, FaultsType
       DEF InsertTableRow, HistoryTypeOK, CallOK, CutShort, CutShortByIndex, AssertSite
  <2>4. ObjectTypeOK'
    BY <1>6, <1>t DEF InsertTableRow, catalogs, ObjectTypeOK
  <2> QED
    BY <1>g, <2>1, <2>2, <2>3, <2>4
<1>7. CASE InsertIndexRow
  <2>1. CallTypeOK' /\ CallOK'
    BY <1>7, <1>t, ReturnType DEF InsertIndexRow, Status, CallTypeOK
  <2>2. DiskTypeOK'
    BY <1>7, <1>t DEF InsertIndexRow, DiskTypeOK, CallOK
  <2>3. HistoryTypeOK'
    BY <1>7, <1>t, FullNamePhysical, AssertType, FaultsType
       DEF InsertIndexRow, HistoryTypeOK, CallOK, CutShort, CutShortByIndex, AssertSite
  <2>4. ObjectTypeOK'
    BY <1>7, <1>t DEF InsertIndexRow, catalogs, ObjectTypeOK
  <2> QED
    BY <1>g, <2>1, <2>2, <2>3, <2>4
<1>8. CASE DropIndexPhys
  <2>1. /\ call.table \in AnyTable /\ call.index \in IndexName
        /\ <<call.index, call.table>> \in AnyIndex
    BY <1>8 DEF DropIndexPhys, CallOK, AnyIndex
  <2>2. DiskTypeOK'
    BY <1>8, <1>t DEF DropIndexPhys, Dbremove, DiskTypeOK
  <2>3. ObjectTypeOK'
    BY <1>8, <1>t, <2>1 DEF DropIndexPhys, ObjectTypeOK
  <2>4. HistoryTypeOK'
    BY <1>8, <1>t, <2>1, FullNamePhysical, TableNames, AssertType, FaultsType
       DEF DropIndexPhys, HistoryTypeOK, CutShort, AssertSite
  <2>5. CallTypeOK' /\ CallOK'
    <3>1. CASE \E status \in Status : Return(call, status)
      BY <3>1, <1>t, ReturnType DEF CallTypeOK
    <3>2. CASE UseClosedHandle(call)
      BY <3>2, <1>t DEF UseClosedHandle, Goto, toDo, CallTypeOK, CallOK, Step, Status
    <3>3. CASE indexesToDo' = indexesToDo \ {<<call.index, call.table>>} /\ UNCHANGED tablesToDo
      <4>1. CASE Goto("dropIndexes", [call EXCEPT !.index = NoName])
        BY <3>3, <4>1, <1>t, <2>1 DEF Goto, CallTypeOK, CallOK, Step, Status
      <4>2. CASE pc' = "idle" /\ UNCHANGED call /\ result' = "kOK"
        BY <3>3, <4>2, <1>t DEF CallTypeOK, CallOK, Step, Status
      <4> QED
        BY <1>8, <3>3, <4>1, <4>2, <3>1, <3>2 DEF DropIndexPhys, Status
    <3> QED
      BY <1>8, <3>1, <3>2, <3>3 DEF DropIndexPhys, Status
  <2> QED
    BY <1>g, <2>2, <2>3, <2>4, <2>5
<1>9. CASE DropTablePhys
  <2>1. call.table \in AnyTable
    BY <1>9 DEF DropTablePhys, CallOK
  <2>2. DiskTypeOK'
    BY <1>9, <1>t DEF DropTablePhys, Dbremove, DiskTypeOK
  <2>3. ObjectTypeOK'
    BY <1>9, <1>t, <2>1 DEF DropTablePhys, ObjectTypeOK
  <2>4. HistoryTypeOK'
    BY <1>9, <1>t, <2>1, TableNames, AssertType, FaultsType
       DEF DropTablePhys, HistoryTypeOK, CutShort, AssertSite
  <2>5. CallTypeOK' /\ CallOK'
    <3>1. CASE \E status \in Status : Return(call, status)
      BY <3>1, <1>t, ReturnType DEF CallTypeOK
    <3>2. CASE UseClosedHandle(call)
      BY <3>2, <1>t DEF UseClosedHandle, Goto, toDo, CallTypeOK, CallOK, Step, Status
    <3> QED
      BY <1>9, <3>1, <3>2 DEF DropTablePhys, Status
  <2> QED
    BY <1>g, <2>2, <2>3, <2>4, <2>5
<1>10. CASE Close
  <2>1. CallTypeOK' /\ CallOK'
    BY <1>10, <1>o, CallTypes, ReturnType DEF Close, Status
  <2>2. ObjectTypeOK'
    BY <1>10, CloseType DEF Close
  <2> QED
    BY <1>10, <1>t, <1>g, <2>1, <2>2 DEF Close, disk, budget, DiskTypeOK, HistoryTypeOK
<1>11. CASE NewDB
  <2>1. CallTypeOK' /\ CallOK'
    BY <1>11, CallTypes, ReturnType DEF NewDB, Status
  <2> QED
    BY <1>11, <1>t, <1>g, <2>1 DEF NewDB, FreshObject, disk, budget, DiskTypeOK, ObjectTypeOK,
       HistoryTypeOK, ObjectState
<1>12. CASE Crash
  <2>1. CallTypeOK' /\ CallOK'
    BY <1>12, CallTypes, ReturnType DEF Crash, Status
  <2>2. InFlight \subseteq PhysicalName
    BY TableNames, FullNamePhysical DEF InFlight, CallOK
  <2>3. HistoryTypeOK'
    BY <1>12, <1>t, <2>2 DEF Crash, FreshObject, HistoryTypeOK
  <2> QED
    BY <1>12, <1>t, <1>g, <2>1, <2>3 DEF Crash, FreshObject, disk, DiskTypeOK, ObjectTypeOK,
       ObjectState
<1>13. ASSUME NEW t \in AnyTable, LoadTable(t)
       PROVE  TypeOK' /\ CallOK'
  <2>1. DiskTypeOK'
    BY <1>13, <1>t DEF LoadTable, disk, DiskTypeOK
  <2>2. ObjectTypeOK'
    BY <1>13, <1>t, <1>o, FailOpenType, AddTableType DEF LoadTable, ObjectTypeOK
  <2>3. HistoryTypeOK'
    BY <1>13, <1>t, AssertType, FaultsType DEF LoadTable, HistoryTypeOK, AssertSite
  <2>4. CallTypeOK' /\ CallOK'
    <3>1. CASE FailOpen("kInternalError")
      BY <1>o, <3>1, FailOpenType
    <3>2. CASE tablesToDo' \subseteq tablesToDo /\ UNCHANGED <<pc, call, indexesToDo, result>>
      BY <1>t, <3>2 DEF CallTypeOK, CallOK
    <3> QED
      BY <1>13, <3>1, <3>2 DEF LoadTable
  <2> QED
    BY <1>g, <2>1, <2>2, <2>3, <2>4
<1>14. ASSUME NEW i \in IndexName, NEW t \in AnyTable, LoadIndex(i, t)
       PROVE  TypeOK' /\ CallOK'
  <2>1. DiskTypeOK'
    BY <1>14, <1>t DEF LoadIndex, disk, DiskTypeOK
  <2>2. ObjectTypeOK' 
    BY <1>14, <1>t, FailOpenType, AddIndexType
       DEF LoadIndex, ObjectTypeOK, catalogs, AnyIndex, PrepareFails, Status
  <2>3. HistoryTypeOK'
    BY <1>14, <1>t, AssertType, FaultsType DEF LoadIndex, HistoryTypeOK, AssertSite
  <2>4. CallTypeOK' /\ CallOK'
    <3>1. CASE \E status \in Status : FailOpen(status)
      BY <3>1, FailOpenType
    <3>2. CASE indexesToDo' \subseteq indexesToDo /\ UNCHANGED <<pc, call, tablesToDo, result>>
      BY <1>t, <3>2 DEF CallTypeOK, CallOK
    <3>3. CASE UseClosedHandle(call)
      BY <3>3, <1>t DEF UseClosedHandle, Goto, toDo, CallTypeOK, CallOK, Step, Status
    <3> QED
      BY <1>14, <3>1, <3>2, <3>3 DEF LoadIndex, PrepareFails, Status
  <2> QED
    BY <1>g, <2>1, <2>2, <2>3, <2>4
<1>15. ASSUME NEW t \in AnyTable, CreateTable(t)
       PROVE  TypeOK' /\ CallOK'
  <2> DEFINE this == Call("CreateTable", t, NoName)
  <2>1. this \in [op : Op, table : AnyTable \cup {NoName}, index : IndexName \cup {NoName}]
    BY <1>o, CallTypes
  <2>2. CASE \E status \in Status : Refuse(this, status)
    BY <1>15, <2>1, <2>2, RefuseType, FaultsType DEF CreateTable
  <2>3. CASE Succeeds /\ phys' = phys \cup {t} /\ AddTable(t) /\ Goto("insertTableRow", this)
             /\ UNCHANGED <<PD_Table, PD_Index, object, toDo, failedAsserts, cut, refused, crashes>>
    <3>1. DiskTypeOK' /\ HistoryTypeOK'
      BY <2>3, <1>t, TableNames, FaultsType DEF DiskTypeOK, HistoryTypeOK
    <3>2. ObjectTypeOK'
      BY <2>3, <1>t, AddTableType DEF ObjectTypeOK
    <3>3. CallTypeOK' /\ CallOK'
      BY <2>1, <2>3, <1>t DEF Goto, Call, toDo, CallTypeOK, CallOK, Step, Status
    <3> QED
      BY <1>g, <3>1, <3>2, <3>3
  <2> QED
    BY <1>15, <2>2, <2>3 DEF CreateTable, Status
<1>16. ASSUME NEW i \in IndexName, NEW t \in AnyTable, CreateIndex(i, t)
       PROVE  TypeOK' /\ CallOK'
  <2> DEFINE this == Call("CreateIndex", t, i)
             name == GetFullIndexName(i, t)
  <2>1. this \in [op : Op, table : AnyTable \cup {NoName}, index : IndexName \cup {NoName}]
    BY <1>o, CallTypes
  <2>2. CASE \E status \in Status : Refuse(this, status)
    BY <1>16, <2>1, <2>2, RefuseType, FaultsType DEF CreateIndex
  <2>3. CASE phys' = phys \cup {name} /\ UNCHANGED <<PD_Table, PD_Index, object, crashes>>
    <3>1. DiskTypeOK'
      BY <2>3, <1>t, FullNamePhysical DEF DiskTypeOK
    <3>2. ASSUME AddIndex(<<i, t>>), Succeeds, Goto("insertIndexRow", this),
                 AssertThat(<<i, t>> \notin mIndexCatalog, "IndexCatalog:75"),
                 UNCHANGED <<toDo, cut, refused>>
          PROVE  ObjectTypeOK' /\ CallTypeOK' /\ CallOK' /\ HistoryTypeOK'
      <4>1. ObjectTypeOK'
        BY <2>3, <3>2, <1>t, AddIndexType DEF ObjectTypeOK, AnyIndex
      <4>2. CallTypeOK' /\ CallOK'
        BY <2>1, <3>2, <1>t DEF Goto, Call, toDo, CallTypeOK, CallOK, Step, Status
      <4>3. HistoryTypeOK'
        BY <2>3, <3>2, <1>t, AssertType, FaultsType DEF HistoryTypeOK, AssertSite
      <4> QED
        BY <4>1, <4>2, <4>3
    <3>3. ASSUME CutShort({name}), UNCHANGED <<catalogs, failedAsserts>>,
                 faults' \in Nat, Return(this, "kInternalError") \/ UseClosedHandle(this)
          PROVE  ObjectTypeOK' /\ CallTypeOK' /\ CallOK' /\ HistoryTypeOK'
      <4>1. ObjectTypeOK'
        BY <2>3, <3>3, <1>t DEF catalogs, ObjectTypeOK
      <4>2. CallTypeOK' /\ CallOK'
        <5>1. CASE Return(this, "kInternalError")
          BY <2>1, <5>1, <1>o, ReturnType
        <5>2. CASE UseClosedHandle(this)
          BY <2>1, <5>2, <1>t DEF UseClosedHandle, Goto, Call, toDo, CallTypeOK, CallOK, Step, Status
        <5> QED
          BY <3>3, <5>1, <5>2
      <4>3. HistoryTypeOK'
        BY <2>3, <3>3, <1>t, FullNamePhysical DEF CutShort, HistoryTypeOK
      <4> QED
        BY <4>1, <4>2, <4>3
    <3>4. \/ AddIndex(<<i, t>>) /\ Succeeds /\ Goto("insertIndexRow", this)
             /\ AssertThat(<<i, t>> \notin mIndexCatalog, "IndexCatalog:75")
             /\ UNCHANGED <<toDo, cut, refused>>
          \/ CutShort({name}) /\ UNCHANGED <<catalogs, failedAsserts>>
             /\ (Succeeds \/ Fails("associate"))
             /\ (Return(this, "kInternalError") \/ UseClosedHandle(this))
          \/ \E status \in Status : Refuse(this, status)
      BY <1>16 DEF CreateIndex, PrepareFails, Status
    <3> QED
      BY <1>g, <3>1, <3>2, <3>3, <3>4, <2>2, FaultsType
  <2> QED
    BY <1>16, <2>2, <2>3 DEF CreateIndex, PrepareFails, Status
<1>17. ASSUME NEW i \in IndexName, NEW t \in AnyTable, NEW out \in ScanOutcome,
              RemoveIndexRow(i, t, out)
       PROVE  DiskTypeOK' /\ ObjectTypeOK' 
                 /\ (CutShort({t}) \/ CutShortByIndex({t}) \/ UNCHANGED <<cut, refused>>
                     => HistoryTypeOK')
  <2>1. DiskTypeOK'
    <3>1. <<i, t>> \in AnyIndex /\ PD_Index[<<i, t>>] \in Nat
      BY <1>t DEF DiskTypeOK, AnyIndex
    <3>2. out = "removed" => PD_Index[<<i, t>>] - 1 \in Nat
      BY <1>17, <3>1 DEF RemoveIndexRow, RemoveRow
    <3> QED
      BY <1>17, <1>t, <3>1, <3>2 DEF RemoveIndexRow, DiskTypeOK
  <2>2. ObjectTypeOK'
    BY <1>17, <1>t DEF RemoveIndexRow, catalogs, ObjectTypeOK
  <2>3. CutShort({t}) \/ CutShortByIndex({t}) \/ UNCHANGED <<cut, refused>> => HistoryTypeOK'
    BY <1>17, <1>t, TableNames, AssertType, FaultsType
       DEF RemoveIndexRow, AssertFound, CutShort, CutShortByIndex, HistoryTypeOK, AssertSite
  <2> QED
    BY <2>1, <2>2, <2>3
<1>18. ASSUME NEW i \in IndexName, NEW t \in AnyTable, NEW out \in ScanOutcome,
              DropIndex(i, t, out)
       PROVE  TypeOK' /\ CallOK'
  <2> DEFINE this == Call("DropIndex", t, i)
  <2>1. this \in [op : Op, table : AnyTable \cup {NoName}, index : IndexName \cup {NoName}]
    BY <1>o, CallTypes
  <2>2. CASE \E status \in Status : Refuse(this, status)
    BY <1>18, <2>1, <2>2, RefuseType, FaultsType DEF DropIndex, RemoveIndexRow
  <2>3. CASE RemoveIndexRow(i, t, out) /\ UNCHANGED <<cut, refused>>
    <3>1. CASE Goto("dropIndexPhys", this) /\ UNCHANGED toDo
      BY <1>17, <1>g, <2>1, <2>3, <3>1, <1>t
         DEF Goto, Call, toDo, CallTypeOK, CallOK, Step, Status
    <3>2. CASE Return(this, "kInternalError")
      BY <1>17, <1>g, <1>o, <2>1, <2>3, <3>2, ReturnType
    <3> QED
      BY <1>18, <2>2, <3>1, <3>2 DEF DropIndex, Status
  <2> QED
    BY <1>18, <2>2, <2>3 DEF DropIndex, Status
<1>19. ASSUME NEW t \in AnyTable, NEW out \in ScanOutcome, DropTable(t, out)
       PROVE  TypeOK' /\ CallOK'
  <2> DEFINE this == Call("DropTable", t, NoName)
  <2>1. this \in [op : Op, table : AnyTable \cup {NoName}, index : IndexName \cup {NoName}]
    BY <1>o, CallTypes
  <2>2. CASE Refuse(this, "kTableMissing")
    BY <1>19, <2>1, <2>2, RefuseType, FaultsType DEF DropTable, Status
  <2>3. CASE ~Refuse(this, "kTableMissing")
    <3>1. /\ RemoveRow(kSchemaTableName, out, PD_Table[t])
          /\ PD_Table' = IF out = "removed" THEN [PD_Table EXCEPT ![t] = @ - 1] ELSE PD_Table
          /\ AssertFound(out, "DBImpl:346")
          /\ UNCHANGED <<phys, PD_Index, object, catalogs, cut, refused, crashes>>
          /\ \/ Return(this, "kInternalError")
             \/ /\ Goto("dropIndexes", this)
                /\ indexesToDo' = IndexesOf(t)
                /\ UNCHANGED tablesToDo
      BY <1>19, <2>3 DEF DropTable
    <3>2. DiskTypeOK'
      <4>1. PD_Table[t] \in Nat /\ (out = "removed" => PD_Table[t] - 1 \in Nat)
        BY <1>t, <3>1 DEF DiskTypeOK, RemoveRow
      <4> QED
        BY <3>1, <1>t, <4>1 DEF DiskTypeOK
    <3>3. ObjectTypeOK'
      BY <3>1, <1>t DEF catalogs, ObjectTypeOK
    <3>4. HistoryTypeOK'
      BY <3>1, <1>t, AssertType, FaultsType DEF AssertFound, HistoryTypeOK, AssertSite
    <3>5. CallTypeOK' /\ CallOK'
      <4>1. CASE Return(this, "kInternalError")
        BY <1>o, <2>1, <4>1, ReturnType
      <4>2. CASE Goto("dropIndexes", this) /\ indexesToDo' = IndexesOf(t) /\ UNCHANGED tablesToDo
        BY <4>2, <2>1, <1>t
           DEF Goto, Call, IndexesOf, ObjectTypeOK, CallTypeOK, CallOK, Step, Status
      <4> QED
        BY <3>1, <4>1, <4>2
    <3> QED
      BY <1>g, <3>2, <3>3, <3>4, <3>5
  <2> QED
    BY <2>2, <2>3
<1>20. ASSUME NEW i \in IndexName, NEW t \in AnyTable, NEW out \in ScanOutcome,
              DropNextIndex(i, t, out)
       PROVE  TypeOK' /\ CallOK'
  <2>1. /\ RemoveIndexRow(i, t, out)
        /\ CutShort({t}) \/ CutShortByIndex({t}) \/ UNCHANGED <<cut, refused>>
        /\ \/ Goto("dropIndexPhys", [call EXCEPT !.index = i]) /\ UNCHANGED toDo
           \/ Return(call, "kInternalError")
    BY <1>20 DEF DropNextIndex
  <2>2. CallTypeOK' /\ CallOK'
    <3>1. CASE Goto("dropIndexPhys", [call EXCEPT !.index = i]) /\ UNCHANGED toDo
      BY <1>20, <3>1, <1>t DEF DropNextIndex, Goto, toDo, CallTypeOK, CallOK, Step, Status
    <3>2. CASE Return(call, "kInternalError")
      BY <3>2, <1>o, <1>t, ReturnType DEF CallTypeOK
    <3> QED
      BY <2>1, <3>1, <3>2
  <2> QED
    BY <2>1, <2>2, <1>17, <1>g
<1>21. CASE UNCHANGED vars
  BY <1>21, <1>t, <1>g DEF vars, disk, catalogs, toDo, budget, DiskTypeOK, ObjectTypeOK,
     CallTypeOK, CallOK, HistoryTypeOK
<1> QED
  BY <1>1, <1>2, <1>3, <1>4, <1>5, <1>6, <1>7, <1>8, <1>9, <1>10, <1>11, <1>12,
     <1>13, <1>14, <1>15, <1>16, <1>18, <1>19, <1>20, <1>21
     DEF Next, Begin, Continue

(* Every variable keeps its type, and a call in progress knows its         *)
(* arguments.                                                              *)
THEOREM TypeCorrect == Spec => []TypeOK
<1>1. Spec => []TypeInv
  BY InitTypeInv, TypeStep, PTL DEF Spec
<1>2. TypeInv => TypeOK
  BY DEF TypeInv
<1> QED
  BY <1>1, <1>2, PTL

(***************************************************************************)
(* PART 2. The rows of PD_Table and PD_Index own physical databases, and a *)
(* database without a row was left by a statement cut short.               *)
(***************************************************************************)

(* A DROP TABLE drops indexes of its own table only.                       *)
DropOK ==
    /\ pc = "dropIndexes" => call.op = "DropTable"
    /\ pc = "dropIndexPhys" => call.op \in {"DropIndex", "DropTable"}
    /\ pc \in {"dropIndexes", "dropIndexPhys"} /\ call.op = "DropTable" =>
           \A x \in indexesToDo : x[2] = call.table

(* RowsHavePhysical and RowsNotShared, row by row.                         *)
TableRowsOwn ==
    \A t \in AnyTable : PD_Table[t] <= 1 /\ (PD_Table[t] > 0 => t \in phys)

IndexRowsOwn ==
    \A x \in AnyIndex : PD_Index[x] <= 1 /\ (PD_Index[x] > 0 => FullName(x) \in phys)

IndexRowsApart ==
    \A x, y \in AnyIndex :
        PD_Index[x] > 0 /\ PD_Index[y] > 0 /\ FullName(x) = FullName(y) => x = y

RowsApart ==
    \A x \in AnyIndex, t \in AnyTable :
        PD_Index[x] > 0 /\ PD_Table[t] > 0 => FullName(x) # t

NoRow(n) ==
    /\ n \in AnyTable => PD_Table[n] = 0
    /\ \A x \in AnyIndex : FullName(x) = n => PD_Index[x] = 0

ThisIndex == <<call.index, call.table>>

(* What is missing to make them inductive: the physical database that a    *)
(* statement in progress has created or is about to remove has no row.     *)
InFlightHasNoRow ==
    /\ pc = "insertTableRow" => call.table \in phys /\ NoRow(call.table)
    /\ pc = "insertIndexRow" => FullName(ThisIndex) \in phys /\ NoRow(FullName(ThisIndex))
    /\ pc = "dropIndexPhys"  => NoRow(FullName(ThisIndex))
    /\ pc \in {"dropIndexes", "dropIndexPhys"} /\ call.op = "DropTable" =>
           NoRow(call.table)

RowInv ==
    TableRowsOwn /\ IndexRowsOwn /\ IndexRowsApart /\ RowsApart /\ InFlightHasNoRow

LEMMA DropStep == TypeOK /\ DropOK /\ [Next]_vars => DropOK'
<1> SUFFICES ASSUME TypeOK, DropOK, [Next]_vars
             PROVE  DropOK'
  OBVIOUS
<1>1. CASE pc' \notin {"dropIndexes", "dropIndexPhys"}
  BY <1>1 DEF DropOK
<1>2. CASE UNCHANGED <<pc, call, indexesToDo>>
  BY <1>2 DEF DropOK
<1>3. ASSUME NEW t \in AnyTable, NEW out \in ScanOutcome, DropTable(t, out)
      PROVE  DropOK'
  <2>1. CASE Goto("dropIndexes", Call("DropTable", t, NoName)) /\ indexesToDo' = IndexesOf(t)
    BY <2>1 DEF Goto, Call, IndexesOf, DropOK
  <2> QED
    BY <1>3, <2>1, <1>1 DEF DropTable, Return, Refuse
<1>4. ASSUME NEW i \in IndexName, NEW t \in AnyTable, NEW out \in ScanOutcome,
             DropIndex(i, t, out)
      PROVE  DropOK'
  <2>1. CASE Goto("dropIndexPhys", Call("DropIndex", t, i))
    BY <2>1 DEF Goto, Call, DropOK
  <2> QED
    BY <1>4, <2>1, <1>1 DEF DropIndex, Return, Refuse
<1>5. ASSUME NEW i \in IndexName, NEW t \in AnyTable, NEW out \in ScanOutcome,
             DropNextIndex(i, t, out)
      PROVE  DropOK'
  <2>1. CASE Goto("dropIndexPhys", [call EXCEPT !.index = i]) /\ UNCHANGED toDo
    BY <1>5, <2>1 DEF DropNextIndex, Goto, toDo, DropOK, TypeOK, CallTypeOK
  <2> QED
    BY <1>5, <2>1, <1>1 DEF DropNextIndex, Return
<1>6. CASE DropIndexPhys
  <2>1. CASE call.op = "DropTable" /\ Goto("dropIndexes", [call EXCEPT !.index = NoName])
             /\ indexesToDo' \subseteq indexesToDo
    BY <1>6, <2>1 DEF DropIndexPhys, Goto, DropOK, TypeOK, CallTypeOK
  <2> QED
    BY <1>6, <2>1, <1>1 DEF DropIndexPhys, Return, UseClosedHandle, Goto
<1>7. CASE \/ OpenRefused \/ Open \/ Close \/ NewDB \/ Crash \/ OpenIndexTable \/ OpenDone
           \/ InsertTableRow \/ InsertIndexRow \/ DropTablePhys \/ LoadEndsEarly
  BY <1>7, <1>1 DEF OpenRefused, Open, Close, NewDB, Crash, OpenIndexTable, OpenDone,
     InsertTableRow, InsertIndexRow, DropTablePhys, LoadEndsEarly, Return, Goto, FailOpen,
     UseClosedHandle
<1>8. ASSUME NEW t \in AnyTable, LoadTable(t)
      PROVE  DropOK'
  BY <1>8, <1>1, <1>2 DEF LoadTable, FailOpen, Return
<1>9. ASSUME NEW i \in IndexName, NEW t \in AnyTable, LoadIndex(i, t)
      PROVE  DropOK'
  BY <1>9, <1>1 DEF LoadIndex, FailOpen, Return, UseClosedHandle, Goto
<1>10. ASSUME NEW t \in AnyTable, CreateTable(t)
       PROVE  DropOK'
  BY <1>10, <1>1 DEF CreateTable, Refuse, Return, Goto
<1>11. ASSUME NEW i \in IndexName, NEW t \in AnyTable, CreateIndex(i, t)
       PROVE  DropOK'
  BY <1>11, <1>1 DEF CreateIndex, Refuse, Return, Goto, UseClosedHandle
<1> QED
  BY <1>2, <1>3, <1>4, <1>5, <1>6, <1>7, <1>8, <1>9, <1>10, <1>11
     DEF Next, Begin, Continue, vars, toDo

LEMMA DropCorrect == Spec => [](TypeInv /\ DropOK)
<1>1. Init => TypeInv /\ DropOK
  BY InitTypeInv DEF Init, DropOK
<1>2. TypeInv /\ DropOK /\ [Next]_vars => (TypeInv /\ DropOK)'
  BY TypeStep, DropStep DEF TypeInv
<1> QED
  BY <1>1, <1>2, PTL DEF Spec

(* Full names and rows                                                     *)
LEMMA RowByRow ==
    ASSUME TypeOK, TableRowsOwn, IndexRowsOwn, IndexRowsApart, RowsApart
    PROVE  RowsHavePhysical /\ RowsNotShared
<1>t. PD_Table \in [AnyTable -> Nat] /\ PD_Index \in [AnyIndex -> Nat]
  BY DEF TypeOK, DiskTypeOK
<1>1. RowsHavePhysical
  BY <1>t DEF RowsHavePhysical, RowNames, Rows, TableRowsOwn, IndexRowsOwn
<1>2. \A x, y \in Rows(PD_Index) : FullName(x) = FullName(y) => x = y
  BY <1>t DEF Rows, IndexRowsApart
<1>3. \A x \in Rows(PD_Index) : FullName(x) \notin Rows(PD_Table)
  BY <1>t DEF Rows, RowsApart
<1> QED
  BY <1>1, <1>2, <1>3 DEF RowsNotShared, TableRowsOwn, IndexRowsOwn

(* A step that touches no row and starts no statement keeps RowInv.        *)
LEMMA RowsKept ==
    ASSUME RowInv, phys \subseteq phys', UNCHANGED <<PD_Table, PD_Index>>,
           pc' \in {"idle", "undefined", "loadTables", "loadIndexes"}
    PROVE  RowInv'
BY DEF RowInv, TableRowsOwn, IndexRowsOwn, IndexRowsApart, RowsApart, InFlightHasNoRow

(* So does one that removes a physical database without a row.             *)
LEMMA PhysRemoved ==
    ASSUME TypeOK, RowInv, NEW n, NoRow(n), phys' = phys \ {n},
           UNCHANGED <<PD_Table, PD_Index>>
    PROVE  (TableRowsOwn /\ IndexRowsOwn /\ IndexRowsApart /\ RowsApart)'
<1>1. TableRowsOwn'
  BY DEF RowInv, TableRowsOwn, NoRow
<1>2. IndexRowsOwn'
  BY DEF RowInv, IndexRowsOwn, NoRow
<1> QED
  BY <1>1, <1>2 DEF RowInv, IndexRowsApart, RowsApart

(* A physical database that does not exist has no row.                     *)
LEMMA AbsentHasNoRow ==
    ASSUME TypeOK, RowInv, NEW n, n \notin phys
    PROVE  NoRow(n)
BY DEF TypeOK, DiskTypeOK, RowInv, TableRowsOwn, IndexRowsOwn, NoRow

(* Removing an index row leaves the physical index without one.            *)
LEMMA IndexRowRemoved ==
    ASSUME TypeOK, RowInv, NEW i \in IndexName, NEW t \in AnyTable,
           NEW out \in ScanOutcome, RemoveIndexRow(i, t, out)
    PROVE  /\ (TableRowsOwn /\ IndexRowsOwn /\ IndexRowsApart /\ RowsApart)'
           /\ \A n : NoRow(n) => NoRow(n)'
           /\ out = "removed" => NoRow(FullName(<<i, t>>))'
<1> DEFINE x == <<i, t>>
<1>1. x \in AnyIndex /\ PD_Table \in [AnyTable -> Nat] /\ PD_Index \in [AnyIndex -> Nat]
  BY DEF AnyIndex, TypeOK, DiskTypeOK
<1>2. phys' = phys /\ PD_Table' = PD_Table
  BY DEF RemoveIndexRow
<1>3. CASE out # "removed"
  <2>1. PD_Index' = PD_Index
    BY <1>3 DEF RemoveIndexRow
  <2> QED
    BY <1>2, <1>3, <2>1
       DEF RowInv, TableRowsOwn, IndexRowsOwn, IndexRowsApart, RowsApart, NoRow
<1>4. CASE out = "removed"
  <2>1. PD_Index[x] = 1
    BY <1>1, <1>4 DEF RemoveIndexRow, RemoveRow, RowInv, IndexRowsOwn
  <2>2. PD_Index'[x] = 0 /\ \A y \in AnyIndex : y # x => PD_Index'[y] = PD_Index[y]
    BY <1>1, <1>4, <2>1 DEF RemoveIndexRow
  <2>3. \A y \in AnyIndex : PD_Index'[y] <= 1 /\ (PD_Index'[y] > 0 => PD_Index[y] > 0)
    BY <1>1, <2>1, <2>2 DEF RowInv, IndexRowsOwn
  <2>4. TableRowsOwn' /\ IndexRowsOwn' /\ IndexRowsApart' /\ RowsApart'
    BY <1>2, <2>3 DEF RowInv, TableRowsOwn, IndexRowsOwn, IndexRowsApart, RowsApart
  <2>5. \A n : NoRow(n) => NoRow(n)'
    BY <1>1, <1>2, <2>2 DEF NoRow
  <2>6. NoRow(FullName(x))'
    <3>1. ASSUME FullName(x) \in AnyTable PROVE PD_Table'[FullName(x)] = 0
      BY <1>1, <1>2, <2>1, <3>1 DEF RowInv, RowsApart
    <3>2. ASSUME NEW y \in AnyIndex, FullName(y) = FullName(x) PROVE PD_Index'[y] = 0
      BY <1>1, <2>1, <2>2, <3>2 DEF RowInv, IndexRowsApart
    <3> QED
      BY <3>1, <3>2 DEF NoRow
  <2> QED
    BY <2>4, <2>5, <2>6
<1> QED
  BY <1>3, <1>4

(* NoRow looks at the two schema tables only.                              *)
LEMMA NoRowKept ==
    ASSUME NEW n, NoRow(n), UNCHANGED <<PD_Table, PD_Index>>
    PROVE  NoRow(n)'
BY DEF NoRow

(* With no commit failing, every step keeps RowInv.                        *)
LEMMA RowStep ==
    ASSUME "commit" \notin Faults
    PROVE  TypeInv /\ DropOK /\ RowInv /\ [Next]_vars => RowInv'
<1> SUFFICES ASSUME TypeInv, DropOK, RowInv, [Next]_vars
             PROVE  RowInv'
  OBVIOUS
<1>t. /\ TypeOK /\ CallOK
      /\ PD_Table \in [AnyTable -> Nat] /\ PD_Index \in [AnyIndex -> Nat]
      /\ pc \in {"insertTableRow", "insertIndexRow", "dropIndexes", "dropIndexPhys"}
           => call.table \in AnyTable
      /\ pc \in {"insertIndexRow", "dropIndexPhys"} => call.index \in IndexName
  BY DEF TypeInv, TypeOK, CallOK, DiskTypeOK
<1>k. UNCHANGED <<PD_Table, PD_Index>> /\ phys \subseteq phys'
      /\ pc' \in {"idle", "undefined", "loadTables", "loadIndexes"} => RowInv'
  BY RowsKept
<1>1. CASE \/ OpenRefused \/ Open \/ Close \/ NewDB \/ Crash \/ OpenIndexTable \/ OpenDone
           \/ LoadEndsEarly
  BY <1>1, <1>k DEF OpenRefused, Open, Close, NewDB, Crash, OpenIndexTable, OpenDone,
     LoadEndsEarly, Return, Goto, FailOpen, disk
<1>2. ASSUME NEW t \in AnyTable, LoadTable(t)
      PROVE  RowInv'
  BY <1>2, <1>k DEF LoadTable, FailOpen, Return, disk
<1>3. ASSUME NEW i \in IndexName, NEW t \in AnyTable, LoadIndex(i, t)
      PROVE  RowInv'
  BY <1>3, <1>k DEF LoadIndex, FailOpen, Return, UseClosedHandle, Goto, disk
<1>4. ASSUME NEW t \in AnyTable, CreateTable(t)
      PROVE  RowInv'
  <2>1. CASE Exclusive(t) /\ phys' = phys \cup {t} /\ UNCHANGED <<PD_Table, PD_Index>>
             /\ Goto("insertTableRow", Call("CreateTable", t, NoName))
    <3>1. NoRow(t)'
      BY <1>t, <2>1, AbsentHasNoRow, NoRowKept DEF Exclusive
    <3>2. pc' = "insertTableRow" /\ call'.table = t
      BY <2>1 DEF Goto, Call
    <3>3. InFlightHasNoRow'
      BY <2>1, <3>1, <3>2 DEF InFlightHasNoRow
    <3> QED
      BY <2>1, <3>3 DEF RowInv, TableRowsOwn, IndexRowsOwn, IndexRowsApart, RowsApart
  <2> QED
    BY <1>4, <1>k, <2>1 DEF CreateTable, Refuse, Return, disk
<1>5. ASSUME NEW i \in IndexName, NEW t \in AnyTable, CreateIndex(i, t)
      PROVE  RowInv'
  <2> DEFINE name == GetFullIndexName(i, t)
  <2>1. CASE Exclusive(name) /\ phys' = phys \cup {name} /\ UNCHANGED <<PD_Table, PD_Index>>
             /\ Goto("insertIndexRow", Call("CreateIndex", t, i))
    <3>1. NoRow(name)'
      BY <1>t, <2>1, AbsentHasNoRow, NoRowKept DEF Exclusive
    <3>2. pc' = "insertIndexRow" /\ FullName(ThisIndex)' = name
      BY <2>1 DEF Goto, Call, ThisIndex, FullName
    <3>3. InFlightHasNoRow'
      BY <2>1, <3>1, <3>2 DEF InFlightHasNoRow
    <3> QED
      BY <2>1, <3>3 DEF RowInv, TableRowsOwn, IndexRowsOwn, IndexRowsApart, RowsApart
  <2> QED
    BY <1>5, <1>k, <2>1 DEF CreateIndex, Refuse, Return, UseClosedHandle, Goto, disk
<1>6. CASE InsertTableRow
  <2>1. CASE PD_Table' = [PD_Table EXCEPT ![call.table] = @ + 1]
    <3>1. call.table \in phys /\ NoRow(call.table) /\ call.table \in AnyTable
      BY <1>6, <1>t DEF InsertTableRow, RowInv, InFlightHasNoRow
    <3>2. UNCHANGED <<phys, PD_Index>> /\ pc' = "idle"
      BY <1>6 DEF InsertTableRow, Return
    <3>3. PD_Table'[call.table] = 1
          /\ \A t \in AnyTable : t # call.table => PD_Table'[t] = PD_Table[t]
      BY <1>t, <2>1, <3>1 DEF NoRow
    <3>4. TableRowsOwn'
      BY <3>1, <3>2, <3>3 DEF RowInv, TableRowsOwn
    <3>5. RowsApart'
      BY <3>1, <3>2, <3>3 DEF RowInv, RowsApart, NoRow
    <3> QED
      BY <3>2, <3>4, <3>5 DEF RowInv, IndexRowsOwn, IndexRowsApart, InFlightHasNoRow
  <2> QED
    BY <1>6, <1>k, <2>1 DEF InsertTableRow, Return
<1>7. CASE InsertIndexRow
  <2>1. CASE PD_Index' = [PD_Index EXCEPT ![ThisIndex] = @ + 1]
    <3>1. FullName(ThisIndex) \in phys /\ NoRow(FullName(ThisIndex)) /\ ThisIndex \in AnyIndex
      BY <1>7, <1>t DEF InsertIndexRow, RowInv, InFlightHasNoRow, ThisIndex, AnyIndex
    <3>2. UNCHANGED <<phys, PD_Table>> /\ pc' = "idle"
      BY <1>7 DEF InsertIndexRow, Return
    <3>3. PD_Index'[ThisIndex] = 1
          /\ \A y \in AnyIndex : y # ThisIndex => PD_Index'[y] = PD_Index[y]
      BY <1>t, <2>1, <3>1 DEF NoRow
    <3>4. IndexRowsOwn'
      BY <3>1, <3>2, <3>3 DEF RowInv, IndexRowsOwn
    <3>5. IndexRowsApart'
      BY <1>t, <3>1, <3>3 DEF RowInv, IndexRowsApart, NoRow
    <3>6. RowsApart'
      BY <1>t, <3>1, <3>2, <3>3 DEF RowInv, RowsApart, NoRow
    <3> QED
      BY <3>2, <3>4, <3>5, <3>6 DEF RowInv, TableRowsOwn, InFlightHasNoRow
  <2> QED
    BY <1>7, <1>k, <2>1 DEF InsertIndexRow, Return, ThisIndex
<1>8. ASSUME NEW i \in IndexName, NEW t \in AnyTable, NEW out \in ScanOutcome,
             DropIndex(i, t, out)
      PROVE  RowInv'
  <2>1. CASE UNCHANGED disk /\ pc' = "idle"
    BY <1>k, <2>1 DEF disk
  <2>2. CASE RemoveIndexRow(i, t, out)
    <3>1. (TableRowsOwn /\ IndexRowsOwn /\ IndexRowsApart /\ RowsApart)'
      BY <1>t, <2>2, IndexRowRemoved
    <3>2. CASE pc' = "idle"
      BY <3>1, <3>2 DEF RowInv, InFlightHasNoRow
    <3>3. CASE GoesOn(out) /\ Goto("dropIndexPhys", Call("DropIndex", t, i))
      <4>1. out = "removed"
        BY <2>2, <3>3 DEF GoesOn, RemoveIndexRow, RemoveRow, Fails
      <4>2. NoRow(FullName(<<i, t>>))'
        BY <1>t, <2>2, <4>1, IndexRowRemoved
      <4>3. pc' = "dropIndexPhys" /\ call'.op = "DropIndex" /\ ThisIndex' = <<i, t>>
        BY <3>3 DEF Goto, Call, ThisIndex
      <4>4. NoRow(FullName(ThisIndex))'
        BY <4>2, <4>3 DEF NoRow, FullName
      <4> QED
        BY <3>1, <4>3, <4>4 DEF RowInv, InFlightHasNoRow
    <3> QED
      BY <1>8, <3>2, <3>3 DEF DropIndex, Return, Refuse
  <2> QED
    BY <1>8, <2>1, <2>2 DEF DropIndex, Return, Refuse
<1>9. ASSUME NEW t \in AnyTable, NEW out \in ScanOutcome, DropTable(t, out)
      PROVE  RowInv'
  <2>1. CASE UNCHANGED disk /\ pc' = "idle"
    BY <1>k, <2>1 DEF disk
  <2>2. CASE RemoveRow(kSchemaTableName, out, PD_Table[t]) /\ UNCHANGED <<phys, PD_Index>>
             /\ PD_Table' = IF out = "removed" THEN [PD_Table EXCEPT ![t] = @ - 1]
                            ELSE PD_Table
    <3>1. CASE out # "removed"
      <4>1. ~GoesOn(out)
        BY <2>2, <3>1 DEF GoesOn, RemoveRow, Fails
      <4> QED
        BY <1>9, <1>k, <2>2, <3>1, <4>1 DEF DropTable, Refuse, Return, disk
    <3>2. CASE out = "removed"
      <4>1. PD_Table[t] = 1
        BY <1>t, <2>2, <3>2 DEF RemoveRow, RowInv, TableRowsOwn
      <4>2. PD_Table'[t] = 0 /\ \A u \in AnyTable : u # t => PD_Table'[u] = PD_Table[u]
        BY <1>t, <2>2, <3>2, <4>1
      <4>3. NoRow(t)'
        BY <1>t, <2>2, <4>1, <4>2 DEF NoRow, RowInv, RowsApart
      <4>4. TableRowsOwn' /\ RowsApart'
        BY <2>2, <4>1, <4>2 DEF RowInv, TableRowsOwn, RowsApart
      <4>5. \/ pc' = "idle"
            \/ pc' = "dropIndexes" /\ call'.table = t
        BY <1>9 DEF DropTable, Refuse, Return, Goto, Call
      <4>6. InFlightHasNoRow'
        BY <4>3, <4>5 DEF InFlightHasNoRow
      <4> QED
        BY <2>2, <4>4, <4>6 DEF RowInv, IndexRowsOwn, IndexRowsApart
    <3> QED
      BY <3>1, <3>2
  <2> QED
    BY <1>9, <2>1, <2>2 DEF DropTable, Return, Refuse
<1>10. ASSUME NEW i \in IndexName, NEW t \in AnyTable, NEW out \in ScanOutcome,
              DropNextIndex(i, t, out)
       PROVE  RowInv'
  <2>1. RemoveIndexRow(i, t, out)
    BY <1>10 DEF DropNextIndex
  <2>2. (TableRowsOwn /\ IndexRowsOwn /\ IndexRowsApart /\ RowsApart)'
        /\ \A n : NoRow(n) => NoRow(n)'
    BY <1>t, <2>1, IndexRowRemoved
  <2>3. CASE pc' = "idle"
    BY <2>2, <2>3 DEF RowInv, InFlightHasNoRow
  <2>4. CASE GoesOn(out) /\ Goto("dropIndexPhys", [call EXCEPT !.index = i])
    <3>1. out = "removed"
      BY <2>1, <2>4 DEF GoesOn, RemoveIndexRow, RemoveRow, Fails
    <3>2. NoRow(FullName(<<i, t>>))'
      BY <1>t, <2>1, <3>1, IndexRowRemoved
    <3>3. call.op = "DropTable" /\ call.table = t /\ NoRow(call.table)
      BY <1>10 DEF DropNextIndex, DropOK, RowInv, InFlightHasNoRow
    <3>4. pc' = "dropIndexPhys" /\ ThisIndex' = <<i, t>> /\ call'.table = call.table
      BY <1>t, <2>4, <3>3 DEF Goto, ThisIndex, TypeOK, CallTypeOK
    <3>5. NoRow(FullName(ThisIndex))' /\ NoRow(call.table)'
      BY <2>2, <3>2, <3>3, <3>4 DEF NoRow, FullName
    <3> QED
      BY <2>2, <3>4, <3>5 DEF RowInv, InFlightHasNoRow
  <2> QED
    BY <1>10, <2>3, <2>4 DEF DropNextIndex, Return
<1>11. CASE DropIndexPhys
  <2>1. CASE Dbremove(FullName(ThisIndex)) /\ UNCHANGED <<PD_Table, PD_Index>>
    <3>1. NoRow(FullName(ThisIndex))
      BY <1>11 DEF DropIndexPhys, RowInv, InFlightHasNoRow
    <3>2. (TableRowsOwn /\ IndexRowsOwn /\ IndexRowsApart /\ RowsApart)'
      BY <1>t, <2>1, <3>1, PhysRemoved DEF Dbremove
    <3>3. \/ pc' \in {"idle", "undefined"}
          \/ pc' = "dropIndexes" /\ call.op = "DropTable" /\ call'.table = call.table
      BY <1>11, <1>t DEF DropIndexPhys, Return, Goto, UseClosedHandle, TypeOK, CallTypeOK
    <3>4. CASE pc' \in {"idle", "undefined"}
      BY <3>2, <3>4 DEF RowInv, InFlightHasNoRow
    <3>5. CASE pc' = "dropIndexes" /\ call.op = "DropTable" /\ call'.table = call.table
      <4>1. NoRow(call.table)'
        BY <1>11, <2>1, <3>5, NoRowKept DEF DropIndexPhys, RowInv, InFlightHasNoRow
      <4> QED
        BY <3>2, <3>5, <4>1 DEF RowInv, InFlightHasNoRow
    <3> QED
      BY <3>3, <3>4, <3>5
  <2> QED
    BY <1>11, <1>k, <2>1
       DEF DropIndexPhys, UseClosedHandle, Goto, Return, FullName, ThisIndex
<1>12. CASE DropTablePhys
  <2>1. CASE Dbremove(call.table) /\ UNCHANGED <<PD_Table, PD_Index>> /\ pc' = "idle"
    <3>1. NoRow(call.table)
      BY <1>12 DEF DropTablePhys, DropOK, RowInv, InFlightHasNoRow
    <3> QED
      BY <1>t, <2>1, <3>1, PhysRemoved DEF Dbremove, RowInv, InFlightHasNoRow
  <2> QED
    BY <1>12, <1>k, <2>1 DEF DropTablePhys, UseClosedHandle, Goto, Return
<1>13. CASE UNCHANGED vars
  BY <1>13 DEF vars, disk, toDo, RowInv, TableRowsOwn, IndexRowsOwn, IndexRowsApart,
     RowsApart, InFlightHasNoRow, NoRow, ThisIndex, FullName
<1> QED
  BY <1>1, <1>2, <1>3, <1>4, <1>5, <1>6, <1>7, <1>8, <1>9, <1>10, <1>11, <1>12, <1>13
     DEF Next, Begin, Continue

LEMMA InitRowInv == Init => RowInv
BY DEF Init, RowInv, TableRowsOwn, IndexRowsOwn, IndexRowsApart, RowsApart, InFlightHasNoRow

(* As long as no commit fails, every row of the schema tables names a      *)
(* physical database that exists: whatever other call fails, and wherever  *)
(* the process ends.                                                       *)
THEOREM RowsAlwaysHavePhysical ==
    ASSUME "commit" \notin Faults
    PROVE  Spec => []RowsHavePhysical
<1>1. TypeInv /\ DropOK /\ RowInv /\ [Next]_vars => RowInv'
  BY RowStep
<1>2. TypeInv /\ RowInv => RowsHavePhysical
  BY RowByRow DEF TypeInv, RowInv
<1> QED
  BY <1>1, <1>2, InitRowInv, DropCorrect, PTL DEF Spec

(* Likewise, no two rows share a physical database, whatever the names of  *)
(* tables and indexes are and however their full names collide.            *)
THEOREM RowsNeverShared ==
    ASSUME "commit" \notin Faults
    PROVE  Spec => []RowsNotShared
<1>1. TypeInv /\ DropOK /\ RowInv /\ [Next]_vars => RowInv'
  BY RowStep
<1>2. TypeInv /\ RowInv => RowsNotShared
  BY RowByRow DEF TypeInv, RowInv
<1> QED
  BY <1>1, <1>2, InitRowInv, DropCorrect, PTL DEF Spec

(***************************************************************************)
(* Orphans                                                                 *)
(***************************************************************************)

LEMMA InFlightIs ==
    /\ pc = "insertTableRow" => InFlight = {call.table}
    /\ pc = "insertIndexRow" => InFlight = {FullName(ThisIndex)}
    /\ pc = "dropIndexes" => InFlight = {call.table}
    /\ pc = "dropIndexPhys" /\ call.op = "DropIndex" => InFlight = {FullName(ThisIndex)}
    /\ pc = "dropIndexPhys" /\ call.op = "DropTable" =>
           InFlight = {FullName(ThisIndex), call.table}
    /\ pc \notin {"insertTableRow", "insertIndexRow", "dropIndexes", "dropIndexPhys"} =>
           InFlight = {}
BY DEF InFlight, FullName, ThisIndex

LEMMA RowNamesGrow ==
    ASSUME TypeOK, TypeOK',
           \A t \in AnyTable : PD_Table[t] > 0 => PD_Table'[t] > 0,
           \A x \in AnyIndex : PD_Index[x] > 0 => PD_Index'[x] > 0
    PROVE  RowNames \subseteq RowNames'
BY DEF RowNames, Rows, TypeOK, DiskTypeOK

(* Every step accounts for the physical databases it leaves, even when a   *)
(* commit fails.                                                           *)
LEMMA OrphanStep == TypeInv /\ DropOK /\ OrphansWereCut /\ [Next]_vars => OrphansWereCut'
<1> SUFFICES ASSUME TypeInv, DropOK, OrphansWereCut, [Next]_vars
             PROVE  OrphansWereCut'
  OBVIOUS
<1>t. /\ TypeOK /\ TypeOK' /\ CallOK
      /\ PD_Table \in [AnyTable -> Nat] /\ PD_Index \in [AnyIndex -> Nat]
      /\ PD_Table' \in [AnyTable -> Nat] /\ PD_Index' \in [AnyIndex -> Nat]
  BY TypeStep DEF TypeInv, TypeOK, DiskTypeOK
<1>f. /\ (pc = "insertTableRow" => InFlight = {call.table})'
      /\ (pc = "insertIndexRow" => InFlight = {FullName(ThisIndex)})'
      /\ (pc = "dropIndexes" => InFlight = {call.table})'
      /\ (pc = "dropIndexPhys" /\ call.op = "DropIndex" => InFlight = {FullName(ThisIndex)})'
      /\ (pc = "dropIndexPhys" /\ call.op = "DropTable" =>
             InFlight = {FullName(ThisIndex), call.table})'
  BY DEF InFlight, FullName, ThisIndex
<1>i. ASSUME phys' \subseteq phys \cup System, RowNames \subseteq RowNames',
             cut \cup InFlight \subseteq cut' \cup InFlight'
      PROVE  OrphansWereCut'
  BY <1>i DEF OrphansWereCut
<1>r. UNCHANGED <<PD_Table, PD_Index>> => RowNames' = RowNames
  BY DEF RowNames, FullName, Rows
<1>1. CASE \/ OpenRefused \/ Open \/ Close \/ NewDB \/ OpenIndexTable \/ OpenDone
           \/ LoadEndsEarly
  BY <1>1, <1>i, <1>r, InFlightIs DEF OpenRefused, Open, Close, NewDB, OpenIndexTable, OpenDone,
     LoadEndsEarly, disk, System, Ready
<1>2. CASE Crash
  BY <1>2, <1>i, <1>r DEF Crash, disk
<1>3. ASSUME NEW t \in AnyTable, LoadTable(t)
      PROVE  OrphansWereCut'
  BY <1>3, <1>i, <1>r, InFlightIs DEF LoadTable, disk
<1>4. ASSUME NEW i \in IndexName, NEW t \in AnyTable, LoadIndex(i, t)
      PROVE  OrphansWereCut'
  BY <1>4, <1>i, <1>r, InFlightIs DEF LoadIndex, disk
<1>5. ASSUME NEW t \in AnyTable, CreateTable(t)
      PROVE  OrphansWereCut'
  <2>1. CASE UNCHANGED <<disk, cut, refused>>
    BY <1>5, <2>1, <1>i, <1>r, InFlightIs DEF CreateTable, Ready, disk
  <2>2. CASE phys' = phys \cup {t} /\ Goto("insertTableRow", Call("CreateTable", t, NoName))
             /\ UNCHANGED <<PD_Table, PD_Index, cut, refused>>
    <3>1. t \in InFlight'
      BY <1>f, <2>2 DEF Goto, Call
    <3> QED
      BY <1>5, <1>r, <2>2, <3>1, InFlightIs DEF CreateTable, Ready, OrphansWereCut
  <2> QED
    BY <1>5, <2>1, <2>2 DEF CreateTable, Refuse
<1>6. ASSUME NEW i \in IndexName, NEW t \in AnyTable, CreateIndex(i, t)
      PROVE  OrphansWereCut'
  <2> DEFINE name == GetFullIndexName(i, t)
  <2>1. CASE UNCHANGED <<disk, cut, refused>>
    BY <1>6, <2>1, <1>i, <1>r, InFlightIs DEF CreateIndex, Ready, disk
  <2>2. CASE phys' = phys \cup {name} /\ UNCHANGED <<PD_Table, PD_Index>> /\ cut \subseteq cut'
             /\ name \in cut' \cup InFlight'
    BY <1>6, <1>r, <2>2, InFlightIs DEF CreateIndex, Ready, OrphansWereCut
  <2>3. Goto("insertIndexRow", Call("CreateIndex", t, i)) => name \in InFlight'
    BY <1>f DEF Goto, Call, FullName, ThisIndex
  <2>4. CutShort({name}) => name \in cut' /\ cut \subseteq cut'
    BY DEF CutShort
  <2> QED
    BY <1>6, <2>1, <2>2, <2>3, <2>4 DEF CreateIndex, Refuse
<1>7. CASE InsertTableRow
  <2>0. call.table \in AnyTable /\ InFlight = {call.table}
    BY <1>7, <1>t, InFlightIs DEF InsertTableRow, CallOK
  <2>1. CASE PD_Table' = [PD_Table EXCEPT ![call.table] = @ + 1] /\ UNCHANGED <<cut, refused>>
    <3>1. PD_Index' = PD_Index /\ phys' = phys
      BY <1>7 DEF InsertTableRow
    <3>2. RowNames \subseteq RowNames'
      BY <1>t, <2>1, <3>1, RowNamesGrow
    <3>3. call.table \in RowNames'
      BY <1>t, <2>0, <2>1 DEF RowNames, Rows
    <3> QED
      BY <2>0, <2>1, <3>1, <3>2, <3>3 DEF OrphansWereCut
  <2> QED
    BY <1>7, <1>r, <1>i, <2>0, <2>1 DEF InsertTableRow, CutShort, CutShortByIndex
<1>8. CASE InsertIndexRow
  <2>0. ThisIndex \in AnyIndex /\ InFlight = {FullName(ThisIndex)}
    BY <1>8, <1>t, InFlightIs DEF InsertIndexRow, CallOK, AnyIndex, ThisIndex
  <2>1. CASE PD_Index' = [PD_Index EXCEPT ![ThisIndex] = @ + 1] /\ UNCHANGED <<cut, refused>>
    <3>1. PD_Table' = PD_Table /\ phys' = phys
      BY <1>8 DEF InsertIndexRow
    <3>2. RowNames \subseteq RowNames'
      BY <1>t, <2>1, <3>1, RowNamesGrow
    <3>3. ThisIndex \in Rows(PD_Index)'
      BY <1>t, <2>0, <2>1 DEF Rows
    <3>4. FullName(ThisIndex) \in RowNames'
      BY <3>3 DEF RowNames, FullName
    <3> QED
      BY <2>0, <2>1, <3>1, <3>2, <3>4 DEF OrphansWereCut
  <2> QED
    BY <1>8, <1>r, <1>i, <2>0, <2>1
       DEF InsertIndexRow, CutShort, CutShortByIndex, ThisIndex, FullName
<1>9. ASSUME NEW i \in IndexName, NEW t \in AnyTable, NEW out \in ScanOutcome,
             RemoveIndexRow(i, t, out)
      PROVE  /\ phys' = phys
             /\ RowNames \subseteq RowNames' \cup {FullName(<<i, t>>)}
             /\ ~GoesOn(out) => RowNames' = RowNames
  <2>1. PD_Table' = PD_Table /\ phys' = phys
    BY <1>9 DEF RemoveIndexRow
  <2>2. \A y \in AnyIndex : y # <<i, t>> => PD_Index'[y] = PD_Index[y]
    BY <1>9, <1>t DEF RemoveIndexRow
  <2>3. \A y \in Rows(PD_Index) : y # <<i, t>> => y \in Rows(PD_Index)'
    BY <1>t, <2>2 DEF Rows
  <2>4. RowNames \subseteq RowNames' \cup {FullName(<<i, t>>)}
    BY <2>1, <2>3 DEF RowNames, FullName, Rows
  <2>5. ~GoesOn(out) => RowNames' = RowNames
    BY <1>9, <2>1, <1>r DEF RemoveIndexRow, GoesOn
  <2> QED
    BY <2>1, <2>4, <2>5
<1>10. ASSUME NEW i \in IndexName, NEW t \in AnyTable, NEW out \in ScanOutcome,
              DropIndex(i, t, out)
       PROVE  OrphansWereCut'
  <2>0. InFlight = {} /\ UNCHANGED <<cut, refused>>
    BY <1>10, InFlightIs DEF DropIndex, Ready, Refuse
  <2>1. CASE UNCHANGED disk
    BY <1>10, <2>0, <2>1, <1>i, <1>r DEF disk
  <2>2. CASE RemoveIndexRow(i, t, out) /\ ~GoesOn(out)
    BY <1>9, <1>i, <2>0, <2>2
  <2>3. CASE RemoveIndexRow(i, t, out) /\ Goto("dropIndexPhys", Call("DropIndex", t, i))
    <3>1. FullName(<<i, t>>) \in InFlight'
      BY <1>f, <2>3 DEF Goto, Call, FullName, ThisIndex
    <3> QED
      BY <1>9, <2>0, <2>3, <3>1 DEF OrphansWereCut
  <2> QED
    BY <1>10, <2>1, <2>2, <2>3 DEF DropIndex, Refuse
<1>11. ASSUME NEW t \in AnyTable, NEW out \in ScanOutcome, DropTable(t, out)
       PROVE  OrphansWereCut'
  <2>0. InFlight = {} /\ UNCHANGED <<cut, phys, PD_Index>>
    BY <1>11, InFlightIs DEF DropTable, Ready, Refuse, disk
  <2>1. CASE UNCHANGED PD_Table
    BY <2>0, <2>1, <1>i, <1>r
  <2>2. CASE Goto("dropIndexes", Call("DropTable", t, NoName))
             /\ PD_Table' = IF out = "removed" THEN [PD_Table EXCEPT ![t] = @ - 1] ELSE PD_Table
    <3>1. t \in InFlight'
      BY <1>f, <2>2 DEF Goto, Call
    <3>2. \A u \in AnyTable : u # t => PD_Table'[u] = PD_Table[u]
      BY <1>t, <2>2
    <3>3. RowNames \subseteq RowNames' \cup {t}
      BY <1>t, <2>0, <3>2 DEF RowNames, Rows, FullName
    <3> QED
      BY <2>0, <3>1, <3>3 DEF OrphansWereCut
  <2> QED
    BY <1>11, <2>1, <2>2 DEF DropTable, Refuse, disk, GoesOn
<1>12. ASSUME NEW i \in IndexName, NEW t \in AnyTable, NEW out \in ScanOutcome,
              DropNextIndex(i, t, out)
       PROVE  OrphansWereCut'
  <2>0. /\ call.op = "DropTable" /\ call.table = t /\ InFlight = {t}
        /\ RemoveIndexRow(i, t, out)
    BY <1>12, InFlightIs DEF DropNextIndex, DropOK
  <2>1. CASE ~GoesOn(out)
    BY <1>12, <1>9, <1>i, <2>0, <2>1 DEF DropNextIndex, CutShort, CutShortByIndex
  <2>2. CASE Goto("dropIndexPhys", [call EXCEPT !.index = i]) /\ UNCHANGED <<cut, refused>>
    <3>1. InFlight' = {FullName(<<i, t>>), t}
      BY <1>f, <1>t, <2>0, <2>2 DEF Goto, FullName, ThisIndex, TypeOK, CallTypeOK
    <3> QED
      BY <1>9, <2>0, <2>2, <3>1 DEF OrphansWereCut
  <2> QED
    BY <1>12, <2>1, <2>2 DEF DropNextIndex
<1>13. CASE DropIndexPhys
  <2> DEFINE names == IF call.op = "DropTable" THEN {FullName(ThisIndex), call.table}
                      ELSE {FullName(ThisIndex)}
  <2>0. /\ call.op \in {"DropIndex", "DropTable"} /\ InFlight = names
        /\ RowNames' = RowNames
    BY <1>13, <1>r, InFlightIs DEF DropIndexPhys, DropOK
  <2>1. CASE phys' \subseteq phys /\ CutShort(names)
    BY <1>i, <2>0, <2>1 DEF CutShort
  <2>2. CASE Dbremove(FullName(ThisIndex)) /\ UNCHANGED <<cut, refused>>
             /\ (call.op = "DropTable" =>
                     Goto("dropIndexes", [call EXCEPT !.index = NoName]))
    <3>1. call.op = "DropTable" => call.table \in InFlight'
      BY <1>f, <1>t, <2>2 DEF Goto, TypeOK, CallTypeOK
    <3> QED
      BY <2>0, <2>2, <3>1 DEF OrphansWereCut, Dbremove
  <2> QED
    BY <1>13, <2>1, <2>2 DEF DropIndexPhys, FullName, ThisIndex
<1>14. CASE DropTablePhys
  <2>0. InFlight = {call.table} /\ RowNames' = RowNames
    BY <1>14, <1>r, InFlightIs DEF DropTablePhys
  <2>1. CASE phys' \subseteq phys /\ CutShort({call.table})
    BY <1>i, <2>0, <2>1 DEF CutShort
  <2>2. CASE Dbremove(call.table) /\ UNCHANGED <<cut, refused>>
    BY <2>0, <2>2 DEF OrphansWereCut, Dbremove
  <2> QED
    BY <1>14, <2>1, <2>2 DEF DropTablePhys
<1>15. CASE UNCHANGED vars
  BY <1>15, <1>i, <1>r DEF vars, disk, toDo, InFlight
<1> QED
  BY <1>1, <1>2, <1>3, <1>4, <1>5, <1>6, <1>7, <1>8, <1>10, <1>11, <1>12, <1>13, <1>14,
     <1>15 DEF Next, Begin, Continue

(* A physical database without a row of PD_Table or PD_Index was left by a *)
(* statement that the end of the process or a failing call cut short, for  *)
(* any names and any number of failures of any kind.                       *)
THEOREM OrphansAlwaysCut == Spec => []OrphansWereCut
<1>1. Init => OrphansWereCut
  BY DEF Init, OrphansWereCut
<1> QED
  BY <1>1, OrphanStep, DropCorrect, PTL DEF Spec

(***************************************************************************)
(* PART 3. The catalogs in memory follow the schema tables on disk, as     *)
(* long as no call fails in a scan of a schema table: CatalogIsSchema,     *)
(* AssertsHold and the promise of Schema.tla where no put and no dbremove  *)
(* fails either, ClosedHandlesWereCut, DanglingWereCut and DroppedForGood  *)
(* where they may. What an index of a schema table refuses is let in       *)
(* everywhere, and kept in refused.                                        *)
(***************************************************************************)

(* The failures that the scans of the schema tables have no part in.       *)
QuietFaults == {"open", "put", "associate", "dbremove"}

(* Where a put or a removal may fail, the catalogs may hold more than the  *)
(* schema tables: what was cut short. Elsewhere they may not, but for what *)
(* an index of a schema table cut short.                                   *)
Failed  == IF Faults \cap {"put", "dbremove"} = {} THEN {} ELSE cut
Excused == Failed \cup refused

T == System \cup Rows(PD_Table)
X == Rows(PD_Index)

Dropping(t) ==
    pc \in {"dropIndexes", "dropIndexPhys"} /\ call.op = "DropTable" /\ call.table = t

(* The phase of the object and the place in its call.                      *)
Phase ==
    /\ object \in {"new", "closed"} => pc = "idle"
    /\ object = "opening" <=> pc \in {"loadTables", "loadIndexes"}
    /\ object = "opening" => call.op = "Open"
    /\ object \in {"new", "opening"} => refused = {}

NoSystemRows ==
    /\ \A s \in System : PD_Table[s] = 0
    /\ pc = "insertTableRow" => call.table \notin System

(* A new object, or one whose Open has failed: what is left of that Open.  *)
Remains ==
    object = "new" \/ pc = "loadTables" =>
        /\ mTableCatalog \subseteq T
        /\ closed \subseteq mTableCatalog
        /\ mIndexCatalog \subseteq X
        /\ closedIndex \subseteq mIndexCatalog

LoadingTables ==
    pc = "loadTables" =>
        /\ kSchemaTableName \in mTableCatalog \ closed
        /\ tablesToDo \subseteq Rows(PD_Table)
        /\ Rows(PD_Table) \ tablesToDo \subseteq mTableCatalog \ closed

LoadingIndexes ==
    pc = "loadIndexes" =>
        /\ mTableCatalog = T
        /\ closed = {}
        /\ mIndexCatalog \subseteq X
        /\ closedIndex \subseteq mIndexCatalog
        /\ indexesToDo \subseteq X
        /\ X \ indexesToDo \subseteq mIndexCatalog \ closedIndex

(* An open database: the catalogs have every row, and besides only the     *)
(* object of the statement in progress and what is excused.                *)
OpenTables ==
    object = "open" =>
        /\ T \subseteq mTableCatalog
        /\ closed \subseteq Failed
        /\ closed \cap Rows(PD_Table) = {}
        /\ \A t \in mTableCatalog \ T :
               \/ t \in Excused
               \/ pc = "insertTableRow" /\ t = call.table
               \/ Dropping(t)

OpenIndexes ==
    object = "open" =>
        /\ X \subseteq mIndexCatalog
        /\ \A x \in closedIndex : x \notin X /\ FullName(x) \in Failed
        /\ \A x \in mIndexCatalog \ X :
               \/ FullName(x) \in Excused
               \/ pc \in {"insertIndexRow", "dropIndexPhys"} /\ x = ThisIndex

Inserting ==
    /\ pc = "insertTableRow" => /\ call.op = "CreateTable"
                                /\ call.table \in mTableCatalog \ closed
    /\ pc = "insertIndexRow" => /\ call.op = "CreateIndex"
                                /\ ThisIndex \in mIndexCatalog \ closedIndex
                                /\ call.table \in mTableCatalog

DroppingTable ==
    \A t \in AnyTable : Dropping(t) =>
        /\ t \in mTableCatalog \ (System \cup closed)
        /\ t \in phys
        /\ indexesToDo = IndexesOf(t)
        /\ pc = "dropIndexPhys" => FullName(ThisIndex) # t

DroppingIndex ==
    pc = "dropIndexPhys" =>
        /\ ThisIndex \in mIndexCatalog \ closedIndex
        /\ FullName(ThisIndex) \in phys

Undefined ==
    pc = "undefined" => call.op = "CreateIndex" /\ call.table \in closed

(* Every row of an index whose table has none.                             *)
DanglingKnown ==
    \A x \in AnyIndex :
        PD_Index[x] > 0 => x[2] \in T \cup cut \/ Dropping(x[2])

CatInv ==
    /\ Phase /\ NoSystemRows /\ Remains /\ LoadingTables /\ LoadingIndexes
    /\ OpenTables /\ OpenIndexes /\ Inserting
    /\ DroppingTable /\ DroppingIndex /\ Undefined
    /\ DanglingKnown /\ DroppedForGood

Inv == TypeInv /\ DropOK /\ RowInv /\ CatInv

(* What the proofs use of the types, of rows and of the sets of them.      *)
LEMMA RowFacts ==
    ASSUME TypeInv
    PROVE  /\ PD_Table \in [AnyTable -> Nat] /\ PD_Index \in [AnyIndex -> Nat]
           /\ \A t : t \in Rows(PD_Table) <=> t \in AnyTable /\ PD_Table[t] > 0
           /\ \A x : x \in X <=> x \in AnyIndex /\ PD_Index[x] > 0
           /\ mTableCatalog \subseteq AnyTable /\ mIndexCatalog \subseteq AnyIndex
           /\ System \subseteq AnyTable
BY DEF TypeInv, TypeOK, DiskTypeOK, ObjectTypeOK, Rows, X, AnyTable, System

LEMMA SameRows ==
    ASSUME UNCHANGED <<PD_Table, PD_Index>>
    PROVE  T' = T /\ X' = X /\ Rows(PD_Table)' = Rows(PD_Table)
BY DEF T, X, Rows

LEMMA MoreExcused ==
    ASSUME cut \subseteq cut', refused \subseteq refused'
    PROVE  Excused \subseteq Excused' /\ Failed \subseteq Failed'
BY DEF Excused, Failed

LEMMA SameExcused ==
    ASSUME UNCHANGED <<cut, refused>>
    PROVE  Excused' = Excused /\ Failed' = Failed
BY DEF Excused, Failed

LEMMA ExcusedCut ==
    ASSUME TypeInv
    PROVE  Excused \subseteq cut /\ Failed \subseteq cut /\ Failed \subseteq Excused
BY DEF TypeInv, TypeOK, HistoryTypeOK, Excused, Failed

(* Failures of the two kinds that the catalogs notice excuse what they cut. *)
LEMMA FailureExcuses ==
    ASSUME NEW kind \in {"put", "dbremove"}, Fails(kind)
    PROVE  Failed' = cut' /\ cut' \subseteq Excused'
BY DEF Excused, Failed, Fails

LEMMA RefusalExcuses ==
    ASSUME NEW names, CutShortByIndex(names)
    PROVE  /\ cut \subseteq cut' /\ refused \subseteq refused'
           /\ names \subseteq Excused' /\ names \subseteq cut'
BY DEF Excused, CutShortByIndex

(* Closing, and a new object.                                              *)
LEMMA NewObject ==
    ASSUME Inv, FreshObject, pc' = "idle", call' = NoCall, UNCHANGED disk,
           cut' = cut \cup InFlight
    PROVE  CatInv'
<1>1. Phase' /\ NoSystemRows' /\ LoadingTables' /\ LoadingIndexes' /\ Inserting' /\ DroppingIndex'
      /\ Undefined' /\ DroppedForGood'
  BY DEF Inv, CatInv, FreshObject, disk, Phase, NoSystemRows, LoadingTables, LoadingIndexes,
         Inserting, DroppingIndex, Undefined, DroppedForGood, NoCall
<1>2. Remains' /\ OpenTables' /\ OpenIndexes'
  BY DEF FreshObject, Remains, OpenTables, OpenIndexes
<1>3. DroppingTable'
  BY DEF DroppingTable, Dropping
<1>4. DanglingKnown'
  <2>1. T' = T /\ X' = X /\ Rows(PD_Table)' = Rows(PD_Table) /\ PD_Index' = PD_Index
    BY SameRows DEF disk
  <2>2. ASSUME NEW t, Dropping(t) PROVE t \in InFlight
    BY <2>2, InFlightIs DEF Dropping
  <2> QED
    BY <2>1, <2>2 DEF Inv, CatInv, DanglingKnown
<1> QED
  BY <1>1, <1>2, <1>3, <1>4 DEF CatInv

LEMMA CrashKeeps ==
    ASSUME Inv, Crash
    PROVE  CatInv'
BY NewObject DEF Crash, Return

LEMMA NewDBKeeps ==
    ASSUME Inv, NewDB
    PROVE  CatInv'
<1>1. InFlight = {}
  BY InFlightIs DEF NewDB
<1> QED
  BY <1>1, NewObject DEF NewDB, Return

(***************************************************************************)
(* Open and Close                                                          *)
(***************************************************************************)

(* No statement is in progress afterwards, and no database is open.        *)
LEMMA NoStatement ==
    ASSUME pc' \in {"idle", "loadTables", "loadIndexes"}, call'.op \in {"Open", "Close"},
           object' # "open"
    PROVE  /\ OpenTables' /\ OpenIndexes' /\ Inserting' /\ DroppingTable'
           /\ DroppingIndex' /\ Undefined' /\ DroppedForGood'
<1>1. Inserting' /\ DroppingIndex' /\ Undefined' /\ DroppedForGood'
  BY DEF Inserting, DroppingIndex, Undefined, DroppedForGood
<1>2. OpenTables' /\ OpenIndexes'
  BY DEF OpenTables, OpenIndexes
<1>3. DroppingTable'
  BY DEF DroppingTable, Dropping
<1> QED
  BY <1>1, <1>2, <1>3

LEMMA DanglingKept ==
    ASSUME Inv, UNCHANGED <<PD_Table, PD_Index, cut, refused>>,
           pc \notin {"dropIndexes", "dropIndexPhys"}
    PROVE  DanglingKnown'
<1>1. T' = T /\ cut' = cut
  BY SameRows
<1>2. DanglingKnown
  BY DEF Inv, CatInv
<1> QED
  BY <1>1, <1>2 DEF DanglingKnown, Dropping

LEMMA OpensAgain ==
    ASSUME Inv, pc \in {"idle", "loadTables"}, ~mIsOpen
    PROVE  object = "new" \/ pc = "loadTables"
BY DEF Inv, CatInv, Phase, mIsOpen, TypeInv, TypeOK, ObjectTypeOK, ObjectState

LEMMA FailOpenKeeps ==
    ASSUME Inv, NEW status, FailOpen(status), UNCHANGED <<PD_Table, PD_Index, cut, refused>>,
           ~mIsOpen, pc \in {"idle", "loadTables", "loadIndexes"}
    PROVE  CatInv'
<1>1. pc' = "idle" /\ call'.op = "Open" /\ object' = "new"
      /\ closed' = mTableCatalog /\ closedIndex' = mIndexCatalog
      /\ mTableCatalog' = mTableCatalog /\ mIndexCatalog' = mIndexCatalog
  BY DEF FailOpen, CloseEnvironment, Return, Call
<1>2. T' = T /\ X' = X
  BY SameRows
<1>3. mTableCatalog \subseteq T /\ mIndexCatalog \subseteq X
  BY OpensAgain DEF Inv, CatInv, Remains, LoadingIndexes
<1>4. Remains'
  BY <1>1, <1>2, <1>3 DEF Remains
<1>5. refused' = {}
  BY OpensAgain DEF Inv, CatInv, Phase
<1>6. Phase' /\ NoSystemRows' /\ LoadingTables' /\ LoadingIndexes'
  BY <1>1, <1>5 DEF Inv, CatInv, Phase, NoSystemRows, LoadingTables, LoadingIndexes
<1> QED
  BY <1>1, <1>4, <1>6, NoStatement, DanglingKept DEF CatInv

LEMMA OpenRefusedKeeps ==
    ASSUME Inv, OpenRefused
    PROVE  CatInv'
<1>1. pc = "idle" /\ pc' = "idle" /\ call'.op = "Open"
      /\ UNCHANGED <<disk, object, catalogs, cut, refused>> /\ object # "opening" /\ object # "new"
  BY DEF OpenRefused, Return, Call, mIsOpen
<1>2. /\ T' = T /\ X' = X /\ Rows(PD_Table)' = Rows(PD_Table)
      /\ Excused' = Excused /\ Failed' = Failed
  BY <1>1, SameRows, SameExcused DEF disk
<1>3. Phase' /\ NoSystemRows' /\ Remains' /\ LoadingTables' /\ LoadingIndexes' /\ Inserting'
      /\ DroppingIndex' /\ Undefined' /\ DroppedForGood'
  BY <1>1 DEF Inv, CatInv, Phase, NoSystemRows, Remains, LoadingTables, LoadingIndexes, Inserting,
     DroppingIndex, Undefined, DroppedForGood, disk
<1>4. OpenTables' /\ OpenIndexes'
  BY <1>1, <1>2 DEF Inv, CatInv, OpenTables, OpenIndexes, Dropping, catalogs, FullName
<1>5. DroppingTable'
  BY <1>1 DEF DroppingTable, Dropping
<1> QED
  BY <1>1, <1>3, <1>4, <1>5, DanglingKept DEF CatInv, disk

LEMMA OpenKeeps ==
    ASSUME Inv, Open
    PROVE  CatInv'
<1>1. CASE FailOpen("kInternalError")
  BY <1>1, FailOpenKeeps DEF Open
<1>2. CASE AddTable(kSchemaTableName) /\ object' = "opening" /\ tablesToDo' = Rows(PD_Table)
           /\ Goto("loadTables", Call("Open", NoName, NoName))
  <2>1. T' = T /\ X' = X /\ Rows(PD_Table)' = Rows(PD_Table)
    BY SameRows DEF Open
  <2>2. pc' = "loadTables" /\ call'.op = "Open"
    BY <1>2 DEF Goto, Call
  <2>3. Remains
    BY DEF Inv, CatInv
  <2>4. Remains'
    BY <1>2, <2>1, <2>2, <2>3, OpensAgain DEF Open, Remains, AddTable, T, System
  <2>5. LoadingTables' /\ LoadingIndexes' /\ Phase'
    BY <1>2, <2>1, <2>2, OpensAgain
       DEF Open, Inv, CatInv, LoadingTables, LoadingIndexes, Phase, AddTable
  <2>6. NoSystemRows'
    BY <2>2 DEF Open, Inv, CatInv, NoSystemRows
  <2> QED
    BY <1>2, <2>2, <2>4, <2>5, <2>6, NoStatement, DanglingKept DEF CatInv, Open
<1> QED
  BY <1>1, <1>2 DEF Open

LEMMA LoadTableKeeps ==
    ASSUME Inv, NEW t \in AnyTable, LoadTable(t)
    PROVE  CatInv'
<1>0. object = "opening" /\ pc = "loadTables" /\ UNCHANGED <<disk, cut, refused>>
  BY DEF Inv, CatInv, Phase, LoadTable
<1>1. CASE FailOpen("kInternalError")
  BY <1>0, <1>1, FailOpenKeeps DEF mIsOpen, disk
<1>2. CASE AddTable(t) /\ tablesToDo' = tablesToDo \ {t} /\ t \in tablesToDo
           /\ UNCHANGED <<object, pc, call, indexesToDo, result>>
  <2>1. T' = T /\ X' = X /\ Rows(PD_Table)' = Rows(PD_Table)
    BY <1>0, SameRows DEF disk
  <2>2. Remains /\ LoadingTables /\ Phase /\ NoSystemRows
    BY DEF Inv, CatInv
  <2>3. Remains' /\ LoadingTables' /\ LoadingIndexes' /\ Phase'
    BY <1>0, <1>2, <2>1, <2>2 DEF Remains, LoadingTables, LoadingIndexes, Phase, AddTable, T
  <2>4. NoSystemRows' /\ call'.op = "Open" /\ pc' = "loadTables" /\ object' = "opening"
    BY <1>0, <1>2, <2>2 DEF NoSystemRows, Phase, disk
  <2> QED
    BY <1>0, <2>3, <2>4, NoStatement, DanglingKept DEF CatInv, disk
<1> QED
  BY <1>1, <1>2 DEF LoadTable

LEMMA LoadNeverEndsEarly ==
    ASSUME Faults \subseteq QuietFaults
    PROVE  ~LoadEndsEarly
BY DEF LoadEndsEarly, Fails, QuietFaults

LEMMA OpenIndexTableKeeps ==
    ASSUME Inv, OpenIndexTable
    PROVE  CatInv'
<1>0. object = "opening" /\ pc = "loadTables" /\ UNCHANGED <<PD_Table, PD_Index, cut, refused>>
      /\ tablesToDo = {} /\ call.op = "Open"
  BY DEF Inv, CatInv, Phase, OpenIndexTable
<1>1. CASE FailOpen("kInternalError")
  BY <1>0, <1>1, FailOpenKeeps DEF mIsOpen
<1>2. CASE AddTable(kSchemaIndexName) /\ indexesToDo' = X /\ Goto("loadIndexes", call)
           /\ UNCHANGED <<object, tablesToDo>>
  <2>1. T' = T /\ X' = X /\ Rows(PD_Table)' = Rows(PD_Table)
    BY <1>0, SameRows
  <2>2. Remains /\ LoadingTables /\ Phase /\ NoSystemRows
    BY DEF Inv, CatInv
  <2>3. mTableCatalog' = T /\ closed' = {}
    BY <1>0, <1>2, <2>2 DEF Remains, LoadingTables, AddTable, T, System
  <2>4. pc' = "loadIndexes" /\ call' = call
    BY <1>2 DEF Goto
  <2>5. Remains' /\ LoadingTables' /\ LoadingIndexes' /\ Phase'
    BY <1>0, <1>2, <2>1, <2>2, <2>3, <2>4
       DEF Remains, LoadingTables, LoadingIndexes, Phase, AddTable
  <2>6. NoSystemRows'
    BY <1>0, <2>2, <2>4 DEF NoSystemRows
  <2> QED
    BY <1>0, <1>2, <2>4, <2>5, <2>6, NoStatement, DanglingKept DEF CatInv
<1> QED
  BY <1>1, <1>2 DEF OpenIndexTable, X

(* No closed handle is met: every table of the catalog has been opened.    *)
LEMMA LoadIndexKeeps ==
    ASSUME Inv, NEW i \in IndexName, NEW t \in AnyTable, LoadIndex(i, t)
    PROVE  CatInv'
<1>0. object = "opening" /\ pc = "loadIndexes" /\ UNCHANGED <<disk, cut, refused>>
      /\ call.op = "Open" /\ closed = {}
  BY DEF Inv, CatInv, Phase, LoadIndex, LoadingIndexes
<1>1. ASSUME NEW status, FailOpen(status) PROVE CatInv'
  BY <1>0, <1>1, FailOpenKeeps DEF mIsOpen, disk
<1>2. CASE AddIndex(<<i, t>>) /\ indexesToDo' = indexesToDo \ {<<i, t>>}
           /\ UNCHANGED <<object, pc, call, tablesToDo, result>>
  <2>1. T' = T /\ X' = X /\ <<i, t>> \in indexesToDo
    BY <1>0, SameRows DEF disk, LoadIndex
  <2>2. LoadingIndexes /\ Phase /\ NoSystemRows
    BY DEF Inv, CatInv
  <2>3. Remains' /\ LoadingTables' /\ LoadingIndexes' /\ Phase'
    BY <1>0, <1>2, <2>1, <2>2 DEF Remains, LoadingTables, LoadingIndexes, Phase, AddIndex
  <2>4. NoSystemRows'
    BY <1>0, <1>2, <2>2 DEF NoSystemRows, disk
  <2> QED
    BY <1>0, <1>2, <2>3, <2>4, NoStatement, DanglingKept DEF CatInv, disk
<1> QED
  BY <1>0, <1>1, <1>2 DEF LoadIndex

LEMMA OpenDoneKeeps ==
    ASSUME Inv, OpenDone
    PROVE  CatInv'
<1>0. /\ object = "opening" /\ pc = "loadIndexes" /\ call.op = "Open" /\ indexesToDo = {}
      /\ object' = "open" /\ pc' = "idle" /\ call' = call
      /\ UNCHANGED <<disk, catalogs, cut, refused>>
  BY DEF Inv, CatInv, Phase, OpenDone, Return
<1>1. T' = T /\ X' = X /\ Rows(PD_Table)' = Rows(PD_Table)
  BY <1>0, SameRows DEF disk
<1>2. LoadingIndexes /\ NoSystemRows
  BY DEF Inv, CatInv
<1>3. mTableCatalog = T /\ closed = {} /\ mIndexCatalog = X /\ closedIndex = {}
  BY <1>0, <1>2 DEF LoadingIndexes
<1>4. OpenTables' /\ OpenIndexes'
  BY <1>0, <1>1, <1>3 DEF OpenTables, OpenIndexes, catalogs
<1>5. Phase' /\ NoSystemRows' /\ Remains' /\ LoadingTables' /\ LoadingIndexes' /\ Inserting'
      /\ DroppingIndex' /\ Undefined' /\ DroppedForGood'
  BY <1>0, <1>2 DEF Phase, NoSystemRows, Remains, LoadingTables, LoadingIndexes, Inserting,
     DroppingIndex, Undefined, DroppedForGood, disk
<1>6. DroppingTable'
  BY <1>0 DEF DroppingTable, Dropping
<1> QED
  BY <1>0, <1>4, <1>5, <1>6, DanglingKept DEF CatInv, disk

LEMMA CloseKeeps ==
    ASSUME Inv, Close
    PROVE  CatInv'
<1>0. /\ pc = "idle" /\ pc' = "idle" /\ call'.op = "Close" /\ UNCHANGED <<disk, cut, refused>>
      /\ object' = "closed"
  BY DEF Inv, CatInv, Phase, Close, Ready, CloseEnvironment, Return, Call
<1>1. Phase' /\ NoSystemRows' /\ Remains' /\ LoadingTables' /\ LoadingIndexes'
  BY <1>0 DEF Inv, CatInv, Phase, NoSystemRows, Remains, LoadingTables, LoadingIndexes, disk
<1> QED
  BY <1>0, <1>1, NoStatement, DanglingKept DEF CatInv, disk

(***************************************************************************)
(* Statements                                                              *)
(***************************************************************************)

LEMMA StaysOpen ==
    ASSUME object' = "open", pc' \notin {"loadTables", "loadIndexes"}
    PROVE  Phase' /\ Remains' /\ LoadingTables' /\ LoadingIndexes'
BY DEF Phase, Remains, LoadingTables, LoadingIndexes

(* Nothing is left of the statement that has come to its end.              *)
LEMMA NothingInProgress ==
    ASSUME pc' = "idle"
    PROVE  Inserting' /\ DroppingTable' /\ DroppingIndex' /\ Undefined'
<1>1. Inserting' /\ DroppingIndex' /\ Undefined'
  BY DEF Inserting, DroppingIndex, Undefined
<1>2. DroppingTable'
  BY DEF DroppingTable, Dropping
<1> QED
  BY <1>1, <1>2

(* A step between two statements that changes neither rows nor catalogs.   *)
LEMMA NothingDone ==
    ASSUME Inv, Ready, UNCHANGED <<PD_Table, PD_Index, object, catalogs>>,
           cut \subseteq cut', refused \subseteq refused', pc' = "idle", call'.op # "DropTable" \/ result' # "kOK"
    PROVE  CatInv'
<1>0. object = "open" /\ pc = "idle"
  BY DEF Inv, CatInv, Phase, Ready, mIsOpen, mpBackend
<1>1. /\ T' = T /\ X' = X /\ Rows(PD_Table)' = Rows(PD_Table)
      /\ Excused \subseteq Excused' /\ Failed \subseteq Failed'
  BY SameRows, MoreExcused
<1>2. OpenTables /\ OpenIndexes /\ NoSystemRows /\ DanglingKnown
  BY DEF Inv, CatInv
<1>3. OpenTables'
  BY <1>0, <1>1, <1>2 DEF OpenTables, Dropping, catalogs
<1>4. OpenIndexes'
  BY <1>0, <1>1, <1>2 DEF OpenIndexes, FullName, catalogs
<1>5. NoSystemRows' /\ DroppedForGood'
  BY <1>2 DEF NoSystemRows, DroppedForGood
<1>6. DanglingKnown'
  BY <1>0, <1>1, <1>2 DEF DanglingKnown, Dropping
<1> QED
  BY <1>0, <1>3, <1>4, <1>5, <1>6, StaysOpen, NothingInProgress DEF CatInv

LEMMA RefuseKeeps ==
    ASSUME Inv, Ready, NEW c, NEW status, Refuse(c, status), c.op # "DropTable" \/ status # "kOK"
    PROVE  CatInv'
BY NothingDone DEF Refuse, Return, disk

LEMMA CreateTableKeeps ==
    ASSUME Inv, NEW t \in AnyTable, CreateTable(t)
    PROVE  CatInv'
<1> DEFINE this == Call("CreateTable", t, NoName)
<1>1. ASSUME NEW status, Refuse(this, status) PROVE CatInv'
  BY <1>1, RefuseKeeps DEF CreateTable, Call
<1>2. CASE AddTable(t) /\ Goto("insertTableRow", this) /\ t \notin mTableCatalog
           /\ UNCHANGED <<PD_Table, PD_Index, object, cut, refused>>
  <2>0. /\ object = "open" /\ pc = "idle" /\ pc' = "insertTableRow"
        /\ call'.table = t /\ call'.op = "CreateTable"
    BY <1>2 DEF CreateTable, Inv, CatInv, Phase, Ready, mIsOpen, mpBackend, Goto, Call
  <2>1. /\ T' = T /\ X' = X /\ Rows(PD_Table)' = Rows(PD_Table)
        /\ Excused' = Excused /\ Failed' = Failed
    BY <1>2, SameRows, SameExcused
  <2>2. OpenTables /\ OpenIndexes /\ NoSystemRows
    BY DEF Inv, CatInv
  <2>3. t \notin System
    BY <1>2, <2>0, <2>2 DEF OpenTables, T
  <2>4. OpenTables'
    BY <1>2, <2>0, <2>1, <2>2 DEF OpenTables, AddTable, Dropping
  <2>5. OpenIndexes'
    BY <1>2, <2>0, <2>1, <2>2 DEF OpenIndexes, AddTable, FullName
  <2>6. NoSystemRows' /\ Inserting' /\ DroppingIndex' /\ Undefined' /\ DroppedForGood'
    BY <1>2, <2>0, <2>2, <2>3
       DEF NoSystemRows, Inserting, DroppingIndex, Undefined, DroppedForGood, AddTable
  <2>7. DroppingTable'
    BY <2>0 DEF DroppingTable, Dropping
  <2> QED
    BY <1>2, <2>0, <2>4, <2>5, <2>6, <2>7, StaysOpen, DanglingKept DEF CatInv
<1> QED
  BY <1>1, <1>2 DEF CreateTable

(* A row that put did not store is excused.                                *)
LEMMA InsertTableRowKeeps ==
    ASSUME Inv, InsertTableRow
    PROVE  CatInv'
<1>0. /\ object = "open" /\ object' = "open" /\ pc = "insertTableRow" /\ pc' = "idle"
      /\ call' = call /\ result' = "kOK" /\ UNCHANGED <<PD_Index, catalogs>>
      /\ call.table \in AnyTable
  BY DEF InsertTableRow, Inv, CatInv, Phase, Return, TypeInv, TypeOK, ObjectTypeOK, ObjectState,
     CallOK
<1>1. OpenTables /\ OpenIndexes /\ NoSystemRows /\ Inserting /\ DanglingKnown
  BY DEF Inv, CatInv
<1>2. X' = X /\ cut \subseteq cut' /\ refused \subseteq refused'
  BY <1>0 DEF X, Rows, InsertTableRow, CutShort, CutShortByIndex
<1>3. OpenIndexes'
  BY <1>0, <1>1, <1>2, MoreExcused DEF OpenIndexes, FullName, catalogs
<1>4. ASSUME PD_Table' = [PD_Table EXCEPT ![call.table] = @ + 1], UNCHANGED <<cut, refused>>
      PROVE  OpenTables' /\ NoSystemRows' /\ DanglingKnown'
  <2>1. Rows(PD_Table)' = Rows(PD_Table) \cup {call.table}
    BY <1>0, <1>4, RowFacts DEF Rows, Inv
  <2>2. T' = T \cup {call.table}
    BY <2>1 DEF T, System
  <2>3. OpenTables'
    BY <1>0, <1>1, <1>2, <2>1, <2>2, MoreExcused
       DEF OpenTables, Inserting, Dropping, catalogs
  <2>4. NoSystemRows'
    BY <1>0, <1>1, <1>4, RowFacts DEF NoSystemRows, Inv, System
  <2>5. DanglingKnown'
    BY <1>0, <1>1, <1>2, <2>2 DEF DanglingKnown, Dropping
  <2> QED
    BY <2>3, <2>4, <2>5
<1>5. ASSUME UNCHANGED PD_Table,
             \/ Fails("put") /\ CutShort({call.table})
             \/ CutShortByIndex({call.table})
      PROVE  OpenTables' /\ NoSystemRows' /\ DanglingKnown'
  <2>1. T' = T /\ Rows(PD_Table)' = Rows(PD_Table) /\ call.table \in Excused'
    BY <1>0, <1>5, SameRows, FailureExcuses, RefusalExcuses DEF CutShort
  <2>2. OpenTables'
    BY <1>0, <1>1, <1>2, <2>1, MoreExcused DEF OpenTables, Dropping, catalogs
  <2>3. NoSystemRows'
    BY <1>0, <1>1, <1>5 DEF NoSystemRows
  <2>4. DanglingKnown'
    BY <1>0, <1>1, <1>2, <2>1 DEF DanglingKnown, Dropping
  <2> QED
    BY <2>2, <2>3, <2>4
<1>6. OpenTables' /\ NoSystemRows' /\ DanglingKnown'
  BY <1>4, <1>5 DEF InsertTableRow
<1>7. DroppedForGood'
  <2>1. call.op # "DropTable"
    BY <1>0 DEF Inv, CatInv, Inserting
  <2> QED
    BY <1>0, <2>1 DEF DroppedForGood
<1> QED
  BY <1>0, <1>3, <1>6, <1>7, StaysOpen, NothingInProgress DEF CatInv

(* A closed handle is used here only, and leaves the index behind.         *)
LEMMA CreateIndexKeeps ==
    ASSUME Inv, NEW i \in IndexName, NEW t \in AnyTable, CreateIndex(i, t)
    PROVE  CatInv'
<1> DEFINE name == GetFullIndexName(i, t)
           this == Call("CreateIndex", t, i)
<1>1. ASSUME NEW status, Refuse(this, status) PROVE CatInv'
  BY <1>1, RefuseKeeps DEF CreateIndex, Call
<1>2. ASSUME UNCHANGED <<PD_Table, PD_Index, object, catalogs>>, CutShort({name}),
             Return(this, "kInternalError")
      PROVE  CatInv'
  BY <1>2, NothingDone DEF CreateIndex, CutShort, Return, Call
<1>0. object = "open" /\ pc = "idle"
  BY DEF CreateIndex, Inv, CatInv, Phase, Ready, mIsOpen, mpBackend
<1>o. OpenTables /\ OpenIndexes /\ NoSystemRows /\ DanglingKnown
  BY DEF Inv, CatInv
<1>3. ASSUME UNCHANGED <<PD_Table, PD_Index, object, cut, refused>>, t \in mTableCatalog,
             AddIndex(<<i, t>>), Goto("insertIndexRow", this)
      PROVE  CatInv'
  <2>0. /\ pc' = "insertIndexRow" /\ call'.table = t /\ call'.op = "CreateIndex"
        /\ ThisIndex' = <<i, t>>
    BY <1>3 DEF Goto, Call, ThisIndex
  <2>1. /\ T' = T /\ X' = X /\ Rows(PD_Table)' = Rows(PD_Table)
        /\ Excused' = Excused /\ Failed' = Failed
    BY <1>3, SameRows, SameExcused
  <2>2. OpenTables'
    BY <1>0, <1>o, <1>3, <2>0, <2>1 DEF OpenTables, AddIndex, Dropping
  <2>3. OpenIndexes'
    BY <1>0, <1>o, <1>3, <2>0, <2>1 DEF OpenIndexes, AddIndex, FullName
  <2>4. NoSystemRows' /\ Inserting' /\ DroppingIndex' /\ Undefined' /\ DroppedForGood'
    BY <1>0, <1>o, <1>3, <2>0
       DEF NoSystemRows, Inserting, DroppingIndex, Undefined, DroppedForGood, AddIndex
  <2>5. DroppingTable'
    BY <2>0 DEF DroppingTable, Dropping
  <2> QED
    BY <1>0, <1>3, <2>0, <2>2, <2>3, <2>4, <2>5, StaysOpen, DanglingKept DEF CatInv
<1>4. ASSUME UNCHANGED <<PD_Table, PD_Index, object, catalogs>>, t \in closed,
             UseClosedHandle(this), CutShort({name})
      PROVE  CatInv'
  <2>0. /\ pc' = "undefined" /\ call'.table = t /\ call'.op = "CreateIndex"
        /\ cut \subseteq cut' /\ refused \subseteq refused'
    BY <1>4 DEF UseClosedHandle, Goto, Call, CutShort
  <2>1. /\ T' = T /\ X' = X /\ Rows(PD_Table)' = Rows(PD_Table)
        /\ Excused \subseteq Excused' /\ Failed \subseteq Failed'
    BY <1>4, <2>0, SameRows, MoreExcused
  <2>2. OpenTables'
    BY <1>0, <1>o, <1>4, <2>0, <2>1 DEF OpenTables, catalogs, Dropping
  <2>3. OpenIndexes'
    BY <1>0, <1>o, <1>4, <2>0, <2>1 DEF OpenIndexes, catalogs, FullName
  <2>4. NoSystemRows' /\ Inserting' /\ DroppingIndex' /\ Undefined' /\ DroppedForGood'
    BY <1>0, <1>o, <1>4, <2>0
       DEF NoSystemRows, Inserting, DroppingIndex, Undefined, DroppedForGood, catalogs
  <2>5. DroppingTable'
    BY <2>0 DEF DroppingTable, Dropping
  <2>6. DanglingKnown'
    BY <1>0, <1>o, <1>4, <2>0, <2>1 DEF DanglingKnown, Dropping
  <2> QED
    BY <1>0, <1>4, <2>0, <2>2, <2>3, <2>4, <2>5, <2>6, StaysOpen DEF CatInv
<1> QED
  BY <1>1, <1>2, <1>3, <1>4 DEF CreateIndex

LEMMA InsertIndexRowKeeps ==
    ASSUME Inv, InsertIndexRow
    PROVE  CatInv'
<1>0. /\ object = "open" /\ object' = "open" /\ pc = "insertIndexRow" /\ pc' = "idle"
      /\ call' = call /\ result' = "kOK" /\ UNCHANGED <<PD_Table, catalogs>>
      /\ ThisIndex \in AnyIndex
  BY DEF InsertIndexRow, Inv, CatInv, Phase, Return, TypeInv, TypeOK, ObjectTypeOK, ObjectState,
     CallOK, AnyIndex, ThisIndex
<1>1. OpenTables /\ OpenIndexes /\ NoSystemRows /\ Inserting /\ DanglingKnown
  BY DEF Inv, CatInv
<1>2. Rows(PD_Table)' = Rows(PD_Table) /\ T' = T /\ cut \subseteq cut' /\ refused \subseteq refused'
  BY <1>0 DEF T, System, Rows, InsertIndexRow, CutShort, CutShortByIndex
<1>3. OpenTables'
  BY <1>0, <1>1, <1>2, MoreExcused DEF OpenTables, Dropping, catalogs
<1>4. ASSUME PD_Index' = [PD_Index EXCEPT ![ThisIndex] = @ + 1], UNCHANGED <<cut, refused>>
      PROVE  OpenIndexes' /\ DanglingKnown'
  <2>0. \A y \in AnyIndex : PD_Index'[y] = IF y = ThisIndex THEN PD_Index[y] + 1 ELSE PD_Index[y]
    BY <1>4, RowFacts DEF Inv
  <2>1. X' = X \cup {ThisIndex}
    BY <1>0, <1>4, <2>0, RowFacts DEF Rows, X, Inv
  <2>2. ThisIndex \in mIndexCatalog \ closedIndex
    BY <1>0, <1>1 DEF Inserting
  <2>3. OpenIndexes'
    BY <1>0, <1>1, <1>2, <2>1, <2>2, MoreExcused DEF OpenIndexes, FullName, catalogs
  <2>4. call.table \in T \cup cut
    BY <1>0, <1>1, ExcusedCut DEF Inv, Inserting, OpenTables, Dropping
  <2>5. ThisIndex[2] \in T \cup cut
    BY <2>4 DEF ThisIndex
  <2>6. DanglingKnown'
    BY <1>0, <1>1, <1>2, <2>0, <2>5 DEF DanglingKnown, Dropping
  <2> QED
    BY <2>3, <2>6
<1>5. ASSUME UNCHANGED PD_Index,
             \/ Fails("put") /\ CutShort({FullName(ThisIndex)})
             \/ CutShortByIndex({FullName(ThisIndex)})
      PROVE  OpenIndexes' /\ DanglingKnown'
  <2>1. X' = X /\ FullName(ThisIndex) \in Excused'
    BY <1>0, <1>5, SameRows, FailureExcuses, RefusalExcuses DEF CutShort
  <2>2. OpenIndexes'
    BY <1>0, <1>1, <1>2, <2>1, MoreExcused DEF OpenIndexes, FullName, catalogs
  <2>3. DanglingKnown'
    BY <1>0, <1>1, <1>2, <1>5 DEF DanglingKnown, Dropping
  <2> QED
    BY <2>2, <2>3
<1>6. OpenIndexes' /\ DanglingKnown'
  BY <1>4, <1>5 DEF InsertIndexRow, ThisIndex, FullName
<1>7. NoSystemRows' /\ DroppedForGood'
  BY <1>0, <1>1 DEF NoSystemRows, DroppedForGood, Inserting
<1> QED
  BY <1>0, <1>3, <1>6, <1>7, StaysOpen, NothingInProgress DEF CatInv

(* With no scan failing, a row of PD_Index is removed, or not there, or an *)
(* index of PD_Index refuses to let it go.                                 *)
LEMMA RowRemoved ==
    ASSUME Inv, Faults \subseteq QuietFaults, NEW i \in IndexName, NEW t \in AnyTable,
           NEW out \in ScanOutcome, RemoveIndexRow(i, t, out)
    PROVE  /\ UNCHANGED <<phys, PD_Table, object, catalogs>>
           /\ Rows(PD_Table)' = Rows(PD_Table) /\ T' = T
           /\ \/ /\ out = "removed" /\ <<i, t>> \in X /\ X' = X \ {<<i, t>>}
                 /\ FullName(<<i, t>>) \in phys
                 /\ \A x \in AnyIndex : PD_Index'[x] > 0 => PD_Index[x] > 0
              \/ out = "notFound" /\ <<i, t>> \notin X /\ UNCHANGED PD_Index
              \/ out = "refused" /\ Indexed(kSchemaIndexName) /\ UNCHANGED PD_Index
<1> DEFINE x == <<i, t>>
<1>0. UNCHANGED <<phys, PD_Table, object, catalogs>>
  BY DEF RemoveIndexRow
<1>1. Rows(PD_Table)' = Rows(PD_Table) /\ T' = T
  BY <1>0 DEF T, System, Rows
<1>2. x \in AnyIndex
  BY DEF AnyIndex
<1>3. PD_Index \in [AnyIndex -> Nat]
  BY RowFacts DEF Inv
<1>4. RemoveRow(kSchemaIndexName, out, PD_Index[x])
  BY DEF RemoveIndexRow
<1>5. out \in {"removed", "notFound", "refused"}
  BY <1>4 DEF RemoveRow, Fails, QuietFaults
<1>6. CASE out \in {"notFound", "refused"}
  BY <1>0, <1>1, <1>4, <1>6, RowFacts DEF RemoveRow, RemoveIndexRow, Inv
<1>7. CASE out = "removed"
  <2>1. PD_Index[x] = 1 /\ FullName(x) \in phys
    BY <1>2, <1>3, <1>4, <1>7 DEF RemoveRow, Inv, RowInv, IndexRowsOwn
  <2>2. PD_Index' = [PD_Index EXCEPT ![x] = @ - 1]
    BY <1>7 DEF RemoveIndexRow
  <2>3. \A y \in AnyIndex : PD_Index'[y] = IF y = x THEN 0 ELSE PD_Index[y]
    BY <1>3, <2>1, <2>2
  <2>4. DOMAIN PD_Index = AnyIndex /\ DOMAIN PD_Index' = AnyIndex
    BY <1>3, <2>2
  <2>5. X' = X \ {x} /\ x \in X
    BY <1>2, <1>3, <2>1, <2>3, <2>4 DEF X, Rows
  <2>6. \A y \in AnyIndex : PD_Index'[y] > 0 => PD_Index[y] > 0
    BY <1>3, <2>3
  <2> QED
    BY <1>0, <1>1, <1>7, <2>1, <2>5, <2>6
<1> QED
  BY <1>5, <1>6, <1>7

LEMMA DropIndexKeeps ==
    ASSUME Inv, Faults \subseteq QuietFaults, NEW i \in IndexName, NEW t \in AnyTable,
           NEW out \in ScanOutcome, DropIndex(i, t, out)
    PROVE  CatInv'
<1> DEFINE this == Call("DropIndex", t, i)
           x == <<i, t>>
<1>1. ASSUME NEW status, Refuse(this, status) PROVE CatInv'
  BY <1>1, RefuseKeeps DEF DropIndex, Call
<1>2. CASE RemoveIndexRow(i, t, out) /\ out # "removed" /\ UNCHANGED <<cut, refused>>
           /\ Return(this, "kInternalError")
  BY <1>2, RowRemoved, NothingDone DEF DropIndex, Return, Call
<1>3. CASE RemoveIndexRow(i, t, out) /\ out = "removed" /\ UNCHANGED <<cut, refused>>
           /\ Goto("dropIndexPhys", this)
  <2>0. /\ object = "open" /\ pc = "idle" /\ pc' = "dropIndexPhys"
        /\ call'.op = "DropIndex" /\ call'.table = t /\ ThisIndex' = x
    BY <1>3 DEF DropIndex, Inv, CatInv, Phase, Ready, mIsOpen, mpBackend, Goto, Call, ThisIndex
  <2>1. /\ UNCHANGED <<phys, PD_Table, object, catalogs>>
        /\ Rows(PD_Table)' = Rows(PD_Table) /\ T' = T
        /\ Excused' = Excused /\ Failed' = Failed
        /\ x \in X /\ X' = X \ {x} /\ FullName(x) \in phys
        /\ \A y \in AnyIndex : PD_Index'[y] > 0 => PD_Index[y] > 0
    BY <1>3, RowRemoved, SameExcused
  <2>2. OpenTables /\ OpenIndexes /\ NoSystemRows /\ DanglingKnown
    BY DEF Inv, CatInv
  <2>3. OpenTables'
    BY <2>0, <2>1, <2>2 DEF OpenTables, Dropping, catalogs
  <2>4. OpenIndexes'
    BY <2>0, <2>1, <2>2 DEF OpenIndexes, FullName, catalogs
  <2>5. NoSystemRows' /\ Inserting' /\ Undefined' /\ DroppedForGood'
    BY <2>0, <2>1, <2>2 DEF NoSystemRows, Inserting, Undefined, DroppedForGood
  <2>6. DroppingIndex'
    <3>1. x \in mIndexCatalog \ closedIndex
      BY <2>0, <2>1, <2>2 DEF OpenIndexes
    <3>2. FullName(x)' = FullName(x)
      BY DEF FullName
    <3> QED
      BY <2>0, <2>1, <3>1 DEF DroppingIndex, catalogs, FullName
  <2>7. DroppingTable'
    BY <2>0 DEF DroppingTable, Dropping
  <2>8. DanglingKnown'
    BY <1>3, <2>0, <2>1, <2>2 DEF DanglingKnown, Dropping
  <2> QED
    BY <2>0, <2>1, <2>3, <2>4, <2>5, <2>6, <2>7, <2>8, StaysOpen DEF CatInv
<1>4. RemoveIndexRow(i, t, out) => out \in {"removed", "notFound", "refused"}
  BY RowRemoved
<1> QED
  BY <1>1, <1>2, <1>3, <1>4 DEF DropIndex, GoesOn

LEMMA DropTableKeeps ==
    ASSUME Inv, Faults \subseteq QuietFaults, NEW t \in AnyTable,
           NEW out \in ScanOutcome, DropTable(t, out)
    PROVE  CatInv'
<1> DEFINE this == Call("DropTable", t, NoName)
<1>1. ASSUME Refuse(this, "kTableMissing") PROVE CatInv'
  BY <1>1, RefuseKeeps DEF DropTable
<1>2. ASSUME RemoveRow(kSchemaTableName, out, PD_Table[t])
      PROVE  out \in {"removed", "notFound", "refused"}
  BY <1>2 DEF RemoveRow, Fails, QuietFaults
<1>3. CASE /\ out \in {"notFound", "refused"}
           /\ Return(this, "kInternalError")
           /\ UNCHANGED <<PD_Table, PD_Index, object, catalogs, cut, refused>>
  BY <1>3, NothingDone DEF DropTable, Return
<1>4. CASE /\ out = "removed" /\ RemoveRow(kSchemaTableName, out, PD_Table[t])
           /\ t \in mTableCatalog
           /\ PD_Table' = [PD_Table EXCEPT ![t] = @ - 1]
           /\ Goto("dropIndexes", this)
           /\ indexesToDo' = IndexesOf(t)
           /\ UNCHANGED <<phys, PD_Index, object, catalogs, cut, refused>>
  <2>0. /\ object = "open" /\ pc = "idle" /\ pc' = "dropIndexes"
        /\ call'.op = "DropTable" /\ call'.table = t
    BY <1>4 DEF DropTable, Inv, CatInv, Phase, Ready, mIsOpen, mpBackend, Goto, Call
  <2>1. PD_Table \in [AnyTable -> Nat]
    BY RowFacts DEF Inv
  <2>2. PD_Table[t] = 1 /\ t \in phys
    BY <1>4, <2>1 DEF RemoveRow, Inv, RowInv, TableRowsOwn
  <2>3. OpenTables /\ OpenIndexes /\ NoSystemRows /\ DanglingKnown
    BY DEF Inv, CatInv
  <2>4. t \notin System
    BY <2>2, <2>3 DEF NoSystemRows
  <2>5. \A n \in AnyTable : PD_Table'[n] = IF n = t THEN 0 ELSE PD_Table[n]
    BY <1>4, <2>1, <2>2
  <2>6. Rows(PD_Table)' = Rows(PD_Table) \ {t} /\ t \in Rows(PD_Table)
    BY <1>4, <2>1, <2>2, <2>5 DEF Rows
  <2>7. T' = T \ {t} /\ X' = X /\ Excused' = Excused /\ Failed' = Failed
    BY <1>4, <2>4, <2>6, SameExcused DEF T, System, X, Rows
  <2>8. OpenTables'
    BY <1>4, <2>0, <2>3, <2>6, <2>7 DEF OpenTables, Dropping, catalogs
  <2>9. OpenIndexes'
    BY <1>4, <2>0, <2>3, <2>7 DEF OpenIndexes, FullName, catalogs
  <2>10. NoSystemRows'
    BY <2>0, <2>3, <2>4, <2>5, RowFacts DEF NoSystemRows, Inv, System
  <2>11. Inserting' /\ DroppingIndex' /\ Undefined' /\ DroppedForGood'
    BY <2>0 DEF Inserting, DroppingIndex, Undefined, DroppedForGood, Goto
  <2>12. DroppingTable'
    <3>1. t \notin closed
      BY <2>0, <2>3, <2>6 DEF OpenTables
    <3>2. IndexesOf(t)' = IndexesOf(t)
      BY <1>4 DEF IndexesOf, catalogs
    <3> QED
      BY <1>4, <2>0, <2>2, <2>4, <3>1, <3>2 DEF DroppingTable, Dropping, catalogs, System
  <2>13. DanglingKnown'
    BY <1>4, <2>0, <2>3, <2>7 DEF DanglingKnown, Dropping
  <2> QED
    BY <1>4, <2>0, <2>8, <2>9, <2>10, <2>11, <2>12, <2>13, StaysOpen DEF CatInv
<1> QED
  BY <1>1, <1>2, <1>3, <1>4 DEF DropTable, GoesOn

(* The next index of the table: in the catalog, so it either has its row   *)
(* or is excused.                                                          *)
LEMMA DropNextIndexKeeps ==
    ASSUME Inv, Faults \subseteq QuietFaults, NEW i \in IndexName, NEW t \in AnyTable,
           NEW out \in ScanOutcome, DropNextIndex(i, t, out)
    PROVE  CatInv'
<1> DEFINE x == <<i, t>>
<1>0. /\ pc = "dropIndexes" /\ object = "open" /\ call.op = "DropTable" /\ call.table = t
      /\ x \in indexesToDo /\ RemoveIndexRow(i, t, out) /\ Dropping(t)
  BY DEF DropNextIndex, Inv, CatInv, Phase, DropOK, TypeInv, TypeOK, ObjectTypeOK, ObjectState,
     Dropping
<1>c. call \in [op : Op, table : AnyTable \cup {NoName}, index : IndexName \cup {NoName}]
  BY DEF Inv, TypeInv, TypeOK, CallTypeOK
<1>1. /\ UNCHANGED <<phys, PD_Table, object, catalogs>>
      /\ Rows(PD_Table)' = Rows(PD_Table) /\ T' = T
  BY <1>0, RowRemoved
<1>2. OpenTables /\ OpenIndexes /\ NoSystemRows /\ DanglingKnown /\ DroppingTable
  BY DEF Inv, CatInv
<1>3. /\ x \in mIndexCatalog /\ t \in mTableCatalog \ (System \cup closed) /\ t \in phys
      /\ indexesToDo = IndexesOf(t)
  BY <1>0, <1>2 DEF DroppingTable, IndexesOf
<1>4. NoSystemRows'
  BY <1>0, <1>1, <1>2 DEF NoSystemRows, DropNextIndex, Goto, Return
<1>7. out \in {"removed", "notFound", "refused"}
  BY <1>0, RowRemoved
<1>5. CASE out = "removed"
  <2>1. /\ x \in X /\ X' = X \ {x} /\ FullName(x) \in phys
        /\ \A y \in AnyIndex : PD_Index'[y] > 0 => PD_Index[y] > 0
    BY <1>0, <1>5, RowRemoved
  <2>2. /\ pc' = "dropIndexPhys" /\ call' = [call EXCEPT !.index = i] /\ UNCHANGED <<toDo, cut, refused>>
    BY <1>5 DEF DropNextIndex, GoesOn, Goto
  <2>3. call'.op = "DropTable" /\ call'.table = t /\ ThisIndex' = x
        /\ Excused' = Excused /\ Failed' = Failed
    BY <1>0, <1>c, <2>2, SameExcused DEF ThisIndex
  <2>4. OpenTables'
    BY <1>0, <1>1, <1>2, <2>2, <2>3 DEF OpenTables, Dropping, catalogs
  <2>5. OpenIndexes'
    BY <1>0, <1>1, <1>2, <2>1, <2>2, <2>3 DEF OpenIndexes, FullName, catalogs
  <2>6. Inserting' /\ Undefined' /\ DroppedForGood'
    BY <2>2 DEF Inserting, Undefined, DroppedForGood
  <2>7. DroppingIndex'
    <3>1. x \in mIndexCatalog \ closedIndex
      BY <1>0, <1>2, <2>1 DEF OpenIndexes
    <3> QED
      BY <1>1, <2>1, <2>2, <2>3, <3>1 DEF DroppingIndex, catalogs, FullName
  <2>8. FullName(x) # t
    <3>1. NoRow(t) /\ x \in AnyIndex /\ PD_Index[x] > 0
      BY <1>0, <2>1, RowFacts DEF Inv, RowInv, InFlightHasNoRow
    <3> QED
      BY <3>1 DEF NoRow
  <2>9. DroppingTable'
    <3>1. IndexesOf(t)' = IndexesOf(t)
      BY <1>1 DEF IndexesOf, catalogs
    <3>2. FullName(ThisIndex)' = FullName(x)
      BY <2>3 DEF FullName
    <3> QED
      BY <1>1, <1>3, <2>2, <2>3, <2>8, <3>1, <3>2
         DEF DroppingTable, Dropping, catalogs, toDo, System
  <2>10. DanglingKnown'
    BY <1>0, <1>1, <1>2, <2>1, <2>2, <2>3 DEF DanglingKnown, Dropping
  <2> QED
    BY <1>0, <1>1, <1>4, <2>2, <2>4, <2>5, <2>6, <2>7, <2>9, <2>10, StaysOpen DEF CatInv
<1>6. CASE out # "removed"
  <2>1. (out = "refused" \/ x \notin X) /\ UNCHANGED PD_Index
    BY <1>0, <1>6, RowRemoved
  <2>2. /\ pc' = "idle" /\ call' = call /\ result' = "kInternalError"
        /\ cut' = cut \cup {t} /\ refused \subseteq refused'
        /\ out = "refused" \/ FullName(x) \in refused => t \in refused'
    BY <1>0, <1>6, <1>7
       DEF DropNextIndex, GoesOn, Return, CutShort, CutShortByIndex, FullName
  <2>3. out = "refused" \/ FullName(x) \in Excused
    BY <1>0, <1>2, <1>3, <2>1 DEF OpenIndexes
  <2>4. t \in Excused' /\ Excused \subseteq Excused' /\ Failed \subseteq Failed'
    BY <2>2, <2>3, MoreExcused DEF Excused, Failed
  <2>5. X' = X
    BY <2>1 DEF X, Rows
  <2>6. OpenTables'
    BY <1>0, <1>1, <1>2, <2>2, <2>4 DEF OpenTables, Dropping, catalogs
  <2>7. OpenIndexes'
    BY <1>0, <1>1, <1>2, <2>4, <2>5 DEF OpenIndexes, FullName, catalogs
  <2>8. DroppedForGood'
    BY <2>2 DEF DroppedForGood
  <2>9. DanglingKnown'
    BY <1>0, <1>1, <1>2, <2>1, <2>2 DEF DanglingKnown, Dropping
  <2> QED
    BY <1>0, <1>1, <1>4, <2>2, <2>6, <2>7, <2>8, <2>9, StaysOpen, NothingInProgress DEF CatInv
<1> QED
  BY <1>5, <1>6

LEMMA DropIndexPhysKeeps ==
    ASSUME Inv, DropIndexPhys
    PROVE  CatInv'
<1> DEFINE x == ThisIndex
           name == FullName(ThisIndex)
<1>0. /\ pc = "dropIndexPhys" /\ object = "open" /\ object' = "open"
      /\ call.op \in {"DropIndex", "DropTable"} /\ call.table \in AnyTable
      /\ x \in AnyIndex /\ x = <<call.index, call.table>> /\ x[2] = call.table
      /\ name = GetFullIndexName(call.index, call.table)
      /\ UNCHANGED <<PD_Table, PD_Index, mTableCatalog, closed>>
  BY DEF DropIndexPhys, Inv, CatInv, Phase, DropOK, TypeInv, TypeOK, ObjectTypeOK, ObjectState,
     CallOK, ThisIndex, AnyIndex, FullName
<1>c. call \in [op : Op, table : AnyTable \cup {NoName}, index : IndexName \cup {NoName}]
  BY DEF Inv, TypeInv, TypeOK, CallTypeOK
<1>1. T' = T /\ X' = X /\ Rows(PD_Table)' = Rows(PD_Table)
  BY <1>0, SameRows
<1>2. OpenTables /\ OpenIndexes /\ NoSystemRows /\ DanglingKnown /\ DroppingTable /\ DroppingIndex
  BY DEF Inv, CatInv
<1>3. x \in mIndexCatalog \ closedIndex /\ name \in phys
  BY <1>0, <1>2 DEF DroppingIndex
<1>4. x \notin X
  <2>1. NoRow(name)
    BY <1>0 DEF Inv, RowInv, InFlightHasNoRow
  <2> QED
    BY <1>0, <2>1, RowFacts DEF NoRow, Inv
<1>5. NoSystemRows'
  BY <1>0, <1>2 DEF NoSystemRows, DropIndexPhys, Goto, Return, UseClosedHandle
<1>6. ASSUME phys' = phys \ {name}, mIndexCatalog' = mIndexCatalog \ {x},
             indexesToDo' = indexesToDo \ {x}, UNCHANGED <<closedIndex, tablesToDo, cut, refused>>,
             IF call.op = "DropTable" THEN Goto("dropIndexes", [call EXCEPT !.index = NoName])
             ELSE pc' = "idle" /\ UNCHANGED call /\ result' = "kOK"
      PROVE  CatInv'
  <2>1. /\ Excused' = Excused /\ Failed' = Failed
        /\ call'.op = call.op /\ call'.table = call.table
        /\ pc' = (IF call.op = "DropTable" THEN "dropIndexes" ELSE "idle")
    BY <1>c, <1>6, SameExcused DEF Goto
  <2>2. OpenTables'
    BY <1>0, <1>1, <1>2, <2>1 DEF OpenTables, Dropping
  <2>3. OpenIndexes'
    BY <1>0, <1>1, <1>2, <1>4, <1>6, <2>1 DEF OpenIndexes, FullName
  <2>4. Inserting' /\ DroppingIndex' /\ Undefined' /\ DroppedForGood'
    BY <1>0, <2>1 DEF Inserting, DroppingIndex, Undefined, DroppedForGood
  <2>5. ASSUME NEW t \in AnyTable, Dropping(t)'
        PROVE  /\ t \in mTableCatalog' \ (System \cup closed') /\ t \in phys'
               /\ indexesToDo' = IndexesOf(t)'
    <3>1. Dropping(t) /\ t = call.table
      BY <1>0, <2>1, <2>5 DEF Dropping
    <3>2. /\ t \in mTableCatalog \ (System \cup closed) /\ t \in phys
          /\ indexesToDo = IndexesOf(t) /\ name # t
      BY <1>0, <1>2, <3>1 DEF DroppingTable
    <3>3. IndexesOf(t)' = IndexesOf(t) \ {x}
      BY <1>6 DEF IndexesOf
    <3> QED
      BY <1>0, <1>6, <3>2, <3>3
  <2>6. DroppingTable'
    BY <2>1, <2>5 DEF DroppingTable, System
  <2>7. DanglingKnown'
    BY <1>0, <1>1, <1>2, <1>6, <2>1 DEF DanglingKnown, Dropping
  <2> QED
    BY <1>0, <1>5, <2>1, <2>2, <2>3, <2>4, <2>6, <2>7, StaysOpen DEF CatInv
<1>7. ASSUME Fails("dbremove"), closedIndex' = closedIndex \cup {x}, UNCHANGED mIndexCatalog,
             Return(call, "kInternalError"),
             CutShort(IF call.op = "DropTable" THEN {name, call.table} ELSE {name})
      PROVE  CatInv'
  <2>1. /\ Failed' = cut' /\ cut' \subseteq Excused' /\ cut \subseteq cut'
        /\ Excused \subseteq cut' /\ Failed \subseteq cut' /\ name \in cut'
        /\ call.op = "DropTable" => call.table \in cut'
        /\ pc' = "idle" /\ call' = call /\ result' = "kInternalError"
    BY <1>7, FailureExcuses, ExcusedCut DEF Inv, CutShort, Return
  <2>2. OpenTables'
    BY <1>0, <1>1, <1>2, <2>1 DEF OpenTables, Dropping
  <2>3. OpenIndexes'
    BY <1>0, <1>1, <1>2, <1>4, <1>7, <2>1 DEF OpenIndexes, FullName
  <2>4. DroppedForGood'
    BY <2>1 DEF DroppedForGood
  <2>5. DanglingKnown'
    BY <1>0, <1>1, <1>2, <2>1 DEF DanglingKnown, Dropping
  <2> QED
    BY <1>0, <1>5, <2>1, <2>2, <2>3, <2>4, <2>5, StaysOpen, NothingInProgress DEF CatInv
<1> QED
  BY <1>0, <1>3, <1>6, <1>7 DEF DropIndexPhys, Dbremove

(* No index is left: the table goes for good, or keeps a closed handle.    *)
LEMMA DropTablePhysKeeps ==
    ASSUME Inv, DropTablePhys
    PROVE  CatInv'
<1> DEFINE t == call.table
<1>0. /\ pc = "dropIndexes" /\ object = "open" /\ object' = "open" /\ indexesToDo = {}
      /\ call.op = "DropTable" /\ t \in AnyTable /\ Dropping(t)
      /\ pc' \in {"idle", "undefined"}
      /\ UNCHANGED <<PD_Table, PD_Index, mIndexCatalog, closedIndex>>
  BY DEF DropTablePhys, Inv, CatInv, Phase, DropOK, TypeInv, TypeOK, ObjectTypeOK, ObjectState,
     CallOK, Dropping, Return, UseClosedHandle, Goto
<1>1. T' = T /\ X' = X /\ Rows(PD_Table)' = Rows(PD_Table)
  BY <1>0, SameRows
<1>2. OpenTables /\ OpenIndexes /\ NoSystemRows /\ DanglingKnown /\ DroppingTable
  BY DEF Inv, CatInv
<1>3. t \in mTableCatalog \ (System \cup closed) /\ t \in phys /\ IndexesOf(t) = {}
  BY <1>0, <1>2 DEF DroppingTable
<1>4. t \notin Rows(PD_Table) /\ t \notin T
  <2>1. NoRow(t)
    BY <1>0 DEF Inv, RowInv, InFlightHasNoRow
  <2> QED
    BY <1>0, <1>3, <2>1, RowFacts DEF NoRow, Inv, T
<1>5. NoSystemRows'
  BY <1>0, <1>2 DEF NoSystemRows
<1>6. \A x \in mIndexCatalog \cup X : x[2] # t
  BY <1>0, <1>2, <1>3 DEF IndexesOf, OpenIndexes
<1>7. ASSUME phys' = phys \ {t}, mTableCatalog' = mTableCatalog \ {t}, Return(call, "kOK"),
             UNCHANGED <<closed, cut, refused>>
      PROVE  CatInv'
  <2>1. Excused' = Excused /\ Failed' = Failed /\ call' = call /\ pc' = "idle"
    BY <1>7, SameExcused DEF Return
  <2>2. OpenTables'
    BY <1>0, <1>1, <1>2, <1>4, <1>7, <2>1 DEF OpenTables, Dropping
  <2>3. OpenIndexes'
    BY <1>0, <1>1, <1>2, <2>1 DEF OpenIndexes, FullName
  <2>4. DroppedForGood'
    BY <1>0, <1>1, <1>4, <1>6, <1>7, <2>1 DEF DroppedForGood, X
  <2>5. DanglingKnown'
    <3>1. \A x \in AnyIndex : PD_Index[x] > 0 => x[2] # t
      BY <1>6, RowFacts DEF Inv
    <3> QED
      BY <1>0, <1>1, <1>2, <1>7, <3>1 DEF DanglingKnown, Dropping
  <2> QED
    BY <1>0, <1>5, <2>1, <2>2, <2>3, <2>4, <2>5, StaysOpen, NothingInProgress DEF CatInv
<1>8. ASSUME Fails("dbremove"), closed' = closed \cup {t}, UNCHANGED mTableCatalog,
             Return(call, "kInternalError"), CutShort({t})
      PROVE  CatInv'
  <2>1. /\ Failed' = cut' /\ cut' \subseteq Excused' /\ cut \subseteq cut'
        /\ Excused \subseteq cut' /\ Failed \subseteq cut' /\ t \in cut'
        /\ pc' = "idle" /\ result' = "kInternalError"
    BY <1>8, FailureExcuses, ExcusedCut DEF Inv, CutShort, Return
  <2>2. OpenTables'
    BY <1>0, <1>1, <1>2, <1>4, <1>8, <2>1 DEF OpenTables, Dropping
  <2>3. OpenIndexes'
    BY <1>0, <1>1, <1>2, <2>1 DEF OpenIndexes, FullName
  <2>4. DroppedForGood'
    BY <2>1 DEF DroppedForGood
  <2>5. DanglingKnown'
    BY <1>0, <1>1, <1>2, <2>1 DEF DanglingKnown, Dropping
  <2> QED
    BY <1>0, <1>5, <2>1, <2>2, <2>3, <2>4, <2>5, StaysOpen, NothingInProgress DEF CatInv
<1> QED
  BY <1>3, <1>7, <1>8 DEF DropTablePhys, Dbremove

(***************************************************************************)
(* The theorems                                                            *)
(***************************************************************************)

LEMMA CatStep ==
    ASSUME Faults \subseteq QuietFaults
    PROVE  Inv /\ [Next]_vars => CatInv'
<1> SUFFICES ASSUME Inv, [Next]_vars
             PROVE  CatInv'
  OBVIOUS
<1>1. CASE UNCHANGED vars
  <2>1. UNCHANGED <<disk, object, catalogs, pc, call, toDo, result, cut, refused>>
    BY <1>1 DEF vars
  <2>2. /\ T' = T /\ X' = X /\ Rows(PD_Table)' = Rows(PD_Table)
        /\ Excused' = Excused /\ Failed' = Failed
    BY <2>1, SameRows, SameExcused DEF disk
  <2>3. Phase' /\ NoSystemRows' /\ Remains' /\ LoadingTables' /\ LoadingIndexes' /\ Inserting'
        /\ DroppingIndex' /\ Undefined' /\ DroppedForGood'
    BY <2>1, <2>2 DEF Inv, CatInv, Phase, NoSystemRows, Remains, LoadingTables, LoadingIndexes,
       Inserting, DroppingIndex, Undefined, DroppedForGood, disk, catalogs, toDo, ThisIndex,
       FullName
  <2>4. OpenTables' /\ OpenIndexes'
    BY <2>1, <2>2 DEF Inv, CatInv, OpenTables, OpenIndexes, Dropping, catalogs, FullName, ThisIndex
  <2>5. DroppingTable' /\ DanglingKnown'
    BY <2>1, <2>2 DEF Inv, CatInv, DroppingTable, DanglingKnown, Dropping, disk, catalogs, toDo,
       IndexesOf, FullName, ThisIndex
  <2> QED
    BY <2>3, <2>4, <2>5 DEF CatInv
<1>2. CASE Crash
  BY <1>2, CrashKeeps
<1>3. CASE Begin
  BY <1>3, OpenRefusedKeeps, OpenKeeps, CreateTableKeeps, CreateIndexKeeps, DropTableKeeps,
     DropIndexKeeps, CloseKeeps, NewDBKeeps DEF Begin
<1>4. CASE Continue
  BY <1>4, LoadTableKeeps, LoadNeverEndsEarly, OpenIndexTableKeeps, LoadIndexKeeps, OpenDoneKeeps,
     InsertTableRowKeeps, InsertIndexRowKeeps, DropIndexPhysKeeps, DropNextIndexKeeps,
     DropTablePhysKeeps DEF Continue
<1> QED
  BY <1>1, <1>2, <1>3, <1>4 DEF Next

LEMMA InitCatInv == Init => CatInv
<1> SUFFICES ASSUME Init
             PROVE  CatInv
  OBVIOUS
<1>1. Phase /\ NoSystemRows /\ Remains /\ LoadingTables /\ LoadingIndexes /\ Inserting
      /\ DroppingIndex /\ Undefined /\ DroppedForGood
  BY DEF Init, Phase, NoSystemRows, Remains, LoadingTables, LoadingIndexes, Inserting,
     DroppingIndex, Undefined, DroppedForGood, NoCall, AnyTable, System
<1>2. OpenTables /\ OpenIndexes
  BY DEF Init, OpenTables, OpenIndexes
<1>3. DroppingTable /\ DanglingKnown
  BY DEF Init, DroppingTable, DanglingKnown, Dropping
<1> QED
  BY <1>1, <1>2, <1>3 DEF CatInv

LEMMA InvCorrect ==
    ASSUME Faults \subseteq QuietFaults
    PROVE  Spec => []Inv
<1>1. "commit" \notin Faults
  BY DEF QuietFaults
<1>2. Init => Inv
  BY InitTypeInv, InitRowInv, InitCatInv DEF Inv, Init, DropOK
<1>3. Inv /\ [Next]_vars => RowInv'
  BY <1>1, RowStep DEF Inv
<1>4. Inv /\ [Next]_vars => TypeInv' /\ DropOK'
  BY TypeStep, DropStep DEF Inv, TypeInv
<1>5. Inv /\ [Next]_vars => Inv'
  BY <1>3, <1>4, CatStep DEF Inv
<1> QED
  BY <1>2, <1>5, PTL DEF Spec

LEMMA OpenAtRest ==
    ASSUME Inv
    PROVE  /\ Ready => object = "open" /\ pc = "idle"
           /\ pc = "undefined" => object = "open"
BY DEF Inv, CatInv, Phase, Ready, mIsOpen, mpBackend, TypeInv, TypeOK, ObjectTypeOK, ObjectState

(* Whatever statements ran and wherever the process ended, an open         *)
(* database between two statements has in its catalogs what the schema     *)
(* tables hold, with every handle open, and besides only what an index of  *)
(* a schema table has cut short: as long as only the opening of a database *)
(* and the association of an index can fail.                               *)
THEOREM CatalogAlwaysSchema ==
    ASSUME Faults \subseteq {"open", "associate"}
    PROVE  Spec => []CatalogIsSchema
<1>1. Faults \subseteq QuietFaults /\ Failed = {} /\ Excused = refused
  BY DEF QuietFaults, Excused, Failed
<1>2. ASSUME Inv, Ready
      PROVE  /\ System \cup Rows(PD_Table) \subseteq mTableCatalog
             /\ mTableCatalog \ (System \cup Rows(PD_Table)) \subseteq refused
             /\ Rows(PD_Index) \subseteq mIndexCatalog
             /\ \A x \in mIndexCatalog \ Rows(PD_Index) : FullName(x) \in refused
             /\ closed = {} /\ closedIndex = {}
  <2>1. object = "open" /\ pc = "idle"
    BY <1>2, OpenAtRest
  <2>2. T \subseteq mTableCatalog /\ mTableCatalog \ T \subseteq refused /\ closed = {}
    BY <1>1, <1>2, <2>1 DEF Inv, CatInv, OpenTables, Dropping
  <2>3. /\ X \subseteq mIndexCatalog /\ closedIndex = {}
        /\ \A x \in mIndexCatalog \ X : FullName(x) \in refused
    BY <1>1, <1>2, <2>1 DEF Inv, CatInv, OpenIndexes
  <2> QED
    BY <2>2, <2>3 DEF T, X
<1>3. Inv => CatalogIsSchema
  BY <1>2 DEF CatalogIsSchema
<1>4. Spec => []Inv
  BY <1>1, InvCorrect
<1> QED
  BY <1>3, <1>4, PTL

(* An entry with a closed handle is what a DROP that could not remove the  *)
(* database left, never what an Open that failed on the same object left,  *)
(* and only CREATE INDEX can come to use such a handle.                    *)
THEOREM ClosedHandlesAlwaysCut ==
    ASSUME Faults \subseteq QuietFaults
    PROVE  Spec => []ClosedHandlesWereCut
<1>1. ASSUME Inv
      PROVE  ClosedHandlesWereCut
  <2>1. Ready => /\ closed \subseteq cut \ Rows(PD_Table)
                 /\ \A x \in closedIndex : FullName(x) \in cut /\ x \notin Rows(PD_Index)
    BY <1>1, OpenAtRest, ExcusedCut DEF Inv, CatInv, OpenTables, OpenIndexes, X
  <2>2. pc = "undefined" => call.op = "CreateIndex" /\ call.table \in closed \cap cut
    BY <1>1, OpenAtRest, ExcusedCut DEF Inv, CatInv, OpenTables, Undefined
  <2> QED
    BY <2>1, <2>2 DEF ClosedHandlesWereCut
<1> QED
  BY <1>1, InvCorrect, PTL

(* A row of PD_Index without its table was left by a statement cut short,  *)
(* or belongs to the DROP TABLE in progress.                               *)
THEOREM DanglingAlwaysCut ==
    ASSUME Faults \subseteq QuietFaults
    PROVE  Spec => []DanglingWereCut
<1>1. ASSUME Inv
      PROVE  DanglingWereCut
  <2>1. ASSUME NEW t, Dropping(t) PROVE t \in InFlight
    BY <2>1, InFlightIs DEF Dropping
  <2>2. \A x \in X : x[2] \in T \cup cut \/ Dropping(x[2])
    BY <1>1, RowFacts DEF Inv, CatInv, DanglingKnown
  <2> QED
    BY <2>1, <2>2 DEF DanglingWereCut, Dangling, T, X
<1> QED
  BY <1>1, InvCorrect, PTL

(* A DROP TABLE that answers kOK leaves nothing of the table behind,       *)
(* whatever was left half done before it.                                  *)
THEOREM DroppedAlwaysForGood ==
    ASSUME Faults \subseteq QuietFaults
    PROVE  Spec => []DroppedForGood
<1>1. Inv => DroppedForGood
  BY DEF Inv, CatInv
<1> QED
  BY <1>1, InvCorrect, PTL

(***************************************************************************)
(* The promise of Schema.tla                                               *)
(***************************************************************************)

(* No answer before the end, and what loading the schema was called for.   *)
Answering ==
    /\ pc # "idle" => result = "none"
    /\ pc \in {"loadTables", "loadIndexes"} => call = Call("Open", NoName, NoName)

(* A database with an index row that has lost its table is not opened: a   *)
(* CREATE TABLE would give the row a table again. It has one while it is   *)
(* open only if an index of a schema table refused a row.                  *)
NotDangling ==
    /\ pc = "loadIndexes" => \A x \in X \ indexesToDo : x[2] \in T
    /\ object = "open" /\ refused = {} =>
           \A x \in X : x[2] \in T \/ Dropping(x[2])

PromiseInv == Inv /\ Answering /\ NotDangling

(* What Promise has for call, indexes and done.                            *)
Told == IF call.op = "DropTable" THEN [call EXCEPT !.index = NoName] ELSE call

Owned == {x \in X : x[2] \in T}

TakenEffect == pc \in {"dropIndexes", "dropIndexPhys"}

(* A step of the object before any row was refused.                        *)
Whole == Excused = {} /\ refused = {} /\ refused' = {}

CallType == [op : Op, table : AnyTable \cup {NoName}, index : IndexName \cup {NoName}]

(* The Promise sees Owned for its indexes.                                 *)
LEMMA SeesOwned ==
    Rows(PD_Index) \ Dangling = Owned /\ (Rows(PD_Index) \ Dangling)' = Owned'
BY DEF Owned, Dangling, X, T

LEMMA SameOwned ==
    ASSUME UNCHANGED <<PD_Table, PD_Index>>
    PROVE  Rows(PD_Table)' = Rows(PD_Table) /\ Owned' = Owned
BY SameRows DEF Owned

(* Only opening and associating fail: what is open has everything.         *)
LEMMA OpenIsWhole ==
    ASSUME Inv, Excused = {}, object = "open"
    PROVE  /\ closed = {} /\ closedIndex = {} /\ pc # "undefined"
           /\ pc \notin {"loadTables", "loadIndexes"}
           /\ pc \notin {"insertTableRow", "dropIndexes", "dropIndexPhys"} => mTableCatalog = T
           /\ X \subseteq mIndexCatalog
BY ExcusedCut DEF Inv, CatInv, OpenTables, OpenIndexes, Phase, Undefined, Dropping

(* A step that Promise does not see.                                       *)
Unseen ==
    UNCHANGED <<Rows(PD_Table), Owned, Told, pc # "idle", TakenEffect, result, refused>>

LEMMA UnseenStutters ==
    ASSUME Unseen
    PROVE  UNCHANGED Promise!svars
<1>1. UNCHANGED (Rows(PD_Index) \ Dangling)
  BY SeesOwned DEF Unseen
<1> QED BY <1>1 DEF Unseen, Promise!svars, Promise!schema, Told, TakenEffect

(* A call that changes nothing is answered.                                *)
LEMMA AnsweredPromised ==
    ASSUME NEW c, NEW status \in Status \ {"none"}, Return(c, status), ~TakenEffect,
           c.op = "DropTable" => c = [c EXCEPT !.index = NoName],
           pc # "idle" => c = call /\ c.op # "DropTable",
           status = "kOK" => c.op \in {"Open", "Close"}, Whole,
           UNCHANGED <<Rows(PD_Table), Owned>>
    PROVE  Promise!Next
<1>1. UNCHANGED (Rows(PD_Index) \ Dangling)
  BY SeesOwned
<1>2. Told' = c /\ (pc # "idle" => c = Told) /\ result' = status /\ pc' = "idle"
  BY DEF Return, Told
<1>3. Promise!Finish(Told', result')
  BY <1>1, <1>2
     DEF Promise!Finish, Promise!Answer, Promise!Effect, Promise!schema, Told, TakenEffect, Whole
<1> QED BY <1>3 DEF Promise!Next, Told

(* A call begins, and has no effect yet.                                   *)
LEMMA Started ==
    ASSUME NEW c, NEW step \in {"loadTables", "insertTableRow", "insertIndexRow"},
           c.op # "DropTable", pc = "idle", Goto(step, c), Whole,
           UNCHANGED <<Rows(PD_Table), Owned>>
    PROVE  Promise!Next
<1>1. UNCHANGED (Rows(PD_Index) \ Dangling)
  BY SeesOwned
<1>2. Told' = c /\ result' = "none" /\ pc' = step
  BY DEF Goto, Told
<1>3. Promise!Start(Told')
  BY <1>1, <1>2 DEF Promise!Start, Promise!schema, Told, TakenEffect, Whole
<1> QED BY <1>3 DEF Promise!Next, Told

(* The process ends, or there is a new object.                             *)
LEMMA Forgotten ==
    ASSUME Return(NoCall, "none"), refused' = {}, UNCHANGED <<Rows(PD_Table), Owned>>
    PROVE  Promise!Next
<1>1. UNCHANGED (Rows(PD_Index) \ Dangling)
  BY SeesOwned
<1>2. Told' = NoCall /\ result' = "none" /\ pc' = "idle"
  BY DEF Return, Told, NoCall
<1>3. Promise!Forget
  BY <1>1, <1>2 DEF Promise!Forget, Promise!schema, Told, NoCall
<1> QED BY <1>3 DEF Promise!Next

(* Opening, up to its answer.                                              *)
LEMMA FailOpenPromised ==
    ASSUME NEW status \in {"kInternalError", "kColumnMissing", "kTableMissing"},
           FailOpen(status), ~TakenEffect, Whole, UNCHANGED <<PD_Table, PD_Index>>,
           pc # "idle" => call = Call("Open", NoName, NoName)
    PROVE  Promise!Next
BY AnsweredPromised, SameOwned DEF FailOpen, Call, Status

LEMMA OpeningPromised ==
    ASSUME PromiseInv, Whole,
           \/ OpenRefused \/ Open \/ OpenIndexTable \/ OpenDone \/ Close
           \/ \E t \in AnyTable : LoadTable(t)
           \/ \E i \in IndexName, t \in AnyTable : LoadIndex(i, t)
    PROVE  [Promise!Next]_(Promise!svars)
<1>0. pc \in {"loadTables", "loadIndexes"} => result = "none" /\ call = Call("Open", NoName, NoName)
  BY DEF PromiseInv, Answering
<1>1. CASE OpenRefused
  BY <1>1, AnsweredPromised, SameOwned DEF OpenRefused, Call, Status, TakenEffect, disk
<1>2. CASE Close
  BY <1>2, AnsweredPromised, SameOwned DEF Close, Call, Status, TakenEffect, disk, Ready
<1>3. CASE OpenDone
  <2>1. Return(Call("Open", NoName, NoName), "kOK") /\ pc = "loadIndexes" /\ UNCHANGED disk
    BY <1>0, <1>3 DEF OpenDone
  <2> QED BY <1>0, <2>1, AnsweredPromised, SameOwned DEF Call, Status, TakenEffect, disk
<1>4. CASE Open
  <2>1. pc = "idle" /\ UNCHANGED <<PD_Table, PD_Index>>
    BY <1>4 DEF Open
  <2>2. FailOpen("kInternalError") \/ Goto("loadTables", Call("Open", NoName, NoName))
    BY <1>4 DEF Open
  <2> QED BY <2>1, <2>2, FailOpenPromised, Started, SameOwned DEF Call, TakenEffect
<1>5. CASE OpenIndexTable
  <2>1. pc = "loadTables" /\ UNCHANGED <<PD_Table, PD_Index>>
    BY <1>5 DEF OpenIndexTable
  <2>2. FailOpen("kInternalError") \/ Goto("loadIndexes", call)
    BY <1>5 DEF OpenIndexTable
  <2>3. Goto("loadIndexes", call) => Unseen
    BY <1>0, <2>1, SameOwned DEF Goto, Unseen, Told, TakenEffect, Whole
  <2> QED BY <1>0, <2>1, <2>2, <2>3, FailOpenPromised, UnseenStutters DEF TakenEffect
<1>6. ASSUME NEW t \in AnyTable, LoadTable(t) PROVE [Promise!Next]_(Promise!svars)
  <2>1. pc = "loadTables" /\ UNCHANGED <<PD_Table, PD_Index>>
    BY <1>6 DEF LoadTable, disk
  <2>2. FailOpen("kInternalError") \/ UNCHANGED <<pc, call, result>>
    BY <1>6 DEF LoadTable
  <2>3. UNCHANGED <<pc, call, result>> => Unseen
    BY <2>1, SameOwned DEF Unseen, Told, TakenEffect, Whole
  <2> QED BY <1>0, <2>1, <2>2, <2>3, FailOpenPromised, UnseenStutters DEF TakenEffect
<1>7. ASSUME NEW i \in IndexName, NEW t \in AnyTable, LoadIndex(i, t)
      PROVE  [Promise!Next]_(Promise!svars)
  <2>1. pc = "loadIndexes" /\ UNCHANGED <<PD_Table, PD_Index>>
    BY <1>7 DEF LoadIndex, disk
  <2>2. t \notin closed
    BY <2>1 DEF PromiseInv, Inv, CatInv, LoadingIndexes
  <2>3. \/ \E status \in {"kInternalError", "kColumnMissing", "kTableMissing"} : FailOpen(status)
        \/ UNCHANGED <<pc, call, result>>
    BY <1>7, <2>2 DEF LoadIndex, PrepareFails
  <2>4. UNCHANGED <<pc, call, result>> => Unseen
    BY <2>1, SameOwned DEF Unseen, Told, TakenEffect, Whole
  <2> QED BY <1>0, <2>1, <2>3, <2>4, FailOpenPromised, UnseenStutters DEF TakenEffect
<1> QED BY <1>1, <1>2, <1>3, <1>4, <1>5, <1>6, <1>7

LEMMA RefusePromised ==
    ASSUME Ready, Whole, NEW c, NEW status \in Status \ {"none", "kOK"}, Refuse(c, status),
           c.op = "DropTable" => c = [c EXCEPT !.index = NoName]
    PROVE  Promise!Next
BY AnsweredPromised, SameOwned DEF Refuse, Ready, disk, TakenEffect

LEMMA CreatePromised ==
    ASSUME PromiseInv, Whole,
           \/ \E t \in AnyTable : CreateTable(t)
           \/ \E i \in IndexName, t \in AnyTable : CreateIndex(i, t)
    PROVE  Promise!Next
<1>0. Ready => pc = "idle" /\ object = "open"
  BY OpenAtRest DEF PromiseInv
<1>1. ASSUME NEW t \in AnyTable, CreateTable(t) PROVE Promise!Next
  <2> DEFINE this == Call("CreateTable", t, NoName)
  <2>1. Ready /\ UNCHANGED <<PD_Table, PD_Index>>
    BY <1>1 DEF CreateTable, Refuse, disk
  <2>2. \/ \E status \in Status \ {"none", "kOK"} : Refuse(this, status)
        \/ Goto("insertTableRow", this)
    BY <1>1 DEF CreateTable, Status
  <2> QED BY <1>0, <2>1, <2>2, RefusePromised, Started, SameOwned DEF Call
<1>2. ASSUME NEW i \in IndexName, NEW t \in AnyTable, CreateIndex(i, t) PROVE Promise!Next
  <2> DEFINE this == Call("CreateIndex", t, i)
  <2>1. Ready /\ UNCHANGED <<PD_Table, PD_Index>>
    BY <1>2 DEF CreateIndex, Refuse, disk
  <2>2. t \notin closed
    BY <1>0, <2>1, OpenIsWhole DEF PromiseInv, Whole
  <2>3. \/ \E status \in Status \ {"none", "kOK"} : Refuse(this, status)
        \/ Return(this, "kInternalError")
        \/ Goto("insertIndexRow", this)
    BY <1>2, <2>2 DEF CreateIndex, PrepareFails, Status
  <2>4. Return(this, "kInternalError") => Promise!Next
    BY <1>0, <2>1, AnsweredPromised, SameOwned DEF Call, Status, TakenEffect
  <2> QED BY <1>0, <2>1, <2>3, <2>4, RefusePromised, Started, SameOwned DEF Call
<1> QED BY <1>1, <1>2

(* The row is stored: the table or the index is there.                     *)
LEMMA InsertTableRowPromised ==
    ASSUME PromiseInv, Whole, Faults \cap {"put", "dbremove"} = {}, InsertTableRow
    PROVE  Promise!Next
<1> DEFINE t == call.table
<1>0. /\ pc = "insertTableRow" /\ object = "open" /\ result = "none" /\ t \in AnyTable
      /\ call.op = "CreateTable" /\ pc' = "idle" /\ call' = call /\ result' = "kOK"
  BY DEF InsertTableRow, Return, PromiseInv, Answering, Inv, CatInv, Phase, Inserting, TypeInv,
     TypeOK, ObjectTypeOK, ObjectState, CallOK
<1>1. PD_Table' = [PD_Table EXCEPT ![t] = @ + 1] /\ PD_Index' = PD_Index
  BY DEF InsertTableRow, Fails, CutShortByIndex, Whole
<1>2. PD_Table \in [AnyTable -> Nat] /\ PD_Table[t] = 0
  BY <1>0, RowFacts DEF PromiseInv, Inv, RowInv, InFlightHasNoRow, NoRow
<1>3. Rows(PD_Table)' = Rows(PD_Table) \cup {t} /\ t \notin Rows(PD_Table)
  <2>1. \A n \in AnyTable : PD_Table'[n] = IF n = t THEN 1 ELSE PD_Table[n]
    BY <1>0, <1>1, <1>2
  <2>2. DOMAIN PD_Table' = AnyTable /\ DOMAIN PD_Table = AnyTable
    BY <1>1, <1>2
  <2> QED BY <1>0, <1>2, <2>1, <2>2 DEF Rows
<1>4. X' = X /\ T' = T \cup {t}
  BY <1>1, <1>3 DEF X, T, Rows, System
<1>5. Owned' = Owned
  <2>1. \A x \in X : x[2] \in T
    BY <1>0 DEF PromiseInv, NotDangling, Dropping, Whole
  <2> QED BY <1>4, <2>1 DEF Owned
<1>6. Promise!CreateTable(t)
  BY <1>3, <1>5, SeesOwned DEF Promise!CreateTable
<1>7. Told = call /\ Told' = call
  BY <1>0 DEF Told
<1>8. Promise!Finish(Told', result')
  BY <1>0, <1>6, <1>7
     DEF Promise!Finish, Promise!Answer, Promise!Effect, Told, TakenEffect, Whole
<1> QED BY <1>8 DEF Promise!Next, Told

LEMMA InsertIndexRowPromised ==
    ASSUME PromiseInv, Whole, Faults \cap {"put", "dbremove"} = {}, InsertIndexRow
    PROVE  Promise!Next
<1> DEFINE x == ThisIndex
<1>0. /\ pc = "insertIndexRow" /\ object = "open" /\ result = "none"
      /\ x \in AnyIndex /\ x = <<call.index, call.table>> /\ x[2] = call.table
      /\ call.op = "CreateIndex" /\ pc' = "idle" /\ call' = call /\ result' = "kOK"
      /\ call.table \in mTableCatalog
  BY DEF InsertIndexRow, Return, PromiseInv, Answering, Inv, CatInv, Phase, Inserting, TypeInv,
     TypeOK, ObjectTypeOK, ObjectState, CallOK, ThisIndex, AnyIndex
<1>1. PD_Index' = [PD_Index EXCEPT ![x] = @ + 1] /\ PD_Table' = PD_Table
  BY <1>0 DEF InsertIndexRow, Fails, CutShortByIndex, Whole
<1>2. PD_Index \in [AnyIndex -> Nat] /\ PD_Index[x] = 0
  BY <1>0, RowFacts DEF PromiseInv, Inv, RowInv, InFlightHasNoRow, NoRow
<1>3. X' = X \cup {x} /\ x \notin X
  <2>1. \A n \in AnyIndex : PD_Index'[n] = IF n = x THEN 1 ELSE PD_Index[n]
    BY <1>0, <1>1, <1>2
  <2>2. DOMAIN PD_Index' = AnyIndex /\ DOMAIN PD_Index = AnyIndex
    BY <1>1, <1>2
  <2> QED BY <1>0, <1>2, <2>1, <2>2 DEF Rows, X
<1>4. Rows(PD_Table)' = Rows(PD_Table) /\ T' = T
  BY <1>1 DEF T, Rows, System
<1>5. x[2] \in T
  BY <1>0, OpenIsWhole DEF PromiseInv, Whole
<1>6. Owned' = Owned \cup {x} /\ x \notin Owned
  BY <1>3, <1>4, <1>5 DEF Owned
<1>7. Promise!CreateIndex(x)
  BY <1>4, <1>5, <1>6, SeesOwned DEF Promise!CreateIndex, T
<1>8. Told = call /\ Told' = call
  BY <1>0 DEF Told
<1>9. Promise!Finish(Told', result')
  BY <1>0, <1>7, <1>8
     DEF Promise!Finish, Promise!Answer, Promise!Effect, Told, TakenEffect, Whole
<1> QED BY <1>9 DEF Promise!Next, Told

(* A DROP takes effect with its first step, the removal of the row.        *)
LEMMA DropIndexPromised ==
    ASSUME PromiseInv, Whole, Faults \subseteq QuietFaults, NEW i \in IndexName,
           NEW t \in AnyTable, NEW out \in ScanOutcome, DropIndex(i, t, out)
    PROVE  Promise!Next
<1> DEFINE this == Call("DropIndex", t, i)
           x == <<i, t>>
<1>0. Ready /\ pc = "idle" /\ object = "open"
  BY OpenAtRest DEF PromiseInv, DropIndex
<1>1. \/ \E status \in Status \ {"none", "kOK"} : Refuse(this, status)
      \/ /\ t \in mTableCatalog
         /\ RemoveIndexRow(i, t, out)
         /\ IF GoesOn(out) THEN Goto("dropIndexPhys", this) ELSE Return(this, "kInternalError")
  BY DEF DropIndex, Status
<1>2. CASE RemoveIndexRow(i, t, out) /\ out # "removed" /\ Return(this, "kInternalError")
  <2>1. UNCHANGED <<PD_Table, PD_Index>>
    BY <1>2, RowRemoved DEF PromiseInv
  <2> QED BY <1>0, <1>2, <2>1, AnsweredPromised, SameOwned DEF Call, Status, TakenEffect
<1>3. CASE /\ RemoveIndexRow(i, t, out) /\ out = "removed" /\ t \in mTableCatalog
           /\ Goto("dropIndexPhys", this)
  <2>1. x \in X /\ X' = X \ {x} /\ T' = T /\ Rows(PD_Table)' = Rows(PD_Table)
    BY <1>3, RowRemoved DEF PromiseInv
  <2>2. t \in T
    BY <1>0, <1>3, OpenIsWhole DEF PromiseInv, Whole
  <2>3. x \in Owned /\ Owned' = Owned \ {x}
    BY <2>1, <2>2 DEF Owned
  <2>4. Promise!DropIndex(x)
    BY <2>1, <2>3, SeesOwned DEF Promise!DropIndex
  <2>5. Told' = this /\ result' = "none" /\ pc' = "dropIndexPhys"
    BY <1>3 DEF Goto, Told, Call
  <2>6. Promise!Start(Told')
    BY <1>0, <2>4, <2>5 DEF Promise!Start, Promise!Effect, Told, TakenEffect, Call, Whole
  <2> QED BY <2>6 DEF Promise!Next, Told
<1>4. RemoveIndexRow(i, t, out) => out \in {"removed", "notFound", "refused"}
  BY RowRemoved DEF PromiseInv
<1> QED BY <1>0, <1>1, <1>2, <1>3, <1>4, RefusePromised DEF GoesOn, Call

LEMMA DropTablePromised ==
    ASSUME PromiseInv, Whole, Faults \subseteq QuietFaults,
           NEW t \in AnyTable, NEW out \in ScanOutcome, DropTable(t, out)
    PROVE  Promise!Next
<1> DEFINE this == Call("DropTable", t, NoName)
<1>0. Ready /\ pc = "idle" /\ object = "open"
  BY OpenAtRest DEF PromiseInv, DropTable
<1>t. this = [this EXCEPT !.index = NoName] /\ this.op = "DropTable" /\ this.table = t
  BY DEF Call
<1>1. \/ Refuse(this, "kTableMissing")
      \/ /\ RemoveRow(kSchemaTableName, out, PD_Table[t]) /\ UNCHANGED PD_Index
         /\ PD_Table' = IF out = "removed" THEN [PD_Table EXCEPT ![t] = @ - 1] ELSE PD_Table
         /\ IF GoesOn(out) THEN Goto("dropIndexes", this) ELSE Return(this, "kInternalError")
  BY DEF DropTable
<1>2. RemoveRow(kSchemaTableName, out, PD_Table[t]) => out \in {"removed", "refused", "notFound"}
  BY DEF RemoveRow, Fails, QuietFaults
<1>3. CASE UNCHANGED <<PD_Table, PD_Index>> /\ Return(this, "kInternalError")
  BY <1>0, <1>3, <1>t, AnsweredPromised, SameOwned DEF Status, TakenEffect
<1>4. CASE /\ out = "removed" /\ RemoveRow(kSchemaTableName, out, PD_Table[t])
           /\ UNCHANGED PD_Index
           /\ PD_Table' = [PD_Table EXCEPT ![t] = @ - 1]
           /\ Goto("dropIndexes", this)
  <2>1. PD_Table \in [AnyTable -> Nat]
    BY RowFacts DEF PromiseInv, Inv
  <2>2. PD_Table[t] = 1
    BY <1>4, <2>1 DEF RemoveRow, PromiseInv, Inv, RowInv, TableRowsOwn
  <2>3. t \notin System
    BY <2>2 DEF PromiseInv, Inv, CatInv, NoSystemRows
  <2>4. Rows(PD_Table)' = Rows(PD_Table) \ {t} /\ t \in Rows(PD_Table)
    <3>1. \A n \in AnyTable : PD_Table'[n] = IF n = t THEN 0 ELSE PD_Table[n]
      BY <1>4, <2>1, <2>2
    <3> QED BY <1>4, <2>1, <2>2, <3>1 DEF Rows
  <2>5. T' = T \ {t} /\ X' = X
    BY <1>4, <2>3, <2>4 DEF T, X, Rows, System
  <2>6. Owned' = {x \in Owned : x[2] # t}
    BY <2>5 DEF Owned
  <2>7. Promise!DropTable(t)
    BY <2>4, <2>6, SeesOwned DEF Promise!DropTable
  <2>8. Told' = this /\ result' = "none" /\ pc' = "dropIndexes"
    BY <1>4, <1>t DEF Goto, Told
  <2>9. Promise!Start(Told')
    BY <1>0, <1>t, <2>7, <2>8 DEF Promise!Start, Promise!Effect, Told, TakenEffect, Whole
  <2> QED BY <2>9 DEF Promise!Next, Told
<1> QED BY <1>0, <1>1, <1>2, <1>3, <1>4, <1>t, RefusePromised DEF GoesOn, Status

(* The rest of a DROP shows only its answer.                               *)
LEMMA DroppedPromised ==
    ASSUME TakenEffect, pc' = "idle", call' = call, result' = "kOK", Whole,
           UNCHANGED <<PD_Table, PD_Index>>
    PROVE  Promise!Next
<1>1. UNCHANGED (Rows(PD_Index) \ Dangling) /\ UNCHANGED Rows(PD_Table)
  BY SeesOwned, SameOwned
<1>2. Told' = Told
  BY DEF Told
<1>3. Promise!Finish(Told', result')
  BY <1>1, <1>2 DEF Promise!Finish, Promise!Answer, Promise!schema, Told, TakenEffect, Whole
<1> QED BY <1>3 DEF Promise!Next, Told

(* Every index of the table that is dropped has its row, which belongs to  *)
(* no table any more.                                                      *)
LEMMA NextIndexHasRow ==
    ASSUME PromiseInv, Whole, Faults \subseteq QuietFaults, NEW i \in IndexName,
           NEW t \in AnyTable, NEW out \in ScanOutcome, DropNextIndex(i, t, out)
    PROVE  /\ pc = "dropIndexes" /\ call.op = "DropTable" /\ call.table = t /\ result = "none"
           /\ Goto("dropIndexPhys", [call EXCEPT !.index = i])
           /\ X' = X \ {<<i, t>>} /\ T' = T /\ Rows(PD_Table)' = Rows(PD_Table)
           /\ object = "open" /\ UNCHANGED object /\ t \notin T
<1>1. /\ pc = "dropIndexes" /\ call.op = "DropTable" /\ call.table = t /\ result = "none"
      /\ object = "open" /\ <<i, t>> \in indexesToDo /\ RemoveIndexRow(i, t, out)
  BY DEF DropNextIndex, PromiseInv, Answering, Inv, CatInv, Phase, DropOK, TypeInv, TypeOK,
     ObjectTypeOK, ObjectState
<1>2. indexesToDo = IndexesOf(t) /\ t \notin System
  BY <1>1 DEF PromiseInv, Inv, CatInv, DroppingTable, Dropping
<1>3. <<i, t>> \in X
  BY <1>1, <1>2 DEF IndexesOf, PromiseInv, Inv, CatInv, OpenIndexes, Whole
<1>4. out = "removed" /\ X' = X \ {<<i, t>>} /\ T' = T /\ Rows(PD_Table)' = Rows(PD_Table)
      /\ UNCHANGED object
  <2>1. CASE out = "refused"
    <3>1. CutShortByIndex({t})
      BY <2>1 DEF DropNextIndex, GoesOn
    <3>2. t \in refused'
      BY <3>1 DEF CutShortByIndex
    <3> QED BY <3>2 DEF Whole
  <2>2. CASE out # "refused"
    BY <1>1, <1>3, <2>2, RowRemoved DEF PromiseInv, catalogs
  <2> QED BY <2>1, <2>2
<1>5. t \notin T
  BY <1>1, <1>2, RowFacts DEF PromiseInv, Inv, RowInv, InFlightHasNoRow, NoRow, T
<1> QED BY <1>1, <1>4, <1>5 DEF DropNextIndex, GoesOn

LEMMA DropNextIndexUnseen ==
    ASSUME PromiseInv, Whole, Faults \subseteq QuietFaults, NEW i \in IndexName,
           NEW t \in AnyTable, NEW out \in ScanOutcome, DropNextIndex(i, t, out)
    PROVE  Unseen
<1>1. /\ pc = "dropIndexes" /\ call.op = "DropTable" /\ result = "none"
      /\ Goto("dropIndexPhys", [call EXCEPT !.index = i])
      /\ X' = X \ {<<i, t>>} /\ T' = T /\ Rows(PD_Table)' = Rows(PD_Table) /\ t \notin T
  BY NextIndexHasRow
<1>2. Owned' = Owned
  BY <1>1 DEF Owned
<1>3. Told' = Told
  <2>1. call \in CallType
    BY DEF PromiseInv, Inv, TypeInv, TypeOK, CallTypeOK, CallType
  <2> QED BY <1>1, <2>1 DEF Told, Goto, CallType
<1> QED BY <1>1, <1>2, <1>3 DEF Unseen, TakenEffect, Goto, Whole

LEMMA DropIndexPhysPromised ==
    ASSUME PromiseInv, Whole, Faults \cap {"put", "dbremove"} = {}, DropIndexPhys
    PROVE  [Promise!Next]_(Promise!svars)
<1>1. /\ pc = "dropIndexPhys" /\ result = "none" /\ call \in CallType
      /\ ThisIndex \notin closedIndex /\ FullName(ThisIndex) \in phys
      /\ UNCHANGED <<PD_Table, PD_Index>>
  BY DEF DropIndexPhys, PromiseInv, Answering, Inv, CatInv, DroppingIndex, TypeInv, TypeOK,
     CallTypeOK, CallType
<1>2. IF call.op = "DropTable"
      THEN Goto("dropIndexes", [call EXCEPT !.index = NoName])
      ELSE pc' = "idle" /\ UNCHANGED call /\ result' = "kOK"
  BY <1>1 DEF DropIndexPhys, Fails, ThisIndex, FullName
<1>3. CASE call.op = "DropTable"
  <2>1. Told' = Told
    BY <1>1, <1>2, <1>3 DEF Told, Goto, CallType
  <2>2. Unseen
    BY <1>1, <1>2, <1>3, <2>1, SameOwned DEF Unseen, TakenEffect, Goto, Whole
  <2> QED BY <2>2, UnseenStutters
<1>4. CASE call.op # "DropTable"
  BY <1>1, <1>2, <1>4, DroppedPromised DEF TakenEffect
<1> QED BY <1>3, <1>4

LEMMA DropTablePhysPromised ==
    ASSUME PromiseInv, Whole, Faults \cap {"put", "dbremove"} = {}, DropTablePhys
    PROVE  Promise!Next
<1>1. pc = "dropIndexes" /\ UNCHANGED <<PD_Table, PD_Index>>
  BY DEF DropTablePhys
<1>2. call.op = "DropTable" /\ call.table \in AnyTable
  BY <1>1 DEF PromiseInv, Inv, DropOK, TypeInv, CallOK
<1>3. call.table \in phys \ closed
  BY <1>1, <1>2 DEF PromiseInv, Inv, CatInv, DroppingTable, Dropping
<1>4. Return(call, "kOK")
  BY <1>3 DEF DropTablePhys, Fails
<1> QED BY <1>1, <1>4, DroppedPromised DEF TakenEffect, Return

(* What an index has refused is forgotten with the object only.            *)
LEMMA RefusedKept ==
    ASSUME [Next]_vars, ~Crash, ~NewDB
    PROVE  refused \subseteq refused'
<1>1. CASE UNCHANGED vars
  BY <1>1 DEF vars
<1>2. CASE Begin
  BY <1>2 DEF Begin, OpenRefused, Open, CreateTable, CreateIndex, DropTable, DropIndex, Close,
     Refuse, CutShort
<1>3. CASE Continue
  BY <1>3 DEF Continue, LoadTable, LoadEndsEarly, OpenIndexTable, LoadIndex, OpenDone,
     InsertTableRow, InsertIndexRow, DropIndexPhys, DropNextIndex, DropTablePhys, CutShort,
     CutShortByIndex
<1> QED BY <1>1, <1>2, <1>3 DEF Next

LEMMA StaysWhole ==
    ASSUME Faults \subseteq {"open", "associate"}, [Next]_vars, ~Crash, ~NewDB, refused' = {}
    PROVE  Whole
BY RefusedKept DEF Whole, Excused, Failed

LEMMA StepPromised ==
    ASSUME PromiseInv, Faults \subseteq {"open", "associate"}, [Next]_vars
    PROVE  [Promise!Next]_(Promise!svars)
<1>1. Faults \subseteq QuietFaults /\ Faults \cap {"put", "dbremove"} = {}
  BY DEF QuietFaults
<1>2. CASE UNCHANGED vars
  <2>1. UNCHANGED <<PD_Table, PD_Index, pc, call, result, refused>>
    BY <1>2 DEF vars, disk
  <2> QED BY <2>1, SameOwned, UnseenStutters DEF Unseen, Told, TakenEffect
<1>3. CASE Crash \/ NewDB
  BY <1>3, Forgotten, SameOwned DEF Crash, NewDB, FreshObject, disk
<1>4. CASE refused' # {}
  BY <1>4 DEF Promise!Next, Promise!GiveUp
<1>5. CASE Begin /\ ~Crash /\ ~NewDB /\ refused' = {}
  <2>1. Whole
    BY <1>5, StaysWhole
  <2> QED BY <1>1, <1>5, <2>1, OpeningPromised, CreatePromised, DropTablePromised,
             DropIndexPromised DEF Begin
<1>6. CASE Continue /\ ~Crash /\ ~NewDB /\ refused' = {}
  <2>1. Whole
    BY <1>6, StaysWhole
  <2> QED BY <1>1, <1>6, <2>1, OpeningPromised, LoadNeverEndsEarly, InsertTableRowPromised,
             InsertIndexRowPromised, DropIndexPhysPromised, DropNextIndexUnseen, UnseenStutters,
             DropTablePhysPromised DEF Continue
<1> QED BY <1>2, <1>3, <1>4, <1>5, <1>6 DEF Next

LEMMA AnsweringKept ==
    ASSUME PromiseInv, Faults \subseteq {"open", "associate"}, [Next]_vars
    PROVE  Answering'
<1>1. Answering
  BY DEF PromiseInv
<1>2. CASE UNCHANGED <<pc, call, result>>
  BY <1>1, <1>2 DEF Answering
<1>3. CASE pc' = "idle"
  BY <1>3 DEF Answering
<1>4. CASE result' = "none" /\ (pc' \in {"loadTables", "loadIndexes"}
                                  => call' = Call("Open", NoName, NoName))
  BY <1>4 DEF Answering
<1>5. CASE Begin \/ Crash
  <2>1. CASE OpenRefused \/ Open \/ Close \/ NewDB \/ Crash
    BY <1>3, <1>4, <2>1 DEF Crash, OpenRefused, Open, Close, NewDB, Return, Goto, FailOpen
  <2>2. ASSUME NEW t \in AnyTable, CreateTable(t) PROVE Answering'
    BY <1>3, <1>4, <2>2 DEF CreateTable, Return, Goto, Refuse
  <2>3. ASSUME NEW i \in IndexName, NEW t \in AnyTable, CreateIndex(i, t) PROVE Answering'
    BY <1>3, <1>4, <2>3 DEF CreateIndex, Return, Goto, Refuse, UseClosedHandle
  <2>4. ASSUME NEW t \in AnyTable, NEW out, DropTable(t, out) PROVE Answering'
    BY <1>3, <1>4, <2>4 DEF DropTable, Return, Goto, Refuse
  <2>5. ASSUME NEW i \in IndexName, NEW t \in AnyTable, NEW out, DropIndex(i, t, out)
        PROVE  Answering'
    BY <1>3, <1>4, <2>5 DEF DropIndex, Return, Goto, Refuse
  <2> QED BY <1>5, <2>1, <2>2, <2>3, <2>4, <2>5 DEF Begin
<1>6. CASE Continue
  BY <1>1, <1>2, <1>3, <1>4, <1>6 DEF Answering, Continue, LoadTable, LoadEndsEarly,
     OpenIndexTable, LoadIndex, OpenDone, InsertTableRow, InsertIndexRow, DropIndexPhys,
     DropNextIndex, DropTablePhys, Return, Goto, FailOpen, UseClosedHandle
<1> QED BY <1>2, <1>5, <1>6 DEF Next, vars

(* A database is opened only when every index row has its table.           *)
LEMMA OpeningNotDangling ==
    ASSUME PromiseInv, Whole,
           \/ OpenRefused \/ Open \/ OpenIndexTable \/ OpenDone \/ Close
           \/ \E t \in AnyTable : LoadTable(t)
           \/ \E i \in IndexName, t \in AnyTable : LoadIndex(i, t)
    PROVE  NotDangling'
<1>0. /\ object = "opening" <=> pc \in {"loadTables", "loadIndexes"}
      /\ NotDangling
  BY DEF PromiseInv, Inv, CatInv, Phase
<1>1. CASE object' # "open" /\ pc' # "loadIndexes"
  BY <1>1 DEF NotDangling
<1>2. ASSUME NEW status, FailOpen(status), pc \in {"idle", "loadTables", "loadIndexes"}, ~mIsOpen
      PROVE  NotDangling'
  BY <1>1, <1>2 DEF FailOpen, CloseEnvironment, Return
<1>3. CASE Open \/ Close
  BY <1>1, <1>2, <1>3 DEF Open, Close, CloseEnvironment, Return, Goto, Ready
<1>4. CASE OpenRefused
  <2>1. T' = T /\ X' = X /\ pc = "idle" /\ pc' = "idle" /\ object' = object
    BY <1>4, SameRows DEF OpenRefused, Return, disk
  <2> QED BY <1>0, <2>1 DEF NotDangling, Dropping, Whole
<1>5. CASE OpenIndexTable
  <2>1. /\ pc = "loadTables" /\ ~mIsOpen /\ UNCHANGED <<PD_Table, PD_Index>>
        /\ object = "opening"
    BY <1>0, <1>5 DEF OpenIndexTable, mIsOpen
  <2>2. \/ FailOpen("kInternalError")
        \/ Goto("loadIndexes", call) /\ indexesToDo' = X /\ UNCHANGED object
    BY <1>5 DEF OpenIndexTable, X
  <2>3. X' = X
    BY <2>1, SameRows
  <2>4. ASSUME Goto("loadIndexes", call), indexesToDo' = X, UNCHANGED object PROVE NotDangling'
    BY <2>1, <2>3, <2>4 DEF NotDangling
  <2> QED BY <1>2, <2>1, <2>2, <2>4
<1>6. CASE OpenDone
  <2>1. T' = T /\ X' = X /\ pc = "loadIndexes" /\ pc' = "idle" /\ indexesToDo = {}
    BY <1>6, SameRows DEF OpenDone, Return, disk
  <2> QED BY <1>0, <2>1 DEF NotDangling
<1>7. ASSUME NEW t \in AnyTable, LoadTable(t) PROVE NotDangling'
  <2>1. pc = "loadTables" /\ ~mIsOpen /\ object = "opening"
    BY <1>0, <1>7 DEF LoadTable, mIsOpen
  <2>2. FailOpen("kInternalError") \/ UNCHANGED <<pc, object>>
    BY <1>7 DEF LoadTable
  <2> QED BY <1>1, <1>2, <2>1, <2>2
<1>8. ASSUME NEW i \in IndexName, NEW t \in AnyTable, LoadIndex(i, t) PROVE NotDangling'
  <2>1. /\ pc = "loadIndexes" /\ ~mIsOpen /\ object = "opening" /\ T' = T /\ X' = X
        /\ mTableCatalog = T /\ closed = {}
    BY <1>0, <1>8, SameRows
       DEF LoadIndex, mIsOpen, disk, PromiseInv, Inv, CatInv, LoadingIndexes
  <2>2. \/ \E status : FailOpen(status)
        \/ /\ t \in mTableCatalog /\ indexesToDo' = indexesToDo \ {<<i, t>>}
           /\ UNCHANGED <<object, pc>>
    BY <1>8, <2>1 DEF LoadIndex
  <2>3. ASSUME t \in mTableCatalog, indexesToDo' = indexesToDo \ {<<i, t>>},
               UNCHANGED <<object, pc>>
        PROVE  NotDangling'
    BY <1>0, <2>1, <2>3 DEF NotDangling
  <2> QED BY <1>2, <2>1, <2>2, <2>3
<1> QED BY <1>3, <1>4, <1>5, <1>6, <1>7, <1>8

(* A statement that leaves the rows alone and drops no table.              *)
LEMMA RowsAloneNotDangling ==
    ASSUME PromiseInv, Whole, UNCHANGED <<PD_Table, PD_Index, object>>, pc' # "loadIndexes",
           object = "open", \A t \in AnyTable : Dropping(t) => Dropping(t)'
    PROVE  NotDangling'
<1>1. T' = T /\ X' = X
  BY SameRows
<1>2. \A x \in X : x[2] \in AnyTable
  BY RowFacts DEF PromiseInv, Inv, AnyIndex
<1> QED BY <1>1, <1>2 DEF PromiseInv, NotDangling, Whole

LEMMA CreateNotDangling ==
    ASSUME PromiseInv, Whole,
           \/ \E t \in AnyTable : CreateTable(t)
           \/ \E i \in IndexName, t \in AnyTable : CreateIndex(i, t)
    PROVE  NotDangling'
<1>1. Ready /\ UNCHANGED <<PD_Table, PD_Index, object>>
      /\ pc' \in {"idle", "insertTableRow", "insertIndexRow", "undefined"}
  BY DEF CreateTable, CreateIndex, Refuse, Return, Goto, UseClosedHandle, disk
<1>2. object = "open" /\ pc = "idle"
  BY <1>1, OpenAtRest DEF PromiseInv
<1> QED BY <1>1, <1>2, RowsAloneNotDangling DEF Dropping

LEMMA InsertNotDangling ==
    ASSUME PromiseInv, Whole, InsertTableRow \/ InsertIndexRow
    PROVE  NotDangling'
<1>0. PD_Table \in [AnyTable -> Nat] /\ PD_Index \in [AnyIndex -> Nat]
  BY RowFacts DEF PromiseInv, Inv
<1>1. /\ object = "open" /\ object' = "open" /\ pc \in {"insertTableRow", "insertIndexRow"}
      /\ pc' = "idle" /\ \A x \in X : x[2] \in T
  BY DEF InsertTableRow, InsertIndexRow, Return, PromiseInv, NotDangling, Dropping, Inv, CatInv,
     Phase, TypeInv, TypeOK, ObjectTypeOK, ObjectState, Whole
<1>2. CASE InsertTableRow
  <2>1. PD_Index' = PD_Index /\ DOMAIN PD_Table' = DOMAIN PD_Table
        /\ \A n \in AnyTable : PD_Table[n] > 0 => PD_Table'[n] > 0
    BY <1>0, <1>2 DEF InsertTableRow
  <2>2. X' = X /\ T \subseteq T'
    BY <1>0, <2>1 DEF X, T, Rows, System
  <2> QED BY <1>1, <2>2 DEF NotDangling
<1>3. CASE InsertIndexRow
  <2>1. /\ PD_Table' = PD_Table /\ ThisIndex[2] = call.table
        /\ UNCHANGED PD_Index \/ PD_Index' = [PD_Index EXCEPT ![ThisIndex] = @ + 1]
    BY <1>3 DEF InsertIndexRow, ThisIndex
  <2>2. T' = T /\ X' \subseteq X \cup {ThisIndex}
    BY <1>0, <2>1 DEF X, T, Rows, System
  <2>3. call.table \in T
    <3>1. pc = "insertIndexRow" /\ call.table \in mTableCatalog
      BY <1>3 DEF InsertIndexRow, PromiseInv, Inv, CatInv, Inserting
    <3> QED BY <1>1, <3>1, OpenIsWhole DEF PromiseInv, Whole
  <2> QED BY <1>1, <2>1, <2>2, <2>3 DEF NotDangling
<1> QED BY <1>2, <1>3

LEMMA DropNotDangling ==
    ASSUME PromiseInv, Whole, Faults \subseteq QuietFaults, NEW t \in AnyTable,
           NEW out \in ScanOutcome,
           \/ DropTable(t, out)
           \/ \E i \in IndexName : DropIndex(i, t, out) \/ DropNextIndex(i, t, out)
    PROVE  NotDangling'
<1>1. ASSUME NEW i \in IndexName, DropIndex(i, t, out) PROVE NotDangling'
  <2>0. /\ Ready /\ pc' \in {"idle", "dropIndexPhys"} /\ UNCHANGED object
        /\ UNCHANGED <<PD_Table, PD_Index>> \/ RemoveIndexRow(i, t, out)
    BY <1>1 DEF DropIndex, Refuse, Return, Goto, disk, RemoveIndexRow
  <2>1. object = "open" /\ pc = "idle"
    BY <2>0, OpenAtRest DEF PromiseInv
  <2>2. T' = T /\ X' \subseteq X
    BY <2>0, RowRemoved, SameRows DEF PromiseInv, X
  <2> QED BY <2>0, <2>1, <2>2 DEF PromiseInv, NotDangling, Dropping, Whole
<1>2. ASSUME NEW i \in IndexName, DropNextIndex(i, t, out) PROVE NotDangling'
  <2>1. /\ pc = "dropIndexes" /\ call.op = "DropTable" /\ call.table = t
        /\ Goto("dropIndexPhys", [call EXCEPT !.index = i])
        /\ X' = X \ {<<i, t>>} /\ T' = T /\ object = "open"
    BY <1>2, NextIndexHasRow
  <2>2. call \in CallType
    BY DEF PromiseInv, Inv, TypeInv, TypeOK, CallTypeOK, CallType
  <2>3. call'.op = "DropTable" /\ call'.table = t /\ pc' = "dropIndexPhys"
    BY <2>1, <2>2 DEF Goto, CallType
  <2> QED BY <2>1, <2>3 DEF PromiseInv, NotDangling, Dropping, Whole
<1>3. CASE DropTable(t, out)
  <2>0. Ready /\ UNCHANGED <<PD_Index, object>> /\ pc' \in {"idle", "dropIndexes"}
    BY <1>3 DEF DropTable, Refuse, Return, Goto, disk
  <2>1. object = "open" /\ pc = "idle" /\ X' = X
    BY <2>0, OpenAtRest DEF PromiseInv, X, Rows
  <2>2. \A x \in X : x[2] \in T
    BY <2>1 DEF PromiseInv, NotDangling, Dropping, Whole
  <2>3. CASE UNCHANGED PD_Table
    BY <2>0, <2>1, <2>2, <2>3, SameRows DEF NotDangling
  <2>4. CASE /\ PD_Table' = [PD_Table EXCEPT ![t] = @ - 1]
             /\ Goto("dropIndexes", Call("DropTable", t, NoName))
    <3>1. T \subseteq T' \cup {t}
      BY <2>4, RowFacts DEF T, Rows, System, PromiseInv, Inv
    <3>2. Dropping(t)'
      BY <2>4 DEF Dropping, Goto, Call
    <3> QED BY <2>0, <2>1, <2>2, <3>1, <3>2 DEF NotDangling
  <2>5. RemoveRow(kSchemaTableName, out, PD_Table[t]) =>
            out \in {"removed", "refused", "notFound"}
    BY DEF RemoveRow, Fails, QuietFaults
  <2> QED BY <1>3, <2>3, <2>4, <2>5 DEF DropTable, Refuse, disk, GoesOn
<1> QED BY <1>1, <1>2, <1>3

LEMMA DropPhysNotDangling ==
    ASSUME PromiseInv, Whole, Faults \cap {"put", "dbremove"} = {},
           DropIndexPhys \/ DropTablePhys
    PROVE  NotDangling'
<1>0. /\ object = "open" /\ UNCHANGED <<PD_Table, PD_Index, object>> /\ call \in CallType
      /\ pc \in {"dropIndexes", "dropIndexPhys"}
  BY DEF DropIndexPhys, DropTablePhys, PromiseInv, Inv, CatInv, Phase, TypeInv, TypeOK,
     ObjectTypeOK, ObjectState, CallTypeOK, CallType
<1>1. CASE DropIndexPhys
  <2>1. ThisIndex \notin closedIndex /\ FullName(ThisIndex) \in phys
    BY <1>1 DEF DropIndexPhys, PromiseInv, Inv, CatInv, DroppingIndex
  <2>2. IF call.op = "DropTable"
        THEN Goto("dropIndexes", [call EXCEPT !.index = NoName])
        ELSE pc' = "idle"
    BY <1>1, <2>1 DEF DropIndexPhys, Fails, ThisIndex, FullName
  <2>3. \A t \in AnyTable : Dropping(t) => Dropping(t)'
    BY <1>0, <2>2 DEF Dropping, Goto, CallType
  <2>4. pc' # "loadIndexes"
    BY <2>2 DEF Goto
  <2> QED BY <1>0, <2>3, <2>4, RowsAloneNotDangling
<1>2. CASE DropTablePhys
  <2>1. /\ pc = "dropIndexes" /\ call.op = "DropTable" /\ call.table \in AnyTable
        /\ pc' \in {"idle", "undefined"} /\ indexesToDo = {}
    BY <1>2 DEF DropTablePhys, Return, UseClosedHandle, Goto, PromiseInv, Inv, DropOK, TypeInv,
       CallOK
  <2>2. \A x \in mIndexCatalog : x[2] # call.table
    BY <2>1 DEF PromiseInv, Inv, CatInv, DroppingTable, Dropping, IndexesOf
  <2>3. \A x \in X : x[2] # call.table
    BY <1>0, <2>2, OpenIsWhole DEF PromiseInv, Whole
  <2>4. \A x \in X : x[2] \in T
    BY <1>0, <2>3 DEF PromiseInv, NotDangling, Dropping, Whole
  <2>5. T' = T /\ X' = X
    BY <1>0, SameRows
  <2> QED BY <2>1, <2>4, <2>5 DEF NotDangling
<1> QED BY <1>1, <1>2

LEMMA NotDanglingKept ==
    ASSUME PromiseInv, Faults \subseteq {"open", "associate"}, [Next]_vars
    PROVE  NotDangling'
<1>1. Faults \subseteq QuietFaults /\ Faults \cap {"put", "dbremove"} = {}
  BY DEF QuietFaults
<1>2. CASE UNCHANGED vars
  <2>1. T' = T /\ X' = X /\ UNCHANGED <<object, pc, call, indexesToDo, refused>>
    BY <1>2, SameRows DEF vars, disk, toDo
  <2> QED BY <2>1 DEF PromiseInv, NotDangling, Dropping
<1>3. CASE Crash \/ NewDB
  BY <1>3 DEF Crash, NewDB, FreshObject, Return, NotDangling
<1>4. CASE refused' # {}
  <2>1. Phase'
    BY <1>1, CatStep DEF PromiseInv, CatInv
  <2> QED BY <1>4, <2>1 DEF Phase, NotDangling
<1>5. CASE Begin /\ ~Crash /\ ~NewDB /\ refused' = {}
  <2>1. Whole
    BY <1>5, StaysWhole
  <2> QED BY <1>1, <1>5, <2>1, OpeningNotDangling, CreateNotDangling, DropNotDangling DEF Begin
<1>6. CASE Continue /\ ~Crash /\ ~NewDB /\ refused' = {}
  <2>1. Whole
    BY <1>6, StaysWhole
  <2> QED BY <1>1, <1>6, <2>1, OpeningNotDangling, LoadNeverEndsEarly, InsertNotDangling,
             DropNotDangling, DropPhysNotDangling DEF Continue
<1> QED BY <1>2, <1>3, <1>4, <1>5, <1>6 DEF Next

LEMMA PromiseInvCorrect ==
    ASSUME Faults \subseteq {"open", "associate"}
    PROVE  Spec => []PromiseInv
<1>1. Faults \subseteq QuietFaults
  BY DEF QuietFaults
<1>2. Init => Answering /\ NotDangling
  BY DEF Init, Answering, NotDangling
<1>3. Spec => []Inv
  BY <1>1, InvCorrect
<1>4. Inv /\ Answering /\ NotDangling /\ [Next]_vars => (Answering /\ NotDangling)'
  BY AnsweringKept, NotDanglingKept DEF PromiseInv
<1> QED BY <1>2, <1>3, <1>4, PTL DEF Spec, PromiseInv

(* The schema statements keep the promise of Schema.tla over deaths of the *)
(* process and failures to open a database or associate an index: a call   *)
(* takes effect at one moment or not at all, kOK is answered exactly when  *)
(* it did, a table leaves with its indexes, and a death undoes nothing.    *)
(* That ends when an index of a schema table refuses a row, and begins     *)
(* anew with the next object, whatever the refusal left half done.         *)
THEOREM SchemaAlwaysImplemented ==
    ASSUME Faults \subseteq {"open", "associate"}
    PROVE  Spec => ImplementsSchema
<1>1. Init => Promise!Init
  <2> SUFFICES ASSUME Init PROVE Promise!Init
    OBVIOUS
  <2>1. Rows(PD_Table) = {} /\ Rows(PD_Index) = {}
    BY DEF Init, Rows
  <2> QED BY <2>1 DEF Init, Promise!Init, NoCall
<1>2. PromiseInv /\ [Next]_vars => [Promise!Next]_(Promise!svars)
  BY StepPromised
<1> QED BY <1>1, <1>2, PromiseInvCorrect, PTL DEF Spec, ImplementsSchema, Promise!Spec

(* Where no call fails, an Open that comes to its end answers kOK exactly  *)
(* when every index row has its table.                                     *)
THEOREM OpenAlwaysAnswers ==
    ASSUME Faults = {}
    PROVE  Spec => OpenAnswers
<1> DEFINE A == /\ pc \in {"loadTables", "loadIndexes"}
                /\ pc' = "idle"
                /\ crashes' = crashes
                => (result' = "kOK" <=> Dangling = {})
<1>1. ASSUME PromiseInv, Next, pc \in {"loadTables", "loadIndexes"}, pc' = "idle",
             crashes' = crashes
      PROVE  result' = "kOK" <=> Dangling = {}
  <2>0. ~Begin /\ ~Crash
    <3>1. crashes \in Nat
      BY <1>1 DEF PromiseInv, Inv, TypeInv, TypeOK, HistoryTypeOK
    <3>2. ~Crash
      BY <1>1, <3>1 DEF Crash
    <3>3. ~Begin
      BY <1>1 DEF Begin, OpenRefused, Open, CreateTable, CreateIndex, DropTable, DropIndex, Close,
         NewDB, Ready
    <3> QED BY <3>2, <3>3
  <2>1. \A kind : ~Fails(kind)
    BY DEF Fails
  <2>2. \A x \in X : x \in AnyIndex /\ FullName(x) \in phys
    BY <1>1, RowFacts DEF PromiseInv, Inv, RowInv, IndexRowsOwn
  <2>3. ASSUME NEW t \in AnyTable, LoadTable(t) PROVE FALSE
    <3>1. pc = "loadTables" /\ t \in tablesToDo /\ t \notin phys
      BY <1>1, <2>1, <2>3 DEF LoadTable
    <3>2. PD_Table[t] > 0
      BY <1>1, <3>1, RowFacts DEF PromiseInv, Inv, CatInv, LoadingTables
    <3> QED BY <1>1, <3>1, <3>2 DEF PromiseInv, Inv, RowInv, TableRowsOwn
  <2>4. ~LoadEndsEarly /\ ~OpenIndexTable
    BY <1>1, <2>1 DEF LoadEndsEarly, OpenIndexTable, Goto
  <2>5. ASSUME NEW i \in IndexName, NEW t \in AnyTable, LoadIndex(i, t)
        PROVE  result' # "kOK" /\ Dangling # {}
    <3>1. pc = "loadIndexes" /\ <<i, t>> \in indexesToDo
      BY <2>5 DEF LoadIndex
    <3>2. <<i, t>> \in X /\ mTableCatalog = T /\ closed = {}
      BY <1>1, <3>1 DEF PromiseInv, Inv, CatInv, LoadingIndexes
    <3>3. GetFullIndexName(i, t) \in phys
      BY <2>2, <3>2 DEF FullName
    <3>4. t \notin T /\ \E status \in {"kColumnMissing", "kTableMissing"} : FailOpen(status)
      BY <1>1, <2>1, <2>5, <3>1, <3>2, <3>3 DEF LoadIndex, PrepareFails
    <3> QED BY <3>2, <3>4 DEF FailOpen, Return, Dangling, X, T
  <2>6. CASE OpenDone
    <3>1. pc = "loadIndexes" /\ indexesToDo = {} /\ result' = "kOK"
      BY <2>6 DEF OpenDone, Return
    <3>2. \A x \in X : x[2] \in T
      BY <1>1, <3>1 DEF PromiseInv, NotDangling
    <3> QED BY <3>1, <3>2 DEF Dangling, X, T
  <2>7. ~InsertTableRow /\ ~InsertIndexRow /\ ~DropIndexPhys /\ ~DropTablePhys
        /\ \A i \in IndexName, t \in AnyTable, out \in ScanOutcome : ~DropNextIndex(i, t, out)
    BY <1>1 DEF InsertTableRow, InsertIndexRow, DropIndexPhys, DropTablePhys, DropNextIndex
  <2> QED BY <1>1, <2>0, <2>3, <2>4, <2>5, <2>6, <2>7 DEF Next, Continue
<1>2. PromiseInv /\ [Next]_vars => [A]_vars
  BY <1>1
<1>3. Spec => []PromiseInv
  BY PromiseInvCorrect
<1> QED BY <1>2, <1>3, PTL DEF Spec, OpenAnswers

(***************************************************************************)
(* The assertions                                                          *)
(***************************************************************************)

(* What an Open leaves that fails has PD_Table, so that the next Open on   *)
(* the same object fails its first assertion; an Open whose first one held *)
(* began with empty catalogs.                                              *)
Afresh ==
    /\ object = "new" /\ mTableCatalog \cup mIndexCatalog # {} =>
           kSchemaTableName \in mTableCatalog
    /\ "TableCatalog:36" \notin failedAsserts =>
           /\ pc = "loadTables" =>
                  /\ mTableCatalog \subseteq {kSchemaTableName} \cup Rows(PD_Table)
                  /\ mTableCatalog \cap tablesToDo = {}
                  /\ mIndexCatalog = {}
           /\ pc = "loadIndexes" => mIndexCatalog \cap indexesToDo = {}

LEMMA AfreshKept ==
    ASSUME Inv, Afresh, Faults \subseteq QuietFaults, [Next]_vars
    PROVE  Afresh'
<1>0. /\ object = "opening" <=> pc \in {"loadTables", "loadIndexes"}
      /\ Phase /\ LoadingTables /\ LoadingIndexes /\ object \in ObjectState
  BY DEF Inv, CatInv, Phase, TypeInv, TypeOK, ObjectTypeOK
<1>1. CASE object' # "new" /\ pc' \notin {"loadTables", "loadIndexes"}
  BY <1>1 DEF Afresh
<1>2. CASE pc' \notin {"loadTables", "loadIndexes"} /\ mTableCatalog' \cup mIndexCatalog' = {}
  BY <1>2 DEF Afresh
<1>3. ASSUME NEW status, FailOpen(status), ~mIsOpen, pc \in {"idle", "loadTables", "loadIndexes"}
      PROVE  Afresh'
  <2>1. pc' = "idle" /\ UNCHANGED <<mTableCatalog, mIndexCatalog>>
    BY <1>3 DEF FailOpen, CloseEnvironment, Return
  <2>2. mTableCatalog \cup mIndexCatalog # {} => kSchemaTableName \in mTableCatalog
    BY <1>0, <1>3 DEF Afresh, LoadingTables, LoadingIndexes, T, System, mIsOpen, ObjectState
  <2> QED BY <2>1, <2>2 DEF Afresh
<1>4. CASE Crash \/ NewDB
  BY <1>2, <1>4 DEF Crash, NewDB, FreshObject, Return
<1>5. CASE Open
  <2>1. pc = "idle" /\ object = "new" /\ ~mIsOpen
    BY <1>0, <1>5 DEF Open, mIsOpen, ObjectState
  <2>2. CASE FailOpen("kInternalError")
    BY <1>3, <2>1, <2>2
  <2>3. CASE /\ AddTable(kSchemaTableName)
             /\ failedAsserts' =
                    failedAsserts \cup Broken(~mpBackend, "DBImpl:145")
                        \cup Broken(kSchemaTableName \notin mTableCatalog, "TableCatalog:36")
             /\ Goto("loadTables", Call("Open", NoName, NoName))
             /\ object' = "opening" /\ tablesToDo' = Rows(PD_Table) /\ UNCHANGED PD_Table
    <3>1. Rows(PD_Table)' = Rows(PD_Table) /\ kSchemaTableName \notin Rows(PD_Table)
      BY <2>3, RowFacts DEF Rows, Inv, CatInv, NoSystemRows, System
    <3>2. ASSUME "TableCatalog:36" \notin failedAsserts'
          PROVE  mTableCatalog = {} /\ mIndexCatalog = {}
      BY <2>1, <2>3, <3>2 DEF Afresh, Broken
    <3> QED BY <2>3, <3>1, <3>2 DEF Afresh, AddTable, Goto
  <2> QED BY <1>5, <2>2, <2>3 DEF Open
<1>6. ASSUME NEW t \in AnyTable, LoadTable(t) PROVE Afresh'
  <2>1. pc = "loadTables" /\ t \in tablesToDo /\ ~mIsOpen /\ UNCHANGED PD_Table
    BY <1>0, <1>6 DEF LoadTable, mIsOpen, disk
  <2>2. CASE FailOpen("kInternalError")
    BY <1>3, <2>1, <2>2
  <2>3. CASE /\ AddTable(t) /\ tablesToDo' = tablesToDo \ {t} /\ UNCHANGED <<object, pc>>
             /\ failedAsserts \subseteq failedAsserts'
    <3>1. Rows(PD_Table)' = Rows(PD_Table) /\ t \in Rows(PD_Table)
      BY <1>0, <2>1 DEF Rows, LoadingTables
    <3> QED BY <1>0, <2>1, <2>3, <3>1 DEF Afresh, AddTable
  <2> QED BY <1>6, <2>2, <2>3 DEF LoadTable, AssertThat
<1>7. CASE OpenIndexTable
  <2>1. pc = "loadTables" /\ ~mIsOpen
    BY <1>0, <1>7 DEF OpenIndexTable, mIsOpen
  <2>2. CASE FailOpen("kInternalError")
    BY <1>3, <2>1, <2>2
  <2>3. CASE /\ AddTable(kSchemaIndexName) /\ Goto("loadIndexes", call) /\ UNCHANGED object
             /\ failedAsserts \subseteq failedAsserts'
    BY <1>0, <2>1, <2>3 DEF Afresh, AddTable, Goto
  <2> QED BY <1>7, <2>2, <2>3 DEF OpenIndexTable, AssertThat
<1>8. ASSUME NEW i \in IndexName, NEW t \in AnyTable, LoadIndex(i, t) PROVE Afresh'
  <2>1. pc = "loadIndexes" /\ ~mIsOpen /\ closed = {}
    BY <1>0, <1>8 DEF LoadIndex, mIsOpen, LoadingIndexes
  <2>2. ASSUME NEW status, FailOpen(status) PROVE Afresh'
    BY <1>3, <2>1, <2>2
  <2>3. CASE /\ AddIndex(<<i, t>>) /\ indexesToDo' = indexesToDo \ {<<i, t>>}
             /\ UNCHANGED <<object, pc>> /\ failedAsserts \subseteq failedAsserts'
    BY <1>0, <2>1, <2>3 DEF Afresh, AddIndex
  <2> QED BY <1>8, <2>1, <2>2, <2>3 DEF LoadIndex, AssertThat
<1>9. CASE UNCHANGED vars
  BY <1>9, SameRows DEF vars, disk, catalogs, toDo, Afresh
<1>10. CASE OpenRefused \/ Close \/ OpenDone
  BY <1>1, <1>10
     DEF OpenRefused, Close, OpenDone, Return, CloseEnvironment, Ready, mIsOpen, mpBackend
<1>11. CASE \/ \E t \in AnyTable : CreateTable(t)
            \/ \E i \in IndexName, t \in AnyTable : CreateIndex(i, t)
            \/ \E t \in AnyTable, out \in ScanOutcome : DropTable(t, out)
            \/ \E i \in IndexName, t \in AnyTable, out \in ScanOutcome : DropIndex(i, t, out)
  <2> DEFINE Stays == Ready /\ UNCHANGED object /\ pc' \notin {"loadTables", "loadIndexes"}
  <2>1. \A t \in AnyTable : CreateTable(t) => Stays
    BY DEF CreateTable, Refuse, Return, Goto
  <2>2. \A i \in IndexName, t \in AnyTable : CreateIndex(i, t) => Stays
    BY DEF CreateIndex, Refuse, Return, Goto, UseClosedHandle
  <2>3. \A t \in AnyTable, out \in ScanOutcome : DropTable(t, out) => Stays
    BY DEF DropTable, Refuse, Return, Goto
  <2>4. \A i \in IndexName, t \in AnyTable, out \in ScanOutcome : DropIndex(i, t, out) => Stays
    BY DEF DropIndex, RemoveIndexRow, Refuse, Return, Goto
  <2>5. Stays
    BY <1>11, <2>1, <2>2, <2>3, <2>4
  <2> QED BY <1>1, <2>5 DEF Ready, mIsOpen
<1>12. CASE \/ InsertTableRow \/ InsertIndexRow \/ DropIndexPhys \/ DropTablePhys
            \/ \E i \in IndexName, t \in AnyTable, out \in ScanOutcome : DropNextIndex(i, t, out)
  <2>1. pc \in {"insertTableRow", "insertIndexRow", "dropIndexes", "dropIndexPhys"}
        /\ UNCHANGED object /\ pc' \notin {"loadTables", "loadIndexes"}
    BY <1>12 DEF InsertTableRow, InsertIndexRow, DropIndexPhys, DropTablePhys, DropNextIndex,
       RemoveIndexRow, Return, Goto, UseClosedHandle
  <2> QED BY <1>0, <1>1, <2>1 DEF Phase
<1> QED BY <1>4, <1>5, <1>6, <1>7, <1>8, <1>9, <1>10, <1>11, <1>12, LoadNeverEndsEarly
        DEF Next, Begin, Continue

(* Every entry of an open database stands for a physical database of its   *)
(* own, with its row or without.                                           *)
EntriesOwn ==
    object = "open" =>
        /\ mTableCatalog \ System \subseteq phys
        /\ \A x \in mIndexCatalog :
               FullName(x) \in phys \ (mTableCatalog \ System)
        /\ \A x, y \in mIndexCatalog : FullName(x) = FullName(y) => x = y

LEMMA EntriesOwnKept ==
    ASSUME Inv, EntriesOwn, Faults \subseteq QuietFaults, [Next]_vars
    PROVE  EntriesOwn'
<1>1. CASE object' # "open"
  BY <1>1 DEF EntriesOwn
<1>2. CASE UNCHANGED <<phys, object, mTableCatalog, mIndexCatalog>>
  BY <1>2 DEF EntriesOwn
<1>3. CASE OpenDone
  <2>1. /\ mTableCatalog' = T /\ mIndexCatalog' = X /\ phys' = phys
        /\ T \ System \subseteq Rows(PD_Table)
    BY <1>3 DEF OpenDone, Inv, CatInv, LoadingIndexes, disk, catalogs, T
  <2>2. /\ \A t \in Rows(PD_Table) : t \in phys
        /\ \A x \in X : FullName(x) \in phys /\ FullName(x) \notin Rows(PD_Table)
        /\ \A x, y \in X : FullName(x) = FullName(y) => x = y
    BY RowFacts DEF Inv, RowInv, TableRowsOwn, IndexRowsOwn, IndexRowsApart, RowsApart
  <2> QED BY <2>1, <2>2 DEF EntriesOwn
<1>4. ASSUME NEW t \in AnyTable, CreateTable(t) PROVE EntriesOwn'
  <2>1. object = "open"
    BY <1>4, OpenAtRest DEF CreateTable
  <2>2. CASE \E c, status : Refuse(c, status)
    BY <1>2, <2>2 DEF Refuse, disk, catalogs
  <2>3. CASE t \notin phys /\ phys' = phys \cup {t} /\ AddTable(t)
    BY <2>1, <2>3 DEF AddTable, EntriesOwn
  <2> QED BY <1>4, <2>2, <2>3 DEF CreateTable, Exclusive
<1>5. ASSUME NEW i \in IndexName, NEW t \in AnyTable, CreateIndex(i, t) PROVE EntriesOwn'
  <2>1. object = "open"
    BY <1>5, OpenAtRest DEF CreateIndex
  <2>2. CASE \E c, status : Refuse(c, status)
    BY <1>2, <2>2 DEF Refuse, disk, catalogs
  <2>3. CASE /\ FullName(<<i, t>>) \notin phys /\ phys' = phys \cup {FullName(<<i, t>>)}
             /\ UNCHANGED object /\ (AddIndex(<<i, t>>) \/ UNCHANGED catalogs)
    BY <2>1, <2>3 DEF AddIndex, EntriesOwn, catalogs
  <2> QED BY <1>5, <2>2, <2>3 DEF CreateIndex, Exclusive, FullName
<1>6. CASE DropIndexPhys
  <2>1. ThisIndex \in mIndexCatalog
    BY <1>6 DEF DropIndexPhys, Inv, CatInv, DroppingIndex
  <2>2. /\ UNCHANGED <<mTableCatalog, object>>
        /\ \/ UNCHANGED <<phys, mIndexCatalog>>
           \/ /\ phys' = phys \ {FullName(ThisIndex)}
              /\ mIndexCatalog' = mIndexCatalog \ {ThisIndex}
    BY <1>6 DEF DropIndexPhys, Dbremove, FullName, ThisIndex
  <2> QED BY <1>2, <2>1, <2>2 DEF EntriesOwn
<1>7. CASE DropTablePhys
  <2>1. call.table \notin System
    BY <1>7 DEF DropTablePhys, Inv, CatInv, DroppingTable, Dropping, DropOK, TypeInv, CallOK
  <2>2. call.table \in mTableCatalog
    BY <1>7 DEF DropTablePhys, Inv, CatInv, DroppingTable, Dropping, DropOK, TypeInv, CallOK
  <2>3. /\ UNCHANGED <<mIndexCatalog, object>>
        /\ \/ UNCHANGED <<phys, mTableCatalog>>
           \/ /\ phys' = phys \ {call.table}
              /\ mTableCatalog' = mTableCatalog \ {call.table}
    BY <1>7 DEF DropTablePhys, Dbremove
  <2> QED BY <1>2, <2>1, <2>2, <2>3 DEF EntriesOwn
<1>8. CASE UNCHANGED vars
  BY <1>2, <1>8 DEF vars, disk, catalogs
<1>9. CASE InsertTableRow \/ InsertIndexRow
  BY <1>2, <1>9 DEF InsertTableRow, InsertIndexRow, catalogs
<1>10. ASSUME NEW t \in AnyTable, NEW out \in ScanOutcome,
              \/ DropTable(t, out)
              \/ \E i \in IndexName : DropIndex(i, t, out) \/ DropNextIndex(i, t, out)
       PROVE  EntriesOwn'
  BY <1>2, <1>10 DEF DropTable, DropIndex, DropNextIndex, RemoveIndexRow, Refuse, disk, catalogs
<1>11. CASE Open \/ OpenIndexTable \/ Close \/ NewDB \/ Crash
            \/ (\E t \in AnyTable : LoadTable(t))
            \/ (\E i \in IndexName, t \in AnyTable : LoadIndex(i, t))
  <2>1. object \in ObjectState /\ Phase
    BY DEF Inv, CatInv, TypeInv, TypeOK, ObjectTypeOK
  <2>2. object' # "open"
    BY <1>11, <2>1 DEF Open, OpenIndexTable, Close, NewDB, Crash, LoadTable, LoadIndex, FailOpen,
       CloseEnvironment, FreshObject, Phase, ObjectState, mIsOpen
  <2> QED BY <1>1, <2>2
<1>12. CASE OpenRefused
  BY <1>2, <1>12 DEF OpenRefused, disk, catalogs
<1> QED
  BY <1>3, <1>4, <1>5, <1>6, <1>7, <1>8, <1>9, <1>10, <1>11, <1>12, LoadNeverEndsEarly
     DEF Next, Begin, Continue

(* The caller that an index of a schema table makes.                       *)
MetRefusal ==
    /\ call'.op \in {"DropTable", "DropIndex"}
    /\ failedAsserts' \ failedAsserts \subseteq {"DBImpl:346", "DBImpl:497"}
    /\ \/ refused # {}
       \/ Indexed(kSchemaTableName)
       \/ Indexed(kSchemaIndexName)

(* The row of an index of the catalog is found, and removed, unless a row  *)
(* was refused, now or earlier.                                            *)
LEMMA IndexRowThere ==
    ASSUME Inv, Excused = refused, Faults \subseteq QuietFaults, object = "open",
           pc \in {"idle", "dropIndexes"}, NEW i \in IndexName, NEW t \in AnyTable,
           <<i, t>> \in mIndexCatalog, NEW out \in ScanOutcome, RemoveIndexRow(i, t, out),
           failedAsserts' # failedAsserts, call'.op \in {"DropTable", "DropIndex"}
    PROVE  MetRefusal
<1>1. failedAsserts' = failedAsserts \cup Broken(out \notin {"refused", "notFound", "cursor"},
                                               "DBImpl:497")
  BY DEF RemoveIndexRow, AssertFound, AssertThat
<1>2. out # "removed" /\ failedAsserts' \ failedAsserts \subseteq {"DBImpl:497"}
  BY <1>1 DEF Broken
<1>3. <<i, t>> \notin X => FullName(<<i, t>>) \in refused
  BY DEF Inv, CatInv, OpenIndexes
<1>4. refused # {} \/ Indexed(kSchemaIndexName)
  BY <1>2, <1>3, RowRemoved
<1> QED BY <1>2, <1>4 DEF MetRefusal

LEMMA AssertsStep ==
    ASSUME Inv, Afresh, EntriesOwn, Faults \subseteq {"open", "associate"}, Next,
           failedAsserts' # failedAsserts
    PROVE  \/ pc' = "idle" /\ call'.op = "DropTable" /\ call'.table \in System
           \/ /\ call'.op = "Open"
              /\ IF pc = "idle" THEN mTableCatalog # {}
                                ELSE "TableCatalog:36" \in failedAsserts
           \/ MetRefusal
<1>0. /\ Faults \subseteq QuietFaults /\ Excused = refused /\ object \in ObjectState
      /\ Phase /\ NoSystemRows /\ LoadingTables /\ LoadingIndexes /\ OpenTables /\ OpenIndexes
  BY DEF QuietFaults, Excused, Failed, Inv, CatInv, TypeInv, TypeOK, ObjectTypeOK
<1>1. Ready => pc = "idle" /\ object = "open"
  BY OpenAtRest
<1>2. ASSUME Open PROVE call'.op = "Open" /\ pc = "idle" /\ mTableCatalog # {}
  <2>1. pc = "idle" /\ object = "new" /\ ~mpBackend
    BY <1>0, <1>2 DEF Open, mIsOpen, mpBackend, Phase, ObjectState
  <2>2. FailOpen("kInternalError") => UNCHANGED failedAsserts
    BY <1>2, <2>1 DEF Open, AssertThat, Broken, Goto, FailOpen, Return
  <2>3. /\ Goto("loadTables", Call("Open", NoName, NoName))
        /\ failedAsserts' =
               failedAsserts \cup Broken(~mpBackend, "DBImpl:145")
                   \cup Broken(kSchemaTableName \notin mTableCatalog, "TableCatalog:36")
    BY <1>2, <2>2 DEF Open
  <2> QED BY <2>1, <2>3 DEF Broken, Goto, Call
<1>3. ASSUME NEW t \in AnyTable, LoadTable(t)
      PROVE  call'.op = "Open" /\ pc # "idle" /\ "TableCatalog:36" \in failedAsserts
  <2>1. /\ pc = "loadTables" /\ t \in tablesToDo /\ call' = call
        /\ AssertThat(t \notin mTableCatalog /\ PD_Table[t] = 1, "TableCatalog:36")
    BY <1>3 DEF LoadTable
  <2>2. PD_Table[t] = 1
    BY <1>0, <2>1, RowFacts DEF LoadingTables, Inv, RowInv, TableRowsOwn
  <2>3. t \in mTableCatalog
    BY <2>1, <2>2 DEF AssertThat, Broken
  <2> QED BY <1>0, <2>1, <2>3 DEF Afresh, Phase
<1>4. CASE OpenIndexTable
  <2>1. /\ pc = "loadTables" /\ call' = call
        /\ AssertThat(kSchemaIndexName \notin mTableCatalog, "TableCatalog:36")
    BY <1>4 DEF OpenIndexTable, Goto
  <2>2. kSchemaIndexName \in mTableCatalog
    BY <2>1 DEF AssertThat, Broken
  <2>3. kSchemaIndexName \notin Rows(PD_Table) /\ kSchemaIndexName # kSchemaTableName
    BY <1>0, RowFacts, NameAssumption DEF NoSystemRows, System, Inv
  <2> QED BY <1>0, <2>1, <2>2, <2>3 DEF Afresh, Phase
<1>5. ASSUME NEW i \in IndexName, NEW t \in AnyTable, LoadIndex(i, t)
      PROVE  call'.op = "Open" /\ pc # "idle" /\ "TableCatalog:36" \in failedAsserts
  <2>1. /\ pc = "loadIndexes" /\ <<i, t>> \in indexesToDo /\ call' = call
        /\ AssertThat(<<i, t>> \notin mIndexCatalog /\ PD_Index[<<i, t>>] = 1, "IndexCatalog:75")
    BY <1>5 DEF LoadIndex
  <2>2. PD_Index[<<i, t>>] = 1
    BY <1>0, <2>1, RowFacts DEF LoadingIndexes, Inv, RowInv, IndexRowsOwn
  <2>3. <<i, t>> \in mIndexCatalog
    BY <2>1, <2>2 DEF AssertThat, Broken
  <2> QED BY <1>0, <2>1, <2>3 DEF Afresh, Phase
<1>6. ASSUME NEW i \in IndexName, NEW t \in AnyTable, CreateIndex(i, t) PROVE FALSE
  <2>1. /\ Ready /\ FullName(<<i, t>>) \notin phys
        /\ AssertThat(<<i, t>> \notin mIndexCatalog, "IndexCatalog:75")
    BY <1>6 DEF CreateIndex, Refuse, Exclusive, FullName
  <2>2. <<i, t>> \in mIndexCatalog
    BY <2>1 DEF AssertThat, Broken
  <2> QED BY <1>1, <2>1, <2>2 DEF EntriesOwn
<1>7. ASSUME NEW t \in AnyTable, NEW out \in ScanOutcome, DropTable(t, out)
      PROVE  \/ pc' = "idle" /\ call'.op = "DropTable" /\ call'.table \in System
             \/ MetRefusal
  <2>1. /\ Ready /\ t \in mTableCatalog /\ RemoveRow(kSchemaTableName, out, PD_Table[t])
        /\ AssertFound(out, "DBImpl:346")
        /\ IF GoesOn(out) THEN Goto("dropIndexes", Call("DropTable", t, NoName))
                          ELSE Return(Call("DropTable", t, NoName), "kInternalError")
    BY <1>7 DEF DropTable, Refuse
  <2>2. out # "removed" /\ failedAsserts' \ failedAsserts \subseteq {"DBImpl:346"}
    BY <2>1 DEF AssertFound, AssertThat, Broken
  <2>3. call'.op = "DropTable" /\ call'.table = t
    BY <2>1 DEF Goto, Return, Call
  <2>4. CASE out = "refused"
    BY <2>1, <2>2, <2>3, <2>4 DEF RemoveRow, MetRefusal
  <2>5. CASE out # "refused"
    <3>1. out = "notFound" /\ PD_Table[t] = 0
      BY <1>0, <2>1, <2>2, <2>5 DEF RemoveRow, Fails, QuietFaults
    <3>2. pc' = "idle"
      BY <2>1, <3>1 DEF GoesOn, Return
    <3>3. t \in System \/ t \in refused
      BY <1>0, <1>1, <2>1, <3>1, RowFacts DEF OpenTables, Dropping, T, Inv
    <3> QED BY <2>2, <2>3, <3>2, <3>3 DEF MetRefusal
  <2> QED BY <2>4, <2>5
<1>8. ASSUME NEW i \in IndexName, NEW t \in AnyTable, NEW out \in ScanOutcome,
             DropIndex(i, t, out)
      PROVE  MetRefusal
  <2>1. /\ Ready /\ <<i, t>> \in mIndexCatalog /\ RemoveIndexRow(i, t, out)
        /\ call'.op = "DropIndex"
    BY <1>8 DEF DropIndex, Refuse, Goto, Return, Call
  <2> QED BY <1>0, <1>1, <2>1, IndexRowThere
<1>9. ASSUME NEW i \in IndexName, NEW t \in AnyTable, NEW out \in ScanOutcome,
             DropNextIndex(i, t, out)
      PROVE  MetRefusal
  <2>1. /\ pc = "dropIndexes" /\ object = "open" /\ call.op = "DropTable"
        /\ call.table \in AnyTable /\ <<i, t>> \in indexesToDo /\ RemoveIndexRow(i, t, out)
    BY <1>0, <1>9 DEF DropNextIndex, Phase, ObjectState, Inv, DropOK, TypeInv, CallOK
  <2>2. <<i, t>> \in mIndexCatalog
    BY <2>1 DEF Inv, CatInv, DroppingTable, Dropping, IndexesOf
  <2>3. call'.op = "DropTable"
    <3>1. call \in CallType
      BY DEF Inv, TypeInv, TypeOK, CallTypeOK, CallType
    <3> QED BY <1>9, <2>1, <3>1 DEF DropNextIndex, Goto, Return, CallType
  <2> QED BY <1>0, <2>1, <2>2, <2>3, IndexRowThere
<1>10. ~OpenRefused /\ ~Close /\ ~NewDB /\ ~Crash /\ ~OpenDone /\ ~LoadEndsEarly
       /\ \A t \in AnyTable : ~CreateTable(t)
  BY DEF OpenRefused, Close, NewDB, Crash, OpenDone, LoadEndsEarly, CreateTable, Refuse
<1>11. OpenIndexTable => pc # "idle"
  BY DEF OpenIndexTable
<1>12. ~InsertTableRow /\ ~InsertIndexRow
  <2>1. pc \in {"insertTableRow", "insertIndexRow"} => System \subseteq mTableCatalog
    BY <1>0 DEF Phase, OpenTables, T, ObjectState
  <2> QED BY <2>1 DEF InsertTableRow, InsertIndexRow, AssertThat, Broken, System
<1>13. ~DropIndexPhys
  <2>1. pc = "dropIndexPhys" => <<call.index, call.table>> \in mIndexCatalog
    BY DEF Inv, CatInv, DroppingIndex, ThisIndex
  <2> QED BY <2>1 DEF DropIndexPhys, AssertThat, Broken
<1>14. ~DropTablePhys
  <2>1. pc = "dropIndexes" => call.table \in mTableCatalog
    BY DEF Inv, CatInv, DroppingTable, Dropping, DropOK, TypeInv, CallOK
  <2> QED BY <2>1 DEF DropTablePhys, AssertThat, Broken
<1> QED
  BY <1>2, <1>3, <1>4, <1>5, <1>6, <1>7, <1>8, <1>9, <1>10, <1>11, <1>12, <1>13, <1>14
     DEF Next, Begin, Continue

(* As long as only opening and associating fail, the assertions of the     *)
(* catalogs and of DBImpl.cpp fail for the three callers that AssertsHold  *)
(* names and for nobody else, over any number of deaths.                   *)
THEOREM AssertsAlwaysHold ==
    ASSUME Faults \subseteq {"open", "associate"}
    PROVE  Spec => AssertsHold
<1> DEFINE A == failedAsserts' # failedAsserts =>
                    \/ pc' = "idle" /\ call'.op = "DropTable" /\ call'.table \in System
                    \/ /\ call'.op = "Open"
                       /\ IF pc = "idle" THEN mTableCatalog # {}
                                         ELSE "TableCatalog:36" \in failedAsserts
                    \/ MetRefusal
<1>1. Faults \subseteq QuietFaults
  BY DEF QuietFaults
<1>2. Init => Afresh /\ EntriesOwn
  BY DEF Init, Afresh, EntriesOwn
<1>3. Inv /\ Afresh /\ EntriesOwn /\ [Next]_vars => Afresh' /\ EntriesOwn'
  BY <1>1, AfreshKept, EntriesOwnKept
<1>4. Inv /\ Afresh /\ EntriesOwn /\ [Next]_vars => [A]_vars
  BY AssertsStep
<1>5. Spec => []Inv
  BY <1>1, InvCorrect
<1> QED
  BY <1>2, <1>3, <1>4, <1>5, PTL DEF Spec, AssertsHold, MetRefusal
=============================================================================
