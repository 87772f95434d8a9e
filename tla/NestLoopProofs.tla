--------------------------- MODULE NestLoopProofs ---------------------------
(***************************************************************************)
(* Proofs about NestLoop.tla for any number of tables, rows, statements    *)
(* and failing reads, in three parts: the types and what the nodes keep of *)
(* a row; the order in which tuples come out; the promise of Select.tla.   *)
(***************************************************************************)
EXTENDS NestLoop, SequenceTheorems, TLAPS

(***************************************************************************)
(* PART 1. The invariant has two parts, the second inductive given the     *)
(* first. Control: which nodes wait for the one that runs, and which of    *)
(* the loops have an outer row. Current: what is kept of a row is the row  *)
(* under the cursors, and has passed every node below.                     *)
(***************************************************************************)

Level == node[2]

ScanReturnsRow(r) == node = Scan(r) /\ pc = "return" /\ returned
JoinReturnsRow(r) == node = Join(r) /\ pc = "return" /\ returned

(***************************************************************************)
(* Control                                                                 *)
(***************************************************************************)

SimpleTypes ==
    /\ exists \in [Rel -> BOOLEAN]
    /\ mJustReset \in [Rel -> BOOLEAN]
    /\ mInvalidCursor \in [Rel -> BOOLEAN]
    /\ position \in [Rel -> 0 .. MaxRows]
    /\ mLastError \in [Rel -> Status]
    /\ scanStatus \in [Rel -> Status]
    /\ joinStatus \in [Rel -> Status]
    /\ mNeedStepOuterNode \in [Rel -> BOOLEAN]
    /\ node \in Node
    /\ pc \in {"step", "next", "loop", "return", "end", "done"}
    /\ returned \in BOOLEAN
    /\ answer \in Status \cup {"none"}
    /\ failedAsserts \subseteq {"ScanNode:114"}
    /\ faults \in 0 .. MaxFaults
    /\ query \in Queries

RunningNode ==
    /\ Level \in 1 .. LastRel
    /\ node[1] = "join" => Level >= 2
    /\ pc = "next" => node[1] = "scan"
    /\ pc = "loop" => node[1] = "join"
    /\ pc \in {"end", "done"} => node = Root

(* The loops that have an outer row are those below the running node.      *)
LoopsUnderWay ==
    /\ \A r \in Rel : r > Level => mNeedStepOuterNode[r]
    /\ \A r \in Rel : ~mNeedStepOuterNode[r] => \A q \in 2 .. r : ~mNeedStepOuterNode[q]
    /\ node[1] = "scan" /\ Level >= 2 => ~mNeedStepOuterNode[Level]
    /\ \A r \in Rel : JoinReturnsRow(r) => ~mNeedStepOuterNode[r]

Control == SimpleTypes /\ RunningNode /\ LoopsUnderWay

(***************************************************************************)
(* Current                                                                 *)
(***************************************************************************)

Pos(j) == [q \in 1 .. j |-> position[q]]

PassedScan(q) == position[q] \in 1 .. query.size[q] /\ position[q] \in query.scan[q]

Passed(j) ==
    /\ \A q \in 1 .. j : PassedScan(q)
    /\ \A k \in 2 .. j : Pos(k) \in query.join[k]

RowTypes ==
    /\ outerRow \in [Rel -> UNION {Tuples(j) : j \in 0 .. MaxRels}]
    /\ innerRow \in [Rel -> 0 .. MaxRows]
    /\ mExprContext \in [Rel -> 0 .. MaxRows]
    /\ rows \in Seq(Tuples(LastRel))

OuterRowsPassed ==
    \A r \in 2 .. LastRel :
        ~mNeedStepOuterNode[r] => outerRow[r] = Pos(r - 1) /\ Passed(r - 1)

ScanRowPassed ==
    \A r \in 1 .. LastRel :
        ScanReturnsRow(r) =>
            /\ PassedScan(r)
            /\ r >= 2 => innerRow[r] = position[r]
            /\ r = 1 /\ LastRel >= 2 => outerRow[2] = Pos(1)

JoinRowPassed ==
    \A r \in 2 .. LastRel :
        JoinReturnsRow(r) => Passed(r) /\ (r < LastRel => outerRow[r + 1] = Pos(r))

Current ==
    /\ RowTypes
    /\ OuterRowsPassed
    /\ ScanRowPassed
    /\ JoinRowPassed
    /\ \A i \in DOMAIN rows : rows[i] \in query.selected

(***************************************************************************)
(* Proof of Control                                                        *)
(***************************************************************************)

LEMMA QueryFacts ==
    ASSUME query \in Queries
    PROVE  query \in QueryType /\ PredicatesFit(query) /\ LastRel \in Rel
BY QueryAssumption DEF QueryType, LastRel

LEMMA ControlInit == Init => Control
<1> SUFFICES ASSUME Init PROVE Control
    OBVIOUS
<1>1. LastRel \in Rel
  BY QueryFacts DEF Init
<1>2. Root \in Node
  BY <1>1 DEF Root, Node, Scan, Join
<1>3. SimpleTypes
  <2>1. /\ exists \in [Rel -> BOOLEAN]
        /\ mJustReset \in [Rel -> BOOLEAN]
        /\ mInvalidCursor \in [Rel -> BOOLEAN]
        /\ mNeedStepOuterNode \in [Rel -> BOOLEAN]
        /\ returned \in BOOLEAN
    BY DEF Init
  <2>2. position \in [Rel -> 0 .. MaxRows] /\ faults \in 0 .. MaxFaults
    BY SizeAssumption, FaultAssumption DEF Init
  <2>3. /\ mLastError \in [Rel -> Status]
        /\ scanStatus \in [Rel -> Status]
        /\ joinStatus \in [Rel -> Status]
    BY DEF Init, Status
  <2> QED BY <1>2, <2>1, <2>2, <2>3 DEF Init, SimpleTypes
<1>4. RunningNode
  BY <1>1, SizeAssumption DEF Init, RunningNode, Level, Root, Scan, Join, Rel
<1>5. LoopsUnderWay
  BY <1>1, SizeAssumption DEF Init, LoopsUnderWay, JoinReturnsRow, Level, Root, Scan, Join, Rel
<1> QED BY <1>3, <1>4, <1>5 DEF Control

LEMMA FaultsBounded ==
    ASSUME SimpleTypes, Succeeds \/ \E kind : Fails(kind)
    PROVE  faults' \in 0 .. MaxFaults
BY FaultAssumption DEF SimpleTypes, Succeeds, Fails

(* What the iterator of a scan that is created or reset looks like.        *)
LEMMA InitIteratorTypes ==
    ASSUME SimpleTypes, NEW r \in Rel, InitTupleIteratorIfNeeded(r)
    PROVE  /\ exists' \in [Rel -> BOOLEAN]
           /\ mJustReset' \in [Rel -> BOOLEAN]
           /\ mInvalidCursor' \in [Rel -> BOOLEAN]
           /\ position' = position
           /\ mLastError' \in [Rel -> Status]
           /\ faults' \in 0 .. MaxFaults
<1>1. CASE scanStatus[r] = "kOK" /\ ~exists[r]
  <2>1. CreateIterator(r)
    BY <1>1 DEF InitTupleIteratorIfNeeded
  <2>2. faults' \in 0 .. MaxFaults
    BY <2>1, FaultsBounded DEF CreateIterator
  <2>3. mLastError' \in [Rel -> Status]
    BY <2>1 DEF CreateIterator, SimpleTypes, Status
  <2>4. position' = position
    BY <2>1 DEF CreateIterator
  <2> QED BY <2>1, <2>2, <2>3, <2>4 DEF CreateIterator, SimpleTypes
<1>2. CASE ~(scanStatus[r] = "kOK" /\ ~exists[r])
  <2>1. UNCHANGED iterators /\ Succeeds
    BY <1>2 DEF InitTupleIteratorIfNeeded
  <2>2. faults' \in 0 .. MaxFaults
    BY <2>1, FaultsBounded
  <2> QED BY <2>1, <2>2 DEF iterators, SimpleTypes
<1> QED BY <1>1, <1>2

LEMMA ScanResetTypes ==
    ASSUME SimpleTypes, NEW r \in Rel, ScanReset(r)
    PROVE  /\ exists' \in [Rel -> BOOLEAN]
           /\ mJustReset' \in [Rel -> BOOLEAN]
           /\ mInvalidCursor' \in [Rel -> BOOLEAN]
           /\ position' = position
           /\ mLastError' \in [Rel -> Status]
           /\ scanStatus' \in [Rel -> Status]
           /\ faults' \in 0 .. MaxFaults
<1>1. CASE scanStatus[r] = "kOK" /\ exists[r]
  <2>1. faults' \in 0 .. MaxFaults
    BY <1>1, FaultsBounded DEF ScanReset
  <2> QED BY <1>1, <2>1 DEF SimpleTypes, ScanReset
<1>2. CASE ~(scanStatus[r] = "kOK" /\ exists[r])
  <2>1. InitTupleIteratorIfNeeded(r)
    BY <1>2 DEF ScanReset
  <2> QED BY <2>1, InitIteratorTypes DEF SimpleTypes, ScanReset
<1> QED BY <1>1, <1>2

(* What a turn of the loop of ScanNode::Step changes, whatever it meets.   *)
LEMMA ScanNextTypes ==
    ASSUME SimpleTypes, NEW r \in Rel, ScanNext(r)
    PROVE  /\ mJustReset' \in [Rel -> BOOLEAN]
           /\ mInvalidCursor' \in [Rel -> BOOLEAN]
           /\ position' \in [Rel -> 0 .. MaxRows]
           /\ mLastError' \in [Rel -> Status]
           /\ scanStatus' \in [Rel -> Status]
           /\ faults' \in 0 .. MaxFaults
           /\ pc' \in {"next", "return"}
           /\ returned' \in BOOLEAN
           /\ node' = node
           /\ node = Scan(r)
           /\ UNCHANGED <<query, exists, joinStatus, mNeedStepOuterNode, answer,
                          failedAsserts>>
<1>1. CASE ScanFindsNoRow(r)
  <2>1. faults' \in 0 .. MaxFaults
    BY <1>1, FaultsBounded DEF ScanFindsNoRow
  <2>2. mLastError' \in [Rel -> Status]
    BY <1>1 DEF ScanFindsNoRow, SimpleTypes, Status
  <2>3. mJustReset' \in [Rel -> BOOLEAN] /\ mInvalidCursor' \in [Rel -> BOOLEAN]
    BY <1>1 DEF ScanFindsNoRow, SimpleTypes, MoveCursor
  <2>4. scanStatus' \in [Rel -> Status]
    BY <1>1, <2>2 DEF ScanFindsNoRow, SimpleTypes
  <2> QED BY <1>1, <2>1, <2>2, <2>3, <2>4 DEF ScanFindsNoRow, SimpleTypes, Return, outcome
<1>2. ASSUME ScanMoves(r)
      PROVE  /\ mJustReset' \in [Rel -> BOOLEAN]
             /\ mInvalidCursor' \in [Rel -> BOOLEAN]
             /\ position' \in [Rel -> 0 .. MaxRows]
             /\ node = Scan(r)
             /\ UNCHANGED <<query, exists, joinStatus, mNeedStepOuterNode, answer,
                            failedAsserts>>
  <2>1. query.size[r] \in 0 .. MaxRows
    BY QueryFacts DEF SimpleTypes, QueryType
  <2>2. Following(r) \in 0 .. MaxRows
    BY <1>2, <2>1, SizeAssumption DEF ScanMoves, SimpleTypes, Following
  <2>3. position' \in [Rel -> 0 .. MaxRows]
    BY <1>2, <2>2 DEF ScanMoves, SimpleTypes
  <2>4. mJustReset' \in [Rel -> BOOLEAN] /\ mInvalidCursor' \in [Rel -> BOOLEAN]
    BY <1>2 DEF ScanMoves, MoveCursor, SimpleTypes
  <2> QED BY <1>2, <2>3, <2>4 DEF ScanMoves
<1>3. CASE ScanFailsToRead(r)
  <2>1. faults' \in 0 .. MaxFaults
    BY <1>3, FaultsBounded DEF ScanFailsToRead
  <2>2. mLastError' \in [Rel -> Status] /\ scanStatus' \in [Rel -> Status]
    BY <1>3 DEF ScanFailsToRead, SimpleTypes, Status
  <2> QED BY <1>2, <1>3, <2>1, <2>2 DEF ScanFailsToRead, SimpleTypes, Stay
<1>4. CASE ScanReads(r)
  <2>1. faults' \in 0 .. MaxFaults
    BY <1>4, FaultsBounded DEF ScanReads
  <2>2. mLastError' \in [Rel -> Status] /\ scanStatus' \in [Rel -> Status]
    BY <1>4 DEF ScanReads, SimpleTypes, Status
  <2> QED BY <1>2, <1>4, <2>1, <2>2 DEF ScanReads, SimpleTypes, Stay, Return
<1> QED BY <1>1, <1>3, <1>4 DEF ScanNext
LEMMA ControlNext ==
    ASSUME Control, [Next]_vars
    PROVE  Control'
<1> USE DEF Control
<1>1. LastRel \in Rel /\ Rel \subseteq Nat /\ \A r \in Rel : r >= 1
  BY QueryFacts, SizeAssumption DEF SimpleTypes, Rel
<1>2. ASSUME NEW r \in Rel, ScanStep(r) PROVE Control'
  <2>1. SimpleTypes'
    <3>1. InitTupleIteratorIfNeeded(r)
      BY <1>2 DEF ScanStep
    <3>2. pc' \in {"next", "return"} /\ returned' \in BOOLEAN /\ node' = node
      BY <1>2 DEF ScanStep, Stay, Return, SimpleTypes
    <3> QED BY <1>2, <3>1, <3>2, InitIteratorTypes DEF ScanStep, SimpleTypes, nodes, outcome
  <2>2. /\ node = Scan(r) /\ node' = node /\ pc' \in {"next", "return"}
        /\ UNCHANGED <<query, mNeedStepOuterNode>>
    BY <1>2 DEF ScanStep, Stay, Return, nodes
  <2>3. RunningNode' /\ LoopsUnderWay'
    BY <2>2 DEF RunningNode, LoopsUnderWay, JoinReturnsRow, Level, LastRel, Scan, Join
  <2> QED BY <2>1, <2>3
<1>3. ASSUME NEW r \in Rel, ScanNext(r) PROVE Control'
  <2>1. SimpleTypes'
    BY <1>3, ScanNextTypes DEF SimpleTypes
  <2>2. /\ node = Scan(r) /\ node' = node /\ pc' \in {"next", "return"}
        /\ UNCHANGED <<query, mNeedStepOuterNode>>
    BY <1>3, ScanNextTypes
  <2>3. RunningNode' /\ LoopsUnderWay'
    BY <2>2 DEF RunningNode, LoopsUnderWay, JoinReturnsRow, Level, LastRel, Scan, Join
  <2> QED BY <2>1, <2>3
<1>4. ASSUME NEW r \in Rel, JoinStep(r) PROVE Control'
  <2>1. /\ node = Join(r) /\ node' = node
        /\ pc' = "loop" \/ (pc' = "return" /\ ~returned')
        /\ returned' \in BOOLEAN
        /\ UNCHANGED <<query, mNeedStepOuterNode>>
    BY <1>4 DEF JoinStep, Stay, Return, nodes, SimpleTypes
  <2>2. SimpleTypes'
    BY <1>4, <2>1 DEF JoinStep, SimpleTypes, iterators, nodes, outcome
  <2>3. RunningNode' /\ LoopsUnderWay'
    BY <2>1 DEF RunningNode, LoopsUnderWay, JoinReturnsRow, Level, LastRel, Scan, Join
  <2> QED BY <2>2, <2>3
<1>5. ASSUME NEW r \in Rel, JoinLoop(r) PROVE Control'
  <2>1. /\ node = Join(r) /\ pc' = "step"
        /\ node' = IF mNeedStepOuterNode[r] THEN Outer(r) ELSE Inner(r)
        /\ UNCHANGED <<query, mNeedStepOuterNode>>
    BY <1>5 DEF JoinLoop, Call, nodes
  <2>2. r \in 2 .. LastRel
    BY <2>1, <1>1 DEF RunningNode, Level, Join
  <2>3. node' \in Node
    BY <2>1, <2>2, SizeAssumption DEF Outer, Inner, Node, Scan, Join, Rel
  <2>4. SimpleTypes'
    BY <1>5, <2>1, <2>3 DEF JoinLoop, Call, SimpleTypes, iterators, nodes, outcome
  <2>5. RunningNode'
    <3>1. /\ node'[2] \in 1 .. LastRel
          /\ node'[1] = "join" => node'[2] >= 2
      BY <2>1, <2>2, <1>1 DEF Outer, Inner, Scan, Join
    <3>2. LastRel' = LastRel
      BY <2>1 DEF LastRel
    <3> QED BY <2>1, <3>1, <3>2 DEF RunningNode, Level
  <2>6. LoopsUnderWay'
    <3>1. \A q \in Rel : q > r => mNeedStepOuterNode[q]
      BY <2>1, <1>1 DEF LoopsUnderWay, Level, Join
    <3>2. CASE mNeedStepOuterNode[r]
      BY <2>1, <2>2, <3>1, <3>2, <1>1 DEF LoopsUnderWay, JoinReturnsRow, Level, Outer, Scan, Join
    <3>3. CASE ~mNeedStepOuterNode[r]
      BY <2>1, <3>1, <3>3, <1>1 DEF LoopsUnderWay, JoinReturnsRow, Level, Inner, Scan, Join
    <3> QED BY <3>2, <3>3
  <2> QED BY <2>4, <2>5, <2>6
<1>6. ASSUME NEW r \in Rel \ {1}, JoinOuterReturned(r) PROVE Control'
  <2>1. r \in 2 .. LastRel /\ node = Outer(r) /\ node' = Join(r) /\ query' = query
        /\ node' \in Node
    <3>1. r \in Nat /\ r >= 2 /\ r <= LastRel
      BY <1>6, <1>1 DEF JoinOuterReturned
    <3> QED BY <1>6, <1>1, <3>1 DEF JoinOuterReturned, Resume, Node, Join
  <2>2. CASE returned
    <3>1. /\ mNeedStepOuterNode' = [mNeedStepOuterNode EXCEPT ![r] = FALSE]
          /\ ScanReset(r)
          /\ pc' = "loop"
          /\ UNCHANGED <<returned, joinStatus, answer, failedAsserts>>
      BY <1>6, <2>2 DEF JoinOuterReturned, Resume, outcome
    <3>2. SimpleTypes'
      BY <2>1, <3>1, ScanResetTypes DEF SimpleTypes
    <3>3. RunningNode'
      BY <2>1, <3>1, <1>1 DEF RunningNode, Level, LastRel, Join
    <3>4. ~mNeedStepOuterNode'[r] /\ \A q \in Rel \ {r} : mNeedStepOuterNode'[q] = mNeedStepOuterNode[q]
      BY <3>1 DEF SimpleTypes
    <3>5. \A q \in 2 .. r - 1 : ~mNeedStepOuterNode[q]
      <4>1. CASE r = 2
        BY <4>1
      <4>2. CASE r # 2
        <5>1. r - 1 \in Rel /\ JoinReturnsRow(r - 1)
          BY <1>6, <2>1, <2>2, <4>2, <1>1, SizeAssumption DEF JoinReturnsRow, JoinOuterReturned, Outer, Rel
        <5> QED BY <5>1 DEF LoopsUnderWay
      <4> QED BY <4>1, <4>2
    <3>6. \A q \in Rel : q > r => mNeedStepOuterNode[q]
      BY <2>1, <1>1 DEF LoopsUnderWay, Level, Outer, Scan, Join
    <3>7. LoopsUnderWay'
      BY <2>1, <3>1, <3>4, <3>5, <3>6, <1>1, SizeAssumption DEF LoopsUnderWay, JoinReturnsRow, Level, Join, Rel
    <3> QED BY <3>2, <3>3, <3>7
  <2>3. CASE ~returned
    <3>1. /\ joinStatus' = [joinStatus EXCEPT ![r] = OuterStatus(r)]
          /\ pc' = "return" /\ returned' = FALSE
          /\ UNCHANGED <<iterators, scanStatus, mNeedStepOuterNode, faults, answer, failedAsserts>>
      BY <1>6, <2>3 DEF JoinOuterReturned, outcome
    <3>2. OuterStatus(r) \in Status
      BY <2>1, <1>1, SizeAssumption DEF OuterStatus, SimpleTypes, Rel
    <3>3. SimpleTypes'
      BY <2>1, <3>1, <3>2 DEF SimpleTypes, iterators
    <3>4. RunningNode'
      BY <2>1, <3>1, <1>1 DEF RunningNode, Level, LastRel, Join
    <3>5. LoopsUnderWay'
      BY <2>1, <3>1, <1>1 DEF LoopsUnderWay, JoinReturnsRow, Level, Outer, Scan, Join
    <3> QED BY <3>3, <3>4, <3>5
  <2> QED BY <2>2, <2>3 DEF SimpleTypes
<1>7. ASSUME NEW r \in Rel \ {1}, JoinInnerReturned(r) PROVE Control'
  <2>1. /\ r \in 2 .. LastRel /\ node = Scan(r) /\ node' = Join(r) /\ node' \in Node
        /\ pc = "return" /\ pc' \in {"loop", "return"}
        /\ mNeedStepOuterNode' = NeedOuter(r, returned)
        /\ UNCHANGED <<query, iterators, scanStatus, answer, failedAsserts, faults>>
    BY <1>7, <1>1 DEF JoinInnerReturned, Resume, Inner, Node, Join
  <2>2. CASE returned
    <3>1. mNeedStepOuterNode' = mNeedStepOuterNode /\ joinStatus' = joinStatus /\ returned'
      BY <1>7, <2>2 DEF JoinInnerReturned, NeedOuter, Resume
    <3>2. SimpleTypes'
      BY <2>1, <3>1 DEF SimpleTypes, iterators
    <3>3. RunningNode'
      BY <2>1, <1>1 DEF RunningNode, Level, LastRel, Join
    <3>4. LoopsUnderWay'
      BY <2>1, <3>1, <1>1 DEF LoopsUnderWay, JoinReturnsRow, Level, Scan, Join
    <3> QED BY <3>2, <3>3, <3>4
  <2>3. CASE ~returned
    <3>1. /\ mNeedStepOuterNode' = [mNeedStepOuterNode EXCEPT ![r] = TRUE]
          /\ joinStatus' = [joinStatus EXCEPT ![r] = scanStatus[r]]
          /\ pc' = "loop" /\ UNCHANGED returned
      BY <1>7, <2>3 DEF JoinInnerReturned, NeedOuter, Resume
    <3>2. SimpleTypes'
      BY <2>1, <3>1 DEF SimpleTypes, iterators
    <3>3. RunningNode'
      BY <2>1, <3>1, <1>1 DEF RunningNode, Level, LastRel, Join
    <3>4. mNeedStepOuterNode'[r] /\ \A q \in Rel \ {r} : mNeedStepOuterNode'[q] = mNeedStepOuterNode[q]
      BY <3>1 DEF SimpleTypes
    <3>5. \A q \in Rel : q > r => mNeedStepOuterNode[q]
      BY <2>1, <1>1 DEF LoopsUnderWay, Level, Scan
    <3>6. LoopsUnderWay'
      BY <2>1, <3>1, <3>4, <3>5, <1>1, SizeAssumption DEF LoopsUnderWay, JoinReturnsRow, Level, Join, Rel
    <3> QED BY <3>2, <3>3, <3>6
  <2> QED BY <2>2, <2>3 DEF SimpleTypes
<1>8. CASE RootReturned
  <2>1. /\ node = Root /\ node' = node /\ pc' \in {"step", "end"}
        /\ UNCHANGED <<query, mNeedStepOuterNode>>
        /\ UNCHANGED returned
    BY <1>8 DEF RootReturned, Call, Stay, nodes
  <2>2. SimpleTypes'
    BY <1>8, <2>1 DEF RootReturned, Call, Stay, SimpleTypes, iterators, nodes, outcome
  <2>3. RunningNode' /\ LoopsUnderWay'
    BY <2>1 DEF RunningNode, LoopsUnderWay, JoinReturnsRow, Level, LastRel, Root
  <2> QED BY <2>2, <2>3
<1>9. CASE End
  <2>1. /\ node' = node /\ pc = "end" /\ pc' = "done" /\ UNCHANGED <<query, mNeedStepOuterNode, returned>>
    BY <1>9 DEF End, Stay, nodes
  <2>2. failedAsserts' \subseteq {"ScanNode:114"}
    BY <1>9 DEF End, SimpleTypes
  <2>3. answer' \in Status
    BY <1>9, <1>1 DEF End, RootStatus, SimpleTypes
  <2>4. exists' \in [Rel -> BOOLEAN]
    BY <1>9 DEF End
  <2>5. SimpleTypes'
    BY <1>9, <2>1, <2>2, <2>3, <2>4 DEF End, SimpleTypes, nodes
  <2>6. RunningNode' /\ LoopsUnderWay'
    BY <2>1 DEF RunningNode, LoopsUnderWay, JoinReturnsRow, Level, LastRel, Root
  <2> QED BY <2>5, <2>6
<1>10. CASE UNCHANGED vars
  BY <1>10 DEF vars, iterators, nodes, outcome, SimpleTypes, RunningNode, LoopsUnderWay,
               JoinReturnsRow, Level, LastRel, Root
<1> QED BY <1>2, <1>3, <1>4, <1>5, <1>6, <1>7, <1>8, <1>9, <1>10 DEF Next
(***************************************************************************)
(* Proof of Current                                                        *)
(***************************************************************************)

(* A tuple each of whose rows, and each of whose prefixes, has passed its  *)
(* node is one the statement selects.                                      *)
LEMMA PassedIsSelected ==
    ASSUME NEW qy \in QueryType, PredicatesFit(qy), NEW p \in [Rel -> 0 .. MaxRows],
           \A r \in 1 .. qy.rels : p[r] \in 1 .. qy.size[r] /\ p[r] \in qy.scan[r],
           \A k \in 2 .. qy.rels : [i \in 1 .. k |-> p[i]] \in qy.join[k]
    PROVE  /\ [i \in 1 .. qy.rels |-> p[i]] \in qy.selected
           /\ [i \in 1 .. qy.rels |-> p[i]] \in Tuples(qy.rels)
<1> DEFINE t == [i \in 1 .. qy.rels |-> p[i]]
<1>1. qy.rels \in Rel /\ 1 .. qy.rels \subseteq Rel
  BY SizeAssumption DEF QueryType, Rel
<1>2. \A r \in 1 .. qy.rels : p[r] \in Row
  BY <1>1 DEF Row
<1>3. t \in Tuples(qy.rels)
  BY <1>2 DEF Tuples
<1>4. \A r \in 1 .. qy.rels : t[r] <= qy.size[r] /\ t[r] \in qy.scan[r]
  BY <1>1 DEF QueryType
<1>5. \A k \in 2 .. qy.rels : Prefix(t, k) \in qy.join[k]
  <2>1. TAKE k \in 2 .. qy.rels
  <2>2. Prefix(t, k) = [i \in 1 .. k |-> p[i]]
    BY <1>1, SizeAssumption DEF Prefix, Rel
  <2> QED BY <2>2
<1> QED BY <1>3, <1>4, <1>5 DEF PredicatesFit

LEMMA AppendPos ==
    ASSUME NEW r \in Nat, r >= 2, NEW p
    PROVE  Append([i \in 1 .. r - 1 |-> p[i]], p[r]) = [i \in 1 .. r |-> p[i]]
<1> DEFINE s == [i \in 1 .. r - 1 |-> p[i]]
<1>1. s \in Seq({p[i] : i \in 1 .. r}) /\ Len(s) = r - 1
  OBVIOUS
<1>2. Append(s, p[r]) \in Seq({p[i] : i \in 1 .. r}) /\ Len(Append(s, p[r])) = r
  BY <1>1
<1>3. \A i \in 1 .. r : Append(s, p[r])[i] = p[i]
  BY <1>1
<1> QED BY <1>2, <1>3

(* What has come out stays of its type and selected when a tuple is added. *)
LEMMA AppendSelected ==
    ASSUME NEW S, NEW sel, NEW s \in Seq(S), NEW t \in S, t \in sel,
           \A i \in DOMAIN s : s[i] \in sel
    PROVE  /\ Append(s, t) \in Seq(S)
           /\ \A i \in DOMAIN Append(s, t) : Append(s, t)[i] \in sel
BY AppendProperties

(* What is known of the tables below j stays, if their cursors do.         *)
LEMMA PassedKept ==
    ASSUME NEW j \in Nat, UNCHANGED query, \A q \in 1 .. j : position'[q] = position[q]
    PROVE  Pos(j)' = Pos(j) /\ (Passed(j) => Passed(j)')
<1>1. \A k \in 0 .. j : Pos(k)' = Pos(k)
  BY DEF Pos
<1>2. \A q \in 1 .. j : PassedScan(q) => PassedScan(q)'
  BY DEF PassedScan
<1> QED BY <1>1, <1>2 DEF Passed

LEMMA CurrentInit == Init => Current
<1> SUFFICES ASSUME Init PROVE Current
    OBVIOUS
<1>1. RowTypes
  <2>1. <<>> \in Tuples(0)
    BY DEF Tuples
  <2> QED BY <2>1, SizeAssumption DEF Init, RowTypes
<1>2. 2 .. LastRel \subseteq Rel
  BY QueryFacts, SizeAssumption DEF Init, Rel
<1> QED BY <1>1, <1>2 DEF Init, Current, OuterRowsPassed, ScanRowPassed, JoinRowPassed,
                       ScanReturnsRow, JoinReturnsRow

(* A step that moves no cursor and brings no row.                          *)
LEMMA CurrentKept ==
    ASSUME Control, Current,
           UNCHANGED <<query, position, outerRow, innerRow, mExprContext, rows>>,
           \A r \in Rel : mNeedStepOuterNode[r] => mNeedStepOuterNode'[r],
           ~(pc' = "return" /\ returned')
    PROVE  Current'
<1>1. LastRel \in Rel /\ LastRel' = LastRel
  BY QueryFacts DEF Control, SimpleTypes, LastRel
<1>2. RowTypes'
  BY <1>1 DEF Current, RowTypes
<1>3. OuterRowsPassed'
  <2>1. SUFFICES ASSUME NEW r \in 2 .. LastRel, ~mNeedStepOuterNode'[r]
                 PROVE  outerRow'[r] = Pos(r - 1)' /\ Passed(r - 1)'
    BY <1>1 DEF OuterRowsPassed
  <2>2. r \in Rel
    BY <1>1, SizeAssumption DEF Rel
  <2>3. outerRow[r] = Pos(r - 1) /\ Passed(r - 1)
    BY <2>1, <2>2 DEF Current, OuterRowsPassed
  <2>4. r - 1 \in Nat
    BY <2>2, SizeAssumption DEF Rel
  <2>5. query' = query /\ \A q \in 1 .. r - 1 : position'[q] = position[q]
    OBVIOUS
  <2>6. outerRow'[r] = outerRow[r]
    OBVIOUS
  <2>7. Pos(r - 1)' = Pos(r - 1) /\ (Passed(r - 1) => Passed(r - 1)')
    BY <2>4, <2>5, PassedKept
  <2> QED BY <2>3, <2>6, <2>7
<1> QED BY <1>2, <1>3 DEF Current, ScanRowPassed, JoinRowPassed, ScanReturnsRow, JoinReturnsRow
(* A scan moves its cursor: the outer rows are those of the tables below.  *)
LEMMA OuterRowsKept ==
    ASSUME Control, Current, NEW r \in Rel, node = Scan(r),
           UNCHANGED <<query, mNeedStepOuterNode>>,
           \A q \in Rel \ {r} : position'[q] = position[q],
           \A q \in 1 .. r : outerRow'[q] = outerRow[q]
    PROVE  OuterRowsPassed'
<1>1. LastRel \in Rel /\ LastRel' = LastRel /\ Rel \subseteq Nat
  BY QueryFacts, SizeAssumption DEF Control, SimpleTypes, LastRel, Rel
<1>2. SUFFICES ASSUME NEW j \in 2 .. LastRel, ~mNeedStepOuterNode'[j]
               PROVE  outerRow'[j] = Pos(j - 1)' /\ Passed(j - 1)'
  BY <1>1 DEF OuterRowsPassed
<1>3. j \in Rel /\ 1 .. j \subseteq Rel /\ j - 1 \in Nat
  BY <1>1, SizeAssumption DEF Rel
<1>4. j <= r
  BY <1>2, <1>3, <1>1 DEF Control, LoopsUnderWay, Level, Scan
<1>5. outerRow[j] = Pos(j - 1) /\ Passed(j - 1)
  BY <1>2 DEF Current, OuterRowsPassed
<1>6. \A q \in 1 .. j - 1 : position'[q] = position[q]
  BY <1>3, <1>4, <1>1
<1> QED BY <1>3, <1>4, <1>5, <1>6, PassedKept

LEMMA CurrentScanFailsToRead ==
    ASSUME Control, Control', Current, NEW r \in Rel, ScanFailsToRead(r)
    PROVE  Current'
<1>1. /\ node = Scan(r) /\ pc' = "next"
      /\ UNCHANGED <<query, mNeedStepOuterNode, outerRow, innerRow, mExprContext, rows>>
      /\ position' = [position EXCEPT ![r] = Following(r)]
  BY DEF ScanFailsToRead, ScanMoves, Stay
<1>2. \A q \in Rel \ {r} : position'[q] = position[q]
  BY <1>1 DEF Control, SimpleTypes
<1>3. OuterRowsPassed'
  BY <1>1, <1>2, OuterRowsKept
<1>4. RowTypes' /\ LastRel' = LastRel
  BY <1>1 DEF Current, RowTypes, LastRel
<1> QED BY <1>1, <1>3, <1>4
        DEF Current, ScanRowPassed, JoinRowPassed, ScanReturnsRow, JoinReturnsRow

LEMMA CurrentScanReads ==
    ASSUME Control, Control', Current, NEW r \in Rel, ScanReads(r)
    PROVE  Current'
<1> DEFINE i == Following(r)
<1>1. /\ node = Scan(r) /\ node' = node
      /\ UNCHANGED <<query, mNeedStepOuterNode>>
      /\ position' = [position EXCEPT ![r] = i]
      /\ mExprContext' = [mExprContext EXCEPT ![r] = i]
      /\ LastRel' = LastRel
      /\ Root' = Root
  BY DEF ScanReads, ScanMoves, Stay, Return, LastRel, Root
<1>2. /\ query \in QueryType /\ PredicatesFit(query)
      /\ LastRel \in Rel /\ Rel \subseteq Nat /\ r \in 1 .. LastRel
  BY <1>1, QueryFacts, SizeAssumption DEF Control, SimpleTypes, RunningNode, Level, Scan, Rel
<1>3. i \in 1 .. query.size[r] /\ query.size[r] \in 0 .. MaxRows /\ i \in Row
  <2>1. query.size[r] \in 0 .. MaxRows
    BY <1>2 DEF QueryType
  <2>2. i \in Nat /\ i >= 1
    BY DEF Following, Control, SimpleTypes
  <2> QED BY <2>1, <2>2, SizeAssumption DEF ScanReads, ScanMoves, Row
<1>4. /\ \A q \in Rel \ {r} : position'[q] = position[q]
      /\ position'[r] = i /\ mExprContext'[r] = i
      /\ mExprContext' \in [Rel -> 0 .. MaxRows]
  BY <1>1, <1>3, SizeAssumption DEF Control, SimpleTypes, Current, RowTypes, Row
<1>5. CASE i \notin query.scan[r]
  <2>1. pc' = "next" /\ UNCHANGED <<outerRow, innerRow, rows>>
    BY <1>4, <1>5 DEF ScanReads, Stay
  <2>2. OuterRowsPassed'
    BY <1>1, <1>4, <2>1, OuterRowsKept
  <2>3. RowTypes'
    BY <1>1, <1>4, <2>1 DEF Current, RowTypes
  <2> QED BY <1>1, <2>1, <2>2, <2>3
          DEF Current, ScanRowPassed, JoinRowPassed, ScanReturnsRow, JoinReturnsRow
<1>6. CASE i \in query.scan[r]
  <2>1. pc' = "return" /\ returned' /\ Emit(Scan(r), <<i>>)
    BY <1>4, <1>6 DEF ScanReads, Return
  <2>2. PassedScan(r)'
    BY <1>1, <1>3, <1>4, <1>6 DEF PassedScan
  <2>3. \A q \in Rel : ~JoinReturnsRow(q)'
    BY <1>1 DEF JoinReturnsRow, Scan, Join
  <2>4. \A q \in Rel : ScanReturnsRow(q)' => q = r
    BY <1>1 DEF ScanReturnsRow, Scan
  <2>5. r = 1 => <<i>> = Pos(1)' /\ <<i>> \in Tuples(1)
    BY <1>3, <1>4 DEF Pos, Tuples
  <2>6. 1 .. LastRel \subseteq Rel /\ 2 .. LastRel \subseteq Rel /\ 1 \in Rel
    BY <1>2, SizeAssumption DEF Rel
  <2>7. CASE Scan(r) = Root
    <3>1. r = 1 /\ LastRel = 1
      BY <2>7, <1>2 DEF Root, Scan, Join
    <3>2. rows' = Append(rows, <<i>>) /\ UNCHANGED <<outerRow, innerRow>>
      BY <2>1, <2>7 DEF Emit
    <3>3. <<i>> \in query.selected /\ <<i>> \in Tuples(LastRel)
      <4>1. position' \in [Rel -> 0 .. MaxRows]
        BY DEF Control, SimpleTypes
      <4>2. [k \in 1 .. query.rels |-> position'[k]] = <<i>>
        BY <3>1, <1>4 DEF LastRel
      <4>3. \A k \in 1 .. query.rels : position'[k] \in 1 .. query.size[k] /\ position'[k] \in query.scan[k]
        BY <1>3, <1>4, <1>6, <3>1 DEF LastRel
      <4>4. 2 .. query.rels = {}
        BY <3>1 DEF LastRel
      <4>5. /\ [k \in 1 .. query.rels |-> position'[k]] \in query.selected
            /\ [k \in 1 .. query.rels |-> position'[k]] \in Tuples(query.rels)
        BY <4>1, <4>3, <4>4, <1>2, PassedIsSelected
      <4> QED BY <4>2, <4>5 DEF LastRel
    <3>4. rows' \in Seq(Tuples(LastRel)) /\ \A k \in DOMAIN rows' : rows'[k] \in query.selected
      BY <3>2, <3>3, AppendSelected DEF Current, RowTypes
    <3>5. RowTypes'
      BY <1>1, <1>4, <3>2, <3>4 DEF Current, RowTypes
    <3>6. OuterRowsPassed'
      BY <3>1, <1>1 DEF OuterRowsPassed
    <3>7. ScanRowPassed' /\ JoinRowPassed'
      BY <2>2, <2>3, <2>4, <3>1, <1>1, <2>6 DEF ScanRowPassed, JoinRowPassed
    <3> QED BY <1>1, <3>4, <3>5, <3>6, <3>7 DEF Current
  <2>8. CASE Scan(r) # Root /\ r = 1
    <3>1. LastRel >= 2 /\ 2 \in Rel
      BY <2>8, <1>2, SizeAssumption DEF Root, Rel
    <3>2. outerRow' = [outerRow EXCEPT ![2] = <<i>>] /\ UNCHANGED <<innerRow, rows>>
      BY <2>1, <2>8 DEF Emit, Scan
    <3>3. outerRow'[2] = Pos(1)'
      BY <2>5, <2>8, <3>1, <3>2 DEF Current, RowTypes
    <3>4. RowTypes'
      <4>1. 1 \in 0 .. MaxRels
        BY SizeAssumption
      <4>2. <<i>> \in UNION {Tuples(j) : j \in 0 .. MaxRels}
        BY <4>1, <2>5, <2>8
      <4>3. outerRow' \in [Rel -> UNION {Tuples(j) : j \in 0 .. MaxRels}]
        BY <4>2, <3>2 DEF Current, RowTypes
      <4> QED BY <4>3, <1>1, <1>4, <3>2 DEF Current, RowTypes
    <3>5. OuterRowsPassed'
      <4>1. outerRow'[1] = outerRow[1]
        BY <3>2, <2>6 DEF Current, RowTypes
      <4> QED BY <4>1, <2>8, <1>1, <1>4, OuterRowsKept
    <3>6. ScanRowPassed' /\ JoinRowPassed'
      BY <2>2, <2>3, <2>4, <2>8, <3>3, <1>1, <2>6 DEF ScanRowPassed, JoinRowPassed
    <3> QED BY <1>1, <3>2, <3>4, <3>5, <3>6 DEF Current
  <2>9. CASE Scan(r) # Root /\ r # 1
    <3>1. innerRow' = [innerRow EXCEPT ![r] = i] /\ UNCHANGED <<outerRow, rows>>
      BY <2>1, <2>9 DEF Emit, Scan
    <3>2. RowTypes'
      BY <1>1, <1>3, <1>4, <3>1, SizeAssumption DEF Current, RowTypes, Row
    <3>3. innerRow'[r] = position'[r]
      BY <3>1, <1>4 DEF Current, RowTypes
    <3>4. OuterRowsPassed'
      BY <3>1, <1>1, <1>4, OuterRowsKept
    <3>5. ScanRowPassed' /\ JoinRowPassed'
      BY <2>2, <2>3, <2>4, <2>9, <3>3, <1>1, <2>6 DEF ScanRowPassed, JoinRowPassed
    <3> QED BY <1>1, <3>1, <3>2, <3>4, <3>5 DEF Current
  <2> QED BY <2>7, <2>8, <2>9
<1> QED BY <1>5, <1>6
LEMMA CurrentJoinOuterReturned ==
    ASSUME Control, Control', Current, NEW r \in Rel \ {1}, JoinOuterReturned(r)
    PROVE  Current'
<1>1. LastRel' = LastRel /\ LastRel \in Rel /\ Rel \subseteq Nat /\ r \in 2 .. LastRel
  BY QueryFacts, SizeAssumption DEF JoinOuterReturned, Control, SimpleTypes, LastRel, Rel
<1>2. UNCHANGED <<query, outerRow, innerRow, mExprContext, rows>>
  BY DEF JoinOuterReturned, outcome
<1>3. CASE ~returned
  BY <1>2, <1>3, CurrentKept DEF JoinOuterReturned, iterators
<1>4. CASE returned
  <2>1. /\ mNeedStepOuterNode' = [mNeedStepOuterNode EXCEPT ![r] = FALSE]
        /\ position' = position
        /\ pc' = "loop"
    BY <1>4, ScanResetTypes DEF JoinOuterReturned, Control, Resume
  <2>2. outerRow[r] = Pos(r - 1) /\ Passed(r - 1)
    <3>1. CASE r = 2
      <4>1. ScanReturnsRow(1)
        BY <1>4, <3>1 DEF JoinOuterReturned, Outer, ScanReturnsRow
      <4>2. PassedScan(1) /\ outerRow[2] = Pos(1)
        BY <4>1, <3>1, <1>1 DEF Current, ScanRowPassed
      <4> QED BY <4>2, <3>1 DEF Passed
    <3>2. CASE r # 2
      <4>1. JoinReturnsRow(r - 1)
        BY <1>4, <3>2 DEF JoinOuterReturned, Outer, JoinReturnsRow
      <4>2. r - 1 \in 2 .. LastRel /\ r - 1 < LastRel /\ r - 1 + 1 = r
        BY <3>2, <1>1
      <4> QED BY <4>1, <4>2 DEF Current, JoinRowPassed
    <3> QED BY <3>1, <3>2
  <2>3. OuterRowsPassed'
    <3>1. SUFFICES ASSUME NEW j \in 2 .. LastRel, ~mNeedStepOuterNode'[j]
                   PROVE  outerRow'[j] = Pos(j - 1)' /\ Passed(j - 1)'
      BY <1>1 DEF OuterRowsPassed
    <3>2. j - 1 \in Nat /\ j \in Rel
      BY <1>1, SizeAssumption DEF Rel
    <3>3. outerRow[j] = Pos(j - 1) /\ Passed(j - 1)
      BY <2>1, <2>2, <3>1, <3>2 DEF Current, OuterRowsPassed, Control, SimpleTypes
    <3>4. \A q \in 1 .. j - 1 : position'[q] = position[q]
      BY <2>1
    <3> QED BY <1>2, <3>2, <3>3, <3>4, PassedKept
  <2>4. RowTypes'
    BY <1>1, <1>2 DEF Current, RowTypes
  <2> QED BY <1>2, <2>1, <2>3, <2>4
          DEF Current, ScanRowPassed, JoinRowPassed, ScanReturnsRow, JoinReturnsRow
<1> QED BY <1>3, <1>4

LEMMA CurrentJoinInnerReturned ==
    ASSUME Control, Control', Current, NEW r \in Rel \ {1}, JoinInnerReturned(r)
    PROVE  Current'
<1>1. LastRel' = LastRel /\ LastRel \in Rel /\ Rel \subseteq Nat /\ r \in 2 .. LastRel
      /\ query \in QueryType /\ PredicatesFit(query) /\ Root' = Root
  BY QueryFacts, SizeAssumption DEF JoinInnerReturned, Control, SimpleTypes, LastRel, Rel, Root
<1>2. /\ node = Scan(r) /\ pc = "return" /\ node' = Join(r)
      /\ UNCHANGED <<query, position>>
  BY DEF JoinInnerReturned, Inner, Resume, iterators
<1>3. CASE ~returned
  <2>1. /\ pc' = "loop" /\ UNCHANGED <<outerRow, innerRow, mExprContext, rows>>
        /\ mNeedStepOuterNode' = [mNeedStepOuterNode EXCEPT ![r] = TRUE]
    BY <1>3 DEF JoinInnerReturned, Resume, NeedOuter
  <2>2. \A q \in Rel : mNeedStepOuterNode[q] => mNeedStepOuterNode'[q]
    BY <2>1 DEF Control, SimpleTypes
  <2> QED BY <1>2, <2>1, <2>2, CurrentKept
<1>4. CASE returned
  <2>1. /\ mNeedStepOuterNode' = mNeedStepOuterNode
        /\ mExprContext' = MatchContext(r)
    BY <1>4 DEF JoinInnerReturned, NeedOuter
  <2>2. /\ outerRow[r] = Pos(r - 1) /\ Passed(r - 1)
        /\ innerRow[r] = position[r] /\ PassedScan(r)
    <3>1. ~mNeedStepOuterNode[r]
      BY <1>1, <1>2 DEF Control, LoopsUnderWay, Level, Scan
    <3>2. ScanReturnsRow(r)
      BY <1>2, <1>4 DEF ScanReturnsRow
    <3> QED BY <1>1, <3>1, <3>2 DEF Current, OuterRowsPassed, ScanRowPassed
  <2>3. \A q \in 1 .. r : mExprContext'[q] = position[q]
    BY <1>1, <2>1, <2>2, SizeAssumption DEF MatchContext, Pos, Rel
  <2>4. Prefix(mExprContext', r) = Pos(r)
    BY <2>3 DEF Prefix, Pos
  <2>5. \A j \in Nat : Pos(j)' = Pos(j) /\ (Passed(j) => Passed(j)')
    BY <1>2, PassedKept
  <2>6. mExprContext' \in [Rel -> 0 .. MaxRows]
    <3>1. \A q \in Rel : mExprContext'[q] \in 0 .. MaxRows
      <4>1. ASSUME NEW q \in Rel PROVE mExprContext'[q] \in 0 .. MaxRows
        <5>1. CASE q <= r
          <6>1. q \in 1 .. r
            BY <1>1, <5>1 DEF Rel
          <6> QED BY <2>3, <6>1 DEF Control, SimpleTypes
        <5>2. CASE q > r
          BY <1>1, <2>1, <5>2 DEF MatchContext, Current, RowTypes
        <5> QED BY <1>1, <5>1, <5>2
      <4> QED BY <4>1
    <3>2. mExprContext' = [q \in Rel |-> mExprContext'[q]]
      BY <2>1 DEF MatchContext
    <3> QED BY <3>1, <3>2
  <2>7. CASE Pos(r) \notin query.join[r]
    <3>1. pc' = "loop" /\ UNCHANGED <<rows, outerRow, innerRow>>
      BY <1>4, <2>4, <2>7 DEF JoinInnerReturned, Resume
    <3>2. RowTypes'
      BY <1>1, <2>6, <3>1 DEF Current, RowTypes
    <3>3. OuterRowsPassed'
      <4>1. \A j \in 2 .. LastRel : j - 1 \in Nat
        BY <1>1
      <4> QED BY <1>1, <2>1, <2>5, <3>1, <4>1 DEF Current, OuterRowsPassed
    <3> QED BY <1>2, <3>1, <3>2, <3>3
            DEF Current, ScanRowPassed, JoinRowPassed, ScanReturnsRow, JoinReturnsRow
  <2>8. CASE Pos(r) \in query.join[r]
    <3>1. /\ pc' = "return" /\ returned'
          /\ Emit(Join(r), Append(outerRow[r], innerRow[r]))
      BY <1>4, <2>4, <2>8 DEF JoinInnerReturned
    <3>2. Append(outerRow[r], innerRow[r]) = Pos(r)
      BY <1>1, <2>2, AppendPos DEF Pos
    <3>3. Passed(r)
      <4>1. \A q \in 1 .. r : q \in 1 .. r - 1 \/ q = r
        BY <1>1
      <4>2. \A q \in 2 .. r : q \in 2 .. r - 1 \/ q = r
        BY <1>1
      <4> QED BY <2>2, <2>8, <4>1, <4>2 DEF Passed
    <3>4. \A q \in Rel : ~ScanReturnsRow(q)'
      BY <1>2 DEF ScanReturnsRow, Scan, Join
    <3>5. \A q \in Rel : JoinReturnsRow(q)' => q = r
      BY <1>2 DEF JoinReturnsRow, Join
    <3>6. 1 .. LastRel \subseteq Rel /\ 2 .. LastRel \subseteq Rel /\ r - 1 \in Nat
          /\ \A j \in 2 .. LastRel : j - 1 \in Nat
      BY <1>1, SizeAssumption DEF Rel
    <3>7. CASE r = LastRel
      <4>1. rows' = Append(rows, Pos(r)) /\ UNCHANGED <<outerRow, innerRow>>
        BY <1>1, <3>1, <3>2, <3>7 DEF Emit, Root
      <4>2. Pos(r) \in query.selected /\ Pos(r) \in Tuples(LastRel)
        <5>1. position \in [Rel -> 0 .. MaxRows]
          BY DEF Control, SimpleTypes
        <5>2. \A k \in 1 .. query.rels : position[k] \in 1 .. query.size[k] /\ position[k] \in query.scan[k]
          BY <3>3, <3>7 DEF Passed, PassedScan, LastRel
        <5>3. \A k \in 2 .. query.rels : [i \in 1 .. k |-> position[i]] \in query.join[k]
          BY <3>3, <3>7 DEF Passed, Pos, LastRel
        <5>4. /\ [k \in 1 .. query.rels |-> position[k]] \in query.selected
              /\ [k \in 1 .. query.rels |-> position[k]] \in Tuples(query.rels)
          BY <5>1, <5>2, <5>3, <1>1, PassedIsSelected
        <5> QED BY <5>4, <3>7 DEF Pos, LastRel
      <4>3. rows' \in Seq(Tuples(LastRel)) /\ \A k \in DOMAIN rows' : rows'[k] \in query.selected
        BY <4>1, <4>2, AppendSelected DEF Current, RowTypes
      <4>4. RowTypes'
        BY <1>1, <2>6, <4>1, <4>3 DEF Current, RowTypes
      <4>5. OuterRowsPassed'
        BY <1>1, <2>1, <2>5, <4>1, <3>6 DEF Current, OuterRowsPassed
      <4>6. ScanRowPassed' /\ JoinRowPassed'
        BY <1>1, <2>5, <3>3, <3>4, <3>5, <3>6, <3>7 DEF ScanRowPassed, JoinRowPassed
      <4> QED BY <1>2, <4>3, <4>4, <4>5, <4>6 DEF Current
    <3>8. CASE r # LastRel
      <4>1. Join(r) # Root /\ r + 1 \in 2 .. LastRel /\ r + 1 \in Rel
        BY <1>1, <3>8, SizeAssumption DEF Root, Scan, Join, Rel
      <4>2. outerRow' = [outerRow EXCEPT ![r + 1] = Pos(r)] /\ UNCHANGED <<innerRow, rows>>
        BY <3>1, <3>2, <4>1 DEF Emit, Join
      <4>3. outerRow'[r + 1] = Pos(r) /\ \A j \in Rel \ {r + 1} : outerRow'[j] = outerRow[j]
        BY <4>1, <4>2 DEF Current, RowTypes
      <4>4. RowTypes'
        <5>1. Pos(r) \in Tuples(r)
          <6>1. \A q \in 1 .. r : PassedScan(q) /\ q \in Rel
            BY <1>1, <3>3, SizeAssumption DEF Passed, Rel
          <6>2. \A q \in 1 .. r : position[q] \in Row
            BY <6>1, <1>1, SizeAssumption DEF PassedScan, QueryType, Row
          <6> QED BY <6>2 DEF Pos, Tuples
        <5>2. Pos(r) \in UNION {Tuples(j) : j \in 0 .. MaxRels}
          BY <1>1, <5>1, SizeAssumption DEF Rel
        <5> QED BY <1>1, <2>6, <4>2, <5>2 DEF Current, RowTypes
      <4>5. OuterRowsPassed'
        <5>1. mNeedStepOuterNode[r + 1]
          BY <1>1, <1>2, <4>1 DEF Control, LoopsUnderWay, Level, Scan
        <5> QED BY <1>1, <2>1, <2>5, <4>3, <5>1, <3>6 DEF Current, OuterRowsPassed
      <4>6. ScanRowPassed' /\ JoinRowPassed'
        BY <1>1, <2>5, <3>3, <3>4, <3>5, <3>6, <4>3 DEF ScanRowPassed, JoinRowPassed
      <4> QED BY <1>2, <4>2, <4>4, <4>5, <4>6 DEF Current
    <3> QED BY <3>7, <3>8
  <2> QED BY <2>7, <2>8
<1> QED BY <1>3, <1>4

LEMMA CurrentNext ==
    ASSUME Control, Control', Current, [Next]_vars
    PROVE  Current'
<1>1. ASSUME NEW r \in Rel, ScanStep(r) PROVE Current'
  <2>1. position' = position
    BY <1>1, InitIteratorTypes DEF ScanStep, Control
  <2> QED BY <1>1, <2>1, CurrentKept DEF ScanStep, Stay, Return, nodes, outcome
<1>2. ASSUME NEW r \in Rel, ScanNext(r) PROVE Current'
  <2>1. CASE ScanFindsNoRow(r)
    BY <2>1, CurrentKept DEF ScanFindsNoRow, Return, outcome
  <2> QED BY <1>2, <2>1, CurrentScanFailsToRead, CurrentScanReads DEF ScanNext
<1>3. ASSUME NEW r \in Rel, JoinStep(r) PROVE Current'
  BY <1>3, CurrentKept DEF JoinStep, Stay, Return, iterators, nodes, outcome
<1>4. ASSUME NEW r \in Rel, JoinLoop(r) PROVE Current'
  BY <1>4, CurrentKept DEF JoinLoop, Call, iterators, nodes, outcome
<1>5. CASE RootReturned
  BY <1>5, CurrentKept DEF RootReturned, Call, Stay, iterators, nodes, outcome
<1>6. CASE End
  BY <1>6, CurrentKept DEF End, Stay, nodes
<1>7. CASE UNCHANGED vars
  <2>1. UNCHANGED <<query, position, outerRow, innerRow, mExprContext, rows,
                    mNeedStepOuterNode, node, pc, returned>>
    BY <1>7 DEF vars, iterators, nodes, outcome
  <2>2. \A j \in Nat : Pos(j)' = Pos(j) /\ (Passed(j) => Passed(j)')
    BY <2>1, PassedKept
  <2>3. LastRel' = LastRel /\ LastRel \in Nat /\ Root' = Root
    BY <2>1, QueryFacts, SizeAssumption DEF Control, SimpleTypes, LastRel, Rel, Root
  <2>4. RowTypes' /\ \A i \in DOMAIN rows' : rows'[i] \in query'.selected
    BY <2>1, <2>3 DEF Current, RowTypes
  <2>5. OuterRowsPassed'
    <3>1. \A r \in 2 .. LastRel : r - 1 \in Nat
      BY <2>3
    <3> QED BY <2>1, <2>2, <2>3, <3>1 DEF Current, OuterRowsPassed
  <2>6. ScanRowPassed'
    BY <2>1, <2>2, <2>3 DEF Current, ScanRowPassed, ScanReturnsRow, PassedScan
  <2>7. JoinRowPassed'
    BY <2>1, <2>2, <2>3 DEF Current, JoinRowPassed, JoinReturnsRow
  <2> QED BY <2>4, <2>5, <2>6, <2>7 DEF Current
<1> QED BY <1>1, <1>2, <1>3, <1>4, <1>5, <1>6, <1>7, CurrentJoinOuterReturned,
           CurrentJoinInnerReturned DEF Next
THEOREM CurrentInvariant == Spec => [](Control /\ Current)
<1>1. Init => Control /\ Current
  BY ControlInit, CurrentInit
<1>2. (Control /\ Current) /\ [Next]_vars => (Control /\ Current)'
  BY ControlNext, CurrentNext
<1> QED BY <1>1, <1>2, PTL DEF Spec

(* Every variable keeps to its type: in particular the rows the functors   *)
(* hand on are tuples of rows the tables have.                             *)
THEOREM TypeCorrect == Spec => []TypeOK
<1>1. Control /\ Current => TypeOK
  <2>1. SUFFICES ASSUME Control, Current PROVE rows \in Seq(UNION {Tuples(j) : j \in Rel})
    BY DEF Control, SimpleTypes, Current, RowTypes, TypeOK
  <2>2. LastRel \in Rel
    BY <2>1, QueryFacts DEF Control, SimpleTypes
  <2>3. Tuples(LastRel) \subseteq UNION {Tuples(j) : j \in Rel}
    BY <2>2
  <2> QED BY <2>1, <2>3 DEF Current, RowTypes
<1> QED BY <1>1, CurrentInvariant, PTL

(* The outer row that NestLoopNode keeps while it reads the inner table is *)
(* the row under the cursors below it, whatever reads have failed.         *)
THEOREM OuterRowAlwaysCurrent == Spec => []OuterRowIsCurrent
<1>1. Control /\ Current => OuterRowIsCurrent
  BY DEF Current, OuterRowsPassed, OuterRowIsCurrent, Pos
<1> QED BY <1>1, CurrentInvariant, PTL

(***************************************************************************)
(* PART 2. No tuple comes out twice, and none that is not selected: the    *)
(* cursors have moved past every tuple that came out. Ahead is added to    *)
(* the invariant of part 1.                                                *)
(***************************************************************************)

Cursor(r) == IF mJustReset[r] THEN 0 ELSE position[r]

Live(r) == r = 1 \/ ~mNeedStepOuterNode[r]

LessBelow(t, r) ==
    \E i \in 1 .. r - 1 : t[i] < position[i] /\ \A k \in 1 .. i - 1 : t[k] = position[k]

EqualBelow(t, r) == \A k \in 1 .. r - 1 : t[k] = position[k]

(* Scan r has reached or passed tuple t; has passed it.                    *)
Reached(t, r) == LessBelow(t, r) \/ (EqualBelow(t, r) /\ t[r] <= Cursor(r))
Past(t, r)    == LessBelow(t, r) \/ (EqualBelow(t, r) /\ t[r] < position[r])

IteratorsOpen ==
    /\ pc = "next" => exists[Level]
    /\ pc # "done" /\ ~exists[1] => position[1] = 0 /\ ~mJustReset[1]
    /\ \A r \in 2 .. LastRel :
           pc # "done" /\ ~mNeedStepOuterNode[r] => exists[r] \/ scanStatus[r] # "kOK"

CursorsOnRows ==
    /\ \A r \in 2 .. LastRel :
           ~mNeedStepOuterNode[r] => \A q \in 1 .. r - 1 : ~mJustReset[q]
    /\ \A r \in 1 .. LastRel : ScanReturnsRow(r) => ~mJustReset[r]
    /\ \A r \in 2 .. LastRel : JoinReturnsRow(r) => \A q \in 1 .. r : ~mJustReset[q]

RowsReached ==
    /\ \A r \in 1 .. LastRel : Live(r) => \A i \in DOMAIN rows : Reached(rows[i], r)
    /\ \A r \in 1 .. LastRel :
           (ScanReturnsRow(r) \/ JoinReturnsRow(r)) /\ node # Root =>
               \A i \in DOMAIN rows : Past(rows[i], r)

RowsInOrder == \A i, k \in DOMAIN rows : i < k => Before(rows[i], rows[k])

Ahead == IteratorsOpen /\ CursorsOnRows /\ RowsReached /\ RowsInOrder

(***************************************************************************)
(* IteratorsOpen                                                           *)
(***************************************************************************)

LEMMA RelFacts ==
    ASSUME Control
    PROVE  /\ LastRel \in Rel /\ LastRel \in Nat /\ Rel \subseteq Nat \ {0} /\ 1 \in Rel
           /\ 1 .. LastRel \subseteq Rel /\ 2 .. LastRel \subseteq Rel
           /\ Level \in 1 .. LastRel
BY QueryFacts, SizeAssumption DEF Control, SimpleTypes, RunningNode, Rel

LEMMA IteratorsOpenNext ==
    ASSUME Control, IteratorsOpen, [Next]_vars
    PROVE  IteratorsOpen'
<1> USE RelFacts
<1>1. ASSUME NEW r \in Rel, ScanStep(r) PROVE IteratorsOpen'
  <2>1. /\ node = Scan(r) /\ node' = node /\ pc = "step"
        /\ UNCHANGED <<query, mNeedStepOuterNode, scanStatus>>
        /\ InitTupleIteratorIfNeeded(r)
    BY <1>1 DEF ScanStep, Stay, Return, nodes
  <2>2. CASE scanStatus[r] = "kOK" /\ ~exists[r]
    <3>1. /\ exists' = [exists EXCEPT ![r] = TRUE]
          /\ mJustReset' = [mJustReset EXCEPT ![r] = TRUE]
          /\ position' = position
      BY <2>1, <2>2 DEF InitTupleIteratorIfNeeded, CreateIterator
    <3> QED BY <2>1, <3>1 DEF IteratorsOpen, Level, LastRel, Scan, Control, SimpleTypes
  <2>3. CASE ~(scanStatus[r] = "kOK" /\ ~exists[r])
    <3>1. UNCHANGED <<exists, mJustReset, position>>
      BY <2>1, <2>3 DEF InitTupleIteratorIfNeeded, iterators
    <3>2. pc' = "next" => exists[r]
      BY <1>1, <2>3 DEF ScanStep, Return
    <3> QED BY <2>1, <3>1, <3>2 DEF IteratorsOpen, Level, LastRel, Scan
  <2> QED BY <2>2, <2>3
<1>2. ASSUME NEW r \in Rel, ScanNext(r) PROVE IteratorsOpen'
  <2>1. /\ node = Scan(r) /\ node' = node /\ pc = "next" /\ exists[r]
        /\ UNCHANGED <<query, exists, mNeedStepOuterNode>>
        /\ \A q \in Rel \ {r} : scanStatus'[q] = scanStatus[q]
        /\ \A q \in Rel \ {r} : position'[q] = position[q] /\ mJustReset'[q] = mJustReset[q]
    BY <1>2 DEF ScanNext, ScanFindsNoRow, ScanFailsToRead, ScanReads, ScanMoves, Return, Stay,
                MoveCursor, IteratorsOpen, Level, Scan, Control, SimpleTypes
  <2> QED BY <2>1 DEF IteratorsOpen, Level, LastRel, Scan
<1>3. ASSUME NEW r \in Rel, JoinStep(r) PROVE IteratorsOpen'
  BY <1>3 DEF JoinStep, Stay, Return, IteratorsOpen, iterators, nodes, LastRel
<1>4. ASSUME NEW r \in Rel, JoinLoop(r) PROVE IteratorsOpen'
  BY <1>4 DEF JoinLoop, Call, IteratorsOpen, iterators, nodes, LastRel
<1>5. ASSUME NEW r \in Rel \ {1}, JoinOuterReturned(r) PROVE IteratorsOpen'
  <2>1. query' = query /\ pc = "return" /\ pc' # "next"
    BY <1>5 DEF JoinOuterReturned, Resume
  <2>2. CASE ~returned
    BY <1>5, <2>1, <2>2 DEF JoinOuterReturned, IteratorsOpen, iterators, LastRel
  <2>3. CASE returned
    <3>1. /\ mNeedStepOuterNode' = [mNeedStepOuterNode EXCEPT ![r] = FALSE]
          /\ ScanReset(r)
      BY <1>5, <2>3 DEF JoinOuterReturned
    <3>2. /\ \A q \in Rel \ {r} : exists'[q] = exists[q] /\ mJustReset'[q] = mJustReset[q]
          /\ \A q \in Rel \ {r} : scanStatus'[q] = scanStatus[q]
          /\ position' = position
          /\ exists'[r] \/ scanStatus'[r] # "kOK"
      <4>1. CASE scanStatus[r] = "kOK" /\ ~exists[r]
        BY <3>1, <4>1 DEF ScanReset, InitTupleIteratorIfNeeded, CreateIterator, Control, SimpleTypes
      <4>2. CASE scanStatus[r] = "kOK" /\ exists[r]
        BY <3>1, <4>2 DEF ScanReset, Control, SimpleTypes
      <4>3. CASE scanStatus[r] # "kOK"
        BY <3>1, <4>3 DEF ScanReset, InitTupleIteratorIfNeeded, iterators
      <4> QED BY <4>1, <4>2, <4>3
    <3> QED BY <2>1, <3>1, <3>2 DEF IteratorsOpen, LastRel, Control, SimpleTypes
  <2> QED BY <2>2, <2>3
<1>6. ASSUME NEW r \in Rel \ {1}, JoinInnerReturned(r) PROVE IteratorsOpen'
  <2>1. /\ query' = query /\ pc = "return" /\ pc' # "next"
        /\ UNCHANGED <<exists, position, mJustReset, scanStatus>>
        /\ mNeedStepOuterNode' = NeedOuter(r, returned)
    BY <1>6 DEF JoinInnerReturned, Resume, iterators
  <2>2. \A q \in Rel : mNeedStepOuterNode[q] => mNeedStepOuterNode'[q]
    BY <2>1 DEF NeedOuter, Control, SimpleTypes
  <2> QED BY <2>1, <2>2 DEF IteratorsOpen, LastRel
<1>7. CASE RootReturned
  BY <1>7 DEF RootReturned, Call, Stay, IteratorsOpen, iterators, nodes, LastRel
<1>8. CASE End
  BY <1>8 DEF End, Stay, IteratorsOpen
<1>9. CASE UNCHANGED vars
  BY <1>9 DEF vars, iterators, nodes, IteratorsOpen, Level, LastRel
<1> QED BY <1>1, <1>2, <1>3, <1>4, <1>5, <1>6, <1>7, <1>8, <1>9 DEF Next
(***************************************************************************)
(* What the steps do to the cursors                                        *)
(***************************************************************************)

(* ScanStep may create an iterator, which does not move the scan: only the *)
(* first one can be without.                                               *)
LEMMA ScanStepCursors ==
    ASSUME Control, IteratorsOpen, NEW r \in Rel, ScanStep(r)
    PROVE  /\ UNCHANGED <<query, rows, mNeedStepOuterNode, position>>
           /\ \A q \in Rel : Cursor(q)' = Cursor(q)
           /\ \A q \in Rel \ {r} : mJustReset'[q] = mJustReset[q]
           /\ ~(pc' = "return" /\ returned')
<1>1. /\ node = Scan(r) /\ pc = "step"
      /\ UNCHANGED <<query, rows, mNeedStepOuterNode>>
      /\ ~(pc' = "return" /\ returned')
      /\ InitTupleIteratorIfNeeded(r)
  BY DEF ScanStep, Stay, Return, nodes, outcome
<1>2. CASE scanStatus[r] = "kOK" /\ ~exists[r]
  <2>1. position' = position /\ mJustReset' = [mJustReset EXCEPT ![r] = TRUE]
    BY <1>1, <1>2 DEF InitTupleIteratorIfNeeded, CreateIterator
  <2>2. r = 1
    BY <1>1, <1>2, RelFacts DEF IteratorsOpen, Control, LoopsUnderWay, Level, Scan
  <2>3. Cursor(1) = 0
    BY <1>1, <1>2, <2>2 DEF IteratorsOpen, Cursor
  <2>4. \A q \in Rel \ {1} : mJustReset'[q] = mJustReset[q]
    BY <2>1, <2>2 DEF Control, SimpleTypes
  <2>5. mJustReset'[1]
    BY <2>1, <2>2, RelFacts DEF Control, SimpleTypes
  <2>6. \A q \in Rel : Cursor(q)' = Cursor(q)
    BY <2>1, <2>3, <2>4, <2>5 DEF Cursor
  <2> QED BY <1>1, <2>1, <2>2, <2>4, <2>6
<1>3. CASE ~(scanStatus[r] = "kOK" /\ ~exists[r])
  <2>1. UNCHANGED <<mJustReset, position>>
    BY <1>1, <1>3 DEF InitTupleIteratorIfNeeded, iterators
  <2> QED BY <1>1, <2>1 DEF Cursor
<1> QED BY <1>2, <1>3

(* A turn of the loop of ScanNode::Step moves its own cursor only, and     *)
(* never back; where it returns a row, it has moved on by one.             *)
LEMMA ScanNextCursors ==
    ASSUME Control, NEW r \in Rel, ScanNext(r)
    PROVE  /\ UNCHANGED <<query, mNeedStepOuterNode>>
           /\ node = Scan(r) /\ node' = node
           /\ \A q \in Rel \ {r} : position'[q] = position[q] /\ mJustReset'[q] = mJustReset[q]
           /\ Cursor(r) \in Nat /\ Cursor(r)' \in Nat
           /\ Cursor(r)' >= Cursor(r)
           /\ pc' = "return" /\ returned' =>
                  /\ ~mJustReset'[r] /\ position'[r] = Cursor(r) + 1
                  /\ Emit(Scan(r), <<position'[r]>>)
           /\ ~(pc' = "return" /\ returned') => UNCHANGED rows
<1> USE DEF Cursor
<1>1. Cursor(r) \in Nat /\ position[r] \in Nat /\ mJustReset[r] \in BOOLEAN
  BY SizeAssumption DEF Control, SimpleTypes
<1>2. CASE ScanFindsNoRow(r)
  <2>1. /\ UNCHANGED <<query, mNeedStepOuterNode, rows, position>>
        /\ node = Scan(r) /\ node' = node
        /\ ~(pc' = "return" /\ returned')
    BY <1>2 DEF ScanFindsNoRow, Return, outcome
  <2>2. mJustReset' = mJustReset \/ mJustReset' = [mJustReset EXCEPT ![r] = FALSE]
    BY <1>2 DEF ScanFindsNoRow, MoveCursor
  <2> QED BY <1>1, <2>1, <2>2 DEF Control, SimpleTypes
<1>3. ASSUME ScanMoves(r)
      PROVE  /\ UNCHANGED <<query, mNeedStepOuterNode>>
             /\ node = Scan(r)
             /\ \A q \in Rel \ {r} : position'[q] = position[q] /\ mJustReset'[q] = mJustReset[q]
             /\ ~mJustReset'[r] /\ position'[r] = Cursor(r) + 1 /\ Following(r) = Cursor(r) + 1
  BY <1>1, <1>3 DEF ScanMoves, MoveCursor, Following, Control, SimpleTypes
<1>4. CASE ScanFailsToRead(r)
  BY <1>1, <1>3, <1>4 DEF ScanFailsToRead, Stay
<1>5. CASE ScanReads(r)
  <2>1. node' = node
    BY <1>5 DEF ScanReads, Stay, Return
  <2>2. (pc' = "return" /\ returned') => Emit(Scan(r), <<position'[r]>>)
    BY <1>3, <1>5 DEF ScanReads, Stay
  <2>3. ~(pc' = "return" /\ returned') => UNCHANGED rows
    BY <1>5 DEF ScanReads, Return
  <2> QED BY <1>1, <1>3, <1>5, <2>1, <2>2, <2>3 DEF ScanReads
<1> QED BY <1>2, <1>4, <1>5 DEF ScanNext

(* A row of the outer node sets back the cursor of the inner one only.     *)
LEMMA JoinOuterCursors ==
    ASSUME Control, NEW r \in Rel \ {1}, JoinOuterReturned(r), returned
    PROVE  /\ UNCHANGED <<query, rows, position>>
           /\ r \in 2 .. LastRel
           /\ mNeedStepOuterNode' = [mNeedStepOuterNode EXCEPT ![r] = FALSE]
           /\ \A q \in Rel \ {r} : mJustReset'[q] = mJustReset[q]
           /\ pc' = "loop"
           /\ \A q \in Rel : q > r => mNeedStepOuterNode[q]
<1>1. /\ UNCHANGED <<query, rows>> /\ ScanReset(r) /\ pc' = "loop"
      /\ mNeedStepOuterNode' = [mNeedStepOuterNode EXCEPT ![r] = FALSE]
  BY DEF JoinOuterReturned, Resume, outcome
<1>2. r \in 2 .. LastRel
  BY RelFacts DEF JoinOuterReturned
<1>3. position' = position
  BY <1>1, ScanResetTypes DEF Control
<1>4. \A q \in Rel \ {r} : mJustReset'[q] = mJustReset[q]
  BY <1>1 DEF ScanReset, InitTupleIteratorIfNeeded, CreateIterator, iterators, Control, SimpleTypes
<1>5. \A q \in Rel : q > r => mNeedStepOuterNode[q]
  BY <1>2, RelFacts DEF JoinOuterReturned, Control, LoopsUnderWay, Level, Outer, Scan, Join
<1> QED BY <1>1, <1>2, <1>3, <1>4, <1>5

(* Whichever node is Outer(r), it has returned a row.                      *)
LEMMA OuterReturnsRow ==
    ASSUME Control, NEW r \in Rel \ {1}, JoinOuterReturned(r), returned
    PROVE  (r = 2 /\ ScanReturnsRow(1)) \/ (r # 2 /\ JoinReturnsRow(r - 1))
BY DEF JoinOuterReturned, Outer, ScanReturnsRow, JoinReturnsRow

(***************************************************************************)
(* CursorsOnRows                                                           *)
(***************************************************************************)

LEMMA CursorsOnRowsKept ==
    ASSUME Control, CursorsOnRows, query' = query,
           UNCHANGED mJustReset,
           \A r \in Rel : mNeedStepOuterNode[r] => mNeedStepOuterNode'[r],
           ~(pc' = "return" /\ returned')
    PROVE  CursorsOnRows'
<1>1. LastRel' = LastRel
  BY DEF LastRel
<1> QED BY <1>1, RelFacts DEF CursorsOnRows, ScanReturnsRow, JoinReturnsRow

LEMMA CursorsOnRowsNext ==
    ASSUME Control, IteratorsOpen, CursorsOnRows, [Next]_vars
    PROVE  CursorsOnRows'
<1>1. ASSUME NEW r \in Rel, ScanStep(r) PROVE CursorsOnRows'
  <2>1. /\ UNCHANGED <<query, mNeedStepOuterNode>> /\ ~(pc' = "return" /\ returned')
        /\ \A q \in Rel \ {r} : mJustReset'[q] = mJustReset[q]
    BY <1>1, ScanStepCursors
  <2>2. \A q \in Rel : q > r => mNeedStepOuterNode[q]
    BY <1>1 DEF ScanStep, Control, LoopsUnderWay, Level, Scan
  <2>3. LastRel' = LastRel
    BY <2>1 DEF LastRel
  <2>4. ASSUME NEW j \in 2 .. LastRel, ~mNeedStepOuterNode'[j], NEW q \in 1 .. j - 1
        PROVE  ~mJustReset'[q]
    <3>1. j <= r /\ q # r /\ q \in Rel
      BY <2>1, <2>2, <2>4, RelFacts, SizeAssumption DEF Rel
    <3> QED BY <2>1, <2>4, <3>1 DEF CursorsOnRows
  <2> QED BY <2>1, <2>3, <2>4 DEF CursorsOnRows, ScanReturnsRow, JoinReturnsRow
<1>2. ASSUME NEW r \in Rel, ScanNext(r) PROVE CursorsOnRows'
  <2>1. /\ UNCHANGED <<query, mNeedStepOuterNode>> /\ node = Scan(r) /\ node' = node
        /\ \A q \in Rel \ {r} : mJustReset'[q] = mJustReset[q]
        /\ pc' = "return" /\ returned' => ~mJustReset'[r]
    BY <1>2, ScanNextCursors
  <2>2. \A q \in Rel : q > r => mNeedStepOuterNode[q]
    BY <2>1 DEF Control, LoopsUnderWay, Level, Scan
  <2>3. LastRel' = LastRel
    BY <2>1 DEF LastRel
  <2>4. ASSUME NEW j \in 2 .. LastRel, ~mNeedStepOuterNode'[j], NEW q \in 1 .. j - 1
        PROVE  ~mJustReset'[q]
    <3>1. j <= r /\ q # r /\ q \in Rel
      BY <2>1, <2>2, <2>4, RelFacts, SizeAssumption DEF Rel
    <3> QED BY <2>1, <2>4, <3>1 DEF CursorsOnRows
  <2> QED BY <2>1, <2>3, <2>4 DEF CursorsOnRows, ScanReturnsRow, JoinReturnsRow, Scan, Join
<1>3. ASSUME NEW r \in Rel, JoinStep(r) PROVE CursorsOnRows'
  BY <1>3, CursorsOnRowsKept DEF JoinStep, Stay, Return, iterators, nodes
<1>4. ASSUME NEW r \in Rel, JoinLoop(r) PROVE CursorsOnRows'
  BY <1>4, CursorsOnRowsKept DEF JoinLoop, Call, iterators, nodes
<1>5. ASSUME NEW r \in Rel \ {1}, JoinOuterReturned(r) PROVE CursorsOnRows'
  <2>1. CASE ~returned
    BY <1>5, <2>1, CursorsOnRowsKept DEF JoinOuterReturned, iterators
  <2>2. CASE returned
    <3>1. /\ query' = query /\ r \in 2 .. LastRel /\ pc' = "loop"
          /\ mNeedStepOuterNode' = [mNeedStepOuterNode EXCEPT ![r] = FALSE]
          /\ \A q \in Rel \ {r} : mJustReset'[q] = mJustReset[q]
          /\ \A q \in Rel : q > r => mNeedStepOuterNode[q]
      BY <1>5, <2>2, JoinOuterCursors
    <3>2. \A q \in 1 .. r - 1 : ~mJustReset[q]
      <4>1. CASE r = 2 /\ ScanReturnsRow(1)
        <5>1. 1 \in 1 .. LastRel /\ \A q \in 1 .. r - 1 : q = 1
          BY <4>1, RelFacts
        <5> QED BY <4>1, <5>1 DEF CursorsOnRows
      <4>2. CASE r # 2 /\ JoinReturnsRow(r - 1)
        <5>1. r - 1 \in 2 .. LastRel
          BY <3>1, <4>2, RelFacts
        <5> QED BY <4>2, <5>1 DEF CursorsOnRows
      <4> QED BY <1>5, <2>2, <4>1, <4>2, OuterReturnsRow
    <3>3. LastRel' = LastRel
      BY <3>1 DEF LastRel
    <3>4. ASSUME NEW j \in 2 .. LastRel, ~mNeedStepOuterNode'[j], NEW q \in 1 .. j - 1
          PROVE  ~mJustReset'[q]
      <4>1. j \in Rel /\ j <= r /\ q # r /\ q \in Rel
        BY <3>1, <3>4, RelFacts, SizeAssumption DEF Rel, Control, SimpleTypes
      <4>2. CASE j = r
        BY <3>1, <3>2, <4>1, <4>2
      <4>3. CASE j # r
        <5>1. ~mNeedStepOuterNode[j]
          BY <3>1, <3>4, <4>1, <4>3 DEF Control, SimpleTypes
        <5> QED BY <3>1, <4>1, <5>1 DEF CursorsOnRows
      <4> QED BY <4>2, <4>3
    <3> QED BY <3>1, <3>3, <3>4 DEF CursorsOnRows, ScanReturnsRow, JoinReturnsRow
  <2> QED BY <2>1, <2>2
<1>6. ASSUME NEW r \in Rel \ {1}, JoinInnerReturned(r) PROVE CursorsOnRows'
  <2>1. /\ UNCHANGED <<query, mJustReset>> /\ mNeedStepOuterNode' = NeedOuter(r, returned)
        /\ node = Scan(r) /\ node' = Join(r) /\ pc = "return" /\ r \in 2 .. LastRel
    BY <1>6 DEF JoinInnerReturned, Inner, Resume, iterators
  <2>2. \A q \in Rel : mNeedStepOuterNode[q] => mNeedStepOuterNode'[q]
    BY <2>1 DEF NeedOuter, Control, SimpleTypes
  <2>3. CASE ~(pc' = "return" /\ returned')
    BY <2>1, <2>2, <2>3, CursorsOnRowsKept
  <2>4. CASE pc' = "return" /\ returned'
    <3>1. returned
      BY <1>6, <2>4 DEF JoinInnerReturned, Resume
    <3>2. ~mNeedStepOuterNode[r]
      BY <2>1, RelFacts DEF Control, LoopsUnderWay, Level, Scan
    <3>3. \A q \in 1 .. r - 1 : ~mJustReset[q]
      BY <2>1, <3>2 DEF CursorsOnRows
    <3>4. ~mJustReset[r]
      BY <2>1, <3>1, RelFacts DEF CursorsOnRows, ScanReturnsRow
    <3>5. \A q \in 1 .. r : ~mJustReset[q]
      BY <2>1, <3>3, <3>4, RelFacts
    <3>6. LastRel' = LastRel
      BY <2>1 DEF LastRel
    <3> QED BY <2>1, <2>2, <3>5, <3>6, RelFacts
            DEF CursorsOnRows, ScanReturnsRow, JoinReturnsRow, Scan, Join
  <2> QED BY <2>3, <2>4
<1>7. CASE RootReturned
  BY <1>7, CursorsOnRowsKept DEF RootReturned, Call, Stay, iterators, nodes
<1>8. CASE End
  BY <1>8, CursorsOnRowsKept DEF End, Stay, nodes
<1>9. CASE UNCHANGED vars
  BY <1>9 DEF vars, iterators, nodes, CursorsOnRows, ScanReturnsRow, JoinReturnsRow, LastRel
<1> QED BY <1>1, <1>2, <1>3, <1>4, <1>5, <1>6, <1>7, <1>8, <1>9 DEF Next
(***************************************************************************)
(* RowsReached, RowsInOrder                                                *)
(***************************************************************************)

(* What a scan has reached or passed depends on the cursors up to its own. *)
LEMMA ReachedKept ==
    ASSUME NEW t, NEW r \in Nat \ {0}, \A q \in 1 .. r : t[q] \in Nat,
           \A q \in 1 .. r - 1 : position'[q] = position[q],
           Cursor(r) \in Nat, Cursor(r)' \in Nat, Cursor(r)' >= Cursor(r),
           Reached(t, r)
    PROVE  Reached(t, r)'
BY DEF Reached, LessBelow, EqualBelow

LEMMA ReachedIsPast ==
    ASSUME NEW t, NEW r \in Nat \ {0}, \A q \in 1 .. r : t[q] \in Nat,
           \A q \in 1 .. r - 1 : position'[q] = position[q],
           Cursor(r) \in Nat, position'[r] = Cursor(r) + 1,
           Reached(t, r)
    PROVE  Past(t, r)'
BY DEF Reached, Past, LessBelow, EqualBelow

(* A tuple that one node has passed is below the cursors of all above it.  *)
LEMMA PastIsLessBelow ==
    ASSUME NEW t, NEW r \in Nat \ {0}, Past(t, r)
    PROVE  LessBelow(t, r + 1)
<1>1. CASE LessBelow(t, r)
  BY <1>1 DEF LessBelow
<1>2. CASE EqualBelow(t, r) /\ t[r] < position[r]
  BY <1>2 DEF EqualBelow, LessBelow
<1> QED BY <1>1, <1>2 DEF Past

LEMMA RowFacts ==
    ASSUME Control, Current
    PROVE  /\ rows \in Seq(Tuples(LastRel))
           /\ \A i \in DOMAIN rows : rows[i] \in Tuples(LastRel)
           /\ \A i \in DOMAIN rows : \A q \in 1 .. LastRel : rows[i][q] \in Nat
           /\ \A q \in Rel : Cursor(q) \in Nat /\ position[q] \in Nat
<1>1. rows \in Seq(Tuples(LastRel))
  BY DEF Current, RowTypes
<1>2. \A i \in DOMAIN rows : rows[i] \in Tuples(LastRel)
  BY <1>1
<1>3. Row \subseteq Nat
  BY SizeAssumption DEF Row
<1>4. \A q \in Rel : Cursor(q) \in Nat /\ position[q] \in Nat
  BY SizeAssumption DEF Cursor, Control, SimpleTypes
<1> QED BY <1>1, <1>2, <1>3, <1>4 DEF Tuples

LEMMA RowsReachedKept ==
    ASSUME Control, RowsReached,
           UNCHANGED <<query, position, rows>>,
           \A q \in Rel : Cursor(q)' = Cursor(q),
           \A r \in Rel : mNeedStepOuterNode[r] => mNeedStepOuterNode'[r],
           ~(pc' = "return" /\ returned')
    PROVE  RowsReached'
<1>1. LastRel' = LastRel
  BY DEF LastRel
<1>2. ASSUME NEW r \in 1 .. LastRel, Live(r)', NEW t \in {rows[i] : i \in DOMAIN rows}
      PROVE  Reached(t, r)'
  <2>1. Live(r)
    BY <1>2, RelFacts DEF Live
  <2>2. Reached(t, r)
    BY <2>1 DEF RowsReached
  <2> QED BY <2>2, RelFacts DEF Reached, LessBelow, EqualBelow
<1> QED BY <1>1, <1>2 DEF RowsReached, ScanReturnsRow, JoinReturnsRow

(* A tuple is added that all cursors are on, after those that came out.    *)
LEMMA RootEmits ==
    ASSUME NEW l \in Nat \ {0}, NEW S, S = Tuples(l), NEW s \in Seq(S), NEW t \in S,
           \A i \in DOMAIN s : Before(s[i], t),
           \A i, k \in DOMAIN s : i < k => Before(s[i], s[k])
    PROVE  LET u == Append(s, t) IN
           /\ \A i \in DOMAIN u : u[i] = t \/ \E k \in DOMAIN s : u[i] = s[k]
           /\ \A i, k \in DOMAIN u : i < k => Before(u[i], u[k])
<1> DEFINE u == Append(s, t)
<1>1. /\ DOMAIN u = 1 .. Len(s) + 1 /\ DOMAIN s = 1 .. Len(s) /\ Len(s) \in Nat
      /\ u[Len(s) + 1] = t
      /\ \A i \in 1 .. Len(s) : u[i] = s[i]
  BY AppendProperties
<1>2. \A i \in DOMAIN u : i \in DOMAIN s \/ i = Len(s) + 1
  BY <1>1
<1>3. ASSUME NEW i \in DOMAIN u, NEW k \in DOMAIN u, i < k PROVE Before(u[i], u[k])
  <2>1. i \in DOMAIN s
    BY <1>1, <1>3
  <2>2. CASE k \in DOMAIN s
    BY <1>1, <1>3, <2>1, <2>2
  <2>3. CASE k = Len(s) + 1
    BY <1>1, <2>1, <2>3
  <2> QED BY <1>2, <2>2, <2>3
<1> QED BY <1>1, <1>2, <1>3

LEMMA LastOfAppend ==
    ASSUME NEW S, NEW s \in Seq(S), NEW t, NEW T, Append(s, t) \in Seq(T)
    PROVE  t \in T
<1>1. Len(s) + 1 \in DOMAIN Append(s, t) /\ Append(s, t)[Len(s) + 1] = t
  OBVIOUS
<1> QED BY <1>1

LEMMA RowsReachedNext ==
    ASSUME Control, Control', Current, Current', IteratorsOpen, CursorsOnRows, CursorsOnRows',
           RowsReached, RowsInOrder, [Next]_vars
    PROVE  RowsReached' /\ RowsInOrder'
<1>1. ASSUME NEW r \in Rel, ScanStep(r) PROVE RowsReached' /\ RowsInOrder'
  <2>1. /\ UNCHANGED <<query, rows, mNeedStepOuterNode, position>>
        /\ \A q \in Rel : Cursor(q)' = Cursor(q)
        /\ ~(pc' = "return" /\ returned')
    BY <1>1, ScanStepCursors
  <2> QED BY <2>1, RowsReachedKept DEF RowsInOrder
<1>2. ASSUME NEW r \in Rel, ScanNext(r) PROVE RowsReached' /\ RowsInOrder'
  <2>1. /\ UNCHANGED <<query, mNeedStepOuterNode>>
        /\ node = Scan(r) /\ node' = node
        /\ \A q \in Rel \ {r} : position'[q] = position[q] /\ mJustReset'[q] = mJustReset[q]
        /\ Cursor(r) \in Nat /\ Cursor(r)' \in Nat
        /\ Cursor(r)' >= Cursor(r)
    BY <1>2, ScanNextCursors
  <2>2. LastRel' = LastRel /\ Root' = Root
    BY <2>1 DEF LastRel, Root
  <2>3. r \in 1 .. LastRel /\ Live(r)
    BY <2>1, RelFacts DEF Live, Level, Scan, Control, LoopsUnderWay
  <2>4. \A q \in 1 .. LastRel : Live(q) => q <= r
    BY <2>1, RelFacts DEF Live, Level, Scan, Control, LoopsUnderWay
  <2>5. ASSUME NEW q \in 1 .. LastRel, Live(q)', NEW t \in {rows[i] : i \in DOMAIN rows}
        PROVE  Reached(t, q)'
    <3>1. Live(q) /\ q <= r /\ q \in Nat \ {0}
      BY <2>1, <2>4, <2>5 DEF Live
    <3>2. Reached(t, q) /\ \A k \in 1 .. q : t[k] \in Nat
      BY <3>1, RowFacts, RelFacts DEF RowsReached
    <3>3. \A k \in 1 .. q - 1 : position'[k] = position[k]
      BY <2>1, <3>1, RelFacts
    <3>4. Cursor(q) \in Nat /\ Cursor(q)' \in Nat /\ Cursor(q)' >= Cursor(q)
      <4>1. q # r => Cursor(q)' = Cursor(q)
        BY <2>1, RelFacts DEF Cursor
      <4> QED BY <2>1, <4>1, RowFacts, RelFacts
    <3> QED BY <3>1, <3>2, <3>3, <3>4, ReachedKept
  <2>6. CASE ~(pc' = "return" /\ returned')
    <3>1. rows' = rows
      BY <1>2, <2>6, ScanNextCursors
    <3> QED BY <2>2, <2>5, <2>6, <3>1 DEF RowsReached, RowsInOrder, ScanReturnsRow, JoinReturnsRow
  <2>7. CASE pc' = "return" /\ returned'
    <3>1. ~mJustReset'[r] /\ position'[r] = Cursor(r) + 1 /\ Emit(Scan(r), <<position'[r]>>)
      BY <1>2, <2>7, ScanNextCursors
    <3>2. ASSUME NEW t \in {rows[i] : i \in DOMAIN rows} PROVE Past(t, r)'
      <4>1. PICK i \in DOMAIN rows : t = rows[i]
        BY <3>2
      <4>2. Reached(t, r) /\ (\A k \in 1 .. r : t[k] \in Nat) /\ r \in Nat \ {0}
        BY <2>3, <4>1, RowFacts, RelFacts DEF RowsReached
      <4>3. \A k \in 1 .. r - 1 : position'[k] = position[k]
        BY <2>1, <2>3, RelFacts
      <4> QED BY <2>1, <3>1, <4>2, <4>3, ReachedIsPast
    <3>3. CASE Scan(r) = Root
      <4>1. r = 1 /\ LastRel = 1
        BY <3>3, RelFacts DEF Root, Scan, Join
      <4>2. PICK e : e = <<position'[1]>>
        OBVIOUS
      <4>3. rows' = Append(rows, e)
        BY <3>1, <3>3, <4>1, <4>2 DEF Emit
      <4>4. \A i \in DOMAIN rows : Before(rows[i], e)
        <5>1. TAKE i \in DOMAIN rows
        <5>2. PICK t : t = rows[i]
          OBVIOUS
        <5>3. t[1] < position'[1]
          BY <3>2, <4>1, <5>2 DEF Past, LessBelow
        <5>4. DOMAIN rows[i] = 1 .. 1
          BY <4>1, RowFacts DEF Tuples
        <5> QED BY <4>2, <5>2, <5>3, <5>4 DEF Before
      <4>5. e \in Tuples(1)
        BY <2>2, <4>1, <4>3, RowFacts, LastOfAppend DEF Current, RowTypes
      <4>6. /\ \A i \in DOMAIN rows' : rows'[i] = e \/ \E k \in DOMAIN rows : rows'[i] = rows[k]
            /\ \A i, k \in DOMAIN rows' : i < k => Before(rows'[i], rows'[k])
        BY <4>1, <4>3, <4>4, <4>5, RowFacts, RootEmits DEF RowsInOrder
      <4>7. Reached(e, 1)'
        BY <2>1, <3>1, <4>1, <4>2 DEF Reached, EqualBelow, Cursor
      <4>8. \A t : t = e \/ t \in {rows[i] : i \in DOMAIN rows} => Reached(t, 1)'
        <5>1. Live(1)' /\ 1 \in 1 .. LastRel
          BY <4>1 DEF Live
        <5> QED BY <2>5, <4>7, <5>1
      <4>9. \A i \in DOMAIN rows' : Reached(rows[i], 1)'
        BY <4>6, <4>8
      <4> QED BY <2>1, <2>2, <3>3, <4>1, <4>6, <4>9 DEF RowsReached, RowsInOrder
    <3>4. CASE Scan(r) # Root
      <4>1. rows' = rows
        BY <3>1, <3>4 DEF Emit
      <4>2. \A q \in 1 .. LastRel : ScanReturnsRow(q)' \/ JoinReturnsRow(q)' => q = r
        BY <2>1 DEF ScanReturnsRow, JoinReturnsRow, Scan, Join
      <4> QED BY <2>2, <2>5, <3>2, <4>1, <4>2 DEF RowsReached, RowsInOrder
    <3> QED BY <3>3, <3>4
  <2> QED BY <2>6, <2>7
<1>3. ASSUME NEW r \in Rel, JoinStep(r) PROVE RowsReached' /\ RowsInOrder'
  BY <1>3, RowsReachedKept
     DEF JoinStep, Stay, Return, iterators, nodes, outcome, Cursor, RowsInOrder
<1>4. ASSUME NEW r \in Rel, JoinLoop(r) PROVE RowsReached' /\ RowsInOrder'
  BY <1>4, RowsReachedKept DEF JoinLoop, Call, iterators, nodes, outcome, Cursor, RowsInOrder
<1>5. ASSUME NEW r \in Rel \ {1}, JoinOuterReturned(r) PROVE RowsReached' /\ RowsInOrder'
  <2>1. CASE ~returned
    BY <1>5, <2>1, RowsReachedKept DEF JoinOuterReturned, iterators, outcome, Cursor, RowsInOrder
  <2>2. CASE returned
    <3>1. /\ UNCHANGED <<query, rows, position>> /\ r \in 2 .. LastRel /\ pc' = "loop"
          /\ mNeedStepOuterNode' = [mNeedStepOuterNode EXCEPT ![r] = FALSE]
          /\ \A q \in Rel \ {r} : mJustReset'[q] = mJustReset[q]
      BY <1>5, <2>2, JoinOuterCursors
    <3>2. LastRel' = LastRel
      BY <3>1 DEF LastRel
    <3>3. \A i \in DOMAIN rows : Past(rows[i], r - 1)
      <4>1. CASE r = 2 /\ ScanReturnsRow(1)
        <5>1. node # Root /\ 1 \in 1 .. LastRel /\ r - 1 = 1
          BY <3>1, <4>1, RelFacts DEF ScanReturnsRow, Root, Scan, Join
        <5> QED BY <4>1, <5>1 DEF RowsReached
      <4>2. CASE r # 2 /\ JoinReturnsRow(r - 1)
        <5>1. node # Root /\ r - 1 \in 1 .. LastRel
          BY <3>1, <4>2, RelFacts DEF JoinReturnsRow, Root, Scan, Join
        <5> QED BY <4>2, <5>1 DEF RowsReached
      <4> QED BY <1>5, <2>2, <4>1, <4>2, OuterReturnsRow
    <3>4. \A i \in DOMAIN rows : LessBelow(rows[i], r)
      <4>1. r - 1 \in Nat \ {0} /\ (r - 1) + 1 = r
        BY <3>1, RelFacts
      <4> QED BY <3>3, <4>1, PastIsLessBelow
    <3>5. ASSUME NEW q \in 1 .. LastRel, Live(q)', NEW t \in {rows[i] : i \in DOMAIN rows}
          PROVE  Reached(t, q)'
      <4>1. CASE q = r
        BY <3>1, <3>4, <4>1 DEF Reached, LessBelow
      <4>2. CASE q # r
        <5>1. Live(q)
          BY <3>1, <3>5, <4>2, RelFacts DEF Live, Control, SimpleTypes
        <5>2. Reached(t, q)
          BY <5>1 DEF RowsReached
        <5>3. Cursor(q)' = Cursor(q)
          BY <3>1, <4>2, RelFacts DEF Cursor
        <5> QED BY <3>1, <5>2, <5>3 DEF Reached, LessBelow, EqualBelow
      <4> QED BY <4>1, <4>2
    <3> QED BY <3>1, <3>2, <3>5 DEF RowsReached, RowsInOrder, ScanReturnsRow, JoinReturnsRow
  <2> QED BY <2>1, <2>2
<1>6. ASSUME NEW r \in Rel \ {1}, JoinInnerReturned(r) PROVE RowsReached' /\ RowsInOrder'
  <2>1. /\ UNCHANGED <<query, position, mJustReset>> /\ mNeedStepOuterNode' = NeedOuter(r, returned)
        /\ node = Scan(r) /\ node' = Join(r) /\ pc = "return" /\ r \in 2 .. LastRel
    BY <1>6, RelFacts DEF JoinInnerReturned, Inner, Resume, iterators
  <2>2. \A q \in Rel : mNeedStepOuterNode[q] => mNeedStepOuterNode'[q]
    BY <2>1 DEF NeedOuter, Control, SimpleTypes
  <2>3. (\A q \in Rel : Cursor(q)' = Cursor(q)) /\ LastRel' = LastRel /\ Root' = Root
    BY <2>1 DEF Cursor, LastRel, Root
  <2>4. CASE ~(pc' = "return" /\ returned')
    <3>1. rows' = rows
      BY <1>6, <2>4 DEF JoinInnerReturned, Resume
    <3> QED BY <2>1, <2>2, <2>3, <2>4, <3>1, RowsReachedKept DEF RowsInOrder
  <2>5. CASE pc' = "return" /\ returned'
    <3>1. returned /\ Emit(Join(r), Append(outerRow[r], innerRow[r]))
      BY <1>6, <2>5 DEF JoinInnerReturned, Resume
    <3>2. \A i \in DOMAIN rows : Past(rows[i], r)
      <4>1. ScanReturnsRow(r) /\ node # Root /\ r \in 1 .. LastRel
        BY <2>1, <3>1, RelFacts DEF ScanReturnsRow, Root, Scan, Join
      <4> QED BY <4>1 DEF RowsReached
    <3>3. \A q \in 1 .. LastRel : ScanReturnsRow(q)' \/ JoinReturnsRow(q)' => q = r
      BY <2>1 DEF ScanReturnsRow, JoinReturnsRow, Scan, Join
    <3>4. ASSUME NEW q \in 1 .. LastRel, Live(q)', NEW t \in {rows[i] : i \in DOMAIN rows}
          PROVE  Reached(t, q)'
      <4>1. Live(q)
        BY <2>2, <3>4, RelFacts DEF Live
      <4>2. Reached(t, q)
        BY <4>1 DEF RowsReached
      <4>3. Cursor(q)' = Cursor(q) /\ position' = position
        BY <2>1, <2>3, RelFacts
      <4> QED BY <4>2, <4>3 DEF Reached, LessBelow, EqualBelow
    <3>5. CASE r # LastRel
      <4>1. rows' = rows
        BY <3>1, <3>5, <2>1, RelFacts DEF Emit, Root, Scan, Join
      <4>2. ASSUME NEW t \in {rows[i] : i \in DOMAIN rows} PROVE Past(t, r)'
        BY <2>1, <3>2 DEF Past, LessBelow, EqualBelow
      <4>3. RowsReached'
        BY <2>3, <3>3, <3>4, <4>1, <4>2 DEF RowsReached
      <4> QED BY <4>1, <4>3 DEF RowsInOrder
    <3>6. CASE r = LastRel
      <4>1. node' = Root
        BY <2>1, <3>6, RelFacts DEF Root
      <4>2. Append(outerRow[r], innerRow[r]) = Pos(r)
        <5>1. outerRow[r] = Pos(r - 1)
          BY <2>1, RelFacts DEF Current, OuterRowsPassed, Control, LoopsUnderWay, Level, Scan
        <5>2. innerRow[r] = position[r]
          BY <2>1, <3>1, RelFacts DEF Current, ScanRowPassed, ScanReturnsRow
        <5> QED BY <2>1, <5>1, <5>2, AppendPos, RelFacts DEF Pos
      <4>3. rows' = Append(rows, Pos(r))
        BY <2>1, <2>3, <3>1, <4>1, <4>2 DEF Emit
      <4>4. Pos(r) \in Tuples(LastRel)
        BY <2>3, <4>3, RowFacts, LastOfAppend DEF Current, RowTypes
      <4>5. \A i \in DOMAIN rows : Before(rows[i], Pos(r))
        <5>1. TAKE i \in DOMAIN rows
        <5>2. DOMAIN rows[i] = 1 .. r
          BY <3>6, RowFacts DEF Tuples
        <5>3. Past(rows[i], r) /\ \A q \in 1 .. r : Pos(r)[q] = position[q]
          BY <3>2 DEF Pos
        <5>4. CASE LessBelow(rows[i], r)
          BY <2>1, <5>2, <5>3, <5>4, RelFacts DEF LessBelow, Before
        <5>5. CASE EqualBelow(rows[i], r) /\ rows[i][r] < position[r]
          BY <2>1, <5>2, <5>3, <5>5, RelFacts DEF EqualBelow, Before
        <5> QED BY <5>3, <5>4, <5>5 DEF Past
      <4>6. /\ \A i \in DOMAIN rows' : rows'[i] = Pos(r) \/ \E k \in DOMAIN rows : rows'[i] = rows[k]
            /\ \A i, k \in DOMAIN rows' : i < k => Before(rows'[i], rows'[k])
        BY <4>3, <4>4, <4>5, RowFacts, RelFacts, RootEmits DEF RowsInOrder
      <4>7. PICK e : e = Pos(r)
        OBVIOUS
      <4>8. ASSUME NEW q \in 1 .. LastRel PROVE Reached(e, q)'
        <5>1. ~mJustReset'[q]
          <6>1. JoinReturnsRow(r)'
            BY <2>1, <2>5 DEF JoinReturnsRow
          <6> QED BY <2>1, <2>3, <3>6, <6>1 DEF CursorsOnRows
        <5>2. \A k \in 1 .. q : e[k] = position'[k]
          BY <2>1, <3>6, <4>7, RelFacts DEF Pos
        <5>3. position'[q] \in Nat
          BY <2>1, RowFacts, RelFacts
        <5> QED BY <5>1, <5>2, <5>3, RelFacts DEF Reached, EqualBelow, Cursor
      <4>9. ASSUME NEW q \in 1 .. LastRel, Live(q)', NEW i \in DOMAIN rows'
            PROVE  Reached(rows[i], q)'
        BY <3>4, <4>6, <4>7, <4>8, <4>9
      <4> QED BY <2>3, <4>1, <4>6, <4>9 DEF RowsReached, RowsInOrder
    <3> QED BY <3>5, <3>6
  <2> QED BY <2>4, <2>5
<1>7. CASE RootReturned
  BY <1>7, RowsReachedKept
     DEF RootReturned, Call, Stay, iterators, nodes, outcome, Cursor, RowsInOrder
<1>8. CASE End
  BY <1>8, RowsReachedKept DEF End, Stay, nodes, Cursor, RowsInOrder
<1>9. CASE UNCHANGED vars
  BY <1>9 DEF vars, iterators, nodes, outcome, RowsReached, RowsInOrder, Reached, Past, LessBelow,
              EqualBelow, Cursor, Live, ScanReturnsRow, JoinReturnsRow, LastRel, Root
<1> QED BY <1>1, <1>2, <1>3, <1>4, <1>5, <1>6, <1>7, <1>8, <1>9 DEF Next

LEMMA AheadInit == Init => Ahead
<1> SUFFICES ASSUME Init PROVE Ahead
    OBVIOUS
<1>1. 1 .. LastRel \subseteq Rel /\ 2 .. LastRel \subseteq Rel /\ 1 \in Rel
  BY QueryFacts, SizeAssumption DEF Init, Rel
<1> QED BY <1>1 DEF Init, Ahead, IteratorsOpen, CursorsOnRows, RowsReached, RowsInOrder,
                    ScanReturnsRow, JoinReturnsRow

THEOREM AheadInvariant == Spec => [](Control /\ Current /\ Ahead)
<1> DEFINE IInv == Control /\ Current /\ Ahead
<1>1. Init => IInv
  BY ControlInit, CurrentInit, AheadInit
<1>2. IInv /\ [Next]_vars => IInv'
  <2>1. SUFFICES ASSUME IInv, [Next]_vars PROVE IInv'
    OBVIOUS
  <2>2. Control' /\ Current'
    BY <2>1, ControlNext, CurrentNext
  <2>3. IteratorsOpen' /\ CursorsOnRows'
    BY <2>1, IteratorsOpenNext, CursorsOnRowsNext DEF Ahead
  <2> QED BY <2>1, <2>2, <2>3, RowsReachedNext DEF Ahead
<1> QED BY <1>1, <1>2, PTL DEF Spec

(* Whatever reads fail, the tuples that come out of the nested loops are   *)
(* selected by the statement, in the order of the loops, and each once.    *)
THEOREM RowsAlwaysSelectedOnce == Spec => []RowsSelectedOnce
<1>1. Control /\ Current /\ Ahead => RowsSelectedOnce
  BY DEF Current, Ahead, RowsInOrder, RowsSelectedOnce
<1> QED BY <1>1, AheadInvariant, PTL

(***************************************************************************)
(* PART 3. The nested loops keep the promise of Select.tla and answer as   *)
(* the first table was read.                                               *)
(*                                                                           *)
(* Two invariants are added to those before. Statuses: a table that could  *)
(* not be read gives no row any more, and what the nodes report in the end *)
(* is how the first one was read. Complete: as long as no read has failed, *)
(* every selected tuple the cursors have passed has come out.              *)
(***************************************************************************)

(* A node without further rows has returned, and not as the inner one.     *)
Ending ==
    \/ pc \in {"end", "done"}
    \/ pc = "return" /\ ~returned /\ (Level = 1 \/ node[1] = "join")

StatusUpTo(r) == IF r = 1 THEN scanStatus[1] ELSE joinStatus[r]

(* No row of table r is part of what is tried, and none is asked for from  *)
(* above.                                                                  *)
Stuck(r) ==
    /\ Level <= r
    /\ ~ScanReturnsRow(r)
    /\ node = Join(r) => pc = "loop"

ErrorsKept ==
    /\ \A r \in 1 .. LastRel : scanStatus[r] # "kOK" => mLastError[r] # "kOK"
    /\ \A r \in 1 .. LastRel : joinStatus[r] # "kOK" => Ending \/ scanStatus[r] # "kOK"
    /\ \A r \in 1 .. LastRel : mLastError[r] # "kOK" => exists[r] \/ pc = "done"
    /\ pc = "next" => scanStatus[Level] = "kOK"
    /\ faults = 0 <=> \A r \in 1 .. LastRel : mLastError[r] = "kOK"

ErrorsStop ==
    \A r \in 1 .. LastRel : mLastError[r] # "kOK" => Ending \/ Stuck(r)

EndStatus ==
    /\ Ending /\ pc # "done" => StatusUpTo(Level) = mLastError[1]
    /\ answer # "none" <=> pc = "done"
    /\ pc = "done" => answer = mLastError[1]

Statuses == ErrorsKept /\ ErrorsStop /\ EndStatus

Out(u) == \E i \in DOMAIN rows : rows[i] = u

(* The row under cursor r is being joined, or is about to be.              *)
InProgress(r) ==
    \/ node # Root /\ (ScanReturnsRow(r) \/ JoinReturnsRow(r))
    \/ r < LastRel /\ ~mNeedStepOuterNode[r + 1]

Behind(u, r) == u[r] < Cursor(r) \/ (u[r] = Cursor(r) /\ ~InProgress(r))

NoneSkipped ==
    \A r \in 1 .. LastRel :
        Live(r) => \A u \in query.selected : EqualBelow(u, r) /\ Behind(u, r) => Out(u)

ScanReturnsEnd(r) == node = Scan(r) /\ pc = "return" /\ ~returned

ScansToEnd ==
    \A r \in 1 .. LastRel :
        (mInvalidCursor[r] /\ ~mJustReset[r]) \/ ScanReturnsEnd(r) =>
            ~mJustReset[r] /\ query.size[r] <= position[r]

AllOut == Ending => \A u \in query.selected : Out(u)

Complete == faults = 0 => NoneSkipped /\ ScansToEnd /\ AllOut

(***************************************************************************)
(* Statuses                                                                *)
(***************************************************************************)

LEMMA StatusFacts ==
    ASSUME Control, Statuses, NEW r \in 1 .. LastRel
    PROVE  /\ r \in Rel /\ r \in Nat /\ faults \in Nat
           /\ scanStatus[r] \in Status /\ joinStatus[r] \in Status /\ mLastError[r] \in Status
           /\ mLastError[r] = "kOK" => scanStatus[r] = "kOK"
           /\ mLastError[r] # "kOK" /\ ~Ending => Stuck(r) /\ exists[r]
BY RelFacts, FaultAssumption DEF Control, SimpleTypes, Statuses, ErrorsKept, ErrorsStop, Ending

LEMMA StatusesInit == Init => Statuses
<1> SUFFICES ASSUME Init PROVE Statuses
    OBVIOUS
<1>1. Control /\ 1 .. LastRel \subseteq Rel
  BY ControlInit, RelFacts
<1>2. ~Ending /\ pc = "step"
  BY DEF Init, Ending
<1> QED BY <1>1, <1>2 DEF Init, Statuses, ErrorsKept, ErrorsStop, EndStatus

(* A scan runs before the end; it has stopped if its iterator has failed.  *)
LEMMA StatusesScanStep ==
    ASSUME Control, IteratorsOpen, Statuses, NEW r \in Rel, ScanStep(r)
    PROVE  Statuses'
<1>1. /\ node = Scan(r) /\ node' = node /\ pc = "step" /\ Level = r /\ Level' = r
      /\ UNCHANGED <<query, scanStatus, joinStatus, answer>>
      /\ LastRel' = LastRel /\ r \in 1 .. LastRel /\ ~Ending
      /\ InitTupleIteratorIfNeeded(r)
  BY RelFacts DEF ScanStep, Stay, Return, nodes, outcome, Level, Scan, LastRel, Ending
<1>2. answer = "none"
  BY <1>1 DEF Statuses, EndStatus
<1>3. CASE scanStatus[r] = "kOK"
  <2>1. pc' = "next" /\ ~Ending'
    BY <1>1, <1>3 DEF ScanStep, Stay, Ending
  <2>2. \A q \in 1 .. LastRel : (Level <= q => Stuck(q)')
    BY <1>1, <2>1 DEF Stuck, ScanReturnsRow, Scan, Join
  <2>3. CASE exists[r]
    <3>1. UNCHANGED <<exists, mLastError, faults>>
      BY <1>1, <2>3 DEF InitTupleIteratorIfNeeded, iterators, Succeeds
    <3>2. ErrorsStop'
      BY <1>1, <2>2, <3>1, StatusFacts DEF Statuses, ErrorsStop, Stuck
    <3> QED BY <1>1, <1>2, <1>3, <2>1, <3>1, <3>2 DEF Statuses, ErrorsKept, EndStatus
  <2>4. CASE ~exists[r]
    <3>1. mLastError[r] = "kOK"
      BY <1>1, <2>4, StatusFacts
    <3>2. /\ exists'[r] /\ \A q \in Rel \ {r} : exists'[q] = exists[q] /\ mLastError'[q] = mLastError[q]
          /\ \/ mLastError'[r] = "kOK" /\ faults' = faults
             \/ mLastError'[r] # "kOK" /\ faults' = faults + 1
      BY <1>1, <1>3, <2>4 DEF InitTupleIteratorIfNeeded, CreateIterator, Succeeds, Fails,
                              Control, SimpleTypes
    <3>3. ErrorsStop'
      <4>1. ASSUME NEW q \in 1 .. LastRel, mLastError'[q] # "kOK" PROVE Level <= q
        <5>1. q # r => Stuck(q)
          BY <1>1, <3>2, <4>1, StatusFacts
        <5> QED BY <1>1, <5>1 DEF Stuck
      <4> QED BY <1>1, <2>2, <4>1 DEF ErrorsStop
    <3>4. ErrorsKept'
      <4>1. faults' = 0 <=> \A q \in 1 .. LastRel : mLastError'[q] = "kOK"
        BY <1>1, <3>1, <3>2, StatusFacts, RelFacts DEF Statuses, ErrorsKept
      <4>2. ASSUME NEW q \in 1 .. LastRel
            PROVE  /\ scanStatus'[q] # "kOK" => mLastError'[q] # "kOK"
                   /\ joinStatus'[q] # "kOK" => scanStatus'[q] # "kOK"
                   /\ mLastError'[q] # "kOK" => exists'[q]
        BY <1>1, <1>3, <3>2, StatusFacts DEF Statuses, ErrorsKept
      <4> QED BY <1>1, <1>3, <4>1, <4>2 DEF ErrorsKept
    <3> QED BY <1>1, <1>2, <2>1, <3>3, <3>4 DEF Statuses, EndStatus
  <2> QED BY <2>3, <2>4
<1>4. CASE scanStatus[r] # "kOK"
  <2>1. pc' = "return" /\ ~returned' /\ UNCHANGED <<exists, mLastError, faults>>
    BY <1>1, <1>4 DEF ScanStep, Return, InitTupleIteratorIfNeeded, iterators, Succeeds
  <2>2. ErrorsStop'
    <3>1. ASSUME NEW q \in 1 .. LastRel, mLastError'[q] # "kOK" PROVE Stuck(q)'
      BY <1>1, <2>1, <3>1, StatusFacts DEF Stuck, ScanReturnsRow, Scan, Join
    <3> QED BY <1>1, <3>1 DEF ErrorsStop
  <2>3. mLastError[r] # "kOK"
    BY <1>1, <1>4, StatusFacts
  <2>4. Ending' => r = 1
    BY <1>1, <2>1 DEF Ending, Scan
  <2>5. EndStatus'
    BY <1>1, <1>2, <1>4, <2>1, <2>3, <2>4, StatusFacts DEF EndStatus, StatusUpTo, Status
  <2>6. ErrorsKept'
    BY <1>1, <2>1, StatusFacts DEF Statuses, ErrorsKept
  <2> QED BY <2>2, <2>5, <2>6 DEF Statuses
<1> QED BY <1>3, <1>4

LEMMA StatusesScanNext ==
    ASSUME Control, IteratorsOpen, Statuses, NEW r \in Rel, ScanNext(r)
    PROVE  Statuses'
<1>1. /\ node = Scan(r) /\ node' = node /\ pc = "next" /\ Level = r /\ Level' = r
      /\ UNCHANGED <<query, exists, joinStatus, answer>>
      /\ LastRel' = LastRel /\ r \in 1 .. LastRel /\ ~Ending
      /\ \A q \in Rel \ {r} : scanStatus'[q] = scanStatus[q] /\ mLastError'[q] = mLastError[q]
  <2>1. /\ node = Scan(r) /\ node' = node /\ pc = "next"
        /\ UNCHANGED <<query, exists, joinStatus, answer>>
    BY DEF ScanNext, ScanFindsNoRow, ScanFailsToRead, ScanReads, ScanMoves, Stay, Return, outcome
  <2>2. \A q \in Rel \ {r} : scanStatus'[q] = scanStatus[q] /\ mLastError'[q] = mLastError[q]
    BY DEF ScanNext, ScanFindsNoRow, ScanFailsToRead, ScanReads, Control, SimpleTypes
  <2>3. Level = r /\ Level' = r /\ LastRel' = LastRel /\ ~Ending
    BY <2>1 DEF Level, Scan, LastRel, Ending
  <2> QED BY <2>1, <2>2, <2>3, RelFacts
<1>2. answer = "none" /\ exists[r] /\ scanStatus[r] = "kOK"
  BY <1>1 DEF Statuses, EndStatus, ErrorsKept, IteratorsOpen
(* What the three outcomes have in common.                                 *)
<1>3. /\ \/ mLastError'[r] = mLastError[r] /\ faults' = faults
         \/ mLastError'[r] # "kOK" /\ faults' = faults + 1
      /\ \/ pc' = "next" /\ scanStatus'[r] = "kOK"
         \/ pc' = "return" /\ ~returned' /\ scanStatus'[r] = mLastError'[r]
         \/ pc' = "return" /\ returned' /\ scanStatus'[r] = "kOK" /\ mLastError'[r] = "kOK"
  <2>1. CASE ScanFindsNoRow(r)
    BY <2>1 DEF ScanFindsNoRow, Return, Succeeds, Fails, Control, SimpleTypes
  <2>2. CASE ScanFailsToRead(r)
    BY <1>2, <2>2 DEF ScanFailsToRead, Stay, Fails, Control, SimpleTypes
  <2>3. CASE ScanReads(r)
    BY <1>2, <2>3 DEF ScanReads, ScanMoves, Exhausted, Stay, Return, Succeeds, Control, SimpleTypes
  <2> QED BY <2>1, <2>2, <2>3 DEF ScanNext
<1>4. ErrorsKept'
  <2>1. faults' = 0 <=> \A q \in 1 .. LastRel : mLastError'[q] = "kOK"
    BY <1>1, <1>3, StatusFacts, RelFacts DEF Statuses, ErrorsKept
  <2>2. ASSUME NEW q \in 1 .. LastRel
        PROVE  /\ scanStatus'[q] # "kOK" => mLastError'[q] # "kOK"
               /\ joinStatus'[q] # "kOK" => scanStatus'[q] # "kOK"
               /\ mLastError'[q] # "kOK" => exists'[q]
    BY <1>1, <1>2, <1>3, StatusFacts DEF Statuses, ErrorsKept
  <2> QED BY <1>1, <1>3, <2>1, <2>2 DEF ErrorsKept
<1>5. ErrorsStop'
  <2>1. ASSUME NEW q \in 1 .. LastRel, mLastError'[q] # "kOK" PROVE Stuck(q)'
    <3>1. Level <= q
      <4>1. q # r => Stuck(q)
        BY <1>1, <2>1, StatusFacts
      <4> QED BY <1>1, <4>1 DEF Stuck
    <3>2. ScanReturnsRow(q)' => q = r
      BY <1>1 DEF ScanReturnsRow, Scan
    <3> QED BY <1>1, <1>3, <2>1, <3>1, <3>2 DEF Stuck, ScanReturnsRow, Scan, Join
  <2> QED BY <1>1, <2>1 DEF ErrorsStop
<1>6. EndStatus'
  <2>1. Ending' => r = 1 /\ pc' = "return" /\ ~returned'
    BY <1>1, <1>3 DEF Ending, Scan
  <2> QED BY <1>1, <1>2, <1>3, <2>1 DEF EndStatus, StatusUpTo
<1> QED BY <1>4, <1>5, <1>6 DEF Statuses

LEMMA StatusesJoinStep ==
    ASSUME Control, Statuses, NEW r \in Rel, JoinStep(r)
    PROVE  Statuses'
<1>1. /\ node = Join(r) /\ node' = node /\ pc = "step" /\ Level = r /\ Level' = r
      /\ UNCHANGED <<query, exists, joinStatus, scanStatus, mLastError, faults, answer>>
      /\ LastRel' = LastRel /\ r \in 1 .. LastRel /\ ~Ending
  BY RelFacts DEF JoinStep, Stay, Return, iterators, nodes, outcome, Level, Join, LastRel, Ending
<1>2. joinStatus[r] = "kOK"
  BY <1>1, StatusFacts DEF Statuses, ErrorsKept, Stuck
<1>3. pc' = "loop" /\ ~Ending'
  BY <1>2 DEF JoinStep, Stay, Ending
<1>4. ErrorsStop'
  <2>1. ASSUME NEW q \in 1 .. LastRel, mLastError'[q] # "kOK" PROVE Stuck(q)'
    BY <1>1, <1>3, <2>1, StatusFacts DEF Stuck, ScanReturnsRow
  <2> QED BY <1>1, <2>1 DEF ErrorsStop
<1> QED BY <1>1, <1>3, <1>4 DEF Statuses, ErrorsKept, EndStatus

LEMMA StatusesJoinLoop ==
    ASSUME Control, Statuses, NEW r \in Rel, JoinLoop(r)
    PROVE  Statuses'
<1>1. /\ node = Join(r) /\ pc = "loop" /\ Level = r /\ r \in 2 .. LastRel
      /\ UNCHANGED <<query, exists, joinStatus, scanStatus, mLastError, faults, answer>>
      /\ LastRel' = LastRel /\ ~Ending /\ pc' = "step" /\ ~Ending'
      /\ node' = Inner(r) \/ node' = Outer(r)
  BY RelFacts DEF JoinLoop, Call, iterators, nodes, outcome, Level, Join, LastRel, Ending,
                  Control, RunningNode
<1>2. Level' <= r /\ (node'[1] = "join" => Level' = r - 1)
  BY <1>1 DEF Inner, Outer, Level, Scan, Join
<1>3. ErrorsStop'
  <2>1. ASSUME NEW q \in 1 .. LastRel, mLastError'[q] # "kOK" PROVE Stuck(q)'
    <3>1. r <= q
      BY <1>1, <2>1, StatusFacts DEF Stuck
    <3>2. node' # Join(q)
      BY <1>1, <1>2, <3>1, RelFacts DEF Join, Level
    <3>3. Level' <= q
      BY <1>1, <1>2, <3>1, RelFacts DEF Inner, Outer, Level, Scan, Join
    <3> QED BY <1>1, <3>2, <3>3 DEF Stuck, ScanReturnsRow
  <2> QED BY <1>1, <2>1 DEF ErrorsStop
<1> QED BY <1>1, <1>3 DEF Statuses, ErrorsKept, EndStatus

(* A row of the outer node: neither it nor a node below it has failed.     *)
LEMMA StatusesJoinOuterReturned ==
    ASSUME Control, Statuses, NEW r \in Rel \ {1}, JoinOuterReturned(r)
    PROVE  Statuses'
<1>1. /\ node = Outer(r) /\ pc = "return" /\ r \in 2 .. LastRel /\ Level = r - 1
      /\ node' = Join(r) /\ Level' = r /\ UNCHANGED <<query, answer>> /\ LastRel' = LastRel
  BY RelFacts DEF JoinOuterReturned, Resume, outcome, Level, Outer, Scan, Join, LastRel
<1>2. answer = "none"
  BY <1>1 DEF Statuses, EndStatus
<1>3. CASE ~returned
  <2>1. /\ joinStatus' = [joinStatus EXCEPT ![r] = OuterStatus(r)]
        /\ pc' = "return" /\ ~returned'
        /\ UNCHANGED <<exists, mLastError, scanStatus, faults>>
    BY <1>3 DEF JoinOuterReturned, iterators
  <2>2. Ending /\ Ending'
    BY <1>1, <1>3, <2>1 DEF Ending, Outer, Level, Scan, Join
  <2>3. OuterStatus(r) = mLastError[1]
    BY <1>1, <2>2 DEF Statuses, EndStatus, StatusUpTo, OuterStatus
  <2>4. StatusUpTo(Level)' = mLastError'[1]
    BY <1>1, <2>1, <2>3, RelFacts DEF StatusUpTo, Control, SimpleTypes
  <2>5. ErrorsKept'
    BY <1>1, <2>1, <2>2 DEF Statuses, ErrorsKept
  <2> QED BY <1>1, <1>2, <2>1, <2>2, <2>4, <2>5 DEF Statuses, ErrorsStop, EndStatus
<1>4. CASE returned
  <2>1. ScanReset(r) /\ pc' = "loop" /\ UNCHANGED joinStatus /\ ~Ending /\ ~Ending'
    BY <1>1, <1>4 DEF JoinOuterReturned, Resume, Ending
  <2>2. ASSUME NEW q \in 1 .. LastRel, mLastError[q] # "kOK"
        PROVE  r <= q /\ exists[q]
    <3>1. Stuck(q) /\ exists[q] /\ q \in Nat /\ q \in Rel
      BY <2>1, <2>2, StatusFacts
    <3>2. q # r - 1
      BY <1>1, <1>4, <3>1 DEF Stuck, Outer, ScanReturnsRow
    <3> QED BY <1>1, <3>1, <3>2, RelFacts DEF Stuck
  <2>3. /\ \A q \in Rel \ {r} : /\ exists'[q] = exists[q] /\ mLastError'[q] = mLastError[q]
                                /\ scanStatus'[q] = scanStatus[q]
        /\ mLastError'[r] # "kOK" => exists'[r]
        /\ scanStatus'[r] # "kOK" => mLastError'[r] # "kOK"
        /\ scanStatus[r] # "kOK" => scanStatus'[r] # "kOK"
        /\ \/ mLastError'[r] = mLastError[r] /\ faults' = faults
           \/ mLastError'[r] # "kOK" /\ faults' = faults + 1
    <3>1. mLastError[r] # "kOK" => exists[r]
      BY <1>1, <2>2, RelFacts
    <3>2. scanStatus[r] # "kOK" => mLastError[r] # "kOK"
      BY <1>1, StatusFacts, RelFacts
    <3>3. CASE scanStatus[r] # "kOK"
      <4>1. UNCHANGED <<scanStatus, exists, mLastError, faults>>
        BY <2>1, <3>3 DEF ScanReset, InitTupleIteratorIfNeeded, iterators, Succeeds
      <4> QED BY <3>1, <3>2, <4>1
    <3>4. CASE scanStatus[r] = "kOK" /\ exists[r]
      <4>1. /\ UNCHANGED <<exists, mLastError, faults>>
            /\ scanStatus' = [scanStatus EXCEPT ![r] = mLastError'[r]]
        BY <2>1, <3>4 DEF ScanReset, Succeeds
      <4> QED BY <3>4, <4>1 DEF Control, SimpleTypes
    <3>5. CASE scanStatus[r] = "kOK" /\ ~exists[r]
      <4>1. /\ CreateIterator(r)
            /\ scanStatus' = [scanStatus EXCEPT ![r] = mLastError'[r]]
        BY <2>1, <3>5 DEF ScanReset, InitTupleIteratorIfNeeded
      <4> QED BY <3>1, <3>5, <4>1 DEF CreateIterator, Succeeds, Fails, Control, SimpleTypes
    <3> QED BY <3>3, <3>4, <3>5
  <2>4. ErrorsKept'
    <3>1. faults' = 0 <=> \A q \in 1 .. LastRel : mLastError'[q] = "kOK"
      BY <1>1, <2>3, StatusFacts, RelFacts DEF Statuses, ErrorsKept
    <3>2. ASSUME NEW q \in 1 .. LastRel
          PROVE  /\ scanStatus'[q] # "kOK" => mLastError'[q] # "kOK"
                 /\ joinStatus'[q] # "kOK" => scanStatus'[q] # "kOK"
                 /\ mLastError'[q] # "kOK" => exists'[q]
      BY <1>1, <2>1, <2>2, <2>3, StatusFacts DEF Statuses, ErrorsKept
    <3> QED BY <1>1, <2>1, <3>1, <3>2 DEF ErrorsKept
  <2>5. ErrorsStop'
    <3>1. ASSUME NEW q \in 1 .. LastRel, mLastError'[q] # "kOK" PROVE Stuck(q)'
      <4>1. r <= q
        <5>1. q # r => mLastError[q] # "kOK"
          BY <2>3, <3>1, RelFacts
        <5> QED BY <1>1, <2>2, <5>1
      <4> QED BY <1>1, <2>1, <4>1 DEF Stuck, ScanReturnsRow
    <3> QED BY <1>1, <3>1 DEF ErrorsStop
  <2> QED BY <1>2, <1>1, <2>1, <2>4, <2>5 DEF Statuses, EndStatus
<1> QED BY <1>3, <1>4

LEMMA StatusesJoinInnerReturned ==
    ASSUME Control, Statuses, NEW r \in Rel \ {1}, JoinInnerReturned(r)
    PROVE  Statuses'
<1>1. /\ node = Scan(r) /\ pc = "return" /\ r \in 2 .. LastRel /\ Level = r /\ ~Ending
      /\ node' = Join(r) /\ Level' = r /\ LastRel' = LastRel
      /\ UNCHANGED <<query, exists, mLastError, scanStatus, faults, answer>>
  BY RelFacts DEF JoinInnerReturned, Inner, Resume, iterators, Level, Scan, Join, LastRel, Ending
<1>2. pc' = "loop" \/ (returned /\ pc' = "return" /\ returned')
  BY DEF JoinInnerReturned, Resume
<1>3. ~Ending' /\ answer = "none" /\ pc' # "done" /\ pc' # "next"
  BY <1>1, <1>2 DEF Ending, Statuses, EndStatus
<1>4. ErrorsKept'
  <2>1. \A q \in 1 .. LastRel : joinStatus'[q] # "kOK" => scanStatus[q] # "kOK"
    <3>1. \A q \in 1 .. LastRel : joinStatus[q] # "kOK" => scanStatus[q] # "kOK"
      BY <1>1 DEF Statuses, ErrorsKept
    <3>2. joinStatus' = joinStatus \/ joinStatus' = [joinStatus EXCEPT ![r] = scanStatus[r]]
      BY DEF JoinInnerReturned
    <3> QED BY <3>1, <3>2, RelFacts DEF Control, SimpleTypes
  <2> QED BY <1>1, <1>3, <2>1 DEF Statuses, ErrorsKept
<1>5. ErrorsStop'
  <2>1. ASSUME NEW q \in 1 .. LastRel, mLastError'[q] # "kOK" PROVE Stuck(q)'
    <3>1. Stuck(q)
      BY <1>1, <2>1, StatusFacts
    <3>2. returned => q # r
      BY <1>1, <3>1 DEF Stuck, ScanReturnsRow
    <3> QED BY <1>1, <1>2, <3>1, <3>2 DEF Stuck, ScanReturnsRow, Scan, Join
  <2> QED BY <1>1, <2>1 DEF ErrorsStop
<1> QED BY <1>1, <1>3, <1>4, <1>5 DEF Statuses, EndStatus

LEMMA StatusesRootReturned ==
    ASSUME Control, Statuses, RootReturned
    PROVE  Statuses'
<1>1. /\ node = Root /\ pc = "return" /\ node' = node /\ Level = LastRel /\ Level' = LastRel
      /\ UNCHANGED <<query, exists, mLastError, scanStatus, joinStatus, faults, answer>>
      /\ LastRel' = LastRel /\ LastRel \in 1 .. LastRel
  BY RelFacts DEF RootReturned, Call, Stay, iterators, nodes, outcome, Level, Root, Scan, Join, LastRel
<1>2. answer = "none"
  BY <1>1 DEF Statuses, EndStatus
<1>3. CASE returned
  <2>1. pc' = "step" /\ ~Ending /\ ~Ending'
    BY <1>1, <1>3 DEF RootReturned, Call, Ending
  <2>2. \A q \in 1 .. LastRel : mLastError[q] = "kOK"
    <3>1. ASSUME NEW q \in 1 .. LastRel, mLastError[q] # "kOK" PROVE FALSE
      <4>1. Stuck(q) /\ q = LastRel
        BY <1>1, <2>1, <3>1, StatusFacts, RelFacts DEF Stuck
      <4> QED BY <1>1, <1>3, <4>1 DEF Stuck, Root, ScanReturnsRow
    <3> QED BY <3>1
  <2> QED BY <1>1, <1>2, <2>1, <2>2 DEF Statuses, ErrorsKept, ErrorsStop, EndStatus
<1>4. CASE ~returned
  <2>1. pc' = "end" /\ Ending /\ Ending'
    BY <1>1, <1>4 DEF RootReturned, Stay, Ending, Root, Scan, Join, Level
  <2>2. StatusUpTo(Level)' = mLastError'[1]
    BY <1>1, <2>1 DEF Statuses, EndStatus, StatusUpTo
  <2> QED BY <1>1, <1>2, <2>1, <2>2 DEF Statuses, ErrorsKept, ErrorsStop, EndStatus
<1> QED BY <1>3, <1>4

LEMMA StatusesEnd ==
    ASSUME Control, Statuses, End
    PROVE  Statuses'
<1>1. /\ pc = "end" /\ pc' = "done" /\ answer' = RootStatus
      /\ UNCHANGED <<query, mLastError, scanStatus, joinStatus, faults>>
      /\ LastRel' = LastRel /\ Ending /\ Ending'
  BY DEF End, Stay, nodes, LastRel, Ending
<1>2. Level = LastRel
  BY <1>1, RelFacts DEF Control, RunningNode, Level, Root, Scan, Join
<1>3. answer' = mLastError[1]
  BY <1>1, <1>2 DEF Statuses, EndStatus, StatusUpTo, RootStatus
<1>4. answer' # "none"
  BY <1>3, RelFacts DEF Control, SimpleTypes, Status
<1> QED BY <1>1, <1>3, <1>4 DEF Statuses, ErrorsKept, ErrorsStop, EndStatus

LEMMA StatusesNext ==
    ASSUME Control, IteratorsOpen, Statuses, [Next]_vars
    PROVE  Statuses'
<1>1. CASE UNCHANGED vars
  <2>1. UNCHANGED <<query, exists, mLastError, scanStatus, joinStatus, node, pc, returned,
                    answer, faults>>
    BY <1>1 DEF vars, iterators, nodes, outcome
  <2> QED BY <2>1 DEF Statuses, ErrorsKept, ErrorsStop, EndStatus, Ending, Stuck, StatusUpTo,
                      ScanReturnsRow, Level, LastRel
<1> QED BY <1>1, StatusesScanStep, StatusesScanNext, StatusesJoinStep, StatusesJoinLoop,
           StatusesJoinOuterReturned, StatusesJoinInnerReturned, StatusesRootReturned, StatusesEnd
        DEF Next

(***************************************************************************)
(* Complete                                                                *)
(***************************************************************************)

LEMMA QuietFacts ==
    ASSUME Control, Statuses, faults = 0, NEW r \in 1 .. LastRel
    PROVE  /\ mLastError[r] = "kOK" /\ scanStatus[r] = "kOK"
           /\ joinStatus[r] # "kOK" => Ending
BY DEF Statuses, ErrorsKept

LEMMA SelectedFacts ==
    ASSUME Control, NEW u \in query.selected
    PROVE  /\ u \in Tuples(LastRel)
           /\ \A q \in 1 .. LastRel :
                  u[q] \in Nat /\ u[q] >= 1 /\ u[q] <= query.size[q] /\ u[q] \in query.scan[q]
           /\ \A k \in 2 .. LastRel : Prefix(u, k) \in query.join[k]
<1>1. query \in QueryType /\ PredicatesFit(query)
  BY QueryFacts DEF Control, SimpleTypes
<1>2. u \in Tuples(query.rels)
  BY <1>1 DEF PredicatesFit
<1>3. \A q \in 1 .. LastRel : u[q] \in Row
  BY <1>2 DEF Tuples, LastRel
<1> QED BY <1>1, <1>2, <1>3, SizeAssumption DEF PredicatesFit, LastRel, Row

(* The row of an outer table is in progress while an inner one is read.    *)
LEMMA BelowInProgress ==
    ASSUME Control, NEW r \in 2 .. LastRel, ~mNeedStepOuterNode[r], NEW q \in 1 .. r - 1
    PROVE  /\ InProgress(q) /\ Live(q)
           /\ q < LastRel /\ q \in 1 .. LastRel
           /\ ~mNeedStepOuterNode[q + 1]
<1>1. q + 1 \in 2 .. r /\ q < LastRel /\ q \in 1 .. LastRel /\ r \in Rel
  BY RelFacts
<1>2. ~mNeedStepOuterNode[q + 1]
  BY <1>1 DEF Control, LoopsUnderWay
<1>3. q = 1 \/ q \in 2 .. r
  BY <1>1, RelFacts
<1>4. Live(q)
  BY <1>1, <1>3 DEF Live, Control, LoopsUnderWay
<1> QED BY <1>1, <1>2, <1>4 DEF InProgress

LEMMA NoneSkippedKept ==
    ASSUME Control, NoneSkipped,
           UNCHANGED <<query, position, rows, mNeedStepOuterNode>>,
           \A q \in Rel : Cursor(q)' = Cursor(q),
           node = Root \/ ~(pc = "return" /\ returned)
    PROVE  NoneSkipped'
<1>1. LastRel' = LastRel
  BY DEF LastRel
<1>2. ASSUME NEW r \in 1 .. LastRel, Live(r)', NEW u \in query.selected,
             EqualBelow(u, r)', Behind(u, r)'
      PROVE  Out(u)'
  <2>1. Live(r) /\ EqualBelow(u, r)
    BY <1>2 DEF Live, EqualBelow
  <2>2. InProgress(r) => InProgress(r)'
    BY <1>1 DEF InProgress, ScanReturnsRow, JoinReturnsRow
  <2>3. Behind(u, r)
    BY <1>2, <2>2, RelFacts DEF Behind
  <2> QED BY <2>1, <2>3 DEF NoneSkipped, Out
<1> QED BY <1>1, <1>2 DEF NoneSkipped

LEMMA ScansToEndKept ==
    ASSUME ScansToEnd, UNCHANGED <<query, position, mJustReset, mInvalidCursor>>,
           node'[1] = "join" \/ pc' # "return" \/ (node' = node /\ UNCHANGED <<pc, returned>>)
    PROVE  ScansToEnd'
BY DEF ScansToEnd, ScanReturnsEnd, Scan, LastRel

LEMMA CompleteInit == Init => Complete
<1> SUFFICES ASSUME Init PROVE NoneSkipped /\ ScansToEnd /\ AllOut
    BY DEF Complete
<1>1. Control /\ 1 .. LastRel \subseteq Rel
  BY ControlInit, RelFacts
<1>2. \A r \in 1 .. LastRel : Cursor(r) = 0 /\ ~mInvalidCursor[r]
  BY <1>1 DEF Init, Cursor
<1>3. NoneSkipped
  <2> SUFFICES ASSUME NEW r \in 1 .. LastRel, NEW u \in query.selected, Behind(u, r)
               PROVE  FALSE
      BY DEF NoneSkipped
  <2>1. u[r] \in Nat /\ u[r] >= 1
    BY <1>1, SelectedFacts
  <2> QED BY <1>2, <2>1 DEF Behind
<1>4. pc = "step"
  BY DEF Init
<1> QED BY <1>2, <1>3, <1>4 DEF ScansToEnd, ScanReturnsEnd, AllOut, Ending

LEMMA CompleteScanStep ==
    ASSUME Control, IteratorsOpen, Statuses, Complete, faults' = 0,
           NEW r \in Rel, ScanStep(r)
    PROVE  Complete'
<1>1. /\ UNCHANGED <<query, rows, mNeedStepOuterNode, position>>
      /\ \A q \in Rel : Cursor(q)' = Cursor(q)
      /\ node = Scan(r) /\ node' = node /\ pc = "step" /\ Level = r
      /\ InitTupleIteratorIfNeeded(r)
  BY ScanStepCursors DEF ScanStep, Stay, Return, Level, Scan
<1>2. faults = 0
  BY <1>1, FaultAssumption
     DEF InitTupleIteratorIfNeeded, CreateIterator, Succeeds, Fails, Control, SimpleTypes
<1>3. r \in 1 .. LastRel /\ scanStatus[r] = "kOK"
  BY <1>1, <1>2, RelFacts, QuietFacts
<1>4. pc' = "next"
  BY <1>3 DEF ScanStep, Stay
<1>5. NoneSkipped'
  BY <1>1, <1>2, NoneSkippedKept DEF Complete
<1>6. ScansToEnd'
  <2>1. LastRel' = LastRel
    BY <1>1 DEF LastRel
  <2>2. \A q \in Rel : \/ mInvalidCursor'[q] = mInvalidCursor[q] /\ mJustReset'[q] = mJustReset[q]
                       \/ mJustReset'[q]
    BY <1>1 DEF InitTupleIteratorIfNeeded, CreateIterator, iterators, Control, SimpleTypes
  <2> QED BY <1>1, <1>2, <1>4, <2>1, <2>2, RelFacts DEF Complete, ScansToEnd, ScanReturnsEnd
<1> QED BY <1>4, <1>5, <1>6 DEF Complete, AllOut, Ending

LEMMA CompleteScanNext ==
    ASSUME Control, Control', IteratorsOpen, Statuses, Complete, Current, faults' = 0,
           NEW r \in Rel, ScanNext(r)
    PROVE  Complete'
<1>1. /\ UNCHANGED <<query, mNeedStepOuterNode>>
      /\ node = Scan(r) /\ node' = node /\ pc = "next"
      /\ \A q \in Rel \ {r} : /\ position'[q] = position[q] /\ mJustReset'[q] = mJustReset[q]
                              /\ mInvalidCursor'[q] = mInvalidCursor[q]
  <2>1. pc = "next" /\ \A q \in Rel \ {r} : mInvalidCursor'[q] = mInvalidCursor[q]
    BY DEF ScanNext, ScanFindsNoRow, ScanFailsToRead, ScanReads, ScanMoves, MoveCursor,
           Control, SimpleTypes
  <2> QED BY <2>1, ScanNextCursors
<1>2. /\ LastRel' = LastRel /\ Root' = Root /\ r \in 1 .. LastRel /\ Level = r
      /\ \A q \in Rel : q > r => mNeedStepOuterNode[q]
      /\ r >= 2 => ~mNeedStepOuterNode[r]
      /\ Live(r)
  BY <1>1, RelFacts DEF LastRel, Root, Level, Scan, Control, LoopsUnderWay, Live
<1>3. faults = 0 /\ ~ScanFailsToRead(r)
  <2>1. \A kind : ~Fails(kind)
    BY FaultAssumption DEF Fails, Control, SimpleTypes
  <2> QED BY <2>1 DEF ScanNext, ScanFindsNoRow, ScanFailsToRead, ScanReads, Succeeds
<1>4. mLastError[r] = "kOK"
  BY <1>2, <1>3, QuietFacts
<1>5. /\ position[r] \in Nat /\ mJustReset[r] \in BOOLEAN /\ query.size[r] \in Nat
      /\ Following(r) = Cursor(r) + 1 /\ Cursor(r) \in Nat
  BY <1>2, QueryFacts, SizeAssumption DEF Control, SimpleTypes, Following, Cursor, QueryType
<1>6. ASSUME ScanFindsNoRow(r)
      PROVE  /\ UNCHANGED <<position, rows>> /\ pc' = "return" /\ ~returned'
             /\ ~mJustReset'[r] /\ query.size[r] <= position[r]
             /\ Cursor(r)' = Cursor(r) \/ query.size[r] = 0
  <2>1. UNCHANGED <<position, rows>> /\ pc' = "return" /\ ~returned'
    BY <1>6 DEF ScanFindsNoRow, Return, outcome
  <2>2. CASE Exhausted(r) /\ UNCHANGED mJustReset
    <3>1. mInvalidCursor[r] /\ ~mJustReset[r]
      BY <1>4, <2>2 DEF Exhausted
    <3> QED BY <1>2, <1>3, <2>1, <2>2, <3>1 DEF Complete, ScansToEnd, Cursor
  <2>3. CASE Following(r) > query.size[r] /\ MoveCursor(r, FALSE)
    <3>1. ~mJustReset'[r]
      BY <2>3 DEF MoveCursor, Control, SimpleTypes
    <3> QED BY <1>5, <2>1, <2>3, <3>1 DEF Following, Cursor
  <2>4. ~Fails("cursor")
    BY <1>3, FaultAssumption DEF Fails, Control, SimpleTypes
  <2> QED BY <1>6, <2>2, <2>3, <2>4 DEF ScanFindsNoRow
<1>7. ASSUME ScanReads(r)
      PROVE  /\ ~mJustReset'[r] /\ ~mInvalidCursor'[r]
             /\ position'[r] = Cursor(r) + 1 /\ Cursor(r)' = Cursor(r) + 1
             /\ IF position'[r] \in query.scan[r]
                THEN pc' = "return" /\ returned' /\ Emit(Scan(r), <<position'[r]>>)
                ELSE pc' = "next" /\ rows' = rows
  <2>1. ScanMoves(r) /\ mExprContext' = [mExprContext EXCEPT ![r] = Following(r)]
    BY <1>7 DEF ScanReads
  <2>2. mExprContext'[r] = Following(r)
    BY <2>1 DEF Current, RowTypes
  <2>3. /\ position'[r] = Cursor(r) + 1 /\ ~mJustReset'[r] /\ ~mInvalidCursor'[r]
    BY <1>5, <2>1 DEF ScanMoves, MoveCursor, Control, SimpleTypes
  <2> QED BY <1>5, <1>7, <2>2, <2>3 DEF ScanReads, Stay, Return, Cursor
<1>8. NoneSkipped'
  <2> SUFFICES ASSUME NEW q \in 1 .. LastRel, Live(q)', NEW u \in query.selected,
                      EqualBelow(u, q)', Behind(u, q)'
               PROVE  Out(u)'
      BY <1>1, <1>2 DEF NoneSkipped
  <2>1. Live(q) /\ q <= r /\ q \in Rel
    BY <1>1, <1>2, RelFacts DEF Live
  <2>2. EqualBelow(u, q)
    BY <1>1, <2>1, RelFacts DEF EqualBelow
  <2>3. /\ \A k \in 1 .. LastRel :
               u[k] \in Nat /\ u[k] >= 1 /\ u[k] <= query.size[k] /\ u[k] \in query.scan[k]
        /\ u \in Tuples(LastRel)
    BY SelectedFacts
  <2>4. Out(u) => Out(u)'
    <3>1. rows' = rows \/ \E t : rows' = Append(rows, t)
      BY <1>3, <1>6, <1>7 DEF ScanNext, Emit
    <3> QED BY <3>1, RowFacts DEF Out
  <2>5. CASE q # r
    <3>1. q \in 1 .. r - 1 /\ r \in 2 .. LastRel /\ ~mNeedStepOuterNode[r]
      BY <1>2, <2>1, <2>5, RelFacts
    <3>2. InProgress(q)'
      BY <1>1, <1>2, <3>1, BelowInProgress DEF InProgress
    <3>3. Cursor(q)' = Cursor(q)
      BY <1>1, <2>1, <2>5 DEF Cursor
    <3> QED BY <1>3, <2>1, <2>2, <2>4, <3>2, <3>3 DEF Complete, NoneSkipped, Behind
  <2>6. CASE q = r
    <3>1. ~InProgress(r)
      BY <1>1, <1>2, RelFacts, SizeAssumption DEF InProgress, ScanReturnsRow, JoinReturnsRow, Rel
    <3>2. u[r] <= Cursor(r) => Out(u)
      BY <1>3, <1>5, <2>1, <2>2, <2>3, <2>6, <3>1 DEF Complete, NoneSkipped, Behind
    <3>3. CASE ScanFindsNoRow(r)
      BY <1>2, <1>5, <1>6, <2>3, <2>4, <2>6, <3>2, <3>3 DEF Behind
    <3>4. CASE ScanReads(r)
      <4>1. u[r] <= Cursor(r) \/ (u[r] = position'[r] /\ ~InProgress(r)')
        BY <1>5, <1>7, <2>3, <2>6, <3>4 DEF Behind
      <4>2. CASE u[r] = position'[r] /\ ~InProgress(r)'
        <5>1. pc' = "return" /\ returned' /\ Emit(Scan(r), <<position'[r]>>)
          BY <1>2, <1>7, <2>3, <3>4, <4>2
        <5>2. Scan(r) = Root
          BY <1>1, <1>2, <4>2, <5>1 DEF InProgress, ScanReturnsRow
        <5>3. r = 1 /\ LastRel = 1
          BY <5>2, RelFacts DEF Root, Scan, Join
        <5>4. u = <<position'[1]>>
          BY <2>3, <4>2, <5>3 DEF Tuples
        <5>5. rows' = Append(rows, u)
          BY <5>1, <5>2, <5>3, <5>4 DEF Emit
        <5> QED BY <5>5, RowFacts DEF Out
      <4> QED BY <2>4, <3>2, <4>1, <4>2
    <3> QED BY <1>3, <3>3, <3>4 DEF ScanNext
  <2> QED BY <2>5, <2>6
<1>9. ScansToEnd'
  <2>1. ASSUME NEW q \in 1 .. LastRel, (mInvalidCursor'[q] /\ ~mJustReset'[q]) \/ ScanReturnsEnd(q)'
        PROVE  ~mJustReset'[q] /\ query.size[q] <= position'[q]
    <3>1. CASE q # r
      <4>1. q \in Rel /\ ~ScanReturnsEnd(q)'
        BY <1>1, <3>1, RelFacts DEF ScanReturnsEnd, Scan
      <4> QED BY <1>1, <1>3, <2>1, <3>1, <4>1 DEF Complete, ScansToEnd
    <3>2. CASE q = r
      BY <1>3, <1>6, <1>7, <2>1, <3>2 DEF ScanNext, ScanReturnsEnd
    <3> QED BY <3>1, <3>2
  <2> QED BY <1>1, <1>2, <2>1 DEF ScansToEnd
<1>10. AllOut'
  <2> SUFFICES ASSUME Ending', NEW u \in query.selected
               PROVE  Out(u)'
      BY <1>1 DEF AllOut
  <2>1. r = 1 /\ ScanFindsNoRow(r)
    <3>1. ~ScanReads(r)
      BY <1>7 DEF Ending
    <3>2. pc' = "return" /\ Level' = 1
      BY <1>1, <1>3, <1>6, <3>1 DEF ScanNext, Ending, Scan
    <3> QED BY <1>1, <1>3, <3>1, <3>2 DEF ScanNext, Level, Scan
  <2>2. u[1] <= Cursor(1)' /\ u[1] \in Nat /\ Cursor(1)' \in Nat
    BY <1>2, <1>5, <1>6, <2>1, SelectedFacts DEF Cursor
  <2>3. ~InProgress(1)'
    BY <1>1, <1>2, <1>6, <2>1, RelFacts, SizeAssumption
       DEF InProgress, ScanReturnsRow, JoinReturnsRow, Rel
  <2>4. Behind(u, 1)' /\ Live(1)' /\ EqualBelow(u, 1)'
    BY <2>2, <2>3 DEF Behind, Live, EqualBelow
  <2> QED BY <1>1, <1>2, <1>8, <2>1, <2>4 DEF NoneSkipped
<1> QED BY <1>8, <1>9, <1>10 DEF Complete

(* What a nested loop tries is the tuple under the cursors.                *)
LEMMA MatchIsPos ==
    ASSUME Control, Current, NEW r \in Rel \ {1}, JoinInnerReturned(r), returned
    PROVE  /\ r \in 2 .. LastRel /\ ~mNeedStepOuterNode[r]
           /\ Append(outerRow[r], innerRow[r]) = Pos(r)
           /\ Prefix(mExprContext', r) = Pos(r)
<1>1. node = Scan(r) /\ pc = "return" /\ mExprContext' = MatchContext(r) /\ r \in 2 .. LastRel
  BY RelFacts DEF JoinInnerReturned, Inner
<1>2. ~mNeedStepOuterNode[r]
  BY <1>1 DEF Control, LoopsUnderWay, Level, Scan
<1>3. outerRow[r] = Pos(r - 1)
  BY <1>1, <1>2 DEF Current, OuterRowsPassed
<1>4. innerRow[r] = position[r]
  BY <1>1, RelFacts DEF Current, ScanRowPassed, ScanReturnsRow
<1>5. \A q \in 1 .. r : mExprContext'[q] = position[q]
  BY <1>1, <1>3, <1>4, RelFacts DEF MatchContext, Pos
<1>6. Append(outerRow[r], innerRow[r]) = Pos(r)
  BY <1>1, <1>3, <1>4, AppendPos, RelFacts DEF Pos
<1> QED BY <1>1, <1>2, <1>5, <1>6 DEF Prefix, Pos

LEMMA CompleteJoinStep ==
    ASSUME Control, Statuses, Complete, faults' = 0, NEW r \in Rel, JoinStep(r)
    PROVE  Complete'
<1>1. /\ node = Join(r) /\ node' = node /\ pc = "step" /\ Level = r
      /\ UNCHANGED <<query, rows, position, mJustReset, mInvalidCursor, mNeedStepOuterNode, faults>>
  BY DEF JoinStep, Stay, Return, iterators, nodes, outcome, Level, Join
<1>2. joinStatus[r] = "kOK"
  BY <1>1, QuietFacts, RelFacts DEF Ending
<1>3. pc' = "loop"
  BY <1>2 DEF JoinStep, Stay
<1>4. NoneSkipped' /\ ScansToEnd'
  BY <1>1, <1>3, NoneSkippedKept, ScansToEndKept DEF Complete, Cursor
<1> QED BY <1>3, <1>4 DEF Complete, AllOut, Ending

LEMMA CompleteJoinLoop ==
    ASSUME Control, Complete, faults' = 0, NEW r \in Rel, JoinLoop(r)
    PROVE  Complete'
<1>1. /\ pc = "loop" /\ pc' = "step"
      /\ UNCHANGED <<query, rows, position, mJustReset, mInvalidCursor, mNeedStepOuterNode, faults>>
  BY DEF JoinLoop, Call, iterators, nodes, outcome
<1>2. NoneSkipped' /\ ScansToEnd'
  BY <1>1, NoneSkippedKept, ScansToEndKept DEF Complete, Cursor
<1> QED BY <1>1, <1>2 DEF Complete, AllOut, Ending

LEMMA CompleteJoinOuterReturned ==
    ASSUME Control, IteratorsOpen, Statuses, Complete, faults' = 0,
           NEW r \in Rel \ {1}, JoinOuterReturned(r)
    PROVE  Complete'
<1>1. CASE ~returned
  <2>1. /\ node = Outer(r) /\ pc = "return" /\ node' = Join(r) /\ pc' = "return"
        /\ UNCHANGED <<query, rows, position, mJustReset, mInvalidCursor, mNeedStepOuterNode, faults>>
    BY <1>1 DEF JoinOuterReturned, iterators, outcome
  <2>2. NoneSkipped' /\ ScansToEnd'
    BY <1>1, <2>1, NoneSkippedKept, ScansToEndKept DEF Complete, Cursor, Join
  <2>3. Ending
    BY <1>1, <2>1 DEF Ending, Outer, Level, Scan, Join
  <2> QED BY <2>1, <2>2, <2>3 DEF Complete, AllOut, Out
<1>2. CASE returned
  <2>1. /\ UNCHANGED <<query, rows, position>> /\ r \in 2 .. LastRel
        /\ mNeedStepOuterNode' = [mNeedStepOuterNode EXCEPT ![r] = FALSE]
        /\ \A q \in Rel \ {r} : mJustReset'[q] = mJustReset[q]
        /\ pc' = "loop"
        /\ \A q \in Rel : q > r => mNeedStepOuterNode[q]
    BY <1>2, JoinOuterCursors
  <2>2. LastRel' = LastRel /\ ScanReset(r)
    BY <1>2, <2>1 DEF JoinOuterReturned, LastRel
  <2>3. faults = 0
    BY <2>2, FaultAssumption DEF ScanReset, InitTupleIteratorIfNeeded, CreateIterator, Succeeds, Fails,
                                 Control, SimpleTypes
  <2>4. scanStatus[r] = "kOK"
    BY <2>1, <2>3, QuietFacts, RelFacts
  <2>5. /\ mJustReset'[r]
        /\ \A q \in Rel \ {r} : mInvalidCursor'[q] = mInvalidCursor[q]
    BY <2>2, <2>4 DEF ScanReset, InitTupleIteratorIfNeeded, CreateIterator, Control, SimpleTypes
  <2>6. NoneSkipped'
    <3> SUFFICES ASSUME NEW q \in 1 .. LastRel, Live(q)', NEW u \in query.selected,
                        EqualBelow(u, q)', Behind(u, q)'
                 PROVE  Out(u)'
        BY <2>1, <2>2 DEF NoneSkipped
    <3>1. q \in Rel /\ u[q] \in Nat /\ u[q] >= 1
      BY SelectedFacts, RelFacts
    <3>2. q # r
      BY <2>1, <2>5, <3>1 DEF Behind, Cursor
    <3>3. q < r /\ mNeedStepOuterNode'[q] = mNeedStepOuterNode[q]
      <4>1. mNeedStepOuterNode'[q] = mNeedStepOuterNode[q]
        BY <2>1, <3>1, <3>2 DEF Control, SimpleTypes
      <4> QED BY <2>1, <3>1, <3>2, <4>1, RelFacts DEF Live
    <3>4. Live(q) /\ EqualBelow(u, q) /\ Cursor(q)' = Cursor(q)
      BY <2>1, <3>1, <3>2, <3>3 DEF Live, EqualBelow, Cursor
    <3>5. InProgress(q)'
      <4>1. ~mNeedStepOuterNode'[q + 1] /\ q < LastRel
        <5>1. q + 1 \in 2 .. r /\ q + 1 \in Rel
          BY <2>1, <3>3, RelFacts
        <5>2. CASE q + 1 = r
          BY <2>1, <5>2, RelFacts DEF Control, SimpleTypes
        <5>3. CASE q + 1 # r
          <6>1. q \in 1 .. (r - 1) - 1 /\ r - 1 \in 2 .. LastRel
            BY <2>1, <3>3, <5>1, <5>3, RelFacts
          <6>2. ~mNeedStepOuterNode[r - 1]
            <7>1. JoinReturnsRow(r - 1) /\ r - 1 \in Rel
              BY <1>2, <6>1, OuterReturnsRow, RelFacts
            <7> QED BY <7>1 DEF Control, LoopsUnderWay
          <6>3. ~mNeedStepOuterNode[q + 1]
            BY <6>1, <6>2, BelowInProgress
          <6> QED BY <2>1, <5>1, <5>3, <6>3, <3>3, RelFacts DEF Control, SimpleTypes
        <5> QED BY <5>2, <5>3, <2>1, <3>3, RelFacts
      <4> QED BY <2>2, <4>1 DEF InProgress
    <3>6. u[q] < Cursor(q)
      BY <3>4, <3>5 DEF Behind
    <3> QED BY <2>1, <2>3, <3>4, <3>6 DEF Complete, NoneSkipped, Behind, Out
  <2>7. ScansToEnd'
    BY <2>1, <2>2, <2>3, <2>5, RelFacts DEF Complete, ScansToEnd, ScanReturnsEnd
  <2> QED BY <2>1, <2>6, <2>7 DEF Complete, AllOut, Ending
<1> QED BY <1>1, <1>2

LEMMA CompleteJoinInnerReturned ==
    ASSUME Control, CursorsOnRows, Current, Complete, faults' = 0,
           NEW r \in Rel \ {1}, JoinInnerReturned(r)
    PROVE  Complete'
<1>1. /\ UNCHANGED <<query, position, mJustReset, mInvalidCursor, faults>>
      /\ node = Scan(r) /\ node' = Join(r) /\ pc = "return" /\ r \in 2 .. LastRel /\ Level = r
      /\ mNeedStepOuterNode' = NeedOuter(r, returned)
      /\ LastRel' = LastRel /\ Root' = Root
      /\ ~mNeedStepOuterNode[r]
      /\ \A q \in Rel : q > r => mNeedStepOuterNode[q]
  BY RelFacts DEF JoinInnerReturned, Inner, Resume, iterators, Level, Scan, LastRel, Root,
                  Control, LoopsUnderWay
<1>2. ScansToEnd'
  BY <1>1, ScansToEndKept DEF Complete, Join
<1>3. ~Ending'
  BY <1>1 DEF JoinInnerReturned, Resume, Ending
<1>4. NoneSkipped'
  <2> SUFFICES ASSUME NEW q \in 1 .. LastRel, Live(q)', NEW u \in query.selected,
                      EqualBelow(u, q)', Behind(u, q)'
               PROVE  Out(u)'
      BY <1>1 DEF NoneSkipped
  <2>1. q \in Rel /\ q \in Nat /\ q <= r /\ Live(q) /\ EqualBelow(u, q) /\ Cursor(q)' = Cursor(q)
    <3>1. \A k \in Rel : mNeedStepOuterNode[k] => mNeedStepOuterNode'[k]
      BY <1>1 DEF NeedOuter, Control, SimpleTypes
    <3> QED BY <1>1, <3>1, RelFacts DEF Live, EqualBelow, Cursor
  <2>2. u \in Tuples(LastRel) /\ u[q] \in Nat /\ u[q] <= query.size[q]
    BY SelectedFacts
  <2>3. Out(u) => Out(u)'
    <3>1. rows' = rows \/ \E t : rows' = Append(rows, t)
      BY DEF JoinInnerReturned, Emit
    <3> QED BY <3>1, RowFacts DEF Out
  <2>4. u[q] < Cursor(q) => Out(u)
    BY <1>1, <2>1 DEF Complete, NoneSkipped, Behind
  <2>5. CASE u[q] = Cursor(q) /\ ~InProgress(q)' /\ returned
    <3>1. mNeedStepOuterNode' = mNeedStepOuterNode
      BY <1>1, <2>5 DEF NeedOuter
    <3>2. q = r
      <4>1. q < r => q \in 1 .. r - 1
        BY <1>1, <2>1, RelFacts
      <4>2. q < r => InProgress(q)'
        BY <1>1, <3>1, <4>1, BelowInProgress DEF InProgress
      <4> QED BY <1>1, <2>1, <2>5, <4>2, RelFacts
    <3>3. Cursor(r) = position[r]
      BY <1>1, <2>5, RelFacts DEF CursorsOnRows, ScanReturnsRow, Cursor
    <3>4. \A k \in 1 .. r : u[k] = position[k]
      BY <1>1, <2>1, <2>5, <3>2, <3>3, RelFacts DEF EqualBelow
    <3>5. Prefix(u, r) = Pos(r) /\ Prefix(u, r) \in query.join[r]
      BY <1>1, <3>4, SelectedFacts DEF Prefix, Pos
    <3>6. pc' = "return" /\ returned' /\ Emit(Join(r), Pos(r))
      BY <2>5, <3>5, MatchIsPos DEF JoinInnerReturned
    <3>7. r = LastRel
      BY <1>1, <2>5, <3>2, <3>6, RelFacts DEF InProgress, JoinReturnsRow, Root, Join, Scan
    <3>8. u = Pos(r)
      BY <2>2, <3>4, <3>7 DEF Pos, Tuples
    <3>9. rows' = Append(rows, u)
      BY <1>1, <3>6, <3>7, <3>8, RelFacts DEF Emit, Root
    <3> QED BY <3>9, RowFacts DEF Out
  <2>6. CASE u[q] = Cursor(q) /\ ~InProgress(q)' /\ ~returned
    <3>1. mNeedStepOuterNode' = [mNeedStepOuterNode EXCEPT ![r] = TRUE]
      BY <1>1, <2>6 DEF NeedOuter
    <3>2. q < r
      BY <1>1, <2>1, <3>1, RelFacts DEF Live, Control, SimpleTypes
    <3>3. q = r - 1
      <4>1. q + 1 \in Rel /\ q < LastRel /\ ~mNeedStepOuterNode[q + 1]
        BY <1>1, <2>1, <3>2, BelowInProgress, RelFacts
      <4>2. q + 1 # r => ~mNeedStepOuterNode'[q + 1]
        BY <3>1, <4>1 DEF Control, SimpleTypes
      <4> QED BY <1>1, <2>1, <2>6, <3>2, <4>1, <4>2, RelFacts DEF InProgress
    <3>4. EqualBelow(u, r)
      <4>1. Cursor(q) = position[q]
        BY <1>1, <2>1, <3>2, RelFacts DEF CursorsOnRows, Cursor
      <4> QED BY <1>1, <2>1, <2>6, <3>3, <4>1, RelFacts DEF EqualBelow
    <3>5. ~mJustReset[r] /\ query.size[r] <= position[r]
      BY <1>1, <2>6, RelFacts DEF Complete, ScansToEnd, ScanReturnsEnd
    <3>6. u[r] <= query.size[r] /\ u[r] \in Nat /\ query.size[r] \in Nat /\ position[r] \in Nat
      <4>1. r \in 1 .. LastRel /\ r \in Rel
        BY <1>1, RelFacts
      <4>2. query.size[r] \in Nat
        BY <4>1, QueryFacts, SizeAssumption DEF QueryType, Control, SimpleTypes
      <4> QED BY <4>1, <4>2, SelectedFacts, RowFacts
    <3>7. ~InProgress(r)
      BY <1>1, <2>6, RelFacts, SizeAssumption DEF InProgress, ScanReturnsRow, JoinReturnsRow, Scan, Join, Rel
    <3>8. Behind(u, r) /\ Live(r)
      BY <1>1, <3>5, <3>6, <3>7 DEF Behind, Cursor, Live
    <3> QED BY <1>1, <2>3, <3>4, <3>8, RelFacts DEF Complete, NoneSkipped
  <2> QED BY <2>1, <2>3, <2>4, <2>5, <2>6 DEF Behind
<1> QED BY <1>2, <1>3, <1>4 DEF Complete, AllOut

LEMMA CompleteRootReturned ==
    ASSUME Control, Complete, faults' = 0, RootReturned
    PROVE  Complete'
<1>1. /\ node = Root /\ pc = "return" /\ pc' # "return"
      /\ UNCHANGED <<query, rows, position, mJustReset, mInvalidCursor, mNeedStepOuterNode, faults>>
  BY DEF RootReturned, Call, Stay, iterators, nodes, outcome
<1>2. NoneSkipped' /\ ScansToEnd'
  BY <1>1, NoneSkippedKept, ScansToEndKept DEF Complete, Cursor
<1>3. Ending' => Ending
  BY <1>1 DEF RootReturned, Call, Stay, Ending, Root, Scan, Join, Level
<1> QED BY <1>1, <1>2, <1>3 DEF Complete, AllOut, Out

LEMMA CompleteEnd ==
    ASSUME Control, Complete, faults' = 0, End
    PROVE  Complete'
<1>1. /\ pc = "end" /\ pc' = "done"
      /\ UNCHANGED <<query, rows, position, mJustReset, mInvalidCursor, mNeedStepOuterNode, faults>>
  BY DEF End, Stay, nodes
<1>2. NoneSkipped' /\ ScansToEnd'
  BY <1>1, NoneSkippedKept, ScansToEndKept DEF Complete, Cursor
<1> QED BY <1>1, <1>2 DEF Complete, AllOut, Out, Ending

LEMMA CompleteNext ==
    ASSUME Control, Control', Current, IteratorsOpen, CursorsOnRows, Statuses, Complete, [Next]_vars
    PROVE  Complete'
<1>1. SUFFICES ASSUME faults' = 0 PROVE Complete'
  BY DEF Complete
<1>2. CASE UNCHANGED vars
  <2>1. UNCHANGED <<query, position, mJustReset, mInvalidCursor, mNeedStepOuterNode, node, pc,
                    returned, rows, faults>>
    BY <1>2 DEF vars, iterators, nodes, outcome
  <2> QED BY <2>1 DEF Complete, NoneSkipped, ScansToEnd, ScanReturnsEnd, AllOut, Ending, Behind, Out,
                      InProgress, EqualBelow, Live, Cursor, ScanReturnsRow, JoinReturnsRow,
                      Level, LastRel, Root
<1> QED BY <1>1, <1>2, CompleteScanStep, CompleteScanNext, CompleteJoinStep, CompleteJoinLoop,
           CompleteJoinOuterReturned, CompleteJoinInnerReturned, CompleteRootReturned, CompleteEnd
        DEF Next

(***************************************************************************)
(* The promise                                                             *)
(***************************************************************************)

IInv == Control /\ Current /\ Ahead /\ Statuses /\ Complete

LEMMA IInvNext ==
    ASSUME IInv, [Next]_vars
    PROVE  IInv'
<1>1. Control' /\ Current'
  BY ControlNext, CurrentNext DEF IInv
<1>2. IteratorsOpen' /\ CursorsOnRows'
  BY IteratorsOpenNext, CursorsOnRowsNext DEF IInv, Ahead
<1>3. Ahead'
  BY <1>1, <1>2, RowsReachedNext DEF IInv, Ahead
<1>4. Statuses' /\ Complete'
  BY <1>1, StatusesNext, CompleteNext DEF IInv, Ahead
<1> QED BY <1>1, <1>3, <1>4 DEF IInv

LEMMA IInvInvariant == Spec => []IInv
<1>1. Init => IInv
  BY ControlInit, CurrentInit, AheadInit, StatusesInit, CompleteInit DEF IInv
<1>2. IInv /\ [Next]_vars => IInv'
  BY IInvNext
<1> QED BY <1>1, <1>2, PTL DEF Spec

(* Where the root has a row for the executor, no read has failed and the   *)
(* cursors of all tables are on that row.                                  *)
LEMMA RootReturnsRow ==
    IInv /\ node = Root /\ pc = "return" /\ returned =>
        /\ faults = 0
        /\ \A r \in 1 .. LastRel : Live(r) /\ Cursor(r) = position[r]
<1> SUFFICES ASSUME IInv, node = Root, pc = "return", returned
             PROVE  faults = 0 /\ \A r \in 1 .. LastRel : Live(r) /\ Cursor(r) = position[r]
    OBVIOUS
<1>1. Level = LastRel /\ ~Ending /\ LastRel \in 1 .. LastRel /\ LastRel \in Nat
  BY RelFacts DEF IInv, Root, Level, Scan, Join, Ending
<1>2. \A r \in 1 .. LastRel : mLastError[r] = "kOK"
  <2>1. ASSUME NEW r \in 1 .. LastRel, mLastError[r] # "kOK" PROVE FALSE
    <3>1. Stuck(r) /\ r = LastRel
      BY <1>1, <2>1, StatusFacts, RelFacts DEF IInv, Stuck
    <3> QED BY <1>1, <3>1 DEF Stuck, Root, ScanReturnsRow
  <2> QED BY <2>1
<1>3. CASE LastRel = 1
  <2>1. ScanReturnsRow(1) /\ ~mJustReset[1]
    BY <1>1, <1>3 DEF IInv, Ahead, CursorsOnRows, Root, ScanReturnsRow
  <2> QED BY <1>2, <1>3, <2>1 DEF IInv, Statuses, ErrorsKept, Live, Cursor
<1>4. CASE LastRel # 1
  <2>1. JoinReturnsRow(LastRel) /\ LastRel \in 2 .. LastRel /\ LastRel \in Rel
    BY <1>1, <1>4, RelFacts DEF IInv, Root, JoinReturnsRow
  <2>2. \A r \in 1 .. LastRel : ~mJustReset[r]
    BY <2>1 DEF IInv, Ahead, CursorsOnRows
  <2>3. \A r \in 2 .. LastRel : ~mNeedStepOuterNode[r]
    BY <2>1 DEF IInv, Control, LoopsUnderWay
  <2> QED BY <1>1, <1>2, <2>2, <2>3 DEF IInv, Statuses, ErrorsKept, Live, Cursor
<1> QED BY <1>3, <1>4

LEMMA EmittedIsNext ==
    ASSUME IInv, IInv', query' = query, node' = Root, pc' = "return", returned',
           NEW t, t = Pos(LastRel)', rows' = Append(rows, t)
    PROVE  /\ t \in query.selected
           /\ Promise!IsNext(t)
<1>1. /\ LastRel' = LastRel /\ Root' = Root /\ LastRel \in Nat
      /\ rows \in Seq(Tuples(LastRel))
  BY RowFacts, RelFacts DEF IInv, LastRel, Root
<1>2. faults' = 0 /\ \A r \in 1 .. LastRel : Live(r)' /\ Cursor(r)' = position'[r]
  <2>1. (IInv /\ node = Root /\ pc = "return" /\ returned =>
           /\ faults = 0
           /\ \A r \in 1 .. LastRel : Live(r) /\ Cursor(r) = position[r])'
    BY RootReturnsRow, PTL
  <2> QED BY <1>1, <2>1
<1>3. /\ Len(rows) \in Nat /\ DOMAIN rows = 1 .. Len(rows)
      /\ DOMAIN rows' = 1 .. Len(rows) + 1
      /\ rows'[Len(rows) + 1] = t /\ \A i \in DOMAIN rows : rows'[i] = rows[i]
  BY <1>1
<1>4. t \in query.selected
  BY <1>3 DEF IInv, Current
<1>5. \A i \in DOMAIN rows : Before(rows[i], t)
  <2>1. \A i, k \in DOMAIN rows' : i < k => Before(rows'[i], rows'[k])
    BY DEF IInv, Ahead, RowsInOrder
  <2> QED BY <1>3, <2>1
<1>6. ASSUME NEW u \in query.selected, Before(u, t)
      PROVE  \E i \in DOMAIN rows : rows[i] = u
  <2>1. /\ u \in Tuples(LastRel)
        /\ \A q \in 1 .. LastRel : u[q] \in Nat
    BY SelectedFacts DEF IInv
  <2>2. PICK i \in 1 .. LastRel : u[i] < t[i] /\ \A k \in 1 .. i - 1 : u[k] = t[k]
    BY <1>6, <2>1 DEF Before, Tuples
  <2>3. \A k \in 1 .. i : t[k] = position'[k]
    BY <1>1, <2>2 DEF Pos
  <2>4. EqualBelow(u, i)' /\ Behind(u, i)' /\ Live(i)'
    BY <1>1, <1>2, <2>2, <2>3 DEF EqualBelow, Behind
  <2>5. Out(u)'
    BY <1>1, <1>2, <2>4 DEF IInv, Complete, NoneSkipped
  <2>6. PICK k \in DOMAIN rows' : rows'[k] = u
    BY <2>5 DEF Out
  <2>7. u # t
    BY <2>1, <2>2
  <2> QED BY <1>3, <2>6, <2>7
<1> QED BY <1>4, <1>5, <1>6 DEF Promise!IsNext, Promise!Before, Before

(* What a step is to the caller of ExecutePlan.                            *)
Silent == UNCHANGED <<query, rows, answer, faults>>
Faulty == UNCHANGED <<query, rows, answer>> /\ faults' = faults + 1 /\ pc # "done"
Emits(t) == rows' = Append(rows, t) /\ UNCHANGED <<query, answer, faults>> /\ pc # "done"

LEMMA ScanNextOutcome ==
    ASSUME IInv, IInv', NEW r \in Rel, ScanNext(r)
    PROVE  Silent \/ Faulty \/ \E t \in query.selected : Promise!IsNext(t) /\ Emits(t)
<1>1. /\ node = Scan(r) /\ node' = node /\ UNCHANGED <<query, answer>> /\ pc = "next"
      /\ r \in 1 .. LastRel
  <2>1. node = Scan(r) /\ node' = node /\ UNCHANGED <<query, answer>> /\ pc = "next"
    BY DEF ScanNext, ScanFindsNoRow, ScanFailsToRead, ScanReads, ScanMoves, Return, Stay, outcome
  <2> QED BY <2>1, RelFacts DEF IInv, Level, Scan
<1>2. CASE ScanFindsNoRow(r)
  BY <1>1, <1>2 DEF ScanFindsNoRow, outcome, Succeeds, Fails, Silent, Faulty
<1>3. CASE ScanFailsToRead(r)
  BY <1>1, <1>3 DEF ScanFailsToRead, Fails, Faulty
<1>4. CASE ScanReads(r)
  <2>1. faults' = faults
    BY <1>4 DEF ScanReads, Succeeds
  <2>2. CASE rows' = rows
    BY <1>1, <2>1, <2>2 DEF Silent
  <2>3. CASE rows' # rows
    <3>1. mExprContext'[r] = Following(r) /\ position'[r] = Following(r)
      <4>1. ScanMoves(r) /\ mExprContext' = [mExprContext EXCEPT ![r] = Following(r)]
        BY <1>4 DEF ScanReads
      <4> QED BY <4>1 DEF ScanMoves, IInv, Control, SimpleTypes, Current, RowTypes
    <3>2. pc' = "return" /\ returned' /\ Emit(Scan(r), <<position'[r]>>)
      BY <1>4, <2>3, <3>1 DEF ScanReads, Return
    <3>3. Scan(r) = Root
      BY <2>3, <3>2 DEF Emit
    <3>4. r = 1 /\ LastRel = 1 /\ node' = Root
      BY <1>1, <3>3, RelFacts DEF IInv, Root, Scan, Join
    <3>5. rows' = Append(rows, <<position'[1]>>)
      BY <3>2, <3>3, <3>4 DEF Emit
    <3>6. LastRel' = 1 /\ Root' = Root
      BY <1>1, <3>4 DEF LastRel, Root
    <3>7. <<position'[1]>> = Pos(LastRel)'
      BY <3>6 DEF Pos
    <3>8. <<position'[1]>> \in query.selected /\ Promise!IsNext(<<position'[1]>>)
      BY <1>1, <3>2, <3>4, <3>5, <3>6, <3>7, EmittedIsNext
    <3> QED BY <1>1, <2>1, <3>5, <3>8 DEF Emits
  <2> QED BY <2>2, <2>3
<1> QED BY <1>2, <1>3, <1>4 DEF ScanNext

LEMMA JoinInnerOutcome ==
    ASSUME IInv, IInv', NEW r \in Rel \ {1}, JoinInnerReturned(r)
    PROVE  Silent \/ \E t \in query.selected : Promise!IsNext(t) /\ Emits(t)
<1>1. /\ node' = Join(r) /\ pc = "return" /\ r \in 2 .. LastRel
      /\ UNCHANGED <<query, position, answer, faults>>
  BY RelFacts DEF IInv, JoinInnerReturned, Resume, iterators
<1>2. CASE rows' = rows
  BY <1>1, <1>2 DEF Silent
<1>3. CASE rows' # rows
  <2>1. /\ returned /\ pc' = "return" /\ returned'
        /\ Emit(Join(r), Append(outerRow[r], innerRow[r]))
    BY <1>3 DEF JoinInnerReturned
  <2>2. Join(r) = Root
    BY <1>3, <2>1 DEF Emit
  <2>3. r = LastRel /\ LastRel' = LastRel /\ Root' = Root /\ Pos(LastRel)' = Pos(LastRel)
    BY <1>1, <2>2 DEF Root, Scan, Join, LastRel, Pos
  <2>4. rows' = Append(rows, Pos(r))
    BY <2>1, <2>2, MatchIsPos DEF IInv, Emit
  <2>5. Pos(r) \in query.selected /\ Promise!IsNext(Pos(r))
    BY <1>1, <2>1, <2>2, <2>3, <2>4, EmittedIsNext
  <2> QED BY <1>1, <2>4, <2>5 DEF Emits
<1> QED BY <1>2, <1>3

LEMMA OtherOutcome ==
    ASSUME IInv, Next,
           \A r \in Rel : ~ScanNext(r), \A r \in Rel \ {1} : ~JoinInnerReturned(r), ~End
    PROVE  Silent \/ Faulty
<1>1. ASSUME NEW r \in Rel, ScanStep(r) PROVE Silent \/ Faulty
  BY <1>1 DEF ScanStep, InitTupleIteratorIfNeeded, CreateIterator, Succeeds, Fails, outcome,
              Silent, Faulty
<1>2. ASSUME NEW r \in Rel, JoinStep(r) \/ JoinLoop(r) PROVE Silent
  BY <1>2 DEF JoinStep, JoinLoop, outcome, Silent
<1>3. ASSUME NEW r \in Rel \ {1}, JoinOuterReturned(r) PROVE Silent \/ Faulty
  BY <1>3 DEF JoinOuterReturned, ScanReset, InitTupleIteratorIfNeeded, CreateIterator, Succeeds,
              Fails, outcome, Silent, Faulty
<1>4. CASE RootReturned
  BY <1>4 DEF RootReturned, outcome, Silent
<1> QED BY <1>1, <1>2, <1>3, <1>4 DEF Next

LEMMA EndKeepsPromise ==
    ASSUME IInv, IInv', End
    PROVE  Promise!Answer
<1>1. /\ pc = "end" /\ pc' = "done" /\ UNCHANGED <<query, rows, mLastError, faults>>
      /\ Ending
  BY DEF End, Stay, Ending
<1>2. answer = "none" /\ answer' = mLastError[1] /\ answer' \in {"kOK", "kInternalError"}
  <2>1. answer' = mLastError'[1]
    BY <1>1 DEF IInv, Statuses, EndStatus
  <2> QED BY <1>1, <2>1, RelFacts DEF IInv, Statuses, EndStatus, Control, SimpleTypes, Status
<1>3. CASE faults = 0
  <2>1. answer' = "kOK"
    BY <1>2, <1>3, QuietFacts, RelFacts DEF IInv
  <2>2. ASSUME NEW t \in query.selected, Promise!IsNext(t) PROVE FALSE
    <3>1. PICK i \in DOMAIN rows : rows[i] = t
      BY <1>1, <1>3 DEF IInv, Complete, AllOut, Out
    <3>2. Promise!Before(t, t)
      BY <2>2, <3>1 DEF Promise!IsNext
    <3>3. PICK k \in DOMAIN t : t[k] < t[k]
      BY <3>2 DEF Promise!Before
    <3>4. t[k] \in Nat
      BY <3>3, SelectedFacts DEF IInv, Tuples
    <3> QED BY <3>3, <3>4
  <2> QED BY <1>1, <1>2, <2>1, <2>2 DEF Promise!Answer
<1>4. CASE faults # 0
  <2>1. faults > 0
    BY <1>4 DEF IInv, Control, SimpleTypes
  <2> QED BY <1>1, <1>2, <2>1 DEF Promise!Answer
<1> QED BY <1>3, <1>4

LEMMA StepKeepsPromise ==
    ASSUME IInv, IInv', [Next]_vars
    PROVE  [Promise!Next]_(Promise!svars)
<1>1. faults \in Nat
  BY FaultAssumption DEF IInv, Control, SimpleTypes
<1>2. CASE Silent
  BY <1>2 DEF Silent, Promise!svars
<1>3. CASE Faulty
  <2>1. answer = "none" /\ (faults' > 0) = TRUE
    BY <1>1, <1>3 DEF Faulty, IInv, Statuses, EndStatus
  <2> QED BY <1>3, <2>1 DEF Faulty, Promise!Fail, Promise!Next
<1>4. ASSUME NEW t \in query.selected, Promise!IsNext(t), Emits(t)
      PROVE  Promise!Emit
  BY <1>4 DEF Emits, IInv, Statuses, EndStatus, Promise!Emit
<1>5. CASE End
  BY <1>5, EndKeepsPromise DEF Promise!Next
<1>6. CASE UNCHANGED vars
  BY <1>2, <1>6 DEF vars, outcome, Silent
<1> QED BY <1>2, <1>3, <1>4, <1>5, <1>6, ScanNextOutcome, JoinInnerOutcome, OtherOutcome
        DEF Promise!Next

(***************************************************************************)
(* Theorems                                                                *)
(***************************************************************************)

(* Executing the plan keeps the promise of Select.tla: the tuples come out *)
(* in order, each once and none skipped, also when reads fail; the answer  *)
(* comes last, and without a failed read it is kOK and nothing is missing. *)
THEOREM PromiseAlwaysKept == Spec => ImplementsSelect
<1>1. Init => Promise!Init
  BY DEF Init, Promise!Init
<1>2. IInv /\ IInv' /\ [Next]_vars => [Promise!Next]_(Promise!svars)
  BY StepKeepsPromise
<1> QED BY <1>1, <1>2, IInvInvariant, PTL DEF Spec, ImplementsSelect, Promise!Spec

(* The answer of ExecutePlan tells whether a read of the first table has   *)
(* failed, and nothing of the others.                                      *)
THEOREM AnswerAlwaysOfFirstTable == Spec => []AnswerOfFirstTable
<1>1. IInv => AnswerOfFirstTable
  BY RelFacts DEF IInv, Statuses, EndStatus, Control, SimpleTypes, Status, AnswerOfFirstTable
<1> QED BY <1>1, IInvInvariant, PTL
=============================================================================
