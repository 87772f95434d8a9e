------------------------------ MODULE NestLoop ------------------------------
(***************************************************************************)
(* The execution of a SELECT: Executor::ExecutePlan steps a left-deep plan *)
(* of NestLoopNodes over ScanNodes, whose iterators read tables that do    *)
(* not change meanwhile, and whose reads may fail.                         *)
(*                                                                         *)
(* The i-th row of a table is the i-th its iterator delivers: by record    *)
(* number in a scan of the table, by key in a scan of an index of it. A    *)
(* predicate is the set of positions, or of tuples of them, that satisfy   *)
(* it. Local predicates come from the WHERE clause (Binding.tla).          *)
(*                                                                         *)
(* The nodes call each other; one action is one node's run between two     *)
(* calls: to or from another node, or to its iterator. Since the plan is   *)
(* left-deep, the node that is running tells which ones wait for it.       *)
(* PDASSERT does nothing, as in a release build; failedAsserts records the *)
(* ones a debug build would have stopped at.                               *)
(*                                                                         *)
(* Operators whose names begin with that of the next one are mistakes to   *)
(* be tried in its place.                                                  *)
(***************************************************************************)
EXTENDS Naturals, Sequences, FiniteSets

CONSTANTS
    MaxRels,    \* how many tables a statement has at most
    MaxRows,    \* how many rows a table has at most
    Queries,    \* the statements, see QueryType
    Faults,     \* the reads that may fail, of FaultKind
    MaxFaults   \* how many of them fail in one execution

Rel  == 1 .. MaxRels
Row  == 1 .. MaxRows
Tuples(j) == [1 .. j -> Row]

(* Opening the cursor of an iterator, moving it (Next), reading the row    *)
(* under it (GetValue).                                                    *)
FaultKind == {"openCursor", "cursor", "get"}

(* rels: the number of tables; size: how many rows each has; scan and join *)
(* the local predicates of the scan of each table and of the nested loop   *)
(* that joins it in; selected: what the clause as a whole selects.         *)
QueryType ==
    [rels : Rel, size : [Rel -> 0 .. MaxRows], scan : [Rel -> SUBSET Row],
     join : [Rel -> SUBSET UNION {Tuples(j) : j \in Rel}],
     selected : SUBSET UNION {Tuples(j) : j \in Rel}]

Prefix(t, j) == [i \in 1 .. j |-> t[i]]

(* A tuple that every node passes is one the clause selects, no node stops *)
(* a selected tuple: what Binding shows of clauses without a mixed OR.     *)
PredicatesFit(q) ==
    q.selected =
        {t \in Tuples(q.rels) :
            /\ \A r \in 1 .. q.rels : t[r] <= q.size[r] /\ t[r] \in q.scan[r]
            /\ \A j \in 2 .. q.rels : Prefix(t, j) \in q.join[j]}

ASSUME SizeAssumption == MaxRels \in Nat \ {0} /\ MaxRows \in Nat

ASSUME QueryAssumption ==
    \A q \in Queries : q \in QueryType /\ PredicatesFit(q)

ASSUME FaultAssumption == Faults \subseteq FaultKind /\ MaxFaults \in Nat

VARIABLES
    query,
    \* the iterators of the scans
    exists,         \* mpTupleIterator is not NULL
    mJustReset, mInvalidCursor,
    position,       \* the row under the cursor
    mLastError,     \* of the iterator
    \* the nodes
    scanStatus,     \* mLastStatus of the scan of each table
    joinStatus,     \* mLastStatus of the nested loop that joins it in
    mNeedStepOuterNode,
    outerRow,       \* mOuterNodeCurrentValueList
    innerRow,       \* mInnerNodeCurrentValueList
    \* the plan
    mExprContext,   \* the row of each table, 0 before the first
    \* control
    node,           \* the node that runs, or has just returned
    pc,             \* where it has come to
    returned,       \* what its Step has just returned
    \* the outcome
    rows,           \* the tuples given to the FinalResultFunctor
    answer,         \* the Status of ExecutePlan
    failedAsserts,
    faults

iterators == <<exists, mJustReset, mInvalidCursor, position, mLastError>>
nodes     == <<scanStatus, joinStatus, mNeedStepOuterNode, outerRow, innerRow>>
outcome   == <<rows, answer, failedAsserts>>
vars      == <<query, iterators, nodes, mExprContext, node, pc, returned,
               outcome, faults>>

Status == {"kOK", "kInternalError"}

Scan(r) == <<"scan", r>>
Join(r) == <<"join", r>>
Node    == {"scan", "join"} \X Rel
LastRel == query.rels
Root    == IF LastRel = 1 THEN Scan(1) ELSE Join(LastRel)

Outer(r) == IF r = 2 THEN Scan(1) ELSE Join(r - 1)
Inner(r) == Scan(r)

TypeOK ==
    /\ exists \in [Rel -> BOOLEAN]
    /\ mJustReset \in [Rel -> BOOLEAN]
    /\ mInvalidCursor \in [Rel -> BOOLEAN]
    /\ position \in [Rel -> 0 .. MaxRows]
    /\ mLastError \in [Rel -> Status]
    /\ scanStatus \in [Rel -> Status]
    /\ joinStatus \in [Rel -> Status]
    /\ mNeedStepOuterNode \in [Rel -> BOOLEAN]
    /\ outerRow \in [Rel -> UNION {Tuples(j) : j \in 0 .. MaxRels}]
    /\ innerRow \in [Rel -> 0 .. MaxRows]
    /\ mExprContext \in [Rel -> 0 .. MaxRows]
    /\ node \in Node
    /\ pc \in {"step", "next", "loop", "return", "end", "done"}
    /\ returned \in BOOLEAN
    /\ rows \in Seq(UNION {Tuples(j) : j \in Rel})
    /\ answer \in Status \cup {"none"}
    /\ failedAsserts \subseteq {"ScanNode:114"}
    /\ faults \in 0 .. MaxFaults

Succeeds == faults' = faults

Fails(kind) ==
    /\ kind \in Faults
    /\ faults < MaxFaults
    /\ faults' = faults + 1

Call(n) == node' = n /\ pc' = "step" /\ UNCHANGED returned
Return(b) == pc' = "return" /\ returned' = b /\ UNCHANGED node
Stay(where) == pc' = where /\ UNCHANGED <<node, returned>>

(* The functor of a node's caller: the nested loop above it, or at the     *)
(* root the FinalResultFunctor.                                            *)
EmitKeepingOld(n, t) ==
    IF n = Root
    THEN rows' = Append(rows, t) /\ UNCHANGED <<outerRow, innerRow>>
    ELSE /\ IF n[1] = "join" \/ n[2] = 1
            THEN /\ outerRow' = [outerRow EXCEPT ![n[2] + 1] = @ \o t]
                 /\ UNCHANGED innerRow
            ELSE /\ innerRow' = [innerRow EXCEPT ![n[2]] = t[1]]
                 /\ UNCHANGED outerRow
         /\ UNCHANGED rows

Emit(n, t) ==
    IF n = Root
    THEN rows' = Append(rows, t) /\ UNCHANGED <<outerRow, innerRow>>
    ELSE /\ IF n[1] = "join" \/ n[2] = 1
            THEN /\ outerRow' = [outerRow EXCEPT ![n[2] + 1] = t]
                 /\ UNCHANGED innerRow
            ELSE /\ innerRow' = [innerRow EXCEPT ![n[2]] = t[1]]
                 /\ UNCHANGED outerRow
         /\ UNCHANGED rows

(***************************************************************************)
(* ScanNode                                                                *)
(***************************************************************************)

(* InitTupleIteratorIfNeeded, where it finds no iterator: the new one      *)
(* keeps an error of its constructor to itself.                            *)
CreateIterator(r) ==
    /\ exists' = [exists EXCEPT ![r] = TRUE]
    /\ mJustReset' = [mJustReset EXCEPT ![r] = TRUE]
    /\ mInvalidCursor' = [mInvalidCursor EXCEPT ![r] = TRUE]
    /\ \/ Succeeds /\ mLastError' = [mLastError EXCEPT ![r] = "kOK"]
       \/ Fails("openCursor") /\ mLastError' = [mLastError EXCEPT ![r] = "kInternalError"]
    /\ UNCHANGED position

InitTupleIteratorIfNeeded(r) ==
    IF scanStatus[r] = "kOK" /\ ~exists[r]
    THEN CreateIterator(r)
    ELSE UNCHANGED iterators /\ Succeeds

ScanStep(r) ==
    /\ node = Scan(r) /\ pc = "step"
    /\ InitTupleIteratorIfNeeded(r)
    /\ IF scanStatus[r] = "kOK" THEN Stay("next") ELSE Return(FALSE)
    /\ UNCHANGED <<query, nodes, mExprContext, outcome>>

(* ScanNode::Reset. The cursor is only opened here if the scan has not     *)
(* been stepped or reset before.                                           *)
ScanResetKeepingCursor(r) ==
    /\ InitTupleIteratorIfNeeded(r)
    /\ scanStatus' = IF scanStatus[r] = "kOK"
                     THEN [scanStatus EXCEPT ![r] = mLastError'[r]]
                     ELSE scanStatus

ScanReset(r) ==
    /\ IF scanStatus[r] = "kOK" /\ exists[r]
       THEN /\ mJustReset' = [mJustReset EXCEPT ![r] = TRUE]
            /\ mInvalidCursor' = [mInvalidCursor EXCEPT ![r] = TRUE]
            /\ UNCHANGED <<exists, position, mLastError>>
            /\ Succeeds
       ELSE InitTupleIteratorIfNeeded(r)
    /\ scanStatus' = IF scanStatus[r] = "kOK"
                     THEN [scanStatus EXCEPT ![r] = mLastError'[r]]
                     ELSE scanStatus

(* Next of the iterator is not to read: it has failed or come to its end.  *)
Exhausted(r) ==
    mLastError[r] # "kOK" \/ (mInvalidCursor[r] /\ ~mJustReset[r])

Following(r) == IF mJustReset[r] THEN 1 ELSE position[r] + 1

MoveCursorStillReset(r, valid) ==
    /\ mInvalidCursor' = [mInvalidCursor EXCEPT ![r] = ~valid]
    /\ UNCHANGED mJustReset

MoveCursor(r, valid) ==
    /\ mJustReset' = [mJustReset EXCEPT ![r] = FALSE]
    /\ mInvalidCursor' = [mInvalidCursor EXCEPT ![r] = ~valid]

(* One turn of the loop: Next, GetValue and the local predicate. Next      *)
(* finds no row, or fails;                                                 *)
ScanFindsNoRow(r) ==
    /\ node = Scan(r) /\ pc = "next"
    /\ \/ /\ Exhausted(r)
          /\ Succeeds
          /\ UNCHANGED <<mJustReset, mInvalidCursor, mLastError>>
       \/ /\ ~Exhausted(r)
          /\ Following(r) > query.size[r]
          /\ Succeeds
          /\ MoveCursor(r, FALSE)
          /\ UNCHANGED mLastError
       \/ /\ ~Exhausted(r)
          /\ Fails("cursor")
          /\ MoveCursor(r, FALSE)
          /\ mLastError' = [mLastError EXCEPT ![r] = "kInternalError"]
    /\ scanStatus' = [scanStatus EXCEPT ![r] = mLastError'[r]]
    /\ Return(FALSE)
    /\ UNCHANGED <<query, exists, position, joinStatus, mNeedStepOuterNode,
                   outerRow, innerRow, mExprContext, outcome>>

ScanMoves(r) ==
    /\ node = Scan(r) /\ pc = "next"
    /\ ~Exhausted(r)
    /\ Following(r) <= query.size[r]
    /\ MoveCursor(r, TRUE)
    /\ position' = [position EXCEPT ![r] = Following(r)]
    /\ UNCHANGED <<query, exists, joinStatus, mNeedStepOuterNode, answer, failedAsserts>>

(* the row cannot be read: the loop goes on, and Next will tell of it;     *)
ScanFailsToRead(r) ==
    /\ ScanMoves(r)
    /\ Fails("get")
    /\ mLastError' = [mLastError EXCEPT ![r] = "kInternalError"]
    /\ Stay("next")
    /\ UNCHANGED <<scanStatus, outerRow, innerRow, mExprContext, rows>>

(* or the row is given to the caller, if it satisfies the predicate.       *)
ScanReads(r) ==
    /\ ScanMoves(r)
    /\ Succeeds
    /\ mExprContext' = [mExprContext EXCEPT ![r] = Following(r)]
    /\ IF mExprContext'[r] \in query.scan[r]
       THEN /\ Emit(Scan(r), <<Following(r)>>)
            /\ scanStatus' = [scanStatus EXCEPT ![r] = mLastError[r]]
            /\ Return(TRUE)
       ELSE /\ Stay("next")
            /\ UNCHANGED <<scanStatus, outerRow, innerRow, rows>>
    /\ UNCHANGED mLastError

ScanNext(r) == ScanFindsNoRow(r) \/ ScanFailsToRead(r) \/ ScanReads(r)

(***************************************************************************)
(* NestLoopNode                                                            *)
(***************************************************************************)

JoinStep(r) ==
    /\ node = Join(r) /\ pc = "step"
    /\ IF joinStatus[r] = "kOK" THEN Stay("loop") ELSE Return(FALSE)
    /\ UNCHANGED <<query, iterators, nodes, mExprContext, outcome, faults>>

JoinLoop(r) ==
    /\ node = Join(r) /\ pc = "loop"
    /\ Call(IF mNeedStepOuterNode[r] THEN Outer(r) ELSE Inner(r))
    /\ UNCHANGED <<query, iterators, nodes, mExprContext, outcome, faults>>

Resume(r) == node' = Join(r) /\ pc' = "loop" /\ UNCHANGED returned

OuterStatusOfInner(r) == scanStatus[r]
OuterStatus(r) == IF r = 2 THEN scanStatus[1] ELSE joinStatus[r - 1]

(* A row of the outer node: the inner one starts again. Its end or error   *)
(* is the end of the join.                                                 *)
JoinOuterReturned(r) ==
    /\ node = Outer(r) /\ pc = "return"
    /\ r <= LastRel
    /\ IF returned
       THEN /\ mNeedStepOuterNode' = [mNeedStepOuterNode EXCEPT ![r] = FALSE]
            /\ ScanReset(r)
            /\ Resume(r)
            /\ UNCHANGED joinStatus
       ELSE /\ joinStatus' = [joinStatus EXCEPT ![r] = OuterStatus(r)]
            /\ node' = Join(r) /\ pc' = "return" /\ returned' = FALSE
            /\ UNCHANGED <<iterators, scanStatus, mNeedStepOuterNode, faults>>
    /\ UNCHANGED <<query, outerRow, innerRow, mExprContext, outcome>>

(* MatchPredicate: the context as the two current rows make it.            *)
MatchContext(r) ==
    [q \in Rel |-> IF q < r THEN outerRow[r][q]
                   ELSE IF q = r THEN innerRow[r] ELSE mExprContext[q]]

(* A row of the inner node is tried against the predicate. Its end or      *)
(* error is the end of the outer row only: the loop goes on with the next, *)
(* and the status set here lasts until the outer node ends.                *)
NeedOuterNever(r, b) == mNeedStepOuterNode
NeedOuter(r, b) == IF b THEN mNeedStepOuterNode ELSE [mNeedStepOuterNode EXCEPT ![r] = TRUE]

JoinInnerReturned(r) ==
    /\ node = Inner(r) /\ pc = "return"
    /\ r \in 2 .. LastRel
    /\ mNeedStepOuterNode' = NeedOuter(r, returned)
    /\ IF returned
       THEN /\ mExprContext' = MatchContext(r)
            /\ IF Prefix(mExprContext', r) \in query.join[r]
               THEN /\ Emit(Join(r), Append(outerRow[r], innerRow[r]))
                    /\ node' = Join(r) /\ pc' = "return" /\ returned' = TRUE
               ELSE Resume(r) /\ UNCHANGED <<rows, outerRow, innerRow>>
            /\ UNCHANGED joinStatus
       ELSE /\ joinStatus' = [joinStatus EXCEPT ![r] = scanStatus[r]]
            /\ Resume(r)
            /\ UNCHANGED <<mExprContext, rows, outerRow, innerRow>>
    /\ UNCHANGED <<query, iterators, scanStatus, answer, failedAsserts, faults>>

(***************************************************************************)
(* Executor                                                                *)
(***************************************************************************)

RootReturned ==
    /\ node = Root /\ pc = "return"
    /\ IF returned THEN Call(Root) ELSE Stay("end")
    /\ UNCHANGED <<query, iterators, nodes, mExprContext, outcome, faults>>

RootStatus == IF LastRel = 1 THEN scanStatus[1] ELSE joinStatus[LastRel]

(* End of every scan deletes its iterator.                                 *)
End ==
    /\ pc = "end"
    /\ failedAsserts' = IF \A r \in 1 .. LastRel : exists[r] THEN failedAsserts
                        ELSE failedAsserts \cup {"ScanNode:114"}
    /\ exists' = [r \in Rel |-> FALSE]
    /\ answer' = RootStatus
    /\ Stay("done")
    /\ UNCHANGED <<query, mJustReset, mInvalidCursor, position, mLastError, nodes,
                   mExprContext, rows, faults>>

(***************************************************************************)
(* Specification                                                           *)
(***************************************************************************)

Init ==
    /\ query \in Queries
    /\ exists = [r \in Rel |-> FALSE]
    /\ mJustReset = [r \in Rel |-> FALSE]
    /\ mInvalidCursor = [r \in Rel |-> FALSE]
    /\ position = [r \in Rel |-> 0]
    /\ mLastError = [r \in Rel |-> "kOK"]
    /\ scanStatus = [r \in Rel |-> "kOK"]
    /\ joinStatus = [r \in Rel |-> "kOK"]
    /\ mNeedStepOuterNode = [r \in Rel |-> TRUE]
    /\ outerRow = [r \in Rel |-> <<>>]
    /\ innerRow = [r \in Rel |-> 0]
    /\ mExprContext = [r \in Rel |-> 0]
    /\ node = Root
    /\ pc = "step"
    /\ returned = FALSE
    /\ rows = <<>>
    /\ answer = "none"
    /\ failedAsserts = {}
    /\ faults = 0

Next ==
    \/ \E r \in Rel : ScanStep(r)
    \/ \E r \in Rel : ScanNext(r)
    \/ \E r \in Rel : JoinStep(r)
    \/ \E r \in Rel : JoinLoop(r)
    \/ \E r \in Rel \ {1} : JoinOuterReturned(r)
    \/ \E r \in Rel \ {1} : JoinInnerReturned(r)
    \/ RootReturned
    \/ End

Spec == Init /\ [][Next]_vars

(* One thread, which nothing makes wait.                                   *)
FairSpec == Spec /\ WF_vars(Next)

(***************************************************************************)
(* Properties                                                              *)
(***************************************************************************)

(* While the rows of the inner node are tried, the row kept of the outer   *)
(* one is the row under the cursors below it.                              *)
OuterRowIsCurrent ==
    \A r \in 2 .. LastRel :
        ~mNeedStepOuterNode[r] => outerRow[r] = [q \in 1 .. r - 1 |-> position[q]]

(* Whatever reads have failed, the tuples that came out satisfy the clause *)
(* and are in the order of the nested loops, which has none of them twice. *)
Before(t, u) ==
    \E i \in DOMAIN t : t[i] < u[i] /\ \A k \in 1 .. i - 1 : t[k] = u[k]

RowsSelectedOnce ==
    /\ \A i \in DOMAIN rows : rows[i] \in query.selected
    /\ \A i, k \in DOMAIN rows : i < k => Before(rows[i], rows[k])

(* The answer tells of a failed read of the first table only: a nested     *)
(* loop takes the status of its outer node in the end, and a failed read   *)
(* of an inner one is taken for the end of its table.                      *)
AnswerOfFirstTable ==
    answer # "none" => (answer = "kInternalError" <=> mLastError[1] # "kOK")

(* After an answer of kOK and with no failed read, every selected tuple    *)
(* came out, in order and once.                                            *)
Promise == INSTANCE Select WITH
    selected <- query.selected, failed <- faults > 0

ImplementsSelect == Promise!Spec

(* Every statement is answered, failed reads or not.                       *)
Answered == <>(answer # "none")
=============================================================================
