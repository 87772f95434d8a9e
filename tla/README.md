# PandaSQL in TLA+

PandaSQL is an embedded, single-threaded SQL database in C++: a program links
it, constructs a `DB` object, opens a database kept by Berkeley DB in the one
file `mydb.panda`, loads SQL statements and executes them (`src/Test/main.cpp`
is such a program). This directory holds TLA+ models of it, the configurations
that model-check them, and theorems about them with proofs for TLAPS.

    tlc -workers 2 -config DDLCrash.cfg MCDBImpl     # one run
    tlapm DBImplProofs.tla                           # one module's proofs

`PROJECT.json` lists the runs, the theorems, the lines of source every
definition stands for, and the hazards of the code the properties are aimed at.

## The system

| Component | Source (under `src/PandaSQL/`) | State | Operations |
|---|---|---|---|
| `DB`, `DBImpl` | `Database/DB.cpp`, `DBImpl.cpp` | `mIsOpen`, `mpBackend`, the two catalogs | `Open`, `Close`, the schema statements, `InsertData`, `UpdateCurrent`, `DeleteCurrent`, the look-up of tables, columns, indexes |
| `Statement` | `Database/Statement.cpp` | the parsed statement, its clauses | `Prepare` (binds names), `Execute` (dispatches to `DBImpl` or to the planner and executor) |
| Parser | `Parser/` | the statement being built | generated ANTLR lexer and parser, a tree walker that fills the statement, `ParserDriver` around them |
| Catalogs | `Catalog/` | tables, columns, indexes in memory, each entry with its Berkeley DB handle | `AddTable`, `RemoveTable`, `AddIndex`, `RemoveIndex`, look-up |
| Planner, nodes, executor | `Optimizer/Plan/`, `Node/`, `Executor/` | a left-deep tree of scan and nested-loop nodes; per node the last status, an iterator, the join's "outer must advance" flag | `Reset`, `Step`, `End` |
| Expressions | `Expr/`, `Utils/Value.cpp` | the expression tree; the tuple values of the current row in `ExprContext` | `IsTrue`, `Flatten`, `TransformToCNF`, `CreateSubExprForPushdown` |
| Tuples | `Access/Tuple.cpp` | none | the row codec |
| Berkeley DB backend | `Storage/BerkeleyDB/` | environment, database handles, cursors, one transaction per call or per scan | open, create, associate, remove, put; scans that read, update and remove |
| Buffer manager, VFS | `Storage/Buffer`, `VFS/` | frames, pins, a hash table of pages; a file | `PinPage`, `UnpinPage`, `NewPage`; `Read`, `Write`, `Append`, `GetSize`. From an earlier storage engine, not compiled by `PandaSQL.vcxproj` |
| CVS storage | `Storage/CVS` | | of that engine too; does not compile, since headers are gone |
| Bamboo backend, `BDBStorage`, `Optimizer/Join` | | none | stubs |

How they interact: `Statement::Execute` calls `DBImpl` synchronously for schema
statements and for `INSERT`, `UPDATE` and `DELETE`. For the last two
`DBImpl::PerformIterator_Private` walks the table with an iterator and hands it,
at each row the clause holds for, to `UpdateCurrent` or `DeleteCurrent`. For
`SELECT` the planner builds a tree of nodes that own such iterators, and the
executor steps it; a row that comes out of a node goes to the functor of the
node above. `DBImpl` keeps the schema twice: in memory (the catalogs) and on
disk, in two ordinary tables, `PD_Table` and `PD_Index`, whose rows hold the text
of the statement that created the object; `Open` parses and executes those texts
again. Indexes are secondary databases that Berkeley DB keeps up to date itself.
Nothing is concurrent. What makes the code hard is elsewhere:

- a statement is several Berkeley DB transactions, so the process can end, or a
  call can fail, between two halves of one statement;
- errors are dropped: the result of `DB->put` and of the commit of a scan is not
  looked at, loops over an iterator end in the same way at the end of the table
  and at a read error;
- state outlives what it stands for: handles in the catalogs after the
  environment is closed, after a failed drop, after a failed `Open`;
- names of physical databases are built by concatenation and collide;
- the two tables that hold the schema are tables like any other, and can be given
  indexes, which then refuse rows;
- an `UPDATE` or `DELETE` commits what it did, in the destructor of its
  iterator, whether it came to its end or broke off at a row;
- a row on disk is bytes without a description: each statement brings its own;
- the executor is a protocol (`Reset`, `Step`, `End`) between nodes that each
  keep a last status;
- `WHERE` clauses are rewritten (flattened, normalised, split for push-down)
  before they are evaluated;
- names of columns are bound in two places by two rules, values are looked up by
  name in one context for all scans, and a name without a value is no error;
- the buffer manager keeps four numbers per frame, a hash table with chains and
  a file in step by hand.

What makes each component correct:

- *Schema*: rows, physical databases and catalogs agree, over deaths of the
  process and failing calls; a statement takes effect once, entirely or not at
  all; a database that was closed or died opens again.
- *Rows and indexes*: an index holds exactly the rows of its table; a scan sees
  each row once; an update has the effect of a prefix of itself (the code does
  not make it all or nothing), the whole of itself when it answers `kOK` and
  neither a read nor its commit failed.
- *Execution of SELECT*: the rows a plan yields are those of the cross product
  that satisfy the clause, each once; it ends; a read error reaches the caller
  (it does not, from an inner table).
- *WHERE clauses*: a rewritten clause has the value of the one written; a
  pushed-down part is implied by the whole.
- *Tuples and values*: what is read, indexed and compared is what was written.
- *Names*: a clause is decided on the columns it names, the select list shows the
  columns it names, an index is scanned because the clause has its column.
- *Buffers*: a pinned frame keeps its page; what was put into a page is in the
  file, and seen by whoever pins it next.

## The modules

    Schema  <--refines--  DBImpl  <--EXTENDS--  MCDBImpl       (values for TLC)
                             ^-- DBImplProofs

    RowStore  <-- MCRowStore
        ^-- RowStoreProofs

    TupleCodec  <-- MCTupleCodec
        ^-- TupleCodecProofs (with Induction)

    BooleanExpr  <-- Binding  <-- MCBinding, MCWhereClause
        ^               ^-- BindingProofs (with BooleanExprProofs)
        ^-- BooleanExprProofs (with Induction)

    Select  <--refines--  NestLoop  <-- MCNestLoop
                             ^-- NestLoopProofs

    BufMgr  <-- MCBufMgr
      ^-- BufMgrProofs

The modules meet where the code does. `MCNestLoop` takes the predicates of its
plans from `BooleanExpr`, by the same two calls the planner makes; that the
predicates of a plan fit together is what `Binding` shows and what
`QueryAssumption` of `NestLoop` says. `Binding` uses the same operations of
`BooleanExpr` on clauses whose comparisons it has bound itself. `RowStore` treats
a row as a function from columns to values and an index key as the value of a
column, which is what `TupleCodec` shows of the bytes. `RowStore` takes `CREATE INDEX` and `DROP INDEX`
as one step each, `DBImpl` has what can come between.

Every module holds, above some definitions, a mistaken version of them (such as
`UpdateRowAtOnce` above `UpdateRow`): put in its place, it must break a property.
`PROJECT.json` lists which breaks which.

### DBImpl: the schema of a database

`DBImpl.tla` models `Open`, `Close`, `CREATE TABLE`, `DROP TABLE`,
`CREATE INDEX` and `DROP INDEX` with everything they do to the Berkeley DB file
and to the catalogs.

| Variable | Stands for |
|---|---|
| `phys` | the physical databases in `mydb.panda` (user tables, schema tables, indexes) |
| `PD_Table`, `PD_Index` | how many rows of these tables name each table, each index (a number, since nothing in the tables forbids two) |
| `object` | `mIsOpen` and `mpBackend` of the `DBImpl` |
| `mTableCatalog`, `mIndexCatalog` | the entries of the catalogs in memory |
| `closed`, `closedIndex` | entries whose handle Berkeley DB has closed |
| `pc`, `call`, `tablesToDo`, `indexesToDo`, `result` | the call in progress: how far it is, what was asked, the rows or indexes left of its loop, its answer |
| `failedAsserts` | `PDASSERT`s that did not hold, each by file and line |
| `cut` | physical databases whose creation or removal was cut short (history) |
| `refused` | those of them that an index of a schema table cut short, since the `DBImpl` was made (history) |
| `faults`, `crashes` | how many calls failed, how often the process died (bounded) |

An action is a stretch of a handler that ends with one Berkeley DB call: every
such call commits on its own, so these are the points at which a death or a
failure can leave the rest undone. What the handler changes in memory after the
call is in the same action.

| Code | Actions |
|---|---|
| `DBImpl::Open` | `OpenRefused`, `Open` (environment, `PD_Table`), `LoadTable` for each row, `OpenIndexTable`, `LoadIndex` for each row, `OpenDone`; `LoadEndsEarly` for a read error; `FailOpen` closes again |
| `CREATE TABLE` | `CreateTable` (physical database, catalog entry), `InsertTableRow` |
| `CREATE INDEX` | `CreateIndex` (physical database, associate, entry), `InsertIndexRow` |
| `DROP INDEX` | `DropIndex` (the row), `DropIndexPhys` |
| `DROP TABLE` | `DropTable` (the row), for each index `DropNextIndex` and `DropIndexPhys`, then `DropTablePhys` |
| `DBImpl::Close`, `DB` destructor and constructor | `Close`, `NewDB` |
| the process dies | `Crash`: memory is lost, the file stays |

`RemoveRow(table, out, n)` lists what the scan that removes a schema row can come
to: `removed`, `refused`, `notFound`, an error on opening or moving the cursor, and
a commit that fails unnoticed in the iterator's destructor. `Fails(kind)` lets a
backend call of that kind fail while the run allows it.

No failing call is needed for `refused`. `CREATE INDEX` takes `PD_Table` and
`PD_Index` for tables like any other, and associates the index without entries for
the rows there are; deleting such a row fails, since Berkeley DB finds no entry to
remove with it (`BDBBackend.cpp:304`, `BDBSeqScanIterator.cpp:215`; `RowStore` has the
same of user tables). A unique index on a schema table refuses the row of a `CREATE`
whose key it has. Which rows have an entry is not kept in this model: while a schema
table has an index (`Indexed`), any removal of a row from it and any insertion into it
may be refused. That is more than the program does, and what is proved holds for all
of it; the properties name the refusals they except.

Three abstractions carry weight. A name is a sequence of characters because
`GetFullIndexName` concatenates; nothing else about names matters. Columns are
left out, except that `Statement::Prepare` can refuse a `CREATE INDEX` for its
columns, with either of two answers (`PrepareFails`). A table that is created again is
taken to have the columns it had before: with other columns, a left-over row of
`PD_Index` could name a column that is gone.

### Schema: what the statements promise

`Schema.tla` has the set of tables and the set of indexes and one rule: a call
takes effect at one moment between call and answer, it answers `kOK` if and only
if it did, dropping a table drops its indexes at that moment, and a death undoes
nothing. `ImplementsSchema` maps `DBImpl` to it: the tables are those with a row
in `PD_Table`, the indexes those with a row in `PD_Index` whose table still has
one. Under it the moment of a `CREATE` is the insertion of the row and the
moment of a `DROP` is the removal of the row, after which the statement is bound
to answer `kOK`. It holds when no call fails, whenever the process dies.
It ends where an index that a user put on a schema table refuses a row: from there on
(`broken`, mapped to `refused # {}`) nothing is promised until the object is gone
(`GiveUp`). A `DROP TABLE` that is refused the row of an index answers an error for
what took effect.

### RowStore: the rows of a table and its indexes

One table with secondary indexes that come and go, and `INSERT`, `UPDATE` and
`DELETE` on it.

| Variable | Stands for |
|---|---|
| `rows`, `entries` | the rows by record number and the entries of each index, as calls see them now |
| `diskRows`, `diskEntries` | the same, committed: what a death leaves |
| `last` | the last record number `DB_APPEND` gave out |
| `indexes`, `bornAt` | the indexes there are, and what `last` was when each was created |
| `torn` | records on which a write failed after it had changed an index (history) |
| `pc`, `stmt`, `cursor`, `readFailed`, `answer` | the statement in progress, the row under its cursor, whether its scan ended at an error, its answer |
| `lost` | whether the commit of the last statement to end failed (history) |

| Code | Actions |
|---|---|
| `DBImpl::InsertData`, `BDBBackend::InsertData` | `Insert`, committed at once, answering `kOK` whatever `put` returned |
| `BDBBackend::OpenIndex`, `DropIndex` | `CreateIndex` (associated without `DB_CREATE`: no entries for the rows there are), `DropIndex` |
| `DBImpl::UpdateData`, `DeleteData`, the iterator's constructor | `Begin` |
| the loop of `PerformIterator_Private` | `SkipRow`, `UpdateRow`, `DeleteRow`; `UpdateFails` and `DeleteFails` break out of it, `NoMoreRows` and `ReadFails` end it |
| `~BDBSeqScanIterator` | `Commit`, which may fail unnoticed |
| the process dies | `Crash` |

What Berkeley DB does with secondary databases is not in `src/` and is taken from
how the code uses it: a put that would give a unique index a second entry for a
key is refused; a put or a delete that has to remove an entry the index lacks
fails; one that keeps its key may add a missing entry; a call that fails inside a
transaction may have written some of the indexes already. (What became of them
is left open by choosing any outcome, and `torn` remembers the record.)

An `INSERT` here names all columns in the order of the table; what becomes of
others is in `TupleCodec`. The model has one table because no statement writes
two, and because a statement sees no uncommitted data of another.

### TupleCodec: a row as bytes

The codec of `Tuple.cpp`, with four-byte words, the lowest byte first; the
conversions and comparisons of `Value.cpp`; the assignments of `UpdateCurrent`.
The table has one row: `Insert` writes it by the types of the columns the
statement names, `Update` decodes it by the types of the columns of the table,
assigns, and encodes it again. `said` is the history variable the properties are
about: the literal last given to each column. A string literal keeps its
quotation marks in the program, and so it does in the model. A read outside of
the string is undefined in C++; `Offset` is `Outside` from there on, and the model
takes no step from such a row. Not modelled: statements with more or fewer values
than columns (an assertion ends them), a column on the right side of `SET` or in
`VALUES` (the tree walker leaves its expression uninitialised), numbers of more
than nine digits (`atoi` overflows).

### BooleanExpr: the WHERE clause

`BooleanExpr` has the clause trees and the four operations on them: `IsTrue`,
`Flatten`, `TransformToCNF`, `CreateSubExprForPushdown`. Where the code calls itself on
the parts of a clause, the operator is the value of a function on clauses that is
defined by recursion. A comparison is a name and the set of tables its columns
belong to; what it compares is in `TupleCodec`. The constant `Comparison` holds those
there may be, `Depth` bounds how deep the lists of a clause lie in each other, and
`Clauses` are the levels: a list is one level above its parts, and the normal form,
which makes an `OR` list of `AND` lists, may be one above the clause. `Over` allows
more than the parser builds (a `Single` that holds a list, lists of one). `NOT` and `IS`
do not occur, since the tree walker drops them. Where a clause comes from and what
becomes of it is in `Binding`.

### NestLoop and Select: the execution of a SELECT

`NestLoop` is the plan being executed: `ScanNode`s over iterators, `NestLoopNode`s
over them, `Executor::ExecutePlan` on top. Nodes call one another, so an action
is the stretch of one node between two calls, `node` and `pc` say who runs.

| Code | Actions |
|---|---|
| `ScanNode::Step`, `Reset` | `ScanStep`, `ScanNext` (`ScanFindsNoRow`, `ScanFailsToRead`, `ScanReads`), `ScanReset` |
| `BDBSeqScanIterator`, `BDBIndexScanIterator` | `CreateIterator`, `Exhausted`, `Following`, `MoveCursor` |
| `NestLoopNode::Step` | `JoinStep`, `JoinLoop`, `JoinOuterReturned`, `JoinInnerReturned` |
| the functors that take a row | `Emit` |
| `Executor::ExecutePlan` | `RootReturned`, `End` |

A predicate is the set of row positions, or tuples of them, that satisfy it;
`PredicatesFit` says that a tuple passes all nodes if and only if the clause
selects it, and TLC evaluates it for every statement of the runs. Which index a
scan takes shows only in the order of the rows of its table, which the model
leaves open by counting rows in the order they are delivered. (An index made
later than its rows lacks entries: `RowStore`.) Self-joins, where two scans share
one entry of `ExprContext`, and projections are in `Binding`.

`Select` is what a client may expect: tuples selected come out one by one in the
order of the nested loops, none twice, none skipped, then the answer; and with an
answer of `kOK` all have come out, provided that no read failed. `NestLoop`
refines it by `ImplementsSelect`. The proviso is needed: see `AnswerOfFirstTable`.

### Binding: the names in a statement

One call of `DB::Execute` from the text to the rows. A clause goes from the tree
walker over `Statement::Prepare`, which binds its names and makes the normal form, to
`Planner::GeneratePlan`, where each node of the left-deep plan gets its local predicate,
and is evaluated by the nodes on the context they share.

| Variable | Stands for |
|---|---|
| `mIndexCatalog` | the indexes there are (the tables are the constant `Columns`) |
| `text`, `stmt` | the tree the parser gives, the statement the tree walker makes of it, its names bound by `Prepare` |
| `plan` | the index and the local predicate of every node of a `SELECT` |
| `context` | `mExprContext`: the last value of every column by name |
| `rows`, `output` | the rows the outer scans are on; the row delivered, or touched by an `UPDATE` or `DELETE`, by the last step |
| `pc`, `answer` | how far the call is, its answer |

| Code | Actions |
|---|---|
| `DB::Execute` | `Execute`, and `Answer` in every action that ends the call |
| `ParserDriver::ParseQuery` | `SyntaxError`, `ParseQuery` (`WalkStatement` and what it rests on, `WalkClause`) |
| `Statement::Prepare` | `Prepare` (`AmendClause` for the clause, `BoundColumns` for the columns), `PrepareFails` |
| `Planner::GeneratePlan` | `GeneratePlan` (`CandidateIndex`, `Pushed`); `GeneratePlanOfNoTable` where it asks a table that was not found |
| `ScanNode`, `NestLoopNode`, `FinalResultFunctor` | `Step` (`SkipRow`, `JoinRejects`, `KeepRow`, `DeliverRow` with `Project`), `InnerEnds`, `SelectEnds` |
| `DBImpl::PerformIterator_Private` | `BeginPerform`, `TableMissing`, `PerformIterator` (`Perform`, `LeaveRow`), `PerformEnds` |
| the other statements | `PassOn`, to what `DBImpl`, `RowStore` and `TupleCodec` model |

A scan comes to any row of its table (`Rows`) any number of times and may end at
any time: which rows there are and in which order they are read is the subject of
`NestLoop` and `RowStore`, what is evaluated on them that of `Binding`. `DISTINCT`,
`ORDER BY`, `LIMIT` and `GROUP BY` have no place in the model because the tree
walker does nothing with them. An assertion that does not hold in
`BinaryExpr::IsTrue` is passed over as in a release build. The literals `TRUE` and
`FALSE` are not among the operands: their rules set no expression
(`SQLSemanticAnalyzer.g:259-265`). Nor are errors of the tree walker itself, which
`ParserDriver` does not look at: it counts those of the parser.

The planner looks up the tables of the statement and those of the names in the
clause (`TablesLookedUp`); an unbound name is of the table with the empty name, which
there is none of. `DBImpl::GetIndexByTableColumns` asks the table it did not find for
its columns (`DBImpl.cpp:825`) before it knows whether it will need one. That is
undefined, so both outcomes are in the model: the statement goes on, as it does when
the reference is only bound and never read, or it ends in `pc = "undefined"`. For a
missing table of the statement itself there is only the second.

### BufMgr: pages in frames

| Variable | Stands for |
|---|---|
| `file`, `size` | the pages of the file and their number |
| `mPageNum`, `mRefCount`, `mUsageCount`, `mDirty` | the descriptors of the frames (`BufDesc`) |
| `mppBufData` | the frames |
| `mppHash`, `freed` | the chains of the hash table; the buckets that point to a deleted entry |
| `held` | the pins the callers (`PageProxy`) have |
| `pc` | `looping` in `PickVictim`, or `undefined` after a look-up in a freed bucket |
| `latest`, `pending`, `unread`, `excused` | what was put into each page, the frames with a change not yet written, those whose page could not be read, the pages the file has lost a change of (history) |

`PinPage` is `PinHit`, `PinMiss` (with `ReadPage` or `ReadFails`), `PinLoops` and
`PinUndefined`; `UnpinPage` is `UnpinPage` (with `WritePage`, `WriteFails` or `NoWrite`)
and `UnpinUndefined`; `NewPage` is `NewPage` and `NewPageFails`. What a failed
read leaves in the frame is any content. The number `NewPage` returns is left out
(it comes from the size the operating system has for a file whose last pages stdio
still holds), and with it the buffer of stdio.

## The runs

`MCDBImpl` gives two tables, `a` and `ab`, and indexes chosen so that names
collide: index `b` on table `a` is stored under the name of table `ab`, and
index `bc` on `a` under the name of `c` on `ab`. The constant `Wanted` says which
indexes on which tables the statements of a run name: two indexes on one table and
one on each schema table (`ddl_crash`), both kinds of collision (`ddl_faults`), two on
one table and one on `PD_Index` (`ddl_retry`). More of each kind would only repeat
these; all at once are beyond TLC's time, and the theorems are about all.

| Run | Bounds | Question |
|---|---|---|
| `ddl_crash` | indexes `b`, `c` on `a`, `b` on `PD_Table` and on `PD_Index`; one death | the catalogs, `OpenAnswers`, `AssertsHold`, `ImplementsSchema` when calls succeed |
| `ddl_faults` | indexes `b`, `bc` on `a`, `c` on `ab`; two failing calls of any kind but a commit, one death | what the disk keeps when errors are answered and dropped |
| `ddl_retry` | indexes `b`, `c` on `a`, `b` on `PD_Index`; one failing call among open, put, associate, dbremove; one death; fairness | a second `Open` on an object whose first failed, and a drop whose `dbremove` failed: which entries have a closed handle, what stays dropped; every call returns |
| `rows` | two rows, two columns of two values, a plain and a unique index, five `UPDATE`s and `DELETE`s, every call may fail and the process may die at any step, without a bound on how often | `IndexFitsTable`, `NewRowsUnique`, `EffectIsPrefix` |
| `tuples` | tables of two and three columns of either type; two numbers, three texts; `SET` lists of up to two columns, also of one column twice | what is read, indexed and compared is what was written |
| `insert_columns` | the same with any column list in `INSERT` | violation: a row written by a part of the columns, or in another order, cannot be read back |
| `where` | `Binding` with three tables that are empty, some nine thousand clauses of up to three levels | flattening and normalising keep the meaning; push-down, but for mixed `OR` lists |
| `where_or` | lists of two and three comparisons | violation: a mixed `OR` list is pushed down in part and rows are lost |
| `select` | one to three tables of up to three rows, eight clauses, two failing reads; fairness | the executing plan |
| `binding` | four table names of which one is no table, two tables sharing a column name, one with a column twice; some seven hundred statements over one to three tables, two values, two indexes that are there or not | the six properties of `Binding` |
| `unknown_column` | the same | violation: a name of `WHERE` that is bound to nothing is evaluated, and its comparison taken to hold |
| `buffers` | two frames, three pages of which two share a bucket, two pins, two contents; every file call may fail any number of times | the four properties of `BufMgr` |

*Schema.* Of the good side: rows never outlive or precede their physical
database (`RowsHavePhysical`), no two rows share one (`RowsNotShared`: the
`DB_EXCL` flag is all that keeps colliding names apart), catalogs and rows agree
between statements but where a row was refused (`CatalogIsSchema`), debris comes only from statements cut
short (`OrphansWereCut`, `DanglingWereCut`). Of the bad side: `OpenAnswers` says
exactly when a database no longer opens, and it does happen: a death after
`DROP TABLE` has removed the row of an indexed table and before it has removed
the rows of its indexes leaves a database for which `Open` never answers `kOK`
again. And a `CREATE` cut short leaves a name that can neither be created
(`DB_EXCL` refuses) nor dropped (it is in no catalog).

`AssertsHold` collects the assertions of `DBImpl.cpp` and of the catalogs that the
schema statements reach (`AssertSite` says which the others are): without failing
calls they hold, except for `DROP TABLE PD_Table` (there is no row of it to be found);
for an `Open` after one that failed on the same object (`Close_Private` left the
catalogs as they were, and `TableCatalog::AddTable` meets its own entries); and for a
`DROP` whose row a schema table with an index refuses to let go, or refused to take in.

The third is a short sequence of legal statements: `CREATE TABLE a`, `CREATE INDEX c`
on it, `CREATE INDEX b` on a column of `PD_Index`, `DROP TABLE a`. The row of `a` leaves
`PD_Table`; the row of `c` is older than `b`, so its removal fails, the assertion of
`DBImpl.cpp:497` with it, and the statement answers `kInternalError`. The catalog keeps
a table whose row is gone, and `PD_Index` a row whose table has none: after `Close` the
database does not open any more.

`ClosedHandlesWereCut` says where a closed handle can be while the database is
open, and that only `CREATE INDEX` comes to use one: on a table whose `DROP TABLE`
failed at `dbremove`. `DroppedForGood` is what a `DROP TABLE` that answered `kOK` can be relied on
for. It does not survive two failures that nobody notices, which is why `Faults` of
`ddl_retry` has no `cursor` and no `commit`: a read error in the loop of `Open` over
`PD_Index` (`DBImpl.cpp:206`) leaves an index out of the catalog, and the drop of its
table leaves its row; a commit that fails in the destructor of the iterator
(`BDBSeqScanIterator.cpp:53`) leaves the row of the table. In both cases the
database does not open any more.

*Rows.* `IndexFitsTable` is what makes an index scan and a table scan agree, for
rows inserted since the index was created; rows older than it are missing from
it, and from what a `SELECT` that uses it yields. `NewRowsUnique` is all that a
unique index means here. `EffectIsPrefix` is what remains of atomicity, judged when
the statement answers: a failed `UPDATE` keeps what it did to the rows before, a read
error makes it a prefix that answers `kOK`, and a commit that fails in the destructor
of the iterator leaves nothing of it, with the same answer (`lost`).

*SELECT.* `AnswerOfFirstTable` states what the code does: only errors of the first
table reach the answer, an error on an inner one ends that table early and the
statement answers `kOK` with rows missing. `RowsSelectedOnce` holds even then.

A join whose first table yields no row ends a scan that never began; `ScanNode::End`
asserts that this does not happen (`ScanNode.cpp:114`), and a debug build stops there.

*Names.* Whatever else is in a clause, the rows that come through satisfy every
conjunct of it that has no `NOT` and whose names are each of one table
(`RowsPassBoundPart`). The rest of the clause is worth nothing: `NOT` and `IS` are
passed over by the tree walker, and `OperandsKnown` fails, so a mistyped name in a
`DELETE` deletes everything. In a self-join the clause is decided on the last scan
of the table and the select list shows the first (`ResultFitsSelectList`).
`SameBinding` is why the two rules for a name without a table do no harm
together: where they differ, the clause leaves the name unbound.
`UndefinedOnlyUnchecked`: the planner asks a table that was not found in two cases only.
`SELECT` of a missing table is answered with `kTableMissing` if it has a clause or a
star and goes on otherwise; and a name in the clause that, as it was written, is of no
table or not of one alone brings it to the columns of no table.

*Buffers.* `PinnedFrameKept` ties descriptors, hash table and callers together:
a pinned frame is never picked as a victim. `PutIsInFile` and `PinSeesPut` carry
`excused`, and what gets a page there are three errors of the code: a failing
write is not answered, a page given back last as clean is not written, `NewPage`
writes over page 0 (`WinFile::Append` seeks to the beginning). Calls that do not
return (`PinLoops`) and look-ups in a freed bucket are reached within a few calls.

Bounds of the schema runs: `MaxFaults` and `MaxCrashes` cap the two history
counters. A cut statement leaves one of five kinds of debris, which the next
`Open` and statements on the same names meet. `ddl_faults` switches deadlock
checking off since behaviour after the use of a closed handle is not defined: the
model stops at `pc = "undefined"` until the process dies. `rows`: `MaxRows` caps the
rows ever inserted; two are enough for two rows to exchange or collide in keys,
for a statement to fail between them and for a row to be older than an index
while the other is not, and the theorems about the same properties hold for any
number. `tuples`: elements of every type before and after every other, with texts
that change their length; a third value of each type would add nothing.
`select`: three tables are the least with a nested loop under another, three rows
the least with one between the first and the last; `where` and `select` check no
deadlock since a statement ends. `binding`: one table of a name more than the other
kinds of tables (own name, shared name, repeated name, no table); three scans are
the least for a table before and after another. `buffers`: `MaxPins` of two gives a
page two pins or both frames one; three pages for two frames make victims and
collisions in a chain; `binding` and `buffers` stop where behaviour is undefined.

Fairness: `FairSpec` of `DBImpl` adds `WF_vars(Continue)`, the next step of the call in
progress. The program has one thread and no wait between the backend calls of a
statement, so a call that began runs on; nothing obliges the caller to call
again, and a death is never obliged to happen. That of `NestLoop` is
`WF_vars(Next)`: every action of it belongs to the one call of `ExecutePlan`.

## The proofs

The theorems about the schema hold for every set of table and index names (also
with an infinity of colliding ones) and for every number of failures and deaths.
They rest on `NameAssumption` (names are sequences of characters, the two system
names are different and no user table has them) and `BoundAssumption`.

- `TypeCorrect` (part 1 of `DBImplProofs`): `Spec => []TypeOK`, one step per action, one
  lemma per group of variables.
- `RowsAlwaysHavePhysical`, `RowsNeverShared` (part 2), assuming that
  commits do not fail (`"commit" \notin Faults`). Neither property is inductive.
  `RowInv` adds, for a row, that its name is unique among all rows of both
  tables, and that a name whose creation has been made and whose row has not
  been inserted, or whose row has been removed and whose physical database has
  not, has no row (`InFlightHasNoRow`). That is what makes the insertion of the
  row safe (the name is new, because the creation was exclusive and the name had
  no row) and the removal of the physical database safe.
- `OrphansAlwaysCut`: a physical database without a row was left by a statement
  cut short; this one holds with failing commits too.
- `CatalogAlwaysSchema`, assuming that at most opening and associating fail, and
  `ClosedHandlesAlwaysCut`, `DanglingAlwaysCut`, `DroppedAlwaysForGood`
  (part 3), assuming that no scan of a schema table fails
  (`QuietFaults`). The catalogs are compared with the rows only between statements,
  so `CatInv` says what they are in each phase of a call: what is left of a failed
  `Open` (`Remains`), how far the loops of `Open` are (`LoadingTables`,
  `LoadingIndexes`), and for an open database that the catalogs have every row and
  besides only the object of the statement in progress and what was cut short
  (`OpenTables`, `OpenIndexes`, `Inserting`, `DroppingTable`, `DroppingIndex`).
  `Excused` is `cut` or empty, according to `Faults`, so that one induction serves
  both assumptions. It needs `RowInv`: that a removed row is the only one of its
  name is what makes its catalog entry the only one to go. Where an index of a schema table
  has refused a row, the entry it stands for is excused like that.
- `SchemaAlwaysImplemented`, the refinement of `Schema`, and `AssertsAlwaysHold`
  (part 3), assuming that at most opening and associating fail, and
  `OpenAlwaysAnswers`, where no call fails. To `CatInv` the first adds that nothing
  is answered before the end (`Answering`) and that a database with an index row
  without its table is never open (`NotDangling`): a `CREATE TABLE` would otherwise
  give the row its table back, and its one effect would be two. A `DROP` takes
  effect when its first row goes, and the rows of the indexes that follow are no
  longer in the mapped schema, so their removal stutters; that the steps after the
  first cannot fail, which would answer an error for what took effect, rests on
  `DroppingTable` and `DroppingIndex`. All this is said while no row has been refused
  (`Whole`); one that has been is forgotten with the object only (`RefusedKept`), which
  is when `Schema` may begin again. `AssertsAlwaysHold` needs besides that an
  `Open` whose first assertion held began with empty catalogs (`Afresh`), and, since an
  entry may be left without its row, that every entry has a physical database of
  its own (`EntriesOwn`), so that an exclusive creation meets no entry.

Those about rows hold for all columns, values, indexes, statements, numbers of
rows and sets of failing calls, under `IndexAssumption`, `StatementAssumption` and
`BoundAssumption` of `RowStore` (`RowStoreProofs`):

- `TypeCorrect`.
- `IndexAlwaysFits`, `NewRowsAlwaysUnique`, from the invariant `Indexed`. What is
  said of the memory has to be said of the disk too, since a death or a commit
  that fails makes the disk the memory again; that record numbers beyond `last`
  have no row and no entry (`NumbersGivenOut`) makes an insertion meet nothing old;
  and uniqueness is first one of entries (`OneEntryPerKey`: a refused put is what
  keeps it), from which that of rows follows for the rows whose entry is there.
- `EffectsArePrefixes`, from `Effect`: while a statement runs, the rows in memory
  are those on disk with the statement applied up to the cursor, and when the scan
  has come to its end without an error the cursor has passed the last record.
  Between statements memory and disk are the same (`Idle`). Hence a commit that
  succeeds brings the prefix to disk and one that fails brings nothing.

Those about `SELECT` hold for any number of tables, rows and failing reads and
any predicates that fit together (`SizeAssumption`, `QueryAssumption`,
`FaultAssumption` of `NestLoop`):

- `TypeCorrect`, `OuterRowAlwaysCurrent` (part 1 of `NestLoopProofs`). `Control` says which
  node can run and which nested loops wait for it; `Current`, which rests on it,
  says that the outer row a waiting loop keeps is the one under the cursors below
  and has passed the predicates there, and the same of a row just returned. It
  survives because the nodes that run meanwhile only move cursors further right.
- `RowsAlwaysSelectedOnce` (part 2), from `Ahead`: the cursors are on
  rows and only go forward, so that the tuple being built is after every tuple that
  came out, in the order of the nested loops.
- `PromiseAlwaysKept`, the refinement of `Select`, and `AnswerAlwaysOfFirstTable`
  (part 3). `Statuses`: a table that could not be read gives no
  row any more (`ErrorsStop`), so that a tuple comes out only while no read has
  failed, and what the nodes report in the end is how the first table was read
  (`EndStatus`). `Complete`: as long as no read has failed, every selected tuple that
  a cursor has passed under the rows of the tables before it has come out, but the
  ones of the row in progress (`NoneSkipped`); a scan ends at its last row
  (`ScansToEnd`), so that in the end all are out (`AllOut`).

Those about the buffer manager hold for any number of frames, pages, contents and
pins, any files and any failing file calls, under `BufAssumption` (`BufMgrProofs`):

- `TypeCorrect`, `PinnedFramesKept`, `PutAlwaysInFile`, `PinAlwaysSeesPut`, from one
  invariant. A page is in at most one frame (`OneFrame`); the chains of the buckets
  that do not point to a deleted entry lead to exactly the frames that have their
  pages (`ChainsLead`, `FramesLinked`), so that `PinPage` misses a page only when no
  frame has it; a frame counts the pins callers have and the one a failed read
  leaves (`Counted`), so that a victim is nobody's; and a frame whose page was read
  has what was last put there unless the file has lost it (`FrameHasPage`), for which
  an empty file has to be all zeros, since `NewPage` then overwrites nothing
  (`EmptyFile`).

Those about rows as bytes hold for all tables and literals, any lists of `UPDATE`
and any number of statements (`TupleCodecProofs`), under `TablesAreTypes`,
`ListsNameColumns` and `LiteralsFit` of `TupleCodec`: a statement names columns of its
table, and literals, with the numbers that texts begin with, fit an `int`. They
assume `InsertsInOrder`, that an `INSERT` names all columns in the order of the
table; the run `insert_columns` shows that the row is wrong where it does not.

- `TypeCorrect`, `RowsConsumed`, `RowsReadAsWritten`, `KeysAreColumns`,
  `WhatIsWrittenIsFound`, from the invariant that the row is what `TupleToString`
  makes of the values last given to its columns, each in its column's type (`Held`).
  What is read and indexed then follows from `RowIsRead`, about any row and without
  a state: each element lies behind the bytes of those before it (`ElementsAreHeld`),
  so that by induction along the columns each is found where it is (`OffsetStep`,
  `ElementIsRead`). The invariant is kept by an `UPDATE` because the value it read
  and the literal it once came from are written as the same bytes (`WrittenAsRead`),
  and because the last assignment to a column is the one that counts
  (`AssignedIs`, `SaidIs`). That comparisons agree needs that of two different strings
  just one is after the other (`AfterIsOrder`).

Those about clauses and names hold for all comparisons, any depth and length of the
lists, any tables, rows, indexes and texts (`ComparisonAssumption` of `BooleanExpr`,
`CatalogAssumption` and `TextAssumption` of `Binding`: tables have lists of columns,
indexes are of tables, the parser gives `SELECT`, `UPDATE` and `DELETE` a table, and a
comparison is known by its operator and operands):

- `FlattenedListsAlternate` (`BooleanExprProofs`): what `Flatten_Private` asserts of its
  result.
- `MeaningIsKept`, `RootHasWholeClause`, `NoRowIsDropped` (`BindingProofs`), from `CallInv`, which only says which operator made what a
  statement and its nodes hold; the work is in `BooleanExprProofs`. The rank of a clause
  is the least level it is on, and parts have a lower rank than their list
  (`Parts`), so that what a list inherits from its parts holds of every clause
  (`ClauseInduction`). With the clauses in a set and not in a bounded run, it also has
  to be shown that the functions are there at all (`ClauseFunction`), before their
  equations can be used (`MeaningIs`, `FlatIs`, `PushdownIs`). Then: hoisting loses and
  adds no part (`HoistProperties`, `FlattenKeepsMeaning`); the lists built so far and
  one more conjunct distributed over them are true together (`DistributeKeepsMeaning`),
  so that the combinations mean the conjunction (`CombinationsProperties`,
  `TransformProperties`); the pairs that `PushedAnd` makes lose no conjunct
  (`PairedProperties`), and the loop over the alternatives keeps them all if none is
  missing (`PushedOrProperties`). `WholeClausePushed` puts this together for a node
  above all tables, `PushedPartImplied` for any node. The condition of `NoRowIsDropped`
  is the one the run `where_or` shows to be needed.
- `TypeCorrect`, `IndexIsOfClause`, `ResultFits`, from `RowsInv`: the rows kept are one
  of each of the first tables, what was delivered is their projection, the catalog has
  indexes of tables, the context names of columns. The elements of a clause offer
  indexes one after the other and the last offer stands (`CandidateIs`), so each has to
  be one (`OfferedIs`, `MatchedCountIs`). Columns and values of a joined row are put
  end to end; where the part of a table begins (`FlattenSeqAt`, `TupleOffsets`) gives the
  place of a name, and the first place is in the first scan of its table (`FirstPlace`),
  which is why the select list shows that one.
- `UndefinedIsUnchecked`: a name the planner met in the clause was amended from one as
  it was written (`AmendKeepsNames`), and one that is of a single table would have been
  given that (`OfNoTableAsWritten`).
- `BindingsAgree`: the names of a clause survive walker, binding and normal form
  (`WalkKeepsNames`, `AmendKeepsNames`), and of a name whose table is the only one that
  has it, the first one that has it is the same (`AmendAgrees`).
- `RowsPass`, from `PassInv`, which says of the rows kept, and of every shorter prefix of
  them, what `RowsPassBoundPart` says of a row delivered. Four arguments meet in it. A name
  that is bound was given its one owner (`BoundNameAmended`). The context has of every
  column the value of the last scan it belongs to (`HasLastValues`); the values of a
  further scan keep that so because they replace those of an earlier scan of the same
  table and touch no other (`LongerValues`), and a nested loop, which puts the outer row
  back, restores it (`JoinHasValues`). What a clause without `NOT` evaluates to on such a
  context is what is written (`TestHolds`, `TreeHolds`: by induction on the trees of the
  parser, `TreeInduction`). And the part a node was given has every conjunct on the
  tables below it (`ConjunctIsGuarded`, from `ConjunctGuarded` of `BooleanExprProofs`: `AND`
  distributed over `OR` has an alternative of the conjunct in each of its lists), so
  that a row that is kept passed them there; rows added later do not change what was
  decided, since a conjunct bound to the first tables is about their rows only (`LongerPasses`, `ShorterPasses`). For a self-join this
  needs the last scan of a table to be meant on both sides, in the property as in the code.

Induction over data: the induction theorems of the library take the property as an
operator, which the provers cannot instantiate. `Induction` proves the same of a set
of numbers, by `WFMin` of the library, and from it that a function defined by
recursion exists and has its type, along the numbers (`RecursiveFunction`,
`RecursiveSequence`) or along a rank (`RankedFunction`); what `NumberToString`,
`TupleToString`, `Offset` and `Assigned` compute for every input, and the operations on
clauses, is proved with these.

Every safety property, action property and refinement that a passing run checks is
proved. Out of reach of TLAPS, and only model-checked: `CallsReturn` and `Answered`
(liveness), anything about `ENABLED`. The three runs that expect a violation show why
`InsertsInOrder`, `OrsUnmixed` and the condition that names are bound are in the
statements that are proved.

## Assumptions and what is left out

- Every Berkeley DB call that commits on its own is atomic and durable. Berkeley
  DB promises that once its log is replayed; the environment is opened without
  `DB_RECOVER`, so an administrator has to do it.
- A failing `TransactionBegin` makes the code commit a null transaction; that is
  a death of the process.
- `PDASSERT` does nothing in `DBImpl`, `NestLoop`, `Binding` and `BufMgr`, as in a release build, and the
  ones that do not hold are recorded.
- Berkeley DB is external: `RowStore` and the definitions marked so in
  `PROJECT.json` state what is taken for granted of it.
- Statements on a `DB` that is not open are outside what the caller may do.
- `INSERT`, `UPDATE` and `DELETE` on `PD_Table` and `PD_Index`, which the code
  does not forbid, are not enumerated.
- `UPDATE ... SET a = b`: the tree walker returns an expression nobody has set.
- The order of the tables of a plan is that of the statement, as in the code.

### Not modelled

- The lexer and parser that ANTLR generates from `SQL.g`: a text is a tree or a
  syntax error. `3rdParty/` holds headers of ANTLR and Berkeley DB, half of the
  lines of the repository: their libraries are external to it.
- `Storage/CVS`: `CVSScanIterator` includes headers that are gone
  (`Access/Iterator.h`, `Utils/Predicate.h`), `CVSStorage` needs it, and `HeapStore`
  has no other user. It cannot be compiled, so there is nothing to be faithful to.
- `Storage/BambooDB`, `BDBStorage`, `Optimizer/Join`: stubs without state.
- `WinVFS`, `WinFile::Open`, `Close` and `Flush`: calls of the operating system, passed
  on. `Page.cpp`: an address.
- Printing (`PrintTuple`, `PrintASTTree`), `Bitmask`.

## Plan

What would come next, in this order:

1. An index scan beside a table scan in `RowStore`, with rows older than the index.
2. In `Binding`, lists of `SET` with columns on the right, should the tree walker
   ever return an expression for them.
