------------------------------- MODULE Binding -------------------------------
(***************************************************************************)
(* The names in a statement: what DB::Execute makes of them from the text  *)
(* to the rows a SELECT delivers and an UPDATE or a DELETE touches         *)
(* (Parser/SQLSemanticAnalyzer.g, Parser/ParserDriver.cpp,                 *)
(* Database/Statement.cpp, Expr/ExprWalker.cpp, Optimizer/Plan/Planner.cpp,*)
(* Expr/ExprContext.cpp, Optimizer/Plan/PlanResult.cpp).                   *)
(*                                                                         *)
(* A name of a column is <<table, column>> with NoTable where the text     *)
(* gives no table, a literal is <<value>>. NULL is a pointer to nothing.   *)
(* Operators whose names begin with that of the next one are mistakes to   *)
(* be tried in its place.                                                  *)
(***************************************************************************)
EXTENDS BooleanExpr, Functions

CONSTANTS
    TableNames, \* the names a statement may give to tables
    ColumnNames,
    Columns,    \* the tables of the catalog, each with the names of its columns
    Indexes,    \* the indexes there may be, in the order of the catalog
    Values,     \* of columns and literals
    Rows,       \* the rows a scan may come to, for each table
    Operators,  \* of the comparisons in a clause; "column" of a single column
    Texts,      \* the texts given to DB::Execute, as trees of the parser
    NoTable,    \* of a name that is not qualified
    Unknown     \* the value of a name that has none

Tables == DOMAIN Columns

ASSUME CatalogAssumption ==
    /\ Columns \in [Tables -> Seq(ColumnNames)]
    /\ Tables \subseteq TableNames /\ NoTable \notin TableNames
    /\ Indexes \in Seq([table : Tables, columns : Seq(Nat)])
    /\ \A t \in Tables : Rows[t] \subseteq [DOMAIN Columns[t] -> Values]
    /\ Unknown \notin Values
    /\ Operators \subseteq {"=", "!=", "<", "<=", ">", ">=", "column"}

VARIABLES
    mIndexCatalog,  \* the indexes of the catalog
    text,           \* what was given to DB::Execute
    stmt,           \* mpStmt
    plan,           \* of a SELECT: the index and the predicates of its nodes
    rows,           \* the rows kept by the outer scans, outermost first
    context,        \* mExprContext
    output,         \* what the last row delivered or touched looked like
    pc,             \* how far the call is
    answer

vars == <<mIndexCatalog, text, stmt, plan, rows, context, output, pc, answer>>

ColumnName == (TableNames \cup {NoTable}) \X ColumnNames

(* Of a comparison: columns and literals.                                  *)
Operands == ColumnName \cup {<<v>> : v \in Values}

IsColumn(operand) == Len(operand) = 2

(***************************************************************************)
(* Catalog                                                                 *)
(***************************************************************************)

Def(t, i) == [table |-> t, column |-> Columns[t][i], index |-> i]

GetAllColumns(t) == [i \in DOMAIN Columns[t] |-> Def(t, i)]

HasColumn(t, c) == t \in Tables /\ \E i \in DOMAIN Columns[t] : Columns[t][i] = c

(* The first column of the table that has the name.                        *)
GetColumnByName(t, c) ==
    Def(t, CHOOSE i \in DOMAIN Columns[t] :
               /\ Columns[t][i] = c
               /\ \A k \in 1 .. i - 1 : Columns[t][k] # c)

Found(def)   == [status |-> "kOK", def |-> def]
Missing(why) == [status |-> why]

FirstOf(S) == CHOOSE i \in S : \A k \in S : i <= k
LastOf(S)  == CHOOSE i \in S : \A k \in S : i >= k

(* The tables are tried in the order of the statement. A table that is not *)
(* in the catalog is passed over if a later one has the column.            *)
GetColumnDefFromQualifiedName(tableRefs, name) ==
    LET having == {i \in DOMAIN tableRefs : HasColumn(tableRefs[i], name[2])}
    IN  IF name[1] = NoTable
        THEN IF having = {} THEN Missing("kColumnMissing")
                            ELSE Found(GetColumnByName(tableRefs[FirstOf(having)], name[2]))
        ELSE IF name[1] \notin Range(tableRefs) \cap Tables THEN Missing("kTableMissing")
        ELSE IF ~ HasColumn(name[1], name[2]) THEN Missing("kColumnMissing")
        ELSE Found(GetColumnByName(name[1], name[2]))

IndexListOf(t) ==
    FlattenSeq([i \in DOMAIN mIndexCatalog |->
        IF mIndexCatalog[i].table = t THEN <<mIndexCatalog[i]>> ELSE <<>>])

(* How many columns of an index, from the left, are among the names.       *)
MatchedCount(x, names) ==
    LastOf({n \in 0 .. Len(x.columns) :
               \A i \in 1 .. n : Columns[x.table][x.columns[i]] \in names})

GetIndexByAnyColumn(t, names) ==
    LET list == IndexListOf(t) IN IF list = <<>> THEN NULL ELSE list[1]

(* The first of the indexes that match most. A table that is not in the    *)
(* catalog has none; it is asked for its columns all the same, through a   *)
(* pointer to nothing (GeneratePlanOfNoTable).                             *)
GetIndexByTableColumns(t, names) ==
    LET list == IndexListOf(t)
        count(i) == MatchedCount(list[i], names)
        best == {i \in DOMAIN list : count(i) > 0
                     /\ \A k \in DOMAIN list : count(i) >= count(k)}
    IN  IF best = {} THEN NULL ELSE list[FirstOf(best)]

(***************************************************************************)
(* From the text to the statement                                          *)
(***************************************************************************)

(* The tables of the columns of a comparison, as Binary of BooleanExpr     *)
(* wants them. A comparison is named by what it says.                      *)
ComparisonOf(op, left, right) ==
    Binary([op |-> op, left |-> left, right |-> right],
           {o[1] : o \in {x \in {left, right} : IsColumn(x)}})

(* The clauses of the texts. A test or a list may be negated. TRUE and     *)
(* FALSE are left out: the rules for them set no expression.               *)
Test == [type : {"Test"}, negated : BOOLEAN, op : Operators,
         left : Operands, right : Operands]

Trees[n \in 0 .. Depth] ==
    IF n = 0 THEN {}
    ELSE Test \cup Trees[n - 1]
              \cup [type : {"And", "Or"}, negated : BOOLEAN,
                    list : Seq(Trees[n - 1]) \ {<<>>}]

Tree == Trees[Depth]

StatementType ==
    {"select", "update", "delete", "insert", "create table", "create index",
     "drop table", "drop index", "empty", "syntax error"}

(* What the parser may make of a text.                                     *)
Text == [type : StatementType, tables : Seq(TableNames), columns : Seq(ColumnName),
         all : BOOLEAN, where : Tree \cup {NULL}]

ASSUME TextAssumption ==
    /\ Texts \subseteq Text
    /\ \A t \in Texts : t.type \in {"select", "update", "delete"} => t.tables # <<>>
    /\ \A op \in Operators : \A left, right \in Operands :
           ComparisonOf(op, left, right) \in Comparison
    /\ \A c \in Comparison :
           /\ c.name.op \in Operators /\ {c.name.left, c.name.right} \subseteq Operands
           /\ c = ComparisonOf(c.name.op, c.name.left, c.name.right)

(* The tree walker: NOT before a factor and IS after it are passed over.   *)
WalkClause(tree) ==
    LET walked[x \in Tree] ==
            IF x.type = "Test" THEN Single(ComparisonOf(x.op, x.left, x.right))
            ELSE [type |-> x.type, list |-> [i \in DOMAIN x.list |-> walked[x.list[i]]]]
    IN  walked[tree]

WalkWhere(tree) == IF tree.where = NULL THEN NULL ELSE WalkClause(tree.where)

(* Each rule pushes a statement of its type and adds to it what it meets.  *)
PushedStatement(type) ==
    [type |-> type, tables |-> <<>>, columns |-> <<>>, all |-> FALSE, where |-> NULL]

WalkSchema(tree) ==
    [PushedStatement(tree.type) EXCEPT !.tables = tree.tables, !.columns = tree.columns]

WalkSelect(tree) ==
    [PushedStatement("select") EXCEPT !.tables = tree.tables, !.all = tree.all,
        !.columns = IF tree.all THEN <<>> ELSE tree.columns, !.where = WalkWhere(tree)]

(* The literals of VALUES and SET are left out.                            *)
WalkChange(tree) ==
    [PushedStatement(tree.type) EXCEPT !.tables = tree.tables,
        !.columns = IF tree.type = "delete" THEN <<>> ELSE tree.columns,
        !.where = IF tree.type = "insert" THEN NULL ELSE WalkWhere(tree)]

WalkStatement(tree) ==
    CASE tree.type = "select" -> WalkSelect(tree)
      [] tree.type \in {"update", "insert", "delete"} -> WalkChange(tree)
      [] OTHER -> WalkSchema(tree)

AmendToLast(name, tableRefs) ==
    LET owners == {t \in Range(tableRefs) : HasColumn(t, name[2])}
    IN  IF IsColumn(name) /\ name[1] = NoTable /\ owners # {}
        THEN <<tableRefs[LastOf({i \in DOMAIN tableRefs : tableRefs[i] \in owners})], name[2]>>
        ELSE name

(* AmendColumnWalker gives a name the table that has the column, if one    *)
(* table alone has it. Otherwise the name stays as it is; the status that  *)
(* says kAmbiguousColumn is dropped.                                       *)
AmendColumn(name, tableRefs) ==
    LET owners == {t \in Range(tableRefs) : HasColumn(t, name[2])}
    IN  IF IsColumn(name) /\ name[1] = NoTable /\ \E t \in owners : owners = {t}
        THEN <<CHOOSE t \in owners : TRUE, name[2]>>
        ELSE name

AmendClause(e, tableRefs) ==
    LET amended[x \in Clause] ==
            IF x.type = "Binary"
            THEN ComparisonOf(x.name.op, AmendColumn(x.name.left, tableRefs),
                                         AmendColumn(x.name.right, tableRefs))
            ELSE [type |-> x.type, list |-> [i \in DOMAIN x.list |-> amended[x.list[i]]]]
    IN  amended[e]

(***************************************************************************)
(* Evaluation                                                              *)
(***************************************************************************)

NameOf(def) == <<def.table, def.column>>

UpdateTupleValueFirstWins(ctx, defs, values) ==
    [name \in DOMAIN ctx \cup {NameOf(defs[i]) : i \in DOMAIN defs} |->
        LET at == {i \in DOMAIN defs : NameOf(defs[i]) = name}
        IN  IF at = {} THEN ctx[name] ELSE values[FirstOf(at)]]

(* There is one entry for a name: the last column of that name is the one  *)
(* that is kept.                                                           *)
UpdateTupleValue(ctx, defs, values) ==
    [name \in DOMAIN ctx \cup {NameOf(defs[i]) : i \in DOMAIN defs} |->
        LET at == {i \in DOMAIN defs : NameOf(defs[i]) = name}
        IN  IF at = {} THEN ctx[name] ELSE values[LastOf(at)]]

GetColumnValue(ctx, name) == IF name \in DOMAIN ctx THEN ctx[name] ELSE Unknown

Eval(operand, ctx) == IF IsColumn(operand) THEN GetColumnValue(ctx, operand) ELSE operand[1]

Compare(op, l, r) ==
    CASE op = "=" -> l = r [] op = "!=" -> l # r [] op = "<" -> l < r
      [] op = "<=" -> l <= r [] op = ">" -> l > r [] op = ">=" -> l >= r

(* A comparison with a side of no value is taken to hold, a column of no   *)
(* value that stands by itself is not.                                     *)
BinaryIsTrue(c, ctx) ==
    LET l == Eval(c.left, ctx)
    IN  IF c.op = "column" THEN l # Unknown /\ l # 0
        ELSE LET r == Eval(c.right, ctx)
             IN  Unknown \in {l, r} \/ Compare(c.op, l, r)

Passes(predicate, ctx) ==
    IF predicate = NULL THEN TRUE
    ELSE IsTrue(predicate, {c.name : c \in {x \in Comparisons(predicate) :
                                                BinaryIsTrue(x.name, ctx)}})

(***************************************************************************)
(* Statement::Prepare                                                      *)
(***************************************************************************)

ClauseCheckedAny(s) == s.where = NULL \/ Range(s.tables) \cap Tables # {}

ClauseChecked(s) == s.where = NULL \/ Range(s.tables) \subseteq Tables

BoundColumns(s) == [i \in DOMAIN s.columns |->
                        GetColumnDefFromQualifiedName(s.tables, s.columns[i])]

(* The columns of CREATE TABLE are given its name and their places.        *)
NewColumns(s) == [i \in DOMAIN s.columns |->
                      [table |-> s.tables[1], column |-> s.columns[i][2], index |-> i]]

AllColumns(s) == FlattenSeq([i \in DOMAIN s.tables |-> GetAllColumns(s.tables[i])])

PrepareStatus(s) ==
    LET unbound == {i \in DOMAIN s.columns : BoundColumns(s)[i].status # "kOK"}
    IN  IF s.type = "empty" THEN "kOK"
        ELSE IF ~ ClauseChecked(s) THEN "kTableMissing"
        ELSE IF s.all /\ ~ Range(s.tables) \subseteq Tables THEN "kTableMissing"
        ELSE IF s.all \/ s.type = "create table" \/ unbound = {} THEN "kOK"
        ELSE BoundColumns(s)[FirstOf(unbound)].status

Prepared(s) ==
    [s EXCEPT
        !.where = IF @ = NULL THEN NULL ELSE TransformToCNF(AmendClause(@, s.tables)),
        !.columns = IF s.all THEN AllColumns(s)
                    ELSE IF s.type = "create table" THEN NewColumns(s)
                    ELSE [i \in DOMAIN @ |-> BoundColumns(s)[i].def]]

(***************************************************************************)
(* Planner::GeneratePlan                                                   *)
(***************************************************************************)

DependentColumns(e) ==
    UNION {{o \in {c.name.left, c.name.right} : IsColumn(o)} : c \in Comparisons(e)}

NamesIn(e, t) == {o[2] : o \in {x \in DependentColumns(e) : x[1] = t}}

(* Every element of the clause that has an index to offer for a table      *)
(* overrides those before it.                                              *)
CandidateIndex(where, t) ==
    LET offer(k) == GetIndexByTableColumns(t, NamesIn(where.list[k], t))
        offers == {k \in DOMAIN where.list : offer(k) # NULL}
    IN  IF offers = {} THEN NULL ELSE offer(LastOf(offers))

Pushed(where, tables) ==
    IF where = NULL THEN NULL ELSE CreateSubExprForPushdown(where, tables)

(* The tables the planner looks up: those of the statement, which it asks  *)
(* for their names, and those that the names in the clause are of, which it*)
(* asks for their columns. That is NoTable where a name was left unbound.  *)
TablesLookedUp(s) ==
    Range(s.tables)
        \cup IF s.where = NULL THEN {} ELSE {name[1] : name \in DependentColumns(s.where)}

(* Scan i is node <<i, i>>, the nested loop that joins it in <<1, i>>.     *)
Nodes(s) == {<<i, i>> : i \in DOMAIN s.tables} \cup {<<1, i>> : i \in DOMAIN s.tables}

TablesBelow(s, n) == {s.tables[i] : i \in n[1] .. n[2]}

GeneratedPlan(s) ==
    [index |-> [i \in DOMAIN s.tables |->
                    IF s.where = NULL THEN NULL ELSE CandidateIndex(s.where, s.tables[i])],
     local |-> [n \in Nodes(s) |-> Pushed(s.where, TablesBelow(s, n))]]

(***************************************************************************)
(* One row of one scan, through the nodes above it                         *)
(***************************************************************************)

ColumnsUpTo(i) == FlattenSeq([k \in 1 .. i |-> GetAllColumns(stmt.tables[k])])

Scan == Len(rows) + 1

ScanContext(row) ==
    UpdateTupleValue(context, GetAllColumns(stmt.tables[Scan]), row)

PassesScan(row) == Passes(plan.local[<<Scan, Scan>>], ScanContext(row))

(* NestLoopNode::MatchPredicate puts the values of both sides in place.    *)
JoinContext(row) ==
    IF Scan = 1 THEN ScanContext(row)
    ELSE UpdateTupleValue(
             UpdateTupleValue(ScanContext(row), ColumnsUpTo(Scan - 1), FlattenSeq(rows)),
             GetAllColumns(stmt.tables[Scan]), row)

PassesJoin(row) ==
    IF Scan = 1 THEN TRUE ELSE Passes(plan.local[<<1, Scan>>], JoinContext(row))

ProjectByName(row) ==
    LET defs == ColumnsUpTo(Scan)
        values == FlattenSeq(Append(rows, row))
        place(def) == FirstOf({i \in DOMAIN defs : defs[i].column = def.column})
    IN  [k \in DOMAIN stmt.columns |-> values[place(stmt.columns[k])]]

(* FinalResultFunctor: for each column of the select list the value of the *)
(* first column of the row that is equal to it.                            *)
Project(row) ==
    LET defs == ColumnsUpTo(Scan)
        values == FlattenSeq(Append(rows, row))
        place(def) == FirstOf({i \in DOMAIN defs : defs[i] = def})
    IN  [k \in DOMAIN stmt.columns |-> values[place(stmt.columns[k])]]

(***************************************************************************)
(* Actions                                                                 *)
(***************************************************************************)

Init ==
    /\ \E S \in SUBSET DOMAIN Indexes :
           mIndexCatalog =
               FlattenSeq([i \in DOMAIN Indexes |-> IF i \in S THEN <<Indexes[i]>> ELSE <<>>])
    /\ text = NULL
    /\ stmt = NULL
    /\ plan = NULL
    /\ rows = <<>>
    /\ context = <<>>
    /\ output = NULL
    /\ pc = "idle"
    /\ answer = "none"

AnswerKeepingStmt(status) ==
    /\ pc' = "idle"
    /\ answer' = status
    /\ rows' = <<>>
    /\ context' = <<>>
    /\ text' = NULL
    /\ UNCHANGED <<mIndexCatalog, stmt, plan, output>>

Answer(status) ==
    /\ pc' = "idle"
    /\ answer' = status
    /\ stmt' = NULL
    /\ plan' = NULL
    /\ rows' = <<>>
    /\ context' = <<>>
    /\ output' = NULL
    /\ text' = NULL
    /\ UNCHANGED mIndexCatalog

SyntaxError ==
    /\ pc = "parsing"
    /\ text.type = "syntax error"
    /\ Answer("kSQLSyntaxError")

Execute(t) ==
    /\ pc = "idle"
    /\ text' = t
    /\ pc' = "parsing"
    /\ answer' = "none"
    /\ UNCHANGED <<mIndexCatalog, stmt, plan, rows, context, output>>

(* A text without a tree is a comment and gives an empty statement.        *)
ParseQuery ==
    /\ pc = "parsing"
    /\ text.type # "syntax error"
    /\ stmt' = WalkStatement(text)
    /\ pc' = "parsed"
    /\ UNCHANGED <<mIndexCatalog, text, plan, rows, context, output, answer>>

Prepare ==
    /\ pc = "parsed"
    /\ PrepareStatus(stmt) = "kOK"
    /\ stmt' = Prepared(stmt)
    /\ pc' = "prepared"
    /\ UNCHANGED <<mIndexCatalog, text, plan, rows, context, output, answer>>

PrepareFails ==
    /\ pc = "parsed"
    /\ PrepareStatus(stmt) # "kOK"
    /\ Answer(PrepareStatus(stmt))

(* What becomes of the other statements is told in DBImpl and TupleCodec.  *)
PassOn ==
    /\ pc = "prepared"
    /\ stmt.type \notin {"select", "update", "delete"}
    /\ Answer("passed on")

(* Asking a table that was not found for its columns may do no harm: none  *)
(* of them is needed where it has no index.                                *)
GeneratePlan ==
    /\ pc = "prepared"
    /\ stmt.type = "select"
    /\ Range(stmt.tables) \subseteq Tables
    /\ plan' = GeneratedPlan(stmt)
    /\ pc' = "stepping"
    /\ UNCHANGED <<mIndexCatalog, text, stmt, rows, context, output, answer>>

(* What comes of asking a table that was not found is not defined.         *)
GeneratePlanOfNoTable ==
    /\ pc = "prepared"
    /\ stmt.type = "select"
    /\ ~ TablesLookedUp(stmt) \subseteq Tables
    /\ pc' = "undefined"
    /\ UNCHANGED <<mIndexCatalog, text, stmt, plan, rows, context, output, answer>>

SkipRow(row) ==
    /\ ~ PassesScan(row)
    /\ context' = ScanContext(row)
    /\ output' = NULL
    /\ UNCHANGED rows

JoinRejects(row) ==
    /\ PassesScan(row)
    /\ ~ PassesJoin(row)
    /\ context' = JoinContext(row)
    /\ output' = NULL
    /\ UNCHANGED rows

KeepRow(row) ==
    /\ PassesScan(row)
    /\ PassesJoin(row)
    /\ Scan < Len(stmt.tables)
    /\ context' = JoinContext(row)
    /\ output' = NULL
    /\ rows' = Append(rows, row)

DeliverRow(row) ==
    /\ PassesScan(row)
    /\ PassesJoin(row)
    /\ Scan = Len(stmt.tables)
    /\ context' = JoinContext(row)
    /\ output' = [rows |-> Append(rows, row), values |-> Project(row)]
    /\ UNCHANGED rows

(* A scan comes to a row of its table.                                     *)
Step ==
    /\ pc = "stepping"
    /\ \E row \in Rows[stmt.tables[Scan]] :
           SkipRow(row) \/ JoinRejects(row) \/ KeepRow(row) \/ DeliverRow(row)
    /\ UNCHANGED <<mIndexCatalog, text, stmt, plan, pc, answer>>

(* The inner scan has no more rows; the next outer one goes on.            *)
InnerEnds ==
    /\ pc = "stepping"
    /\ rows # <<>>
    /\ rows' = Front(rows)
    /\ output' = NULL
    /\ UNCHANGED <<mIndexCatalog, text, stmt, plan, context, pc, answer>>

SelectEnds ==
    /\ pc = "stepping"
    /\ rows = <<>>
    /\ Answer("kOK")

BeginPerform ==
    /\ pc = "prepared"
    /\ stmt.type \in {"update", "delete"}
    /\ stmt.tables[1] \in Tables
    /\ pc' = "performing"
    /\ UNCHANGED <<mIndexCatalog, text, stmt, plan, rows, context, output, answer>>

TableMissing ==
    /\ pc = "prepared"
    /\ stmt.type \in {"update", "delete"}
    /\ stmt.tables[1] \notin Tables
    /\ Answer("kTableMissing")

(* Without a clause the context is not looked at.                          *)
PerformContext(row) ==
    IF stmt.where = NULL THEN context
    ELSE UpdateTupleValue(context, GetAllColumns(stmt.tables[1]), row)

Perform(row) ==
    /\ Passes(stmt.where, PerformContext(row))
    /\ output' = [rows |-> <<row>>]

LeaveRow(row) ==
    /\ ~ Passes(stmt.where, PerformContext(row))
    /\ output' = NULL

PerformIterator ==
    /\ pc = "performing"
    /\ \E row \in Rows[stmt.tables[1]] :
           /\ Perform(row) \/ LeaveRow(row)
           /\ context' = PerformContext(row)
    /\ UNCHANGED <<mIndexCatalog, text, stmt, plan, rows, pc, answer>>

PerformEnds ==
    /\ pc = "performing"
    /\ Answer("kOK")

Next ==
    \/ \E t \in Texts : Execute(t)
    \/ SyntaxError \/ ParseQuery \/ Prepare \/ PrepareFails \/ PassOn
    \/ GeneratePlan \/ GeneratePlanOfNoTable
    \/ Step \/ InnerEnds \/ SelectEnds
    \/ BeginPerform \/ TableMissing \/ PerformIterator \/ PerformEnds

Spec == Init /\ [][Next]_vars

(***************************************************************************)
(* Properties                                                              *)
(***************************************************************************)

(* What each variable holds at each stage of a call of DB::Execute.        *)
TypeOK ==
    /\ Range(mIndexCatalog) \subseteq Range(Indexes)
    /\ pc \in {"idle", "parsing", "parsed", "prepared", "stepping", "performing",
               "undefined"}
    /\ answer \in {"none", "kOK", "kSQLSyntaxError", "kTableMissing", "kColumnMissing",
                   "passed on"}
    /\ text \in Texts \cup {NULL} /\ (text = NULL <=> pc = "idle")
    /\ (stmt = NULL <=> pc \in {"idle", "parsing"})
    /\ stmt # NULL => stmt.type \in StatementType \ {"syntax error"}
    /\ plan # NULL <=> pc = "stepping"
    /\ rows # <<>> => pc = "stepping" /\ Len(rows) < Len(stmt.tables)
    /\ \A i \in DOMAIN rows : rows[i] \in Rows[stmt.tables[i]]
    /\ \A name \in DOMAIN context : HasColumn(name[1], name[2])
    /\ output # NULL => pc \in {"stepping", "performing"}

(* Without NOT or IS.                                                      *)
Plain(tree) ==
    LET plain[x \in Tree] ==
            ~ x.negated /\ (x.type = "Test" \/ \A i \in DOMAIN x.list : plain[x.list[i]])
    IN  plain[tree]

NamesWritten(tree) ==
    LET names[x \in Tree] ==
            IF x.type = "Test" THEN {o \in {x.left, x.right} : IsColumn(o)}
            ELSE UNION {names[x.list[i]] : i \in DOMAIN x.list}
    IN  IF tree = NULL THEN {} ELSE names[tree]

ConjunctsWritten(tree) ==
    IF tree = NULL THEN {}
    ELSE IF tree.type = "And" /\ ~ tree.negated THEN Range(tree.list) ELSE {tree}

OwnersOf(name, tables) ==
    {t \in Range(tables) : HasColumn(t, name[2]) /\ name[1] \in {NoTable, t}}

(* Of the scans of a table the last, of its columns of a name the last.    *)
LastValueOf(operand, tuple, tables) ==
    IF ~ IsColumn(operand) THEN operand[1]
    ELSE LET t == CHOOSE owner \in OwnersOf(operand, tables) : TRUE
             scan == LastOf({i \in DOMAIN tuple : tables[i] = t})
         IN  tuple[scan][LastOf({i \in DOMAIN Columns[t] : Columns[t][i] = operand[2]})]

HoldsAsWritten(tree, tuple, tables) ==
    LET Value(operand) == LastValueOf(operand, tuple, tables)
        holds[x \in Tree] ==
            IF x.type = "And" THEN \A i \in DOMAIN x.list : holds[x.list[i]]
            ELSE IF x.type = "Or" THEN \E i \in DOMAIN x.list : holds[x.list[i]]
            ELSE IF x.op = "column" THEN Value(x.left) # 0
            ELSE Compare(x.op, Value(x.left), Value(x.right))
    IN  holds[tree]

(* Each name is of one of the tables of the statement, and that is among   *)
(* those below.                                                            *)
BoundBy(tree, below, tables) ==
    \A name \in NamesWritten(tree) : \E t \in below : OwnersOf(name, tables) = {t}

(* Whatever else is in the clause, unbound names included: the rows that a *)
(* SELECT delivers, those it keeps of the outer tables and the one that an *)
(* UPDATE or a DELETE touches satisfy every conjunct of the clause as it   *)
(* was written that has no NOT and whose names are each of one of the      *)
(* tables come to (AmendColumnWalker, ExprContext, the local predicates).  *)
RowsPassBoundPart ==
    LET tuple == IF output # NULL THEN output.rows ELSE rows
    IN  \A n \in DOMAIN tuple : \A c \in ConjunctsWritten(text.where) :
            Plain(c) /\ BoundBy(c, {stmt.tables[i] : i \in 1 .. n}, stmt.tables)
                => HoldsAsWritten(c, SubSeq(tuple, 1, n), stmt.tables)

(* The clause as written, its names bound.                                 *)
BoundClause == AmendClause(WalkClause(text.where), stmt.tables)

SameMeaning(e, f) ==
    \A holds \in SUBSET {c.name : c \in Comparisons(BoundClause)} :
        IsTrue(e, holds) = IsTrue(f, holds)

Implied(e) ==
    \A holds \in SUBSET {c.name : c \in Comparisons(BoundClause)} :
        IsTrue(BoundClause, holds) => IsTrue(e, holds)

HasClause == pc \in {"prepared", "stepping", "performing"} /\ stmt.where # NULL

(* Flattening and normalising keep the meaning of the clause               *)
(* (Statement::Prepare, BooleanExpr::TransformToCNF).                      *)
MeaningKept == HasClause => SameMeaning(BoundClause, stmt.where)

(* The root of the plan evaluates the whole clause, and no less, if every  *)
(* name in it is bound to a table of the statement                         *)
(* (NestLoopNode::SetupPredicate_Recursive).                               *)
RootEvaluatesWhole ==
    (/\ pc = "stepping" /\ HasClause
     /\ \A name \in DependentColumns(BoundClause) : name[1] \in Range(stmt.tables))
        => SameMeaning(BoundClause, plan.local[<<1, Len(stmt.tables)>>])

(* Every alternative of an OR list can be evaluated at a node, or none can.*)
OrUnmixed(x, tables) ==
    LET CanBe(i) == CreateSubExprForPushdown(x.list[i], tables) # NULL
    IN  x.type = "Or" => \A i, k \in DOMAIN x.list : CanBe(k) => CanBe(i)

(* So it is for the OR lists at any depth.                                 *)
OrsUnmixed(e, tables) ==
    LET unmixed[x \in Clause] ==
            IF x.type = "Binary" THEN TRUE
            ELSE OrUnmixed(x, tables) /\ \A i \in DOMAIN x.list : unmixed[x.list[i]]
    IN  unmixed[e]

(* A node below the root drops no row that the clause selects, provided    *)
(* that it can evaluate all or none of the alternatives of each OR list    *)
(* (BooleanExpr::CreateSubExprForPushdown).                                *)
NoRowDroppedUnlessMixed ==
    pc = "stepping" /\ HasClause =>
        \A n \in DOMAIN plan.local :
            plan.local[n] # NULL /\ OrsUnmixed(stmt.where, TablesBelow(stmt, n))
                => Implied(plan.local[n])

(* BooleanExpr.cpp:495-496: "As long as there is one sub expression        *)
(* doesn't have enough context, we will exclude the whole expression", so  *)
(* that no node drops a row that the clause selects.                       *)
NoRowDropped ==
    pc = "stepping" /\ HasClause =>
        \A n \in DOMAIN plan.local : plan.local[n] # NULL => Implied(plan.local[n])

(* A row delivered has, for every column of the select list, the value of  *)
(* the column of that name, in the first scan of its table; that it is     *)
(* found at all is what PlanResult.cpp asserts.                            *)
ResultFitsSelectList ==
    pc = "stepping" /\ output # NULL =>
        /\ DOMAIN output.values = DOMAIN stmt.columns
        /\ \A k \in DOMAIN stmt.columns :
            LET def == stmt.columns[k]
                scan == FirstOf({i \in DOMAIN stmt.tables : stmt.tables[i] = def.table})
            IN  /\ output.values[k] = output.rows[scan][def.index]
                /\ ~ text.all => /\ def.column = text.columns[k][2]
                                 /\ text.columns[k][1] \in {NoTable, def.table}

(* Two pieces of code give a table to a name without one. Where the name   *)
(* is in the select list (GetColumnDefFromQualifiedName) and in the clause *)
(* (AmendColumnWalker), they agree or the second leaves it unbound.        *)
SameBinding ==
    pc = "stepping" /\ ~ text.all =>
        \A k \in DOMAIN text.columns :
            text.columns[k] \in NamesWritten(text.where) =>
                {text.columns[k], NameOf(stmt.columns[k])}
                    \cap DependentColumns(stmt.where) # {}

(* An index is scanned only for the table it is of, and because the clause *)
(* has its first column (GetIndexByTableColumns).                          *)
IndexedByClause ==
    plan # NULL => \A i \in DOMAIN plan.index :
        LET scanned == plan.index[i]
        IN  scanned # NULL =>
                /\ scanned.table = stmt.tables[i]
                /\ <<scanned.table, Columns[scanned.table][scanned.columns[1]]>>
                       \in DependentColumns(stmt.where)

(* The name is of a table that is not in the catalog, or of none or of     *)
(* several of the tables of the statement.                                 *)
OfNoTable(name, tables) ==
    IF name[1] = NoTable THEN ~ \E t \in Tables : OwnersOf(name, tables) = {t}
                         ELSE name[1] \notin Tables

(* The planner asks a table that was not found only in a SELECT that had   *)
(* neither a clause nor a star for Prepare to look its tables up for, and  *)
(* in one whose clause, as it was written, has a name of no table:         *)
(* AmendColumnWalker leaves it unbound and nothing tells of it             *)
(* (Planner::GeneratePlan, DBImpl::GetIndexByTableColumns).                *)
UndefinedOnlyUnchecked ==
    pc = "undefined" =>
        \/ text.where = NULL /\ ~ text.all
        \/ \E name \in NamesWritten(text.where) : OfNoTable(name, text.tables)

(* "It's a logic error if the current context doesn't include the value    *)
(* for the operand", says BinaryExpr::IsTrue of a comparison it evaluates. *)
OperandsKnown ==
    /\ pc = "performing" => \A name \in DependentColumns(stmt.where) :
           name[1] = stmt.tables[1] /\ HasColumn(name[1], name[2])
    /\ pc = "stepping" => \A n \in DOMAIN plan.local :
           \A name \in DependentColumns(plan.local[n]) : HasColumn(name[1], name[2])
=============================================================================
