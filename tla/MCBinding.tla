------------------------------ MODULE MCBinding ------------------------------
(***************************************************************************)
(* Statements for TLC: tables that share a column name, a table with two   *)
(* columns of one name, a name that is no table; select lists and clauses  *)
(* whose names are bound, qualified, ambiguous and unknown.                *)
(***************************************************************************)
EXTENDS Binding

CONSTANTS a, b, d, n, x, y, w, q

TableColumns == [t \in {a, b, d} |-> CASE t = a -> <<x, y>> [] t = b -> <<y>> [] t = d -> <<w, w>>]

TableRows == [t \in {a, b, d} |-> [DOMAIN TableColumns[t] -> {0, 1}]]

IndexList ==
    <<[table |-> a, columns |-> <<1>>], [table |-> a, columns |-> <<2, 1>>]>>

N(c)    == <<NoTable, c>>
T(op, left, right) ==
    [type |-> "Test", negated |-> FALSE, op |-> op, left |-> left, right |-> right]
Not(t)  == [t EXCEPT !.negated = TRUE]
List(type, list) == [type |-> type, negated |-> FALSE, list |-> list]

IsOne(c) == T("=", c, <<1>>)
Joined   == T("=", <<a, y>>, <<b, y>>)

Wheres ==
    {NULL, IsOne(N(x)), T("<", N(y), <<1>>), Joined, IsOne(N(q)), IsOne(N(w)),
     T("column", N(x), <<1>>), Not(IsOne(N(x))),
     List("And", <<IsOne(N(x)), IsOne(N(q))>>),
     List("And", <<Joined, IsOne(<<b, y>>)>>),
     List("Or", <<IsOne(N(x)), IsOne(N(y))>>),
     List("And", <<List("Or", <<IsOne(N(x)), IsOne(<<a, y>>)>>), Joined>>)}

TextOf(type, tables, columns, all, where) ==
    [type |-> type, tables |-> tables, columns |-> columns, all |-> all, where |-> where]

TableLists == {<<a>>, <<b, a>>, <<a, b>>, <<a, a>>, <<a, b, a>>, <<d>>, <<a, n>>, <<n, a>>}

SelectLists == {<<N(x)>>, <<N(y), N(x)>>, <<<<b, y>>, N(x)>>, <<N(w)>>, <<<<n, x>>>>, <<N(q)>>}

Statements ==
    {TextOf("select", t, <<>>, TRUE, c) : t \in TableLists, c \in Wheres}
    \cup {TextOf("select", t, l, FALSE, c) : t \in TableLists, l \in SelectLists, c \in Wheres}
    \cup {TextOf("update", t, <<N(y)>>, FALSE, c) : t \in {<<a>>, <<n>>}, c \in Wheres}
    \cup {TextOf("delete", t, <<>>, FALSE, c) : t \in {<<a>>, <<d>>, <<n>>}, c \in Wheres}
    \cup {TextOf("insert", <<a>>, <<N(x), N(c)>>, FALSE, NULL) : c \in {y, q}}
    \cup {TextOf("create table", <<n>>, <<N(x), N(x)>>, FALSE, NULL),
          TextOf("create index", <<a>>, <<N(y)>>, FALSE, NULL),
          TextOf("drop index", <<a>>, <<>>, FALSE, NULL),
          TextOf("empty", <<>>, <<>>, FALSE, NULL),
          TextOf("syntax error", <<>>, <<>>, FALSE, NULL)}

Compared == {ComparisonOf(op, left, right) : op \in Operators, left, right \in Operands}
=============================================================================
