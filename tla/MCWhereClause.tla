---------------------------- MODULE MCWhereClause ----------------------------
(***************************************************************************)
(* Clauses for TLC: comparisons on the first and on the last of three      *)
(* tables and one that relates the first two; lists of two or three        *)
(* clauses that are comparisons or pairs of them, and pairs of three       *)
(* levels. The tables are empty: the clauses are planned, and no row is    *)
(* come to.                                                                *)
(***************************************************************************)
EXTENDS Binding

CONSTANTS r1, r2, r3, x

TableColumns == [t \in TableNames |-> <<x>>]

NoRows == [t \in TableNames |-> {}]

NoIndexes == <<>>

Compared == {ComparisonOf(op, left, right) : op \in Operators, left, right \in Operands}

Equal(left, right) ==
    [type |-> "Test", negated |-> FALSE, op |-> "=", left |-> left, right |-> right]

Atoms == {Equal(<<r1, x>>, <<1>>), Equal(<<r3, x>>, <<1>>), Equal(<<r1, x>>, <<r2, x>>)}

Pairs(S)   == {<<e, f>> : e, f \in S}
Triples(S, T) == {<<e, f, g>> : e, f \in S, g \in T}
Lists(T)   == [type : {"And", "Or"}, negated : {FALSE}, list : T]

Small  == Atoms \cup Lists(Pairs(Atoms))
Medium == Lists(Pairs(Small))
Deep   == [type : {"And"}, negated : {FALSE}, list : {<<m, a>> : m \in Medium, a \in Atoms}]
              \cup [type : {"Or"}, negated : {FALSE}, list : {<<a, m>> : m \in Medium, a \in Atoms}]

AllClauses == Small \cup Medium \cup Lists(Triples(Small, Atoms)) \cup Deep

FewClauses == Small \cup Lists(Triples(Atoms, Atoms))

Selects(clauses) == [type : {"select"}, tables : {<<r1, r2, r3>>}, columns : {<<>>},
                     all : {TRUE}, where : clauses]

AllSelects == Selects(AllClauses)
FewSelects == Selects(FewClauses)
=============================================================================
