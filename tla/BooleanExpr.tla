----------------------------- MODULE BooleanExpr -----------------------------
(***************************************************************************)
(* WHERE clauses: evaluation, flattening, the normal form that Prepare     *)
(* brings them to and the part that the planner hands to a node of the     *)
(* plan (Expr/BooleanExpr.cpp, Expr/BinaryExpr.cpp).                       *)
(*                                                                         *)
(* A comparison is known by its name and by the tables its columns belong  *)
(* to; whether it holds is a matter of the set of comparisons that do. NOT *)
(* and IS do not occur: the tree walker drops them, so the tree it builds  *)
(* is that of the clause without them. What the code does by calling       *)
(* itself on the parts of a clause is a function on clauses. Operators     *)
(* whose names begin with that of the next one are mistakes to be tried in *)
(* its place.                                                              *)
(***************************************************************************)
EXTENDS Naturals, Sequences, SequencesExt

CONSTANTS
    Comparison,     \* the comparisons there may be, as Binary makes them
    Depth           \* how deep the lists of a clause may lie in each other

Binary(name, tables) == [type |-> "Binary", name |-> name, tables |-> tables]
Single(b)  == [type |-> "Single", list |-> <<b>>]
And(list)  == [type |-> "And", list |-> list]
Or(list)   == [type |-> "Or", list |-> list]
NULL       == [type |-> "NULL"]

ASSUME ComparisonAssumption ==
    /\ Depth \in Nat
    /\ \A c \in Comparison : c.type = "Binary"

(* The clauses whose lists have these parts. No list is empty.             *)
Over(parts) ==
    parts \cup [type : {"Single"}, list : [1 .. 1 -> parts]]
          \cup [type : {"And", "Or"}, list : Seq(parts) \ {<<>>}]

(* The normal form may be one level deeper than the clause.                *)
Clauses[n \in 0 .. Depth + 1] ==
    IF n = 0 THEN Comparison ELSE Over(Clauses[n - 1])

Clause == Clauses[Depth + 1]

Comparisons(e) ==
    LET inside[x \in Clause] ==
            IF x.type = "Binary" THEN {x}
            ELSE UNION {inside[x.list[i]] : i \in DOMAIN x.list}
    IN  IF e = NULL THEN {} ELSE inside[e]

(* With the names in holds being those of the comparisons that are true.   *)
IsTrue(e, holds) ==
    LET true[x \in Clause] ==
            IF x.type = "Binary" THEN x.name \in holds
            ELSE IF x.type = "Or" THEN \E i \in DOMAIN x.list : true[x.list[i]]
            ELSE \A i \in DOMAIN x.list : true[x.list[i]]
    IN  true[e]

OfOtherType(type, list) ==
    FlattenSeq([i \in DOMAIN list |-> IF list[i].type = type THEN <<>> ELSE <<list[i]>>])

HoistFirstOnly(type, list) ==
    OfOtherType(type, list)
        \o FlattenSeq([i \in DOMAIN list |->
               IF list[i].type = type THEN <<list[i].list[1]>> ELSE <<>>])

(* A list inside a list of its own type is hoisted to the end of it.       *)
Hoist(type, list) ==
    OfOtherType(type, list)
        \o FlattenSeq([i \in DOMAIN list |->
               IF list[i].type = type THEN list[i].list ELSE <<>>])

FlatList(type, list) ==
    [type |-> type, list |-> IF type = "Single" THEN list ELSE Hoist(type, list)]

Flatten(e) ==
    LET flat[x \in Clause] ==
            IF x.type = "Binary" THEN x
            ELSE FlatList(x.type, [i \in DOMAIN x.list |-> flat[x.list[i]]])
    IN  flat[e]

(* What a conjunct adds to each of the AND lists built so far: one of its  *)
(* alternatives.                                                           *)
AlternativesOfPair(e) ==
    IF e.type \in {"Or", "Single"} THEN SubSeq(e.list, 1, IF Len(e.list) > 1 THEN 2 ELSE 1)
                                   ELSE <<e>>

Alternatives(e) == IF e.type \in {"Or", "Single"} THEN e.list ELSE <<e>>

Distribute(lists, e) ==
    FlattenSeq([i \in DOMAIN lists |->
        [k \in DOMAIN Alternatives(e) |-> Append(lists[i], Alternatives(e)[k])]])

(* Each list has an alternative of every conjunct.                         *)
Combinations(conjuncts) ==
    LET lists[i \in 0 .. Len(conjuncts)] ==
            IF i = 0 THEN << <<>> >> ELSE Distribute(lists[i - 1], conjuncts[i])
    IN  lists[Len(conjuncts)]

(* The name is the code's: it is a disjunction of conjunctions.            *)
TransformToCNF(e) ==
    LET flat  == Flatten(e)
        lists == Combinations(flat.list)
    IN  IF flat.type = "And" /\ Len(lists) > 1
        THEN Or([i \in DOMAIN lists |-> And(lists[i])])
        ELSE flat

(* Two or more pushed conjuncts: the first is added again with each other. *)
PushedAnd(pushed) ==
    LET kept == FlattenSeq([i \in DOMAIN pushed |->
                    IF pushed[i] = NULL THEN <<>> ELSE <<pushed[i]>>])
    IN  CASE Len(kept) = 0 -> NULL
          [] Len(kept) = 1 -> kept[1]
          [] OTHER -> And(FlattenSeq([i \in 1 .. Len(kept) - 1 |-> <<kept[1], kept[i + 1]>>]))

(* The loop over the alternatives: an alternative that cannot be pushed    *)
(* empties what was collected, and those after it are collected anew; the  *)
(* first one survives if others had joined it.                             *)
CollectOr(acc, e) ==
    CASE e # NULL /\ acc.first # NULL ->
             [acc EXCEPT !.multiple = @ \o <<acc.first, e>>]
      [] e # NULL /\ acc.first = NULL -> [acc EXCEPT !.first = e]
      [] e = NULL /\ acc.multiple # <<>> -> [acc EXCEPT !.multiple = <<>>]
      [] OTHER -> [acc EXCEPT !.first = NULL]

PushedOrFirstOnly(pushed) == pushed[1]

PushedOr(pushed) ==
    LET acc[i \in 0 .. Len(pushed)] ==
            IF i = 0 THEN [first |-> NULL, multiple |-> <<>>]
                     ELSE CollectOr(acc[i - 1], pushed[i])
        last == acc[Len(pushed)]
    IN  IF last.multiple # <<>> THEN Or(last.multiple) ELSE last.first

BinaryHasContext(e, tables) == e.tables \subseteq tables

PushedList(type, pushed) ==
    CASE type = "Single" -> pushed[1]
      [] type = "And"    -> PushedAnd(pushed)
      [] type = "Or"     -> PushedOr(pushed)

CreateSubExprForPushdown(e, tables) ==
    LET part[x \in Clause] ==
            IF x.type = "Binary"
            THEN IF BinaryHasContext(x, tables) THEN x ELSE NULL
            ELSE PushedList(x.type, [i \in DOMAIN x.list |-> part[x.list[i]]])
    IN  part[e]
=============================================================================
