----------------------------- MODULE MCNestLoop -----------------------------
(***************************************************************************)
(* Statements for TLC: plans over up to three tables of up to three rows   *)
(* each, with the local predicates that BooleanExpr derives from a clause  *)
(* (none of which has an OR list that mixes what a node can evaluate with  *)
(* what it cannot).                                                        *)
(***************************************************************************)
EXTENDS NestLoop, BooleanExpr

Tables == [a1 |-> {1}, a2 |-> {1}, c1 |-> {3}, ab |-> {1, 2}, abc |-> {2, 3}]

Compared == {Binary(name, Tables[name]) : name \in DOMAIN Tables}

Cmp(name) == Single(Binary(name, Tables[name]))
a1  == Cmp("a1")
a2  == Cmp("a2")
c1  == Cmp("c1")
ab  == Cmp("ab")
abc == Cmp("abc")

(* Which comparisons hold for the rows of a tuple; those of the tables it  *)
(* has not reached do not matter.                                          *)
Holding(t) ==
    LET At(i) == IF i \in DOMAIN t THEN t[i] ELSE 0 IN
    {x \in DOMAIN Tables :
        CASE x = "a1"  -> At(1) = 1
          [] x = "a2"  -> At(1) = 2
          [] x = "c1"  -> At(3) = 1
          [] x = "ab"  -> At(1) = At(2)
          [] x = "abc" -> At(2) < At(3)}

WheresOver(n) ==
    {NULL, a1, Or(<<a1, a2>>)}
        \cup (IF n < 2 THEN {} ELSE {ab, And(<<a2, ab>>), And(<<Or(<<a1, a2>>), ab>>)})
        \cup (IF n < 3 THEN {} ELSE {And(<<ab, c1>>), And(<<abc, And(<<a1, c1>>)>>)})

Satisfies(e, t) == e = NULL \/ IsTrue(e, Holding(t))

Plan(w, n, size) ==
    LET expr == IF w = NULL THEN NULL ELSE TransformToCNF(w)
        Local(tables) ==
            IF expr = NULL THEN NULL ELSE CreateSubExprForPushdown(expr, tables)
    IN  [rels |-> n,
         size |-> size,
         scan |-> [r \in Rel |-> {i \in Row : Satisfies(Local({r}), [q \in 1 .. r |-> i])}],
         join |-> [r \in Rel |-> {t \in Tuples(r) : Satisfies(Local(1 .. r), t)}],
         selected |-> {t \in Tuples(n) :
                          /\ \A r \in 1 .. n : t[r] <= size[r]
                          /\ Satisfies(w, t)}]

SizesOver(n) == {s \in [Rel -> 0 .. MaxRows] : \A r \in Rel : r > n => s[r] = 0}

Statements ==
    UNION {{Plan(w, n, s) : w \in WheresOver(n), s \in SizesOver(n)} : n \in Rel}
=============================================================================
