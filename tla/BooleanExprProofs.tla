-------------------------- MODULE BooleanExprProofs --------------------------
(***************************************************************************)
(* Lemmas on the operators of BooleanExpr: what each makes of clauses of   *)
(* any shape, and what the comparisons that hold say of the result.        *)
(*                                                                         *)
(* The rank of a clause is the least level it is on. The parts of a list   *)
(* have a lower rank than the list, so that what holds of a clause         *)
(* whenever it holds of its parts holds of every clause (ClauseInduction), *)
(* and a function that is computed from its values for the parts is there  *)
(* (ClauseFunction). With it the operators that the module defines by      *)
(* recursive functions are shown to obey their equations; each such        *)
(* function has its name here.                                             *)
(***************************************************************************)
EXTENDS BooleanExpr, Induction, SequenceTheorems

(* Of the clauses whose lists have these parts: what they look like.       *)
ListOver(x, parts) ==
    /\ x.type \in {"Single", "And", "Or"}
    /\ x = [type |-> x.type, list |-> x.list]
    /\ x.list \in Seq(parts)
    /\ x.list # <<>>
    /\ x.type = "Single" => Len(x.list) = 1

(* The functions on 1 .. n are the sequences of length n.                  *)
LEMMA Sequences ==
    ASSUME NEW S, NEW n \in Nat, NEW s
    PROVE  s \in [1 .. n -> S] <=> s \in Seq(S) /\ Len(s) = n
<1>1. ASSUME s \in [1 .. n -> S]
      PROVE  s \in Seq(S) /\ Len(s) = n
  <2>1. s \in Seq(S)
      BY <1>1, SeqDef
  <2>2. Len(s) \in Nat /\ DOMAIN s = 1 .. Len(s)
      BY <2>1, LenProperties
  <2>3. DOMAIN s = 1 .. n
      BY <1>1
  <2>4. Len(s) = n
    <3>1. ASSUME NEW k \in Nat, NEW m \in Nat, 1 .. k = 1 .. m, k < m
          PROVE  FALSE
      <4>1. m \in 1 .. m /\ m \notin 1 .. k
          BY <3>1
      <4> QED
          BY <3>1, <4>1
    <3>2. \A k, m \in Nat : 1 .. k = 1 .. m => k = m
        BY <3>1
    <3> QED
        BY <3>2, <2>2, <2>3
  <2> QED
      BY <2>1, <2>4
<1>2. ASSUME s \in Seq(S), Len(s) = n
      PROVE  s \in [1 .. n -> S]
    BY <1>2, LenProperties
<1> QED
    BY <1>1, <1>2

(* Sequences of one element.                                               *)
LEMMA SingletonSeq ==
    ASSUME NEW S, NEW e \in S
    PROVE  <<e>> \in Seq(S) /\ Len(<<e>>) = 1 /\ <<e>> # <<>>
    OBVIOUS

(* Sequences of two elements.                                              *)
LEMMA PairSeq ==
    ASSUME NEW S, NEW a \in S, NEW b \in S
    PROVE  <<a, b>> \in Seq(S)
    OBVIOUS

(* The clauses over some parts are these parts and the lists of them.      *)
LEMMA OverShapes ==
    ASSUME NEW parts
    PROVE  /\ \A x \in Over(parts) : x \in parts \/ ListOver(x, parts)
           /\ parts \subseteq Over(parts)
           /\ \A x : ListOver(x, parts) => x \in Over(parts)
<1>1. ASSUME NEW x \in [type : {"Single"}, list : [1 .. 1 -> parts]]
      PROVE  ListOver(x, parts)
  <2>1. x.type = "Single" /\ x.list \in [1 .. 1 -> parts]
      OBVIOUS
  <2>2. x.list \in Seq(parts) /\ Len(x.list) = 1
      BY <2>1, Sequences
  <2>3. x.list # <<>>
      BY <2>2
  <2>4. x = [type |-> x.type, list |-> x.list]
      OBVIOUS
  <2> QED
      BY <2>1, <2>2, <2>3, <2>4 DEF ListOver
<1>2. ASSUME NEW x \in [type : {"And", "Or"}, list : Seq(parts) \ {<<>>}]
      PROVE  ListOver(x, parts)
    BY DEF ListOver
<1>3. ASSUME NEW x, ListOver(x, parts)
      PROVE  x \in Over(parts)
  <2>1. CASE x.type = "Single"
    <3>1. x.list \in [1 .. 1 -> parts]
      <4>1. x.list \in Seq(parts) /\ Len(x.list) = 1
          BY <1>3, <2>1 DEF ListOver
      <4> QED
          BY <4>1, Sequences
    <3>2. x.type \in {"Single"} /\ x = [type |-> x.type, list |-> x.list]
        BY <1>3, <2>1 DEF ListOver
    <3>3. x \in [type : {"Single"}, list : [1 .. 1 -> parts]]
        BY <3>1, <3>2
    <3> QED
        BY <3>3 DEF Over
  <2>2. CASE x.type \in {"And", "Or"}
      BY <1>3, <2>2 DEF ListOver, Over
  <2> QED
      BY <1>3, <2>1, <2>2 DEF ListOver
<1> QED
    BY <1>1, <1>2, <1>3 DEF Over

(* The levels of clauses obey the equation they are defined by.            *)
LEMMA Levels ==
    /\ Clauses[0] = Comparison
    /\ \A n \in 1 .. Depth + 1 : Clauses[n] = Over(Clauses[n - 1])
<1> DEFINE Built(g, n) ==
               g = [m \in 0 .. n |-> IF m = 0 THEN Comparison ELSE Over(g[m - 1])]
           T == {n \in Nat : \E g : Built(g, n)}
<1>1. 0 \in T
  <2> DEFINE g == [m \in 0 .. 0 |-> Comparison]
  <2>1. Built(g, 0)
      OBVIOUS
  <2> QED
      BY <2>1
<1>2. ASSUME NEW n \in Nat, n \in T
      PROVE  n + 1 \in T
  <2>1. PICK g : Built(g, n)
      BY <1>2
  <2> DEFINE h == [m \in 0 .. n + 1 |-> IF m = 0 THEN Comparison ELSE Over(g[m - 1])]
  <2>2. ASSUME NEW m \in 0 .. n
        PROVE  h[m] = g[m]
    <3>1. h[m] = IF m = 0 THEN Comparison ELSE Over(g[m - 1])
        OBVIOUS
    <3>2. g[m] = IF m = 0 THEN Comparison ELSE Over(g[m - 1])
        BY <2>1
    <3> QED
        BY <3>1, <3>2
  <2>3. \A m \in 0 .. n + 1 : m # 0 => h[m - 1] = g[m - 1]
    <3>1. \A m \in 0 .. n + 1 : m # 0 => m - 1 \in 0 .. n
        OBVIOUS
    <3> QED
        BY <2>2, <3>1
  <2>4. Built(h, n + 1)
      BY <2>3
  <2> HIDE DEF Built
  <2>5. n + 1 \in Nat
      OBVIOUS
  <2> QED
      BY <2>4, <2>5
<1> HIDE DEF T
<1>3. Depth + 1 \in T
    BY <1>1, <1>2, NaturalInduction, ComparisonAssumption
<1>4. \E g : Built(g, Depth + 1)
    BY <1>3 DEF T
<1>5. Built(Clauses, Depth + 1)
    BY <1>4 DEF Clauses
<1>6. \A m \in 0 .. Depth + 1 : Clauses[m] = IF m = 0 THEN Comparison ELSE Over(Clauses[m - 1])
    BY <1>5
<1> HIDE DEF Built
<1> QED
    BY <1>6, ComparisonAssumption

(* A level has all that the levels below it have.                          *)
LEMMA LevelsGrow ==
    ASSUME NEW m \in 0 .. Depth + 1, NEW n \in m .. Depth + 1
    PROVE  Clauses[m] \subseteq Clauses[n]
<1> DEFINE T == {k \in m .. Depth + 1 : Clauses[m] \subseteq Clauses[k]}
<1>1. m \in T
    BY ComparisonAssumption
<1>2. ASSUME NEW i \in m + 1 .. Depth + 1, i - 1 \in T
      PROVE  i \in T
  <2>1. i \in 1 .. Depth + 1
      BY ComparisonAssumption
  <2>2. Clauses[i] = Over(Clauses[i - 1])
      BY <2>1, Levels
  <2>3. Clauses[i - 1] \subseteq Clauses[i]
      BY <2>2, OverShapes
  <2> QED
      BY <1>2, <2>3
<1> HIDE DEF T
<1>3. m .. Depth + 1 \subseteq T
    BY <1>1, <1>2, RangeInduction, ComparisonAssumption
<1> QED
    BY <1>3 DEF T

(* The least level a clause is on.                                         *)
Least(x, n) == /\ x \in Clauses[n]
               /\ \A m \in 0 .. Depth + 1 : x \in Clauses[m] => n <= m

Rank == [x \in Clause |-> CHOOSE n \in 0 .. Depth + 1 : Least(x, n)]

(* The rank of a clause is the least level it is on.                       *)
LEMMA RankLeast ==
    ASSUME NEW x \in Clause
    PROVE  Rank[x] \in 0 .. Depth + 1 /\ Least(x, Rank[x])
<1> DEFINE U == {n \in 0 .. Depth + 1 : x \in Clauses[n]}
<1>1. Depth + 1 \in U
    BY ComparisonAssumption DEF Clause
<1>2. PICK n \in U : \A m \in U : n <= m
  <2>1. U \subseteq Nat /\ U # {}
      BY <1>1
  <2> HIDE DEF U
  <2> QED
      BY <2>1, LeastNatural
<1>3. Least(x, n)
    BY <1>2 DEF Least
<1>4. \E k \in 0 .. Depth + 1 : Least(x, k)
    BY <1>3
<1>5. Rank[x] = CHOOSE k \in 0 .. Depth + 1 : Least(x, k)
    BY DEF Rank
<1> QED
    BY <1>4, <1>5, Zenon

(* What is on a level is a clause, and of no higher rank.                  *)
LEMMA LevelsAreClauses ==
    ASSUME NEW n \in 0 .. Depth + 1
    PROVE  /\ Clauses[n] \subseteq Clause
           /\ \A x \in Clauses[n] : Rank[x] <= n
<1>1. Depth + 1 \in n .. Depth + 1
    BY ComparisonAssumption
<1>2. Clauses[n] \subseteq Clause
    BY <1>1, LevelsGrow DEF Clause
<1> QED
    BY <1>2, RankLeast DEF Least

(* A clause is a comparison or a list of parts that are on the level below *)
(* its own.                                                                *)
LEMMA ClauseShape ==
    ASSUME NEW x \in Clause
    PROVE  /\ x.type = "Binary" => x \in Comparison
           /\ x.type # "Binary" =>
                 /\ Rank[x] \in 1 .. Depth + 1
                 /\ ListOver(x, Clauses[Rank[x] - 1])
<1>1. Rank[x] \in 0 .. Depth + 1 /\ x \in Clauses[Rank[x]]
    BY RankLeast DEF Least
<1>2. CASE Rank[x] = 0
  <2>1. x \in Comparison
      BY <1>1, <1>2, Levels
  <2> QED
      BY <2>1, ComparisonAssumption
<1>3. CASE Rank[x] # 0
  <2>1. Rank[x] \in 1 .. Depth + 1 /\ Rank[x] - 1 \in 0 .. Depth + 1
      BY <1>1, <1>3, ComparisonAssumption
  <2>2. x \in Over(Clauses[Rank[x] - 1])
      BY <1>1, <2>1, Levels
  <2>3. x \notin Clauses[Rank[x] - 1]
      BY <2>1, RankLeast DEF Least
  <2>4. ListOver(x, Clauses[Rank[x] - 1])
      BY <2>2, <2>3, OverShapes
  <2>5. x.type # "Binary"
      BY <2>4 DEF ListOver
  <2> QED
      BY <2>1, <2>4, <2>5
<1> QED
    BY <1>2, <1>3

(* The parts of a clause that is not a comparison.                         *)
LEMMA Parts ==
    ASSUME NEW x \in Clause, x.type # "Binary"
    PROVE  /\ ListOver(x, Clause)
           /\ Len(x.list) \in Nat \ {0}
           /\ DOMAIN x.list = 1 .. Len(x.list)
           /\ \A i \in DOMAIN x.list : x.list[i] \in Clause /\ Rank[x.list[i]] < Rank[x]
<1>1. Rank[x] \in 1 .. Depth + 1 /\ ListOver(x, Clauses[Rank[x] - 1])
    BY ClauseShape
<1>2. Rank[x] - 1 \in 0 .. Depth + 1
    BY <1>1, ComparisonAssumption
<1>3. x.list \in Seq(Clauses[Rank[x] - 1]) /\ x.list # <<>>
    BY <1>1 DEF ListOver
<1>4. Clauses[Rank[x] - 1] \subseteq Clause
    BY <1>2, LevelsAreClauses
<1>5. x.list \in Seq(Clause)
    BY <1>3, <1>4, SeqMonotonic
<1>6. /\ Len(x.list) \in Nat \ {0}
      /\ DOMAIN x.list = 1 .. Len(x.list)
    BY <1>3, EmptySeq, LenProperties
<1>7. ASSUME NEW i \in DOMAIN x.list
      PROVE  x.list[i] \in Clause /\ Rank[x.list[i]] < Rank[x]
  <2>1. x.list[i] \in Clauses[Rank[x] - 1]
      BY <1>3, <1>6, ElementOfSeq
  <2>2. x.list[i] \in Clause /\ Rank[x.list[i]] <= Rank[x] - 1
      BY <1>2, <2>1, LevelsAreClauses
  <2>3. Rank[x.list[i]] \in 0 .. Depth + 1
      BY <2>2, RankLeast
  <2> QED
      BY <1>1, <2>2, <2>3, ComparisonAssumption
<1> QED
    BY <1>1, <1>5, <1>6, <1>7 DEF ListOver

(* Induction over clauses.                                                 *)
LEMMA ClauseInduction ==
    ASSUME NEW T,
           \A x \in Clause :
               (x.type # "Binary" => \A i \in DOMAIN x.list : x.list[i] \in T) => x \in T
    PROVE  Clause \subseteq T
<1> DEFINE U == {n \in Nat : \A x \in Clause : Rank[x] = n => x \in T}
<1>1. ASSUME NEW n \in Nat, \A m \in Nat : m < n => m \in U
      PROVE  n \in U
  <2> SUFFICES ASSUME NEW x \in Clause, Rank[x] = n
               PROVE  x \in T
      OBVIOUS
  <2>1. ASSUME x.type # "Binary", NEW i \in DOMAIN x.list
        PROVE  x.list[i] \in T
    <3>1. x.list[i] \in Clause /\ Rank[x.list[i]] < n
        BY <2>1, Parts
    <3>2. Rank[x.list[i]] \in Nat
        BY <3>1, RankLeast
    <3> QED
        BY <1>1, <3>1, <3>2
  <2> QED
      BY <2>1
<1> HIDE DEF U
<1>2. Nat \subseteq U
    BY <1>1, StrongInduction
<1>3. \A x \in Clause : Rank[x] \in Nat
    BY RankLeast
<1> QED
    BY <1>2, <1>3 DEF U

(* What a function gives for the parts of a clause.                        *)
Through(f, x) == IF x.type = "Binary" THEN <<>> ELSE [i \in DOMAIN x.list |-> f[x.list[i]]]

(* A list of values for the parts of x.                                    *)
ForParts(s, x, V) ==
    /\ s \in Seq(UNION {V[y] : y \in Clause})
    /\ x.type # "Binary" =>
           /\ DOMAIN s = DOMAIN x.list
           /\ \A i \in DOMAIN x.list : s[i] \in V[x.list[i]]

(* f is computed from its values for the parts of a clause.                *)
FromParts(f, F) == \A x \in Clause : f[x] = F[<<x, Through(f, x)>>]

(* The values of a function for the parts of a clause are a list of the    *)
(* right values if each is.                                                *)
LEMMA ThroughIsForParts ==
    ASSUME NEW V, NEW f, NEW x \in Clause,
           x.type # "Binary" => \A i \in DOMAIN x.list : f[x.list[i]] \in V[x.list[i]]
    PROVE  ForParts(Through(f, x), x, V)
<1> DEFINE W == UNION {V[y] : y \in Clause}
<1>1. CASE x.type = "Binary"
  <2>1. Through(f, x) = <<>>
      BY <1>1 DEF Through
  <2>2. <<>> \in Seq(W)
      BY EmptySeq
  <2> QED
      BY <1>1, <2>1, <2>2 DEF ForParts
<1>2. CASE x.type # "Binary"
  <2>1. Through(f, x) = [i \in DOMAIN x.list |-> f[x.list[i]]]
      BY <1>2 DEF Through
  <2>2. \A i \in DOMAIN x.list : f[x.list[i]] \in V[x.list[i]]
      BY <1>2
  <2>3. \A i \in DOMAIN x.list : x.list[i] \in Clause
      BY <1>2, Parts
  <2>4. Len(x.list) \in Nat /\ DOMAIN x.list = 1 .. Len(x.list)
      BY <1>2, Parts
  <2>5. \A y \in Clause : V[y] \subseteq W
      OBVIOUS
  <2> HIDE DEF W
  <2>6. Through(f, x) \in [1 .. Len(x.list) -> W]
      BY <2>1, <2>2, <2>3, <2>4, <2>5
  <2>7. Through(f, x) \in Seq(W)
      BY <2>4, <2>6, Sequences
  <2> QED
      BY <1>2, <2>1, <2>2, <2>3, <2>7 DEF W, ForParts
<1> QED
    BY <1>1, <1>2

(* So they are when the function has the right value everywhere.           *)
LEMMA ThroughForParts ==
    ASSUME NEW V, NEW f \in Typed(Clause, V), NEW x \in Clause
    PROVE  ForParts(Through(f, x), x, V)
<1>1. \A y \in Clause : f[y] \in V[y]
    BY TypedFunction
<1>2. x.type # "Binary" => \A i \in DOMAIN x.list : f[x.list[i]] \in V[x.list[i]]
    BY <1>1, Parts
<1> QED
    BY <1>2, ThroughIsForParts

(* What is computed for a clause from what it is for the parts is there.   *)
LEMMA ClauseFunction ==
    ASSUME NEW V, NEW start \in Typed(Clause, V), NEW F,
           \A x \in Clause : \A s : ForParts(s, x, V) => F[<<x, s>>] \in V[x]
    PROVE  \E f \in Typed(Clause, V) : FromParts(f, F)
<1> DEFINE G == [p \in Clause \X Typed(Clause, V) |-> F[<<p[1], Through(p[2], p[1])>>]]
<1>1. \A x \in Clause : \A g \in Typed(Clause, V) : G[<<x, g>>] = F[<<x, Through(g, x)>>]
    OBVIOUS
<1> HIDE DEF G
<1>2. ASSUME NEW x \in Clause, NEW g \in Typed(Clause, V)
      PROVE  G[<<x, g>>] \in V[x]
  <2>1. ForParts(Through(g, x), x, V)
      BY ThroughForParts
  <2>2. F[<<x, Through(g, x)>>] \in V[x]
      BY <2>1
  <2> QED
      BY <1>1, <2>2
<1>3. DependsOnLower(Clause, V, Rank, G)
  <2> SUFFICES ASSUME NEW x \in Clause, NEW g \in Typed(Clause, V), NEW h \in Typed(Clause, V),
                      \A y \in Clause : Rank[y] < Rank[x] => g[y] = h[y]
               PROVE  G[<<x, g>>] = G[<<x, h>>]
      BY DEF DependsOnLower
  <2>1. ASSUME x.type # "Binary"
        PROVE  \A i \in DOMAIN x.list : g[x.list[i]] = h[x.list[i]]
      BY <2>1, Parts
  <2>2. Through(g, x) = Through(h, x)
      BY <2>1 DEF Through
  <2> QED
      BY <1>1, <2>2
<1>4. Rank \in [Clause -> 0 .. Depth + 1]
  <2>1. Rank = [x \in Clause |-> Rank[x]]
      BY DEF Rank
  <2> QED
      BY <2>1, RankLeast
<1>5. Depth + 1 \in Nat
    BY ComparisonAssumption
<1>6. \E f \in Typed(Clause, V) : Computes(f, Clause, G)
    BY <1>2, <1>3, <1>4, <1>5, RankedFunction
<1>7. PICK f \in Typed(Clause, V) : Computes(f, Clause, G)
    BY <1>6
<1>8. FromParts(f, F)
    BY <1>1, <1>7 DEF FromParts, Computes
<1> QED
    BY <1>8

(* A function that is computed so has its type.                            *)
LEMMA ComputedIsTyped ==
    ASSUME NEW V, NEW F, NEW f, f = [x \in Clause |-> f[x]],
           \A x \in Clause : \A s : ForParts(s, x, V) => F[<<x, s>>] \in V[x],
           \A x \in Clause :
               ForParts(Through(f, x), x, V) => f[x] = F[<<x, Through(f, x)>>]
    PROVE  f \in Typed(Clause, V)
<1> DEFINE T == {x \in Clause : f[x] \in V[x]}
<1>1. ASSUME NEW x \in Clause,
             x.type # "Binary" => \A i \in DOMAIN x.list : x.list[i] \in T
      PROVE  x \in T
  <2>1. x.type # "Binary" => \A i \in DOMAIN x.list : f[x.list[i]] \in V[x.list[i]]
      BY <1>1
  <2>2. ForParts(Through(f, x), x, V)
      BY <2>1, ThroughIsForParts
  <2> QED
      BY <2>2
<1> HIDE DEF T
<1>2. Clause \subseteq T
    BY <1>1, ClauseInduction
<1>3. \A x \in Clause : f[x] \in V[x]
    BY <1>2 DEF T
<1> QED
    BY <1>3, TypedFunction, Zenon

(* The recursive function of IsTrue.                                       *)
Meaning(holds) ==
    CHOOSE true : true = [x \in Clause |->
        IF x.type = "Binary" THEN x.name \in holds
        ELSE IF x.type = "Or" THEN \E i \in DOMAIN x.list : true[x.list[i]]
        ELSE \A i \in DOMAIN x.list : true[x.list[i]]]

(* IsTrue is the value of its recursive function.                          *)
LEMMA IsTrueIsMeaning ==
    ASSUME NEW holds, NEW x
    PROVE  IsTrue(x, holds) = Meaning(holds)[x]
    BY Zenon DEF IsTrue, Meaning

(* The function of IsTrue obeys its equation: there is one that does.      *)
LEMMA MeaningIs ==
    ASSUME NEW holds
    PROVE  /\ Meaning(holds) = [x \in Clause |->
                  IF x.type = "Binary" THEN x.name \in holds
                  ELSE IF x.type = "Or" THEN \E i \in DOMAIN x.list : Meaning(holds)[x.list[i]]
                  ELSE \A i \in DOMAIN x.list : Meaning(holds)[x.list[i]]]
<1> DEFINE All(s) == \A i \in DOMAIN s : s[i]
           One(s) == \E i \in DOMAIN s : s[i]
           V == [x \in Clause |-> BOOLEAN]
           start == [x \in Clause |-> TRUE]
           F == [p \in Clause \X Seq(BOOLEAN) |->
                    IF p[1].type = "Binary" THEN p[1].name \in holds
                    ELSE IF p[1].type = "Or" THEN One(p[2]) ELSE All(p[2])]
<1>1. \A x \in Clause : V[x] = BOOLEAN
    OBVIOUS
<1>2. start = [x \in Clause |-> start[x]] /\ \A x \in Clause : start[x] = TRUE
    OBVIOUS
<1> HIDE DEF All, One
<1>3. ASSUME NEW x \in Clause, NEW s \in Seq(BOOLEAN)
      PROVE  F[<<x, s>>] = IF x.type = "Binary" THEN x.name \in holds
                           ELSE IF x.type = "Or" THEN One(s) ELSE All(s)
    OBVIOUS
<1> HIDE DEF V, start, F
<1>4. start \in Typed(Clause, V)
  <2>1. \A x \in Clause : start[x] \in V[x]
      BY <1>1, <1>2
  <2> QED
      BY <1>2, <2>1, TypedFunction, Zenon
<1>5. ASSUME NEW x \in Clause, NEW s, ForParts(s, x, V)
      PROVE  s \in Seq(BOOLEAN)
  <2>1. UNION {V[y] : y \in Clause} \subseteq BOOLEAN
      BY <1>1
  <2> QED
      BY <1>5, <2>1, SeqMonotonic DEF ForParts
<1>6. ASSUME NEW x \in Clause, NEW s, ForParts(s, x, V)
      PROVE  F[<<x, s>>] \in V[x]
  <2>1. /\ (x.name \in holds) \in BOOLEAN
        /\ One(s) \in BOOLEAN
        /\ All(s) \in BOOLEAN
      BY DEF One, All
  <2>2. s \in Seq(BOOLEAN)
      BY <1>5, <1>6
  <2>3. F[<<x, s>>] = IF x.type = "Binary" THEN x.name \in holds
                      ELSE IF x.type = "Or" THEN One(s) ELSE All(s)
      BY <1>3, <2>2, Zenon
  <2>4. F[<<x, s>>] \in BOOLEAN
      BY <2>1, <2>3, Zenon
  <2> QED
      BY <1>1, <2>4
<1>7. PICK true \in Typed(Clause, V) : FromParts(true, F)
    BY <1>4, <1>6, ClauseFunction
<1>8. true = [x \in Clause |-> true[x]]
    BY TypedFunction
<1>9. ASSUME NEW x \in Clause
      PROVE  true[x] = IF x.type = "Binary" THEN x.name \in holds
                       ELSE IF x.type = "Or" THEN \E i \in DOMAIN x.list : true[x.list[i]]
                       ELSE \A i \in DOMAIN x.list : true[x.list[i]]
  <2> DEFINE s == Through(true, x)
  <2>1. true[x] = F[<<x, s>>] /\ s \in Seq(BOOLEAN)
      BY <1>5, <1>7, ThroughForParts DEF FromParts
  <2>2. x.type # "Binary" => s = [i \in DOMAIN x.list |-> true[x.list[i]]]
      BY DEF Through
  <2> HIDE DEF s
  <2>3. true[x] = IF x.type = "Binary" THEN x.name \in holds
                  ELSE IF x.type = "Or" THEN One(s) ELSE All(s)
      BY <1>3, <2>1, Zenon
  <2>4. CASE x.type = "Binary"
      BY <2>3, <2>4, Zenon
  <2>5. CASE x.type = "Or"
    <3>1. true[x] = One(s)
        BY <2>3, <2>5
    <3>2. true[x] = \E i \in DOMAIN x.list : true[x.list[i]]
        BY <2>2, <2>5, <3>1 DEF One
    <3> QED
        BY <2>5, <3>2, Zenon
  <2>6. CASE x.type \notin {"Binary", "Or"}
    <3>1. true[x] = All(s)
        BY <2>3, <2>6
    <3>2. true[x] = \A i \in DOMAIN x.list : true[x.list[i]]
        BY <2>2, <2>6, <3>1 DEF All
    <3> QED
        BY <2>6, <3>2, Zenon
  <2> QED
      BY <2>4, <2>5, <2>6
<1>10. true = [x \in Clause |->
                  IF x.type = "Binary" THEN x.name \in holds
                  ELSE IF x.type = "Or" THEN \E i \in DOMAIN x.list : true[x.list[i]]
                  ELSE \A i \in DOMAIN x.list : true[x.list[i]]]
    BY <1>8, <1>9, Zenon
<1> QED
    BY <1>10, Zenon DEF Meaning

(* When a clause is true, by when its parts are: BooleanExpr::IsTrue.      *)
LEMMA TrueOf ==
    ASSUME NEW holds, NEW x \in Clause
    PROVE  /\ x.type = "Binary" => (IsTrue(x, holds) <=> x.name \in holds)
           /\ x.type \in {"Single", "And"} =>
                  (IsTrue(x, holds) <=> \A i \in DOMAIN x.list : IsTrue(x.list[i], holds))
           /\ x.type = "Or" =>
                  (IsTrue(x, holds) <=> \E i \in DOMAIN x.list : IsTrue(x.list[i], holds))
           /\ IsTrue(x, holds) \in BOOLEAN
<1> DEFINE true == Meaning(holds)
<1>1. \A y : IsTrue(y, holds) = true[y]
    BY IsTrueIsMeaning
<1>2. true[x] = IF x.type = "Binary" THEN x.name \in holds
                ELSE IF x.type = "Or" THEN \E i \in DOMAIN x.list : true[x.list[i]]
                ELSE \A i \in DOMAIN x.list : true[x.list[i]]
    BY MeaningIs
<1> HIDE DEF true
<1>3. CASE x.type = "Binary"
  <2>1. true[x] = (x.name \in holds)
      BY <1>2, <1>3
  <2>2. IsTrue(x, holds) = (x.name \in holds)
      BY <1>1, <2>1, Zenon
  <2>3. IsTrue(x, holds) \in BOOLEAN
      BY <2>2
  <2>4. IsTrue(x, holds) <=> x.name \in holds
      BY <2>2, <2>3
  <2> QED
      BY <1>3, <2>3, <2>4
<1>4. CASE x.type = "Or"
    BY <1>1, <1>2, <1>4
<1>5. CASE x.type \notin {"Binary", "Or"}
    BY <1>1, <1>2, <1>5
<1> QED
    BY <1>3, <1>4, <1>5

(* The elements of two sequences put together.                             *)
LEMMA ConcatRange ==
    ASSUME NEW S, NEW s \in Seq(S), NEW t \in Seq(S)
    PROVE  s \o t \in Seq(S) /\ Range(s \o t) = Range(s) \cup Range(t)
<1>1. /\ Len(s) \in Nat /\ DOMAIN s = 1 .. Len(s)
      /\ Len(t) \in Nat /\ DOMAIN t = 1 .. Len(t)
    BY LenProperties
<1>2. /\ s \o t \in Seq(S)
      /\ Len(s \o t) = Len(s) + Len(t)
      /\ \A i \in 1 .. Len(s) + Len(t) :
             (s \o t)[i] = IF i <= Len(s) THEN s[i] ELSE t[i - Len(s)]
    BY ConcatProperties
<1>3. DOMAIN (s \o t) = 1 .. Len(s) + Len(t)
    BY <1>2, LenProperties
<1> DEFINE st == s \o t
<1> HIDE DEF st
<1>4. ASSUME NEW i \in DOMAIN st
      PROVE  st[i] \in Range(s) \cup Range(t)
  <2>1. i \in 1 .. Len(s) + Len(t)
      BY <1>3 DEF st
  <2>2. CASE i <= Len(s)
    <3>1. i \in DOMAIN s /\ st[i] = s[i]
        BY <1>1, <1>2, <2>1, <2>2 DEF st
    <3> QED
        BY <3>1 DEF Range
  <2>3. CASE ~(i <= Len(s))
    <3>1. i - Len(s) \in DOMAIN t /\ st[i] = t[i - Len(s)]
        BY <1>1, <1>2, <2>1, <2>3 DEF st
    <3> QED
        BY <3>1 DEF Range
  <2> QED
      BY <2>2, <2>3
<1>5. ASSUME NEW i \in DOMAIN s
      PROVE  s[i] \in Range(st)
  <2>1. i \in DOMAIN st /\ st[i] = s[i]
      BY <1>1, <1>2, <1>3 DEF st
  <2> QED
      BY <2>1 DEF Range
<1>6. ASSUME NEW i \in DOMAIN t
      PROVE  t[i] \in Range(st)
  <2>1. i + Len(s) \in 1 .. Len(s) + Len(t) /\ ~(i + Len(s) <= Len(s)) /\ i + Len(s) - Len(s) = i
      BY <1>1
  <2>2. i + Len(s) \in DOMAIN st /\ st[i + Len(s)] = t[i]
      BY <1>2, <1>3, <2>1 DEF st
  <2> QED
      BY <2>2 DEF Range
<1>7. Range(st) = Range(s) \cup Range(t)
    BY <1>4, <1>5, <1>6 DEF Range
<1> QED
    BY <1>2, <1>7 DEF st

(* The recursive function of FlattenSeq.                                   *)
Flattened(seqs) ==
    CHOOSE flatten : flatten = [i \in 1 .. Len(seqs) |->
        IF i = 1 THEN seqs[i] ELSE flatten[i - 1] \o seqs[i]]

(* FlattenSeq is the last value of its recursive function.                 *)
LEMMA FlattenSeqIs ==
    ASSUME NEW seqs
    PROVE  FlattenSeq(seqs) = IF Len(seqs) = 0 THEN seqs ELSE Flattened(seqs)[Len(seqs)]
    BY DEF FlattenSeq, Flattened

(* The function of FlattenSeq obeys its equation.                          *)
LEMMA FlattenedStep ==
    ASSUME NEW S, NEW seqs \in Seq(Seq(S)), seqs # <<>>
    PROVE  /\ Len(seqs) \in Nat \ {0}
           /\ DOMAIN seqs = 1 .. Len(seqs) /\ \A i \in 1 .. Len(seqs) : seqs[i] \in Seq(S)
           /\ Flattened(seqs)[1] = seqs[1]
           /\ \A i \in 2 .. Len(seqs) :
                  Flattened(seqs)[i] = Flattened(seqs)[i - 1] \o seqs[i]
           /\ \A i \in 1 .. Len(seqs) : Flattened(seqs)[i] \in Seq(S)
<1> DEFINE n == Len(seqs)
           F == [p \in Nat \X Seq(S) |->
                      IF p[1] \in 1 .. n THEN p[2] \o seqs[p[1]] ELSE p[2]]
           f == Flattened(seqs)
<1>1. n \in Nat \ {0} /\ DOMAIN seqs = 1 .. n /\ \A i \in 1 .. n : seqs[i] \in Seq(S)
    BY EmptySeq, LenProperties
<1>2. ASSUME NEW i \in 1 .. n, NEW s \in Seq(S)
      PROVE  F[<<i, s>>] = s \o seqs[i]
  <2>1. i \in Nat
      OBVIOUS
  <2> QED
      BY <2>1
<1>3. F \in [Nat \X Seq(S) -> Seq(S)]
  <2>1. \A i \in 1 .. n, s \in Seq(S) : s \o seqs[i] \in Seq(S)
      BY <1>1, ConcatProperties
  <2> QED
      BY <2>1
<1> HIDE DEF F
<1>4. seqs[1] \in Seq(S) /\ 1 \in Nat /\ n \in Nat /\ 1 \in 1 .. n
    BY <1>1
<1>5. PICK g \in [1 .. n -> Seq(S)] : RecursiveFrom(g, 1, n, seqs[1], F)
    BY <1>3, <1>4, RecursiveSequence
<1>6. ASSUME NEW i \in 1 .. n
      PROVE  g[i] = IF i = 1 THEN seqs[i] ELSE g[i - 1] \o seqs[i]
  <2>1. g[i] = IF i = 1 THEN seqs[1] ELSE F[<<i, g[i - 1]>>]
      BY <1>5 DEF RecursiveFrom
  <2>2. CASE i # 1
    <3>1. i - 1 \in 1 .. n
        BY <1>1, <2>2
    <3>2. g[i - 1] \in Seq(S)
        BY <3>1
    <3> QED
        BY <1>2, <2>1, <2>2, <3>2
  <2> QED
      BY <2>1, <2>2
<1>7. g = [i \in 1 .. n |-> IF i = 1 THEN seqs[i] ELSE g[i - 1] \o seqs[i]]
    BY <1>6
<1>8. f = [i \in 1 .. n |-> IF i = 1 THEN seqs[i] ELSE f[i - 1] \o seqs[i]]
    BY <1>7, Zenon DEF Flattened
<1> HIDE DEF f
<1>9. f[1] = seqs[1]
    BY <1>4, <1>8
<1>10. \A i \in 2 .. n : f[i] = f[i - 1] \o seqs[i]
  <2>1. \A i \in 2 .. n : i \in 1 .. n /\ i # 1
      BY <1>1
  <2> QED
      BY <1>8, <2>1
<1> DEFINE T == {i \in 1 .. n : f[i] \in Seq(S)}
<1>11. 1 \in T
    BY <1>4, <1>9
<1>12. ASSUME NEW i \in 2 .. n, i - 1 \in T
       PROVE  i \in T
  <2>1. i \in 1 .. n
      BY <1>1
  <2>2. f[i] = f[i - 1] \o seqs[i]
      BY <1>10
  <2>3. f[i - 1] \in Seq(S) /\ seqs[i] \in Seq(S)
      BY <1>1, <1>12, <2>1
  <2>4. f[i] \in Seq(S)
      BY <2>2, <2>3, ConcatProperties
  <2> QED
      BY <2>1, <2>4
<1> HIDE DEF T
<1>13. 1 .. n \subseteq T
  <2>1. \A i \in 1 + 1 .. n : i - 1 \in T => i \in T
      BY <1>12
  <2> QED
      BY <1>4, <1>11, <2>1, RangeInduction
<1>14. \A i \in 1 .. n : f[i] \in Seq(S)
    BY <1>13 DEF T
<1> QED
    BY <1>1, <1>9, <1>10, <1>14 DEF f

(* A sequence of sequences put together has the elements of each, and no   *)
(* other.                                                                  *)
LEMMA FlattenSeqProperties ==
    ASSUME NEW S, NEW seqs \in Seq(Seq(S))
    PROVE  /\ FlattenSeq(seqs) \in Seq(S)
           /\ Range(FlattenSeq(seqs)) = UNION {Range(seqs[i]) : i \in DOMAIN seqs}
<1> DEFINE n == Len(seqs)
           f == Flattened(seqs)
           Before(i) == UNION {Range(seqs[j]) : j \in 1 .. i}
           T == {i \in 1 .. n : Range(f[i]) = Before(i)}
<1>1. n \in Nat /\ DOMAIN seqs = 1 .. n
    BY LenProperties
<1>2. CASE seqs = <<>>
  <2>1. n = 0 /\ DOMAIN seqs = {}
      BY <1>2
  <2>2. FlattenSeq(seqs) = <<>>
      BY <1>2, <2>1, FlattenSeqIs
  <2>3. Range(<<>>) = {}
      BY DEF Range
  <2> QED
      BY <2>1, <2>2, <2>3, EmptySeq
<1>3. CASE seqs # <<>>
  <2>1. /\ n \in Nat \ {0} /\ \A i \in 1 .. n : seqs[i] \in Seq(S)
        /\ f[1] = seqs[1]
        /\ \A i \in 2 .. n : f[i] = f[i - 1] \o seqs[i]
        /\ \A i \in 1 .. n : f[i] \in Seq(S)
      BY <1>3, FlattenedStep
  <2> HIDE DEF f
  <2>2. 1 \in T
    <3>1. 1 \in 1 .. n /\ 1 .. 1 = {1}
        BY <2>1
    <3>2. Before(1) = Range(seqs[1])
        BY <3>1
    <3> QED
        BY <2>1, <3>1, <3>2
  <2>3. ASSUME NEW i \in 2 .. n, i - 1 \in T
        PROVE  i \in T
    <3>1. i \in 1 .. n /\ i - 1 \in 1 .. n
        BY <2>1
    <3>2. Range(f[i]) = Range(f[i - 1]) \cup Range(seqs[i])
      <4>1. f[i - 1] \in Seq(S) /\ seqs[i] \in Seq(S) /\ f[i] = f[i - 1] \o seqs[i]
          BY <2>1, <3>1
      <4> QED
          BY <4>1, ConcatRange
    <3>3. Before(i) = Before(i - 1) \cup Range(seqs[i])
      <4>1. 1 .. i = (1 .. i - 1) \cup {i}
          BY <3>1
      <4> QED
          BY <4>1
    <3> QED
        BY <2>3, <3>1, <3>2, <3>3
  <2> HIDE DEF T
  <2>4. 1 .. n \subseteq T
    <3>1. \A i \in 1 + 1 .. n : i - 1 \in T => i \in T
        BY <2>3
    <3>2. 1 \in Nat /\ n \in Nat
        BY <2>1
    <3> QED
        BY <2>2, <3>1, <3>2, RangeInduction
  <2>5. n \in 1 .. n
      BY <2>1
  <2>6. Range(f[n]) = UNION {Range(seqs[j]) : j \in 1 .. n}
      BY <2>4, <2>5 DEF T
  <2>7. FlattenSeq(seqs) = f[n]
      BY <2>1, FlattenSeqIs DEF f
  <2> QED
      BY <1>1, <2>1, <2>5, <2>6, <2>7
<1> QED
    BY <1>2, <1>3

(* Of the parts of a list, those of another type than it.                  *)
LEMMA OfOtherTypeProperties ==
    ASSUME NEW S, NEW list \in Seq(S), NEW type
    PROVE  /\ OfOtherType(type, list) \in Seq(S)
           /\ Range(OfOtherType(type, list)) = {e \in Range(list) : e.type # type}
<1> DEFINE one(i) == IF list[i].type = type THEN <<>> ELSE <<list[i]>>
           seqs == [i \in DOMAIN list |-> one(i)]
<1>1. Len(list) \in Nat /\ DOMAIN list = 1 .. Len(list)
    BY LenProperties
<1>2. ASSUME NEW i \in DOMAIN list
      PROVE  /\ one(i) \in Seq(S)
             /\ Range(one(i)) = {e \in {list[i]} : e.type # type}
  <2>1. list[i] \in S
      BY <1>1
  <2>2. Range(<<>>) = {} /\ Range(<<list[i]>>) = {list[i]}
      BY DEF Range
  <2>3. <<>> \in Seq(S) /\ <<list[i]>> \in Seq(S)
      BY <2>1
  <2> QED
      BY <2>2, <2>3
<1>3. seqs \in [1 .. Len(list) -> Seq(S)]
    BY <1>1, <1>2
<1>4. seqs \in Seq(Seq(S))
    BY <1>1, <1>3, Sequences
<1>5. DOMAIN seqs = DOMAIN list /\ \A i \in DOMAIN list : seqs[i] = one(i)
    OBVIOUS
<1>6. OfOtherType(type, list) = FlattenSeq(seqs)
    BY DEF OfOtherType
<1> HIDE DEF seqs, one
<1>7. /\ FlattenSeq(seqs) \in Seq(S)
      /\ Range(FlattenSeq(seqs)) = UNION {Range(seqs[i]) : i \in DOMAIN seqs}
    BY <1>4, FlattenSeqProperties
<1>8. UNION {Range(seqs[i]) : i \in DOMAIN seqs} = {e \in Range(list) : e.type # type}
    BY <1>2, <1>5 DEF Range
<1> QED
    BY <1>6, <1>7, <1>8

(* Of those of its own type, the parts.                                    *)
Hoisted(type, list) ==
    FlattenSeq([i \in DOMAIN list |-> IF list[i].type = type THEN list[i].list ELSE <<>>])

(* What is hoisted are the parts of the elements of the given type.        *)
LEMMA HoistedProperties ==
    ASSUME NEW S, NEW list, NEW type,
           DOMAIN list = 1 .. Len(list), Len(list) \in Nat,
           \A i \in DOMAIN list : list[i].type = type => list[i].list \in Seq(S)
    PROVE  /\ Hoisted(type, list) \in Seq(S)
           /\ Range(Hoisted(type, list)) =
                  UNION {Range(e.list) : e \in {x \in Range(list) : x.type = type}}
<1> DEFINE one(i) == IF list[i].type = type THEN list[i].list ELSE <<>>
           seqs == [i \in DOMAIN list |-> one(i)]
<1>1. ASSUME NEW i \in DOMAIN list
      PROVE  /\ one(i) \in Seq(S)
             /\ list[i].type = type => Range(one(i)) = Range(list[i].list)
             /\ list[i].type # type => Range(one(i)) = {}
  <2>1. Range(<<>>) = {}
      BY DEF Range
  <2>2. <<>> \in Seq(S)
      OBVIOUS
  <2> QED
      BY <2>1, <2>2
<1>2. seqs \in [1 .. Len(list) -> Seq(S)]
    BY <1>1
<1>3. seqs \in Seq(Seq(S))
    BY <1>2, Sequences
<1>4. DOMAIN seqs = DOMAIN list /\ \A i \in DOMAIN list : seqs[i] = one(i)
    OBVIOUS
<1>5. Hoisted(type, list) = FlattenSeq(seqs)
    BY DEF Hoisted
<1> HIDE DEF seqs, one
<1>6. /\ FlattenSeq(seqs) \in Seq(S)
      /\ Range(FlattenSeq(seqs)) = UNION {Range(seqs[i]) : i \in DOMAIN seqs}
    BY <1>3, FlattenSeqProperties
<1> DEFINE U == UNION {Range(e.list) : e \in {x \in Range(list) : x.type = type}}
<1>7. ASSUME NEW y, NEW i \in DOMAIN seqs, y \in Range(seqs[i])
      PROVE  y \in U
  <2>1. list[i].type = type /\ y \in Range(list[i].list)
      BY <1>1, <1>4, <1>7
  <2>2. list[i] \in {x \in Range(list) : x.type = type}
      BY <1>4, <2>1 DEF Range
  <2> QED
      BY <2>1, <2>2
<1>8. ASSUME NEW e \in Range(list), e.type = type, NEW y \in Range(e.list)
      PROVE  \E i \in DOMAIN seqs : y \in Range(seqs[i])
  <2>1. PICK i \in DOMAIN list : e = list[i]
      BY DEF Range
  <2>2. y \in Range(seqs[i])
      BY <1>1, <1>4, <1>8, <2>1
  <2> QED
      BY <1>4, <2>2
<1>9. UNION {Range(seqs[i]) : i \in DOMAIN seqs} = U
    BY <1>7, <1>8
<1> QED
    BY <1>5, <1>6, <1>9

(* Hoisting loses no part, adds none, and leaves a list with something in  *)
(* it.                                                                     *)
LEMMA HoistProperties ==
    ASSUME NEW n \in 0 .. Depth, NEW list \in Seq(Clauses[n]), list # <<>>,
           NEW type \in {"And", "Or"}
    PROVE  /\ Hoist(type, list) \in Seq(Clauses[n]) \ {<<>>}
           /\ Range(Hoist(type, list)) =
                  {e \in Range(list) : e.type # type}
                      \cup UNION {Range(e.list) : e \in {x \in Range(list) : x.type = type}}
<1>1. Len(list) \in Nat \ {0} /\ DOMAIN list = 1 .. Len(list)
    BY LenProperties, EmptySeq
<1>2. n \in 0 .. Depth + 1
    BY ComparisonAssumption
<1>3. ASSUME NEW i \in DOMAIN list, list[i].type = type
      PROVE  list[i].list \in Seq(Clauses[n]) /\ list[i].list # <<>>
  <2> DEFINE x == list[i]
  <2>1. x \in Clauses[n] /\ x.type # "Binary"
      BY <1>1, <1>3
  <2>2. x \in Clause /\ Rank[x] <= n
      BY <1>2, <2>1, LevelsAreClauses
  <2> HIDE DEF x
  <2>3. /\ Rank[x] \in 1 .. Depth + 1
        /\ x.list \in Seq(Clauses[Rank[x] - 1])
        /\ x.list # <<>>
      BY <2>1, <2>2, ClauseShape DEF ListOver
  <2>4. Rank[x] - 1 \in 0 .. Depth + 1 /\ n \in Rank[x] - 1 .. Depth + 1
      BY <1>2, <2>2, <2>3, ComparisonAssumption
  <2>5. Clauses[Rank[x] - 1] \subseteq Clauses[n]
      BY <2>4, LevelsGrow
  <2>6. x.list \in Seq(Clauses[n])
      BY <2>3, <2>5, SeqMonotonic
  <2> QED
      BY <2>3, <2>6 DEF x
<1>4. Hoist(type, list) = OfOtherType(type, list) \o Hoisted(type, list)
    BY DEF Hoist, Hoisted
<1>5. /\ OfOtherType(type, list) \in Seq(Clauses[n])
      /\ Range(OfOtherType(type, list)) = {e \in Range(list) : e.type # type}
    BY OfOtherTypeProperties
<1>6. /\ Hoisted(type, list) \in Seq(Clauses[n])
      /\ Range(Hoisted(type, list)) =
             UNION {Range(e.list) : e \in {x \in Range(list) : x.type = type}}
    BY <1>1, <1>3, HoistedProperties
<1>7. /\ Hoist(type, list) \in Seq(Clauses[n])
      /\ Range(Hoist(type, list)) =
             Range(OfOtherType(type, list)) \cup Range(Hoisted(type, list))
    BY <1>4, <1>5, <1>6, ConcatRange
<1>8. Range(Hoist(type, list)) # {}
  <2>1. 1 \in DOMAIN list
      BY <1>1
  <2>2. CASE list[1].type # type
    <3>1. list[1] \in Range(OfOtherType(type, list))
        BY <1>5, <2>1, <2>2 DEF Range
    <3> QED
        BY <1>7, <3>1
  <2>3. CASE list[1].type = type
    <3>1. list[1].list \in Seq(Clauses[n]) /\ list[1].list # <<>>
        BY <1>3, <2>1, <2>3
    <3>2. 1 \in DOMAIN list[1].list
      <4>1. Len(list[1].list) \in Nat \ {0} /\ DOMAIN list[1].list = 1 .. Len(list[1].list)
          BY <3>1, LenProperties, EmptySeq
      <4> QED
          BY <4>1
    <3>3. list[1].list[1] \in Range(list[1].list) /\ list[1] \in Range(list)
        BY <2>1, <3>2 DEF Range
    <3>4. list[1].list[1] \in Range(Hoisted(type, list))
        BY <1>6, <2>3, <3>3
    <3> QED
        BY <1>7, <3>4
  <2> QED
      BY <2>2, <2>3
<1>9. Hoist(type, list) # <<>>
  <2>1. Range(<<>>) = {}
      BY DEF Range
  <2> QED
      BY <1>8, <2>1
<1> QED
    BY <1>5, <1>6, <1>7, <1>9

(* A list of parts on the level below a clause makes a clause on its level.*)
LEMMA ListOnLevel ==
    ASSUME NEW n \in 0 .. Depth, NEW type \in {"Single", "And", "Or"},
           NEW list \in Seq(Clauses[n]), list # <<>>, type = "Single" => Len(list) = 1
    PROVE  [type |-> type, list |-> list] \in Clauses[n + 1]
<1> DEFINE x == [type |-> type, list |-> list]
<1>1. n + 1 \in 1 .. Depth + 1 /\ (n + 1) - 1 = n
    BY ComparisonAssumption
<1>2. Clauses[n + 1] = Over(Clauses[n])
    BY <1>1, Levels
<1>3. x.type = type /\ x.list = list
    OBVIOUS
<1>4. ListOver(x, Clauses[n])
    BY <1>3 DEF ListOver
<1> HIDE DEF x
<1>5. x \in Clauses[n + 1]
    BY <1>2, <1>4, OverShapes
<1> QED
    BY <1>5 DEF x

(* A function whose values stay on the levels of its arguments gives lists *)
(* that can be parts of a clause of the same level.                        *)
OnLevel == [x \in Clause |-> Clauses[Rank[x]]]

(* The parts of a list are on the level below it.                          *)
LEMMA PartsBelow ==
    ASSUME NEW x \in Clause, x.type # "Binary"
    PROVE  /\ Rank[x] - 1 \in 0 .. Depth
           /\ (Rank[x] - 1) + 1 = Rank[x]
           /\ \A i \in DOMAIN x.list : Clauses[Rank[x.list[i]]] \subseteq Clauses[Rank[x] - 1]
<1>1. Rank[x] \in 1 .. Depth + 1
    BY ClauseShape
<1>2. ASSUME NEW i \in DOMAIN x.list
      PROVE  Clauses[Rank[x.list[i]]] \subseteq Clauses[Rank[x] - 1]
  <2>1. x.list[i] \in Clause /\ Rank[x.list[i]] < Rank[x]
      BY Parts
  <2>2. Rank[x.list[i]] \in 0 .. Depth + 1
      BY <2>1, RankLeast
  <2>3. Rank[x] - 1 \in Rank[x.list[i]] .. Depth + 1
      BY <1>1, <2>1, <2>2, ComparisonAssumption
  <2> QED
      BY <2>2, <2>3, LevelsGrow
<1>3. Rank[x] - 1 \in 0 .. Depth /\ (Rank[x] - 1) + 1 = Rank[x]
    BY <1>1, ComparisonAssumption
<1> QED
    BY <1>2, <1>3

(* So is what a function makes of them if it stays on the level of its     *)
(* argument.                                                               *)
LEMMA PartsOnLevel ==
    ASSUME NEW x \in Clause, x.type # "Binary", NEW s,
           DOMAIN s = DOMAIN x.list,
           \A i \in DOMAIN x.list : s[i] \in Clauses[Rank[x.list[i]]]
    PROVE  /\ Rank[x] - 1 \in 0 .. Depth
           /\ \A i \in DOMAIN x.list : s[i] \in Clauses[Rank[x] - 1]
    BY PartsBelow

(* The recursive function of Flatten.                                      *)
Flat ==
    CHOOSE flat : flat = [x \in Clause |->
        IF x.type = "Binary" THEN x
        ELSE FlatList(x.type, [i \in DOMAIN x.list |-> flat[x.list[i]]])]

(* Flatten is the value of its recursive function.                         *)
LEMMA FlattenIsFlat ==
    ASSUME NEW x
    PROVE  Flatten(x) = Flat[x]
    BY Zenon DEF Flatten, Flat

(* A flattened list is on the level of the list.                           *)
LEMMA FlatListOnLevel ==
    ASSUME NEW n \in 0 .. Depth, NEW type \in {"Single", "And", "Or"},
           NEW list \in Seq(Clauses[n]), list # <<>>, type = "Single" => Len(list) = 1
    PROVE  FlatList(type, list) \in Clauses[n + 1]
<1>1. CASE type = "Single"
    BY <1>1, ListOnLevel DEF FlatList
<1>2. CASE type \in {"And", "Or"}
  <2>1. Hoist(type, list) \in Seq(Clauses[n]) \ {<<>>}
      BY <1>2, HoistProperties
  <2>2. FlatList(type, list) = [type |-> type, list |-> Hoist(type, list)]
      BY <1>2 DEF FlatList
  <2> QED
      BY <1>2, <2>1, <2>2, ListOnLevel
<1> QED
    BY <1>1, <1>2

(* The function of Flatten obeys its equation and stays on the level of    *)
(* its argument.                                                           *)
LEMMA FlatIs ==
    /\ Flat \in Typed(Clause, OnLevel)
    /\ Flat = [x \in Clause |->
                  IF x.type = "Binary" THEN x
                  ELSE FlatList(x.type, [i \in DOMAIN x.list |-> Flat[x.list[i]]])]
<1> DEFINE V == OnLevel
           W == UNION {V[y] : y \in Clause}
           start == [x \in Clause |-> x]
           F == [p \in Clause \X Seq(W) |->
                    IF p[1].type = "Binary" THEN p[1] ELSE FlatList(p[1].type, p[2])]
<1>1. \A x \in Clause : V[x] = Clauses[Rank[x]] /\ x \in V[x]
    BY RankLeast DEF OnLevel, Least
<1>2. start = [x \in Clause |-> start[x]] /\ \A x \in Clause : start[x] = x
    OBVIOUS
<1>3. ASSUME NEW x \in Clause, NEW s \in Seq(W)
      PROVE  F[<<x, s>>] = IF x.type = "Binary" THEN x ELSE FlatList(x.type, s)
    OBVIOUS
<1> HIDE DEF V, start, F
<1>4. start \in Typed(Clause, V)
  <2>1. \A x \in Clause : start[x] \in V[x]
      BY <1>1, <1>2
  <2> QED
      BY <1>2, <2>1, TypedFunction, Zenon
<1>5. ASSUME NEW x \in Clause, NEW s, ForParts(s, x, V)
      PROVE  F[<<x, s>>] \in V[x]
  <2>1. s \in Seq(W)
      BY <1>5 DEF ForParts
  <2>2. CASE x.type = "Binary"
      BY <1>1, <1>3, <2>1, <2>2
  <2>3. CASE x.type # "Binary"
    <3>1. /\ DOMAIN s = DOMAIN x.list
          /\ \A i \in DOMAIN x.list : s[i] \in V[x.list[i]]
        BY <1>5, <2>3 DEF ForParts
    <3>2. \A i \in DOMAIN x.list : x.list[i] \in Clause
        BY <2>3, Parts
    <3>3. \A i \in DOMAIN x.list : s[i] \in Clauses[Rank[x.list[i]]]
        BY <1>1, <3>1, <3>2
    <3>4. /\ Rank[x] - 1 \in 0 .. Depth
          /\ \A i \in DOMAIN x.list : s[i] \in Clauses[Rank[x] - 1]
        BY <2>3, <3>1, <3>3, PartsOnLevel
    <3>5. /\ x.type \in {"Single", "And", "Or"}
          /\ DOMAIN x.list = 1 .. Len(x.list)
          /\ Len(x.list) \in Nat \ {0}
          /\ x.type = "Single" => Len(x.list) = 1
        BY <2>3, Parts DEF ListOver
    <3>6. s \in [1 .. Len(x.list) -> Clauses[Rank[x] - 1]]
      <4>1. s = [i \in DOMAIN s |-> s[i]]
          BY <2>1
      <4> QED
          BY <3>1, <3>4, <3>5, <4>1
    <3>7. s \in Seq(Clauses[Rank[x] - 1]) /\ Len(s) = Len(x.list)
        BY <3>5, <3>6, Sequences
    <3>8. s # <<>>
        BY <3>5, <3>7
    <3>9. FlatList(x.type, s) \in Clauses[(Rank[x] - 1) + 1]
        BY <3>4, <3>5, <3>7, <3>8, FlatListOnLevel
    <3>10. (Rank[x] - 1) + 1 = Rank[x]
        BY RankLeast
    <3> QED
        BY <1>1, <1>3, <2>1, <2>3, <3>9, <3>10
  <2> QED
      BY <2>2, <2>3
<1>6. PICK flat \in Typed(Clause, V) : FromParts(flat, F)
    BY <1>4, <1>5, ClauseFunction
<1>7. ASSUME NEW f, NEW x \in Clause, ForParts(Through(f, x), x, V)
      PROVE  F[<<x, Through(f, x)>>] =
                 IF x.type = "Binary" THEN x
                 ELSE FlatList(x.type, [i \in DOMAIN x.list |-> f[x.list[i]]])
  <2>1. Through(f, x) \in Seq(W)
      BY <1>7 DEF ForParts
  <2> QED
      BY <1>3, <2>1 DEF Through
<1>8. flat = [x \in Clause |-> flat[x]]
    BY TypedFunction
<1>9. \A x \in Clause :
          flat[x] = IF x.type = "Binary" THEN x
                    ELSE FlatList(x.type, [i \in DOMAIN x.list |-> flat[x.list[i]]])
    BY <1>6, <1>7, ThroughForParts, Zenon DEF FromParts
<1>10. flat = [x \in Clause |->
                  IF x.type = "Binary" THEN x
                  ELSE FlatList(x.type, [i \in DOMAIN x.list |-> flat[x.list[i]]])]
    BY <1>8, <1>9, Zenon
<1>11. Flat = [x \in Clause |->
                  IF x.type = "Binary" THEN x
                  ELSE FlatList(x.type, [i \in DOMAIN x.list |-> Flat[x.list[i]]])]
    BY <1>10, Zenon DEF Flat
<1>12. Flat = [x \in Clause |-> Flat[x]]
    BY <1>11
<1>13. \A x \in Clause :
           ForParts(Through(Flat, x), x, V) => Flat[x] = F[<<x, Through(Flat, x)>>]
    BY <1>7, <1>11
<1>14. Flat \in Typed(Clause, V)
    BY <1>5, <1>12, <1>13, ComputedIsTyped
<1> QED
    BY <1>11, <1>14 DEF V

(* The same of the parts as a set.                                         *)
LEMMA TrueOfParts ==
    ASSUME NEW holds, NEW x \in Clause
    PROVE  /\ x.type \in {"Single", "And"} =>
                  (IsTrue(x, holds) <=> \A e \in Range(x.list) : IsTrue(e, holds))
           /\ x.type = "Or" =>
                  (IsTrue(x, holds) <=> \E e \in Range(x.list) : IsTrue(e, holds))
<1>1. CASE x.type \in {"Single", "And"}
  <2>1. IsTrue(x, holds) <=> \A i \in DOMAIN x.list : IsTrue(x.list[i], holds)
      BY <1>1, TrueOf
  <2> QED
      BY <1>1, <2>1 DEF Range
<1>2. CASE x.type = "Or"
  <2>1. IsTrue(x, holds) <=> \E i \in DOMAIN x.list : IsTrue(x.list[i], holds)
      BY <1>2, TrueOf
  <2> QED
      BY <1>2, <2>1 DEF Range
<1> QED
    BY <1>1, <1>2

(* What Flatten makes of a comparison and of a list.                       *)
LEMMA FlattenOf ==
    ASSUME NEW x \in Clause
    PROVE  /\ Flatten(x) \in Clauses[Rank[x]]
           /\ Flatten(x) \in Clause
           /\ x.type = "Binary" => Flatten(x) = x
           /\ x.type # "Binary" =>
                  Flatten(x) = FlatList(x.type, [i \in DOMAIN x.list |-> Flatten(x.list[i])])
<1>1. Flatten(x) \in Clauses[Rank[x]]
  <2>1. Flat[x] \in OnLevel[x]
      BY FlatIs, TypedFunction
  <2> QED
      BY <2>1, FlattenIsFlat DEF OnLevel
<1>2. Flatten(x) \in Clause
    BY <1>1, RankLeast, LevelsAreClauses
<1>3. Flat[x] = IF x.type = "Binary" THEN x
                ELSE FlatList(x.type, [i \in DOMAIN x.list |-> Flat[x.list[i]]])
    BY FlatIs
<1>4. [i \in DOMAIN x.list |-> Flat[x.list[i]]] = [i \in DOMAIN x.list |-> Flatten(x.list[i])]
    BY FlattenIsFlat
<1> QED
    BY <1>1, <1>2, <1>3, <1>4, FlattenIsFlat

(* The parts of a flattened list: those of its flattened parts that are of *)
(* another type, and the parts of the others.                              *)
LEMMA FlattenedParts ==
    ASSUME NEW x \in Clause, x.type \in {"And", "Or"}
    PROVE  /\ Flatten(x).type = x.type
           /\ \A p \in Range(Flatten(x).list) : \E i \in DOMAIN x.list :
                  IF Flatten(x.list[i]).type = x.type THEN p \in Range(Flatten(x.list[i]).list)
                  ELSE p = Flatten(x.list[i])
           /\ \A i \in DOMAIN x.list :
                  IF Flatten(x.list[i]).type = x.type
                  THEN Range(Flatten(x.list[i]).list) \subseteq Range(Flatten(x).list)
                  ELSE Flatten(x.list[i]) \in Range(Flatten(x).list)
<1> DEFINE y == Flatten(x)
           L == [i \in DOMAIN x.list |-> Flatten(x.list[i])]
           n == Rank[x] - 1
<1>1. \A i \in DOMAIN x.list : x.list[i] \in Clause
    BY Parts
<1>2. DOMAIN L = DOMAIN x.list /\ \A i \in DOMAIN x.list : L[i] = Flatten(x.list[i])
    OBVIOUS
<1>3. y = FlatList(x.type, L)
    BY FlattenOf
<1>4. n \in 0 .. Depth /\ \A i \in DOMAIN x.list : L[i] \in Clauses[n]
  <2>1. \A i \in DOMAIN x.list : L[i] \in Clauses[Rank[x.list[i]]]
      BY <1>1, <1>2, FlattenOf
  <2> HIDE DEF L
  <2> QED
      BY <1>2, <2>1, PartsOnLevel
<1>5. /\ DOMAIN x.list = 1 .. Len(x.list)
      /\ Len(x.list) \in Nat \ {0}
    BY Parts
<1>6. L \in [1 .. Len(x.list) -> Clauses[n]]
    BY <1>4, <1>5
<1> HIDE DEF y, L, n
<1>7. L \in Seq(Clauses[n]) /\ L # <<>>
  <2>1. L \in Seq(Clauses[n]) /\ Len(L) = Len(x.list)
      BY <1>5, <1>6, Sequences
  <2> QED
      BY <1>5, <2>1
<1>8. y.type = x.type /\ y.list = Hoist(x.type, L)
    BY <1>3 DEF FlatList
<1>9. Range(y.list) = {p \in Range(L) : p.type # x.type}
          \cup UNION {Range(p.list) : p \in {q \in Range(L) : q.type = x.type}}
    BY <1>4, <1>7, <1>8, HoistProperties
<1>10. ASSUME NEW p \in Range(y.list)
       PROVE  \E i \in DOMAIN x.list :
                  IF Flatten(x.list[i]).type = x.type THEN p \in Range(Flatten(x.list[i]).list)
                  ELSE p = Flatten(x.list[i])
  <2>1. PICK q \in Range(L) : IF q.type = x.type THEN p \in Range(q.list) ELSE p = q
      BY <1>9
  <2>2. PICK i \in DOMAIN x.list : q = Flatten(x.list[i])
      BY <1>2 DEF Range
  <2> QED
      BY <2>1, <2>2
<1>11. \A i \in DOMAIN x.list :
           IF Flatten(x.list[i]).type = x.type
           THEN Range(Flatten(x.list[i]).list) \subseteq Range(y.list)
           ELSE Flatten(x.list[i]) \in Range(y.list)
  <2>1. \A i \in DOMAIN x.list : L[i] \in Range(L)
      BY <1>2 DEF Range
  <2> QED
      BY <1>2, <1>9, <2>1
<1> QED
    BY <1>8, <1>10, <1>11 DEF y

(* After flattening AND and OR lists alternate: no part of a list is of    *)
(* the list's own type. This is what BooleanExpr::Flatten_Private asserts  *)
(* at the end, for clauses of any depth.                                   *)
THEOREM FlattenedListsAlternate ==
    ASSUME NEW e \in Clause, e.type \in {"And", "Or"}
    PROVE  /\ Flatten(e).type = e.type
           /\ \A p \in Range(Flatten(e).list) : p.type # e.type
<1> DEFINE T == {x \in Clause : x.type \in {"And", "Or"} =>
                    \A p \in Range(Flatten(x).list) : p.type # x.type}
<1>1. ASSUME NEW x \in Clause,
             x.type # "Binary" => \A i \in DOMAIN x.list : x.list[i] \in T
      PROVE  x \in T
  <2> SUFFICES ASSUME x.type \in {"And", "Or"}, NEW p \in Range(Flatten(x).list)
               PROVE  p.type # x.type
      OBVIOUS
  <2>1. PICK i \in DOMAIN x.list :
            IF Flatten(x.list[i]).type = x.type THEN p \in Range(Flatten(x.list[i]).list)
            ELSE p = Flatten(x.list[i])
      BY FlattenedParts
  <2>2. x.list[i] \in T
      BY <1>1
  <2>3. Flatten(x.list[i]).type = x.list[i].type
    <3>1. x.list[i] \in Clause
        BY <2>2
    <3>2. CASE x.list[i].type = "Binary"
        BY <3>1, <3>2, FlattenOf
    <3>3. CASE x.list[i].type # "Binary"
      <4> DEFINE y == x.list[i]
      <4>1. Flatten(y) = FlatList(y.type, [k \in DOMAIN y.list |-> Flatten(y.list[k])])
          BY <3>1, <3>3, FlattenOf
      <4>2. ASSUME NEW type, NEW list
            PROVE  FlatList(type, list).type = type
          BY DEF FlatList
      <4> QED
          BY <4>1, <4>2
    <3> QED
        BY <3>2, <3>3
  <2>4. CASE Flatten(x.list[i]).type = x.type
    <3>1. p \in Range(Flatten(x.list[i]).list)
        BY <2>1, <2>4
    <3>2. x.list[i].type = x.type
        BY <2>3, <2>4
    <3>3. \A q \in Range(Flatten(x.list[i]).list) : q.type # x.list[i].type
        BY <2>2, <3>2
    <3> QED
        BY <3>1, <3>2, <3>3
  <2>5. CASE Flatten(x.list[i]).type # x.type
      BY <2>1, <2>5
  <2> QED
      BY <2>4, <2>5
<1> HIDE DEF T
<1>2. e \in T
    BY <1>1, ClauseInduction
<1>3. \A p \in Range(Flatten(e).list) : p.type # e.type
    BY <1>2 DEF T
<1> QED
    BY <1>3, FlattenedParts

(* A flattened clause means what the clause does:                          *)
(* BooleanExpr::Flatten_Private.                                           *)
LEMMA FlattenKeepsMeaning ==
    ASSUME NEW holds, NEW e \in Clause
    PROVE  IsTrue(Flatten(e), holds) <=> IsTrue(e, holds)
<1> DEFINE T == {x \in Clause : IsTrue(Flatten(x), holds) <=> IsTrue(x, holds)}
<1>1. ASSUME NEW x \in Clause,
             x.type # "Binary" => \A i \in DOMAIN x.list : x.list[i] \in T
      PROVE  x \in T
  <2>1. CASE x.type = "Binary"
      BY <2>1, FlattenOf
  <2>2. CASE x.type # "Binary"
    <3> DEFINE y == Flatten(x)
               L == [i \in DOMAIN x.list |-> Flatten(x.list[i])]
               n == Rank[x] - 1
    <3>1. \A i \in DOMAIN x.list : x.list[i] \in Clause
        BY <2>2, Parts
    <3>2. DOMAIN L = DOMAIN x.list /\ \A i \in DOMAIN x.list : L[i] = Flatten(x.list[i])
        OBVIOUS
    <3>3. y = FlatList(x.type, L) /\ y \in Clause
        BY <2>2, FlattenOf
    <3>4. n \in 0 .. Depth /\ \A i \in DOMAIN x.list : L[i] \in Clauses[n]
      <4>1. \A i \in DOMAIN x.list : L[i] \in Clauses[Rank[x.list[i]]]
          BY <3>1, <3>2, FlattenOf
      <4> HIDE DEF L
      <4> QED
          BY <2>2, <3>2, <4>1, PartsOnLevel
    <3>5. /\ x.type \in {"Single", "And", "Or"}
          /\ DOMAIN x.list = 1 .. Len(x.list)
          /\ Len(x.list) \in Nat \ {0}
        BY <2>2, Parts DEF ListOver
    <3>6. L \in [1 .. Len(x.list) -> Clauses[n]]
        BY <3>4, <3>5
    <3>7. L \in Seq(Clauses[n]) /\ L # <<>>
      <4>1. L \in Seq(Clauses[n]) /\ Len(L) = Len(x.list)
          BY <3>5, <3>6, Sequences
      <4> QED
          BY <3>5, <4>1
    <3>8. Range(L) \subseteq Clause
        BY <3>1, <3>2, FlattenOf DEF Range
    <3>9. \A i \in DOMAIN x.list : IsTrue(L[i], holds) <=> IsTrue(x.list[i], holds)
        BY <1>1, <2>2, <3>2
    <3> HIDE DEF y, L, n
    <3>10. CASE x.type = "Single"
      <4>1. y.type = "Single" /\ y.list = L
          BY <3>3, <3>10 DEF FlatList
      <4>2. IsTrue(y, holds) <=> \A i \in DOMAIN L : IsTrue(L[i], holds)
          BY <3>3, <4>1, TrueOf
      <4>3. IsTrue(x, holds) <=> \A i \in DOMAIN x.list : IsTrue(x.list[i], holds)
          BY <3>10, TrueOf
      <4>4. IsTrue(y, holds) <=> IsTrue(x, holds)
          BY <3>2, <3>9, <4>2, <4>3
      <4> QED
          BY <4>4 DEF y
    <3>11. CASE x.type \in {"And", "Or"}
      <4>1. y.type = x.type /\ y.list = Hoist(x.type, L)
          BY <3>3, <3>11 DEF FlatList
      <4>2. Range(y.list) = {p \in Range(L) : p.type # x.type}
                \cup UNION {Range(p.list) : p \in {q \in Range(L) : q.type = x.type}}
          BY <3>4, <3>7, <3>11, <4>1, HoistProperties
      <4>3. CASE x.type = "And"
        <5>1. IsTrue(y, holds) <=> \A p \in Range(y.list) : IsTrue(p, holds)
            BY <3>3, <4>1, <4>3, TrueOfParts
        <5>2. \A p \in Range(L) : p.type = "And" =>
                  (IsTrue(p, holds) <=> \A q \in Range(p.list) : IsTrue(q, holds))
            BY <3>8, TrueOfParts
        <5>3. (\A p \in Range(y.list) : IsTrue(p, holds))
                  <=> \A p \in Range(L) : IsTrue(p, holds)
            BY <4>2, <4>3, <5>2
        <5>4. (\A p \in Range(L) : IsTrue(p, holds))
                  <=> \A i \in DOMAIN x.list : IsTrue(L[i], holds)
            BY <3>2 DEF Range
        <5>5. IsTrue(x, holds) <=> \A i \in DOMAIN x.list : IsTrue(x.list[i], holds)
            BY <4>3, TrueOf
        <5>6. IsTrue(y, holds) <=> IsTrue(x, holds)
            BY <3>9, <5>1, <5>3, <5>4, <5>5
        <5> QED
            BY <5>6 DEF y
      <4>4. CASE x.type = "Or"
        <5>1. IsTrue(y, holds) <=> \E p \in Range(y.list) : IsTrue(p, holds)
            BY <3>3, <4>1, <4>4, TrueOfParts
        <5>2. \A p \in Range(L) : p.type = "Or" =>
                  (IsTrue(p, holds) <=> \E q \in Range(p.list) : IsTrue(q, holds))
            BY <3>8, TrueOfParts
        <5>3. (\E p \in Range(y.list) : IsTrue(p, holds))
                  <=> \E p \in Range(L) : IsTrue(p, holds)
            BY <4>2, <4>4, <5>2
        <5>4. (\E p \in Range(L) : IsTrue(p, holds))
                  <=> \E i \in DOMAIN x.list : IsTrue(L[i], holds)
            BY <3>2 DEF Range
        <5>5. IsTrue(x, holds) <=> \E i \in DOMAIN x.list : IsTrue(x.list[i], holds)
            BY <4>4, TrueOf
        <5>6. IsTrue(y, holds) <=> IsTrue(x, holds)
            BY <3>9, <5>1, <5>3, <5>4, <5>5
        <5> QED
            BY <5>6 DEF y
      <4> QED
          BY <3>11, <4>3, <4>4
    <3> QED
        BY <3>5, <3>10, <3>11
  <2> QED
      BY <2>1, <2>2
<1> HIDE DEF T
<1>2. Clause \subseteq T
    BY <1>1, ClauseInduction
<1> QED
    BY <1>2 DEF T

(* The alternatives of a conjunct: it is true if one of them is.           *)
LEMMA AlternativesProperties ==
    ASSUME NEW n \in 0 .. Depth + 1, NEW e \in Clauses[n]
    PROVE  /\ Alternatives(e) \in Seq(Clauses[n])
           /\ \A holds : IsTrue(e, holds)
                  <=> \E a \in Range(Alternatives(e)) : IsTrue(a, holds)
<1>1. e \in Clause /\ Rank[e] <= n
    BY LevelsAreClauses
<1>2. CASE e.type \in {"Or", "Single"}
  <2>1. Rank[e] \in 1 .. Depth + 1 /\ e.list \in Seq(Clauses[Rank[e] - 1])
      BY <1>1, <1>2, ClauseShape DEF ListOver
  <2>2. Rank[e] - 1 \in 0 .. Depth + 1 /\ n \in Rank[e] - 1 .. Depth + 1
      BY <1>1, <2>1, ComparisonAssumption
  <2>3. Clauses[Rank[e] - 1] \subseteq Clauses[n]
      BY <2>2, LevelsGrow
  <2>4. e.list \in Seq(Clauses[n])
      BY <2>1, <2>3, SeqMonotonic
  <2>5. Alternatives(e) = e.list
      BY <1>2 DEF Alternatives
  <2>6. ASSUME NEW holds
        PROVE  IsTrue(e, holds) <=> \E a \in Range(e.list) : IsTrue(a, holds)
    <3>1. CASE e.type = "Or"
        BY <1>1, <3>1, TrueOfParts
    <3>2. CASE e.type = "Single"
      <4>1. Len(e.list) = 1 /\ DOMAIN e.list = 1 .. 1
          BY <1>1, <3>2, Parts DEF ListOver
      <4>2. Range(e.list) = {e.list[1]}
          BY <4>1 DEF Range
      <4>3. IsTrue(e, holds) <=> \A a \in Range(e.list) : IsTrue(a, holds)
          BY <1>1, <3>2, TrueOfParts
      <4> QED
          BY <4>2, <4>3
    <3> QED
        BY <1>2, <3>1, <3>2
  <2> QED
      BY <2>4, <2>5, <2>6
<1>3. CASE e.type \notin {"Or", "Single"}
  <2>1. Alternatives(e) = <<e>>
      BY <1>3 DEF Alternatives
  <2>2. Range(<<e>>) = {e}
      BY DEF Range
  <2>3. <<e>> \in Seq(Clauses[n])
      BY SingletonSeq
  <2>4. Range(Alternatives(e)) = {e}
      BY <2>1, <2>2
  <2>5. ASSUME NEW holds
        PROVE  IsTrue(e, holds) <=> \E a \in Range(Alternatives(e)) : IsTrue(a, holds)
      BY <2>4
  <2> QED
      BY <2>1, <2>3, <2>5
<1> QED
    BY <1>2, <1>3

(* Distributing a conjunct gives each list with each alternative at its    *)
(* end, and no other.                                                      *)
LEMMA DistributeProperties ==
    ASSUME NEW S, NEW lists \in Seq(Seq(S)), NEW e, Alternatives(e) \in Seq(S)
    PROVE  /\ Distribute(lists, e) \in Seq(Seq(S))
           /\ \A y : y \in Range(Distribute(lists, e))
                  <=> \E l \in Range(lists) : \E a \in Range(Alternatives(e)) :
                          y = Append(l, a)
<1> DEFINE A == Alternatives(e)
           one(i) == [k \in DOMAIN A |-> Append(lists[i], A[k])]
           seqs == [i \in DOMAIN lists |-> one(i)]
<1>1. /\ Len(lists) \in Nat /\ DOMAIN lists = 1 .. Len(lists)
      /\ Len(A) \in Nat /\ DOMAIN A = 1 .. Len(A)
      /\ \A i \in DOMAIN lists : lists[i] \in Seq(S)
      /\ \A k \in DOMAIN A : A[k] \in S
    BY LenProperties
<1>2. Distribute(lists, e) = FlattenSeq(seqs)
    BY DEF Distribute
<1> HIDE DEF A
<1>3. ASSUME NEW i \in DOMAIN lists
      PROVE  /\ one(i) \in Seq(Seq(S))
             /\ Range(one(i)) = {Append(lists[i], a) : a \in Range(A)}
  <2>1. \A k \in DOMAIN A : Append(lists[i], A[k]) \in Seq(S)
      BY <1>1
  <2>2. one(i) \in [1 .. Len(A) -> Seq(S)]
      BY <1>1, <2>1
  <2>3. one(i) \in Seq(Seq(S))
      BY <1>1, <2>2, Sequences
  <2>4. Range(one(i)) = {Append(lists[i], a) : a \in Range(A)}
      BY DEF Range
  <2> QED
      BY <2>3, <2>4
<1> HIDE DEF one
<1>4. DOMAIN seqs = DOMAIN lists /\ \A i \in DOMAIN lists : seqs[i] = one(i)
    OBVIOUS
<1>5. seqs \in [1 .. Len(lists) -> Seq(Seq(S))]
    BY <1>1, <1>3
<1> HIDE DEF seqs
<1>6. seqs \in Seq(Seq(Seq(S)))
    BY <1>1, <1>5, Sequences
<1>7. /\ FlattenSeq(seqs) \in Seq(Seq(S))
      /\ Range(FlattenSeq(seqs)) = UNION {Range(seqs[i]) : i \in DOMAIN seqs}
    BY <1>6, FlattenSeqProperties
<1>8. ASSUME NEW y
      PROVE  y \in UNION {Range(seqs[i]) : i \in DOMAIN seqs}
                 <=> \E l \in Range(lists) : \E a \in Range(A) : y = Append(l, a)
  <2>1. ASSUME NEW i \in DOMAIN seqs, y \in Range(seqs[i])
        PROVE  \E l \in Range(lists) : \E a \in Range(A) : y = Append(l, a)
    <3>1. lists[i] \in Range(lists)
        BY <1>4 DEF Range
    <3> QED
        BY <1>3, <1>4, <2>1, <3>1
  <2>2. ASSUME NEW l \in Range(lists), NEW a \in Range(A), y = Append(l, a)
        PROVE  \E i \in DOMAIN seqs : y \in Range(seqs[i])
    <3>1. PICK i \in DOMAIN lists : l = lists[i]
        BY DEF Range
    <3>2. y \in Range(seqs[i])
        BY <1>3, <1>4, <2>2, <3>1
    <3> QED
        BY <1>4, <3>2
  <2> QED
      BY <2>1, <2>2
<1> QED
    BY <1>2, <1>7, <1>8 DEF A

(* The recursive function of Combinations.                                 *)
Combined(conjuncts) ==
    CHOOSE lists : lists = [i \in 0 .. Len(conjuncts) |->
        IF i = 0 THEN << <<>> >> ELSE Distribute(lists[i - 1], conjuncts[i])]

(* Combinations is the last value of its recursive function.               *)
LEMMA CombinationsIs ==
    ASSUME NEW conjuncts
    PROVE  Combinations(conjuncts) = Combined(conjuncts)[Len(conjuncts)]
    BY DEF Combinations, Combined

(* The function of Combinations obeys its equation.                        *)
LEMMA CombinedStep ==
    ASSUME NEW n \in 0 .. Depth + 1, NEW conjuncts \in Seq(Clauses[n])
    PROVE  /\ Combined(conjuncts)[0] = << <<>> >>
           /\ \A i \in 1 .. Len(conjuncts) :
                  Combined(conjuncts)[i] = Distribute(Combined(conjuncts)[i - 1], conjuncts[i])
<1> DEFINE m == Len(conjuncts)
           S == Clauses[n]
           V == Seq(Seq(S))
           F == [p \in Nat \X V |->
                    IF p[1] \in 1 .. m THEN Distribute(p[2], conjuncts[p[1]]) ELSE p[2]]
           f == Combined(conjuncts)
<1>1. m \in Nat /\ \A i \in 1 .. m : conjuncts[i] \in S
    BY LenProperties
<1>2. << <<>> >> \in V
  <2>1. <<>> \in Seq(S)
      BY EmptySeq
  <2> QED
      BY <2>1, SingletonSeq, Zenon
<1>3. \A i \in 1 .. m, s \in V : Distribute(s, conjuncts[i]) \in V
    BY <1>1, AlternativesProperties, DistributeProperties
<1>4. ASSUME NEW i \in 1 .. m, NEW s \in V
      PROVE  F[<<i, s>>] = Distribute(s, conjuncts[i])
  <2>1. i \in Nat
      OBVIOUS
  <2> QED
      BY <2>1
<1> HIDE DEF V
<1>5. F \in [Nat \X V -> V]
    BY <1>3
<1> HIDE DEF F
<1>6. PICK g \in [0 .. m -> V] : RecursiveFrom(g, 0, m, << <<>> >>, F)
    BY <1>1, <1>2, <1>5, RecursiveSequence
<1>7. ASSUME NEW i \in 0 .. m
      PROVE  g[i] = IF i = 0 THEN << <<>> >> ELSE Distribute(g[i - 1], conjuncts[i])
  <2>1. g[i] = IF i = 0 THEN << <<>> >> ELSE F[<<i, g[i - 1]>>]
      BY <1>6 DEF RecursiveFrom
  <2>2. CASE i # 0
    <3>1. i \in 1 .. m /\ i - 1 \in 0 .. m
        BY <1>1, <2>2
    <3>2. g[i - 1] \in V
        BY <3>1
    <3> QED
        BY <1>4, <2>1, <2>2, <3>1, <3>2
  <2> QED
      BY <2>1, <2>2
<1>8. g = [i \in 0 .. m |->
              IF i = 0 THEN << <<>> >> ELSE Distribute(g[i - 1], conjuncts[i])]
    BY <1>7
<1>9. f = [i \in 0 .. m |->
              IF i = 0 THEN << <<>> >> ELSE Distribute(f[i - 1], conjuncts[i])]
    BY <1>8, Zenon DEF Combined
<1> HIDE DEF f
<1>10. 0 \in 0 .. m /\ \A i \in 1 .. m : i \in 0 .. m /\ i # 0
    BY <1>1
<1>11. f[0] = << <<>> >>
    BY <1>9, <1>10
<1>12. \A i \in 1 .. m : f[i] = Distribute(f[i - 1], conjuncts[i])
    BY <1>9, <1>10
<1> QED
    BY <1>11, <1>12 DEF f

(* A list all of whose elements are true.                                  *)
SomeListTrue(lists, holds) ==
    \E l \in Range(lists) : \A a \in Range(l) : IsTrue(a, holds)

(* A sequence with an element added at its end.                            *)
LEMMA AppendRange ==
    ASSUME NEW S, NEW l \in Seq(S), NEW a \in S
    PROVE  Range(Append(l, a)) = Range(l) \cup {a}
<1>1. /\ Len(l) \in Nat /\ DOMAIN l = 1 .. Len(l)
      /\ DOMAIN Append(l, a) = 1 .. Len(l) + 1
      /\ \A i \in 1 .. Len(l) : Append(l, a)[i] = l[i]
      /\ Append(l, a)[Len(l) + 1] = a
    BY LenProperties
<1>2. 1 .. Len(l) + 1 = (1 .. Len(l)) \cup {Len(l) + 1}
    BY <1>1
<1> DEFINE s == Append(l, a)
<1> HIDE DEF s
<1>3. \A i \in DOMAIN s : s[i] \in Range(l) \cup {a}
    BY <1>1, <1>2 DEF Range, s
<1>4. \A i \in DOMAIN l : l[i] \in Range(s)
  <2>1. \A i \in DOMAIN l : i \in DOMAIN s /\ s[i] = l[i]
      BY <1>1, <1>2 DEF s
  <2> QED
      BY <2>1 DEF Range
<1>5. a \in Range(s)
  <2>1. Len(l) + 1 \in DOMAIN s /\ s[Len(l) + 1] = a
      BY <1>1, <1>2 DEF s
  <2> QED
      BY <2>1 DEF Range
<1>6. Range(s) = Range(l) \cup {a}
    BY <1>3, <1>4, <1>5 DEF Range
<1> QED
    BY <1>6 DEF s

(* After it one of the lists is true just if one was before and the        *)
(* conjunct is.                                                            *)
LEMMA DistributeKeepsMeaning ==
    ASSUME NEW n \in 0 .. Depth + 1, NEW e \in Clauses[n],
           NEW lists \in Seq(Seq(Clauses[n])), NEW holds
    PROVE  SomeListTrue(Distribute(lists, e), holds)
               <=> SomeListTrue(lists, holds) /\ IsTrue(e, holds)
<1> DEFINE A == Range(Alternatives(e))
<1>1. Alternatives(e) \in Seq(Clauses[n])
    BY AlternativesProperties
<1>2. IsTrue(e, holds) <=> \E a \in A : IsTrue(a, holds)
    BY AlternativesProperties
<1>3. \A y : y \in Range(Distribute(lists, e))
                 <=> \E l \in Range(lists) : \E a \in A : y = Append(l, a)
    BY <1>1, DistributeProperties
<1>4. ASSUME NEW l \in Range(lists), NEW a \in A
      PROVE  Range(Append(l, a)) = Range(l) \cup {a}
  <2>1. l \in Seq(Clauses[n])
    <3>1. PICK i \in DOMAIN lists : l = lists[i]
        BY DEF Range
    <3> QED
        BY <3>1, LenProperties
  <2>2. a \in Clauses[n]
    <3>1. PICK k \in DOMAIN Alternatives(e) : a = Alternatives(e)[k]
        BY DEF Range
    <3> QED
        BY <1>1, <3>1, LenProperties
  <2> QED
      BY <2>1, <2>2, AppendRange
<1> HIDE DEF A
<1>5. ASSUME SomeListTrue(Distribute(lists, e), holds)
      PROVE  SomeListTrue(lists, holds) /\ IsTrue(e, holds)
  <2>1. PICK y \in Range(Distribute(lists, e)) : \A b \in Range(y) : IsTrue(b, holds)
      BY <1>5 DEF SomeListTrue
  <2>2. PICK l \in Range(lists) : \E a \in A : y = Append(l, a)
      BY <1>3
  <2>3. PICK a \in A : y = Append(l, a)
      BY <2>2
  <2>4. (\A b \in Range(l) : IsTrue(b, holds)) /\ IsTrue(a, holds)
      BY <1>4, <2>1, <2>3
  <2> QED
      BY <1>2, <2>4 DEF SomeListTrue
<1>6. ASSUME SomeListTrue(lists, holds), IsTrue(e, holds)
      PROVE  SomeListTrue(Distribute(lists, e), holds)
  <2>1. PICK l \in Range(lists) : \A b \in Range(l) : IsTrue(b, holds)
      BY <1>6 DEF SomeListTrue
  <2>2. PICK a \in A : IsTrue(a, holds)
      BY <1>2, <1>6
  <2>3. \A b \in Range(Append(l, a)) : IsTrue(b, holds)
      BY <1>4, <2>1, <2>2
  <2>4. Append(l, a) \in Range(Distribute(lists, e))
      BY <1>3
  <2> QED
      BY <2>3, <2>4 DEF SomeListTrue
<1> QED
    BY <1>5, <1>6

(* Every list has as many parts as there are conjuncts, and one of them is *)
(* true if all the conjuncts are.                                          *)
LEMMA CombinationsProperties ==
    ASSUME NEW n \in 0 .. Depth + 1, NEW conjuncts \in Seq(Clauses[n])
    PROVE  /\ Combinations(conjuncts) \in Seq(Seq(Clauses[n]))
           /\ \A l \in Range(Combinations(conjuncts)) : Len(l) = Len(conjuncts)
           /\ \A holds : SomeListTrue(Combinations(conjuncts), holds)
                  <=> \A c \in Range(conjuncts) : IsTrue(c, holds)
<1> DEFINE m == Len(conjuncts)
           S == Clauses[n]
           f == Combined(conjuncts)
           Upto(i) == \A holds : SomeListTrue(f[i], holds)
                          <=> \A k \in 1 .. i : IsTrue(conjuncts[k], holds)
           T == {i \in 0 .. m : /\ f[i] \in Seq(Seq(S))
                                /\ \A l \in Range(f[i]) : Len(l) = i
                                /\ Upto(i)}
<1>1. m \in Nat /\ DOMAIN conjuncts = 1 .. m /\ \A i \in 1 .. m : conjuncts[i] \in S
    BY LenProperties
<1>2. f[0] = << <<>> >> /\ \A i \in 1 .. m : f[i] = Distribute(f[i - 1], conjuncts[i])
    BY CombinedStep
<1> HIDE DEF f
<1>3. 0 \in T
  <2>1. <<>> \in Seq(S) /\ Len(<<>>) = 0 /\ Range(<<>>) = {}
      BY EmptySeq DEF Range
  <2>2. << <<>> >> \in Seq(Seq(S)) /\ Range(<< <<>> >>) = {<<>>}
    <3>1. \A e : Range(<<e>>) = {e}
        BY DEF Range
    <3> QED
        BY <2>1, <3>1, SingletonSeq, Zenon
  <2>3. \A holds : SomeListTrue(<< <<>> >>, holds)
      BY <2>1, <2>2 DEF SomeListTrue
  <2>4. Upto(0)
      BY <1>2, <2>3
  <2>5. 0 \in 0 .. m
      BY <1>1
  <2>6. f[0] \in Seq(Seq(S)) /\ \A l \in Range(f[0]) : Len(l) = 0
      BY <1>2, <2>1, <2>2
  <2> HIDE DEF Upto
  <2> QED
      BY <2>4, <2>5, <2>6
<1>4. ASSUME NEW i \in 1 .. m, i - 1 \in T
      PROVE  i \in T
  <2>1. /\ f[i - 1] \in Seq(Seq(S))
        /\ \A l \in Range(f[i - 1]) : Len(l) = i - 1
        /\ Upto(i - 1)
      BY <1>4
  <2>2. f[i] = Distribute(f[i - 1], conjuncts[i]) /\ conjuncts[i] \in S
      BY <1>1, <1>2
  <2>3. Alternatives(conjuncts[i]) \in Seq(S)
      BY <2>2, AlternativesProperties
  <2>4. /\ f[i] \in Seq(Seq(S))
        /\ \A y : y \in Range(f[i])
               <=> \E l \in Range(f[i - 1]) : \E a \in Range(Alternatives(conjuncts[i])) :
                       y = Append(l, a)
      BY <2>1, <2>2, <2>3, DistributeProperties
  <2>5. ASSUME NEW y \in Range(f[i])
        PROVE  Len(y) = i
    <3>1. PICK l \in Range(f[i - 1]) : \E a \in Range(Alternatives(conjuncts[i])) :
                                           y = Append(l, a)
        BY <2>4
    <3>2. PICK a \in Range(Alternatives(conjuncts[i])) : y = Append(l, a)
        BY <3>1
    <3>3. l \in Seq(S)
      <4>1. PICK k \in DOMAIN f[i - 1] : l = f[i - 1][k]
          BY DEF Range
      <4> QED
          BY <2>1, <4>1, LenProperties
    <3>4. a \in S
      <4>1. PICK k \in DOMAIN Alternatives(conjuncts[i]) : a = Alternatives(conjuncts[i])[k]
          BY DEF Range
      <4> QED
          BY <2>3, <4>1, LenProperties
    <3>5. Len(Append(l, a)) = Len(l) + 1
        BY <3>3, <3>4
    <3> QED
        BY <2>1, <3>2, <3>5
  <2>6. ASSUME NEW holds
        PROVE  SomeListTrue(f[i], holds) <=> \A k \in 1 .. i : IsTrue(conjuncts[k], holds)
    <3>1. SomeListTrue(f[i], holds)
              <=> SomeListTrue(f[i - 1], holds) /\ IsTrue(conjuncts[i], holds)
        BY <2>1, <2>2, DistributeKeepsMeaning
    <3>2. SomeListTrue(f[i - 1], holds)
              <=> \A k \in 1 .. i - 1 : IsTrue(conjuncts[k], holds)
        BY <2>1
    <3>3. 1 .. i = (1 .. i - 1) \cup {i}
        OBVIOUS
    <3> QED
        BY <3>1, <3>2, <3>3
  <2>7. Upto(i)
      BY <2>6
  <2>8. i \in 0 .. m
      BY <1>1
  <2> HIDE DEF Upto
  <2> QED
      BY <2>4, <2>5, <2>7, <2>8
<1> HIDE DEF T
<1>5. 0 .. m \subseteq T
  <2>1. \A i \in 0 + 1 .. m : i - 1 \in T => i \in T
      BY <1>4
  <2> QED
      BY <1>1, <1>3, <2>1, RangeInduction
<1>6. m \in T
    BY <1>1, <1>5
<1>7. Combinations(conjuncts) = f[m]
    BY CombinationsIs DEF f
<1>8. ASSUME NEW holds
      PROVE  (\A k \in 1 .. m : IsTrue(conjuncts[k], holds))
                 <=> \A c \in Range(conjuncts) : IsTrue(c, holds)
    BY <1>1 DEF Range
<1>9. /\ f[m] \in Seq(Seq(S))
      /\ \A l \in Range(f[m]) : Len(l) = m
      /\ Upto(m)
    BY <1>6 DEF T
<1> QED
    BY <1>7, <1>8, <1>9

(* The normal form of a clause: the flattened clause, or a list of all the *)
(* combinations of its conjuncts.                                          *)
LEMMA TransformShape ==
    ASSUME NEW e \in Clauses[Depth]
    PROVE  /\ TransformToCNF(e) \in Clause
           /\ \/ TransformToCNF(e) = Flatten(e)
              \/ /\ Flatten(e).type = "And"
                 /\ TransformToCNF(e).type = "Or"
                 /\ \A x \in Range(TransformToCNF(e).list) :
                        /\ x \in Clause /\ x.type = "And"
                        /\ x.list \in Range(Combinations(Flatten(e).list))
                 /\ \A l \in Range(Combinations(Flatten(e).list)) :
                        \E x \in Range(TransformToCNF(e).list) : x.list = l
           /\ Flatten(e).type = "And" =>
                  \E n \in 0 .. Depth : Flatten(e).list \in Seq(Clauses[n])
<1> DEFINE flat == Flatten(e)
           lists == Combinations(flat.list)
           L == [i \in DOMAIN lists |-> And(lists[i])]
<1>1. Depth \in 0 .. Depth + 1
    BY ComparisonAssumption
<1>2. e \in Clause /\ Rank[e] <= Depth
    BY <1>1, LevelsAreClauses
<1>3. flat \in Clauses[Rank[e]] /\ flat \in Clause
    BY <1>2, FlattenOf
<1>5. TransformToCNF(e) = IF flat.type = "And" /\ Len(lists) > 1 THEN Or(L) ELSE flat
    BY DEF TransformToCNF
<1> HIDE DEF flat
<1> DEFINE n == Rank[flat] - 1
<1>6. ASSUME flat.type = "And"
      PROVE  /\ n \in 0 .. Depth /\ n + 1 \in 0 .. Depth /\ n \in 0 .. Depth + 1
             /\ flat.list \in Seq(Clauses[n])
             /\ Len(flat.list) \in Nat \ {0}
  <2>1. /\ Rank[flat] \in 1 .. Depth + 1
        /\ flat.list \in Seq(Clauses[n])
        /\ flat.list # <<>>
      BY <1>3, <1>6, ClauseShape DEF ListOver
  <2>2. Rank[e] \in 0 .. Depth + 1
      BY <1>2, RankLeast
  <2>3. Rank[flat] <= Rank[e]
      BY <1>3, <2>2, LevelsAreClauses
  <2>4. n \in 0 .. Depth /\ n + 1 \in 0 .. Depth /\ n \in 0 .. Depth + 1
      BY <1>2, <2>1, <2>2, <2>3, ComparisonAssumption
  <2>5. Len(flat.list) \in Nat \ {0}
      BY <2>1, EmptySeq
  <2> QED
      BY <2>1, <2>4, <2>5
<1> HIDE DEF n
<1>7. CASE ~(flat.type = "And" /\ Len(lists) > 1)
    BY <1>3, <1>5, <1>6, <1>7 DEF flat
<1>8. CASE flat.type = "And" /\ Len(lists) > 1
  <2>6. /\ lists \in Seq(Seq(Clauses[n]))
        /\ \A l \in Range(lists) : Len(l) = Len(flat.list)
      BY <1>6, <1>8, CombinationsProperties
  <2> HIDE DEF lists
  <2>7. /\ Len(lists) \in Nat \ {0} /\ DOMAIN lists = 1 .. Len(lists)
        /\ \A i \in DOMAIN lists : lists[i] \in Seq(Clauses[n])
    <3>1. Len(lists) \in Nat /\ DOMAIN lists = 1 .. Len(lists)
        BY <2>6, LenProperties
    <3>2. \A i \in DOMAIN lists : lists[i] \in Seq(Clauses[n])
        BY <2>6, <3>1, ElementOfSeq
    <3>3. Len(lists) # 0
        BY <1>8
    <3> QED
        BY <3>1, <3>2, <3>3
  <2>8. ASSUME NEW i \in DOMAIN lists
        PROVE  /\ And(lists[i]) \in Clauses[n + 1]
               /\ And(lists[i]).type = "And"
               /\ And(lists[i]).list = lists[i]
    <3>1. lists[i] \in Range(lists)
        BY DEF Range
    <3>2. Len(lists[i]) # 0
        BY <1>6, <1>8, <2>6, <3>1
    <3>3. lists[i] # <<>>
        BY <3>2
    <3>4. [type |-> "And", list |-> lists[i]] \in Clauses[n + 1]
        BY <1>6, <1>8, <2>7, <3>3, ListOnLevel
    <3> QED
        BY <3>4 DEF And
  <2>9. DOMAIN L = DOMAIN lists /\ \A i \in DOMAIN lists : L[i] = And(lists[i])
      OBVIOUS
  <2>10. L \in [1 .. Len(lists) -> Clauses[n + 1]]
      BY <2>7, <2>8
  <2> HIDE DEF L
  <2>11. L \in Seq(Clauses[n + 1]) /\ L # <<>>
    <3>1. L \in Seq(Clauses[n + 1]) /\ Len(L) = Len(lists)
        BY <2>7, <2>10, Sequences
    <3> QED
        BY <2>7, <3>1
  <2>12. Or(L) \in Clauses[(n + 1) + 1] /\ Or(L).type = "Or" /\ Or(L).list = L
    <3>1. [type |-> "Or", list |-> L] \in Clauses[(n + 1) + 1]
        BY <1>6, <1>8, <2>11, ListOnLevel
    <3> QED
        BY <3>1 DEF Or
  <2>13. Or(L) \in Clause
    <3>1. (n + 1) + 1 \in 0 .. Depth + 1
        BY <1>6, <1>8, ComparisonAssumption
    <3> QED
        BY <2>12, <3>1, LevelsAreClauses
  <2>14. TransformToCNF(e) = Or(L)
      BY <1>5, <1>8
  <2>15. ASSUME NEW x \in Range(L)
         PROVE  x \in Clause /\ x.type = "And" /\ x.list \in Range(lists)
    <3>1. PICK i \in DOMAIN lists : x = And(lists[i])
        BY <2>9 DEF Range
    <3>2. n + 1 \in 0 .. Depth + 1
        BY <1>6, <1>8, ComparisonAssumption
    <3>3. x \in Clause
        BY <2>8, <3>1, <3>2, LevelsAreClauses
    <3> QED
        BY <2>8, <3>1, <3>3 DEF Range
  <2>16. ASSUME NEW l \in Range(lists)
         PROVE  \E x \in Range(L) : x.list = l
    <3>1. PICK i \in DOMAIN lists : l = lists[i]
        BY DEF Range
    <3>2. L[i] \in Range(L) /\ L[i].list = l
        BY <2>8, <2>9, <3>1 DEF Range
    <3> QED
        BY <3>2
  <2>17. n \in 0 .. Depth /\ flat.list \in Seq(Clauses[n])
      BY <1>6, <1>8
  <2> QED
      BY <1>8, <2>12, <2>13, <2>14, <2>15, <2>16, <2>17 DEF flat, lists
<1> QED
    BY <1>7, <1>8

(* The normal form of a clause is a clause, and means the same.            *)
LEMMA TransformProperties ==
    ASSUME NEW e \in Clauses[Depth]
    PROVE  /\ TransformToCNF(e) \in Clause
           /\ \A holds : IsTrue(TransformToCNF(e), holds) <=> IsTrue(e, holds)
<1> DEFINE flat == Flatten(e)
           cnf == TransformToCNF(e)
           lists == Combinations(flat.list)
<1>1. e \in Clause
    BY ComparisonAssumption, LevelsAreClauses
<1>2. flat \in Clause /\ \A holds : IsTrue(flat, holds) <=> IsTrue(e, holds)
    BY <1>1, FlattenOf, FlattenKeepsMeaning
<1>3. cnf \in Clause
    BY TransformShape
<1>4. CASE cnf = flat
    BY <1>2, <1>4
<1>5. CASE cnf # flat
  <2>1. /\ flat.type = "And" /\ cnf.type = "Or"
        /\ \A x \in Range(cnf.list) : x \in Clause /\ x.type = "And" /\ x.list \in Range(lists)
        /\ \A l \in Range(lists) : \E x \in Range(cnf.list) : x.list = l
      BY <1>5, TransformShape
  <2>2. PICK n \in 0 .. Depth : flat.list \in Seq(Clauses[n])
      BY <2>1, TransformShape
  <2>3. n \in 0 .. Depth + 1
      BY ComparisonAssumption
  <2>4. \A holds : SomeListTrue(lists, holds) <=> \A c \in Range(flat.list) : IsTrue(c, holds)
      BY <2>2, <2>3, CombinationsProperties
  <2> HIDE DEF flat, cnf, lists
  <2>5. ASSUME NEW holds
        PROVE  IsTrue(cnf, holds) <=> IsTrue(e, holds)
    <3>1. IsTrue(cnf, holds) <=> \E x \in Range(cnf.list) : IsTrue(x, holds)
        BY <1>3, <2>1, TrueOfParts
    <3>2. \A x \in Range(cnf.list) :
              IsTrue(x, holds) <=> \A a \in Range(x.list) : IsTrue(a, holds)
        BY <2>1, TrueOfParts
    <3>3. IsTrue(cnf, holds) <=> SomeListTrue(lists, holds)
        BY <2>1, <3>1, <3>2 DEF SomeListTrue
    <3>4. IsTrue(flat, holds) <=> \A c \in Range(flat.list) : IsTrue(c, holds)
        BY <1>2, <2>1, TrueOfParts
    <3> QED
        BY <1>2, <2>4, <3>3, <3>4
  <2> QED
      BY <1>3, <2>5 DEF cnf
<1> QED
    BY <1>3, <1>4, <1>5

(* NULL is no clause.                                                      *)
LEMMA NullIsNoClause ==
    NULL \notin Clause
<1>1. ASSUME NULL \in Clause
      PROVE  FALSE
  <2>1. NULL.type = "NULL"
      BY DEF NULL
  <2>2. NULL.type = "Binary" \/ NULL.type \in {"Single", "And", "Or"}
      BY <1>1, Parts DEF ListOver
  <2> QED
      BY <2>1, <2>2
<1> QED
    BY <1>1

(* The recursive function of Comparisons.                                  *)
Inside ==
    CHOOSE inside : inside = [x \in Clause |->
        IF x.type = "Binary" THEN {x}
        ELSE UNION {inside[x.list[i]] : i \in DOMAIN x.list}]

(* It obeys its equation: there is a function that does.                   *)
LEMMA InsideIs ==
    /\ Inside \in Typed(Clause, [x \in Clause |-> SUBSET Comparison])
    /\ Inside = [x \in Clause |->
                    IF x.type = "Binary" THEN {x}
                    ELSE UNION {Inside[x.list[i]] : i \in DOMAIN x.list}]
<1> DEFINE All(s) == UNION {s[i] : i \in DOMAIN s}
           W == SUBSET Comparison
           V == [x \in Clause |-> W]
           start == [x \in Clause |-> {}]
           F == [p \in Clause \X Seq(W) |->
                    IF p[1].type = "Binary" THEN {p[1]} ELSE All(p[2])]
<1>1. /\ \A x \in Clause : V[x] = W
      /\ {} \in W
    OBVIOUS
<1>2. start = [x \in Clause |-> start[x]] /\ \A x \in Clause : start[x] = {}
    OBVIOUS
<1>3. \A x \in Clause : x.type = "Binary" => {x} \in W
    BY ClauseShape
<1>4. ASSUME NEW s \in Seq(W)
      PROVE  All(s) \in W
  <2>1. \A i \in DOMAIN s : s[i] \in W
      BY LenProperties, ElementOfSeq
  <2> QED
      BY <2>1
<1> HIDE DEF All
<1>5. ASSUME NEW x \in Clause, NEW s \in Seq(W)
      PROVE  F[<<x, s>>] = IF x.type = "Binary" THEN {x} ELSE All(s)
    OBVIOUS
<1> HIDE DEF V, W, start, F
<1>6. start \in Typed(Clause, V)
  <2>1. \A x \in Clause : start[x] \in V[x]
      BY <1>1, <1>2
  <2> QED
      BY <1>2, <2>1, TypedFunction, Zenon
<1>7. ASSUME NEW x \in Clause, NEW s, ForParts(s, x, V)
      PROVE  s \in Seq(W)
  <2>1. UNION {V[y] : y \in Clause} \subseteq W
    <3>1. ASSUME NEW y \in Clause
          PROVE  V[y] \subseteq W
        BY <1>1
    <3> QED
        BY <3>1
  <2> QED
      BY <1>7, <2>1, SeqMonotonic DEF ForParts
<1>8. ASSUME NEW x \in Clause, NEW s, ForParts(s, x, V)
      PROVE  F[<<x, s>>] \in V[x]
  <2>1. s \in Seq(W)
      BY <1>7, <1>8
  <2>2. F[<<x, s>>] = IF x.type = "Binary" THEN {x} ELSE All(s)
      BY <1>5, <2>1, Zenon
  <2>3. F[<<x, s>>] \in W
      BY <1>3, <1>4, <2>1, <2>2, Zenon
  <2> QED
      BY <1>1, <2>3
<1>9. PICK inside \in Typed(Clause, V) : FromParts(inside, F)
    BY <1>6, <1>8, ClauseFunction
<1>10. inside = [x \in Clause |-> inside[x]]
    BY TypedFunction
<1>11. ASSUME NEW f, NEW x \in Clause, ForParts(Through(f, x), x, V)
       PROVE  F[<<x, Through(f, x)>>] =
                  IF x.type = "Binary" THEN {x} ELSE UNION {f[x.list[i]] : i \in DOMAIN x.list}
  <2> DEFINE s == Through(f, x)
  <2>1. s \in Seq(W)
      BY <1>7, <1>11
  <2>2. x.type # "Binary" => s = [i \in DOMAIN x.list |-> f[x.list[i]]]
      BY DEF Through
  <2> HIDE DEF s
  <2>3. F[<<x, s>>] = IF x.type = "Binary" THEN {x} ELSE All(s)
      BY <1>5, <2>1, Zenon
  <2>4. x.type # "Binary" => All(s) = UNION {f[x.list[i]] : i \in DOMAIN x.list}
      BY <2>2 DEF All
  <2> QED
      BY <2>3, <2>4 DEF s
<1>12. \A x \in Clause :
          inside[x] = IF x.type = "Binary" THEN {x}
                      ELSE UNION {inside[x.list[i]] : i \in DOMAIN x.list}
    BY <1>9, <1>11, ThroughForParts, Zenon DEF FromParts
<1>13. inside = [x \in Clause |->
                     IF x.type = "Binary" THEN {x}
                     ELSE UNION {inside[x.list[i]] : i \in DOMAIN x.list}]
    BY <1>10, <1>12, Zenon
<1>14. Inside = [x \in Clause |->
                     IF x.type = "Binary" THEN {x}
                     ELSE UNION {Inside[x.list[i]] : i \in DOMAIN x.list}]
    BY <1>13, Zenon DEF Inside
<1>15. Inside = [x \in Clause |-> Inside[x]]
    BY <1>14
<1>16. \A x \in Clause :
          ForParts(Through(Inside, x), x, V) => Inside[x] = F[<<x, Through(Inside, x)>>]
    BY <1>11, <1>14
<1>17. Inside \in Typed(Clause, V)
    BY <1>8, <1>15, <1>16, ComputedIsTyped
<1> QED
    BY <1>14, <1>17 DEF V, W

(* The comparisons of a clause are those of its parts.                     *)
LEMMA ComparisonsOf ==
    ASSUME NEW x \in Clause
    PROVE  /\ Comparisons(x) \subseteq Comparison
           /\ x.type = "Binary" => Comparisons(x) = {x}
           /\ x.type # "Binary" =>
                  Comparisons(x) = UNION {Comparisons(x.list[i]) : i \in DOMAIN x.list}
<1>1. ASSUME NEW y \in Clause
      PROVE  Comparisons(y) = Inside[y]
  <2>1. y # NULL
      BY NullIsNoClause
  <2>2. Comparisons(y) = IF y = NULL THEN {} ELSE Inside[y]
      BY Zenon DEF Comparisons, Inside
  <2> QED
      BY <2>1, <2>2
<1>2. Inside[x] = IF x.type = "Binary" THEN {x}
                  ELSE UNION {Inside[x.list[i]] : i \in DOMAIN x.list}
    BY InsideIs
<1>3. Inside[x] \in SUBSET Comparison
    BY InsideIs, TypedFunction
<1>4. x.type # "Binary" => \A i \in DOMAIN x.list : Comparisons(x.list[i]) = Inside[x.list[i]]
    BY <1>1, Parts
<1> QED
    BY <1>1, <1>2, <1>3, <1>4

(* Whether a clause is true is a matter of its own comparisons.            *)
LEMMA TrueOnComparisons ==
    ASSUME NEW e \in Clause, NEW holds, NEW others,
           \A c \in Comparisons(e) : c.name \in holds => c.name \in others
    PROVE  IsTrue(e, holds) => IsTrue(e, others)
<1> DEFINE T == {x \in Clause :
                    (\A c \in Comparisons(x) : c.name \in holds => c.name \in others)
                        => (IsTrue(x, holds) => IsTrue(x, others))}
<1>1. ASSUME NEW x \in Clause,
             x.type # "Binary" => \A i \in DOMAIN x.list : x.list[i] \in T
      PROVE  x \in T
  <2> SUFFICES ASSUME \A c \in Comparisons(x) : c.name \in holds => c.name \in others,
                      IsTrue(x, holds)
               PROVE  IsTrue(x, others)
      OBVIOUS
  <2>1. CASE x.type = "Binary"
      BY <2>1, ComparisonsOf, TrueOf
  <2>2. CASE x.type # "Binary"
    <3>1. \A i \in DOMAIN x.list : Comparisons(x.list[i]) \subseteq Comparisons(x)
        BY <2>2, ComparisonsOf
    <3>2. \A i \in DOMAIN x.list : IsTrue(x.list[i], holds) => IsTrue(x.list[i], others)
        BY <1>1, <2>2, <3>1
    <3>3. x.type \in {"Single", "And", "Or"}
        BY <2>2, Parts DEF ListOver
    <3>4. CASE x.type = "Or"
        BY <3>2, <3>4, TrueOf
    <3>5. CASE x.type \in {"Single", "And"}
        BY <3>2, <3>5, TrueOf
    <3> QED
        BY <3>3, <3>4, <3>5
  <2> QED
      BY <2>1, <2>2
<1> HIDE DEF T
<1>2. Clause \subseteq T
    BY <1>1, ClauseInduction
<1> QED
    BY <1>2 DEF T

(* In terms of the elements of its list.                                   *)
LEMMA ComparisonsOfParts ==
    ASSUME NEW x \in Clause, x.type # "Binary"
    PROVE  /\ \A e \in Range(x.list) : e \in Clause /\ Comparisons(e) \subseteq Comparisons(x)
           /\ \A c \in Comparisons(x) : \E e \in Range(x.list) : c \in Comparisons(e)
<1>1. Comparisons(x) = UNION {Comparisons(x.list[i]) : i \in DOMAIN x.list}
    BY ComparisonsOf
<1>2. \A i \in DOMAIN x.list : x.list[i] \in Clause
    BY Parts
<1> QED
    BY <1>1, <1>2 DEF Range

(* Flattening changes neither the type of a clause nor its comparisons.    *)
LEMMA FlattenKeepsComparisons ==
    ASSUME NEW e \in Clause
    PROVE  /\ Flatten(e).type = e.type
           /\ Comparisons(Flatten(e)) = Comparisons(e)
<1> DEFINE T == {x \in Clause : /\ Flatten(x).type = x.type
                                /\ Comparisons(Flatten(x)) = Comparisons(x)}
<1>1. ASSUME NEW x \in Clause,
             x.type # "Binary" => \A i \in DOMAIN x.list : x.list[i] \in T
      PROVE  x \in T
  <2> DEFINE y == Flatten(x)
             L == [i \in DOMAIN x.list |-> Flatten(x.list[i])]
  <2>1. CASE x.type = "Binary"
      BY <2>1, FlattenOf
  <2>2. CASE x.type # "Binary"
    <3>1. \A i \in DOMAIN x.list :
              /\ x.list[i] \in Clause
              /\ Flatten(x.list[i]) \in Clause
              /\ Flatten(x.list[i]).type = x.list[i].type
              /\ Comparisons(Flatten(x.list[i])) = Comparisons(x.list[i])
        BY <1>1, <2>2, FlattenOf
    <3>2. y = FlatList(x.type, L) /\ y \in Clause
        BY <2>2, FlattenOf
    <3>3. y.type = x.type
        BY <3>2 DEF FlatList
    <3>4. /\ \A p \in Range(y.list) : p \in Clause /\ Comparisons(p) \subseteq Comparisons(y)
          /\ \A c \in Comparisons(y) : \E p \in Range(y.list) : c \in Comparisons(p)
        BY <2>2, <3>2, <3>3, ComparisonsOfParts
    <3>5. Comparisons(x) = UNION {Comparisons(x.list[i]) : i \in DOMAIN x.list}
        BY <2>2, ComparisonsOf
    <3>6. /\ \A p \in Range(y.list) : Comparisons(p) \subseteq Comparisons(x)
          /\ \A i \in DOMAIN x.list : Comparisons(x.list[i]) \subseteq Comparisons(y)
      <4>1. CASE x.type = "Single"
        <5>1. y.list = L
            BY <3>2, <4>1 DEF FlatList
        <5>2. \A p \in Range(y.list) : \E i \in DOMAIN x.list : p = Flatten(x.list[i])
            BY <5>1 DEF Range
        <5>3. \A i \in DOMAIN x.list : Flatten(x.list[i]) \in Range(y.list)
            BY <5>1 DEF Range
        <5> HIDE DEF y, L
        <5> QED
            BY <3>1, <3>4, <3>5, <5>2, <5>3
      <4>2. CASE x.type \in {"And", "Or"}
        <5>1. ASSUME NEW i \in DOMAIN x.list, Flatten(x.list[i]).type = x.type
              PROVE  /\ \A p \in Range(Flatten(x.list[i]).list) :
                            Comparisons(p) \subseteq Comparisons(x.list[i])
                     /\ \A c \in Comparisons(x.list[i]) :
                            \E p \in Range(Flatten(x.list[i]).list) : c \in Comparisons(p)
          <6> DEFINE z == Flatten(x.list[i])
          <6>1. z \in Clause /\ z.type # "Binary" /\ Comparisons(z) = Comparisons(x.list[i])
              BY <2>2, <3>1, <5>1
          <6> HIDE DEF z
          <6>2. /\ \A p \in Range(z.list) : Comparisons(p) \subseteq Comparisons(z)
                /\ \A c \in Comparisons(z) : \E p \in Range(z.list) : c \in Comparisons(p)
              BY <6>1, ComparisonsOfParts
          <6> QED
              BY <6>1, <6>2 DEF z
        <5>2. ASSUME NEW p \in Range(y.list)
              PROVE  Comparisons(p) \subseteq Comparisons(x)
          <6>1. PICK i \in DOMAIN x.list :
                    IF Flatten(x.list[i]).type = x.type THEN p \in Range(Flatten(x.list[i]).list)
                    ELSE p = Flatten(x.list[i])
              BY <4>2, FlattenedParts
          <6>2. Comparisons(p) \subseteq Comparisons(x.list[i])
              BY <3>1, <5>1, <6>1
          <6> QED
              BY <3>5, <6>2
        <5>3. ASSUME NEW i \in DOMAIN x.list
              PROVE  Comparisons(x.list[i]) \subseteq Comparisons(y)
          <6>1. IF Flatten(x.list[i]).type = x.type
                THEN Range(Flatten(x.list[i]).list) \subseteq Range(y.list)
                ELSE Flatten(x.list[i]) \in Range(y.list)
              BY <4>2, FlattenedParts
          <6> HIDE DEF y
          <6>2. CASE Flatten(x.list[i]).type = x.type
              BY <3>4, <5>1, <6>1, <6>2
          <6>3. CASE Flatten(x.list[i]).type # x.type
              BY <3>1, <3>4, <6>1, <6>3
          <6> QED
              BY <6>2, <6>3
        <5> QED
            BY <5>2, <5>3
      <4>3. x.type \in {"Single", "And", "Or"}
          BY <2>2, Parts DEF ListOver
      <4> QED
          BY <4>1, <4>2, <4>3
    <3> HIDE DEF y
    <3>7. Comparisons(y) = Comparisons(x)
        BY <3>4, <3>5, <3>6
    <3> QED
        BY <3>3, <3>7 DEF y
  <2> QED
      BY <2>1, <2>2
<1> HIDE DEF T
<1>2. Clause \subseteq T
    BY <1>1, ClauseInduction
<1> QED
    BY <1>2 DEF T

(* The alternatives of a conjunct have its comparisons.                    *)
LEMMA AlternativesComparisons ==
    ASSUME NEW e \in Clause
    PROVE  /\ \A a \in Range(Alternatives(e)) :
                  a \in Clause /\ Comparisons(a) \subseteq Comparisons(e)
           /\ \A c \in Comparisons(e) :
                  \E a \in Range(Alternatives(e)) : c \in Comparisons(a)
<1>1. CASE e.type \in {"Or", "Single"}
    BY <1>1, ComparisonsOfParts DEF Alternatives
<1>2. CASE e.type \notin {"Or", "Single"}
  <2>1. Range(Alternatives(e)) = {e}
      BY <1>2 DEF Alternatives, Range
  <2> QED
      BY <2>1
<1> QED
    BY <1>1, <1>2

(* Each list has an alternative of every conjunct and nothing else, and    *)
(* each alternative is in a list.                                          *)
LEMMA CombinationsCover ==
    ASSUME NEW n \in 0 .. Depth + 1, NEW conjuncts \in Seq(Clauses[n])
    PROVE  /\ \A c \in Range(conjuncts) :
                  /\ \A l \in Range(Combinations(conjuncts)) :
                         \E a \in Range(Alternatives(c)) : a \in Range(l)
                  /\ \A a \in Range(Alternatives(c)) :
                         \E l \in Range(Combinations(conjuncts)) : a \in Range(l)
           /\ \A l \in Range(Combinations(conjuncts)) : \A a \in Range(l) :
                  \E c \in Range(conjuncts) : a \in Range(Alternatives(c))
<1> DEFINE m == Len(conjuncts)
           S == Clauses[n]
           f == Combined(conjuncts)
           A(k) == Range(Alternatives(conjuncts[k]))
           T == {i \in 0 .. m :
                    /\ f[i] \in Seq(Seq(S)) /\ Range(f[i]) # {}
                    /\ \A k \in 1 .. i :
                           /\ \A l \in Range(f[i]) : \E a \in A(k) : a \in Range(l)
                           /\ \A a \in A(k) : \E l \in Range(f[i]) : a \in Range(l)
                    /\ \A l \in Range(f[i]) : \A a \in Range(l) : \E k \in 1 .. i : a \in A(k)}
<1>1. m \in Nat /\ DOMAIN conjuncts = 1 .. m /\ \A i \in 1 .. m : conjuncts[i] \in S
    BY LenProperties
<1>2. f[0] = << <<>> >> /\ \A i \in 1 .. m : f[i] = Distribute(f[i - 1], conjuncts[i])
    BY CombinedStep
<1>3. ASSUME NEW k \in 1 .. m
      PROVE  /\ Alternatives(conjuncts[k]) \in Seq(S)
             /\ A(k) # {} /\ A(k) \subseteq S
  <2>1. conjuncts[k] \in S
      BY <1>1
  <2>2. Alternatives(conjuncts[k]) \in Seq(S)
      BY <2>1, AlternativesProperties
  <2> DEFINE s == Alternatives(conjuncts[k])
  <2>3. s # <<>>
    <3>1. CASE conjuncts[k].type \in {"Or", "Single"}
      <4>1. conjuncts[k] \in Clause
          BY <2>1, LevelsAreClauses
      <4>2. conjuncts[k].list # <<>>
          BY <3>1, <4>1, Parts DEF ListOver
      <4> QED
          BY <3>1, <4>2 DEF Alternatives
    <3>2. CASE conjuncts[k].type \notin {"Or", "Single"}
        BY <3>2 DEF Alternatives
    <3> QED
        BY <3>1, <3>2
  <2> HIDE DEF s
  <2>4. s \in Seq(S)
      BY <2>2 DEF s
  <2>5. Len(s) \in Nat \ {0} /\ DOMAIN s = 1 .. Len(s) /\ \A i \in DOMAIN s : s[i] \in S
      BY <2>3, <2>4, EmptySeq, LenProperties
  <2>6. 1 \in DOMAIN s
      BY <2>5
  <2>7. Range(s) # {} /\ Range(s) \subseteq S
      BY <2>5, <2>6, Zenon DEF Range
  <2> QED
      BY <2>2, <2>7 DEF s, A
<1> HIDE DEF f, A
<1>4. 0 \in T
  <2>1. <<>> \in Seq(S)
      BY EmptySeq
  <2>2. << <<>> >> \in Seq(Seq(S)) /\ Range(<< <<>> >>) = {<<>>}
    <3>1. \A e : Range(<<e>>) = {e}
        BY DEF Range
    <3> QED
        BY <2>1, <3>1, SingletonSeq, Zenon
  <2>3. 0 \in 0 .. m /\ ~ \E k \in 1 .. 0 : TRUE
      BY <1>1
  <2>4. f[0] \in Seq(Seq(S)) /\ Range(f[0]) # {} /\ \A l \in Range(f[0]) : Range(l) = {}
    <3>1. Range(<<>>) = {}
        BY DEF Range
    <3> QED
        BY <1>2, <2>2, <3>1
  <2> QED
      BY <2>3, <2>4
<1>5. ASSUME NEW i \in 1 .. m, i - 1 \in T
      PROVE  i \in T
  <2>1. /\ f[i - 1] \in Seq(Seq(S)) /\ Range(f[i - 1]) # {}
        /\ \A k \in 1 .. i - 1 :
               /\ \A l \in Range(f[i - 1]) : \E a \in A(k) : a \in Range(l)
               /\ \A a \in A(k) : \E l \in Range(f[i - 1]) : a \in Range(l)
        /\ \A l \in Range(f[i - 1]) : \A a \in Range(l) : \E k \in 1 .. i - 1 : a \in A(k)
      BY <1>5
  <2>2. /\ f[i] = Distribute(f[i - 1], conjuncts[i])
        /\ Alternatives(conjuncts[i]) \in Seq(S)
        /\ A(i) # {} /\ A(i) \subseteq S
      BY <1>2, <1>3
  <2>3. /\ f[i] \in Seq(Seq(S))
        /\ \A y : y \in Range(f[i])
               <=> \E l \in Range(f[i - 1]) : \E a \in A(i) : y = Append(l, a)
      BY <2>1, <2>2, DistributeProperties DEF A
  <2>4. ASSUME NEW l \in Range(f[i - 1]), NEW a \in A(i)
        PROVE  Append(l, a) \in Range(f[i]) /\ Range(Append(l, a)) = Range(l) \cup {a}
    <3>1. l \in Seq(S)
      <4>1. PICK k \in DOMAIN f[i - 1] : l = f[i - 1][k]
          BY DEF Range
      <4> QED
          BY <2>1, <4>1, LenProperties
    <3>2. a \in S
        BY <2>2
    <3>3. Range(Append(l, a)) = Range(l) \cup {a}
        BY <3>1, <3>2, AppendRange
    <3> QED
        BY <2>3, <3>3
  <2>5. Range(f[i]) # {}
      BY <2>1, <2>2, <2>4
  <2>6. ASSUME NEW k \in 1 .. i, NEW y \in Range(f[i])
        PROVE  \E a \in A(k) : a \in Range(y)
    <3>1. PICK l \in Range(f[i - 1]) : \E a \in A(i) : y = Append(l, a)
        BY <2>3
    <3>2. PICK a \in A(i) : y = Append(l, a)
        BY <3>1
    <3>3. Range(y) = Range(l) \cup {a}
        BY <2>4, <3>2
    <3>4. CASE k = i
        BY <3>3, <3>4
    <3>5. CASE k \in 1 .. i - 1
        BY <2>1, <3>3, <3>5
    <3> QED
        BY <3>4, <3>5
  <2>7. ASSUME NEW k \in 1 .. i, NEW a \in A(k)
        PROVE  \E y \in Range(f[i]) : a \in Range(y)
    <3>1. CASE k = i
      <4>1. PICK l \in Range(f[i - 1]) : TRUE
          BY <2>1
      <4>2. Append(l, a) \in Range(f[i]) /\ Range(Append(l, a)) = Range(l) \cup {a}
          BY <2>4, <3>1
      <4> QED
          BY <4>2
    <3>2. CASE k \in 1 .. i - 1
      <4>1. PICK l \in Range(f[i - 1]) : a \in Range(l)
          BY <2>1, <3>2
      <4>2. PICK b \in A(i) : TRUE
          BY <2>2
      <4>3. Append(l, b) \in Range(f[i]) /\ Range(Append(l, b)) = Range(l) \cup {b}
          BY <2>4
      <4> QED
          BY <4>1, <4>3
    <3> QED
        BY <3>1, <3>2
  <2>8. ASSUME NEW y \in Range(f[i]), NEW b \in Range(y)
        PROVE  \E k \in 1 .. i : b \in A(k)
    <3>1. PICK l \in Range(f[i - 1]) : \E a \in A(i) : y = Append(l, a)
        BY <2>3
    <3>2. PICK a \in A(i) : y = Append(l, a)
        BY <3>1
    <3>3. Range(y) = Range(l) \cup {a}
        BY <2>4, <3>2
    <3>4. i \in 1 .. i /\ 1 .. i - 1 \subseteq 1 .. i
        BY <1>1
    <3> QED
        BY <2>1, <3>3, <3>4
  <2>9. i \in 0 .. m
      BY <1>1
  <2> QED
      BY <2>3, <2>5, <2>6, <2>7, <2>8, <2>9
<1> HIDE DEF T
<1>6. 0 .. m \subseteq T
  <2>1. \A i \in 0 + 1 .. m : i - 1 \in T => i \in T
      BY <1>5
  <2> QED
      BY <1>1, <1>4, <2>1, RangeInduction
<1>7. m \in T
    BY <1>1, <1>6
<1>8. Combinations(conjuncts) = f[m]
    BY CombinationsIs DEF f
<1>9. ASSUME NEW c \in Range(conjuncts)
      PROVE  /\ \A l \in Range(Combinations(conjuncts)) :
                      \E a \in Range(Alternatives(c)) : a \in Range(l)
             /\ \A a \in Range(Alternatives(c)) :
                      \E l \in Range(Combinations(conjuncts)) : a \in Range(l)
  <2>1. PICK k \in 1 .. m : c = conjuncts[k]
      BY <1>1 DEF Range
  <2>2. A(k) = Range(Alternatives(c))
      BY <2>1 DEF A
  <2>3. /\ \A l \in Range(f[m]) : \E a \in A(k) : a \in Range(l)
        /\ \A a \in A(k) : \E l \in Range(f[m]) : a \in Range(l)
      BY <1>7 DEF T
  <2> QED
      BY <1>8, <2>2, <2>3
<1>10. ASSUME NEW l \in Range(Combinations(conjuncts)), NEW a \in Range(l)
       PROVE  \E c \in Range(conjuncts) : a \in Range(Alternatives(c))
  <2>1. PICK k \in 1 .. m : a \in A(k)
      BY <1>7, <1>8 DEF T
  <2>2. conjuncts[k] \in Range(conjuncts)
      BY <1>1 DEF Range
  <2> QED
      BY <2>1, <2>2 DEF A
<1> QED
    BY <1>9, <1>10

(* The normal form has the comparisons of the clause.                      *)
LEMMA TransformKeepsComparisons ==
    ASSUME NEW e \in Clauses[Depth]
    PROVE  Comparisons(TransformToCNF(e)) = Comparisons(e)
<1> DEFINE flat == Flatten(e)
           cnf == TransformToCNF(e)
           lists == Combinations(flat.list)
<1>1. e \in Clause
    BY ComparisonAssumption, LevelsAreClauses
<1>2. flat \in Clause /\ Comparisons(flat) = Comparisons(e)
    BY <1>1, FlattenOf, FlattenKeepsComparisons
<1>3. cnf \in Clause
    BY TransformShape
<1>4. CASE cnf = flat
    BY <1>2, <1>4
<1>5. CASE cnf # flat
  <2>1. /\ flat.type = "And" /\ cnf.type = "Or"
        /\ \A x \in Range(cnf.list) : x \in Clause /\ x.type = "And" /\ x.list \in Range(lists)
        /\ \A l \in Range(lists) : \E x \in Range(cnf.list) : x.list = l
      BY <1>5, TransformShape
  <2>2. PICK n \in 0 .. Depth : flat.list \in Seq(Clauses[n])
      BY <2>1, TransformShape
  <2>3. n \in 0 .. Depth + 1
      BY ComparisonAssumption
  <2>4. \A d \in Range(flat.list) : \A a \in Range(Alternatives(d)) :
            \E l \in Range(lists) : a \in Range(l)
      BY <2>2, <2>3, CombinationsCover
  <2>5. \A l \in Range(lists) : \A a \in Range(l) :
           \E d \in Range(flat.list) : a \in Range(Alternatives(d))
      BY <2>2, <2>3, CombinationsCover
  <2> HIDE DEF flat, cnf, lists
  <2>6. ASSUME NEW c \in Comparisons(flat)
        PROVE  c \in Comparisons(cnf)
    <3>1. PICK d \in Range(flat.list) : d \in Clause /\ c \in Comparisons(d)
        BY <1>2, <2>1, ComparisonsOfParts
    <3>2. PICK a \in Range(Alternatives(d)) : c \in Comparisons(a)
        BY <3>1, AlternativesComparisons
    <3>3. PICK l \in Range(lists) : a \in Range(l)
        BY <2>4
    <3>4. PICK x \in Range(cnf.list) : x.list = l
        BY <2>1
    <3>5. x \in Clause /\ x.type # "Binary" /\ Comparisons(x) \subseteq Comparisons(cnf)
        BY <1>3, <2>1, ComparisonsOfParts
    <3>6. Comparisons(a) \subseteq Comparisons(x)
        BY <3>3, <3>4, <3>5, ComparisonsOfParts
    <3> QED
        BY <3>2, <3>5, <3>6
  <2>7. ASSUME NEW c \in Comparisons(cnf)
        PROVE  c \in Comparisons(flat)
    <3>1. PICK x \in Range(cnf.list) : x \in Clause /\ c \in Comparisons(x)
        BY <1>3, <2>1, ComparisonsOfParts
    <3>2. x.type = "And" /\ x.list \in Range(lists)
        BY <2>1
    <3>3. PICK a \in Range(x.list) : c \in Comparisons(a)
        BY <3>1, <3>2, ComparisonsOfParts
    <3>4. PICK d \in Range(flat.list) : a \in Range(Alternatives(d))
        BY <2>5, <3>2
    <3>5. d \in Clause /\ Comparisons(d) \subseteq Comparisons(flat)
        BY <1>2, <2>1, ComparisonsOfParts
    <3>6. Comparisons(a) \subseteq Comparisons(d)
        BY <3>4, <3>5, AlternativesComparisons
    <3> QED
        BY <3>3, <3>5, <3>6
  <2> QED
      BY <1>2, <2>6, <2>7 DEF cnf
<1> QED
    BY <1>4, <1>5

(* What can be pushed of some parts, all on a level.                       *)
Kept(pushed) ==
    FlattenSeq([i \in DOMAIN pushed |-> IF pushed[i] = NULL THEN <<>> ELSE <<pushed[i]>>])

(* What is kept of the pushed parts are those that are not NULL.           *)
LEMMA KeptProperties ==
    ASSUME NEW S, NULL \notin S, NEW pushed \in Seq(S \cup {NULL})
    PROVE  /\ Kept(pushed) \in Seq(S)
           /\ Range(Kept(pushed)) = Range(pushed) \ {NULL}
<1> DEFINE one(i) == IF pushed[i] = NULL THEN <<>> ELSE <<pushed[i]>>
           seqs == [i \in DOMAIN pushed |-> one(i)]
<1>1. Len(pushed) \in Nat /\ DOMAIN pushed = 1 .. Len(pushed)
    BY LenProperties
<1>2. ASSUME NEW i \in DOMAIN pushed
      PROVE  /\ one(i) \in Seq(S)
             /\ Range(one(i)) = {pushed[i]} \ {NULL}
  <2>1. pushed[i] \in S \cup {NULL}
      BY <1>1, ElementOfSeq
  <2>2. Range(<<>>) = {} /\ Range(<<pushed[i]>>) = {pushed[i]}
      BY DEF Range
  <2>3. CASE pushed[i] = NULL
      BY <2>2, <2>3, EmptySeq
  <2>4. CASE pushed[i] # NULL
      BY <2>1, <2>2, <2>4, SingletonSeq
  <2> QED
      BY <2>3, <2>4
<1>3. seqs \in [1 .. Len(pushed) -> Seq(S)]
    BY <1>1, <1>2
<1>4. seqs \in Seq(Seq(S))
    BY <1>1, <1>3, Sequences
<1>5. DOMAIN seqs = DOMAIN pushed /\ \A i \in DOMAIN pushed : seqs[i] = one(i)
    OBVIOUS
<1>6. Kept(pushed) = FlattenSeq(seqs)
    BY DEF Kept
<1> HIDE DEF seqs, one
<1>7. /\ FlattenSeq(seqs) \in Seq(S)
      /\ Range(FlattenSeq(seqs)) = UNION {Range(seqs[i]) : i \in DOMAIN seqs}
    BY <1>4, FlattenSeqProperties
<1>8. UNION {Range(seqs[i]) : i \in DOMAIN seqs} = Range(pushed) \ {NULL}
  <2>1. Range(pushed) = {pushed[i] : i \in DOMAIN pushed}
      BY DEF Range
  <2> QED
      BY <1>2, <1>5, <2>1
<1> QED
    BY <1>6, <1>7, <1>8

(* The conjuncts of the AND that is pushed: the first with each other.     *)
Paired(kept) == FlattenSeq([i \in 1 .. Len(kept) - 1 |-> <<kept[1], kept[i + 1]>>])

(* Pairing the first with each other loses none of two or more.            *)
LEMMA PairedProperties ==
    ASSUME NEW S, NEW kept \in Seq(S), Len(kept) > 1
    PROVE  /\ Paired(kept) \in Seq(S) \ {<<>>}
           /\ Range(Paired(kept)) = Range(kept)
<1> DEFINE n == Len(kept) - 1
           one(i) == <<kept[1], kept[i + 1]>>
           seqs == [i \in 1 .. n |-> one(i)]
<1>1. Len(kept) \in Nat /\ DOMAIN kept = 1 .. Len(kept) /\ \A i \in 1 .. Len(kept) : kept[i] \in S
    BY LenProperties
<1>2. n \in Nat \ {0} /\ \A i \in 1 .. n : 1 \in DOMAIN kept /\ i + 1 \in DOMAIN kept
    BY <1>1
<1>3. ASSUME NEW i \in 1 .. n
      PROVE  /\ one(i) \in Seq(S)
             /\ Range(one(i)) = {kept[1], kept[i + 1]}
  <2>1. kept[1] \in S /\ kept[i + 1] \in S
      BY <1>1, <1>2
  <2>2. one(i) \in Seq(S)
      BY <2>1
  <2>3. \A a, b : Range(<<a, b>>) = {a, b}
      BY DEF Range
  <2> QED
      BY <2>2, <2>3
<1>4. Paired(kept) = FlattenSeq(seqs)
    BY DEF Paired
<1>5. DOMAIN seqs = 1 .. n /\ \A i \in 1 .. n : seqs[i] = one(i)
    OBVIOUS
<1> HIDE DEF one
<1>6. seqs \in [1 .. n -> Seq(S)]
    BY <1>3
<1> HIDE DEF seqs, n
<1>7. seqs \in Seq(Seq(S))
    BY <1>2, <1>6, Sequences
<1>8. /\ FlattenSeq(seqs) \in Seq(S)
      /\ Range(FlattenSeq(seqs)) = UNION {Range(seqs[i]) : i \in DOMAIN seqs}
    BY <1>7, FlattenSeqProperties
<1>9. UNION {Range(seqs[i]) : i \in DOMAIN seqs} = Range(kept)
  <2>1. ASSUME NEW i \in 1 .. n
        PROVE  Range(seqs[i]) \subseteq Range(kept)
    <3>1. kept[1] \in Range(kept) /\ kept[i + 1] \in Range(kept)
        BY <1>2 DEF Range
    <3> QED
        BY <1>3, <1>5, <3>1
  <2>2. ASSUME NEW j \in DOMAIN kept
        PROVE  \E i \in 1 .. n : kept[j] \in Range(seqs[i])
    <3>1. CASE j = 1
      <4>1. 1 \in 1 .. n
          BY <1>2
      <4> QED
          BY <1>3, <1>5, <3>1, <4>1
    <3>2. CASE j # 1
      <4>1. j - 1 \in 1 .. n /\ (j - 1) + 1 = j
          BY <1>1, <3>2 DEF n
      <4> QED
          BY <1>3, <1>5, <4>1
    <3> QED
        BY <3>1, <3>2
  <2>3. UNION {Range(seqs[i]) : i \in DOMAIN seqs} \subseteq Range(kept)
      BY <1>5, <2>1
  <2>4. Range(kept) = {kept[j] : j \in DOMAIN kept}
      BY DEF Range
  <2>5. Range(kept) \subseteq UNION {Range(seqs[i]) : i \in DOMAIN seqs}
      BY <1>5, <2>2, <2>4
  <2> QED
      BY <2>3, <2>5
<1>10. Range(FlattenSeq(seqs)) # {}
  <2>1. kept[1] \in Range(kept)
      BY <1>1 DEF Range
  <2> QED
      BY <1>8, <1>9, <2>1
<1>11. FlattenSeq(seqs) # <<>>
  <2>1. Range(<<>>) = {}
      BY DEF Range
  <2> QED
      BY <1>10, <2>1
<1> QED
    BY <1>4, <1>8, <1>9, <1>11

(* What is pushed of an AND list is NULL if nothing can be pushed, and     *)
(* means that all that can be pushed is true.                              *)
LEMMA PushedAndProperties ==
    ASSUME NEW n \in 0 .. Depth, NEW pushed \in Seq(Clauses[n] \cup {NULL})
    PROVE  /\ PushedAnd(pushed) \in Clauses[n + 1] \cup {NULL}
           /\ PushedAnd(pushed) = NULL <=> \A p \in Range(pushed) : p = NULL
           /\ PushedAnd(pushed) # NULL =>
                  \A holds : IsTrue(PushedAnd(pushed), holds)
                      <=> \A p \in Range(pushed) \ {NULL} : IsTrue(p, holds)
<1> DEFINE kept == Kept(pushed)
<1>1. n \in 0 .. Depth + 1 /\ n + 1 \in 0 .. Depth + 1 /\ n + 1 \in n .. Depth + 1
    BY ComparisonAssumption
<1>2. /\ Clauses[n] \subseteq Clause
      /\ Clauses[n] \subseteq Clauses[n + 1]
      /\ Clauses[n + 1] \subseteq Clause
    BY <1>1, LevelsAreClauses, LevelsGrow
<1>3. NULL \notin Clauses[n] /\ NULL \notin Clauses[n + 1]
    BY <1>2, NullIsNoClause
<1>4. kept \in Seq(Clauses[n]) /\ Range(kept) = Range(pushed) \ {NULL}
    BY <1>3, KeptProperties
<1>5. PushedAnd(pushed) = CASE Len(kept) = 0 -> NULL
                            [] Len(kept) = 1 -> kept[1]
                            [] OTHER -> And(Paired(kept))
    BY DEF PushedAnd, Kept, Paired
<1> HIDE DEF kept
<1>6. Len(kept) \in Nat /\ DOMAIN kept = 1 .. Len(kept)
    BY <1>4, LenProperties
<1>7. CASE Len(kept) = 0
  <2>1. Range(kept) = {}
      BY <1>6, <1>7 DEF Range
  <2> QED
      BY <1>4, <1>5, <1>7, <2>1
<1>8. CASE Len(kept) = 1
  <2>1. Range(kept) = {kept[1]}
    <3>1. DOMAIN kept = {1}
        BY <1>6, <1>8
    <3> QED
        BY <3>1 DEF Range
  <2>2. PushedAnd(pushed) = kept[1] /\ kept[1] \in Clauses[n]
    <3>1. 1 \in 1 .. Len(kept)
        BY <1>8
    <3>2. kept[1] \in Clauses[n]
        BY <1>4, <3>1, ElementOfSeq
    <3> QED
        BY <1>5, <1>8, <3>2
  <2>3. PushedAnd(pushed) # NULL
      BY <1>3, <2>2
  <2> QED
      BY <1>2, <1>4, <2>1, <2>2, <2>3
<1>9. CASE Len(kept) \notin {0, 1}
  <2>1. Len(kept) > 1
      BY <1>6, <1>9
  <2>2. Paired(kept) \in Seq(Clauses[n]) \ {<<>>} /\ Range(Paired(kept)) = Range(kept)
      BY <1>4, <2>1, PairedProperties
  <2>3. PushedAnd(pushed) = And(Paired(kept))
      BY <1>5, <1>9
  <2>4. /\ And(Paired(kept)) \in Clauses[n + 1]
        /\ And(Paired(kept)).type = "And"
        /\ And(Paired(kept)).list = Paired(kept)
    <3>1. [type |-> "And", list |-> Paired(kept)] \in Clauses[n + 1]
        BY <2>2, ListOnLevel
    <3> QED
        BY <3>1 DEF And
  <2>5. ASSUME NEW holds
        PROVE  IsTrue(PushedAnd(pushed), holds) <=> \A p \in Range(kept) : IsTrue(p, holds)
      BY <1>2, <2>2, <2>3, <2>4, TrueOfParts
  <2>6. Range(kept) # {}
    <3>1. 1 \in DOMAIN kept
        BY <1>6, <2>1
    <3> QED
        BY <3>1 DEF Range
  <2>7. PushedAnd(pushed) # NULL
      BY <1>3, <2>3, <2>4
  <2> QED
      BY <1>4, <2>3, <2>4, <2>5, <2>6, <2>7
<1> QED
    BY <1>7, <1>8, <1>9

(* What has been collected of the alternatives: the first, and a list.     *)
Collected(S) == [first : S \cup {NULL}, multiple : Seq(S)]

(* An alternative that follows a first one joins it.                       *)
LEMMA CollectOther ==
    ASSUME NEW S, NEW acc \in Collected(S), NEW e \in S, e # NULL, acc.first # NULL
    PROVE  /\ CollectOr(acc, e) \in Collected(S)
           /\ CollectOr(acc, e).first = acc.first
           /\ CollectOr(acc, e).multiple = acc.multiple \o <<acc.first, e>>
<1>1. /\ acc.first \in S /\ acc.multiple \in Seq(S)
      /\ acc = [first |-> acc.first, multiple |-> acc.multiple]
    BY DEF Collected
<1>2. CollectOr(acc, e) = [acc EXCEPT !.multiple = @ \o <<acc.first, e>>]
    BY DEF CollectOr
<1>3. acc.multiple \o <<acc.first, e>> \in Seq(S)
    BY <1>1, PairSeq, ConcatProperties
<1>4. CollectOr(acc, e) =
          [first |-> acc.first, multiple |-> acc.multiple \o <<acc.first, e>>]
    BY <1>1, <1>2
<1> QED
    BY <1>1, <1>3, <1>4 DEF Collected

(* The first alternative, or the first after one that cannot be pushed.    *)
LEMMA CollectFirst ==
    ASSUME NEW S, NEW acc \in Collected(S), NEW e \in S, e # NULL, acc.first = NULL
    PROVE  /\ CollectOr(acc, e) \in Collected(S)
           /\ CollectOr(acc, e).first = e
           /\ CollectOr(acc, e).multiple = acc.multiple
<1>1. acc.multiple \in Seq(S) /\ acc = [first |-> acc.first, multiple |-> acc.multiple]
    BY DEF Collected
<1>2. CollectOr(acc, e) = [acc EXCEPT !.first = e]
    BY DEF CollectOr
<1>3. CollectOr(acc, e) = [first |-> e, multiple |-> acc.multiple]
    BY <1>1, <1>2
<1> QED
    BY <1>1, <1>3 DEF Collected

(* An alternative that cannot be pushed adds nothing.                      *)
LEMMA CollectNone ==
    ASSUME NEW S, NEW acc \in Collected(S)
    PROVE  /\ CollectOr(acc, NULL) \in Collected(S)
           /\ acc.first = NULL /\ acc.multiple = <<>> => CollectOr(acc, NULL) = acc
<1>1. /\ acc.first \in S \cup {NULL} /\ acc.multiple \in Seq(S)
      /\ acc = [first |-> acc.first, multiple |-> acc.multiple]
    BY DEF Collected
<1>2. CASE acc.multiple # <<>>
  <2>1. CollectOr(acc, NULL) = [acc EXCEPT !.multiple = <<>>]
      BY <1>2 DEF CollectOr
  <2>2. CollectOr(acc, NULL) = [first |-> acc.first, multiple |-> <<>>]
      BY <1>1, <2>1
  <2> QED
      BY <1>1, <1>2, <2>2, EmptySeq DEF Collected
<1>3. CASE acc.multiple = <<>>
  <2>1. CollectOr(acc, NULL) = [acc EXCEPT !.first = NULL]
      BY <1>3 DEF CollectOr
  <2>2. CollectOr(acc, NULL) = [first |-> NULL, multiple |-> acc.multiple]
      BY <1>1, <2>1
  <2> QED
      BY <1>1, <1>3, <2>2 DEF Collected
<1> QED
    BY <1>2, <1>3

(* What is collected stays a first alternative and a list of alternatives. *)
LEMMA CollectOrType ==
    ASSUME NEW S, NEW acc \in Collected(S), NEW e, e \in S \/ e = NULL
    PROVE  CollectOr(acc, e) \in Collected(S)
    BY CollectNone, CollectFirst, CollectOther

(* The recursive function of PushedOr.                                     *)
NoneCollected == [first |-> NULL, multiple |-> <<>>]

Collection(pushed) ==
    CHOOSE acc : acc = [i \in 0 .. Len(pushed) |->
        IF i = 0 THEN NoneCollected ELSE CollectOr(acc[i - 1], pushed[i])]

(* PushedOr is decided by the last value of its recursive function.        *)
LEMMA PushedOrIs ==
    ASSUME NEW pushed
    PROVE  PushedOr(pushed) =
               IF Collection(pushed)[Len(pushed)].multiple # <<>>
               THEN Or(Collection(pushed)[Len(pushed)].multiple)
               ELSE Collection(pushed)[Len(pushed)].first
    BY DEF PushedOr, Collection, NoneCollected

(* The function of PushedOr obeys its equation.                            *)
LEMMA CollectionStep ==
    ASSUME NEW S, NEW pushed \in Seq(S \cup {NULL})
    PROVE  /\ Collection(pushed)[0] = NoneCollected
           /\ \A i \in 1 .. Len(pushed) :
                  Collection(pushed)[i] = CollectOr(Collection(pushed)[i - 1], pushed[i])
           /\ \A i \in 0 .. Len(pushed) : Collection(pushed)[i] \in Collected(S)
<1> DEFINE m == Len(pushed)
           V == Collected(S)
           F == [p \in Nat \X V |->
                    IF p[1] \in 1 .. m THEN CollectOr(p[2], pushed[p[1]]) ELSE p[2]]
           f == Collection(pushed)
<1>1. m \in Nat /\ \A i \in 1 .. m : pushed[i] \in S \cup {NULL}
    BY LenProperties
<1>2. NoneCollected \in V
    BY EmptySeq DEF NoneCollected, Collected
<1>3. \A i \in 1 .. m, s \in V : CollectOr(s, pushed[i]) \in V
    BY <1>1, CollectOrType
<1>4. ASSUME NEW i \in 1 .. m, NEW s \in V
      PROVE  F[<<i, s>>] = CollectOr(s, pushed[i])
  <2>1. i \in Nat
      OBVIOUS
  <2> QED
      BY <2>1
<1> HIDE DEF V
<1>5. F \in [Nat \X V -> V]
    BY <1>3
<1> HIDE DEF F
<1>6. PICK g \in [0 .. m -> V] : RecursiveFrom(g, 0, m, NoneCollected, F)
    BY <1>1, <1>2, <1>5, RecursiveSequence
<1>7. ASSUME NEW i \in 0 .. m
      PROVE  g[i] = IF i = 0 THEN NoneCollected ELSE CollectOr(g[i - 1], pushed[i])
  <2>1. g[i] = IF i = 0 THEN NoneCollected ELSE F[<<i, g[i - 1]>>]
      BY <1>6 DEF RecursiveFrom
  <2>2. CASE i # 0
    <3>1. i \in 1 .. m /\ i - 1 \in 0 .. m
        BY <1>1, <2>2
    <3>2. g[i - 1] \in V
        BY <3>1
    <3> QED
        BY <1>4, <2>1, <2>2, <3>1, <3>2
  <2> QED
      BY <2>1, <2>2
<1>8. g = [i \in 0 .. m |->
              IF i = 0 THEN NoneCollected ELSE CollectOr(g[i - 1], pushed[i])]
    BY <1>7
<1>9. f = [i \in 0 .. m |->
              IF i = 0 THEN NoneCollected ELSE CollectOr(f[i - 1], pushed[i])]
    BY <1>8, Zenon DEF Collection
<1> HIDE DEF f
<1>10. 0 \in 0 .. m /\ \A i \in 1 .. m : i \in 0 .. m /\ i # 0
    BY <1>1
<1>11. f[0] = NoneCollected
    BY <1>9, <1>10
<1>12. \A i \in 1 .. m : f[i] = CollectOr(f[i - 1], pushed[i])
    BY <1>9, <1>10
<1> DEFINE T == {i \in 0 .. m : f[i] \in V}
<1>13. 0 \in T
    BY <1>2, <1>10, <1>11
<1>14. ASSUME NEW i \in 0 + 1 .. m, i - 1 \in T
       PROVE  i \in T
    BY <1>3, <1>10, <1>12, <1>14
<1> HIDE DEF T
<1>15. 0 .. m \subseteq T
    BY <1>1, <1>13, <1>14, RangeInduction
<1>16. \A i \in 0 .. m : f[i] \in V
    BY <1>15 DEF T
<1> QED
    BY <1>11, <1>12, <1>16 DEF f, V

(* What is pushed of an OR list if every alternative can be pushed, and if *)
(* none can; with some of each it is what the order leaves of them.        *)
LEMMA PushedOrProperties ==
    ASSUME NEW n \in 0 .. Depth, NEW pushed \in Seq(Clauses[n] \cup {NULL}), pushed # <<>>
    PROVE  /\ PushedOr(pushed) \in Clauses[n + 1] \cup {NULL}
           /\ (\A p \in Range(pushed) : p = NULL) => PushedOr(pushed) = NULL
           /\ (\A p \in Range(pushed) : p # NULL) =>
                  /\ PushedOr(pushed) # NULL
                  /\ \A holds : IsTrue(PushedOr(pushed), holds)
                         <=> \E p \in Range(pushed) : IsTrue(p, holds)
<1> DEFINE S == Clauses[n]
           m == Len(pushed)
           f == Collection(pushed)
<1>1. n \in 0 .. Depth + 1 /\ n + 1 \in 0 .. Depth + 1 /\ n + 1 \in n .. Depth + 1
    BY ComparisonAssumption
<1>2. S \subseteq Clause /\ S \subseteq Clauses[n + 1] /\ Clauses[n + 1] \subseteq Clause
    BY <1>1, LevelsAreClauses, LevelsGrow
<1>3. NULL \notin S /\ NULL \notin Clauses[n + 1]
    BY <1>2, NullIsNoClause
<1>4. /\ m \in Nat \ {0} /\ DOMAIN pushed = 1 .. m
      /\ \A i \in 1 .. m : pushed[i] \in S \cup {NULL}
    BY LenProperties, EmptySeq
<1>5. /\ f[0] = NoneCollected
      /\ \A i \in 1 .. m : f[i] = CollectOr(f[i - 1], pushed[i])
      /\ \A i \in 0 .. m : f[i] \in Collected(S)
    BY CollectionStep
<1>6. PushedOr(pushed) = IF f[m].multiple # <<>> THEN Or(f[m].multiple) ELSE f[m].first
    BY PushedOrIs
<1> HIDE DEF f
<1>7. f[m].first \in S \cup {NULL} /\ f[m].multiple \in Seq(S)
    BY <1>4, <1>5 DEF Collected
<1>8. ASSUME f[m].multiple # <<>>
      PROVE  /\ Or(f[m].multiple) \in Clauses[n + 1]
             /\ Or(f[m].multiple).type = "Or"
             /\ Or(f[m].multiple).list = f[m].multiple
  <2>1. [type |-> "Or", list |-> f[m].multiple] \in Clauses[n + 1]
      BY <1>7, <1>8, ListOnLevel
  <2> QED
      BY <2>1 DEF Or
<1>9. PushedOr(pushed) \in Clauses[n + 1] \cup {NULL}
    BY <1>2, <1>6, <1>7, <1>8
<1>10. ASSUME \A p \in Range(pushed) : p = NULL
       PROVE  PushedOr(pushed) = NULL
  <2> DEFINE T == {i \in 0 .. m : f[i].first = NULL /\ f[i].multiple = <<>>}
  <2>1. 0 \in T
      BY <1>4, <1>5 DEF NoneCollected
  <2>2. ASSUME NEW i \in 0 + 1 .. m, i - 1 \in T
        PROVE  i \in T
    <3>1. i \in 1 .. m /\ i \in 0 .. m /\ i - 1 \in 0 .. m
        BY <1>4
    <3>2. pushed[i] = NULL
        BY <1>4, <1>10, <3>1 DEF Range
    <3>3. f[i] = CollectOr(f[i - 1], pushed[i]) /\ f[i - 1] \in Collected(S)
        BY <1>5, <3>1
    <3>4. /\ f[i - 1].first = NULL /\ f[i - 1].multiple = <<>>
        BY <2>2
    <3>5. CollectOr(f[i - 1], NULL) = f[i - 1]
        BY <3>3, <3>4, CollectNone
    <3>6. f[i].first = NULL /\ f[i].multiple = <<>>
        BY <3>2, <3>3, <3>4, <3>5
    <3> QED
        BY <3>1, <3>6
  <2> HIDE DEF T
  <2>3. 0 .. m \subseteq T
      BY <1>4, <2>1, <2>2, RangeInduction
  <2>4. m \in T
      BY <1>4, <2>3
  <2>5. f[m].first = NULL /\ f[m].multiple = <<>>
      BY <2>4 DEF T
  <2> QED
      BY <1>6, <2>5
<1>11. ASSUME \A p \in Range(pushed) : p # NULL
       PROVE  /\ PushedOr(pushed) # NULL
              /\ \A holds : IsTrue(PushedOr(pushed), holds)
                     <=> \E p \in Range(pushed) : IsTrue(p, holds)
  <2> DEFINE Upto(i) == {pushed[k] : k \in 1 .. i}
             T == {i \in 1 .. m :
                      /\ f[i].first = pushed[1]
                      /\ i = 1 => f[i].multiple = <<>>
                      /\ i > 1 => Range(f[i].multiple) = Upto(i)}
  <2>1. \A i \in 1 .. m : pushed[i] \in S /\ pushed[i] # NULL
      BY <1>4, <1>11 DEF Range
  <2>2. 1 \in T
    <3>1. 1 \in 1 .. m /\ 0 \in 0 .. m /\ 1 - 1 = 0
        BY <1>4
    <3>2. f[1] = CollectOr(f[0], pushed[1]) /\ f[0] \in Collected(S)
        BY <1>5, <3>1
    <3>3. f[0].first = NULL /\ f[0].multiple = <<>>
        BY <1>5 DEF NoneCollected
    <3>4. pushed[1] \in S /\ pushed[1] # NULL
        BY <2>1, <3>1
    <3>5. /\ CollectOr(f[0], pushed[1]).first = pushed[1]
          /\ CollectOr(f[0], pushed[1]).multiple = f[0].multiple
        BY <3>2, <3>3, <3>4, CollectFirst
    <3>6. f[1].first = pushed[1] /\ f[1].multiple = <<>>
        BY <3>2, <3>3, <3>5
    <3> QED
        BY <3>1, <3>6
  <2>3. ASSUME NEW i \in 1 + 1 .. m, i - 1 \in T
        PROVE  i \in T
    <3>1. i \in 1 .. m /\ i - 1 \in 0 .. m /\ i > 1 /\ i - 1 \in 1 .. m /\ 1 \in 1 .. m
        BY <1>4
    <3>2. f[i] = CollectOr(f[i - 1], pushed[i]) /\ f[i - 1] \in Collected(S)
        BY <1>5, <3>1
    <3>3. f[i - 1].first = pushed[1] /\ f[i - 1].first # NULL
        BY <2>1, <2>3, <3>1
    <3>4. /\ f[i].first = pushed[1]
          /\ f[i].multiple = f[i - 1].multiple \o <<pushed[1], pushed[i]>>
      <4>1. pushed[i] \in S /\ pushed[i] # NULL
          BY <2>1, <3>1
      <4> DEFINE acc == f[i - 1]
      <4>2. acc \in Collected(S) /\ acc.first # NULL
          BY <3>2, <3>3
      <4> HIDE DEF acc
      <4>3. /\ CollectOr(acc, pushed[i]).first = acc.first
            /\ CollectOr(acc, pushed[i]).multiple = acc.multiple \o <<acc.first, pushed[i]>>
          BY <4>1, <4>2, CollectOther
      <4> QED
          BY <3>2, <3>3, <4>3 DEF acc
    <3>5. f[i - 1].multiple \in Seq(S)
        BY <3>2 DEF Collected
    <3>6. <<pushed[1], pushed[i]>> \in Seq(S)
      <4>1. pushed[1] \in S /\ pushed[i] \in S
          BY <2>1, <3>1
      <4> QED
          BY <4>1, PairSeq
    <3>7. Range(<<pushed[1], pushed[i]>>) = {pushed[1], pushed[i]}
        BY DEF Range
    <3>8. Range(f[i].multiple) = Range(f[i - 1].multiple) \cup {pushed[1], pushed[i]}
      <4>1. Range(f[i - 1].multiple \o <<pushed[1], pushed[i]>>)
                = Range(f[i - 1].multiple) \cup Range(<<pushed[1], pushed[i]>>)
          BY <3>5, <3>6, ConcatRange
      <4> QED
          BY <3>4, <3>7, <4>1
    <3>9. Upto(i) = Upto(i - 1) \cup {pushed[1], pushed[i]}
      <4>1. 1 .. i = (1 .. i - 1) \cup {1, i}
          BY <3>1
      <4> QED
          BY <4>1
    <3>10. CASE i - 1 = 1
      <4>1. Range(f[i - 1].multiple) = {}
          BY <2>3, <3>10 DEF Range
      <4>2. Upto(i - 1) = {pushed[1]}
          BY <3>10
      <4> HIDE DEF Upto
      <4>3. Range(f[i].multiple) = Upto(i) /\ i # 1
          BY <3>1, <3>8, <3>9, <4>1, <4>2
      <4> QED
          BY <3>1, <3>4, <4>3
    <3>11. CASE i - 1 # 1
      <4>1. i - 1 > 1
          BY <3>1, <3>11
      <4>2. Range(f[i - 1].multiple) = Upto(i - 1)
          BY <2>3, <4>1
      <4>3. Range(f[i].multiple) = Upto(i) /\ i # 1
          BY <3>1, <3>8, <3>9, <4>2
      <4> HIDE DEF Upto
      <4> QED
          BY <3>1, <3>4, <4>3
    <3> QED
        BY <3>10, <3>11
  <2>4. m \in T
    <3> HIDE DEF T
    <3>1. 1 \in Nat /\ m \in Nat
        BY <1>4
    <3>2. 1 .. m \subseteq T
        BY <2>2, <2>3, <3>1, RangeInduction
    <3> QED
        BY <1>4, <3>2
  <2>5. Range(pushed) = Upto(m)
      BY <1>4 DEF Range
  <2>6. pushed[1] \in S /\ pushed[1] # NULL /\ pushed[1] \in Upto(m)
      BY <1>4, <2>1
  <2>7. CASE m = 1
    <3>1. PushedOr(pushed) = pushed[1]
        BY <1>6, <2>4, <2>7
    <3>2. Upto(m) = {pushed[1]}
        BY <2>7
    <3> QED
        BY <2>5, <2>6, <3>1, <3>2
  <2>8. CASE m # 1
    <3>1. m > 1
        BY <1>4, <2>8
    <3>2. Range(f[m].multiple) = Upto(m)
        BY <2>4, <3>1
    <3>3. f[m].multiple # <<>>
      <4>1. Range(<<>>) = {}
          BY DEF Range
      <4> QED
          BY <2>6, <3>2, <4>1
    <3>4. PushedOr(pushed) = Or(f[m].multiple) /\ Or(f[m].multiple) \in Clause
        BY <1>2, <1>6, <1>8, <3>3
    <3>5. PushedOr(pushed) # NULL
        BY <3>4, NullIsNoClause
    <3> HIDE DEF Upto
    <3>6. ASSUME NEW holds
          PROVE  IsTrue(PushedOr(pushed), holds) <=> \E p \in Range(pushed) : IsTrue(p, holds)
        BY <1>8, <2>5, <3>2, <3>3, <3>4, TrueOfParts
    <3> QED
        BY <3>5, <3>6
  <2> QED
      BY <2>7, <2>8
<1> QED
    BY <1>9, <1>10, <1>11

(* What is pushed of a list is NULL or on the level of the list.           *)
LEMMA PushedListProperties ==
    ASSUME NEW n \in 0 .. Depth, NEW type \in {"Single", "And", "Or"},
           NEW pushed \in Seq(Clauses[n] \cup {NULL}), pushed # <<>>
    PROVE  PushedList(type, pushed) \in Clauses[n + 1] \cup {NULL}
<1>1. CASE type = "Single"
  <2>1. Len(pushed) \in Nat \ {0}
      BY EmptySeq
  <2>2. pushed[1] \in Clauses[n] \cup {NULL}
      BY <2>1, ElementOfSeq
  <2>3. n \in 0 .. Depth + 1 /\ n + 1 \in n .. Depth + 1
      BY ComparisonAssumption
  <2>4. Clauses[n] \subseteq Clauses[n + 1]
      BY <2>3, LevelsGrow
  <2>5. PushedList(type, pushed) = pushed[1]
      BY <1>1 DEF PushedList
  <2> QED
      BY <2>2, <2>4, <2>5
<1>2. CASE type = "And"
    BY <1>2, PushedAndProperties DEF PushedList
<1>3. CASE type = "Or"
    BY <1>3, PushedOrProperties DEF PushedList
<1> QED
    BY <1>1, <1>2, <1>3

(* The recursive function of CreateSubExprForPushdown.                     *)
Pushdown(tables) ==
    CHOOSE part : part = [x \in Clause |->
        IF x.type = "Binary"
        THEN IF BinaryHasContext(x, tables) THEN x ELSE NULL
        ELSE PushedList(x.type, [i \in DOMAIN x.list |-> part[x.list[i]]])]

(* CreateSubExprForPushdown is the value of its recursive function.        *)
LEMMA CreateSubExprIsPushdown ==
    ASSUME NEW x, NEW tables
    PROVE  CreateSubExprForPushdown(x, tables) = Pushdown(tables)[x]
    BY Zenon DEF CreateSubExprForPushdown, Pushdown

(* What can be pushed of a clause is on its level, or NULL.                *)
OrNull == [x \in Clause |-> Clauses[Rank[x]] \cup {NULL}]

(* The function of CreateSubExprForPushdown obeys its equation.            *)
LEMMA PushdownIs ==
    ASSUME NEW tables
    PROVE  /\ Pushdown(tables) \in Typed(Clause, OrNull)
           /\ Pushdown(tables) = [x \in Clause |->
                  IF x.type = "Binary"
                  THEN IF BinaryHasContext(x, tables) THEN x ELSE NULL
                  ELSE PushedList(x.type, [i \in DOMAIN x.list |-> Pushdown(tables)[x.list[i]]])]
<1> DEFINE V == OrNull
           W == UNION {V[y] : y \in Clause}
           leaf(x) == IF BinaryHasContext(x, tables) THEN x ELSE NULL
           start == [x \in Clause |-> NULL]
           F == [p \in Clause \X Seq(W) |->
                    IF p[1].type = "Binary" THEN leaf(p[1]) ELSE PushedList(p[1].type, p[2])]
           Part == Pushdown(tables)
<1>1. \A x \in Clause :
          /\ V[x] = Clauses[Rank[x]] \cup {NULL}
          /\ x \in V[x] /\ NULL \in V[x] /\ leaf(x) \in V[x]
    BY RankLeast DEF OrNull, Least
<1>2. start = [x \in Clause |-> start[x]] /\ \A x \in Clause : start[x] = NULL
    OBVIOUS
<1>3. ASSUME NEW x \in Clause, NEW s \in Seq(W)
      PROVE  F[<<x, s>>] = IF x.type = "Binary" THEN leaf(x) ELSE PushedList(x.type, s)
    OBVIOUS
<1>4. Part = CHOOSE part : part = [x \in Clause |->
                 IF x.type = "Binary" THEN leaf(x)
                 ELSE PushedList(x.type, [i \in DOMAIN x.list |-> part[x.list[i]]])]
    BY Zenon DEF Pushdown
<1> HIDE DEF V, start, F, leaf, Part
<1>5. start \in Typed(Clause, V)
  <2>1. \A x \in Clause : start[x] \in V[x]
      BY <1>1, <1>2
  <2> QED
      BY <1>2, <2>1, TypedFunction, Zenon
<1>6. ASSUME NEW x \in Clause, NEW s, ForParts(s, x, V)
      PROVE  F[<<x, s>>] \in V[x]
  <2>1. s \in Seq(W)
      BY <1>6 DEF ForParts
  <2>2. CASE x.type = "Binary"
      BY <1>1, <1>3, <2>1, <2>2
  <2>3. CASE x.type # "Binary"
    <3> DEFINE C == Clauses[Rank[x] - 1]
    <3>1. /\ DOMAIN s = DOMAIN x.list
          /\ \A i \in DOMAIN x.list : s[i] \in V[x.list[i]]
        BY <1>6, <2>3 DEF ForParts
    <3>2. \A i \in DOMAIN x.list : x.list[i] \in Clause
        BY <2>3, Parts
    <3>3. \A i \in DOMAIN x.list : s[i] \in Clauses[Rank[x.list[i]]] \cup {NULL}
        BY <1>1, <3>1, <3>2
    <3>4. /\ Rank[x] - 1 \in 0 .. Depth
          /\ (Rank[x] - 1) + 1 = Rank[x]
          /\ \A i \in DOMAIN x.list : Clauses[Rank[x.list[i]]] \subseteq C
        BY <2>3, PartsBelow
    <3>5. /\ x.type \in {"Single", "And", "Or"}
          /\ DOMAIN x.list = 1 .. Len(x.list)
          /\ Len(x.list) \in Nat \ {0}
        BY <2>3, Parts DEF ListOver
    <3> HIDE DEF C
    <3>6. s \in [1 .. Len(x.list) -> C \cup {NULL}]
      <4>1. s = [i \in DOMAIN s |-> s[i]]
          BY <2>1
      <4>2. \A i \in DOMAIN x.list : s[i] \in C \cup {NULL}
          BY <3>3, <3>4
      <4> QED
          BY <3>1, <3>5, <4>1, <4>2
    <3>7. s \in Seq(C \cup {NULL}) /\ Len(s) = Len(x.list)
        BY <3>5, <3>6, Sequences
    <3>8. s # <<>>
        BY <3>5, <3>7
    <3>9. PushedList(x.type, s) \in Clauses[(Rank[x] - 1) + 1] \cup {NULL}
        BY <3>4, <3>5, <3>7, <3>8, PushedListProperties DEF C
    <3> QED
        BY <1>1, <1>3, <2>1, <2>3, <3>4, <3>9
  <2> QED
      BY <2>2, <2>3
<1>7. PICK part \in Typed(Clause, V) : FromParts(part, F)
    BY <1>5, <1>6, ClauseFunction
<1>8. ASSUME NEW f, NEW x \in Clause, ForParts(Through(f, x), x, V)
      PROVE  F[<<x, Through(f, x)>>] =
                 IF x.type = "Binary" THEN leaf(x)
                 ELSE PushedList(x.type, [i \in DOMAIN x.list |-> f[x.list[i]]])
  <2>1. Through(f, x) \in Seq(W)
      BY <1>8 DEF ForParts
  <2> QED
      BY <1>3, <2>1 DEF Through
<1>9. part = [x \in Clause |-> part[x]]
    BY TypedFunction
<1>10. \A x \in Clause :
           part[x] = IF x.type = "Binary" THEN leaf(x)
                     ELSE PushedList(x.type, [i \in DOMAIN x.list |-> part[x.list[i]]])
    BY <1>7, <1>8, ThroughForParts, Zenon DEF FromParts
<1>11. part = [x \in Clause |->
                  IF x.type = "Binary" THEN leaf(x)
                  ELSE PushedList(x.type, [i \in DOMAIN x.list |-> part[x.list[i]]])]
    BY <1>9, <1>10, Zenon
<1>12. Part = [x \in Clause |->
                  IF x.type = "Binary" THEN leaf(x)
                  ELSE PushedList(x.type, [i \in DOMAIN x.list |-> Part[x.list[i]]])]
    BY <1>11, <1>4, Zenon
<1>13. Part = [x \in Clause |-> Part[x]]
    BY <1>12
<1>14. \A x \in Clause :
           ForParts(Through(Part, x), x, V) => Part[x] = F[<<x, Through(Part, x)>>]
    BY <1>8, <1>12
<1>15. Part \in Typed(Clause, V)
    BY <1>6, <1>13, <1>14, ComputedIsTyped
<1> QED
    BY <1>12, <1>15 DEF V, Part, leaf

(* The part of a clause that a node can evaluate: no clause, or one with   *)
(* what can be pushed of its parts.                                        *)
LEMMA CreateSubExprOf ==
    ASSUME NEW tables, NEW x \in Clause
    PROVE  /\ CreateSubExprForPushdown(x, tables) \in Clause \cup {NULL}
           /\ x.type = "Binary" =>
                  CreateSubExprForPushdown(x, tables)
                      = IF BinaryHasContext(x, tables) THEN x ELSE NULL
           /\ x.type # "Binary" =>
                  \E n \in 0 .. Depth : \E pushed \in Seq(Clauses[n] \cup {NULL}) :
                      /\ pushed # <<>>
                      /\ DOMAIN pushed = DOMAIN x.list
                      /\ \A i \in DOMAIN x.list :
                             pushed[i] = CreateSubExprForPushdown(x.list[i], tables)
                      /\ CreateSubExprForPushdown(x, tables) = PushedList(x.type, pushed)
<1> DEFINE Part == Pushdown(tables)
           leaf(y) == IF BinaryHasContext(y, tables) THEN y ELSE NULL
<1>1. \A y : CreateSubExprForPushdown(y, tables) = Part[y]
    BY CreateSubExprIsPushdown
<1>2. /\ Part \in Typed(Clause, OrNull)
      /\ Part = [y \in Clause |->
                    IF y.type = "Binary" THEN leaf(y)
                    ELSE PushedList(y.type, [i \in DOMAIN y.list |-> Part[y.list[i]]])]
    BY PushdownIs, Zenon
<1> HIDE DEF Part, leaf
<1>3. Part[x] = IF x.type = "Binary" THEN leaf(x)
                ELSE PushedList(x.type, [i \in DOMAIN x.list |-> Part[x.list[i]]])
    BY <1>2
<1>4. \A y \in Clause : Part[y] \in Clauses[Rank[y]] \cup {NULL}
    BY <1>2, TypedFunction DEF OrNull
<1>5. Part[x] \in Clause \cup {NULL}
  <2>1. Clauses[Rank[x]] \subseteq Clause
      BY RankLeast, LevelsAreClauses
  <2> QED
      BY <1>4, <2>1
<1>6. ASSUME x.type # "Binary"
      PROVE  \E n \in 0 .. Depth : \E pushed \in Seq(Clauses[n] \cup {NULL}) :
                      /\ pushed # <<>>
                      /\ DOMAIN pushed = DOMAIN x.list
                      /\ \A i \in DOMAIN x.list : pushed[i] = Part[x.list[i]]
                      /\ Part[x] = PushedList(x.type, pushed)
  <2> DEFINE n == Rank[x] - 1
             C == Clauses[n] \cup {NULL}
             pushed == [i \in DOMAIN x.list |-> Part[x.list[i]]]
  <2>1. /\ n \in 0 .. Depth
        /\ \A i \in DOMAIN x.list : Clauses[Rank[x.list[i]]] \subseteq Clauses[n]
      BY <1>6, PartsBelow
  <2>2. /\ DOMAIN x.list = 1 .. Len(x.list)
        /\ Len(x.list) \in Nat \ {0}
        /\ \A i \in DOMAIN x.list : x.list[i] \in Clause
      BY <1>6, Parts
  <2>3. \A i \in DOMAIN x.list : Part[x.list[i]] \in C
      BY <1>4, <2>1, <2>2
  <2> HIDE DEF C
  <2>4. pushed \in [1 .. Len(x.list) -> C]
      BY <2>2, <2>3
  <2>5. DOMAIN pushed = DOMAIN x.list /\ \A i \in DOMAIN x.list : pushed[i] = Part[x.list[i]]
      OBVIOUS
  <2>6. Part[x] = PushedList(x.type, pushed)
      BY <1>3, <1>6
  <2> HIDE DEF pushed, n
  <2>7. pushed \in Seq(C) /\ Len(pushed) = Len(x.list)
      BY <2>2, <2>4, Sequences
  <2>8. pushed # <<>>
      BY <2>2, <2>7
  <2> QED
      BY <2>1, <2>5, <2>6, <2>7, <2>8 DEF C
<1>7. x.type = "Binary" => Part[x] = IF BinaryHasContext(x, tables) THEN x ELSE NULL
    BY <1>3 DEF leaf
<1> QED
    BY <1>1, <1>5, <1>6, <1>7, Zenon

(* A node can evaluate a clause as a whole if it has the tables of all its *)
(* comparisons.                                                            *)
LEMMA WholeClausePushed ==
    ASSUME NEW tables, NEW e \in Clause, \A c \in Comparisons(e) : c.tables \subseteq tables
    PROVE  /\ CreateSubExprForPushdown(e, tables) # NULL
           /\ \A holds : IsTrue(CreateSubExprForPushdown(e, tables), holds) <=> IsTrue(e, holds)
<1> DEFINE part(x) == CreateSubExprForPushdown(x, tables)
           Within(x) == \A c \in Comparisons(x) : c.tables \subseteq tables
           T == {x \in Clause : Within(x) =>
                    /\ part(x) # NULL
                    /\ \A holds : IsTrue(part(x), holds) <=> IsTrue(x, holds)}
<1> HIDE DEF part
<1>1. ASSUME NEW x \in Clause,
             x.type # "Binary" => \A i \in DOMAIN x.list : x.list[i] \in T
      PROVE  x \in T
  <2> SUFFICES ASSUME Within(x)
               PROVE  /\ part(x) # NULL
                      /\ \A holds : IsTrue(part(x), holds) <=> IsTrue(x, holds)
      OBVIOUS
  <2>1. CASE x.type = "Binary"
    <3>1. BinaryHasContext(x, tables)
        BY <2>1, ComparisonsOf DEF BinaryHasContext
    <3>2. part(x) = x
        BY <2>1, <3>1, CreateSubExprOf DEF part
    <3> QED
        BY <3>2, NullIsNoClause
  <2>2. CASE x.type # "Binary"
    <3>1. PICK n \in 0 .. Depth : \E pushed \in Seq(Clauses[n] \cup {NULL}) :
                      /\ pushed # <<>>
                      /\ DOMAIN pushed = DOMAIN x.list
                      /\ \A i \in DOMAIN x.list : pushed[i] = part(x.list[i])
                      /\ part(x) = PushedList(x.type, pushed)
        BY <2>2, CreateSubExprOf DEF part
    <3>2. PICK pushed \in Seq(Clauses[n] \cup {NULL}) :
                      /\ pushed # <<>>
                      /\ DOMAIN pushed = DOMAIN x.list
                      /\ \A i \in DOMAIN x.list : pushed[i] = part(x.list[i])
                      /\ part(x) = PushedList(x.type, pushed)
        BY <3>1
    <3>3. /\ x.type \in {"Single", "And", "Or"}
          /\ x.type = "Single" => DOMAIN x.list = 1 .. 1
          /\ 1 \in DOMAIN x.list
        BY <2>2, Parts DEF ListOver
    <3>4. \A i \in DOMAIN x.list : Within(x.list[i])
        BY <2>2, ComparisonsOf
    <3>5. \A i \in DOMAIN x.list :
              /\ pushed[i] # NULL
              /\ \A holds : IsTrue(pushed[i], holds) <=> IsTrue(x.list[i], holds)
        BY <1>1, <2>2, <3>2, <3>4
    <3>6. (\A p \in Range(pushed) : p # NULL) /\ Range(pushed) # {}
        BY <3>2, <3>3, <3>5 DEF Range
    <3>7. CASE x.type = "Single"
      <4>1. part(x) = pushed[1]
          BY <3>2, <3>7 DEF PushedList
      <4>2. ASSUME NEW holds
            PROVE  IsTrue(x, holds) <=> IsTrue(x.list[1], holds)
          BY <3>3, <3>7, TrueOf
      <4>3. part(x) # NULL
          BY <3>3, <3>5, <4>1
      <4>4. \A holds : IsTrue(part(x), holds) <=> IsTrue(x, holds)
          BY <3>3, <3>5, <4>1, <4>2
      <4> QED
          BY <4>3, <4>4
    <3>8. CASE x.type = "And"
      <4>1. part(x) = PushedAnd(pushed)
          BY <3>2, <3>8 DEF PushedList
      <4>2. part(x) # NULL
          BY <3>6, <4>1, PushedAndProperties
      <4>3. ASSUME NEW holds
            PROVE  IsTrue(part(x), holds) <=> IsTrue(x, holds)
        <5>1. IsTrue(part(x), holds) <=> \A p \in Range(pushed) \ {NULL} : IsTrue(p, holds)
            BY <4>1, <4>2, PushedAndProperties
        <5>2. IsTrue(part(x), holds) <=> \A i \in DOMAIN pushed : IsTrue(pushed[i], holds)
            BY <3>6, <5>1 DEF Range
        <5>3. IsTrue(x, holds) <=> \A i \in DOMAIN x.list : IsTrue(x.list[i], holds)
            BY <3>8, TrueOf
        <5> QED
            BY <3>2, <3>5, <5>2, <5>3
      <4> QED
          BY <4>2, <4>3
    <3>9. CASE x.type = "Or"
      <4>1. part(x) = PushedOr(pushed)
          BY <3>2, <3>9 DEF PushedList
      <4>2. part(x) # NULL
          BY <3>2, <3>6, <4>1, PushedOrProperties
      <4>3. ASSUME NEW holds
            PROVE  IsTrue(part(x), holds) <=> IsTrue(x, holds)
        <5>1. IsTrue(part(x), holds) <=> \E p \in Range(pushed) : IsTrue(p, holds)
            BY <3>2, <3>6, <4>1, PushedOrProperties
        <5>2. IsTrue(part(x), holds) <=> \E i \in DOMAIN pushed : IsTrue(pushed[i], holds)
            BY <5>1 DEF Range
        <5>3. IsTrue(x, holds) <=> \E i \in DOMAIN x.list : IsTrue(x.list[i], holds)
            BY <3>9, TrueOf
        <5> QED
            BY <3>2, <3>5, <5>2, <5>3
      <4> QED
          BY <4>2, <4>3
    <3> QED
        BY <3>3, <3>7, <3>8, <3>9
  <2> QED
      BY <2>1, <2>2
<1> HIDE DEF T
<1>2. Clause \subseteq T
    BY <1>1, ClauseInduction
<1> QED
    BY <1>2 DEF T, part

(* The part of x that a node evaluates is there, and lets no row through   *)
(* that c would not.                                                       *)
Guards(x, tables, c) ==
    /\ CreateSubExprForPushdown(x, tables) # NULL
    /\ \A holds : IsTrue(CreateSubExprForPushdown(x, tables), holds) => IsTrue(c, holds)

(* An AND list guards what one of its parts does, an OR list what all its  *)
(* parts do.                                                               *)
LEMMA ListGuards ==
    ASSUME NEW x \in Clause, NEW tables, NEW c,
           \/ x.type = "And" /\ \E e \in Range(x.list) : Guards(e, tables, c)
           \/ x.type = "Or" /\ \A e \in Range(x.list) : Guards(e, tables, c)
    PROVE  Guards(x, tables, c)
<1> DEFINE part(y) == CreateSubExprForPushdown(y, tables)
<1> HIDE DEF part
<1>1. x.type # "Binary"
    OBVIOUS
<1>2. PICK n \in 0 .. Depth : \E pushed \in Seq(Clauses[n] \cup {NULL}) :
                  /\ pushed # <<>>
                  /\ DOMAIN pushed = DOMAIN x.list
                  /\ \A i \in DOMAIN x.list : pushed[i] = part(x.list[i])
                  /\ part(x) = PushedList(x.type, pushed)
    BY <1>1, CreateSubExprOf DEF part
<1>3. PICK pushed \in Seq(Clauses[n] \cup {NULL}) :
                  /\ pushed # <<>>
                  /\ DOMAIN pushed = DOMAIN x.list
                  /\ \A i \in DOMAIN x.list : pushed[i] = part(x.list[i])
                  /\ part(x) = PushedList(x.type, pushed)
    BY <1>2
<1>4. CASE x.type = "And"
  <2>1. PICK i \in DOMAIN x.list : Guards(x.list[i], tables, c)
      BY <1>4 DEF Range
  <2>2. /\ pushed[i] \in Range(pushed) \ {NULL}
        /\ \A holds : IsTrue(pushed[i], holds) => IsTrue(c, holds)
      BY <1>3, <2>1 DEF Guards, Range, part
  <2>3. part(x) = PushedAnd(pushed)
      BY <1>3, <1>4 DEF PushedList
  <2>4. part(x) # NULL
      BY <2>2, <2>3, PushedAndProperties
  <2>5. \A holds : IsTrue(part(x), holds)
                       <=> \A p \in Range(pushed) \ {NULL} : IsTrue(p, holds)
      BY <2>3, <2>4, PushedAndProperties
  <2> QED
      BY <2>2, <2>4, <2>5 DEF Guards, part
<1>5. CASE x.type = "Or"
  <2>1. \A i \in DOMAIN x.list : Guards(x.list[i], tables, c)
      BY <1>5 DEF Range
  <2>2. \A p \in Range(pushed) :
            p # NULL /\ \A holds : IsTrue(p, holds) => IsTrue(c, holds)
      BY <1>3, <2>1 DEF Guards, Range, part
  <2>3. part(x) = PushedOr(pushed)
      BY <1>3, <1>5 DEF PushedList
  <2>4. /\ part(x) # NULL
        /\ \A holds : IsTrue(part(x), holds) <=> \E p \in Range(pushed) : IsTrue(p, holds)
      BY <1>3, <2>2, <2>3, PushedOrProperties
  <2> QED
      BY <2>2, <2>4 DEF Guards, part
<1> QED
    BY <1>4, <1>5

(* What a node is given of the normal form of a clause guards every        *)
(* conjunct of the clause whose tables the node has: AND distributed over  *)
(* OR has an alternative of the conjunct in each of its lists.             *)
LEMMA ConjunctGuarded ==
    ASSUME NEW e \in Clauses[Depth], NEW tables, NEW c,
           \/ e.type = "And" /\ c \in Range(e.list)
           \/ e.type # "And" /\ c = e,
           \A b \in Comparisons(c) : b.tables \subseteq tables
    PROVE  Guards(TransformToCNF(e), tables, c)
<1> DEFINE flat == Flatten(e)
           cnf == TransformToCNF(e)
           lists == Combinations(flat.list)
<1>1. e \in Clause
    BY ComparisonAssumption, LevelsAreClauses
<1>2. /\ flat \in Clause /\ flat.type = e.type /\ Comparisons(flat) = Comparisons(e)
      /\ \A holds : IsTrue(flat, holds) <=> IsTrue(e, holds)
    BY <1>1, FlattenOf, FlattenKeepsComparisons, FlattenKeepsMeaning
<1>3. cnf \in Clause
    BY TransformShape
<1>4. CASE e.type # "And"
  <2>1. cnf = flat
      BY <1>2, <1>4, TransformShape
  <2>2. \A b \in Comparisons(flat) : b.tables \subseteq tables
      BY <1>2, <1>4
  <2> HIDE DEF flat
  <2>3. Guards(flat, tables, e)
      BY <1>2, <2>2, WholeClausePushed DEF Guards
  <2> QED
      BY <1>4, <2>1, <2>3
<1>5. CASE e.type = "And"
  <2>1. PICK i \in DOMAIN e.list : c = e.list[i]
      BY <1>5 DEF Range
  <2>2. c \in Clause
      BY <1>1, <1>5, <2>1, Parts
  <2> DEFINE fc == Flatten(c)
             D == IF fc.type = "And" THEN Range(fc.list) ELSE {fc}
  <2>3. /\ fc \in Clause /\ Comparisons(fc) = Comparisons(c)
        /\ \A holds : IsTrue(fc, holds) <=> IsTrue(c, holds)
      BY <2>2, FlattenOf, FlattenKeepsComparisons, FlattenKeepsMeaning
  <2>4. D \subseteq Range(flat.list)
    <3>1. IF fc.type = e.type THEN Range(fc.list) \subseteq Range(flat.list)
          ELSE fc \in Range(flat.list)
        BY <1>1, <1>5, <2>1, FlattenedParts
    <3> QED
        BY <1>5, <3>1
  <2> HIDE DEF fc, flat
  <2>5. /\ \A d \in D : d \in Clause /\ \A b \in Comparisons(d) : b.tables \subseteq tables
        /\ \A holds : (\A d \in D : IsTrue(d, holds)) => IsTrue(c, holds)
    <3>1. CASE fc.type = "And"
      <4>1. /\ \A d \in Range(fc.list) : d \in Clause /\ Comparisons(d) \subseteq Comparisons(fc)
            /\ \A holds : IsTrue(fc, holds) <=> \A d \in Range(fc.list) : IsTrue(d, holds)
          BY <2>3, <3>1, ComparisonsOfParts, TrueOfParts
      <4> QED
          BY <2>3, <3>1, <4>1
    <3>2. CASE fc.type # "And"
        BY <2>3, <3>2
    <3> QED
        BY <3>1, <3>2
  <2> HIDE DEF D
  <2>6. ASSUME NEW d \in D
        PROVE  Guards(cnf, tables, d)
    <3>1. d \in Clause /\ \A b \in Comparisons(d) : b.tables \subseteq tables
        BY <2>5
    <3>2. CASE cnf = flat
      <4>1. Guards(d, tables, d)
          BY <3>1, WholeClausePushed DEF Guards
      <4>2. Guards(flat, tables, d)
          BY <1>2, <1>5, <2>4, <4>1, ListGuards
      <4> QED
          BY <3>2, <4>2
    <3>3. CASE cnf # flat
      <4>1. /\ cnf.type = "Or"
            /\ \A x \in Range(cnf.list) :
                   x \in Clause /\ x.type = "And" /\ x.list \in Range(lists)
          BY <3>3, TransformShape DEF flat
      <4>2. PICK n \in 0 .. Depth : flat.list \in Seq(Clauses[n])
          BY <1>2, <1>5, TransformShape DEF flat
      <4>3. n \in 0 .. Depth + 1
          BY ComparisonAssumption
      <4>4. \A l \in Range(lists) : \E a \in Range(Alternatives(d)) : a \in Range(l)
          BY <2>4, <4>2, <4>3, CombinationsCover
      <4>5. d \in Clauses[n]
        <5>1. PICK k \in DOMAIN flat.list : d = flat.list[k]
            BY <2>4 DEF Range
        <5> QED
            BY <4>2, <5>1, LenProperties
      <4>6. ASSUME NEW a \in Range(Alternatives(d))
            PROVE  Guards(a, tables, d)
        <5>1. a \in Clause /\ Comparisons(a) \subseteq Comparisons(d)
            BY <3>1, AlternativesComparisons
        <5>2. \A b \in Comparisons(a) : b.tables \subseteq tables
            BY <3>1, <5>1
        <5>3. \A holds : IsTrue(a, holds) => IsTrue(d, holds)
            BY <4>3, <4>5, AlternativesProperties
        <5> QED
            BY <5>1, <5>2, <5>3, WholeClausePushed DEF Guards
      <4> HIDE DEF cnf, lists
      <4>7. ASSUME NEW x \in Range(cnf.list)
            PROVE  Guards(x, tables, d)
        <5>1. x \in Clause /\ x.type = "And"
            BY <4>1
        <5>2. PICK a \in Range(Alternatives(d)) : a \in Range(x.list)
            BY <4>1, <4>4
        <5> QED
            BY <4>6, <5>1, <5>2, ListGuards
      <4> QED
          BY <1>3, <4>1, <4>7, ListGuards
    <3> QED
        BY <3>2, <3>3
  <2>7. D # {}
    <3>1. CASE fc.type = "And"
      <4>1. 1 \in DOMAIN fc.list
          BY <2>3, <3>1, Parts
      <4> QED
          BY <3>1, <4>1 DEF D, Range
    <3>2. CASE fc.type # "And"
        BY <3>2 DEF D
    <3> QED
        BY <3>1, <3>2
  <2> QED
      BY <2>5, <2>6, <2>7 DEF Guards
<1> QED
    BY <1>4, <1>5
=============================================================================
