----------------------------- MODULE BindingProofs -----------------------------
(***************************************************************************)
(* Proofs of the properties of Binding, for all tables, rows, indexes and  *)
(* texts. Three invariants carry them, each on the one before: CallInv,    *)
(* what the statement and the plan are to the text; RowsInv, the rows that *)
(* are kept, the catalog and the context; PassInv, that the rows pass the  *)
(* clause as it was written.                                               *)
(***************************************************************************)
EXTENDS Binding, BooleanExprProofs

(* Of the trees whose lists have these parts: what the lists look like.    *)
TreeList(x, parts) ==
    /\ x.type \in {"And", "Or"}
    /\ x.negated \in BOOLEAN
    /\ x.list \in Seq(parts)
    /\ x.list # <<>>

(* The trees of one level more than the parts.                             *)
TreesOver(parts) ==
    Test \cup parts \cup [type : {"And", "Or"}, negated : BOOLEAN,
                          list : Seq(parts) \ {<<>>}]

(* The levels of trees obey the equation they are defined by.              *)
LEMMA TreeLevels ==
    /\ Trees[0] = {}
    /\ \A n \in 1 .. Depth : Trees[n] = TreesOver(Trees[n - 1])
<1> DEFINE Built(g, n) ==
               g = [m \in 0 .. n |-> IF m = 0 THEN {} ELSE TreesOver(g[m - 1])]
           T == {n \in Nat : \E g : Built(g, n)}
<1>1. 0 \in T
  <2> DEFINE g == [m \in 0 .. 0 |-> {}]
  <2>1. Built(g, 0)
      OBVIOUS
  <2> QED
      BY <2>1
<1>2. ASSUME NEW n \in Nat, n \in T
      PROVE  n + 1 \in T
  <2>1. PICK g : Built(g, n)
      BY <1>2
  <2> DEFINE h == [m \in 0 .. n + 1 |-> IF m = 0 THEN {} ELSE TreesOver(g[m - 1])]
  <2>2. ASSUME NEW m \in 0 .. n
        PROVE  h[m] = g[m]
    <3>1. h[m] = IF m = 0 THEN {} ELSE TreesOver(g[m - 1])
        OBVIOUS
    <3>2. g[m] = IF m = 0 THEN {} ELSE TreesOver(g[m - 1])
        BY <2>1
    <3> QED
        BY <3>1, <3>2
  <2>3. \A m \in 0 .. n + 1 : m # 0 => h[m - 1] = g[m - 1]
    <3>1. \A m \in 0 .. n + 1 : m # 0 => m - 1 \in 0 .. n
        OBVIOUS
    <3> QED
        BY <2>2, <3>1
  <2>4. Built(h, n + 1)
      BY <2>3
  <2> HIDE DEF Built
  <2>5. n + 1 \in Nat
      OBVIOUS
  <2> QED
      BY <2>4, <2>5
<1> HIDE DEF T
<1>3. Depth \in T
    BY <1>1, <1>2, NaturalInduction, ComparisonAssumption
<1>4. \E g : Built(g, Depth)
    BY <1>3 DEF T
<1>5. Built(Trees, Depth)
    BY <1>4 DEF Trees, TreesOver
<1>6. \A m \in 0 .. Depth : Trees[m] = IF m = 0 THEN {} ELSE TreesOver(Trees[m - 1])
    BY <1>5
<1> HIDE DEF Built
<1> QED
    BY <1>6, ComparisonAssumption

(* A level has all that the levels below it have.                          *)
LEMMA TreeLevelsGrow ==
    ASSUME NEW m \in 0 .. Depth, NEW n \in m .. Depth
    PROVE  Trees[m] \subseteq Trees[n]
<1> DEFINE T == {k \in m .. Depth : Trees[m] \subseteq Trees[k]}
<1>1. m \in T
    BY ComparisonAssumption
<1>2. ASSUME NEW i \in m + 1 .. Depth, i - 1 \in T
      PROVE  i \in T
  <2>1. i \in 1 .. Depth
      BY ComparisonAssumption
  <2>2. Trees[i] = TreesOver(Trees[i - 1])
      BY <2>1, TreeLevels
  <2>3. Trees[i - 1] \subseteq Trees[i]
      BY <2>2 DEF TreesOver
  <2> QED
      BY <1>2, <2>3
<1> HIDE DEF T
<1>3. m .. Depth \subseteq T
    BY <1>1, <1>2, RangeInduction, ComparisonAssumption
<1> QED
    BY <1>3 DEF T

(* The least level a tree is on.                                           *)
LeastTree(x, n) == /\ x \in Trees[n]
                   /\ \A m \in 0 .. Depth : x \in Trees[m] => n <= m

(* The least level of each tree.                                           *)
TreeRank == [x \in Tree |-> CHOOSE n \in 0 .. Depth : LeastTree(x, n)]

(* Every tree has one.                                                     *)
LEMMA TreeRankLeast ==
    ASSUME NEW x \in Tree
    PROVE  TreeRank[x] \in 1 .. Depth /\ LeastTree(x, TreeRank[x])
<1> DEFINE U == {n \in 0 .. Depth : x \in Trees[n]}
<1>1. Depth \in U
    BY ComparisonAssumption DEF Tree
<1>2. PICK n \in U : \A m \in U : n <= m
  <2>1. U \subseteq Nat /\ U # {}
      BY <1>1
  <2> HIDE DEF U
  <2> QED
      BY <2>1, LeastNatural
<1>3. LeastTree(x, n)
    BY <1>2 DEF LeastTree
<1>4. \E k \in 0 .. Depth : LeastTree(x, k)
    BY <1>3
<1>5. TreeRank[x] = CHOOSE k \in 0 .. Depth : LeastTree(x, k)
    BY DEF TreeRank
<1>6. TreeRank[x] \in 0 .. Depth /\ LeastTree(x, TreeRank[x])
    BY <1>4, <1>5, Zenon
<1>7. TreeRank[x] # 0
    BY <1>6, TreeLevels DEF LeastTree
<1> QED
    BY <1>6, <1>7, ComparisonAssumption

(* A tree is a test, or a list of parts of a lower rank.                   *)
LEMMA TreeParts ==
    ASSUME NEW x \in Tree
    PROVE  /\ x.type = "Test" => x \in Test
           /\ x.type # "Test" =>
                  /\ TreeRank[x] \in 2 .. Depth
                  /\ TreeList(x, Tree)
                  /\ Len(x.list) \in Nat \ {0}
                  /\ DOMAIN x.list = 1 .. Len(x.list)
                  /\ \A i \in DOMAIN x.list :
                         /\ x.list[i] \in Tree
                         /\ TreeRank[x.list[i]] \in 1 .. TreeRank[x] - 1
<1> DEFINE r == TreeRank[x]
           parts == Trees[r - 1]
<1>1. r \in 1 .. Depth /\ r - 1 \in 0 .. Depth /\ LeastTree(x, r)
    BY TreeRankLeast, ComparisonAssumption
<1>2. x \in TreesOver(parts)
    BY <1>1, TreeLevels DEF LeastTree
<1>3. x \notin parts
    BY <1>1 DEF LeastTree
<1>4. CASE x \in Test
    BY <1>4 DEF Test
<1>5. CASE x \notin Test
  <2>1. x \in [type : {"And", "Or"}, negated : BOOLEAN, list : Seq(parts) \ {<<>>}]
      BY <1>2, <1>3, <1>5 DEF TreesOver
  <2>2. TreeList(x, parts)
      BY <2>1 DEF TreeList
  <2>3. Depth \in r - 1 .. Depth
      BY <1>1, ComparisonAssumption
  <2>4. parts \subseteq Tree
      BY <1>1, <2>3, TreeLevelsGrow DEF Tree
  <2>5. x.list \in Seq(parts) /\ x.list # <<>>
      BY <2>2 DEF TreeList
  <2> HIDE DEF parts
  <2>6. x.list \in Seq(Tree)
      BY <2>4, <2>5, SeqMonotonic
  <2>7. Len(x.list) \in Nat \ {0} /\ DOMAIN x.list = 1 .. Len(x.list)
      BY <2>5, EmptySeq, LenProperties
  <2>8. ASSUME NEW i \in DOMAIN x.list
        PROVE  x.list[i] \in Tree /\ TreeRank[x.list[i]] \in 1 .. r - 1
    <3>1. x.list[i] \in parts
        BY <2>5, <2>7, ElementOfSeq
    <3>2. x.list[i] \in Tree
        BY <2>4, <3>1
    <3>3. TreeRank[x.list[i]] \in 1 .. Depth /\ LeastTree(x.list[i], TreeRank[x.list[i]])
        BY <3>2, TreeRankLeast
    <3>4. TreeRank[x.list[i]] <= r - 1
        BY <1>1, <3>1, <3>3 DEF LeastTree, parts
    <3> QED
        BY <1>1, <3>2, <3>3, <3>4
  <2>9. r \in 2 .. Depth
    <3>1. 1 \in DOMAIN x.list
        BY <2>7
    <3>2. TreeRank[x.list[1]] \in 1 .. r - 1
        BY <2>8, <3>1
    <3> QED
        BY <1>1, <3>2, ComparisonAssumption
  <2>10. x.type # "Test" /\ TreeList(x, Tree)
      BY <2>2, <2>6 DEF TreeList
  <2> QED
      BY <2>7, <2>8, <2>9, <2>10
<1> QED
    BY <1>4, <1>5

(* Induction over trees.                                                   *)
LEMMA TreeInduction ==
    ASSUME NEW T,
           \A x \in Tree :
               (x.type # "Test" => \A i \in DOMAIN x.list : x.list[i] \in T) => x \in T
    PROVE  Tree \subseteq T
<1> DEFINE U == {n \in Nat : \A x \in Tree : TreeRank[x] = n => x \in T}
<1>1. ASSUME NEW n \in Nat, \A m \in Nat : m < n => m \in U
      PROVE  n \in U
  <2> SUFFICES ASSUME NEW x \in Tree, TreeRank[x] = n
               PROVE  x \in T
      OBVIOUS
  <2>1. ASSUME x.type # "Test", NEW i \in DOMAIN x.list
        PROVE  x.list[i] \in T
    <3>1. x.list[i] \in Tree /\ TreeRank[x.list[i]] < n /\ TreeRank[x.list[i]] \in Nat
        BY <2>1, TreeParts
    <3> QED
        BY <1>1, <3>1
  <2> QED
      BY <2>1
<1> HIDE DEF U
<1>2. Nat \subseteq U
    BY <1>1, StrongInduction
<1>3. \A x \in Tree : TreeRank[x] \in Nat
    BY TreeRankLeast
<1> QED
    BY <1>2, <1>3 DEF U

(* What a function gives for the parts of a tree.                          *)
TreeThrough(f, x) == IF x.type = "Test" THEN <<>> ELSE [i \in DOMAIN x.list |-> f[x.list[i]]]

(* A list of values for the parts of x.                                    *)
TreeForParts(s, x, V) ==
    /\ s \in Seq(UNION {V[y] : y \in Tree})
    /\ x.type # "Test" =>
           /\ DOMAIN s = DOMAIN x.list
           /\ \A i \in DOMAIN x.list : s[i] \in V[x.list[i]]

(* f is computed from its values for the parts of a tree.                  *)
TreeFromParts(f, F) == \A x \in Tree : f[x] = F[<<x, TreeThrough(f, x)>>]

(* The values of a function for the parts of a tree are a list of the      *)
(* right values if each is.                                                *)
LEMMA TreeThroughIsForParts ==
    ASSUME NEW V, NEW f, NEW x \in Tree,
           x.type # "Test" => \A i \in DOMAIN x.list : f[x.list[i]] \in V[x.list[i]]
    PROVE  TreeForParts(TreeThrough(f, x), x, V)
<1> DEFINE W == UNION {V[y] : y \in Tree}
<1>1. CASE x.type = "Test"
  <2>1. TreeThrough(f, x) = <<>>
      BY <1>1 DEF TreeThrough
  <2>2. <<>> \in Seq(W)
      BY EmptySeq
  <2> QED
      BY <1>1, <2>1, <2>2 DEF TreeForParts
<1>2. CASE x.type # "Test"
  <2>1. TreeThrough(f, x) = [i \in DOMAIN x.list |-> f[x.list[i]]]
      BY <1>2 DEF TreeThrough
  <2>2. \A i \in DOMAIN x.list : f[x.list[i]] \in V[x.list[i]]
      BY <1>2
  <2>3. \A i \in DOMAIN x.list : x.list[i] \in Tree
      BY <1>2, TreeParts
  <2>4. Len(x.list) \in Nat /\ DOMAIN x.list = 1 .. Len(x.list)
      BY <1>2, TreeParts
  <2>5. \A y \in Tree : V[y] \subseteq W
      OBVIOUS
  <2> HIDE DEF W
  <2>6. TreeThrough(f, x) \in [1 .. Len(x.list) -> W]
      BY <2>1, <2>2, <2>3, <2>4, <2>5
  <2>7. TreeThrough(f, x) \in Seq(W)
      BY <2>4, <2>6, Sequences
  <2> QED
      BY <1>2, <2>1, <2>2, <2>3, <2>7 DEF W, TreeForParts
<1> QED
    BY <1>1, <1>2

(* So they are when the function has the right value everywhere.           *)
LEMMA TreeThroughForParts ==
    ASSUME NEW V, NEW f \in Typed(Tree, V), NEW x \in Tree
    PROVE  TreeForParts(TreeThrough(f, x), x, V)
<1>1. \A y \in Tree : f[y] \in V[y]
    BY TypedFunction
<1>2. x.type # "Test" => \A i \in DOMAIN x.list : f[x.list[i]] \in V[x.list[i]]
    BY <1>1, TreeParts
<1> QED
    BY <1>2, TreeThroughIsForParts

(* What is computed for a tree from what it is for the parts is there.     *)
LEMMA TreeFunction ==
    ASSUME NEW V, NEW start \in Typed(Tree, V), NEW F,
           \A x \in Tree : \A s : TreeForParts(s, x, V) => F[<<x, s>>] \in V[x]
    PROVE  \E f \in Typed(Tree, V) : TreeFromParts(f, F)
<1> DEFINE G == [p \in Tree \X Typed(Tree, V) |-> F[<<p[1], TreeThrough(p[2], p[1])>>]]
<1>1. \A x \in Tree : \A g \in Typed(Tree, V) : G[<<x, g>>] = F[<<x, TreeThrough(g, x)>>]
    OBVIOUS
<1> HIDE DEF G
<1>2. ASSUME NEW x \in Tree, NEW g \in Typed(Tree, V)
      PROVE  G[<<x, g>>] \in V[x]
  <2>1. TreeForParts(TreeThrough(g, x), x, V)
      BY TreeThroughForParts
  <2>2. F[<<x, TreeThrough(g, x)>>] \in V[x]
      BY <2>1
  <2> QED
      BY <1>1, <2>2
<1>3. DependsOnLower(Tree, V, TreeRank, G)
  <2> SUFFICES ASSUME NEW x \in Tree, NEW g \in Typed(Tree, V), NEW h \in Typed(Tree, V),
                      \A y \in Tree : TreeRank[y] < TreeRank[x] => g[y] = h[y]
               PROVE  G[<<x, g>>] = G[<<x, h>>]
      BY DEF DependsOnLower
  <2>1. ASSUME x.type # "Test"
        PROVE  \A i \in DOMAIN x.list : g[x.list[i]] = h[x.list[i]]
      BY <2>1, TreeParts
  <2>2. TreeThrough(g, x) = TreeThrough(h, x)
      BY <2>1 DEF TreeThrough
  <2> QED
      BY <1>1, <2>2
<1>4. TreeRank \in [Tree -> 0 .. Depth]
  <2>1. TreeRank = [x \in Tree |-> TreeRank[x]]
      BY DEF TreeRank
  <2> QED
      BY <2>1, TreeRankLeast
<1>5. Depth \in Nat
    BY ComparisonAssumption
<1>6. \E f \in Typed(Tree, V) : Computes(f, Tree, G)
    BY <1>2, <1>3, <1>4, <1>5, RankedFunction
<1>7. PICK f \in Typed(Tree, V) : Computes(f, Tree, G)
    BY <1>6
<1>8. TreeFromParts(f, F)
    BY <1>1, <1>7 DEF TreeFromParts, Computes
<1> QED
    BY <1>8

(* A function that is computed so has its type.                            *)
LEMMA TreeComputedIsTyped ==
    ASSUME NEW V, NEW F, NEW f, f = [x \in Tree |-> f[x]],
           \A x \in Tree : \A s : TreeForParts(s, x, V) => F[<<x, s>>] \in V[x],
           \A x \in Tree :
               TreeForParts(TreeThrough(f, x), x, V) => f[x] = F[<<x, TreeThrough(f, x)>>]
    PROVE  f \in Typed(Tree, V)
<1> DEFINE T == {x \in Tree : f[x] \in V[x]}
<1>1. ASSUME NEW x \in Tree,
             x.type # "Test" => \A i \in DOMAIN x.list : x.list[i] \in T
      PROVE  x \in T
  <2>1. x.type # "Test" => \A i \in DOMAIN x.list : f[x.list[i]] \in V[x.list[i]]
      BY <1>1
  <2>2. TreeForParts(TreeThrough(f, x), x, V)
      BY <2>1, TreeThroughIsForParts
  <2> QED
      BY <2>2
<1> HIDE DEF T
<1>2. Tree \subseteq T
    BY <1>1, TreeInduction
<1>3. \A x \in Tree : f[x] \in V[x]
    BY <1>2 DEF T
<1> QED
    BY <1>3, TypedFunction, Zenon

(***************************************************************************)
(* Names                                                                   *)
(***************************************************************************)

(* A column has two parts, a literal one.                                  *)
LEMMA OperandIs ==
    ASSUME NEW o \in Operands
    PROVE  /\ IsColumn(o) \/ ~ IsColumn(o)
           /\ IsColumn(o) <=> o \in ColumnName
           /\ IsColumn(o) => o = <<o[1], o[2]>> /\ o[2] \in ColumnNames
           /\ ~ IsColumn(o) => o[1] \in Values
    BY DEF Operands, ColumnName, IsColumn

(* A name with a table put to it, or as it was, is an operand again.       *)
LEMMA AmendColumnType ==
    ASSUME NEW name \in Operands, NEW tableRefs \in Seq(TableNames)
    PROVE  AmendColumn(name, tableRefs) \in Operands
<1> DEFINE owners == {t \in Range(tableRefs) : HasColumn(t, name[2])}
           t == CHOOSE t \in owners : TRUE
<1>1. CASE IsColumn(name) /\ name[1] = NoTable /\ \E u \in owners : owners = {u}
  <2>1. t \in owners
      BY <1>1
  <2>2. owners \subseteq TableNames
    <3>1. \A i \in DOMAIN tableRefs : tableRefs[i] \in TableNames
        BY LenProperties, ElementOfSeq
    <3> QED
        BY <3>1 DEF Range
  <2>3. <<t, name[2]>> \in ColumnName
      BY <1>1, <2>1, <2>2, OperandIs DEF ColumnName
  <2>4. AmendColumn(name, tableRefs) = <<t, name[2]>>
      BY <1>1 DEF AmendColumn
  <2> QED
      BY <2>3, <2>4 DEF Operands
<1>2. CASE ~(IsColumn(name) /\ name[1] = NoTable /\ \E u \in owners : owners = {u})
    BY <1>2 DEF AmendColumn
<1> QED
    BY <1>1, <1>2

(* A comparison is what it says.                                           *)
LEMMA ComparisonIs ==
    ASSUME NEW c \in Comparison
    PROVE  /\ c.type = "Binary"
           /\ c.name.op \in Operators /\ c.name.left \in Operands /\ c.name.right \in Operands
           /\ c = ComparisonOf(c.name.op, c.name.left, c.name.right)
    BY ComparisonAssumption, TextAssumption

(* What the comparison of an operator and its operands is.                 *)
LEMMA ComparisonOfIs ==
    ASSUME NEW op \in Operators, NEW left \in Operands, NEW right \in Operands
    PROVE  /\ ComparisonOf(op, left, right) \in Comparison
           /\ ComparisonOf(op, left, right).type = "Binary"
           /\ ComparisonOf(op, left, right).name = [op |-> op, left |-> left, right |-> right]
           /\ ComparisonOf(op, left, right).tables =
                  {o[1] : o \in {x \in {left, right} : IsColumn(x)}}
<1>1. ComparisonOf(op, left, right) \in Comparison
    BY TextAssumption
<1> QED
    BY <1>1 DEF ComparisonOf, Binary

(***************************************************************************)
(* From trees to clauses                                                   *)
(***************************************************************************)

(* A list of clauses that are each on the level of a part of x is one of   *)
(* clauses on the level below x.                                           *)
LEMMA ListLike ==
    ASSUME NEW x \in Clause, x.type # "Binary", NEW s, s = [i \in DOMAIN s |-> s[i]],
           DOMAIN s = DOMAIN x.list,
           \A i \in DOMAIN x.list : s[i] \in Clauses[Rank[x.list[i]]]
    PROVE  [type |-> x.type, list |-> s] \in Clauses[Rank[x]]
<1>1. /\ Rank[x] - 1 \in 0 .. Depth
      /\ \A i \in DOMAIN x.list : s[i] \in Clauses[Rank[x] - 1]
    BY PartsOnLevel
<1>2. /\ x.type \in {"Single", "And", "Or"}
      /\ DOMAIN x.list = 1 .. Len(x.list)
      /\ Len(x.list) \in Nat \ {0}
      /\ x.type = "Single" => Len(x.list) = 1
    BY Parts DEF ListOver
<1>3. s \in [1 .. Len(x.list) -> Clauses[Rank[x] - 1]]
    BY <1>1, <1>2
<1>4. s \in Seq(Clauses[Rank[x] - 1]) /\ Len(s) = Len(x.list)
    BY <1>2, <1>3, Sequences
<1>5. s # <<>>
    BY <1>2, <1>4
<1>6. [type |-> x.type, list |-> s] \in Clauses[(Rank[x] - 1) + 1]
    BY <1>1, <1>2, <1>4, <1>5, ListOnLevel
<1>7. (Rank[x] - 1) + 1 = Rank[x]
    BY PartsBelow
<1> QED
    BY <1>6, <1>7

(* The recursive function of AmendClause.                                  *)
Amended(tableRefs) ==
    CHOOSE amended : amended = [x \in Clause |->
        IF x.type = "Binary"
        THEN ComparisonOf(x.name.op, AmendColumn(x.name.left, tableRefs),
                                     AmendColumn(x.name.right, tableRefs))
        ELSE [type |-> x.type, list |-> [i \in DOMAIN x.list |-> amended[x.list[i]]]]]

(* It obeys its equation and stays on the level of its argument.           *)
LEMMA AmendedIs ==
    ASSUME NEW tableRefs \in Seq(TableNames)
    PROVE  /\ Amended(tableRefs) \in Typed(Clause, OnLevel)
           /\ Amended(tableRefs) = [x \in Clause |->
                  IF x.type = "Binary"
                  THEN ComparisonOf(x.name.op, AmendColumn(x.name.left, tableRefs),
                                               AmendColumn(x.name.right, tableRefs))
                  ELSE [type |-> x.type,
                        list |-> [i \in DOMAIN x.list |-> Amended(tableRefs)[x.list[i]]]]]
<1> DEFINE V == OnLevel
           W == UNION {V[y] : y \in Clause}
           leaf(x) == ComparisonOf(x.name.op, AmendColumn(x.name.left, tableRefs),
                                              AmendColumn(x.name.right, tableRefs))
           node(x, s) == [type |-> x.type, list |-> s]
           start == [x \in Clause |-> x]
           F == [p \in Clause \X Seq(W) |->
                    IF p[1].type = "Binary" THEN leaf(p[1]) ELSE node(p[1], p[2])]
           Am == Amended(tableRefs)
<1>1. \A x \in Clause : V[x] = Clauses[Rank[x]] /\ x \in V[x]
    BY RankLeast DEF OnLevel, Least
<1>2. start = [x \in Clause |-> start[x]] /\ \A x \in Clause : start[x] = x
    OBVIOUS
<1>3. Am = CHOOSE amended : amended = [x \in Clause |->
               IF x.type = "Binary" THEN leaf(x)
               ELSE node(x, [i \in DOMAIN x.list |-> amended[x.list[i]]])]
    BY Zenon DEF Amended
<1>4. ASSUME NEW x \in Clause, x.type = "Binary"
      PROVE  leaf(x) \in V[x]
  <2>1. x \in Comparison
      BY <1>4, ClauseShape
  <2>2. /\ x.name.op \in Operators
        /\ AmendColumn(x.name.left, tableRefs) \in Operands
        /\ AmendColumn(x.name.right, tableRefs) \in Operands
      BY <2>1, ComparisonIs, AmendColumnType
  <2>3. leaf(x) \in Comparison
      BY <2>2, ComparisonOfIs
  <2> HIDE DEF leaf
  <2>4. Rank[x] \in 0 .. Depth + 1 /\ 0 \in 0 .. Depth + 1
      BY RankLeast, ComparisonAssumption
  <2>5. Clauses[0] \subseteq Clauses[Rank[x]]
      BY <2>4, LevelsGrow
  <2> QED
      BY <1>1, <2>3, <2>5, Levels
<1> HIDE DEF leaf, node
<1>5. ASSUME NEW x \in Clause, NEW s \in Seq(W)
      PROVE  F[<<x, s>>] = IF x.type = "Binary" THEN leaf(x) ELSE node(x, s)
    OBVIOUS
<1> HIDE DEF V, start, F, Am
<1>6. start \in Typed(Clause, V)
  <2>1. \A x \in Clause : start[x] \in V[x]
      BY <1>1, <1>2
  <2> QED
      BY <1>2, <2>1, TypedFunction, Zenon
<1>7. ASSUME NEW x \in Clause, NEW s, ForParts(s, x, V)
      PROVE  F[<<x, s>>] \in V[x]
  <2>1. s \in Seq(W)
      BY <1>7 DEF ForParts
  <2>2. CASE x.type = "Binary"
      BY <1>4, <1>5, <2>1, <2>2
  <2>3. CASE x.type # "Binary"
    <3>1. /\ DOMAIN s = DOMAIN x.list
          /\ \A i \in DOMAIN x.list : s[i] \in V[x.list[i]]
        BY <1>7, <2>3 DEF ForParts
    <3>2. \A i \in DOMAIN x.list : x.list[i] \in Clause
        BY <2>3, Parts
    <3>3. \A i \in DOMAIN x.list : s[i] \in Clauses[Rank[x.list[i]]]
        BY <1>1, <3>1, <3>2
    <3>4. s = [i \in DOMAIN s |-> s[i]]
        BY <2>1
    <3>5. node(x, s) \in Clauses[Rank[x]]
        BY <2>3, <3>1, <3>3, <3>4, ListLike DEF node
    <3> QED
        BY <1>1, <1>5, <2>1, <2>3, <3>5
  <2> QED
      BY <2>2, <2>3
<1>8. PICK amended \in Typed(Clause, V) : FromParts(amended, F)
    BY <1>6, <1>7, ClauseFunction
<1>9. ASSUME NEW f, NEW x \in Clause, ForParts(Through(f, x), x, V)
      PROVE  F[<<x, Through(f, x)>>] =
                 IF x.type = "Binary" THEN leaf(x)
                 ELSE node(x, [i \in DOMAIN x.list |-> f[x.list[i]]])
  <2>1. Through(f, x) \in Seq(W)
      BY <1>9 DEF ForParts
  <2> QED
      BY <1>5, <2>1 DEF Through
<1>10. amended = [x \in Clause |-> amended[x]]
    BY TypedFunction
<1>11. \A x \in Clause :
           amended[x] = IF x.type = "Binary" THEN leaf(x)
                        ELSE node(x, [i \in DOMAIN x.list |-> amended[x.list[i]]])
    BY <1>8, <1>9, ThroughForParts, Zenon DEF FromParts
<1>12. amended = [x \in Clause |->
                  IF x.type = "Binary" THEN leaf(x)
                  ELSE node(x, [i \in DOMAIN x.list |-> amended[x.list[i]]])]
    BY <1>10, <1>11, Zenon
<1>13. Am = [x \in Clause |->
                  IF x.type = "Binary" THEN leaf(x)
                  ELSE node(x, [i \in DOMAIN x.list |-> Am[x.list[i]]])]
    BY <1>12, <1>3, Zenon
<1>14. Am = [x \in Clause |-> Am[x]]
    BY <1>13
<1>15. \A x \in Clause :
           ForParts(Through(Am, x), x, V) => Am[x] = F[<<x, Through(Am, x)>>]
    BY <1>9, <1>13
<1>16. Am \in Typed(Clause, V)
    BY <1>7, <1>14, <1>15, ComputedIsTyped
<1> QED
    BY <1>13, <1>16 DEF V, Am, leaf, node

(* A clause with its names amended is of the same shape.                   *)
LEMMA AmendClauseOf ==
    ASSUME NEW tableRefs \in Seq(TableNames), NEW x \in Clause
    PROVE  /\ AmendClause(x, tableRefs) \in Clauses[Rank[x]]
           /\ AmendClause(x, tableRefs) \in Clause
           /\ AmendClause(x, tableRefs).type = x.type
           /\ x.type = "Binary" =>
                  AmendClause(x, tableRefs) =
                      ComparisonOf(x.name.op, AmendColumn(x.name.left, tableRefs),
                                              AmendColumn(x.name.right, tableRefs))
           /\ x.type # "Binary" =>
                  /\ DOMAIN AmendClause(x, tableRefs).list = DOMAIN x.list
                  /\ \A i \in DOMAIN x.list :
                         AmendClause(x, tableRefs).list[i] = AmendClause(x.list[i], tableRefs)
<1> DEFINE Am == Amended(tableRefs)
           leaf(y) == ComparisonOf(y.name.op, AmendColumn(y.name.left, tableRefs),
                                              AmendColumn(y.name.right, tableRefs))
<1>1. ASSUME NEW y
      PROVE  AmendClause(y, tableRefs) = Am[y]
    BY Zenon DEF AmendClause, Amended
<1>2. /\ Am \in Typed(Clause, OnLevel)
      /\ Am = [y \in Clause |->
                  IF y.type = "Binary" THEN leaf(y)
                  ELSE [type |-> y.type, list |-> [i \in DOMAIN y.list |-> Am[y.list[i]]]]]
    BY AmendedIs, Zenon
<1>3. leaf(x).type = "Binary"
    BY DEF ComparisonOf, Binary
<1> HIDE DEF Am, leaf
<1>4. Am[x] = IF x.type = "Binary" THEN leaf(x)
              ELSE [type |-> x.type, list |-> [i \in DOMAIN x.list |-> Am[x.list[i]]]]
    BY <1>2
<1>5. Am[x] \in Clauses[Rank[x]]
    BY <1>2, TypedFunction DEF OnLevel
<1>6. Am[x] \in Clause
    BY <1>5, RankLeast, LevelsAreClauses
<1>7. x.type # "Binary" =>
          /\ Am[x].type = x.type
          /\ DOMAIN Am[x].list = DOMAIN x.list
          /\ \A i \in DOMAIN x.list : Am[x].list[i] = Am[x.list[i]]
    BY <1>4
<1>8. x.type = "Binary" => Am[x] = leaf(x) /\ Am[x].type = x.type
    BY <1>4, <1>3
<1> QED
    BY <1>1, <1>5, <1>6, <1>7, <1>8 DEF leaf

(* The recursive function of WalkClause.                                   *)
Walked ==
    CHOOSE walked : walked = [x \in Tree |->
        IF x.type = "Test" THEN Single(ComparisonOf(x.op, x.left, x.right))
        ELSE [type |-> x.type, list |-> [i \in DOMAIN x.list |-> walked[x.list[i]]]]]

(* A clause is on the level of the tree it is walked from.                 *)
OnTreeLevel == [x \in Tree |-> Clauses[TreeRank[x]]]

(* A test becomes a list of one comparison.                                *)
LEMMA WalkedTest ==
    ASSUME NEW x \in Tree, x.type = "Test"
    PROVE  /\ ComparisonOf(x.op, x.left, x.right) \in Comparison
           /\ Single(ComparisonOf(x.op, x.left, x.right)) \in Clauses[TreeRank[x]]
<1>1. x \in Test
    BY TreeParts
<1>2. x.op \in Operators /\ x.left \in Operands /\ x.right \in Operands
    BY <1>1 DEF Test
<1>3. ComparisonOf(x.op, x.left, x.right) \in Comparison
    BY <1>2, ComparisonOfIs
<1> DEFINE c == ComparisonOf(x.op, x.left, x.right)
<1> HIDE DEF c
<1>4. <<c>> \in Seq(Comparison) /\ Len(<<c>>) = 1 /\ <<c>> # <<>>
    BY <1>3, SingletonSeq DEF c
<1>5. [type |-> "Single", list |-> <<c>>] \in Clauses[0 + 1]
  <2>1. 0 \in 0 .. Depth
      BY ComparisonAssumption
  <2>2. <<c>> \in Seq(Clauses[0])
      BY <1>4, Levels
  <2> QED
      BY <1>4, <2>1, <2>2, ListOnLevel
<1>6. TreeRank[x] \in 1 .. Depth
    BY TreeRankLeast
<1>7. 1 \in 0 .. Depth + 1 /\ TreeRank[x] \in 1 .. Depth + 1
    BY <1>6, ComparisonAssumption
<1>8. Clauses[1] \subseteq Clauses[TreeRank[x]]
    BY <1>7, LevelsGrow
<1> QED
    BY <1>3, <1>5, <1>8 DEF Single, c

(* The function of WalkClause obeys its equation.                          *)
LEMMA WalkedIs ==
    /\ Walked \in Typed(Tree, OnTreeLevel)
    /\ Walked = [x \in Tree |->
           IF x.type = "Test" THEN Single(ComparisonOf(x.op, x.left, x.right))
           ELSE [type |-> x.type, list |-> [i \in DOMAIN x.list |-> Walked[x.list[i]]]]]
<1> DEFINE V == OnTreeLevel
           W == UNION {V[y] : y \in Tree}
           leaf(x) == Single(ComparisonOf(x.op, x.left, x.right))
           node(x, s) == [type |-> x.type, list |-> s]
           any(x) == CHOOSE e \in Clauses[TreeRank[x]] : TRUE
           start == [x \in Tree |-> any(x)]
           F == [p \in Tree \X Seq(W) |->
                    IF p[1].type = "Test" THEN leaf(p[1]) ELSE node(p[1], p[2])]
           Wa == Walked
<1>1. \A x \in Tree : V[x] = Clauses[TreeRank[x]]
    BY DEF OnTreeLevel
<1>2. ASSUME NEW x \in Tree, NEW s, TreeForParts(s, x, V), x.type # "Test"
      PROVE  node(x, s) \in V[x]
  <2> DEFINE C == Clauses[TreeRank[x] - 1]
  <2>1. /\ DOMAIN s = DOMAIN x.list
        /\ \A i \in DOMAIN x.list : s[i] \in V[x.list[i]]
        /\ s = [i \in DOMAIN s |-> s[i]]
      BY <1>2 DEF TreeForParts
  <2>2. /\ TreeRank[x] \in 2 .. Depth
        /\ x.type \in {"And", "Or"}
        /\ Len(x.list) \in Nat \ {0}
        /\ DOMAIN x.list = 1 .. Len(x.list)
        /\ \A i \in DOMAIN x.list :
               x.list[i] \in Tree /\ TreeRank[x.list[i]] \in 1 .. TreeRank[x] - 1
      BY <1>2, TreeParts DEF TreeList
  <2>3. ASSUME NEW i \in DOMAIN x.list
        PROVE  s[i] \in C
    <3>1. s[i] \in Clauses[TreeRank[x.list[i]]]
        BY <1>1, <2>1, <2>2
    <3>2. /\ TreeRank[x.list[i]] \in 0 .. Depth + 1
          /\ TreeRank[x] - 1 \in TreeRank[x.list[i]] .. Depth + 1
      <4> DEFINE whole == TreeRank[x]
                 part == TreeRank[x.list[i]]
      <4>1. whole \in 2 .. Depth /\ part \in 1 .. whole - 1 /\ Depth \in Nat
          BY <2>2, ComparisonAssumption
      <4> HIDE DEF whole, part
      <4>2. part \in 0 .. Depth + 1 /\ whole - 1 \in part .. Depth + 1
          BY <4>1
      <4> QED
          BY <4>2 DEF whole, part
    <3> QED
        BY <3>1, <3>2, LevelsGrow
  <2> HIDE DEF C
  <2>4. s \in [1 .. Len(x.list) -> C]
      BY <2>1, <2>2, <2>3
  <2>5. s \in Seq(C) /\ Len(s) = Len(x.list)
      BY <2>2, <2>4, Sequences
  <2>6. s # <<>>
      BY <2>2, <2>5
  <2>7. TreeRank[x] - 1 \in 0 .. Depth /\ (TreeRank[x] - 1) + 1 = TreeRank[x]
      BY <2>2, ComparisonAssumption
  <2>8. node(x, s) \in Clauses[(TreeRank[x] - 1) + 1]
      BY <2>2, <2>5, <2>6, <2>7, ListOnLevel DEF C
  <2> QED
      BY <1>1, <2>7, <2>8
<1>3. \A x \in Tree : x.type = "Test" => leaf(x) \in V[x]
    BY <1>1, WalkedTest
<1>4. /\ start = [x \in Tree |-> start[x]]
      /\ \A x \in Tree : start[x] = any(x)
    OBVIOUS
<1>5. Wa = CHOOSE walked : walked = [x \in Tree |->
               IF x.type = "Test" THEN leaf(x)
               ELSE node(x, [i \in DOMAIN x.list |-> walked[x.list[i]]])]
    BY Zenon DEF Walked
<1>6. ASSUME NEW x \in Tree
      PROVE  any(x) \in V[x]
  <2>1. Clauses[TreeRank[x]] # {}
    <3> DEFINE T == {y \in Tree : Clauses[TreeRank[y]] # {}}
    <3>1. ASSUME NEW y \in Tree,
                 y.type # "Test" => \A i \in DOMAIN y.list : y.list[i] \in T
          PROVE  y \in T
      <4>1. CASE y.type = "Test"
          BY <4>1, WalkedTest
      <4>2. CASE y.type # "Test"
        <5>1. /\ TreeRank[y] \in 2 .. Depth
              /\ 1 \in DOMAIN y.list
              /\ TreeRank[y.list[1]] \in 1 .. TreeRank[y] - 1
            BY <4>2, TreeParts
        <5>2. Clauses[TreeRank[y.list[1]]] # {}
            BY <3>1, <4>2, <5>1
        <5>3. /\ TreeRank[y.list[1]] \in 0 .. Depth + 1
              /\ TreeRank[y] \in TreeRank[y.list[1]] .. Depth + 1
            BY <5>1, ComparisonAssumption
        <5>4. Clauses[TreeRank[y.list[1]]] \subseteq Clauses[TreeRank[y]]
            BY <5>3, LevelsGrow
        <5> QED
            BY <5>2, <5>4
      <4> QED
          BY <4>1, <4>2
    <3> HIDE DEF T
    <3>2. Tree \subseteq T
        BY <3>1, TreeInduction
    <3> QED
        BY <3>2 DEF T
  <2> QED
      BY <1>1, <2>1
<1> HIDE DEF leaf, node, any
<1>7. ASSUME NEW x \in Tree, NEW s \in Seq(W)
      PROVE  F[<<x, s>>] = IF x.type = "Test" THEN leaf(x) ELSE node(x, s)
    OBVIOUS
<1> HIDE DEF V, start, F, Wa
<1>8. start \in Typed(Tree, V)
  <2>1. \A x \in Tree : start[x] \in V[x]
      BY <1>6, <1>4
  <2> QED
      BY <1>4, <2>1, TypedFunction, Zenon
<1>9. ASSUME NEW x \in Tree, NEW s, TreeForParts(s, x, V)
      PROVE  F[<<x, s>>] \in V[x]
  <2>1. s \in Seq(W)
      BY <1>9 DEF TreeForParts
  <2>2. CASE x.type = "Test"
      BY <1>3, <1>7, <2>1, <2>2
  <2>3. CASE x.type # "Test"
      BY <1>7, <1>9, <1>2, <2>1, <2>3
  <2> QED
      BY <2>2, <2>3
<1>10. PICK walked \in Typed(Tree, V) : TreeFromParts(walked, F)
    BY <1>8, <1>9, TreeFunction
<1>11. ASSUME NEW f, NEW x \in Tree, TreeForParts(TreeThrough(f, x), x, V)
       PROVE  F[<<x, TreeThrough(f, x)>>] =
                  IF x.type = "Test" THEN leaf(x)
                  ELSE node(x, [i \in DOMAIN x.list |-> f[x.list[i]]])
  <2>1. TreeThrough(f, x) \in Seq(W)
      BY <1>11 DEF TreeForParts
  <2> QED
      BY <1>7, <2>1 DEF TreeThrough
<1>12. walked = [x \in Tree |-> walked[x]]
    BY TypedFunction
<1>13. \A x \in Tree :
           walked[x] = IF x.type = "Test" THEN leaf(x)
                        ELSE node(x, [i \in DOMAIN x.list |-> walked[x.list[i]]])
    BY <1>10, <1>11, TreeThroughForParts, Zenon DEF TreeFromParts
<1>14. walked = [x \in Tree |->
                  IF x.type = "Test" THEN leaf(x)
                  ELSE node(x, [i \in DOMAIN x.list |-> walked[x.list[i]]])]
    BY <1>12, <1>13, Zenon
<1>15. Wa = [x \in Tree |->
                  IF x.type = "Test" THEN leaf(x)
                  ELSE node(x, [i \in DOMAIN x.list |-> Wa[x.list[i]]])]
    BY <1>14, <1>5, Zenon
<1>16. Wa = [x \in Tree |-> Wa[x]]
    BY <1>15
<1>17. \A x \in Tree :
           TreeForParts(TreeThrough(Wa, x), x, V) => Wa[x] = F[<<x, TreeThrough(Wa, x)>>]
    BY <1>11, <1>15
<1>18. Wa \in Typed(Tree, V)
    BY <1>9, <1>16, <1>17, TreeComputedIsTyped
<1> QED
    BY <1>15, <1>18 DEF V, Wa, leaf, node

(* What the tree walker makes of a tree: a list of one comparison of a     *)
(* test, the list of its parts of a list, and no clause that is deeper     *)
(* than the tree.                                                          *)
LEMMA WalkClauseOf ==
    ASSUME NEW x \in Tree
    PROVE  /\ WalkClause(x) \in Clauses[Depth]
           /\ WalkClause(x) \in Clause
           /\ x.type = "Test" =>
                  WalkClause(x) = Single(ComparisonOf(x.op, x.left, x.right))
           /\ x.type # "Test" =>
                  /\ WalkClause(x).type = x.type
                  /\ DOMAIN WalkClause(x).list = DOMAIN x.list
                  /\ \A i \in DOMAIN x.list :
                         WalkClause(x).list[i] = WalkClause(x.list[i])
<1> DEFINE leaf == Single(ComparisonOf(x.op, x.left, x.right))
<1>1. ASSUME NEW y
      PROVE  WalkClause(y) = Walked[y]
    BY Zenon DEF WalkClause, Walked
<1>2. Walked[x] = IF x.type = "Test" THEN leaf
                  ELSE [type |-> x.type, list |-> [i \in DOMAIN x.list |-> Walked[x.list[i]]]]
    BY WalkedIs
<1> HIDE DEF leaf
<1>3. Walked[x] \in Clauses[TreeRank[x]]
    BY WalkedIs, TypedFunction DEF OnTreeLevel
<1>4. /\ TreeRank[x] \in 0 .. Depth + 1
      /\ Depth \in TreeRank[x] .. Depth + 1
      /\ Depth \in 0 .. Depth + 1
    BY TreeRankLeast, ComparisonAssumption
<1>5. Walked[x] \in Clauses[Depth] /\ Walked[x] \in Clause
    BY <1>3, <1>4, LevelsGrow, LevelsAreClauses
<1>6. x.type # "Test" =>
          /\ Walked[x].type = x.type
          /\ DOMAIN Walked[x].list = DOMAIN x.list
          /\ \A i \in DOMAIN x.list : Walked[x].list[i] = Walked[x.list[i]]
    BY <1>2
<1> QED
    BY <1>1, <1>2, <1>5, <1>6 DEF leaf

(* What f is, computed with F from the values of the parts, all in W.      *)
TreeComputedIn(f, F, W) ==
    /\ f = [x \in Tree |-> f[x]]
    /\ \A x \in Tree : f[x] \in W
    /\ \A x \in Tree : /\ TreeThrough(f, x) \in Seq(W)
                       /\ f[x] = F[<<x, TreeThrough(f, x)>>]

(* What is computed for a tree, in one set whatever the tree.              *)
LEMMA TreeValues ==
    ASSUME NEW W, NEW w \in W, NEW F, \A x \in Tree : \A s \in Seq(W) : F[<<x, s>>] \in W
    PROVE  \E f : TreeComputedIn(f, F, W)
<1> DEFINE V == [x \in Tree |-> W]
           start == [x \in Tree |-> w]
<1>1. \A x \in Tree : V[x] = W
    OBVIOUS
<1>2. start = [x \in Tree |-> start[x]] /\ \A x \in Tree : start[x] = w
    OBVIOUS
<1> HIDE DEF V, start
<1>3. start \in Typed(Tree, V)
  <2>1. \A x \in Tree : start[x] \in V[x]
      BY <1>1, <1>2
  <2> QED
      BY <1>2, <2>1, TypedFunction, Zenon
<1>4. ASSUME NEW x \in Tree, NEW s, TreeForParts(s, x, V)
      PROVE  s \in Seq(W)
  <2>1. UNION {V[y] : y \in Tree} \subseteq W
    <3>1. ASSUME NEW y \in Tree
          PROVE  V[y] \subseteq W
        BY <1>1
    <3> QED
        BY <3>1
  <2> QED
      BY <1>4, <2>1, SeqMonotonic DEF TreeForParts
<1>5. ASSUME NEW x \in Tree, NEW s, TreeForParts(s, x, V)
      PROVE  F[<<x, s>>] \in V[x]
  <2>1. F[<<x, s>>] \in W
      BY <1>4, <1>5
  <2> QED
      BY <1>1, <2>1
<1>6. PICK f \in Typed(Tree, V) : TreeFromParts(f, F)
    BY <1>3, <1>5, TreeFunction
<1>7. f = [x \in Tree |-> f[x]] /\ \A x \in Tree : f[x] \in V[x]
    BY TypedFunction
<1>8. ASSUME NEW x \in Tree
      PROVE  TreeThrough(f, x) \in Seq(W) /\ f[x] = F[<<x, TreeThrough(f, x)>>]
  <2>1. TreeForParts(TreeThrough(f, x), x, V)
      BY TreeThroughForParts
  <2>2. TreeThrough(f, x) \in Seq(W)
      BY <1>4, <2>1
  <2> QED
      BY <1>6, <2>2 DEF TreeFromParts
<1>9. \A x \in Tree : f[x] \in W
    BY <1>1, <1>7
<1>10. TreeComputedIn(f, F, W)
    BY <1>7, <1>8, <1>9 DEF TreeComputedIn
<1> QED
    BY <1>10

(* The recursive function of Plain.                                        *)
PlainFunction ==
    CHOOSE plain : plain = [x \in Tree |->
        ~ x.negated /\ (x.type = "Test" \/ \A i \in DOMAIN x.list : plain[x.list[i]])]

(* Where there is no NOT, there is none in the parts.                      *)
LEMMA PlainOf ==
    ASSUME NEW x \in Tree, Plain(x)
    PROVE  /\ ~ x.negated
           /\ x.type # "Test" => \A i \in DOMAIN x.list : Plain(x.list[i])
<1> DEFINE body(y, s) == ~ y.negated /\ (y.type = "Test" \/ \A i \in DOMAIN s : s[i])
           F == [p \in Tree \X Seq(BOOLEAN) |-> body(p[1], p[2])]
<1>1. ASSUME NEW y \in Tree, NEW s \in Seq(BOOLEAN)
      PROVE  F[<<y, s>>] = body(y, s)
    OBVIOUS
<1>2. ASSUME NEW y \in Tree, NEW s \in Seq(BOOLEAN)
      PROVE  body(y, s) \in BOOLEAN
    OBVIOUS
<1>3. TRUE \in BOOLEAN
    OBVIOUS
<1> HIDE DEF body, F
<1>4. \A y \in Tree : \A s \in Seq(BOOLEAN) : F[<<y, s>>] \in BOOLEAN
    BY <1>1, <1>2
<1>5. PICK plain : TreeComputedIn(plain, F, BOOLEAN)
    BY <1>4, <1>3, TreeValues
<1>6. ASSUME NEW y \in Tree
      PROVE  plain[y] = (~ y.negated /\ (y.type = "Test"
                                           \/ \A i \in DOMAIN y.list : plain[y.list[i]]))
  <2>1. plain[y] = body(y, TreeThrough(plain, y))
      BY <1>1, <1>5 DEF TreeComputedIn
  <2>2. CASE y.type = "Test"
      BY <2>1, <2>2 DEF body
  <2>3. CASE y.type # "Test"
    <3>1. TreeThrough(plain, y) = [i \in DOMAIN y.list |-> plain[y.list[i]]]
        BY <2>3 DEF TreeThrough
    <3> QED
        BY <2>1, <2>3, <3>1 DEF body
  <2> QED
      BY <2>2, <2>3
<1>7. plain = [y \in Tree |->
                  ~ y.negated /\ (y.type = "Test" \/ \A i \in DOMAIN y.list : plain[y.list[i]])]
    BY <1>5, <1>6, Zenon DEF TreeComputedIn
<1> DEFINE P == PlainFunction
<1>8. P = [y \in Tree |->
              ~ y.negated /\ (y.type = "Test" \/ \A i \in DOMAIN y.list : P[y.list[i]])]
    BY <1>7, Zenon DEF PlainFunction
<1>9. ASSUME NEW y
      PROVE  Plain(y) = P[y]
    BY Zenon DEF Plain, PlainFunction
<1> HIDE DEF P
<1>10. P[x] = (~ x.negated /\ (x.type = "Test" \/ \A i \in DOMAIN x.list : P[x.list[i]]))
    BY <1>8
<1>11. P[x]
    BY <1>9
<1> QED
    BY <1>9, <1>10, <1>11

(* The recursive function of NamesWritten.                                 *)
NamesFunction ==
    CHOOSE names : names = [x \in Tree |->
        IF x.type = "Test" THEN {o \in {x.left, x.right} : IsColumn(o)}
        ELSE UNION {names[x.list[i]] : i \in DOMAIN x.list}]

(* NULL is no tree.                                                        *)
LEMMA NullIsNoTree ==
    NULL \notin Tree
<1>1. NULL.type = "NULL"
    BY DEF NULL
<1>2. \A x \in Tree : x.type \in {"Test", "And", "Or"}
  <2>1. ASSUME NEW x \in Tree
        PROVE  x.type \in {"Test", "And", "Or"}
    <3>1. x.type # "Test" => x.type \in {"And", "Or"}
        BY TreeParts DEF TreeList
    <3> QED
        BY <3>1
  <2> QED
      BY <2>1
<1> QED
    BY <1>1, <1>2

(* The names in a clause as written.                                       *)
LEMMA NamesWrittenOf ==
    ASSUME NEW x \in Tree
    PROVE  /\ x.type = "Test" => NamesWritten(x) = {o \in {x.left, x.right} : IsColumn(o)}
           /\ x.type # "Test" =>
                  NamesWritten(x) = UNION {NamesWritten(x.list[i]) : i \in DOMAIN x.list}
<1> DEFINE leaf(y) == {o \in {y.left, y.right} : IsColumn(o)}
           all(s) == UNION {s[i] : i \in DOMAIN s}
           W == SUBSET ColumnName
           F == [p \in Tree \X Seq(W) |->
                    IF p[1].type = "Test" THEN leaf(p[1]) ELSE all(p[2])]
           P == NamesFunction
           equation(f) == f = [y \in Tree |->
               IF y.type = "Test" THEN leaf(y) ELSE UNION {f[y.list[i]] : i \in DOMAIN y.list}]
<1>1. P = CHOOSE names : equation(names)
    BY Zenon DEF NamesFunction
<1>2. ASSUME NEW y \in Tree, y.type = "Test"
      PROVE  leaf(y) \in W
  <2>1. y \in Test
      BY <1>2, TreeParts
  <2>2. y.left \in Operands /\ y.right \in Operands
      BY <2>1 DEF Test
  <2>3. \A o \in {y.left, y.right} : IsColumn(o) => o \in ColumnName
      BY <2>2, OperandIs
  <2> QED
      BY <2>3
<1>3. ASSUME NEW s \in Seq(W)
      PROVE  all(s) \in W
  <2>1. \A i \in DOMAIN s : s[i] \in W
      BY LenProperties, ElementOfSeq
  <2> QED
      BY <2>1
<1>4. {} \in W
    OBVIOUS
<1>5. ASSUME NEW y
      PROVE  NamesWritten(y) = IF y = NULL THEN {} ELSE P[y]
    BY Zenon DEF NamesWritten, NamesFunction
<1> HIDE DEF leaf, all
<1>6. ASSUME NEW y \in Tree, NEW s \in Seq(W)
      PROVE  F[<<y, s>>] = IF y.type = "Test" THEN leaf(y) ELSE all(s)
    OBVIOUS
<1> HIDE DEF F, W, P
<1>7. ASSUME NEW y \in Tree, NEW s \in Seq(W)
      PROVE  F[<<y, s>>] \in W
    BY <1>6, <1>2, <1>3
<1>8. \A y \in Tree : \A s \in Seq(W) : F[<<y, s>>] \in W
    BY <1>7
<1>9. PICK names : TreeComputedIn(names, F, W)
    BY <1>8, <1>4, TreeValues
<1>10. ASSUME NEW y \in Tree
       PROVE  names[y] = IF y.type = "Test" THEN leaf(y)
                         ELSE UNION {names[y.list[i]] : i \in DOMAIN y.list}
  <2>1. names[y] = IF y.type = "Test" THEN leaf(y) ELSE all(TreeThrough(names, y))
      BY <1>6, <1>9 DEF TreeComputedIn
  <2>2. y.type # "Test" => TreeThrough(names, y) = [i \in DOMAIN y.list |-> names[y.list[i]]]
      BY DEF TreeThrough
  <2>3. y.type # "Test" =>
            all(TreeThrough(names, y)) = UNION {names[y.list[i]] : i \in DOMAIN y.list}
      BY <2>2 DEF all
  <2> QED
      BY <2>1, <2>3
<1>11. names = [y \in Tree |->
                   IF y.type = "Test" THEN leaf(y)
                   ELSE UNION {names[y.list[i]] : i \in DOMAIN y.list}]
    BY <1>9, <1>10, Zenon DEF TreeComputedIn
<1>12. equation(names)
    BY <1>11
<1>13. ASSUME NEW f, equation(f)
       PROVE  f = [y \in Tree |->
                      IF y.type = "Test" THEN leaf(y)
                      ELSE UNION {f[y.list[i]] : i \in DOMAIN y.list}]
    BY <1>13
<1> HIDE DEF equation
<1>14. equation(P)
    BY <1>12, <1>1, Zenon
<1>15. P = [y \in Tree |->
               IF y.type = "Test" THEN leaf(y)
               ELSE UNION {P[y.list[i]] : i \in DOMAIN y.list}]
    BY <1>13, <1>14, Zenon
<1>16. P[x] = IF x.type = "Test" THEN leaf(x)
              ELSE UNION {P[x.list[i]] : i \in DOMAIN x.list}
    BY <1>15
<1>17. ASSUME NEW y \in Tree
       PROVE  NamesWritten(y) = P[y]
    BY <1>5, NullIsNoTree
<1>18. x.type # "Test" => \A i \in DOMAIN x.list : NamesWritten(x.list[i]) = P[x.list[i]]
    BY <1>17, TreeParts
<1> QED
    BY <1>16, <1>17, <1>18 DEF leaf

(* The recursive function of HoldsAsWritten.                               *)
HoldsFunction(tuple, tables) ==
    CHOOSE holds : holds = [x \in Tree |->
        IF x.type = "And" THEN \A i \in DOMAIN x.list : holds[x.list[i]]
        ELSE IF x.type = "Or" THEN \E i \in DOMAIN x.list : holds[x.list[i]]
        ELSE IF x.op = "column" THEN LastValueOf(x.left, tuple, tables) # 0
        ELSE Compare(x.op, LastValueOf(x.left, tuple, tables), LastValueOf(x.right, tuple, tables))]

(* When a clause as written holds, by when its parts do.                   *)
LEMMA HoldsAsWrittenOf ==
    ASSUME NEW x \in Tree, NEW tuple, NEW tables
    PROVE  /\ x.type = "And" => (HoldsAsWritten(x, tuple, tables)
                  <=> \A i \in DOMAIN x.list : HoldsAsWritten(x.list[i], tuple, tables))
           /\ x.type = "Or" => (HoldsAsWritten(x, tuple, tables)
                  <=> \E i \in DOMAIN x.list : HoldsAsWritten(x.list[i], tuple, tables))
           /\ x.type = "Test" /\ x.op = "column" =>
                  (HoldsAsWritten(x, tuple, tables)
                      <=> LastValueOf(x.left, tuple, tables) # 0)
           /\ x.type = "Test" /\ x.op # "column" =>
                  (HoldsAsWritten(x, tuple, tables)
                      <=> Compare(x.op, LastValueOf(x.left, tuple, tables),
                                        LastValueOf(x.right, tuple, tables)))
<1> DEFINE column(y) == LastValueOf(y.left, tuple, tables) # 0
           compared(y) == Compare(y.op, LastValueOf(y.left, tuple, tables),
                                        LastValueOf(y.right, tuple, tables))
           all(s) == \A i \in DOMAIN s : s[i]
           one(s) == \E i \in DOMAIN s : s[i]
           W == BOOLEAN \cup {compared(y) : y \in Tree}
           F == [p \in Tree \X Seq(W) |->
                    IF p[1].type = "And" THEN all(p[2])
                    ELSE IF p[1].type = "Or" THEN one(p[2])
                    ELSE IF p[1].op = "column" THEN column(p[1])
                    ELSE compared(p[1])]
           P == HoldsFunction(tuple, tables)
<1>1. P = CHOOSE holds : holds = [y \in Tree |->
              IF y.type = "And" THEN \A i \in DOMAIN y.list : holds[y.list[i]]
              ELSE IF y.type = "Or" THEN \E i \in DOMAIN y.list : holds[y.list[i]]
              ELSE IF y.op = "column" THEN column(y)
              ELSE compared(y)]
    BY Zenon DEF HoldsFunction
<1>2. ASSUME NEW y
      PROVE  HoldsAsWritten(y, tuple, tables) = P[y]
    BY Zenon DEF HoldsAsWritten, HoldsFunction
<1>3. ASSUME NEW y \in Tree, NEW s
      PROVE  /\ all(s) \in W /\ one(s) \in W
             /\ column(y) \in W /\ compared(y) \in W
  <2>1. all(s) \in BOOLEAN /\ one(s) \in BOOLEAN /\ column(y) \in BOOLEAN
      OBVIOUS
  <2> HIDE DEF all, one, column, compared
  <2> QED
      BY <2>1
<1>4. TRUE \in W
    OBVIOUS
<1>5. \A s : all(s) \in BOOLEAN /\ one(s) \in BOOLEAN
    OBVIOUS
<1> HIDE DEF column, compared, all, one
<1>6. ASSUME NEW y \in Tree, NEW s \in Seq(W)
      PROVE  F[<<y, s>>] = IF y.type = "And" THEN all(s)
                           ELSE IF y.type = "Or" THEN one(s)
                           ELSE IF y.op = "column" THEN column(y)
                           ELSE compared(y)
    OBVIOUS
<1> HIDE DEF F, W, P
<1>7. ASSUME NEW y \in Tree, NEW s \in Seq(W)
      PROVE  F[<<y, s>>] \in W
    BY <1>6, <1>3, Zenon
<1>8. \A y \in Tree : \A s \in Seq(W) : F[<<y, s>>] \in W
    BY <1>7
<1>9. PICK holds : TreeComputedIn(holds, F, W)
    BY <1>8, <1>4, TreeValues
<1>10. ASSUME NEW y \in Tree
       PROVE  holds[y] = IF y.type = "And" THEN \A i \in DOMAIN y.list : holds[y.list[i]]
                         ELSE IF y.type = "Or" THEN \E i \in DOMAIN y.list : holds[y.list[i]]
                         ELSE IF y.op = "column" THEN column(y)
                         ELSE compared(y)
  <2> DEFINE s == TreeThrough(holds, y)
  <2>1. holds[y] = IF y.type = "And" THEN all(s)
                   ELSE IF y.type = "Or" THEN one(s)
                   ELSE IF y.op = "column" THEN column(y)
                   ELSE compared(y)
      BY <1>6, <1>9, Zenon DEF TreeComputedIn
  <2>2. y.type # "Test" => s = [i \in DOMAIN y.list |-> holds[y.list[i]]]
      BY DEF TreeThrough
  <2> HIDE DEF s
  <2>3. CASE y.type = "And"
    <3>1. holds[y] = all(s)
        BY <2>1, <2>3
    <3>2. holds[y] = \A i \in DOMAIN y.list : holds[y.list[i]]
        BY <2>2, <2>3, <3>1 DEF all
    <3> QED
        BY <2>3, <3>2, Zenon
  <2>4. CASE y.type = "Or"
    <3>1. holds[y] = one(s)
        BY <2>1, <2>4
    <3>2. holds[y] = \E i \in DOMAIN y.list : holds[y.list[i]]
        BY <2>2, <2>4, <3>1 DEF one
    <3> QED
        BY <2>4, <3>2, Zenon
  <2>5. CASE y.type \notin {"And", "Or"}
      BY <2>1, <2>5
  <2> QED
      BY <2>3, <2>4, <2>5
<1>11. holds = [y \in Tree |->
               IF y.type = "And" THEN \A i \in DOMAIN y.list : holds[y.list[i]]
               ELSE IF y.type = "Or" THEN \E i \in DOMAIN y.list : holds[y.list[i]]
               ELSE IF y.op = "column" THEN column(y)
               ELSE compared(y)]
    BY <1>9, <1>10, Zenon DEF TreeComputedIn
<1>12. P = [y \in Tree |->
               IF y.type = "And" THEN \A i \in DOMAIN y.list : P[y.list[i]]
               ELSE IF y.type = "Or" THEN \E i \in DOMAIN y.list : P[y.list[i]]
               ELSE IF y.op = "column" THEN column(y)
               ELSE compared(y)]
    BY <1>11, <1>1, Zenon
<1>13. P[x] = IF x.type = "And" THEN \A i \in DOMAIN x.list : P[x.list[i]]
              ELSE IF x.type = "Or" THEN \E i \in DOMAIN x.list : P[x.list[i]]
              ELSE IF x.op = "column" THEN column(x)
              ELSE compared(x)
    BY <1>12
<1>14. CASE x.type = "And"
    BY <1>2, <1>13, <1>14
<1>15. CASE x.type = "Or"
    BY <1>2, <1>13, <1>15
<1>16. CASE x.type \notin {"And", "Or"}
    BY <1>2, <1>13, <1>16 DEF column, compared
<1> QED
    BY <1>14, <1>15, <1>16

(***************************************************************************)
(* The call: which statement is there, and what it was made from           *)
(***************************************************************************)

(* Where a call has a statement that was prepared.                         *)
Bound == {"prepared", "stepping", "performing", "undefined"}

(* The statement is what the tree walker, and then Prepare, made of the    *)
(* text.                                                                   *)
StmtOfText ==
    /\ pc \in {"idle", "parsing"} => stmt = NULL
    /\ pc = "parsed" => stmt = WalkStatement(text)
    /\ pc \in Bound => PrepareStatus(WalkStatement(text)) = "kOK"
                       /\ stmt = Prepared(WalkStatement(text))

(* A call has the text it was given until it answers.                      *)
TextOfCall ==
    /\ pc = "idle" => text = NULL
    /\ pc # "idle" => text \in Texts
    /\ pc \in Bound \cup {"parsed"} => text.type # "syntax error"

(* What the statement is when it is executed, and the plan of a SELECT.    *)
PlanOfStmt ==
    /\ pc # "stepping" => plan = NULL /\ rows = <<>>
    /\ pc = "stepping" =>
           /\ stmt.type = "select" /\ Range(stmt.tables) \subseteq Tables
           /\ plan = [index |-> plan.index, local |-> plan.local]
           /\ plan.local = [n \in Nodes(stmt) |-> Pushed(stmt.where, TablesBelow(stmt, n))]
    /\ pc = "performing" => stmt.type \in {"update", "delete"} /\ stmt.tables[1] \in Tables
    /\ pc = "undefined" => stmt.type = "select" /\ ~ TablesLookedUp(stmt) \subseteq Tables
    /\ pc \notin {"stepping", "performing"} => context = <<>> /\ output = NULL

(* What a call has at each stage.                                          *)
CallInv ==
    /\ pc \in {"idle", "parsing", "parsed"} \cup Bound
    /\ TextOfCall
    /\ StmtOfText
    /\ PlanOfStmt

(* At each stage of a call the statement is what the walker and Prepare    *)
(* made of the text, and the plan of a SELECT is what the planner made of  *)
(* the statement.                                                          *)
THEOREM CallInvariance == Spec => []CallInv
<1> USE DEF Bound
<1>1. Init => CallInv
    BY DEF Init, CallInv, TextOfCall, StmtOfText, PlanOfStmt
<1>2. CallInv /\ [Next]_vars => CallInv'
  <2> SUFFICES ASSUME CallInv, [Next]_vars
               PROVE  CallInv'
      OBVIOUS
  <2> USE DEF CallInv
  <2>1. ASSUME NEW status, Answer(status)
        PROVE  CallInv'
      BY <2>1 DEF Answer, TextOfCall, StmtOfText, PlanOfStmt
  <2>2. ASSUME NEW t \in Texts, Execute(t)
        PROVE  CallInv'
      BY <2>2 DEF Execute, TextOfCall, StmtOfText, PlanOfStmt
  <2>3. CASE ParseQuery
      BY <2>3 DEF ParseQuery, TextOfCall, StmtOfText, PlanOfStmt
  <2>4. CASE Prepare
      BY <2>4 DEF Prepare, TextOfCall, StmtOfText, PlanOfStmt
  <2>5. CASE GeneratePlan
      BY <2>5 DEF GeneratePlan, GeneratedPlan, TextOfCall, StmtOfText, PlanOfStmt
  <2>6. CASE GeneratePlanOfNoTable
      BY <2>6 DEF GeneratePlanOfNoTable, TextOfCall, StmtOfText, PlanOfStmt
  <2>7. CASE Step
      BY <2>7 DEF Step, TextOfCall, StmtOfText, PlanOfStmt
  <2>8. CASE InnerEnds
      BY <2>8 DEF InnerEnds, TextOfCall, StmtOfText, PlanOfStmt
  <2>9. CASE BeginPerform
      BY <2>9 DEF BeginPerform, TextOfCall, StmtOfText, PlanOfStmt
  <2>10. CASE PerformIterator
      BY <2>10 DEF PerformIterator, TextOfCall, StmtOfText, PlanOfStmt
  <2>11. CASE UNCHANGED vars
      BY <2>11 DEF vars, TextOfCall, StmtOfText, PlanOfStmt
  <2>12. CASE SyntaxError \/ PrepareFails \/ PassOn \/ SelectEnds \/ TableMissing \/ PerformEnds
      BY <2>1, <2>12 DEF SyntaxError, PrepareFails, PassOn, SelectEnds, TableMissing, PerformEnds
  <2> QED
      BY <2>2, <2>3, <2>4, <2>5, <2>6, <2>7, <2>8, <2>9, <2>10, <2>11, <2>12 DEF Next
<1> QED
    BY <1>1, <1>2, PTL DEF Spec

(* The recursive function of OrsUnmixed.                                   *)
Unmixed(tables) ==
    CHOOSE unmixed : unmixed = [x \in Clause |->
        IF x.type = "Binary" THEN TRUE
        ELSE OrUnmixed(x, tables) /\ \A i \in DOMAIN x.list : unmixed[x.list[i]]]

(* It obeys its equation: there is a function that does.                   *)
LEMMA UnmixedIs ==
    ASSUME NEW tables
    PROVE  Unmixed(tables) = [x \in Clause |->
               IF x.type = "Binary" THEN TRUE
               ELSE /\ OrUnmixed(x, tables)
                    /\ \A i \in DOMAIN x.list : Unmixed(tables)[x.list[i]]]
<1> DEFINE body(x, s) == OrUnmixed(x, tables) /\ \A i \in DOMAIN s : s[i]
           V == [x \in Clause |-> BOOLEAN]
           start == [x \in Clause |-> TRUE]
           F == [p \in Clause \X Seq(BOOLEAN) |->
                    IF p[1].type = "Binary" THEN TRUE ELSE body(p[1], p[2])]
<1>1. \A x \in Clause : V[x] = BOOLEAN
    OBVIOUS
<1>2. start = [x \in Clause |-> start[x]] /\ \A x \in Clause : start[x] = TRUE
    OBVIOUS
<1> HIDE DEF body
<1>3. ASSUME NEW x \in Clause, NEW s \in Seq(BOOLEAN)
      PROVE  F[<<x, s>>] = IF x.type = "Binary" THEN TRUE ELSE body(x, s)
    OBVIOUS
<1> HIDE DEF V, start, F
<1>4. start \in Typed(Clause, V)
  <2>1. \A x \in Clause : start[x] \in V[x]
      BY <1>1, <1>2
  <2> QED
      BY <1>2, <2>1, TypedFunction, Zenon
<1>5. ASSUME NEW x \in Clause, NEW s, ForParts(s, x, V)
      PROVE  s \in Seq(BOOLEAN)
  <2>1. UNION {V[y] : y \in Clause} \subseteq BOOLEAN
      BY <1>1
  <2> QED
      BY <1>5, <2>1, SeqMonotonic DEF ForParts
<1>6. ASSUME NEW x \in Clause, NEW s, ForParts(s, x, V)
      PROVE  F[<<x, s>>] \in V[x]
  <2>1. body(x, s) \in BOOLEAN
      BY DEF body
  <2>2. s \in Seq(BOOLEAN)
      BY <1>5, <1>6
  <2>3. F[<<x, s>>] = IF x.type = "Binary" THEN TRUE ELSE body(x, s)
      BY <1>3, <2>2, Zenon
  <2>4. F[<<x, s>>] \in BOOLEAN
      BY <2>1, <2>3, Zenon
  <2> QED
      BY <1>1, <2>4
<1>7. PICK unmixed \in Typed(Clause, V) : FromParts(unmixed, F)
    BY <1>4, <1>6, ClauseFunction
<1>8. unmixed = [x \in Clause |-> unmixed[x]]
    BY TypedFunction
<1>9. ASSUME NEW x \in Clause
      PROVE  unmixed[x] = IF x.type = "Binary" THEN TRUE
                          ELSE /\ OrUnmixed(x, tables)
                               /\ \A i \in DOMAIN x.list : unmixed[x.list[i]]
  <2> DEFINE s == Through(unmixed, x)
  <2>1. unmixed[x] = F[<<x, s>>] /\ s \in Seq(BOOLEAN)
      BY <1>5, <1>7, ThroughForParts DEF FromParts
  <2>2. x.type # "Binary" => s = [i \in DOMAIN x.list |-> unmixed[x.list[i]]]
      BY DEF Through
  <2> HIDE DEF s
  <2>3. unmixed[x] = IF x.type = "Binary" THEN TRUE ELSE body(x, s)
      BY <1>3, <2>1, Zenon
  <2>4. CASE x.type = "Binary"
      BY <2>3, <2>4, Zenon
  <2>5. CASE x.type # "Binary"
    <3>1. unmixed[x] = body(x, s)
        BY <2>3, <2>5
    <3>2. unmixed[x] = (/\ OrUnmixed(x, tables)
                        /\ \A i \in DOMAIN x.list : unmixed[x.list[i]])
        BY <2>2, <2>5, <3>1 DEF body
    <3> QED
        BY <2>5, <3>2, Zenon
  <2> QED
      BY <2>4, <2>5
<1>10. unmixed = [x \in Clause |->
                     IF x.type = "Binary" THEN TRUE
                     ELSE OrUnmixed(x, tables) /\ \A i \in DOMAIN x.list : unmixed[x.list[i]]]
    BY <1>8, <1>9, Zenon
<1> QED
    BY <1>10, Zenon DEF Unmixed

(* The OR lists of a list are unmixed if its own is, and those of its      *)
(* parts are.                                                              *)
LEMMA OrsUnmixedOf ==
    ASSUME NEW tables, NEW x \in Clause, x.type # "Binary", OrsUnmixed(x, tables)
    PROVE  OrUnmixed(x, tables) /\ \A i \in DOMAIN x.list : OrsUnmixed(x.list[i], tables)
<1>1. ASSUME NEW y
      PROVE  OrsUnmixed(y, tables) = Unmixed(tables)[y]
    BY Zenon DEF OrsUnmixed, Unmixed
<1> DEFINE unmixed == Unmixed(tables)
<1>2. unmixed[x] = IF x.type = "Binary" THEN TRUE
                   ELSE OrUnmixed(x, tables) /\ \A i \in DOMAIN x.list : unmixed[x.list[i]]
    BY UnmixedIs
<1> HIDE DEF unmixed
<1>3. \A y : OrsUnmixed(y, tables) = unmixed[y]
    BY <1>1 DEF unmixed
<1>4. unmixed[x]
    BY <1>3
<1> QED
    BY <1>2, <1>3, <1>4

(* What is pushed to a node is true of the rows the clause selects, if     *)
(* each OR list can be evaluated there as a whole or not at all.           *)
LEMMA PushedPartImplied ==
    ASSUME NEW tables, NEW holds, NEW e \in Clause,
           OrsUnmixed(e, tables), CreateSubExprForPushdown(e, tables) # NULL,
           IsTrue(e, holds)
    PROVE  IsTrue(CreateSubExprForPushdown(e, tables), holds)
<1> DEFINE part(x) == CreateSubExprForPushdown(x, tables)
           T == {x \in Clause :
                    OrsUnmixed(x, tables) /\ part(x) # NULL /\ IsTrue(x, holds)
                        => IsTrue(part(x), holds)}
<1> HIDE DEF part
<1>1. ASSUME NEW x \in Clause,
             x.type # "Binary" => \A i \in DOMAIN x.list : x.list[i] \in T
      PROVE  x \in T
  <2> SUFFICES ASSUME OrsUnmixed(x, tables), part(x) # NULL, IsTrue(x, holds)
               PROVE  IsTrue(part(x), holds)
      OBVIOUS
  <2>1. CASE x.type = "Binary"
    <3>1. part(x) = x
        BY <2>1, CreateSubExprOf DEF part
    <3> QED
        BY <3>1
  <2>2. CASE x.type # "Binary"
    <3>1. PICK n \in 0 .. Depth : \E pushed \in Seq(Clauses[n] \cup {NULL}) :
                      /\ pushed # <<>>
                      /\ DOMAIN pushed = DOMAIN x.list
                      /\ \A i \in DOMAIN x.list : pushed[i] = part(x.list[i])
                      /\ part(x) = PushedList(x.type, pushed)
        BY <2>2, CreateSubExprOf DEF part
    <3>2. PICK pushed \in Seq(Clauses[n] \cup {NULL}) :
                      /\ pushed # <<>>
                      /\ DOMAIN pushed = DOMAIN x.list
                      /\ \A i \in DOMAIN x.list : pushed[i] = part(x.list[i])
                      /\ part(x) = PushedList(x.type, pushed)
        BY <3>1
    <3>3. /\ x.type \in {"Single", "And", "Or"}
          /\ 1 \in DOMAIN x.list
        BY <2>2, Parts DEF ListOver
    <3>4. OrUnmixed(x, tables) /\ \A i \in DOMAIN x.list : OrsUnmixed(x.list[i], tables)
        BY <2>2, OrsUnmixedOf
    <3>5. \A i \in DOMAIN x.list :
              pushed[i] # NULL /\ IsTrue(x.list[i], holds) => IsTrue(pushed[i], holds)
        BY <1>1, <2>2, <3>2, <3>4
    <3>6. CASE x.type = "Single"
      <4>1. part(x) = pushed[1]
          BY <3>2, <3>6 DEF PushedList
      <4>2. IsTrue(x.list[1], holds)
          BY <3>3, <3>6, TrueOf
      <4> QED
          BY <3>3, <3>5, <4>1, <4>2
    <3>7. CASE x.type = "And"
      <4>1. part(x) = PushedAnd(pushed)
          BY <3>2, <3>7 DEF PushedList
      <4>2. IsTrue(part(x), holds) <=> \A p \in Range(pushed) \ {NULL} : IsTrue(p, holds)
          BY <4>1, PushedAndProperties
      <4>3. \A i \in DOMAIN x.list : IsTrue(x.list[i], holds)
          BY <3>7, TrueOf
      <4>4. \A p \in Range(pushed) \ {NULL} : IsTrue(p, holds)
          BY <3>2, <3>5, <4>3 DEF Range
      <4> QED
          BY <4>2, <4>4
    <3>8. CASE x.type = "Or"
      <4>1. part(x) = PushedOr(pushed)
          BY <3>2, <3>8 DEF PushedList
      <4>2. \E i \in DOMAIN pushed : pushed[i] # NULL
        <5>1. ~(\A p \in Range(pushed) : p = NULL)
            BY <3>2, <4>1, PushedOrProperties
        <5> QED
            BY <5>1 DEF Range
      <4>3. \A i \in DOMAIN pushed : pushed[i] # NULL
        <5>1. \A i, k \in DOMAIN x.list : part(x.list[k]) # NULL => part(x.list[i]) # NULL
            BY <3>4, <3>8 DEF OrUnmixed, part
        <5> QED
            BY <3>2, <4>2, <5>1
      <4>4. \A p \in Range(pushed) : p # NULL
          BY <4>3 DEF Range
      <4>5. IsTrue(part(x), holds) <=> \E p \in Range(pushed) : IsTrue(p, holds)
          BY <3>2, <4>1, <4>4, PushedOrProperties
      <4>6. \E i \in DOMAIN x.list : IsTrue(x.list[i], holds)
          BY <3>8, TrueOf
      <4>7. \E p \in Range(pushed) : IsTrue(p, holds)
          BY <3>2, <3>5, <4>3, <4>6 DEF Range
      <4> QED
          BY <4>5, <4>7
    <3> QED
        BY <3>3, <3>6, <3>7, <3>8
  <2> QED
      BY <2>1, <2>2
<1> HIDE DEF T
<1>2. Clause \subseteq T
    BY <1>1, ClauseInduction
<1> QED
    BY <1>2 DEF T, part


(***************************************************************************)
(* The statement as the walker made it, and as Prepare left it             *)
(***************************************************************************)

(* What the tree walker makes of a text.                                   *)
LEMMA StatementOf ==
    ASSUME NEW t \in Texts
    PROVE  LET s == WalkStatement(t)
           IN  /\ s.type = t.type
               /\ s.tables = t.tables
               /\ s.where = IF t.type \in {"select", "update", "delete"} THEN WalkWhere(t)
                            ELSE NULL
               /\ s.all = IF t.type = "select" THEN t.all ELSE FALSE
               /\ s.columns = IF t.type = "delete" \/ (t.type = "select" /\ t.all)
                              THEN <<>> ELSE t.columns
               /\ s = [type |-> s.type, tables |-> s.tables, columns |-> s.columns,
                       all |-> s.all, where |-> s.where]
<1>1. CASE t.type = "select"
    BY <1>1 DEF WalkStatement, WalkSelect, PushedStatement
<1>2. CASE t.type \in {"update", "insert", "delete"}
    BY <1>2 DEF WalkStatement, WalkChange, PushedStatement
<1>3. CASE t.type \notin {"select", "update", "insert", "delete"}
    BY <1>3 DEF WalkStatement, WalkSchema, PushedStatement
<1> QED
    BY <1>1, <1>2, <1>3

(* What Prepare makes of a statement.                                      *)
LEMMA PreparedOf ==
    ASSUME NEW s, s = [type |-> s.type, tables |-> s.tables, columns |-> s.columns,
                       all |-> s.all, where |-> s.where]
    PROVE  /\ Prepared(s).type = s.type
           /\ Prepared(s).tables = s.tables
           /\ Prepared(s).all = s.all
           /\ s.where = NULL => Prepared(s).where = NULL
           /\ s.where # NULL =>
                  Prepared(s).where = TransformToCNF(AmendClause(s.where, s.tables))
           /\ s.all => Prepared(s).columns = AllColumns(s)
           /\ ~ s.all /\ s.type # "create table" =>
                  Prepared(s).columns = [i \in DOMAIN s.columns |-> BoundColumns(s)[i].def]
<1> DEFINE where(w) == IF w = NULL THEN NULL ELSE TransformToCNF(AmendClause(w, s.tables))
           columns(c) == IF s.all THEN AllColumns(s)
                         ELSE IF s.type = "create table" THEN NewColumns(s)
                         ELSE [i \in DOMAIN c |-> BoundColumns(s)[i].def]
<1>1. Prepared(s) = [s EXCEPT !.where = where(@), !.columns = columns(@)]
    BY DEF Prepared
<1>2. where(NULL) = NULL
    OBVIOUS
<1>3. s.where # NULL => where(s.where) = TransformToCNF(AmendClause(s.where, s.tables))
    OBVIOUS
<1>4. s.all => columns(s.columns) = AllColumns(s)
    OBVIOUS
<1>5. ~ s.all /\ s.type # "create table" =>
          columns(s.columns) = [i \in DOMAIN s.columns |-> BoundColumns(s)[i].def]
    OBVIOUS
<1> HIDE DEF where, columns
<1>6. /\ Prepared(s).where = where(s.where) /\ Prepared(s).columns = columns(s.columns)
      /\ Prepared(s).type = s.type /\ Prepared(s).tables = s.tables /\ Prepared(s).all = s.all
    BY <1>1
<1> QED
    BY <1>2, <1>3, <1>4, <1>5, <1>6

(* A text is what the parser can make of one.                              *)
LEMMA TextIs ==
    ASSUME NEW t \in Texts
    PROVE  /\ t.type \in StatementType
           /\ t.tables \in Seq(TableNames)
           /\ t.columns \in Seq(ColumnName)
           /\ t.all \in BOOLEAN
           /\ t.where # NULL => t.where \in Tree
           /\ t.type \in {"select", "update", "delete"} => t.tables # <<>>
    BY TextAssumption DEF Text

(* What a statement that is executed was made from, its clause above all.  *)
LEMMA StmtIs ==
    ASSUME CallInv, pc \in Bound
    PROVE  /\ text \in Texts
           /\ stmt.type = text.type
           /\ stmt.tables = text.tables /\ stmt.tables \in Seq(TableNames)
           /\ stmt.where # NULL => text.type \in {"select", "update", "delete"}
           /\ text.type \in {"select", "update", "delete"} =>
                  (stmt.where = NULL <=> text.where = NULL)
<1> DEFINE s == WalkStatement(text)
<1>1. text \in Texts /\ stmt = Prepared(s)
    BY DEF CallInv, TextOfCall, StmtOfText, Bound
<1>2. /\ s.type = text.type
      /\ s.tables = text.tables
      /\ s.where = IF text.type \in {"select", "update", "delete"} THEN WalkWhere(text)
                   ELSE NULL
      /\ s = [type |-> s.type, tables |-> s.tables, columns |-> s.columns,
              all |-> s.all, where |-> s.where]
    BY <1>1, StatementOf
<1> HIDE DEF s
<1>3. /\ stmt.type = s.type
      /\ stmt.tables = s.tables
      /\ s.where = NULL => stmt.where = NULL
      /\ s.where # NULL => stmt.where = TransformToCNF(AmendClause(s.where, s.tables))
    BY <1>1, <1>2, PreparedOf
<1>4. text.tables \in Seq(TableNames) /\ (text.where # NULL => text.where \in Tree)
    BY <1>1, TextIs
<1>5. ASSUME text.where # NULL
      PROVE  /\ WalkWhere(text) # NULL
             /\ TransformToCNF(AmendClause(WalkWhere(text), s.tables)) # NULL
  <2>1. WalkWhere(text) \in Clause /\ WalkWhere(text) \in Clauses[Depth]
      BY <1>4, <1>5, WalkClauseOf DEF WalkWhere
  <2> DEFINE e == AmendClause(WalkWhere(text), s.tables)
  <2>2. e \in Clauses[Depth]
    <3>1. Rank[WalkWhere(text)] <= Depth /\ Rank[WalkWhere(text)] \in 0 .. Depth + 1
        BY <2>1, ComparisonAssumption, LevelsAreClauses, RankLeast
    <3>2. e \in Clauses[Rank[WalkWhere(text)]]
        BY <1>2, <1>4, <2>1, AmendClauseOf
    <3>3. Depth \in 0 .. Depth + 1 /\ Depth \in Rank[WalkWhere(text)] .. Depth + 1
        BY <3>1, ComparisonAssumption
    <3> QED
        BY <3>1, <3>2, <3>3, LevelsGrow
  <2>3. TransformToCNF(e) \in Clause
      BY <2>2, TransformProperties
  <2> QED
      BY <2>1, <2>3, NullIsNoClause
<1>6. text.where = NULL => WalkWhere(text) = NULL
    BY DEF WalkWhere
<1> QED
    BY <1>1, <1>2, <1>3, <1>4, <1>5, <1>6

(* The clause of a statement that is executed is the normal form of the    *)
(* clause as written, its names bound.                                     *)
LEMMA ClauseIs ==
    ASSUME CallInv, pc \in Bound, stmt.where # NULL
    PROVE  /\ text.where \in Tree
           /\ BoundClause \in Clauses[Depth] /\ BoundClause \in Clause
           /\ stmt.where = TransformToCNF(BoundClause)
           /\ stmt.where \in Clause
           /\ \A holds : IsTrue(stmt.where, holds) <=> IsTrue(BoundClause, holds)
           /\ Comparisons(stmt.where) = Comparisons(BoundClause)
<1> DEFINE s == WalkStatement(text)
           w == WalkClause(text.where)
<1>1. text \in Texts /\ stmt = Prepared(s)
    BY DEF CallInv, TextOfCall, StmtOfText, Bound
<1>2. /\ stmt.tables \in Seq(TableNames)
      /\ text.type \in {"select", "update", "delete"} /\ text.where # NULL
    BY StmtIs
<1>3. text.where \in Tree
    BY <1>1, <1>2, TextIs
<1>4. w \in Clauses[Depth] /\ w \in Clause
    BY <1>3, WalkClauseOf
<1>5. /\ s.tables = text.tables
      /\ s.where = w
      /\ s = [type |-> s.type, tables |-> s.tables, columns |-> s.columns,
              all |-> s.all, where |-> s.where]
  <2>1. WalkWhere(text) = w
      BY <1>2 DEF WalkWhere
  <2> QED
      BY <1>1, <1>2, <2>1, StatementOf
<1>6. w # NULL
    BY <1>4, NullIsNoClause
<1> HIDE DEF s, w
<1>7. stmt.tables = s.tables /\ stmt.where = TransformToCNF(AmendClause(w, s.tables))
    BY <1>1, <1>5, <1>6, PreparedOf
<1>8. BoundClause = AmendClause(w, stmt.tables)
    BY DEF BoundClause, w
<1>9. Rank[w] <= Depth /\ Rank[w] \in 0 .. Depth + 1
    BY <1>4, ComparisonAssumption, LevelsAreClauses, RankLeast
<1>10. BoundClause \in Clauses[Rank[w]] /\ BoundClause \in Clause
    BY <1>2, <1>4, <1>8, AmendClauseOf
<1>11. BoundClause \in Clauses[Depth]
  <2>1. Depth \in Rank[w] .. Depth + 1
      BY <1>9, ComparisonAssumption
  <2> QED
      BY <1>9, <1>10, <2>1, LevelsGrow
<1>12. stmt.where = TransformToCNF(BoundClause)
    BY <1>7, <1>8
<1>13. /\ stmt.where \in Clause
       /\ \A holds : IsTrue(stmt.where, holds) <=> IsTrue(BoundClause, holds)
    BY <1>11, <1>12, TransformProperties
<1>14. Comparisons(stmt.where) = Comparisons(BoundClause)
    BY <1>11, <1>12, TransformKeepsComparisons
<1> QED
    BY <1>3, <1>10, <1>11, <1>12, <1>13, <1>14

(* Two clauses that are true of the same comparisons have the same meaning.*)
LEMMA MeaningOfClauses ==
    ASSUME NEW e \in Clause, NEW f \in Clause,
           \A holds : IsTrue(f, holds) <=> IsTrue(e, holds)
    PROVE  SameMeaning(e, f)
<1>1. ASSUME NEW holds
      PROVE  IsTrue(e, holds) = IsTrue(f, holds)
  <2>1. IsTrue(e, holds) \in BOOLEAN /\ IsTrue(f, holds) \in BOOLEAN
      BY TrueOf
  <2> QED
      BY <2>1
<1> QED
    BY <1>1 DEF SameMeaning

(* Statement::Prepare keeps the meaning of the clause, however deep its    *)
(* lists lie in each other and however long they are.                      *)
THEOREM MeaningIsKept == Spec => []MeaningKept
<1>1. ASSUME CallInv, HasClause
      PROVE  SameMeaning(BoundClause, stmt.where)
  <2>1. pc \in Bound /\ stmt.where # NULL
      BY <1>1 DEF HasClause, Bound
  <2> QED
      BY <1>1, <2>1, ClauseIs, MeaningOfClauses
<1>2. CallInv => MeaningKept
    BY <1>1 DEF MeaningKept
<1> QED
    BY <1>2, CallInvariance, PTL

(* What a node of the plan holds: the part of the clause that can be       *)
(* evaluated there.                                                        *)
LEMMA LocalIs ==
    ASSUME CallInv, pc = "stepping", NEW n \in Nodes(stmt)
    PROVE  /\ pc \in Bound
           /\ DOMAIN plan.local = Nodes(stmt)
           /\ stmt.where = NULL => plan.local[n] = NULL
           /\ stmt.where # NULL => plan.local[n] =
                  CreateSubExprForPushdown(stmt.where, TablesBelow(stmt, n))
    BY DEF CallInv, PlanOfStmt, Pushed, Bound

(* A SELECT of tables that are in the catalog has one at least.            *)
LEMMA TablesOfSelect ==
    ASSUME CallInv, pc \in Bound, stmt.type = "select", Range(stmt.tables) \subseteq Tables
    PROVE  /\ stmt.tables \in Seq(Tables)
           /\ Len(stmt.tables) \in Nat \ {0}
           /\ DOMAIN stmt.tables = 1 .. Len(stmt.tables)
<1>1. /\ text \in Texts
      /\ text.type = "select"
      /\ stmt.tables = text.tables /\ stmt.tables \in Seq(TableNames)
    BY StmtIs
<1>2. stmt.tables # <<>>
    BY <1>1, TextIs
<1>3. Len(stmt.tables) \in Nat \ {0} /\ DOMAIN stmt.tables = 1 .. Len(stmt.tables)
    BY <1>1, <1>2, EmptySeq, LenProperties
<1>4. stmt.tables \in Seq(Tables)
  <2>1. \A i \in 1 .. Len(stmt.tables) : stmt.tables[i] \in Tables
      BY <1>3 DEF Range
  <2> QED
      BY <1>1, <1>3, <2>1
<1> QED
    BY <1>3, <1>4

(* A SELECT that is executed has tables, and they are all in the catalog.  *)
LEMMA SelectIs ==
    ASSUME CallInv, pc = "stepping"
    PROVE  /\ text.type = "select" /\ stmt.type = "select"
           /\ stmt.tables \in Seq(Tables)
           /\ Len(stmt.tables) \in Nat \ {0}
           /\ DOMAIN stmt.tables = 1 .. Len(stmt.tables)
<1>1. /\ pc \in Bound
      /\ stmt.type = "select" /\ Range(stmt.tables) \subseteq Tables
    BY DEF CallInv, PlanOfStmt, Bound
<1>2. text.type = "select"
    BY <1>1, StmtIs
<1> QED
    BY <1>1, <1>2, TablesOfSelect

(* The tables of a comparison are those of the names in it.                *)
LEMMA NamesOfComparison ==
    ASSUME NEW c \in Comparison
    PROVE  c.tables = {name[1] : name \in {o \in {c.name.left, c.name.right} : IsColumn(o)}}
<1> DEFINE op == c.name.op
           left == c.name.left
           right == c.name.right
<1>1. /\ op \in Operators /\ left \in Operands /\ right \in Operands
      /\ c = ComparisonOf(op, left, right)
    BY ComparisonIs
<1> HIDE DEF op, left, right
<1>2. ComparisonOf(op, left, right).tables
          = {o[1] : o \in {x \in {left, right} : IsColumn(x)}}
    BY <1>1, ComparisonOfIs
<1>3. c.tables = {name[1] : name \in {o \in {left, right} : IsColumn(o)}}
    BY <1>1, <1>2
<1> QED
    BY <1>3 DEF left, right

(* The root of the plan, below which all tables are, is given a clause     *)
(* that means what the statement's does.                                   *)
THEOREM RootHasWholeClause == Spec => []RootEvaluatesWhole
<1>1. ASSUME CallInv, pc = "stepping", HasClause,
             \A name \in DependentColumns(BoundClause) : name[1] \in Range(stmt.tables)
      PROVE  SameMeaning(BoundClause, plan.local[<<1, Len(stmt.tables)>>])
  <2> DEFINE root == <<1, Len(stmt.tables)>>
             below == TablesBelow(stmt, root)
  <2>1. /\ Len(stmt.tables) \in Nat \ {0}
        /\ DOMAIN stmt.tables = 1 .. Len(stmt.tables)
      BY <1>1, SelectIs
  <2>2. root \in Nodes(stmt) /\ below = Range(stmt.tables)
      BY <2>1 DEF Nodes, TablesBelow, Range
  <2> HIDE DEF root, below
  <2>3. /\ pc \in Bound /\ stmt.where # NULL
        /\ plan.local[root] = CreateSubExprForPushdown(stmt.where, below)
      BY <1>1, <2>2, LocalIs DEF HasClause, below
  <2>4. /\ stmt.where \in Clause /\ BoundClause \in Clause
        /\ \A holds : IsTrue(stmt.where, holds) <=> IsTrue(BoundClause, holds)
        /\ Comparisons(stmt.where) = Comparisons(BoundClause)
      BY <1>1, <2>3, ClauseIs
  <2>5. ASSUME NEW c \in Comparisons(stmt.where)
        PROVE  c.tables \subseteq below
    <3>1. c \in Comparison
        BY <2>4, ComparisonsOf
    <3>2. c.tables = {name[1] : name \in {o \in {c.name.left, c.name.right} : IsColumn(o)}}
        BY <3>1, NamesOfComparison
    <3>3. {o \in {c.name.left, c.name.right} : IsColumn(o)} \subseteq DependentColumns(BoundClause)
        BY <2>4 DEF DependentColumns
    <3> QED
        BY <1>1, <2>2, <3>2, <3>3
  <2>6. /\ plan.local[root] # NULL
        /\ \A holds : IsTrue(plan.local[root], holds) <=> IsTrue(stmt.where, holds)
    <3>1. \A c \in Comparisons(stmt.where) : c.tables \subseteq below
        BY <2>5
    <3> QED
        BY <2>3, <2>4, <3>1, WholeClausePushed
  <2>7. plan.local[root] \in Clause
      BY <2>3, <2>4, <2>6, CreateSubExprOf
  <2>8. SameMeaning(BoundClause, plan.local[root])
      BY <2>4, <2>6, <2>7, MeaningOfClauses
  <2> QED
      BY <2>8 DEF root
<1>2. CallInv => RootEvaluatesWhole
    BY <1>1 DEF RootEvaluatesWhole
<1> QED
    BY <1>2, CallInvariance, PTL

(* A node drops no row that the clause selects if it can evaluate all or   *)
(* none of the alternatives of each OR list of the normal form.            *)
THEOREM NoRowIsDropped == Spec => []NoRowDroppedUnlessMixed
<1>1. ASSUME CallInv, pc = "stepping", HasClause, NEW n \in DOMAIN plan.local,
             plan.local[n] # NULL, OrsUnmixed(stmt.where, TablesBelow(stmt, n))
      PROVE  Implied(plan.local[n])
  <2>1. n \in Nodes(stmt)
      BY <1>1 DEF CallInv, PlanOfStmt
  <2>2. /\ pc \in Bound /\ stmt.where # NULL
        /\ plan.local[n] = CreateSubExprForPushdown(stmt.where, TablesBelow(stmt, n))
      BY <1>1, <2>1, LocalIs
  <2>3. /\ stmt.where \in Clause
        /\ \A holds : IsTrue(stmt.where, holds) <=> IsTrue(BoundClause, holds)
      BY <1>1, <2>2, ClauseIs
  <2>4. ASSUME NEW holds, IsTrue(BoundClause, holds)
        PROVE  IsTrue(plan.local[n], holds)
      BY <1>1, <2>2, <2>3, <2>4, PushedPartImplied
  <2> QED
      BY <2>4 DEF Implied
<1>2. CallInv => NoRowDroppedUnlessMixed
    BY <1>1 DEF NoRowDroppedUnlessMixed
<1> QED
    BY <1>2, CallInvariance, PTL

(***************************************************************************)
(* The first and the last place                                            *)
(***************************************************************************)

(* The least of some numbers.                                              *)
LEMMA FirstOfIs ==
    ASSUME NEW S, S \subseteq Nat, S # {}
    PROVE  FirstOf(S) \in S /\ \A k \in S : FirstOf(S) <= k
<1>1. \E i \in S : \A k \in S : i <= k
    BY LeastNatural
<1> QED
    BY <1>1 DEF FirstOf

(* The greatest of some numbers that have a bound.                         *)
LEMMA LastOfIs ==
    ASSUME NEW n \in Nat, NEW S, S \subseteq 0 .. n, S # {}
    PROVE  LastOf(S) \in S /\ \A k \in S : LastOf(S) >= k
<1> DEFINE T == {n - k : k \in S}
<1>1. T \subseteq Nat /\ T # {}
    OBVIOUS
<1>2. PICK m \in T : \A j \in T : m <= j
  <2> HIDE DEF T
  <2> QED
      BY <1>1, LeastNatural
<1>3. PICK i \in S : m = n - i
    BY <1>2
<1>4. ASSUME NEW k \in S
      PROVE  i >= k
  <2>1. m <= n - k
      BY <1>2
  <2>2. i \in 0 .. n /\ k \in 0 .. n
      OBVIOUS
  <2> QED
      BY <1>3, <2>1, <2>2
<1>5. \E j \in S : \A k \in S : j >= k
    BY <1>4
<1> QED
    BY <1>5 DEF LastOf

(***************************************************************************)
(* The index of a scan                                                     *)
(***************************************************************************)

(* The catalog of the indexes is a list of those there may be.             *)
CatalogInv == mIndexCatalog \in Seq(Range(Indexes))

(* An index of the catalog is of a table of the catalog.                   *)
LEMMA IndexIs ==
    ASSUME NEW x \in Range(Indexes)
    PROVE  x.table \in Tables /\ x.columns \in Seq(Nat)
<1>1. Indexes \in Seq([table : Tables, columns : Seq(Nat)])
    BY CatalogAssumption
<1>2. \A i \in DOMAIN Indexes : Indexes[i] \in [table : Tables, columns : Seq(Nat)]
    BY <1>1, ElementOfSeq, LenProperties
<1> QED
    BY <1>2 DEF Range

(* The indexes of a table.                                                 *)
LEMMA IndexListIs ==
    ASSUME CatalogInv, NEW t
    PROVE  /\ IndexListOf(t) \in Seq(Range(Indexes))
           /\ \A i \in DOMAIN IndexListOf(t) : IndexListOf(t)[i].table = t
<1> DEFINE S == Range(Indexes)
           one(x) == IF x.table = t THEN <<x>> ELSE <<>>
           seqs == [i \in DOMAIN mIndexCatalog |-> one(mIndexCatalog[i])]
           list == FlattenSeq(seqs)
<1>1. IndexListOf(t) = list
    BY DEF IndexListOf
<1>2. mIndexCatalog \in Seq(S)
    BY DEF CatalogInv
<1>3. ASSUME NEW x \in S
      PROVE  one(x) \in Seq(S) /\ \A y \in Range(one(x)) : y.table = t
  <2>1. CASE x.table = t
    <3>1. one(x) = <<x>> /\ Range(<<x>>) = {x}
        BY <2>1 DEF Range
    <3> QED
        BY <2>1, <3>1, SingletonSeq
  <2>2. CASE x.table # t
    <3>1. one(x) = <<>> /\ Range(<<>>) = {} /\ <<>> \in Seq(S)
        BY <2>2 DEF Range
    <3> QED
        BY <3>1
  <2> QED
      BY <2>1, <2>2
<1> HIDE DEF S, one
<1>4. Len(mIndexCatalog) \in Nat /\ DOMAIN mIndexCatalog = 1 .. Len(mIndexCatalog)
    BY <1>2, LenProperties
<1>5. \A i \in DOMAIN mIndexCatalog : mIndexCatalog[i] \in S
    BY <1>2, <1>4, ElementOfSeq
<1>6. /\ DOMAIN seqs = DOMAIN mIndexCatalog
      /\ \A i \in DOMAIN seqs : /\ seqs[i] \in Seq(S)
                                /\ \A y \in Range(seqs[i]) : y.table = t
    BY <1>3, <1>5
<1>7. seqs \in Seq(Seq(S))
  <2>1. seqs = [i \in 1 .. Len(mIndexCatalog) |-> seqs[i]]
      BY <1>4
  <2> HIDE DEF seqs
  <2>2. \A i \in 1 .. Len(mIndexCatalog) : seqs[i] \in Seq(S)
      BY <1>4, <1>6
  <2> QED
      BY <1>4, <2>1, <2>2, IsASeq
<1> HIDE DEF seqs, list
<1>8. list \in Seq(S) /\ Range(list) = UNION {Range(seqs[i]) : i \in DOMAIN seqs}
    BY <1>7, FlattenSeqProperties DEF list
<1>9. \A y \in Range(list) : y.table = t
    BY <1>6, <1>8
<1>10. \A i \in DOMAIN list : list[i].table = t
    BY <1>9 DEF Range
<1> QED
    BY <1>1, <1>8, <1>10 DEF S

(* Of an index that matches, the first column is among the names.          *)
LEMMA MatchedCountIs ==
    ASSUME NEW x, x.columns \in Seq(Nat), NEW names, MatchedCount(x, names) > 0
    PROVE  Columns[x.table][x.columns[1]] \in names
<1> DEFINE S == {n \in 0 .. Len(x.columns) :
                     \A i \in 1 .. n : Columns[x.table][x.columns[i]] \in names}
<1>1. Len(x.columns) \in Nat
    BY LenProperties
<1>2. S \subseteq 0 .. Len(x.columns) /\ 0 \in S
    BY <1>1
<1>3. \A n \in S : n > 0 => Columns[x.table][x.columns[1]] \in names
  <2>1. ASSUME NEW n \in S, n > 0
        PROVE  Columns[x.table][x.columns[1]] \in names
    <3>1. 1 \in 1 .. n
        BY <2>1
    <3> QED
        BY <2>1, <3>1
  <2> QED
      BY <2>1
<1>4. MatchedCount(x, names) = LastOf(S)
    BY DEF MatchedCount
<1> HIDE DEF S
<1>5. LastOf(S) \in S
    BY <1>1, <1>2, LastOfIs
<1> QED
    BY <1>3, <1>4, <1>5

(* What is offered for a table is an index of it that matches.             *)
LEMMA OfferedIs ==
    ASSUME CatalogInv, NEW t, NEW names, GetIndexByTableColumns(t, names) # NULL
    PROVE  LET x == GetIndexByTableColumns(t, names)
           IN  x.table = t /\ Columns[x.table][x.columns[1]] \in names
<1> DEFINE list == IndexListOf(t)
           count(i) == MatchedCount(list[i], names)
           best == {i \in DOMAIN list : count(i) > 0
                       /\ \A k \in DOMAIN list : count(i) >= count(k)}
<1>1. GetIndexByTableColumns(t, names) = IF best = {} THEN NULL ELSE list[FirstOf(best)]
    BY DEF GetIndexByTableColumns
<1>2. list \in Seq(Range(Indexes)) /\ \A i \in DOMAIN list : list[i].table = t
    BY IndexListIs
<1>3. best \subseteq DOMAIN list /\ \A i \in best : count(i) > 0
    OBVIOUS
<1> HIDE DEF list, best
<1>4. DOMAIN list \subseteq Nat
    BY <1>2, LenProperties
<1>5. best # {} /\ GetIndexByTableColumns(t, names) = list[FirstOf(best)]
    BY <1>1
<1>6. FirstOf(best) \in best
    BY <1>3, <1>4, <1>5, FirstOfIs
<1> DEFINE x == list[FirstOf(best)]
<1>7. x \in Range(Indexes) /\ x.table = t
    BY <1>2, <1>3, <1>6, ElementOfSeq, LenProperties
<1>8. MatchedCount(x, names) > 0
    BY <1>3, <1>6
<1> HIDE DEF x
<1>9. x.columns \in Seq(Nat)
    BY <1>7, IndexIs
<1>10. Columns[x.table][x.columns[1]] \in names
    BY <1>8, <1>9, MatchedCountIs
<1> QED
    BY <1>5, <1>7, <1>10 DEF x

(* A name in a clause is a column with its table.                          *)
LEMMA DependentColumnsAre ==
    ASSUME NEW e \in Clause, NEW o \in DependentColumns(e)
    PROVE  o \in ColumnName /\ IsColumn(o) /\ o = <<o[1], o[2]>>
<1>1. PICK c \in Comparisons(e) : o \in {c.name.left, c.name.right} /\ IsColumn(o)
    BY DEF DependentColumns
<1>2. c \in Comparison
    BY ComparisonsOf
<1>3. o \in Operands
    BY <1>1, <1>2, ComparisonIs
<1> QED
    BY <1>1, <1>3, OperandIs

(* The names in a part are names in the whole.                             *)
LEMMA DependentColumnsOfPart ==
    ASSUME NEW e \in Clause, e.type # "Binary", NEW k \in DOMAIN e.list
    PROVE  e.list[k] \in Clause /\ DependentColumns(e.list[k]) \subseteq DependentColumns(e)
<1>1. e.list[k] \in Range(e.list)
    BY DEF Range
<1>2. e.list[k] \in Clause /\ Comparisons(e.list[k]) \subseteq Comparisons(e)
    BY <1>1, ComparisonsOfParts
<1> QED
    BY <1>2 DEF DependentColumns

(* The index of a scan is of its table, and the clause has its first       *)
(* column.                                                                 *)
LEMMA CandidateIs ==
    ASSUME CatalogInv, NEW where \in Clause, where.type # "Binary", NEW t,
           CandidateIndex(where, t) # NULL
    PROVE  LET x == CandidateIndex(where, t)
           IN  /\ x.table = t
               /\ <<x.table, Columns[x.table][x.columns[1]]>> \in DependentColumns(where)
<1> DEFINE offer(k) == GetIndexByTableColumns(t, NamesIn(where.list[k], t))
           offers == {k \in DOMAIN where.list : offer(k) # NULL}
<1>1. CandidateIndex(where, t) = IF offers = {} THEN NULL ELSE offer(LastOf(offers))
    BY DEF CandidateIndex
<1>2. Len(where.list) \in Nat /\ DOMAIN where.list = 1 .. Len(where.list)
    BY Parts
<1>3. offers \subseteq 0 .. Len(where.list) /\ offers \subseteq DOMAIN where.list
      /\ \A k \in offers : offer(k) # NULL
    BY <1>2
<1> DEFINE k == LastOf(offers)
           x == offer(k)
<1> HIDE DEF offers
<1>4. offers # {} /\ CandidateIndex(where, t) = x
    BY <1>1
<1>5. k \in offers
    BY <1>2, <1>3, <1>4, LastOfIs
<1>6. k \in DOMAIN where.list /\ x # NULL
    BY <1>3, <1>5
<1> HIDE DEF k
<1> DEFINE names == NamesIn(where.list[k], t)
<1>7. x = GetIndexByTableColumns(t, names)
    OBVIOUS
<1> HIDE DEF names, x
<1>8. x.table = t /\ Columns[x.table][x.columns[1]] \in names
    BY <1>6, <1>7, OfferedIs
<1> DEFINE c == Columns[x.table][x.columns[1]]
<1>9. PICK o \in DependentColumns(where.list[k]) : o[1] = t /\ o[2] = c
    BY <1>8 DEF names, NamesIn
<1>10. /\ where.list[k] \in Clause
       /\ DependentColumns(where.list[k]) \subseteq DependentColumns(where)
    BY <1>6, DependentColumnsOfPart
<1>11. o = <<o[1], o[2]>>
    BY <1>9, <1>10, DependentColumnsAre
<1> QED
    BY <1>4, <1>8, <1>9, <1>10, <1>11

(* The clause of a statement is a list.                                    *)
LEMMA ClauseIsList ==
    ASSUME CallInv, pc \in Bound, stmt.where # NULL
    PROVE  stmt.where.type # "Binary"
<1>1. /\ text.where \in Tree
      /\ BoundClause \in Clauses[Depth] /\ BoundClause \in Clause
      /\ stmt.where = TransformToCNF(BoundClause)
    BY ClauseIs
<1> DEFINE w == WalkClause(text.where)
<1>2. w.type # "Binary" /\ w \in Clause
  <2>1. CASE text.where.type = "Test"
    <3>1. w = Single(ComparisonOf(text.where.op, text.where.left, text.where.right))
        BY <1>1, <2>1, WalkClauseOf
    <3> QED
        BY <1>1, <3>1, WalkClauseOf DEF Single
  <2>2. CASE text.where.type # "Test"
    <3>1. w.type = text.where.type /\ w \in Clause
        BY <1>1, <2>2, WalkClauseOf
    <3>2. text.where.type \in {"And", "Or"}
        BY <1>1, <2>2, TreeParts DEF TreeList
    <3> QED
        BY <3>1, <3>2
  <2> QED
      BY <2>1, <2>2
<1>3. BoundClause = AmendClause(w, stmt.tables) /\ stmt.tables \in Seq(TableNames)
    BY StmtIs DEF BoundClause
<1> HIDE DEF w
<1>4. BoundClause.type # "Binary"
    BY <1>2, <1>3, AmendClauseOf
<1>5. Flatten(BoundClause).type # "Binary"
    BY <1>1, <1>4, FlattenKeepsComparisons
<1>6. stmt.where = Flatten(BoundClause) \/ stmt.where.type = "Or"
    BY <1>1, TransformShape
<1> QED
    BY <1>5, <1>6

(***************************************************************************)
(* Lists put one after the other                                           *)
(***************************************************************************)

(* Where each of n lists begins, when list i has len[i] elements.          *)
Offsets(off, len, n) == off[0] = 0 /\ \A i \in 1 .. n : off[i] = off[i - 1] + len[i]

(* There are sums of the lengths.                                          *)
LEMMA OffsetsExist ==
    ASSUME NEW n \in Nat, NEW len, \A i \in 1 .. n : len[i] \in Nat
    PROVE  \E off : Offsets(off, len, n)
<1> DEFINE F == [p \in Nat \X Nat |-> IF p[1] \in 1 .. n THEN p[2] + len[p[1]] ELSE p[2]]
<1>1. ASSUME NEW i \in 1 .. n, NEW k \in Nat
      PROVE  F[<<i, k>>] = k + len[i]
  <2>1. i \in Nat
      OBVIOUS
  <2> QED
      BY <2>1
<1>2. F \in [Nat \X Nat -> Nat]
  <2>1. \A i \in 1 .. n, k \in Nat : k + len[i] \in Nat
      OBVIOUS
  <2> QED
      BY <2>1
<1> HIDE DEF F
<1>3. PICK off \in [0 .. n -> Nat] : RecursiveFrom(off, 0, n, 0, F)
    BY <1>2, RecursiveSequence
<1>4. off[0] = 0
  <2>1. 0 \in 0 .. n
      OBVIOUS
  <2> QED
      BY <1>3, <2>1 DEF RecursiveFrom
<1>5. ASSUME NEW i \in 1 .. n
      PROVE  off[i] = off[i - 1] + len[i]
  <2>1. off[i] = F[<<i, off[i - 1]>>]
      BY <1>3 DEF RecursiveFrom
  <2>2. i - 1 \in 0 .. n
      OBVIOUS
  <2>3. off[i - 1] \in Nat
      BY <2>2
  <2> QED
      BY <1>1, <2>1, <2>3
<1> QED
    BY <1>4, <1>5 DEF Offsets

(* The later a list, the later it begins.                                  *)
LEMMA OffsetsGrow ==
    ASSUME NEW n \in Nat, NEW len, \A i \in 1 .. n : len[i] \in Nat,
           NEW off, Offsets(off, len, n)
    PROVE  /\ \A i \in 0 .. n : off[i] \in Nat
           /\ \A i \in 0 .. n : \A k \in i .. n : off[i] <= off[k]
<1> DEFINE T == {i \in 0 .. n : off[i] \in Nat}
<1>1. 0 \in T
    BY DEF Offsets
<1>2. \A i \in 0 + 1 .. n : i - 1 \in T => i \in T
    BY DEF Offsets
<1> HIDE DEF T
<1>3. 0 .. n \subseteq T
    BY <1>1, <1>2, RangeInduction
<1>4. \A i \in 0 .. n : off[i] \in Nat
    BY <1>3 DEF T
<1>5. ASSUME NEW i \in 0 .. n
      PROVE  \A k \in i .. n : off[i] <= off[k]
  <2> DEFINE U == {k \in i .. n : off[i] <= off[k]}
  <2>1. i \in U
      BY <1>4
  <2>2. ASSUME NEW k \in i + 1 .. n, k - 1 \in U
        PROVE  k \in U
    <3>1. k \in 1 .. n /\ k - 1 \in 0 .. n /\ k \in 0 .. n /\ k \in i .. n
        OBVIOUS
    <3>2. off[k] = off[k - 1] + len[k]
        BY <3>1 DEF Offsets
    <3>3. off[i] <= off[k - 1]
        BY <2>2
    <3>4. off[k - 1] \in Nat /\ len[k] \in Nat /\ off[i] \in Nat
        BY <1>4, <3>1
    <3> QED
        BY <3>1, <3>2, <3>3, <3>4
  <2> HIDE DEF U
  <2>3. \A k \in i + 1 .. n : k - 1 \in U => k \in U
      BY <2>2
  <2>4. i .. n \subseteq U
    <3>1. i \in Nat
        OBVIOUS
    <3> QED
        BY <2>1, <2>3, <3>1, RangeInduction
  <2> QED
      BY <2>4 DEF U
<1> QED
    BY <1>4, <1>5

(* Element j of list i is found at j after the beginning of the list, and  *)
(* there is nothing else.                                                  *)
FlattenedAt(flat, seqs, off) ==
    /\ Len(flat) = off[Len(seqs)]
    /\ \A i \in 1 .. Len(seqs) : \A j \in 1 .. Len(seqs[i]) :
           off[i - 1] + j \in 1 .. off[Len(seqs)] /\ flat[off[i - 1] + j] = seqs[i][j]
    /\ \A p \in 1 .. off[Len(seqs)] :
           \E i \in 1 .. Len(seqs) : p - off[i - 1] \in 1 .. Len(seqs[i])

(* FlattenSeq puts each element where the lengths before it say, and has   *)
(* no others.                                                              *)
LEMMA FlattenSeqAt ==
    ASSUME NEW S, NEW seqs \in Seq(Seq(S)),
           NEW off, Offsets(off, [i \in DOMAIN seqs |-> Len(seqs[i])], Len(seqs))
    PROVE  FlattenedAt(FlattenSeq(seqs), seqs, off)
<1> DEFINE n == Len(seqs)
           f == Flattened(seqs)
           len == [i \in DOMAIN seqs |-> Len(seqs[i])]
           At(m) == /\ Len(f[m]) = off[m]
                    /\ \A i \in 1 .. m : \A j \in 1 .. Len(seqs[i]) :
                           off[i - 1] + j \in 1 .. off[m] /\ f[m][off[i - 1] + j] = seqs[i][j]
                    /\ \A p \in 1 .. off[m] :
                           \E i \in 1 .. m : p - off[i - 1] \in 1 .. Len(seqs[i])
           T == {m \in 1 .. n : At(m)}
<1>1. n \in Nat /\ DOMAIN seqs = 1 .. n /\ \A i \in 1 .. n : seqs[i] \in Seq(S)
    BY LenProperties
<1>2. \A i \in 1 .. n : len[i] = Len(seqs[i]) /\ len[i] \in Nat
    BY <1>1, LenProperties
<1>3. off[0] = 0 /\ \A i \in 1 .. n : off[i] = off[i - 1] + Len(seqs[i])
    BY <1>1, <1>2 DEF Offsets
<1>4. \A i \in 0 .. n : off[i] \in Nat
  <2> HIDE DEF len
  <2>1. Offsets(off, len, n)
      BY DEF len
  <2> QED
      BY <1>1, <1>2, <2>1, OffsetsGrow
<1>5. CASE seqs = <<>>
  <2>1. n = 0 /\ FlattenSeq(seqs) = <<>>
      BY <1>5, FlattenSeqIs
  <2>2. off[n] = 0
      BY <1>3, <2>1
  <2>3. Len(<<>>) = 0
      OBVIOUS
  <2> QED
      BY <1>1, <2>1, <2>2, <2>3 DEF FlattenedAt
<1>6. CASE seqs # <<>>
  <2>1. /\ n \in Nat \ {0}
        /\ f[1] = seqs[1]
        /\ \A i \in 2 .. n : f[i] = f[i - 1] \o seqs[i]
        /\ \A i \in 1 .. n : f[i] \in Seq(S)
      BY <1>6, FlattenedStep
  <2> HIDE DEF f
  <2>2. At(1)
    <3>1. 1 \in 1 .. n /\ 1 .. 1 = {1} /\ 1 - 1 = 0
        BY <2>1
    <3>2. off[1] = Len(seqs[1]) /\ Len(seqs[1]) \in Nat
        BY <1>2, <1>3, <3>1
    <3>3. Len(f[1]) = off[1]
        BY <2>1, <3>2
    <3>4. \A j \in 1 .. Len(seqs[1]) : off[0] + j = j
        BY <1>3, <3>2
    <3>5. \A p \in 1 .. off[1] : p - off[0] \in 1 .. Len(seqs[1])
        BY <1>3, <3>2
    <3> QED
        BY <2>1, <3>1, <3>2, <3>3, <3>4, <3>5
  <2>3. ASSUME NEW m \in 2 .. n, At(m - 1)
        PROVE  At(m)
    <3>1. m \in 1 .. n /\ m - 1 \in 1 .. n /\ m \in Nat
        BY <1>1
    <3>2. f[m] = f[m - 1] \o seqs[m]
        BY <2>1
    <3>3. f[m - 1] \in Seq(S) /\ seqs[m] \in Seq(S) /\ Len(seqs[m]) \in Nat
        BY <1>1, <1>2, <2>1, <3>1
    <3>4. off[m] = off[m - 1] + Len(seqs[m])
        BY <1>3, <3>1
    <3>5. off[m - 1] \in Nat
        BY <1>4, <3>1
    <3>6. Len(f[m - 1]) = off[m - 1]
        BY <2>3
    <3>7. /\ Len(f[m]) = off[m - 1] + Len(seqs[m])
          /\ \A p \in 1 .. off[m - 1] + Len(seqs[m]) :
                 f[m][p] = IF p <= off[m - 1] THEN f[m - 1][p] ELSE seqs[m][p - off[m - 1]]
      <4> DEFINE s == f[m - 1]
                 t == seqs[m]
      <4>1. s \in Seq(S) /\ t \in Seq(S) /\ f[m] = s \o t
          BY <3>2, <3>3
      <4>2. Len(s) = off[m - 1]
          BY <3>6
      <4> HIDE DEF s, t
      <4>3. /\ Len(s \o t) = Len(s) + Len(t)
            /\ \A p \in 1 .. Len(s) + Len(t) :
                   (s \o t)[p] = IF p <= Len(s) THEN s[p] ELSE t[p - Len(s)]
          BY <4>1, ConcatProperties
      <4> QED
          BY <4>1, <4>2, <4>3 DEF s, t
    <3>8. ASSUME NEW i \in 1 .. m, NEW j \in 1 .. Len(seqs[i])
          PROVE  off[i - 1] + j \in 1 .. off[m] /\ f[m][off[i - 1] + j] = seqs[i][j]
      <4>1. CASE i = m
        <5>1. j \in 1 .. Len(seqs[m])
            BY <4>1
        <5>2. off[m - 1] + j \in 1 .. off[m] /\ ~ (off[m - 1] + j <= off[m - 1])
              /\ (off[m - 1] + j) - off[m - 1] = j
          <6> DEFINE o == off[m - 1]
                     added == Len(seqs[m])
          <6>1. o \in Nat /\ added \in Nat /\ j \in 1 .. added /\ off[m] = o + added
              BY <3>3, <3>4, <3>5, <5>1
          <6> HIDE DEF o, added
          <6>2. o + j \in 1 .. o + added /\ ~ (o + j <= o) /\ (o + j) - o = j
              BY <6>1
          <6> QED
              BY <6>1, <6>2 DEF o
        <5> QED
            BY <3>4, <3>7, <4>1, <5>2
      <4>2. CASE i \in 1 .. m - 1
        <5> DEFINE p == off[i - 1] + j
        <5>1. p \in 1 .. off[m - 1] /\ f[m - 1][p] = seqs[i][j]
            BY <2>3, <4>2
        <5> HIDE DEF p
        <5>2. p \in 1 .. off[m] /\ p <= off[m - 1]
          <6> DEFINE o == off[m - 1]
                     added == Len(seqs[m])
          <6>1. o \in Nat /\ added \in Nat /\ p \in 1 .. o /\ off[m] = o + added
              BY <3>3, <3>4, <3>5, <5>1
          <6> HIDE DEF o, added
          <6>2. p \in 1 .. o + added /\ p <= o
              BY <6>1
          <6> QED
              BY <6>1, <6>2 DEF o
        <5>3. f[m][p] = seqs[i][j]
            BY <3>4, <3>7, <5>1, <5>2
        <5> QED
            BY <5>2, <5>3 DEF p
      <4> QED
          BY <3>1, <4>1, <4>2
    <3>9. ASSUME NEW p \in 1 .. off[m]
          PROVE  \E i \in 1 .. m : p - off[i - 1] \in 1 .. Len(seqs[i])
      <4>1. CASE p <= off[m - 1]
        <5>1. p \in 1 .. off[m - 1]
            BY <3>5, <4>1
        <5>2. PICK i \in 1 .. m - 1 : p - off[i - 1] \in 1 .. Len(seqs[i])
            BY <2>3, <5>1
        <5> QED
            BY <3>1, <5>2
      <4>2. CASE ~ (p <= off[m - 1])
        <5>1. p - off[m - 1] \in 1 .. Len(seqs[m])
            BY <3>3, <3>4, <3>5, <4>2
        <5>2. m \in 1 .. m
            BY <3>1
        <5> QED
            BY <5>1, <5>2
      <4> QED
          BY <4>1, <4>2
    <3>10. Len(f[m]) = off[m]
        BY <3>4, <3>7
    <3> QED
        BY <3>8, <3>9, <3>10
  <2> HIDE DEF At
  <2>4. 1 \in T
      BY <2>1, <2>2
  <2>5. \A m \in 1 + 1 .. n : m - 1 \in T => m \in T
    <3>1. ASSUME NEW m \in 2 .. n, m - 1 \in T
          PROVE  m \in T
      <4>1. m \in 1 .. n
          BY <1>1
      <4>2. At(m)
          BY <2>3, <3>1
      <4> QED
          BY <4>1, <4>2
    <3> QED
        BY <3>1
  <2> HIDE DEF T
  <2>6. 1 .. n \subseteq T
    <3>1. 1 \in Nat /\ n \in Nat
        BY <2>1
    <3> QED
        BY <2>4, <2>5, <3>1, RangeInduction
  <2>7. n \in 1 .. n
      BY <2>1
  <2>8. At(n)
      BY <2>6, <2>7 DEF T
  <2>9. FlattenSeq(seqs) = f[n]
      BY <2>1, FlattenSeqIs DEF f
  <2> QED
      BY <2>8, <2>9 DEF At, FlattenedAt
<1> QED
    BY <1>5, <1>6

(* A number that is in the set and not above another of it is the first.   *)
LEMMA FirstOfUnique ==
    ASSUME NEW S, S \subseteq Nat, NEW i \in S, \A k \in S : i <= k
    PROVE  FirstOf(S) = i
<1>1. FirstOf(S) \in S /\ \A k \in S : FirstOf(S) <= k
    BY FirstOfIs
<1>2. FirstOf(S) <= i /\ i <= FirstOf(S) /\ FirstOf(S) \in Nat /\ i \in Nat
    BY <1>1
<1> QED
    BY <1>2

(* One that is not below another is the last.                              *)
LEMMA LastOfUnique ==
    ASSUME NEW n \in Nat, NEW S, S \subseteq 0 .. n, NEW i \in S, \A k \in S : i >= k
    PROVE  LastOf(S) = i
<1> DEFINE m == LastOf(S)
<1>1. m \in S /\ \A k \in S : m >= k
    BY LastOfIs
<1> HIDE DEF m
<1>2. m >= i /\ i >= m /\ m \in Nat /\ i \in Nat
    BY <1>1
<1>3. m = i
    BY <1>2
<1> QED
    BY <1>3 DEF m

(***************************************************************************)
(* Columns and rows                                                        *)
(***************************************************************************)

(* The columns of a table of the catalog.                                  *)
LEMMA ColumnsAre ==
    ASSUME NEW t \in Tables
    PROVE  /\ t \in TableNames /\ t # NoTable
           /\ Columns[t] \in Seq(ColumnNames)
           /\ Len(Columns[t]) \in Nat /\ DOMAIN Columns[t] = 1 .. Len(Columns[t])
           /\ \A i \in DOMAIN Columns[t] : Columns[t][i] \in ColumnNames
           /\ \A c : HasColumn(t, c) <=> \E i \in DOMAIN Columns[t] : Columns[t][i] = c
<1>1. Columns[t] \in Seq(ColumnNames) /\ t \in TableNames /\ t # NoTable
    BY CatalogAssumption
<1>2. Len(Columns[t]) \in Nat /\ DOMAIN Columns[t] = 1 .. Len(Columns[t])
    BY <1>1, LenProperties
<1>3. \A i \in DOMAIN Columns[t] : Columns[t][i] \in ColumnNames
    BY <1>1, <1>2, ElementOfSeq
<1> QED
    BY <1>1, <1>2, <1>3 DEF HasColumn

(* A row of a table has a value for each of its columns.                   *)
LEMMA RowIs ==
    ASSUME NEW t \in Tables, NEW row \in Rows[t]
    PROVE  /\ row \in Seq(Values) /\ Len(row) = Len(Columns[t])
           /\ \A i \in DOMAIN Columns[t] : row[i] \in Values
<1>1. row \in [DOMAIN Columns[t] -> Values]
    BY CatalogAssumption
<1>2. Len(Columns[t]) \in Nat /\ DOMAIN Columns[t] = 1 .. Len(Columns[t])
    BY ColumnsAre
<1> QED
    BY <1>1, <1>2

(* What describes a column.                                                *)
Defs == [table : Tables, column : ColumnNames, index : Nat]

(* GetAllColumns describes each column of a table, in the order of the     *)
(* table.                                                                  *)
LEMMA AllColumnsAre ==
    ASSUME NEW t \in Tables
    PROVE  /\ GetAllColumns(t) \in Seq(Defs)
           /\ Len(GetAllColumns(t)) = Len(Columns[t])
           /\ DOMAIN GetAllColumns(t) = DOMAIN Columns[t]
           /\ \A i \in DOMAIN Columns[t] : GetAllColumns(t)[i] = Def(t, i)
<1>1. /\ Len(Columns[t]) \in Nat /\ DOMAIN Columns[t] = 1 .. Len(Columns[t])
      /\ \A i \in DOMAIN Columns[t] : Columns[t][i] \in ColumnNames
    BY ColumnsAre
<1>2. \A i \in 1 .. Len(Columns[t]) : Def(t, i) \in Defs
    BY <1>1 DEF Def, Defs
<1>3. GetAllColumns(t) = [i \in 1 .. Len(Columns[t]) |-> Def(t, i)]
    BY <1>1 DEF GetAllColumns
<1> QED
    BY <1>1, <1>2, <1>3

(* The rows of all tables.                                                 *)
AnyRow == UNION {Rows[t] : t \in Tables}

(* Rows of the first tables of a statement, as many as there are rows.     *)
IsTuple(tuple, tables) ==
    /\ tuple \in Seq(AnyRow)
    /\ Len(tuple) <= Len(tables)
    /\ \A i \in 1 .. Len(tuple) : tuple[i] \in Rows[tables[i]]

(* The columns of the first n tables.                                      *)
ColumnsOf(tables, n) == FlattenSeq([k \in 1 .. n |-> GetAllColumns(tables[k])])

(* Column j of table i is at off[i - 1] + j, in the list of columns as in  *)
(* that of the values.                                                     *)
TupleAt(tuple, tables, off) ==
    /\ \A i \in 0 .. Len(tuple) : off[i] \in Nat
    /\ \A i \in 0 .. Len(tuple) : \A k \in i .. Len(tuple) : off[i] <= off[k]
    /\ \A i \in 1 .. Len(tuple) : off[i] = off[i - 1] + Len(Columns[tables[i]])
    /\ DOMAIN ColumnsOf(tables, Len(tuple)) = 1 .. off[Len(tuple)]
    /\ \A i \in 1 .. Len(tuple) : \A j \in DOMAIN Columns[tables[i]] :
           /\ off[i - 1] + j \in 1 .. off[Len(tuple)]
           /\ ColumnsOf(tables, Len(tuple))[off[i - 1] + j] = Def(tables[i], j)
           /\ FlattenSeq(tuple)[off[i - 1] + j] = tuple[i][j]
    /\ \A p \in 1 .. off[Len(tuple)] :
           \E i \in 1 .. Len(tuple) : p - off[i - 1] \in DOMAIN Columns[tables[i]]

(* The values of the rows and the columns they are of are found at the     *)
(* same places.                                                            *)
LEMMA TupleOffsets ==
    ASSUME NEW tables \in Seq(Tables), NEW tuple, IsTuple(tuple, tables)
    PROVE  \E off : TupleAt(tuple, tables, off)
<1> DEFINE n == Len(tuple)
           len == [i \in 1 .. n |-> Len(Columns[tables[i]])]
           cols == [k \in 1 .. n |-> GetAllColumns(tables[k])]
<1>1. /\ n \in Nat /\ n <= Len(tables) /\ Len(tables) \in Nat
      /\ tuple \in Seq(AnyRow) /\ DOMAIN tuple = 1 .. n
    BY LenProperties DEF IsTuple
<1>2. \A i \in 1 .. n : tables[i] \in Tables /\ tuple[i] \in Rows[tables[i]]
  <2>1. \A i \in 1 .. n : i \in 1 .. Len(tables)
      BY <1>1
  <2> QED
      BY <2>1, ElementOfSeq DEF IsTuple
<1>3. \A i \in 1 .. n : /\ Len(Columns[tables[i]]) \in Nat
                        /\ DOMAIN Columns[tables[i]] = 1 .. Len(Columns[tables[i]])
    BY <1>2, ColumnsAre
<1>4. \A i \in 1 .. n : tuple[i] \in Seq(Values) /\ Len(tuple[i]) = Len(Columns[tables[i]])
    BY <1>2, RowIs
<1>5. \A i \in 1 .. n : /\ GetAllColumns(tables[i]) \in Seq(Defs)
                        /\ Len(GetAllColumns(tables[i])) = Len(Columns[tables[i]])
                        /\ \A j \in DOMAIN Columns[tables[i]] :
                               GetAllColumns(tables[i])[j] = Def(tables[i], j)
    BY <1>2, AllColumnsAre
<1>6. cols \in Seq(Seq(Defs)) /\ Len(cols) = n /\ DOMAIN cols = 1 .. n
      /\ \A i \in 1 .. n : cols[i] = GetAllColumns(tables[i])
    BY <1>1, <1>5
<1>7. tuple \in Seq(Seq(Values))
  <2>1. tuple = [i \in 1 .. n |-> tuple[i]]
      BY <1>1, LenProperties
  <2> QED
      BY <1>1, <1>4, <2>1, IsASeq
<1>8. \A i \in 1 .. n : len[i] = Len(Columns[tables[i]]) /\ len[i] \in Nat
    BY <1>3
<1>9. len = [i \in DOMAIN cols |-> Len(cols[i])]
    BY <1>5, <1>6
<1>10. len = [i \in DOMAIN tuple |-> Len(tuple[i])]
    BY <1>1, <1>4
<1> HIDE DEF len, cols
<1>11. PICK off : Offsets(off, len, n)
    BY <1>1, <1>8, OffsetsExist
<1>12. /\ \A i \in 0 .. n : off[i] \in Nat
       /\ \A i \in 0 .. n : \A k \in i .. n : off[i] <= off[k]
    BY <1>1, <1>8, <1>11, OffsetsGrow
<1>13. \A i \in 1 .. n : off[i] = off[i - 1] + Len(Columns[tables[i]])
    BY <1>8, <1>11 DEF Offsets
<1>14. FlattenedAt(FlattenSeq(cols), cols, off)
    BY <1>6, <1>9, <1>11, FlattenSeqAt
<1>15. FlattenedAt(FlattenSeq(tuple), tuple, off)
    BY <1>7, <1>10, <1>11, FlattenSeqAt
<1>16. FlattenSeq(cols) \in Seq(Defs)
    BY <1>6, FlattenSeqProperties
<1>17. FlattenSeq(cols) = ColumnsOf(tables, n)
    BY DEF ColumnsOf, cols
<1> DEFINE flat == ColumnsOf(tables, n)
<1>18. DOMAIN flat = 1 .. off[n]
    BY <1>6, <1>14, <1>16, <1>17, LenProperties DEF FlattenedAt
<1>19. ASSUME NEW i \in 1 .. n, NEW j \in DOMAIN Columns[tables[i]]
       PROVE  /\ off[i - 1] + j \in 1 .. off[n]
              /\ flat[off[i - 1] + j] = Def(tables[i], j)
              /\ FlattenSeq(tuple)[off[i - 1] + j] = tuple[i][j]
  <2>1. j \in 1 .. Len(cols[i]) /\ j \in 1 .. Len(tuple[i]) /\ cols[i][j] = Def(tables[i], j)
      BY <1>3, <1>4, <1>5, <1>6
  <2>2. off[i - 1] + j \in 1 .. off[n] /\ FlattenSeq(cols)[off[i - 1] + j] = cols[i][j]
      BY <1>6, <1>14, <2>1 DEF FlattenedAt
  <2>3. FlattenSeq(tuple)[off[i - 1] + j] = tuple[i][j]
      BY <1>15, <2>1 DEF FlattenedAt
  <2> QED
      BY <1>17, <2>1, <2>2, <2>3
<1>20. ASSUME NEW p \in 1 .. off[n]
       PROVE  \E i \in 1 .. n : p - off[i - 1] \in DOMAIN Columns[tables[i]]
  <2>1. PICK i \in 1 .. n : p - off[i - 1] \in 1 .. Len(tuple[i])
      BY <1>15 DEF FlattenedAt
  <2> QED
      BY <1>3, <1>4, <2>1
<1> HIDE DEF n, flat
<1>21. TupleAt(tuple, tables, off)
    BY <1>12, <1>13, <1>18, <1>19, <1>20 DEF TupleAt, n, flat
<1> QED
    BY <1>21

(* A place of the list, as the column and the table it is of.              *)
LEMMA PlaceIs ==
    ASSUME NEW tables \in Seq(Tables), NEW tuple, IsTuple(tuple, tables),
           NEW off, TupleAt(tuple, tables, off), NEW p \in DOMAIN ColumnsOf(tables, Len(tuple))
    PROVE  \E i \in 1 .. Len(tuple) : \E j \in DOMAIN Columns[tables[i]] :
               /\ p = off[i - 1] + j
               /\ ColumnsOf(tables, Len(tuple))[p] = Def(tables[i], j)
<1>1. p \in 1 .. off[Len(tuple)]
    BY DEF TupleAt
<1>2. PICK i \in 1 .. Len(tuple) : p - off[i - 1] \in DOMAIN Columns[tables[i]]
    BY <1>1 DEF TupleAt
<1>3. Len(tuple) \in Nat
    BY LenProperties DEF IsTuple
<1>4. i - 1 \in 0 .. Len(tuple) /\ Len(tuple) \in 0 .. Len(tuple)
    BY <1>3
<1>5. off[i - 1] \in Nat /\ off[Len(tuple)] \in Nat
    BY <1>4 DEF TupleAt
<1>6. p = off[i - 1] + (p - off[i - 1])
    BY <1>1, <1>5
<1> DEFINE j == p - off[i - 1]
<1>7. j \in DOMAIN Columns[tables[i]] /\ p = off[i - 1] + j
    BY <1>2, <1>6
<1> HIDE DEF j
<1>8. ColumnsOf(tables, Len(tuple))[off[i - 1] + j] = Def(tables[i], j)
    BY <1>7 DEF TupleAt
<1> QED
    BY <1>7, <1>8

(* A place in an earlier table, or in the same table at an earlier column, *)
(* is earlier.                                                             *)
LEMMA EarlierPlace ==
    ASSUME NEW tables \in Seq(Tables), NEW tuple, IsTuple(tuple, tables),
           NEW off, TupleAt(tuple, tables, off),
           NEW i \in 1 .. Len(tuple), NEW j \in DOMAIN Columns[tables[i]],
           NEW k \in i .. Len(tuple), NEW l \in DOMAIN Columns[tables[k]],
           i = k => j <= l
    PROVE  off[i - 1] + j <= off[k - 1] + l
<1>1. Len(tuple) \in Nat /\ Len(tuple) <= Len(tables) /\ Len(tables) \in Nat
    BY LenProperties DEF IsTuple
<1>2. tables[i] \in Tables /\ tables[k] \in Tables
  <2>1. i \in 1 .. Len(tables) /\ k \in 1 .. Len(tables)
      BY <1>1
  <2> QED
      BY <2>1, ElementOfSeq
<1>3. /\ Len(Columns[tables[i]]) \in Nat /\ j \in 1 .. Len(Columns[tables[i]])
      /\ Len(Columns[tables[k]]) \in Nat /\ l \in 1 .. Len(Columns[tables[k]])
    BY <1>2, ColumnsAre
<1>4. i - 1 \in 0 .. Len(tuple) /\ i \in 0 .. Len(tuple) /\ k - 1 \in 0 .. Len(tuple)
    BY <1>1
<1>5. off[i - 1] \in Nat /\ off[i] \in Nat /\ off[k - 1] \in Nat
    BY <1>4 DEF TupleAt
<1>6. CASE i = k
    BY <1>3, <1>5, <1>6
<1>7. CASE i # k
  <2>1. k - 1 \in i .. Len(tuple)
      BY <1>1, <1>7
  <2>2. off[i] <= off[k - 1]
      BY <1>4, <2>1 DEF TupleAt
  <2>3. off[i] = off[i - 1] + Len(Columns[tables[i]])
      BY DEF TupleAt
  <2> DEFINE a == off[i - 1]
             b == off[k - 1]
             len == Len(Columns[tables[i]])
  <2>4. a \in Nat /\ b \in Nat /\ len \in Nat /\ a + len <= b
      BY <1>3, <1>5, <2>2, <2>3
  <2>5. j \in 1 .. len /\ l \in Nat
      BY <1>3
  <2> HIDE DEF a, b, len
  <2>6. a + j <= b + l
      BY <2>4, <2>5
  <2> QED
      BY <2>6 DEF a, b
<1> QED
    BY <1>6, <1>7

(* Of the values of a row, the one at the first place of a column.         *)
FirstValue(def, tuple, tables) ==
    FlattenSeq(tuple)[FirstOf({p \in DOMAIN ColumnsOf(tables, Len(tuple)) :
                                   ColumnsOf(tables, Len(tuple))[p] = def})]

(* The scans of a table among the first n.                                 *)
ScansOf(t, n, tables) == {k \in 1 .. n : tables[k] = t}

(* The first place of a column has the value of that column in the first   *)
(* row of its table.                                                       *)
LEMMA FirstPlace ==
    ASSUME NEW tables \in Seq(Tables), NEW tuple, IsTuple(tuple, tables),
           NEW i \in 1 .. Len(tuple), NEW j \in DOMAIN Columns[tables[i]]
    PROVE  FirstValue(Def(tables[i], j), tuple, tables)
               = tuple[FirstOf(ScansOf(tables[i], Len(tuple), tables))][j]
<1> DEFINE n == Len(tuple)
           defs == ColumnsOf(tables, n)
           places == {p \in DOMAIN defs : defs[p] = Def(tables[i], j)}
           scans == {k \in 1 .. n : tables[k] = tables[i]}
           scan == FirstOf(scans)
<1>1. n \in Nat
    BY LenProperties DEF IsTuple
<1>2. scans \subseteq Nat /\ i \in scans /\ \A k \in scans : k \in 1 .. n /\ tables[k] = tables[i]
    OBVIOUS
<1>3. PICK off : TupleAt(tuple, tables, off)
    BY TupleOffsets
<1> HIDE DEF scans, scan
<1>4. scan \in 1 .. n /\ tables[scan] = tables[i] /\ \A k \in scans : scan <= k
  <2>1. scan \in scans /\ \A k \in scans : scan <= k
      BY <1>2, FirstOfIs DEF scan
  <2> QED
      BY <1>2, <2>1
<1> DEFINE place == off[scan - 1] + j
<1>5. j \in DOMAIN Columns[tables[scan]]
    BY <1>4
<1>6. /\ place \in DOMAIN defs /\ defs[place] = Def(tables[i], j)
      /\ FlattenSeq(tuple)[place] = tuple[scan][j]
    BY <1>3, <1>4, <1>5 DEF TupleAt
<1>7. DOMAIN defs = 1 .. off[n] /\ off[n] \in Nat
  <2>1. n \in 0 .. n
      BY <1>1
  <2> QED
      BY <1>3, <2>1 DEF TupleAt
<1>8. ASSUME NEW p \in places
      PROVE  place <= p
  <2>1. PICK k \in 1 .. n : \E l \in DOMAIN Columns[tables[k]] :
                                p = off[k - 1] + l /\ defs[p] = Def(tables[k], l)
      BY <1>3, PlaceIs
  <2>2. PICK l \in DOMAIN Columns[tables[k]] :
                 p = off[k - 1] + l /\ defs[p] = Def(tables[k], l)
      BY <2>1
  <2>3. tables[k] = tables[i] /\ l = j
      BY <2>2 DEF Def
  <2>4. k \in scans
      BY <2>3 DEF scans
  <2>5. k \in scan .. n
      BY <1>1, <1>4, <2>4
  <2>6. scan = k => j <= l
    <3>1. l \in Nat
      <4>1. tables[i] \in Tables
        <5>1. i \in 1 .. Len(tables)
            BY <1>1, LenProperties DEF IsTuple
        <5> QED
            BY <5>1, ElementOfSeq
      <4> QED
          BY <2>3, <4>1, ColumnsAre
    <3> QED
        BY <2>3, <3>1
  <2>7. off[scan - 1] + j <= off[k - 1] + l
      BY <1>3, <1>4, <1>5, <2>5, <2>6, EarlierPlace
  <2> QED
      BY <2>2, <2>7
<1>9. places \subseteq Nat /\ place \in places
    BY <1>6, <1>7
<1> HIDE DEF places, place
<1>10. FirstOf(places) = place
    BY <1>8, <1>9, FirstOfUnique
<1> QED
    BY <1>6, <1>10 DEF places, scans, scan, FirstValue, ScansOf

(* The places of a name.                                                   *)
PlacesOf(name, defs) == {p \in DOMAIN defs : NameOf(defs[p]) = name}

(* The last value that a row has of a column of one of its tables.         *)
LastValue(t, c, tuple, tables) ==
    tuple[LastOf(ScansOf(t, Len(tuple), tables))]
         [LastOf({j \in DOMAIN Columns[t] : Columns[t][j] = c})]

(* The last place of a name has the value of the last column of that name  *)
(* in the last row of its table.                                           *)
LEMMA LastPlace ==
    ASSUME NEW tables \in Seq(Tables), NEW tuple, IsTuple(tuple, tables),
           NEW t, NEW c, HasColumn(t, c), \E i \in 1 .. Len(tuple) : tables[i] = t
    PROVE  LET places == PlacesOf(<<t, c>>, ColumnsOf(tables, Len(tuple)))
           IN  /\ places # {}
               /\ FlattenSeq(tuple)[LastOf(places)] = LastValue(t, c, tuple, tables)
               /\ LastValue(t, c, tuple, tables) \in Values
<1> DEFINE n == Len(tuple)
           defs == ColumnsOf(tables, n)
           places == {p \in DOMAIN defs : NameOf(defs[p]) = <<t, c>>}
           scans == {k \in 1 .. n : tables[k] = t}
           columns == {j \in DOMAIN Columns[t] : Columns[t][j] = c}
           scan == LastOf(scans)
           column == LastOf(columns)
<1>1. n \in Nat
    BY LenProperties DEF IsTuple
<1>2. scans \subseteq 0 .. n /\ scans # {} /\ \A k \in scans : k \in 1 .. n /\ tables[k] = t
    OBVIOUS
<1>3. PICK off : TupleAt(tuple, tables, off)
    BY TupleOffsets
<1>4. t \in Tables /\ Len(Columns[t]) \in Nat /\ DOMAIN Columns[t] = 1 .. Len(Columns[t])
    BY ColumnsAre DEF HasColumn
<1>5. /\ columns \subseteq 0 .. Len(Columns[t]) /\ columns # {}
      /\ \A j \in columns : j \in DOMAIN Columns[t] /\ Columns[t][j] = c
    BY <1>4 DEF HasColumn
<1> HIDE DEF scans, scan, columns, column
<1>6. scan \in 1 .. n /\ tables[scan] = t /\ \A k \in scans : scan >= k
  <2>1. scan \in scans /\ \A k \in scans : scan >= k
      BY <1>1, <1>2, LastOfIs DEF scan
  <2> QED
      BY <1>2, <2>1
<1>7. column \in DOMAIN Columns[t] /\ Columns[t][column] = c /\ \A j \in columns : column >= j
  <2>1. column \in columns /\ \A j \in columns : column >= j
      BY <1>4, <1>5, LastOfIs DEF column
  <2> QED
      BY <1>5, <2>1
<1> DEFINE place == off[scan - 1] + column
<1>8. column \in DOMAIN Columns[tables[scan]]
    BY <1>6, <1>7
<1>9. /\ place \in DOMAIN defs /\ defs[place] = Def(t, column)
      /\ FlattenSeq(tuple)[place] = tuple[scan][column]
    BY <1>3, <1>6, <1>8 DEF TupleAt
<1>10. NameOf(Def(t, column)) = <<t, c>>
    BY <1>7 DEF NameOf, Def
<1>11. DOMAIN defs = 1 .. off[n] /\ off[n] \in Nat
  <2>1. n \in 0 .. n
      BY <1>1
  <2> QED
      BY <1>3, <2>1 DEF TupleAt
<1>12. ASSUME NEW p \in places
       PROVE  place >= p
  <2>1. PICK k \in 1 .. n : \E l \in DOMAIN Columns[tables[k]] :
                                p = off[k - 1] + l /\ defs[p] = Def(tables[k], l)
      BY <1>3, PlaceIs
  <2>2. PICK l \in DOMAIN Columns[tables[k]] :
                 p = off[k - 1] + l /\ defs[p] = Def(tables[k], l)
      BY <2>1
  <2>3. tables[k] = t /\ Columns[t][l] = c
      BY <2>2 DEF Def, NameOf
  <2>4. k \in scans /\ l \in columns
      BY <2>2, <2>3 DEF scans, columns
  <2>5. scan \in k .. n
      BY <1>1, <1>6, <2>4
  <2>6. k = scan => l <= column
      BY <1>4, <1>5, <1>7, <2>4
  <2>7. off[k - 1] + l <= off[scan - 1] + column
      BY <1>3, <1>8, <2>5, <2>6, EarlierPlace
  <2>8. p \in Nat /\ place \in Nat
      BY <1>9, <1>11
  <2> QED
      BY <2>2, <2>7, <2>8
<1>13. places \subseteq 0 .. off[n] /\ place \in places
    BY <1>9, <1>10, <1>11
<1> HIDE DEF places, place
<1>14. LastOf(places) = place
    BY <1>11, <1>12, <1>13, LastOfUnique
<1>15. places # {}
    BY <1>13
<1>16. tuple[scan][column] \in Values
  <2>1. tuple[scan] \in Rows[t]
      BY <1>6 DEF IsTuple
  <2> QED
      BY <1>4, <1>7, <2>1, RowIs
<1> QED
    BY <1>9, <1>14, <1>15, <1>16
    DEF PlacesOf, LastValue, ScansOf, places, scans, scan, columns, column

(***************************************************************************)
(* What Prepare says, and the columns it finds                             *)
(***************************************************************************)

(* The answers of DB::Execute.                                             *)
Answers ==
    {"none", "kOK", "kSQLSyntaxError", "kTableMissing", "kColumnMissing", "passed on"}

(* The statuses of a look-up.                                              *)
LEMMA LookupStatus ==
    ASSUME NEW tableRefs, NEW name
    PROVE  GetColumnDefFromQualifiedName(tableRefs, name).status
               \in {"kOK", "kColumnMissing", "kTableMissing"}
<1>1. \A def : Found(def).status = "kOK"
    BY DEF Found
<1>2. \A why : Missing(why).status = why
    BY DEF Missing
<1> QED
    BY <1>1, <1>2 DEF GetColumnDefFromQualifiedName

(* If Prepare succeeds, the tables were found where it looked for them,    *)
(* and the columns that it looked up.                                      *)
LEMMA PrepareStatusIs ==
    ASSUME NEW s, s.columns \in Seq(ColumnName)
    PROVE  /\ PrepareStatus(s) \in Answers
           /\ PrepareStatus(s) = "kOK" /\ s.type # "empty" =>
                  /\ s.where # NULL => Range(s.tables) \subseteq Tables
                  /\ s.all => Range(s.tables) \subseteq Tables
                  /\ ~ s.all /\ s.type # "create table" =>
                         \A i \in DOMAIN s.columns :
                             GetColumnDefFromQualifiedName(s.tables, s.columns[i]).status = "kOK"
<1> DEFINE unbound == {i \in DOMAIN s.columns : BoundColumns(s)[i].status # "kOK"}
<1>1. DOMAIN s.columns \subseteq Nat
    BY LenProperties
<1>2. \A i \in DOMAIN s.columns :
          /\ BoundColumns(s)[i] = GetColumnDefFromQualifiedName(s.tables, s.columns[i])
          /\ BoundColumns(s)[i].status \in Answers
    BY LookupStatus DEF BoundColumns, Answers
<1>3. PrepareStatus(s) =
          IF s.type = "empty" THEN "kOK"
          ELSE IF ~ ClauseChecked(s) THEN "kTableMissing"
          ELSE IF s.all /\ ~ Range(s.tables) \subseteq Tables THEN "kTableMissing"
          ELSE IF s.all \/ s.type = "create table" \/ unbound = {} THEN "kOK"
          ELSE BoundColumns(s)[FirstOf(unbound)].status
    BY DEF PrepareStatus
<1>4. /\ unbound \subseteq DOMAIN s.columns
      /\ \A i \in unbound : BoundColumns(s)[i].status # "kOK"
      /\ unbound = {} => \A i \in DOMAIN s.columns : BoundColumns(s)[i].status = "kOK"
    OBVIOUS
<1> HIDE DEF unbound
<1>5. unbound # {} => FirstOf(unbound) \in unbound
    BY <1>1, <1>4, FirstOfIs
<1>6. unbound # {} => BoundColumns(s)[FirstOf(unbound)].status \in Answers \ {"kOK"}
    BY <1>2, <1>4, <1>5
<1>7. PrepareStatus(s) \in Answers
    BY <1>3, <1>6 DEF Answers
<1>8. ASSUME PrepareStatus(s) = "kOK", s.type # "empty"
      PROVE  /\ ClauseChecked(s)
             /\ s.all => Range(s.tables) \subseteq Tables
             /\ ~ s.all /\ s.type # "create table" => unbound = {}
    BY <1>3, <1>6, <1>8
<1> QED
    BY <1>2, <1>4, <1>7, <1>8 DEF ClauseChecked

(* A column that is found is one of a table of the statement.              *)
LEMMA LookupIs ==
    ASSUME NEW tableRefs \in Seq(TableNames), NEW name,
           GetColumnDefFromQualifiedName(tableRefs, name).status = "kOK"
    PROVE  \E i \in DOMAIN tableRefs :
               /\ HasColumn(tableRefs[i], name[2])
               /\ name[1] \in {NoTable, tableRefs[i]}
               /\ name[1] = NoTable =>
                      i = FirstOf({k \in DOMAIN tableRefs : HasColumn(tableRefs[k], name[2])})
               /\ GetColumnDefFromQualifiedName(tableRefs, name)
                      = Found(GetColumnByName(tableRefs[i], name[2]))
<1> DEFINE having == {i \in DOMAIN tableRefs : HasColumn(tableRefs[i], name[2])}
           found == GetColumnDefFromQualifiedName(tableRefs, name)
<1>1. found =
          IF name[1] = NoTable
          THEN IF having = {} THEN Missing("kColumnMissing")
                              ELSE Found(GetColumnByName(tableRefs[FirstOf(having)], name[2]))
          ELSE IF name[1] \notin Range(tableRefs) \cap Tables THEN Missing("kTableMissing")
          ELSE IF ~ HasColumn(name[1], name[2]) THEN Missing("kColumnMissing")
          ELSE Found(GetColumnByName(name[1], name[2]))
    BY DEF GetColumnDefFromQualifiedName
<1>2. \A why : Missing(why).status = why
    BY DEF Missing
<1>3. having \subseteq DOMAIN tableRefs /\ \A i \in having : HasColumn(tableRefs[i], name[2])
    OBVIOUS
<1>4. DOMAIN tableRefs \subseteq Nat
    BY LenProperties
<1> HIDE DEF having, found
<1>5. found.status = "kOK"
    BY DEF found
<1>6. CASE name[1] = NoTable
  <2>1. having # {}
      BY <1>1, <1>2, <1>5, <1>6
  <2>2. FirstOf(having) \in having
      BY <1>3, <1>4, <2>1, FirstOfIs
  <2>3. found = Found(GetColumnByName(tableRefs[FirstOf(having)], name[2]))
      BY <1>1, <1>6, <2>1
  <2> QED
      BY <1>3, <1>6, <2>2, <2>3 DEF having, found
<1>7. CASE name[1] # NoTable
  <2>1. name[1] \in Range(tableRefs) \cap Tables
      BY <1>1, <1>2, <1>5, <1>7
  <2>2. HasColumn(name[1], name[2])
      BY <1>1, <1>2, <1>5, <1>7, <2>1
  <2>3. found = Found(GetColumnByName(name[1], name[2]))
      BY <1>1, <1>7, <2>1, <2>2
  <2>4. PICK i \in DOMAIN tableRefs : tableRefs[i] = name[1]
      BY <2>1 DEF Range
  <2> QED
      BY <1>7, <2>2, <2>3, <2>4 DEF found
<1> QED
    BY <1>6, <1>7

(* The column of a name is one of the table, and has that name.            *)
LEMMA ColumnByNameIs ==
    ASSUME NEW t, NEW c, HasColumn(t, c)
    PROVE  \E j \in DOMAIN Columns[t] : GetColumnByName(t, c) = Def(t, j) /\ Columns[t][j] = c
<1> DEFINE J == {j \in DOMAIN Columns[t] : Columns[t][j] = c}
<1>1. t \in Tables /\ \E j \in DOMAIN Columns[t] : Columns[t][j] = c
    BY DEF HasColumn
<1>2. DOMAIN Columns[t] = 1 .. Len(Columns[t]) /\ Len(Columns[t]) \in Nat
    BY <1>1, ColumnsAre
<1>3. J \subseteq Nat /\ J # {}
    BY <1>1, <1>2
<1> HIDE DEF J
<1>4. PICK j \in J : \A k \in J : j <= k
    BY <1>3, LeastNatural
<1>5. j \in DOMAIN Columns[t] /\ Columns[t][j] = c
    BY DEF J
<1>6. ASSUME NEW k \in 1 .. j - 1
      PROVE  Columns[t][k] # c
  <2>1. k \in DOMAIN Columns[t] /\ ~ (j <= k)
      BY <1>2, <1>5
  <2> QED
      BY <1>4, <2>1 DEF J
<1> DEFINE m == CHOOSE i \in DOMAIN Columns[t] :
                    /\ Columns[t][i] = c
                    /\ \A k \in 1 .. i - 1 : Columns[t][k] # c
<1>7. m \in DOMAIN Columns[t] /\ Columns[t][m] = c
    BY <1>5, <1>6
<1>8. GetColumnByName(t, c) = Def(t, m)
    BY DEF GetColumnByName
<1> QED
    BY <1>7, <1>8

(* A column of one of the first n tables.                                  *)
IsColumnOf(def, tables, n) ==
    \E i \in 1 .. n : \E j \in DOMAIN Columns[tables[i]] : def = Def(tables[i], j)

(* The list of all columns has nothing but columns of the tables.          *)
LEMMA ColumnsOfAre ==
    ASSUME NEW tables \in Seq(Tables), NEW n \in 0 .. Len(tables)
    PROVE  /\ ColumnsOf(tables, n) \in Seq(Defs)
           /\ \A p \in DOMAIN ColumnsOf(tables, n) :
                  IsColumnOf(ColumnsOf(tables, n)[p], tables, n)
<1> DEFINE cols == [k \in 1 .. n |-> GetAllColumns(tables[k])]
           flat == FlattenSeq(cols)
<1>1. Len(tables) \in Nat /\ n \in Nat /\ \A i \in 1 .. n : i \in 1 .. Len(tables)
    BY LenProperties
<1>2. \A i \in 1 .. n : tables[i] \in Tables
    BY <1>1, ElementOfSeq
<1>3. \A i \in 1 .. n : /\ GetAllColumns(tables[i]) \in Seq(Defs)
                        /\ DOMAIN GetAllColumns(tables[i]) = DOMAIN Columns[tables[i]]
                        /\ \A j \in DOMAIN Columns[tables[i]] :
                               GetAllColumns(tables[i])[j] = Def(tables[i], j)
    BY <1>2, AllColumnsAre
<1>4. cols \in Seq(Seq(Defs)) /\ DOMAIN cols = 1 .. n
      /\ \A i \in 1 .. n : cols[i] = GetAllColumns(tables[i])
    BY <1>1, <1>3
<1> HIDE DEF cols, flat
<1>5. flat \in Seq(Defs) /\ Range(flat) = UNION {Range(cols[i]) : i \in DOMAIN cols}
    BY <1>4, FlattenSeqProperties DEF flat
<1>6. ASSUME NEW p \in DOMAIN flat
      PROVE  IsColumnOf(flat[p], tables, n)
  <2>1. flat[p] \in Range(flat)
      BY DEF Range
  <2>2. PICK i \in 1 .. n : flat[p] \in Range(cols[i])
      BY <1>4, <1>5, <2>1
  <2>3. flat[p] \in Range(GetAllColumns(tables[i]))
      BY <1>4, <2>2
  <2>4. PICK j \in DOMAIN GetAllColumns(tables[i]) : flat[p] = GetAllColumns(tables[i])[j]
      BY <2>3 DEF Range
  <2>5. j \in DOMAIN Columns[tables[i]] /\ flat[p] = Def(tables[i], j)
      BY <1>3, <2>4
  <2> QED
      BY <2>5 DEF IsColumnOf
<1>7. ColumnsOf(tables, n) = flat
    BY DEF ColumnsOf, flat, cols
<1> QED
    BY <1>5, <1>6, <1>7

(* A column that a name of the select list is bound to.                    *)
IsBoundTo(def, name, tables) ==
    \E i \in DOMAIN tables : \E j \in DOMAIN Columns[tables[i]] :
        /\ def = Def(tables[i], j)
        /\ Columns[tables[i]][j] = name[2]
        /\ name[1] \in {NoTable, tables[i]}
        /\ name[1] = NoTable =>
               i = FirstOf({k \in DOMAIN tables : HasColumn(tables[k], name[2])})

(* The columns of a SELECT are columns of its tables: all of them for a    *)
(* star, those the names are bound to otherwise.                           *)
LEMMA SelectListIs ==
    ASSUME CallInv, pc = "stepping"
    PROVE  /\ \A k \in DOMAIN stmt.columns :
                  IsColumnOf(stmt.columns[k], stmt.tables, Len(stmt.tables))
           /\ ~ text.all =>
                  /\ DOMAIN stmt.columns = DOMAIN text.columns
                  /\ \A k \in DOMAIN stmt.columns :
                         IsBoundTo(stmt.columns[k], text.columns[k], stmt.tables)
<1> DEFINE s == WalkStatement(text)
<1>1. /\ text \in Texts
      /\ PrepareStatus(s) = "kOK" /\ stmt = Prepared(s)
    BY DEF CallInv, TextOfCall, StmtOfText, Bound
<1>2. /\ text.type = "select"
      /\ stmt.tables \in Seq(Tables)
      /\ DOMAIN stmt.tables = 1 .. Len(stmt.tables)
      /\ Len(stmt.tables) \in Nat \ {0}
    BY SelectIs
<1>3. text.columns \in Seq(ColumnName) /\ text.tables \in Seq(TableNames) /\ text.all \in BOOLEAN
    BY <1>1, TextIs
<1>4. /\ s.type = "select" /\ s.tables = text.tables /\ s.all = text.all
      /\ s.columns = IF text.all THEN <<>> ELSE text.columns
      /\ s = [type |-> s.type, tables |-> s.tables, columns |-> s.columns,
              all |-> s.all, where |-> s.where]
    BY <1>1, <1>2, StatementOf
<1>5. s.columns \in Seq(ColumnName)
    BY <1>3, <1>4
<1> HIDE DEF s
<1>6. /\ stmt.tables = s.tables
      /\ s.all => stmt.columns = AllColumns(s)
      /\ ~ s.all => stmt.columns = [i \in DOMAIN s.columns |-> BoundColumns(s)[i].def]
    BY <1>1, <1>4, PreparedOf
<1>7. ~ s.all => \A i \in DOMAIN s.columns :
          GetColumnDefFromQualifiedName(s.tables, s.columns[i]).status = "kOK"
    BY <1>1, <1>4, <1>5, PrepareStatusIs
<1>8. CASE text.all
  <2>1. stmt.columns = ColumnsOf(stmt.tables, Len(stmt.tables))
      BY <1>2, <1>4, <1>6, <1>8 DEF AllColumns, ColumnsOf
  <2>2. Len(stmt.tables) \in 0 .. Len(stmt.tables)
      BY <1>2
  <2>3. \A k \in DOMAIN stmt.columns : IsColumnOf(stmt.columns[k], stmt.tables, Len(stmt.tables))
      BY <1>2, <2>1, <2>2, ColumnsOfAre
  <2> QED
      BY <1>8, <2>3
<1>9. CASE ~ text.all
  <2>1. /\ DOMAIN stmt.columns = DOMAIN text.columns
        /\ \A k \in DOMAIN stmt.columns :
               stmt.columns[k]
                   = GetColumnDefFromQualifiedName(stmt.tables, text.columns[k]).def
      BY <1>4, <1>6, <1>9 DEF BoundColumns
  <2>2. ASSUME NEW k \in DOMAIN stmt.columns
        PROVE  IsBoundTo(stmt.columns[k], text.columns[k], stmt.tables)
    <3> DEFINE name == text.columns[k]
               found == GetColumnDefFromQualifiedName(stmt.tables, name)
    <3>1. found.status = "kOK"
        BY <1>4, <1>6, <1>7, <1>9, <2>1
    <3>2. stmt.tables \in Seq(TableNames)
        BY <1>3, <1>4, <1>6
    <3>3. PICK i \in DOMAIN stmt.tables :
                   /\ HasColumn(stmt.tables[i], name[2])
                   /\ name[1] \in {NoTable, stmt.tables[i]}
                   /\ name[1] = NoTable =>
                          i = FirstOf({m \in DOMAIN stmt.tables :
                                        HasColumn(stmt.tables[m], name[2])})
                   /\ found = Found(GetColumnByName(stmt.tables[i], name[2]))
        BY <3>1, <3>2, LookupIs
    <3>4. PICK j \in DOMAIN Columns[stmt.tables[i]] :
                   /\ GetColumnByName(stmt.tables[i], name[2]) = Def(stmt.tables[i], j)
                   /\ Columns[stmt.tables[i]][j] = name[2]
        BY <3>3, ColumnByNameIs
    <3>5. stmt.columns[k] = Def(stmt.tables[i], j)
        BY <2>1, <3>3, <3>4 DEF Found
    <3> QED
        BY <3>3, <3>4, <3>5 DEF IsBoundTo
  <2>3. \A k \in DOMAIN stmt.columns : IsColumnOf(stmt.columns[k], stmt.tables, Len(stmt.tables))
      BY <1>2, <2>2 DEF IsBoundTo, IsColumnOf
  <2> QED
      BY <2>1, <2>2, <2>3
<1> QED
    BY <1>3, <1>8, <1>9

(***************************************************************************)
(* The rows of a SELECT                                                    *)
(***************************************************************************)

(* The row of one more table makes a tuple longer.                         *)
LEMMA TupleGrows ==
    ASSUME NEW tables \in Seq(Tables), NEW tuple, IsTuple(tuple, tables),
           Len(tuple) < Len(tables), NEW row \in Rows[tables[Len(tuple) + 1]]
    PROVE  /\ IsTuple(Append(tuple, row), tables)
           /\ Len(Append(tuple, row)) = Len(tuple) + 1
           /\ \A i \in 1 .. Len(tuple) : Append(tuple, row)[i] = tuple[i]
           /\ Append(tuple, row)[Len(tuple) + 1] = row
<1> DEFINE n == Len(tuple)
           longer == Append(tuple, row)
<1>1. /\ n \in Nat /\ Len(tables) \in Nat /\ tuple \in Seq(AnyRow)
      /\ \A i \in 1 .. n : tuple[i] \in Rows[tables[i]]
    BY LenProperties DEF IsTuple
<1>2. n + 1 \in 1 .. Len(tables)
    BY <1>1
<1>3. row \in AnyRow
  <2>1. tables[n + 1] \in Tables
      BY <1>2, ElementOfSeq
  <2> QED
      BY <2>1 DEF AnyRow
<1>4. /\ longer \in Seq(AnyRow) /\ Len(longer) = n + 1
      /\ \A i \in 1 .. n : longer[i] = tuple[i]
      /\ longer[n + 1] = row
    BY <1>1, <1>3, AppendProperties
<1> HIDE DEF longer
<1>5. \A i \in 1 .. n + 1 : i \in 1 .. n \/ i = n + 1
    BY <1>1
<1>6. \A i \in 1 .. n + 1 : longer[i] \in Rows[tables[i]]
    BY <1>1, <1>4, <1>5
<1>7. IsTuple(longer, tables)
    BY <1>1, <1>2, <1>4, <1>6 DEF IsTuple
<1> QED
    BY <1>4, <1>7 DEF longer

(* The rows of the first tables are a tuple too.                           *)
LEMMA PrefixIsTuple ==
    ASSUME NEW tables \in Seq(Tables), NEW tuple, IsTuple(tuple, tables),
           NEW n \in 0 .. Len(tuple)
    PROVE  /\ IsTuple(SubSeq(tuple, 1, n), tables)
           /\ Len(SubSeq(tuple, 1, n)) = n
           /\ \A i \in 1 .. n : SubSeq(tuple, 1, n)[i] = tuple[i]
<1> DEFINE prefix == SubSeq(tuple, 1, n)
<1>1. /\ Len(tuple) \in Nat /\ Len(tables) \in Nat /\ tuple \in Seq(AnyRow)
      /\ Len(tuple) <= Len(tables)
      /\ \A i \in 1 .. Len(tuple) : tuple[i] \in Rows[tables[i]]
    BY LenProperties DEF IsTuple
<1>2. \A i \in 1 .. n : i \in 1 .. Len(tuple) /\ tuple[i] \in AnyRow
    BY <1>1, ElementOfSeq
<1>3. n \in Int /\ 1 \in Int
    BY <1>1
<1>4. /\ prefix \in Seq(AnyRow)
      /\ Len(prefix) = IF 1 <= n THEN n - 1 + 1 ELSE 0
      /\ \A i \in 1 .. n - 1 + 1 : prefix[i] = tuple[1 + i - 1]
    BY <1>2, <1>3, SubSeqProperties
<1> HIDE DEF prefix
<1>5. /\ Len(prefix) = n
      /\ \A i \in 1 .. n : prefix[i] = tuple[i]
    BY <1>1, <1>4
<1>6. IsTuple(prefix, tables)
    BY <1>1, <1>2, <1>4, <1>5 DEF IsTuple
<1> QED
    BY <1>5, <1>6 DEF prefix

(* Without the row of its last table it is shorter.                        *)
LEMMA TupleShrinks ==
    ASSUME NEW tables \in Seq(Tables), NEW tuple, IsTuple(tuple, tables), tuple # <<>>
    PROVE  /\ IsTuple(Front(tuple), tables)
           /\ Len(Front(tuple)) = Len(tuple) - 1
           /\ Front(tuple) = SubSeq(tuple, 1, Len(tuple) - 1)
<1>1. Len(tuple) \in Nat \ {0}
    BY LenProperties, EmptySeq DEF IsTuple
<1>2. Len(tuple) - 1 \in 0 .. Len(tuple)
    BY <1>1
<1>3. Front(tuple) = SubSeq(tuple, 1, Len(tuple) - 1)
    BY DEF Front
<1> QED
    BY <1>2, <1>3, PrefixIsTuple

(* No row of no table, before the first scan has come to one.              *)
LEMMA NoTuple ==
    ASSUME NEW tables \in Seq(Tables)
    PROVE  IsTuple(<<>>, tables) /\ Len(<<>>) = 0
<1>1. <<>> \in Seq(AnyRow) /\ Len(<<>>) = 0 /\ Len(tables) \in Nat
    BY EmptySeq, LenProperties
<1> QED
    BY <1>1 DEF IsTuple

(* Of each column of the select list the value at its first place.         *)
Projection(tuple, columns, tables) ==
    [k \in DOMAIN columns |-> FirstValue(columns[k], tuple, tables)]

(* What a SELECT delivers: a row of each of its tables, and its projection.*)
Delivered(out, columns, tables) ==
    /\ out = [rows |-> out.rows, values |-> Projection(out.rows, columns, tables)]
    /\ IsTuple(out.rows, tables) /\ Len(out.rows) = Len(tables)

(* The names in a context are those of columns of the catalog.             *)
KnownNames(ctx) == \A name \in DOMAIN ctx : HasColumn(name[1], name[2])

(* Columns of the catalog put into a context leave no other name in it.    *)
LEMMA UpdateKeepsKnown ==
    ASSUME NEW ctx, KnownNames(ctx), NEW defs, NEW values,
           \A p \in DOMAIN defs : HasColumn(defs[p].table, defs[p].column)
    PROVE  KnownNames(UpdateTupleValue(ctx, defs, values))
<1> DEFINE names == DOMAIN ctx \cup {NameOf(defs[p]) : p \in DOMAIN defs}
<1>1. DOMAIN UpdateTupleValue(ctx, defs, values) = names
    BY DEF UpdateTupleValue
<1>2. ASSUME NEW name \in names
      PROVE  HasColumn(name[1], name[2])
  <2>1. CASE name \in DOMAIN ctx
      BY <2>1 DEF KnownNames
  <2>2. CASE name \notin DOMAIN ctx
    <3>1. PICK p \in DOMAIN defs : name = NameOf(defs[p])
        BY <2>2
    <3>2. name[1] = defs[p].table /\ name[2] = defs[p].column
        BY <3>1 DEF NameOf
    <3> QED
        BY <3>2
  <2> QED
      BY <2>1, <2>2
<1> HIDE DEF names
<1> QED
    BY <1>1, <1>2 DEF KnownNames

(* The columns of a table are columns of the catalog.                      *)
LEMMA DefIsKnown ==
    ASSUME NEW t \in Tables, NEW j \in DOMAIN Columns[t]
    PROVE  HasColumn(Def(t, j).table, Def(t, j).column)
    BY DEF Def, HasColumn

(* All columns of a table are columns of the catalog.                      *)
LEMMA AllColumnsKnown ==
    ASSUME NEW t \in Tables, NEW p \in DOMAIN GetAllColumns(t)
    PROVE  HasColumn(GetAllColumns(t)[p].table, GetAllColumns(t)[p].column)
<1>1. p \in DOMAIN Columns[t] /\ GetAllColumns(t)[p] = Def(t, p)
    BY AllColumnsAre
<1> QED
    BY <1>1, DefIsKnown

(* So are those of the first tables of a statement.                        *)
LEMMA ColumnsOfKnown ==
    ASSUME NEW tables \in Seq(Tables), NEW n \in 0 .. Len(tables),
           NEW p \in DOMAIN ColumnsOf(tables, n)
    PROVE  HasColumn(ColumnsOf(tables, n)[p].table, ColumnsOf(tables, n)[p].column)
<1> DEFINE def == ColumnsOf(tables, n)[p]
<1>1. IsColumnOf(def, tables, n)
    BY ColumnsOfAre
<1> HIDE DEF def
<1>2. PICK i \in 1 .. n : \E j \in DOMAIN Columns[tables[i]] : def = Def(tables[i], j)
    BY <1>1 DEF IsColumnOf
<1>3. PICK j \in DOMAIN Columns[tables[i]] : def = Def(tables[i], j)
    BY <1>2
<1>4. tables[i] \in Tables
  <2>1. i \in 1 .. Len(tables)
      BY LenProperties
  <2> QED
      BY <2>1, ElementOfSeq
<1>5. HasColumn(def.table, def.column)
    BY <1>3, <1>4, DefIsKnown
<1> QED
    BY <1>5 DEF def

(* What the catalog, the context and the rows of a SELECT are.             *)
RowsInv ==
    /\ CatalogInv
    /\ answer \in Answers
    /\ KnownNames(context)
    /\ IndexedByClause
    /\ pc = "stepping" =>
           /\ IsTuple(rows, stmt.tables) /\ Len(rows) < Len(stmt.tables)
           /\ output # NULL => Delivered(output, stmt.columns, stmt.tables)

(* The scan that comes to a row next, and what its table is.               *)
LEMMA ScanIs ==
    ASSUME CallInv, RowsInv, pc = "stepping"
    PROVE  /\ stmt.tables \in Seq(Tables)
           /\ Len(stmt.tables) \in Nat \ {0} /\ DOMAIN stmt.tables = 1 .. Len(stmt.tables)
           /\ IsTuple(rows, stmt.tables) /\ Len(rows) \in Nat
           /\ Scan = Len(rows) + 1 /\ Scan \in 1 .. Len(stmt.tables)
           /\ Scan - 1 = Len(rows) /\ Scan - 1 \in 0 .. Len(stmt.tables)
           /\ stmt.tables[Scan] \in Tables
<1>1. /\ stmt.tables \in Seq(Tables)
      /\ Len(stmt.tables) \in Nat \ {0} /\ DOMAIN stmt.tables = 1 .. Len(stmt.tables)
    BY SelectIs
<1>2. IsTuple(rows, stmt.tables) /\ Len(rows) \in Nat /\ Len(rows) < Len(stmt.tables)
    BY LenProperties DEF RowsInv, IsTuple
<1>3. Scan = Len(rows) + 1 /\ Scan \in 1 .. Len(stmt.tables)
    BY <1>1, <1>2 DEF Scan
<1>4. Scan - 1 = Len(rows) /\ Scan - 1 \in 0 .. Len(stmt.tables)
    BY <1>1, <1>2, <1>3
<1> QED
    BY <1>1, <1>2, <1>3, <1>4, ElementOfSeq

(* The names in the contexts of a row.                                     *)
LEMMA ContextsKnown ==
    ASSUME CallInv, RowsInv, pc = "stepping", NEW row
    PROVE  KnownNames(ScanContext(row)) /\ KnownNames(JoinContext(row))
<1> DEFINE t == stmt.tables[Scan]
<1>1. /\ t \in Tables /\ stmt.tables \in Seq(Tables)
      /\ Scan - 1 \in 0 .. Len(stmt.tables)
    BY ScanIs
<1> HIDE DEF t
<1>2. KnownNames(ScanContext(row))
  <2>1. KnownNames(context)
      BY DEF RowsInv
  <2>2. KnownNames(UpdateTupleValue(context, GetAllColumns(t), row))
      BY <1>1, <2>1, AllColumnsKnown, UpdateKeepsKnown
  <2> QED
      BY <2>2 DEF ScanContext, t
<1> DEFINE outer == UpdateTupleValue(ScanContext(row), ColumnsUpTo(Scan - 1), FlattenSeq(rows))
<1>3. KnownNames(outer)
  <2>1. ColumnsUpTo(Scan - 1) = ColumnsOf(stmt.tables, Scan - 1)
      BY DEF ColumnsUpTo, ColumnsOf
  <2> QED
      BY <1>1, <1>2, <2>1, ColumnsOfKnown, UpdateKeepsKnown
<1>4. JoinContext(row) = IF Scan = 1 THEN ScanContext(row)
                         ELSE UpdateTupleValue(outer, GetAllColumns(t), row)
    BY DEF JoinContext, t
<1> HIDE DEF outer
<1>5. KnownNames(UpdateTupleValue(outer, GetAllColumns(t), row))
    BY <1>1, <1>3, AllColumnsKnown, UpdateKeepsKnown
<1> QED
    BY <1>2, <1>4, <1>5

(* What is projected is a row of each table.                               *)
LEMMA ProjectIs ==
    ASSUME CallInv, RowsInv, pc = "stepping", NEW row \in Rows[stmt.tables[Scan]],
           Scan = Len(stmt.tables)
    PROVE  Delivered([rows |-> Append(rows, row), values |-> Project(row)],
                     stmt.columns, stmt.tables)
<1> DEFINE longer == Append(rows, row)
<1>1. /\ stmt.tables \in Seq(Tables) /\ IsTuple(rows, stmt.tables)
      /\ Scan = Len(rows) + 1 /\ Len(rows) < Len(stmt.tables)
      /\ row \in Rows[stmt.tables[Len(rows) + 1]]
    BY ScanIs DEF RowsInv
<1>2. IsTuple(longer, stmt.tables) /\ Len(longer) = Scan
  <2> DEFINE tables == stmt.tables
  <2>1. /\ tables \in Seq(Tables) /\ IsTuple(rows, tables) /\ Len(rows) < Len(tables)
        /\ row \in Rows[tables[Len(rows) + 1]]
      BY <1>1
  <2> HIDE DEF tables
  <2>2. IsTuple(longer, tables) /\ Len(longer) = Len(rows) + 1
      BY <2>1, TupleGrows
  <2> QED
      BY <1>1, <2>2 DEF tables
<1>3. ColumnsUpTo(Scan) = ColumnsOf(stmt.tables, Scan)
    BY DEF ColumnsUpTo, ColumnsOf
<1>4. Project(row) = [k \in DOMAIN stmt.columns |->
          FlattenSeq(longer)[FirstOf({p \in DOMAIN ColumnsUpTo(Scan) :
                                          ColumnsUpTo(Scan)[p] = stmt.columns[k]})]]
    BY DEF Project
<1> HIDE DEF longer
<1>5. Project(row) = Projection(longer, stmt.columns, stmt.tables)
    BY <1>2, <1>3, <1>4 DEF Projection, FirstValue
<1> QED
    BY <1>2, <1>5 DEF Delivered, longer

(* The plan has for each scan an index of its table, or none.              *)
LEMMA PlannedIndexes ==
    ASSUME CallInv, RowsInv, pc = "prepared", NEW i \in DOMAIN stmt.tables,
           NEW scanned, scanned = GeneratedPlan(stmt).index[i], scanned # NULL
    PROVE  /\ scanned.table = stmt.tables[i]
           /\ <<scanned.table, Columns[scanned.table][scanned.columns[1]]>>
                  \in DependentColumns(stmt.where)
<1>1. scanned = IF stmt.where = NULL THEN NULL ELSE CandidateIndex(stmt.where, stmt.tables[i])
    BY DEF GeneratedPlan
<1>2. stmt.where # NULL /\ scanned = CandidateIndex(stmt.where, stmt.tables[i])
    BY <1>1
<1>3. stmt.where \in Clause /\ stmt.where.type # "Binary"
    BY <1>2, ClauseIs, ClauseIsList DEF Bound
<1>4. CatalogInv
    BY DEF RowsInv
<1> QED
    BY <1>2, <1>3, <1>4, CandidateIs

(* The catalog has some of the indexes there may be.                       *)
LEMMA InitialCatalog ==
    ASSUME NEW S \in SUBSET DOMAIN Indexes
    PROVE  FlattenSeq([i \in DOMAIN Indexes |-> IF i \in S THEN <<Indexes[i]>> ELSE <<>>])
               \in Seq(Range(Indexes))
<1> DEFINE R == Range(Indexes)
           one(i) == IF i \in S THEN <<Indexes[i]>> ELSE <<>>
           seqs == [i \in DOMAIN Indexes |-> one(i)]
<1>1. Indexes \in Seq([table : Tables, columns : Seq(Nat)])
    BY CatalogAssumption
<1>2. Len(Indexes) \in Nat /\ DOMAIN Indexes = 1 .. Len(Indexes)
    BY <1>1, LenProperties
<1>3. ASSUME NEW i \in DOMAIN Indexes
      PROVE  one(i) \in Seq(R)
  <2>1. Indexes[i] \in R
      BY DEF Range
  <2> HIDE DEF R
  <2>2. <<Indexes[i]>> \in Seq(R) /\ <<>> \in Seq(R)
      BY <2>1, SingletonSeq, EmptySeq
  <2> QED
      BY <2>2
<1> HIDE DEF R, one
<1>4. seqs = [i \in 1 .. Len(Indexes) |-> one(i)]
    BY <1>2
<1>5. seqs \in Seq(Seq(R))
    BY <1>2, <1>3, <1>4, IsASeq
<1> HIDE DEF seqs
<1>6. FlattenSeq(seqs) \in Seq(R)
    BY <1>5, FlattenSeqProperties
<1> QED
    BY <1>6 DEF R, seqs, one

(* Prepare answers what it may answer.                                     *)
LEMMA PrepareAnswers ==
    ASSUME CallInv, pc = "parsed"
    PROVE  PrepareStatus(stmt) \in Answers
<1>1. text \in Texts /\ stmt = WalkStatement(text)
    BY DEF CallInv, TextOfCall, StmtOfText
<1>2. stmt.columns \in Seq(ColumnName)
  <2>1. text.columns \in Seq(ColumnName) /\ <<>> \in Seq(ColumnName)
      BY <1>1, TextIs, EmptySeq
  <2>2. stmt.columns = IF text.type = "delete" \/ (text.type = "select" /\ text.all)
                       THEN <<>> ELSE text.columns
      BY <1>1, StatementOf
  <2> QED
      BY <2>1, <2>2
<1> QED
    BY <1>2, PrepareStatusIs

(* The rows that a SELECT keeps are one of each of its first tables, what  *)
(* it delivers is the projection of one of each, the context has names of  *)
(* columns that exist, and the plan has indexes of the tables they are     *)
(* used for.                                                               *)
THEOREM RowsInvariance == Spec => []RowsInv
<1>1. Init => RowsInv
  <2> SUFFICES ASSUME Init
               PROVE  RowsInv
      OBVIOUS
  <2>1. PICK S \in SUBSET DOMAIN Indexes :
            mIndexCatalog =
               FlattenSeq([i \in DOMAIN Indexes |-> IF i \in S THEN <<Indexes[i]>> ELSE <<>>])
      BY DEF Init
  <2>2. CatalogInv
      BY <2>1, InitialCatalog DEF CatalogInv
  <2>3. answer \in Answers /\ pc = "idle" /\ plan = NULL /\ context = <<>>
      BY DEF Init, Answers
  <2>4. KnownNames(context)
    <3>1. DOMAIN context = {}
        BY <2>3
    <3> QED
        BY <3>1 DEF KnownNames
  <2> QED
      BY <2>2, <2>3, <2>4 DEF RowsInv, IndexedByClause
<1>2. CallInv /\ RowsInv /\ [Next]_vars => RowsInv'
  <2> SUFFICES ASSUME CallInv, RowsInv, [Next]_vars
               PROVE  RowsInv'
      OBVIOUS
  <2>1. /\ CatalogInv /\ answer \in Answers /\ KnownNames(context) /\ IndexedByClause
        /\ pc # "stepping" => plan = NULL /\ rows = <<>>
      BY DEF RowsInv, CallInv, PlanOfStmt
  <2>2. ASSUME UNCHANGED mIndexCatalog
        PROVE  CatalogInv'
      BY <2>1, <2>2 DEF CatalogInv
  <2>3. ASSUME UNCHANGED <<plan, stmt>>
        PROVE  IndexedByClause'
      BY <2>1, <2>3 DEF IndexedByClause
  <2>4. ASSUME plan' = NULL
        PROVE  IndexedByClause'
      BY <2>4 DEF IndexedByClause
  <2>5. ASSUME UNCHANGED context
        PROVE  KnownNames(context')
      BY <2>1, <2>5
  <2>6. ASSUME NEW status \in Answers, Answer(status)
        PROVE  RowsInv'
    <3>1. KnownNames(context')
        BY <2>6 DEF Answer, KnownNames
    <3>2. CatalogInv' /\ IndexedByClause'
        BY <2>2, <2>4, <2>6 DEF Answer
    <3>3. answer' \in Answers /\ pc' # "stepping"
        BY <2>6 DEF Answer
    <3> QED
        BY <3>1, <3>2, <3>3 DEF RowsInv
  <2>7. CASE \E t \in Texts : Execute(t)
    <3>1. /\ answer' = "none" /\ pc' # "stepping" /\ pc # "stepping"
          /\ UNCHANGED <<mIndexCatalog, plan, context>>
        BY <2>7 DEF Execute
    <3> QED
        BY <2>1, <2>2, <2>4, <2>5, <3>1 DEF RowsInv, Answers
  <2>8. CASE ParseQuery \/ Prepare \/ GeneratePlanOfNoTable \/ BeginPerform
    <3>1. /\ pc' # "stepping" /\ pc # "stepping"
          /\ UNCHANGED <<mIndexCatalog, plan, context, answer>>
        BY <2>8 DEF ParseQuery, Prepare, GeneratePlanOfNoTable, BeginPerform
    <3> QED
        BY <2>1, <2>2, <2>4, <2>5, <3>1 DEF RowsInv
  <2>9. CASE GeneratePlan
    <3>1. /\ pc = "prepared" /\ stmt.type = "select" /\ Range(stmt.tables) \subseteq Tables
          /\ plan' = GeneratedPlan(stmt)
          /\ UNCHANGED <<mIndexCatalog, stmt, rows, context, output, answer>>
        BY <2>9 DEF GeneratePlan
    <3>2. IndexedByClause'
      <4>1. DOMAIN GeneratedPlan(stmt).index = DOMAIN stmt.tables
          BY DEF GeneratedPlan
      <4> QED
          BY <3>1, <4>1, PlannedIndexes DEF IndexedByClause
    <3>3. stmt.tables \in Seq(Tables) /\ Len(stmt.tables) \in Nat \ {0}
        BY <3>1, TablesOfSelect DEF Bound
    <3>4. rows = <<>> /\ output = NULL
        BY <3>1 DEF CallInv, PlanOfStmt
    <3>5. IsTuple(rows, stmt.tables) /\ Len(rows) < Len(stmt.tables)
        BY <3>3, <3>4, NoTuple
    <3> QED
        BY <2>1, <2>2, <2>5, <3>1, <3>2, <3>4, <3>5 DEF RowsInv
  <2>10. CASE Step
    <3>1. /\ pc = "stepping"
          /\ UNCHANGED <<mIndexCatalog, stmt, plan, pc, answer>>
        BY <2>10 DEF Step
    <3>2. PICK row \in Rows[stmt.tables[Scan]] :
                   SkipRow(row) \/ JoinRejects(row) \/ KeepRow(row) \/ DeliverRow(row)
        BY <2>10 DEF Step
    <3>3. KnownNames(context')
      <4>1. context' = ScanContext(row) \/ context' = JoinContext(row)
          BY <3>2 DEF SkipRow, JoinRejects, KeepRow, DeliverRow
      <4> QED
          BY <3>1, <4>1, ContextsKnown
    <3>4. /\ stmt.tables \in Seq(Tables) /\ IsTuple(rows, stmt.tables)
          /\ Len(rows) < Len(stmt.tables) /\ Len(rows) \in Nat /\ Len(stmt.tables) \in Nat
          /\ Scan = Len(rows) + 1
        BY <3>1, ScanIs DEF RowsInv
    <3>5. CASE SkipRow(row) \/ JoinRejects(row)
      <4>1. UNCHANGED rows /\ output' = NULL
          BY <3>5 DEF SkipRow, JoinRejects
      <4> QED
          BY <2>1, <2>2, <2>3, <3>1, <3>3, <3>4, <4>1 DEF RowsInv
    <3>6. CASE KeepRow(row)
      <4>1. rows' = Append(rows, row) /\ output' = NULL /\ Scan < Len(stmt.tables)
          BY <3>6 DEF KeepRow
      <4>2. row \in Rows[stmt.tables[Len(rows) + 1]]
          BY <3>4
      <4>3. IsTuple(rows', stmt.tables) /\ Len(rows') = Len(rows) + 1
          BY <3>4, <4>1, <4>2, TupleGrows
      <4>4. Len(rows') < Len(stmt.tables)
          BY <3>4, <4>1, <4>3
      <4> QED
          BY <2>1, <2>2, <2>3, <3>1, <3>3, <4>1, <4>3, <4>4 DEF RowsInv
    <3>7. CASE DeliverRow(row)
      <4>1. /\ UNCHANGED rows /\ Scan = Len(stmt.tables)
            /\ output' = [rows |-> Append(rows, row), values |-> Project(row)]
          BY <3>7 DEF DeliverRow
      <4>2. Delivered(output', stmt.columns, stmt.tables)
          BY <3>1, <4>1, ProjectIs
      <4> QED
          BY <2>1, <2>2, <2>3, <3>1, <3>3, <3>4, <4>1, <4>2 DEF RowsInv
    <3> QED
        BY <3>2, <3>5, <3>6, <3>7
  <2>11. CASE InnerEnds
    <3>1. /\ pc = "stepping" /\ rows # <<>> /\ rows' = Front(rows) /\ output' = NULL
          /\ UNCHANGED <<mIndexCatalog, stmt, plan, context, pc, answer>>
        BY <2>11 DEF InnerEnds
    <3>2. /\ stmt.tables \in Seq(Tables) /\ IsTuple(rows, stmt.tables)
          /\ Len(rows) < Len(stmt.tables) /\ Len(rows) \in Nat /\ Len(stmt.tables) \in Nat
        BY <3>1, ScanIs DEF RowsInv
    <3>3. IsTuple(rows', stmt.tables) /\ Len(rows') = Len(rows) - 1
        BY <3>1, <3>2, TupleShrinks
    <3>4. Len(rows') < Len(stmt.tables)
        BY <3>2, <3>3
    <3> QED
        BY <2>1, <2>2, <2>3, <2>5, <3>1, <3>3, <3>4 DEF RowsInv
  <2>12. CASE PerformIterator
    <3>1. /\ pc = "performing" /\ pc' = pc
          /\ UNCHANGED <<mIndexCatalog, stmt, plan, answer>>
          /\ \E row : context' = PerformContext(row)
        BY <2>12 DEF PerformIterator
    <3>2. PICK row : context' = PerformContext(row)
        BY <3>1
    <3>3. stmt.tables[1] \in Tables
        BY <3>1 DEF CallInv, PlanOfStmt
    <3>4. KnownNames(context')
      <4> DEFINE t == stmt.tables[1]
      <4>1. t \in Tables
          BY <3>3
      <4> HIDE DEF t
      <4>2. KnownNames(UpdateTupleValue(context, GetAllColumns(t), row))
          BY <2>1, <4>1, AllColumnsKnown, UpdateKeepsKnown
      <4>3. context' \in {context, UpdateTupleValue(context, GetAllColumns(t), row)}
          BY <3>2 DEF PerformContext, t
      <4> QED
          BY <2>1, <4>2, <4>3
    <3> QED
        BY <2>1, <2>2, <2>3, <3>1, <3>4 DEF RowsInv
  <2>13. CASE SyntaxError \/ PrepareFails \/ PassOn \/ SelectEnds \/ TableMissing \/ PerformEnds
    <3>1. CASE PrepareFails
        BY <2>6, <3>1, PrepareAnswers DEF PrepareFails
    <3>2. CASE ~ PrepareFails
      <4>1. \E status \in Answers : Answer(status)
          BY <2>13, <3>2 DEF SyntaxError, PassOn, SelectEnds, TableMissing, PerformEnds, Answers
      <4> QED
          BY <2>6, <4>1
    <3> QED
        BY <3>1, <3>2
  <2>14. CASE UNCHANGED vars
    <3>1. UNCHANGED <<mIndexCatalog, stmt, plan, rows, context, output, pc, answer>>
        BY <2>14 DEF vars
    <3> QED
        BY <2>1, <2>2, <2>3, <2>5, <3>1 DEF RowsInv
  <2> QED
      BY <2>7, <2>8, <2>9, <2>10, <2>11, <2>12, <2>13, <2>14 DEF Next
<1> QED
    BY <1>1, <1>2, CallInvariance, PTL DEF Spec

(* At each stage of a call each variable holds what it may.                *)
THEOREM TypeCorrect == Spec => []TypeOK
<1>1. ASSUME CallInv, RowsInv
      PROVE  TypeOK
  <2>1. pc \in {"idle", "parsing", "parsed"} \cup Bound
      BY <1>1 DEF CallInv
  <2>2. Range(mIndexCatalog) \subseteq Range(Indexes)
    <3>1. mIndexCatalog \in Seq(Range(Indexes))
        BY <1>1 DEF RowsInv, CatalogInv
    <3>2. \A i \in DOMAIN mIndexCatalog : mIndexCatalog[i] \in Range(Indexes)
        BY <3>1, LenProperties, ElementOfSeq
    <3> QED
        BY <3>2 DEF Range
  <2>3. pc = "idle" => text = NULL
      BY <1>1 DEF CallInv, TextOfCall
  <2>4. pc # "idle" => text \in Texts /\ text # NULL
    <3>1. pc # "idle" => text \in Texts
        BY <1>1 DEF CallInv, TextOfCall
    <3>2. NULL.type \notin StatementType
        BY DEF NULL, StatementType
    <3> QED
        BY <3>1, <3>2, TextIs
  <2>5. pc \in {"idle", "parsing"} => stmt = NULL
      BY <1>1 DEF CallInv, StmtOfText
  <2>6. pc \in Bound \cup {"parsed"} =>
            stmt.type \in StatementType \ {"syntax error"} /\ stmt # NULL
    <3>1. ASSUME pc \in Bound \cup {"parsed"}
          PROVE  stmt.type = text.type
      <4>1. text \in Texts
          BY <1>1, <3>1 DEF CallInv, TextOfCall, Bound
      <4>2. CASE pc = "parsed"
        <5>1. stmt = WalkStatement(text)
            BY <1>1, <4>2 DEF CallInv, StmtOfText
        <5> QED
            BY <4>1, <5>1, StatementOf
      <4>3. CASE pc \in Bound
          BY <1>1, <4>3, StmtIs
      <4> QED
          BY <3>1, <4>2, <4>3
    <3>2. pc \in Bound \cup {"parsed"} => text.type # "syntax error"
        BY <1>1 DEF CallInv, TextOfCall
    <3>3. pc \in Bound \cup {"parsed"} => text.type \in StatementType
        BY <2>4, TextIs DEF Bound
    <3>4. NULL.type \notin StatementType
        BY DEF NULL, StatementType
    <3> QED
        BY <3>1, <3>2, <3>3, <3>4
  <2>7. /\ pc # "stepping" => plan = NULL /\ rows = <<>>
        /\ pc = "stepping" => plan # NULL
    <3>1. pc = "stepping" => plan = [index |-> plan.index, local |-> plan.local]
        BY <1>1 DEF CallInv, PlanOfStmt
    <3>2. \A a, b : [index |-> a, local |-> b] # NULL
        BY DEF NULL
    <3> QED
        BY <1>1, <3>1, <3>2 DEF CallInv, PlanOfStmt
  <2>8. pc = "stepping" => /\ Len(rows) < Len(stmt.tables)
                           /\ DOMAIN rows = 1 .. Len(rows)
                           /\ \A i \in 1 .. Len(rows) : rows[i] \in Rows[stmt.tables[i]]
      BY <1>1, LenProperties DEF RowsInv, IsTuple
  <2>9. rows = <<>> => DOMAIN rows = {}
      OBVIOUS
  <2>10. \A name \in DOMAIN context : HasColumn(name[1], name[2])
      BY <1>1 DEF RowsInv, KnownNames
  <2>11. output # NULL => pc \in {"stepping", "performing"}
      BY <1>1 DEF CallInv, PlanOfStmt
  <2>12. answer \in Answers
      BY <1>1 DEF RowsInv
  <2> QED
      BY <2>1, <2>2, <2>3, <2>4, <2>5, <2>6, <2>7, <2>8, <2>9, <2>10, <2>11, <2>12
      DEF TypeOK, Answers, Bound
<1> QED
    BY <1>1, CallInvariance, RowsInvariance, PTL

(* An index is scanned for its own table, whose column the clause names.   *)
THEOREM IndexIsOfClause == Spec => []IndexedByClause
<1>1. RowsInv => IndexedByClause
    BY DEF RowsInv
<1> QED
    BY <1>1, RowsInvariance, PTL

(* A column that a name is bound to has that name, and the table of it.    *)
LEMMA BoundHasName ==
    ASSUME NEW def, NEW name, NEW tables, IsBoundTo(def, name, tables)
    PROVE  def.column = name[2] /\ name[1] \in {NoTable, def.table}
<1>1. PICK i \in DOMAIN tables : \E j \in DOMAIN Columns[tables[i]] :
               /\ def = Def(tables[i], j)
               /\ Columns[tables[i]][j] = name[2]
               /\ name[1] \in {NoTable, tables[i]}
    BY DEF IsBoundTo
<1>2. PICK j \in DOMAIN Columns[tables[i]] :
               /\ def = Def(tables[i], j)
               /\ Columns[tables[i]][j] = name[2]
               /\ name[1] \in {NoTable, tables[i]}
    BY <1>1
<1> QED
    BY <1>2 DEF Def

(* Every row that a SELECT delivers has the values of the columns that the *)
(* text asks for, each of the first scan of the table it was bound to.     *)
THEOREM ResultFits == Spec => []ResultFitsSelectList
<1>1. ASSUME CallInv, RowsInv, pc = "stepping", output # NULL
      PROVE  /\ DOMAIN output.values = DOMAIN stmt.columns
             /\ \A k \in DOMAIN stmt.columns :
                 LET def == stmt.columns[k]
                     scan == FirstOf({i \in DOMAIN stmt.tables : stmt.tables[i] = def.table})
                 IN  /\ output.values[k] = output.rows[scan][def.index]
                     /\ ~ text.all => /\ def.column = text.columns[k][2]
                                      /\ text.columns[k][1] \in {NoTable, def.table}
  <2> DEFINE tables == stmt.tables
             tuple == output.rows
  <2>1. /\ tables \in Seq(Tables) /\ DOMAIN tables = 1 .. Len(tables)
        /\ Delivered(output, stmt.columns, tables)
      BY <1>1, SelectIs DEF RowsInv
  <2>2. /\ IsTuple(tuple, tables) /\ Len(tuple) = Len(tables)
        /\ output = [rows |-> tuple, values |-> Projection(tuple, stmt.columns, tables)]
      BY <2>1 DEF Delivered
  <2> HIDE DEF tables, tuple
  <2>3. output.values = Projection(tuple, stmt.columns, tables)
      BY <2>2
  <2>4. ASSUME NEW k \in DOMAIN stmt.columns
        PROVE  LET def == stmt.columns[k]
                   scan == FirstOf({i \in DOMAIN tables : tables[i] = def.table})
               IN  /\ output.values[k] = tuple[scan][def.index]
                   /\ ~ text.all => /\ def.column = text.columns[k][2]
                                    /\ text.columns[k][1] \in {NoTable, def.table}
    <3> DEFINE def == stmt.columns[k]
    <3>1. IsColumnOf(def, tables, Len(tables))
        BY <1>1, SelectListIs DEF tables
    <3>2. ~ text.all => IsBoundTo(def, text.columns[k], tables)
        BY <1>1, SelectListIs DEF tables
    <3>3. output.values[k] = FirstValue(def, tuple, tables)
        BY <2>3 DEF Projection
    <3> HIDE DEF def
    <3>4. PICK i \in 1 .. Len(tuple) : \E j \in DOMAIN Columns[tables[i]] : def = Def(tables[i], j)
        BY <2>2, <3>1 DEF IsColumnOf
    <3>5. PICK j \in DOMAIN Columns[tables[i]] : def = Def(tables[i], j)
        BY <3>4
    <3>6. def.table = tables[i] /\ def.index = j
        BY <3>5 DEF Def
    <3> DEFINE scan == FirstOf(ScansOf(tables[i], Len(tuple), tables))
    <3>7. FirstValue(Def(tables[i], j), tuple, tables) = tuple[scan][j]
        BY <2>1, <2>2, FirstPlace
    <3>8. scan = FirstOf({m \in DOMAIN tables : tables[m] = def.table})
        BY <2>1, <2>2, <3>6 DEF ScansOf
    <3>9. output.values[k] = tuple[scan][def.index]
        BY <3>3, <3>5, <3>6, <3>7
    <3>10. ~ text.all => /\ def.column = text.columns[k][2]
                         /\ text.columns[k][1] \in {NoTable, def.table}
        BY <3>2, BoundHasName
    <3> QED
        BY <3>8, <3>9, <3>10 DEF def
  <2>5. DOMAIN output.values = DOMAIN stmt.columns
      BY <2>3 DEF Projection
  <2> QED
      BY <2>4, <2>5 DEF tables, tuple
<1>2. CallInv /\ RowsInv => ResultFitsSelectList
    BY <1>1 DEF ResultFitsSelectList
<1> QED
    BY <1>2, CallInvariance, RowsInvariance, PTL

(***************************************************************************)
(* The names in a clause, from the text to the normal form                 *)
(***************************************************************************)

(* The names in a comparison, in a list of one, and in any list.           *)
LEMMA NamesOfBinary ==
    ASSUME NEW op \in Operators, NEW left \in Operands, NEW right \in Operands
    PROVE  DependentColumns(ComparisonOf(op, left, right)) = {o \in {left, right} : IsColumn(o)}
<1> DEFINE c == ComparisonOf(op, left, right)
<1>0. /\ c \in Comparison /\ c.type = "Binary"
      /\ c.name = [op |-> op, left |-> left, right |-> right]
    BY ComparisonOfIs
<1> HIDE DEF c
<1>1. c \in Comparison /\ c.type = "Binary" /\ c.name.left = left /\ c.name.right = right
    BY <1>0
<1>2. c \in Clause
    BY <1>1, Levels, LevelsAreClauses, ComparisonAssumption
<1>3. Comparisons(c) = {c}
    BY <1>1, <1>2, ComparisonsOf
<1>4. DependentColumns(c) = {o \in {left, right} : IsColumn(o)}
    BY <1>1, <1>3 DEF DependentColumns
<1> QED
    BY <1>4 DEF c

(* A name in a list is one in a part of it.                                *)
LEMMA NamesOfList ==
    ASSUME NEW e \in Clause, e.type # "Binary", NEW o \in DependentColumns(e)
    PROVE  \E i \in DOMAIN e.list : o \in DependentColumns(e.list[i])
<1>1. PICK c \in Comparisons(e) : o \in {c.name.left, c.name.right} /\ IsColumn(o)
    BY DEF DependentColumns
<1>2. PICK i \in DOMAIN e.list : c \in Comparisons(e.list[i])
    BY <1>1, ComparisonsOfParts DEF Range
<1>3. o \in DependentColumns(e.list[i])
    BY <1>1, <1>2 DEF DependentColumns
<1> QED
    BY <1>3

(* The tree walker keeps every name and adds none.                         *)
LEMMA WalkKeepsNames ==
    ASSUME NEW x \in Tree
    PROVE  DependentColumns(WalkClause(x)) = NamesWritten(x)
<1> DEFINE T == {y \in Tree : DependentColumns(WalkClause(y)) = NamesWritten(y)}
<1>1. ASSUME NEW y \in Tree, y.type # "Test" => \A i \in DOMAIN y.list : y.list[i] \in T
      PROVE  y \in T
  <2>1. WalkClause(y) \in Clause
      BY WalkClauseOf
  <2>2. CASE y.type = "Test"
    <3> DEFINE c == ComparisonOf(y.op, y.left, y.right)
    <3>1. y.op \in Operators /\ y.left \in Operands /\ y.right \in Operands
        BY <2>2, TreeParts DEF Test
    <3>2. NamesWritten(y) = DependentColumns(c)
      <4>1. NamesWritten(y) = {o \in {y.left, y.right} : IsColumn(o)}
          BY <2>2, NamesWrittenOf
      <4>2. DependentColumns(c) = {o \in {y.left, y.right} : IsColumn(o)}
          BY <3>1, NamesOfBinary
      <4> QED
          BY <4>1, <4>2
    <3> HIDE DEF c
    <3>3. WalkClause(y) = Single(c)
        BY <2>2, WalkClauseOf DEF c
    <3>4. /\ WalkClause(y).type # "Binary" /\ DOMAIN WalkClause(y).list = {1}
          /\ WalkClause(y).list[1] = c
        BY <3>3 DEF Single
    <3>5. DependentColumns(c) \subseteq DependentColumns(WalkClause(y))
        BY <2>1, <3>4, DependentColumnsOfPart
    <3>6. ASSUME NEW o \in DependentColumns(WalkClause(y))
          PROVE  o \in DependentColumns(c)
        BY <2>1, <3>4, NamesOfList
    <3> QED
        BY <3>2, <3>5, <3>6
  <2>3. CASE y.type # "Test"
    <3> DEFINE w == WalkClause(y)
    <3>1. /\ w.type = y.type /\ DOMAIN w.list = DOMAIN y.list
          /\ \A i \in DOMAIN y.list : w.list[i] = WalkClause(y.list[i])
        BY <2>3, WalkClauseOf
    <3>2. w.type # "Binary"
        BY <2>3, <3>1, TreeParts DEF TreeList
    <3>3. ASSUME NEW o \in NamesWritten(y)
          PROVE  o \in DependentColumns(w)
      <4>1. PICK i \in DOMAIN y.list : o \in NamesWritten(y.list[i])
          BY <2>3, NamesWrittenOf
      <4>2. o \in DependentColumns(WalkClause(y.list[i]))
          BY <1>1, <2>3, <4>1
      <4>3. DependentColumns(w.list[i]) \subseteq DependentColumns(w)
          BY <2>1, <3>1, <3>2, DependentColumnsOfPart
      <4> QED
          BY <3>1, <4>2, <4>3
    <3>4. ASSUME NEW o \in DependentColumns(w)
          PROVE  o \in NamesWritten(y)
      <4>1. PICK i \in DOMAIN w.list : o \in DependentColumns(w.list[i])
          BY <2>1, <3>2, NamesOfList
      <4>2. i \in DOMAIN y.list /\ o \in NamesWritten(y.list[i])
          BY <1>1, <2>3, <3>1, <4>1
      <4> QED
          BY <2>3, <4>2, NamesWrittenOf
    <3> QED
        BY <3>3, <3>4
  <2> QED
      BY <2>2, <2>3
<1> HIDE DEF T
<1>2. Tree \subseteq T
    BY <1>1, TreeInduction
<1> QED
    BY <1>2 DEF T

(* A name is amended to a name, and nothing else is.                       *)
LEMMA AmendedIsColumn ==
    ASSUME NEW name, NEW tableRefs
    PROVE  /\ IsColumn(AmendColumn(name, tableRefs)) <=> IsColumn(name)
           /\ ~ IsColumn(name) => AmendColumn(name, tableRefs) = name
<1> DEFINE owners == {t \in Range(tableRefs) : HasColumn(t, name[2])}
           t == CHOOSE u \in owners : TRUE
<1>1. AmendColumn(name, tableRefs) =
          IF IsColumn(name) /\ name[1] = NoTable /\ \E u \in owners : owners = {u}
          THEN <<t, name[2]>> ELSE name
    BY DEF AmendColumn
<1> HIDE DEF owners, t
<1>2. IsColumn(<<t, name[2]>>)
    BY DEF IsColumn
<1> QED
    BY <1>1, <1>2

(* Prepare amends each name, loses none and adds none.                     *)
LEMMA AmendKeepsNames ==
    ASSUME NEW tableRefs \in Seq(TableNames), NEW e \in Clause
    PROVE  /\ \A o \in DependentColumns(e) :
                  AmendColumn(o, tableRefs) \in DependentColumns(AmendClause(e, tableRefs))
           /\ \A o \in DependentColumns(AmendClause(e, tableRefs)) :
                  \E name \in DependentColumns(e) : o = AmendColumn(name, tableRefs)
<1> DEFINE amend(name) == AmendColumn(name, tableRefs)
           all(x) == AmendClause(x, tableRefs)
           T == {x \in Clause :
                    /\ \A o \in DependentColumns(x) : amend(o) \in DependentColumns(all(x))
                    /\ \A o \in DependentColumns(all(x)) :
                           \E name \in DependentColumns(x) : o = amend(name)}
<1> HIDE DEF amend, all
<1>1. ASSUME NEW x \in Clause, x.type # "Binary" => \A i \in DOMAIN x.list : x.list[i] \in T
      PROVE  x \in T
  <2> DEFINE a == all(x)
  <2>1. a \in Clause /\ a.type = x.type
      BY AmendClauseOf DEF all
  <2>2. CASE x.type = "Binary"
    <3> DEFINE left == amend(x.name.left)
               right == amend(x.name.right)
    <3>1. x \in Comparison
        BY <2>2, ClauseShape
    <3>2. /\ x.name.op \in Operators
          /\ x.name.left \in Operands /\ x.name.right \in Operands
        BY <3>1, ComparisonIs
    <3>3. left \in Operands /\ right \in Operands
        BY <3>2, AmendColumnType DEF amend
    <3>4. a = ComparisonOf(x.name.op, left, right)
        BY <2>2, AmendClauseOf DEF all, amend
    <3> HIDE DEF a
    <3>5. DependentColumns(a) = {o \in {left, right} : IsColumn(o)}
        BY <3>2, <3>3, <3>4, NamesOfBinary
    <3>6. DependentColumns(x) = {o \in {x.name.left, x.name.right} : IsColumn(o)}
      <4>1. Comparisons(x) = {x}
          BY <2>2, ComparisonsOf
      <4> QED
          BY <4>1 DEF DependentColumns
    <3>7. \A name : IsColumn(amend(name)) <=> IsColumn(name)
        BY AmendedIsColumn DEF amend
    <3>8. /\ \A o \in DependentColumns(x) : amend(o) \in DependentColumns(a)
          /\ \A o \in DependentColumns(a) : \E name \in DependentColumns(x) : o = amend(name)
        BY <3>5, <3>6, <3>7
    <3> QED
        BY <3>8 DEF a
  <2>3. CASE x.type # "Binary"
    <3>1. /\ DOMAIN a.list = DOMAIN x.list
          /\ \A i \in DOMAIN x.list : a.list[i] = all(x.list[i])
        BY <2>3, AmendClauseOf DEF all
    <3> HIDE DEF a
    <3>2. ASSUME NEW o \in DependentColumns(x)
          PROVE  amend(o) \in DependentColumns(a)
      <4>1. PICK i \in DOMAIN x.list : o \in DependentColumns(x.list[i])
          BY <2>3, NamesOfList
      <4>2. amend(o) \in DependentColumns(all(x.list[i]))
          BY <1>1, <2>3, <4>1
      <4>3. DependentColumns(a.list[i]) \subseteq DependentColumns(a)
          BY <2>1, <2>3, <3>1, DependentColumnsOfPart DEF a
      <4> QED
          BY <3>1, <4>2, <4>3
    <3>3. ASSUME NEW o \in DependentColumns(a)
          PROVE  \E name \in DependentColumns(x) : o = amend(name)
      <4>1. PICK i \in DOMAIN a.list : o \in DependentColumns(a.list[i])
          BY <2>1, <2>3, NamesOfList DEF a
      <4>2. i \in DOMAIN x.list /\ o \in DependentColumns(all(x.list[i]))
          BY <3>1, <4>1
      <4>3. PICK name \in DependentColumns(x.list[i]) : o = amend(name)
          BY <1>1, <2>3, <4>2
      <4>4. DependentColumns(x.list[i]) \subseteq DependentColumns(x)
          BY <2>3, <4>2, DependentColumnsOfPart
      <4> QED
          BY <4>3, <4>4
    <3> QED
        BY <3>2, <3>3 DEF a
  <2> QED
      BY <2>2, <2>3
<1> HIDE DEF T
<1>2. Clause \subseteq T
    BY <1>1, ClauseInduction
<1> QED
    BY <1>2 DEF T, amend, all

(* AmendColumnWalker gives a name the table that the select list found for *)
(* it, or leaves it as it is.                                              *)
LEMMA AmendAgrees ==
    ASSUME NEW tables \in Seq(Tables), NEW name, NEW def, IsBoundTo(def, name, tables)
    PROVE  AmendColumn(name, tables) \in {name, NameOf(def)}
<1> DEFINE owners == {t \in Range(tables) : HasColumn(t, name[2])}
           t == CHOOSE u \in owners : TRUE
<1>1. AmendColumn(name, tables) =
          IF IsColumn(name) /\ name[1] = NoTable /\ \E u \in owners : owners = {u}
          THEN <<t, name[2]>> ELSE name
    BY DEF AmendColumn
<1>2. PICK i \in DOMAIN tables : \E j \in DOMAIN Columns[tables[i]] :
               /\ def = Def(tables[i], j)
               /\ Columns[tables[i]][j] = name[2]
    BY DEF IsBoundTo
<1>3. PICK j \in DOMAIN Columns[tables[i]] :
               /\ def = Def(tables[i], j)
               /\ Columns[tables[i]][j] = name[2]
    BY <1>2
<1>4. tables[i] \in Tables
    BY LenProperties, ElementOfSeq
<1>5. tables[i] \in owners
    BY <1>3, <1>4 DEF HasColumn, Range
<1>6. NameOf(def) = <<tables[i], name[2]>>
    BY <1>3 DEF NameOf, Def
<1> HIDE DEF owners
<1>7. (\E u \in owners : owners = {u}) => t = tables[i]
    BY <1>5
<1> HIDE DEF t
<1> QED
    BY <1>1, <1>6, <1>7

(* The select list and the clause do not disagree on the table of a name.  *)
THEOREM BindingsAgree == Spec => []SameBinding
<1>1. ASSUME CallInv, pc = "stepping", ~ text.all, NEW k \in DOMAIN text.columns,
             text.columns[k] \in NamesWritten(text.where)
      PROVE  {text.columns[k], NameOf(stmt.columns[k])}
                 \cap DependentColumns(stmt.where) # {}
  <2> DEFINE name == text.columns[k]
             w == WalkClause(text.where)
  <2>1. pc \in Bound /\ text.type = "select" /\ stmt.tables \in Seq(Tables)
        /\ stmt.tables \in Seq(TableNames)
      BY <1>1, SelectIs, StmtIs DEF Bound
  <2>2. text.where # NULL
      BY <1>1 DEF NamesWritten
  <2>3. stmt.where # NULL
      BY <1>1, <2>1, <2>2, StmtIs
  <2>4. text.where \in Tree /\ Comparisons(stmt.where) = Comparisons(BoundClause)
      BY <1>1, <2>1, <2>3, ClauseIs
  <2>5. w \in Clause /\ name \in DependentColumns(w)
      BY <1>1, <2>4, WalkClauseOf, WalkKeepsNames
  <2>6. BoundClause = AmendClause(w, stmt.tables)
      BY DEF BoundClause
  <2> HIDE DEF name, w
  <2>7. AmendColumn(name, stmt.tables) \in DependentColumns(BoundClause)
      BY <2>1, <2>5, <2>6, AmendKeepsNames
  <2>8. DependentColumns(BoundClause) = DependentColumns(stmt.where)
      BY <2>4 DEF DependentColumns
  <2>9. IsBoundTo(stmt.columns[k], name, stmt.tables)
      BY <1>1, SelectListIs DEF name
  <2>10. AmendColumn(name, stmt.tables) \in {name, NameOf(stmt.columns[k])}
      BY <2>1, <2>9, AmendAgrees
  <2> QED
      BY <2>7, <2>8, <2>10 DEF name
<1>2. CallInv => SameBinding
    BY <1>1 DEF SameBinding
<1> QED
    BY <1>2, CallInvariance, PTL

(***************************************************************************)
(* What a clause says of the rows that pass it                             *)
(***************************************************************************)

(* A name that is of one table alone is amended to that of the table.      *)
LEMMA BoundNameAmended ==
    ASSUME NEW tables, NEW name \in Operands, IsColumn(name),
           NEW t, OwnersOf(name, tables) = {t}
    PROVE  /\ AmendColumn(name, tables) = <<t, name[2]>>
           /\ t \in Range(tables) /\ HasColumn(t, name[2])
<1> DEFINE owners == {u \in Range(tables) : HasColumn(u, name[2])}
<1>1. AmendColumn(name, tables) =
          IF IsColumn(name) /\ name[1] = NoTable /\ \E u \in owners : owners = {u}
          THEN <<CHOOSE u \in owners : TRUE, name[2]>> ELSE name
    BY DEF AmendColumn
<1>2. OwnersOf(name, tables) = {u \in owners : name[1] \in {NoTable, u}}
    BY DEF OwnersOf
<1>3. t \in Range(tables) /\ HasColumn(t, name[2]) /\ name[1] \in {NoTable, t}
    BY DEF OwnersOf
<1>4. name = <<name[1], name[2]>>
    BY OperandIs
<1> HIDE DEF owners
<1>5. CASE name[1] = NoTable
  <2>1. owners = {t}
      BY <1>2, <1>5
  <2>2. (CHOOSE u \in owners : TRUE) = t
      BY <2>1
  <2> QED
      BY <1>1, <1>3, <1>5, <2>1, <2>2
<1>6. CASE name[1] # NoTable
    BY <1>1, <1>3, <1>4, <1>6
<1> QED
    BY <1>5, <1>6

(* A name that is of no table once it is amended was of no table as it was *)
(* written.                                                                *)
LEMMA OfNoTableAsWritten ==
    ASSUME NEW tables, NEW name \in Operands, IsColumn(name),
           AmendColumn(name, tables)[1] \notin Tables
    PROVE  OfNoTable(name, tables)
<1>1. CASE name[1] = NoTable
  <2>1. ASSUME NEW t \in Tables, OwnersOf(name, tables) = {t}
        PROVE  FALSE
    <3>1. AmendColumn(name, tables) = <<t, name[2]>>
        BY <2>1, BoundNameAmended
    <3> QED
        BY <3>1
  <2> QED
      BY <1>1, <2>1 DEF OfNoTable
<1>2. CASE name[1] # NoTable
  <2>1. AmendColumn(name, tables) = name
      BY <1>2 DEF AmendColumn
  <2> QED
      BY <1>2, <2>1 DEF OfNoTable
<1> QED
    BY <1>1, <1>2

(* Prepare does not notice that a table of a SELECT does not exist only if *)
(* it has neither a clause nor a star.                                     *)
LEMMA MissingTableUnchecked ==
    ASSUME CallInv, pc = "undefined", ~ Range(stmt.tables) \subseteq Tables
    PROVE  text.where = NULL /\ ~ text.all
<1> DEFINE s == WalkStatement(text)
<1>1. PrepareStatus(s) = "kOK" /\ text \in Texts /\ stmt.type = "select"
    BY DEF CallInv, TextOfCall, StmtOfText, PlanOfStmt, Bound
<1>2. /\ stmt.type = text.type /\ stmt.tables = text.tables
      /\ stmt.where = NULL <=> text.where = NULL
    BY <1>1, StmtIs DEF Bound
<1>3. /\ s.type = "select" /\ s.tables = text.tables /\ s.all = text.all
      /\ s.where = WalkWhere(text)
    BY <1>1, <1>2, StatementOf
<1>4. text.where # NULL => s.where # NULL
  <2>1. text.where # NULL => text.where \in Tree
      BY <1>1, TextIs
  <2>2. text.where # NULL => WalkClause(text.where) # NULL
      BY <2>1, WalkClauseOf, NullIsNoClause
  <2> QED
      BY <1>3, <2>2 DEF WalkWhere
<1> HIDE DEF s
<1>5. s.where = NULL
    BY <1>1, <1>2, <1>3 DEF PrepareStatus, ClauseChecked
<1>6. ~ s.all
    BY <1>1, <1>2, <1>3 DEF PrepareStatus
<1> QED
    BY <1>3, <1>4, <1>5, <1>6

(* The planner asks a table that was not found only where Prepare had      *)
(* nothing to look the tables up for, and where a name in the clause, as   *)
(* it was written, is of no table.                                         *)
THEOREM UndefinedIsUnchecked == Spec => []UndefinedOnlyUnchecked
<1>1. ASSUME CallInv, pc = "undefined", Range(stmt.tables) \subseteq Tables
      PROVE  \E name \in NamesWritten(text.where) : OfNoTable(name, text.tables)
  <2> DEFINE w == WalkClause(text.where)
  <2>1. pc \in Bound /\ ~ TablesLookedUp(stmt) \subseteq Tables
      BY <1>1 DEF CallInv, PlanOfStmt, Bound
  <2>2. stmt.where # NULL
      BY <1>1, <2>1 DEF TablesLookedUp
  <2>3. PICK o \in DependentColumns(stmt.where) : o[1] \notin Tables
      BY <1>1, <2>1, <2>2 DEF TablesLookedUp
  <2>4. text.where \in Tree /\ Comparisons(stmt.where) = Comparisons(BoundClause)
      BY <1>1, <2>1, <2>2, ClauseIs
  <2>5. stmt.tables = text.tables /\ stmt.tables \in Seq(TableNames)
      BY <1>1, <2>1, StmtIs
  <2>6. w \in Clause /\ DependentColumns(w) = NamesWritten(text.where)
      BY <2>4, WalkClauseOf, WalkKeepsNames
  <2>7. BoundClause = AmendClause(w, stmt.tables)
      BY DEF BoundClause
  <2>8. o \in DependentColumns(BoundClause)
      BY <2>3, <2>4 DEF DependentColumns
  <2> HIDE DEF w
  <2>9. PICK name \in DependentColumns(w) : o = AmendColumn(name, stmt.tables)
      BY <2>5, <2>6, <2>7, <2>8, AmendKeepsNames
  <2>10. name \in Operands /\ IsColumn(name)
      BY <2>6, <2>9, DependentColumnsAre DEF Operands
  <2>11. OfNoTable(name, stmt.tables)
      BY <2>3, <2>9, <2>10, OfNoTableAsWritten
  <2> QED
      BY <2>5, <2>6, <2>9, <2>11
<1>2. CallInv => UndefinedOnlyUnchecked
    BY <1>1, MissingTableUnchecked DEF UndefinedOnlyUnchecked
<1> QED
    BY <1>2, CallInvariance, PTL

(* The context has the last values that a row has of its columns.          *)
HasLastValues(ctx, tuple, tables) ==
    \A i \in 1 .. Len(tuple) : \A j \in DOMAIN Columns[tables[i]] :
        LET t == tables[i]
            c == Columns[t][j]
        IN  /\ <<t, c>> \in DOMAIN ctx
            /\ ctx[<<t, c>>] = LastValue(t, c, tuple, tables)
            /\ LastValue(t, c, tuple, tables) \in Values

(* With them an operand has the value that the row has of it.              *)
LEMMA OperandValue ==
    ASSUME NEW tables \in Seq(Tables), NEW tuple, IsTuple(tuple, tables),
           NEW ctx, HasLastValues(ctx, tuple, tables), NEW o \in Operands,
           IsColumn(o) => \E i \in 1 .. Len(tuple) : OwnersOf(o, tables) = {tables[i]}
    PROVE  /\ Eval(AmendColumn(o, tables), ctx) = LastValueOf(o, tuple, tables)
           /\ LastValueOf(o, tuple, tables) \in Values
<1>1. CASE ~ IsColumn(o)
  <2>1. AmendColumn(o, tables) = o /\ o[1] \in Values
      BY <1>1, AmendedIsColumn, OperandIs
  <2> QED
      BY <1>1, <2>1 DEF Eval, LastValueOf
<1>2. CASE IsColumn(o)
  <2>1. PICK i \in 1 .. Len(tuple) : OwnersOf(o, tables) = {tables[i]}
      BY <1>2
  <2> DEFINE t == tables[i]
             c == o[2]
  <2>2. AmendColumn(o, tables) = <<t, c>> /\ HasColumn(t, c)
      BY <1>2, <2>1, BoundNameAmended
  <2>3. PICK j \in DOMAIN Columns[t] : Columns[t][j] = c
      BY <2>2 DEF HasColumn
  <2>4. /\ <<t, c>> \in DOMAIN ctx /\ ctx[<<t, c>>] = LastValue(t, c, tuple, tables)
        /\ LastValue(t, c, tuple, tables) \in Values
      BY <2>3 DEF HasLastValues
  <2>5. Eval(<<t, c>>, ctx) = ctx[<<t, c>>]
      BY <2>4 DEF Eval, IsColumn, GetColumnValue
  <2>6. LastValueOf(o, tuple, tables) = LastValue(t, c, tuple, tables)
    <3>1. (CHOOSE owner \in OwnersOf(o, tables) : TRUE) = t
        BY <2>1
    <3>2. DOMAIN tuple = 1 .. Len(tuple)
        BY LenProperties DEF IsTuple
    <3> HIDE DEF t, c
    <3>3. LastValueOf(o, tuple, tables) =
              tuple[LastOf({m \in DOMAIN tuple : tables[m] = t})]
                   [LastOf({m \in DOMAIN Columns[t] : Columns[t][m] = o[2]})]
        BY <1>2, <3>1 DEF LastValueOf
    <3> QED
        BY <3>2, <3>3 DEF LastValue, ScansOf, c
  <2> HIDE DEF t, c
  <2> QED
      BY <2>2, <2>4, <2>5, <2>6
<1> QED
    BY <1>1, <1>2

(* Each name of the tree is of one of the tables of the row.               *)
BoundIn(x, tuple, tables) ==
    \A o \in NamesWritten(x) : \E i \in 1 .. Len(tuple) : OwnersOf(o, tables) = {tables[i]}

(* A test that is evaluated to true holds as it was written.               *)
LEMMA TestHolds ==
    ASSUME NEW tables \in Seq(Tables), NEW tuple, IsTuple(tuple, tables),
           NEW ctx, HasLastValues(ctx, tuple, tables),
           NEW x \in Tree, x.type = "Test", BoundIn(x, tuple, tables),
           BinaryIsTrue([op |-> x.op, left |-> AmendColumn(x.left, tables),
                                      right |-> AmendColumn(x.right, tables)], ctx)
    PROVE  HoldsAsWritten(x, tuple, tables)
<1> DEFINE left == AmendColumn(x.left, tables)
           right == AmendColumn(x.right, tables)
           l == LastValueOf(x.left, tuple, tables)
           r == LastValueOf(x.right, tuple, tables)
<1>1. x.left \in Operands /\ x.right \in Operands
    BY TreeParts DEF Test
<1>2. NamesWritten(x) = {o \in {x.left, x.right} : IsColumn(o)}
    BY NamesWrittenOf
<1>3. Eval(left, ctx) = l /\ l \in Values
  <2>1. IsColumn(x.left) => \E i \in 1 .. Len(tuple) : OwnersOf(x.left, tables) = {tables[i]}
      BY <1>2 DEF BoundIn
  <2> QED
      BY <1>1, <2>1, OperandValue
<1>4. Eval(right, ctx) = r /\ r \in Values
  <2>1. IsColumn(x.right) => \E i \in 1 .. Len(tuple) : OwnersOf(x.right, tables) = {tables[i]}
      BY <1>2 DEF BoundIn
  <2> QED
      BY <1>1, <2>1, OperandValue
<1>5. Unknown \notin Values
    BY CatalogAssumption
<1>6. BinaryIsTrue([op |-> x.op, left |-> left, right |-> right], ctx)
    OBVIOUS
<1> HIDE DEF left, right, l, r
<1>7. IF x.op = "column" THEN Eval(left, ctx) # Unknown /\ Eval(left, ctx) # 0
      ELSE \/ Unknown \in {Eval(left, ctx), Eval(right, ctx)}
           \/ Compare(x.op, Eval(left, ctx), Eval(right, ctx))
    BY <1>6 DEF BinaryIsTrue
<1>8. CASE x.op = "column"
  <2>1. l # 0
      BY <1>3, <1>7, <1>8
  <2> QED
      BY <1>8, <2>1, HoldsAsWrittenOf DEF l
<1>9. CASE x.op # "column"
  <2>1. Compare(x.op, l, r)
      BY <1>3, <1>4, <1>5, <1>7, <1>9
  <2> QED
      BY <1>9, <2>1, HoldsAsWrittenOf DEF l, r
<1> QED
    BY <1>8, <1>9

(* The clause that Prepare makes of a tree before it normalises it.        *)
AmendedTree(x, tables) == AmendClause(WalkClause(x), tables)

(* A tree, walked and its names bound, part by part.                       *)
LEMMA AmendedTreeOf ==
    ASSUME NEW tables \in Seq(TableNames), NEW x \in Tree
    PROVE  /\ AmendedTree(x, tables) \in Clauses[Depth] /\ AmendedTree(x, tables) \in Clause
           /\ x.type = "Test" =>
                  /\ AmendedTree(x, tables).type = "Single"
                  /\ DOMAIN AmendedTree(x, tables).list = {1}
                  /\ AmendedTree(x, tables).list[1] =
                         ComparisonOf(x.op, AmendColumn(x.left, tables),
                                            AmendColumn(x.right, tables))
           /\ x.type # "Test" =>
                  /\ AmendedTree(x, tables).type = x.type
                  /\ DOMAIN AmendedTree(x, tables).list = DOMAIN x.list
                  /\ \A i \in DOMAIN x.list :
                         AmendedTree(x, tables).list[i] = AmendedTree(x.list[i], tables)
           /\ \A b \in Comparisons(AmendedTree(x, tables)) :
                  \A t \in b.tables : \E name \in NamesWritten(x) :
                      IsColumn(name) /\ name \in Operands
                      /\ t = AmendColumn(name, tables)[1]
<1> DEFINE w == WalkClause(x)
           e == AmendClause(w, tables)
<1>1. w \in Clause /\ w \in Clauses[Depth]
    BY WalkClauseOf
<1>2. e \in Clauses[Rank[w]] /\ e \in Clause /\ e.type = w.type
    BY <1>1, AmendClauseOf
<1>3. e \in Clauses[Depth]
  <2>1. Rank[w] <= Depth /\ Rank[w] \in 0 .. Depth + 1
      BY <1>1, ComparisonAssumption, LevelsAreClauses, RankLeast
  <2>2. Depth \in Rank[w] .. Depth + 1
      BY <2>1, ComparisonAssumption
  <2> HIDE DEF w, e
  <2> QED
      BY <1>2, <2>1, <2>2, LevelsGrow
<1>4. ASSUME x.type = "Test"
      PROVE  /\ e.type = "Single" /\ DOMAIN e.list = {1}
             /\ e.list[1] = ComparisonOf(x.op, AmendColumn(x.left, tables),
                                               AmendColumn(x.right, tables))
  <2> DEFINE c == ComparisonOf(x.op, x.left, x.right)
  <2>1. x.op \in Operators /\ x.left \in Operands /\ x.right \in Operands
      BY <1>4, TreeParts DEF Test
  <2>2. c \in Comparison /\ c.type = "Binary"
        /\ c.name = [op |-> x.op, left |-> x.left, right |-> x.right]
      BY <2>1, ComparisonOfIs
  <2>3. w = Single(c)
      BY <1>4, WalkClauseOf
  <2> HIDE DEF c
  <2>4. c \in Clause /\ c.name.op = x.op /\ c.name.left = x.left /\ c.name.right = x.right
      BY <2>2, Levels, LevelsAreClauses, ComparisonAssumption
  <2>5. w.type = "Single" /\ DOMAIN w.list = {1} /\ w.list[1] = c
      BY <2>3 DEF Single
  <2> HIDE DEF w
  <2>6. DOMAIN e.list = DOMAIN w.list /\ e.list[1] = AmendClause(w.list[1], tables)
      BY <1>1, <2>5, AmendClauseOf
  <2> HIDE DEF e
  <2>7. AmendClause(c, tables) = ComparisonOf(c.name.op, AmendColumn(c.name.left, tables),
                                              AmendColumn(c.name.right, tables))
      BY <2>2, <2>4, AmendClauseOf
  <2> QED
      BY <1>2, <2>4, <2>5, <2>6, <2>7
<1>5. ASSUME x.type # "Test"
      PROVE  /\ e.type = x.type /\ DOMAIN e.list = DOMAIN x.list
             /\ \A i \in DOMAIN x.list : e.list[i] = AmendedTree(x.list[i], tables)
  <2>1. /\ w.type = x.type /\ DOMAIN w.list = DOMAIN x.list
        /\ \A i \in DOMAIN x.list : w.list[i] = WalkClause(x.list[i])
      BY <1>5, WalkClauseOf
  <2>2. w.type # "Binary"
      BY <1>5, <2>1, TreeParts DEF TreeList
  <2> HIDE DEF w
  <2>3. /\ DOMAIN e.list = DOMAIN w.list
        /\ \A i \in DOMAIN w.list : e.list[i] = AmendClause(w.list[i], tables)
      BY <1>1, <2>2, AmendClauseOf
  <2> HIDE DEF e
  <2> QED
      BY <1>2, <2>1, <2>3 DEF AmendedTree
<1>6. DependentColumns(w) = NamesWritten(x)
    BY WalkKeepsNames
<1>7. ASSUME NEW b \in Comparisons(e), NEW t \in b.tables
      PROVE  \E name \in NamesWritten(x) :
                 IsColumn(name) /\ name \in Operands /\ t = AmendColumn(name, tables)[1]
  <2> HIDE DEF w, e
  <2>1. b \in Comparison
      BY <1>2, ComparisonsOf
  <2>2. b.tables = {name[1] : name \in {o \in {b.name.left, b.name.right} : IsColumn(o)}}
      BY <2>1, NamesOfComparison
  <2>3. PICK o \in {b.name.left, b.name.right} : IsColumn(o) /\ t = o[1]
      BY <2>2
  <2>4. o \in DependentColumns(e)
      BY <2>3 DEF DependentColumns
  <2>5. PICK name \in DependentColumns(w) : o = AmendColumn(name, tables)
      BY <1>1, <2>4, AmendKeepsNames DEF e
  <2>6. IsColumn(name) /\ name \in ColumnName
      BY <1>1, DependentColumnsAre
  <2> QED
      BY <1>6, <2>3, <2>5, <2>6 DEF Operands
<1>8. AmendedTree(x, tables) = e
    BY DEF AmendedTree
<1> HIDE DEF e
<1> QED
    BY <1>2, <1>3, <1>4, <1>5, <1>7, <1>8

(* A tree whose names are bound holds as it was written if the comparisons *)
(* it is made into do.                                                     *)
LEMMA TreeHolds ==
    ASSUME NEW tables \in Seq(Tables), NEW tuple, IsTuple(tuple, tables),
           NEW ctx, HasLastValues(ctx, tuple, tables),
           NEW holds, \A name \in holds : BinaryIsTrue(name, ctx),
           NEW x \in Tree, BoundIn(x, tuple, tables),
           IsTrue(AmendedTree(x, tables), holds)
    PROVE  HoldsAsWritten(x, tuple, tables)
<1> DEFINE T == {y \in Tree : BoundIn(y, tuple, tables) /\ IsTrue(AmendedTree(y, tables), holds)
                                  => HoldsAsWritten(y, tuple, tables)}
<1>0. tables \in Seq(TableNames)
    BY SeqMonotonic, CatalogAssumption
<1>1. ASSUME NEW y \in Tree, y.type # "Test" => \A i \in DOMAIN y.list : y.list[i] \in T
      PROVE  y \in T
  <2> SUFFICES ASSUME BoundIn(y, tuple, tables), IsTrue(AmendedTree(y, tables), holds)
               PROVE  HoldsAsWritten(y, tuple, tables)
      OBVIOUS
  <2> DEFINE e == AmendedTree(y, tables)
  <2>1. e \in Clause
      BY <1>0, AmendedTreeOf
  <2>2. CASE y.type = "Test"
    <3> DEFINE left == AmendColumn(y.left, tables)
               right == AmendColumn(y.right, tables)
    <3>1. /\ e.type = "Single" /\ DOMAIN e.list = {1}
          /\ e.list[1] = ComparisonOf(y.op, left, right)
        BY <1>0, <2>2, AmendedTreeOf
    <3>2. y.op \in Operators /\ left \in Operands /\ right \in Operands
        BY <1>0, <2>2, TreeParts, AmendColumnType DEF Test
    <3> HIDE DEF left, right, e
    <3>3. /\ e.list[1] \in Comparison /\ e.list[1].type = "Binary"
          /\ e.list[1].name = [op |-> y.op, left |-> left, right |-> right]
        BY <3>1, <3>2, ComparisonOfIs
    <3>4. IsTrue(e.list[1], holds)
        BY <2>1, <3>1, TrueOf DEF e
    <3>5. e.list[1].name \in holds
        BY <3>3, <3>4, TrueOf, Levels, LevelsAreClauses, ComparisonAssumption
    <3>6. BinaryIsTrue([op |-> y.op, left |-> left, right |-> right], ctx)
        BY <3>3, <3>5
    <3> QED
        BY <2>2, <3>6, TestHolds DEF left, right
  <2>3. CASE y.type # "Test"
    <3>1. /\ e.type = y.type /\ DOMAIN e.list = DOMAIN y.list
          /\ \A i \in DOMAIN y.list : e.list[i] = AmendedTree(y.list[i], tables)
        BY <1>0, <2>3, AmendedTreeOf
    <3> HIDE DEF e
    <3>2. \A i \in DOMAIN y.list : BoundIn(y.list[i], tuple, tables)
      <4>1. \A i \in DOMAIN y.list : NamesWritten(y.list[i]) \subseteq NamesWritten(y)
          BY <2>3, NamesWrittenOf
      <4> QED
          BY <4>1 DEF BoundIn
    <3>3. \A i \in DOMAIN y.list :
              IsTrue(e.list[i], holds) => HoldsAsWritten(y.list[i], tuple, tables)
        BY <1>1, <2>3, <3>1, <3>2
    <3>4. CASE y.type = "And"
      <4>1. \A i \in DOMAIN e.list : IsTrue(e.list[i], holds)
          BY <2>1, <3>1, <3>4, TrueOf DEF e
      <4> QED
          BY <3>1, <3>3, <3>4, <4>1, HoldsAsWrittenOf
    <3>5. CASE y.type = "Or"
      <4>1. \E i \in DOMAIN e.list : IsTrue(e.list[i], holds)
          BY <2>1, <3>1, <3>5, TrueOf DEF e
      <4> QED
          BY <3>1, <3>3, <3>5, <4>1, HoldsAsWrittenOf
    <3>6. y.type \in {"And", "Or"}
        BY <2>3, TreeParts DEF TreeList
    <3> QED
        BY <3>4, <3>5, <3>6
  <2> QED
      BY <2>2, <2>3
<1> HIDE DEF T
<1>2. Tree \subseteq T
    BY <1>1, TreeInduction
<1> QED
    BY <1>2 DEF T

(* What passes a predicate that says no less than a tree does satisfies    *)
(* the tree as it was written.                                             *)
LEMMA PassedHolds ==
    ASSUME NEW tables \in Seq(Tables), NEW tuple, IsTuple(tuple, tables),
           NEW ctx, HasLastValues(ctx, tuple, tables),
           NEW p \in Clause, Passes(p, ctx),
           NEW x \in Tree, BoundIn(x, tuple, tables),
           \A holds : IsTrue(p, holds) => IsTrue(AmendedTree(x, tables), holds)
    PROVE  HoldsAsWritten(x, tuple, tables)
<1> DEFINE holds == {c.name : c \in {b \in Comparisons(p) : BinaryIsTrue(b.name, ctx)}}
<1>1. p # NULL
    BY NullIsNoClause
<1>2. Passes(p, ctx) = IsTrue(p, holds)
    BY <1>1 DEF Passes
<1>3. \A name \in holds : BinaryIsTrue(name, ctx)
    OBVIOUS
<1> HIDE DEF holds
<1>4. IsTrue(AmendedTree(x, tables), holds)
    BY <1>2
<1> QED
    BY <1>3, <1>4, TreeHolds

(* A conjunct without NOT is a tree that is one of an AND list, or all.    *)
LEMMA ConjunctIs ==
    ASSUME NEW tables \in Seq(TableNames), NEW where \in Tree,
           NEW c \in ConjunctsWritten(where), Plain(c)
    PROVE  /\ c \in Tree
           /\ LET e == AmendedTree(where, tables)
                  d == AmendedTree(c, tables)
              IN  \/ e.type = "And" /\ d \in Range(e.list)
                  \/ e.type # "And" /\ d = e
<1>1. where # NULL
    BY NullIsNoTree
<1>2. where.type = "And" => /\ AmendedTree(where, tables).type = "And"
                            /\ DOMAIN AmendedTree(where, tables).list = DOMAIN where.list
                            /\ \A i \in DOMAIN where.list :
                                   /\ where.list[i] \in Tree
                                   /\ AmendedTree(where, tables).list[i]
                                          = AmendedTree(where.list[i], tables)
    BY AmendedTreeOf, TreeParts
<1>3. CASE where.type = "And" /\ ~ where.negated
  <2>1. c \in Range(where.list)
      BY <1>1, <1>3 DEF ConjunctsWritten
  <2>2. PICK i \in DOMAIN where.list : c = where.list[i]
      BY <2>1 DEF Range
  <2> QED
      BY <1>2, <1>3, <2>2 DEF Range
<1>4. CASE ~(where.type = "And" /\ ~ where.negated)
  <2>1. c = where
      BY <1>1, <1>4 DEF ConjunctsWritten
  <2>2. ~ where.negated
      BY <2>1, PlainOf
  <2>3. where.type # "And"
      BY <1>4, <2>2
  <2>4. AmendedTree(where, tables).type # "And"
    <3>1. CASE where.type = "Test"
        BY <3>1, AmendedTreeOf
    <3>2. CASE where.type # "Test"
        BY <2>3, <3>2, AmendedTreeOf
    <3> QED
        BY <3>1, <3>2
  <2> QED
      BY <2>1, <2>4
<1> QED
    BY <1>3, <1>4

(* A node that has the tables of a row lets it through only if the         *)
(* conjuncts do whose names are of these tables; so does the whole clause. *)
LEMMA ConjunctIsGuarded ==
    ASSUME NEW tables \in Seq(Tables), NEW tuple, IsTuple(tuple, tables),
           NEW where \in Tree, NEW c \in ConjunctsWritten(where), Plain(c),
           BoundIn(c, tuple, tables)
    PROVE  LET cnf == TransformToCNF(AmendedTree(where, tables))
           IN  /\ Guards(cnf, {tables[i] : i \in 1 .. Len(tuple)}, AmendedTree(c, tables))
               /\ \A holds : IsTrue(cnf, holds) => IsTrue(AmendedTree(c, tables), holds)
<1> DEFINE below == {tables[i] : i \in 1 .. Len(tuple)}
           e == AmendedTree(where, tables)
           d == AmendedTree(c, tables)
<1>1. tables \in Seq(TableNames)
    BY SeqMonotonic, CatalogAssumption
<1>2. c \in Tree /\ (\/ e.type = "And" /\ d \in Range(e.list)
                     \/ e.type # "And" /\ d = e)
    BY <1>1, ConjunctIs
<1>3. e \in Clauses[Depth] /\ e \in Clause
    BY <1>1, AmendedTreeOf
<1>4. ASSUME NEW b \in Comparisons(d), NEW t \in b.tables
      PROVE  t \in below
  <2>1. PICK name \in NamesWritten(c) :
            IsColumn(name) /\ name \in Operands /\ t = AmendColumn(name, tables)[1]
      BY <1>1, <1>2, AmendedTreeOf
  <2>2. PICK i \in 1 .. Len(tuple) : OwnersOf(name, tables) = {tables[i]}
      BY <2>1 DEF BoundIn
  <2>3. AmendColumn(name, tables) = <<tables[i], name[2]>>
      BY <2>1, <2>2, BoundNameAmended
  <2> QED
      BY <2>1, <2>3
<1> HIDE DEF e, d, below
<1>5. \A b \in Comparisons(d) : b.tables \subseteq below
    BY <1>4
<1>6. Guards(TransformToCNF(e), below, d)
    BY <1>2, <1>3, <1>5, ConjunctGuarded
<1>7. ASSUME NEW holds, IsTrue(TransformToCNF(e), holds)
      PROVE  IsTrue(d, holds)
  <2>1. IsTrue(e, holds)
      BY <1>3, <1>7, TransformProperties
  <2>2. CASE e.type = "And"
    <3>1. PICK i \in DOMAIN e.list : d = e.list[i]
        BY <1>2, <2>2 DEF Range
    <3> QED
        BY <1>3, <2>1, <2>2, <3>1, TrueOf
  <2>3. CASE e.type # "And"
      BY <1>2, <2>1, <2>3
  <2> QED
      BY <2>2, <2>3
<1> QED
    BY <1>6, <1>7 DEF e, d, below

(* An update gives a name that has places the value at the last of them,   *)
(* and leaves the others as they are.                                      *)
LEMMA UpdatedValue ==
    ASSUME NEW ctx, NEW defs, NEW values, NEW name
    PROVE  LET updated == UpdateTupleValue(ctx, defs, values)
           IN  /\ PlacesOf(name, defs) # {} =>
                      /\ name \in DOMAIN updated
                      /\ updated[name] = values[LastOf(PlacesOf(name, defs))]
               /\ PlacesOf(name, defs) = {} /\ name \in DOMAIN ctx =>
                      name \in DOMAIN updated /\ updated[name] = ctx[name]
<1> DEFINE names == DOMAIN ctx \cup {NameOf(defs[i]) : i \in DOMAIN defs}
           at(o) == PlacesOf(o, defs)
           value(o) == IF at(o) = {} THEN ctx[o] ELSE values[LastOf(at(o))]
<1>1. UpdateTupleValue(ctx, defs, values) = [o \in names |-> value(o)]
    BY DEF UpdateTupleValue, PlacesOf
<1>2. at(name) # {} => name \in names
    BY DEF PlacesOf
<1>3. name \in DOMAIN ctx => name \in names
    OBVIOUS
<1>4. /\ at(name) = {} => value(name) = ctx[name]
      /\ at(name) # {} => value(name) = values[LastOf(at(name))]
    OBVIOUS
<1> HIDE DEF names, value
<1> QED
    BY <1>1, <1>2, <1>3, <1>4

(* Of the columns of a name, the value of the last.                        *)
LastColumn(row, t, c) == row[LastOf({k \in DOMAIN Columns[t] : Columns[t][k] = c})]

(* A context has the values of the last columns of a row of a table.       *)
HasRow(ctx, t, row) ==
    \A j \in DOMAIN Columns[t] :
        /\ <<t, Columns[t][j]>> \in DOMAIN ctx
        /\ ctx[<<t, Columns[t][j]>>] = LastColumn(row, t, Columns[t][j])

(* What a row of one table puts into the context.                          *)
LEMMA RowUpdates ==
    ASSUME NEW t \in Tables, NEW row, NEW ctx
    PROVE  LET updated == UpdateTupleValue(ctx, GetAllColumns(t), row)
           IN  /\ HasRow(updated, t, row)
               /\ \A u, c : u # t /\ <<u, c>> \in DOMAIN ctx =>
                      /\ <<u, c>> \in DOMAIN updated
                      /\ updated[<<u, c>>] = ctx[<<u, c>>]
<1> DEFINE defs == GetAllColumns(t)
           updated == UpdateTupleValue(ctx, defs, row)
<1>1. /\ DOMAIN defs = DOMAIN Columns[t]
      /\ \A k \in DOMAIN Columns[t] : NameOf(defs[k]) = <<t, Columns[t][k]>>
  <2>1. /\ DOMAIN defs = DOMAIN Columns[t]
        /\ \A k \in DOMAIN Columns[t] : defs[k] = Def(t, k)
      BY AllColumnsAre
  <2>2. \A k : NameOf(Def(t, k)) = <<t, Columns[t][k]>>
      BY DEF NameOf, Def
  <2> QED
      BY <2>1, <2>2
<1> HIDE DEF defs
<1>2. ASSUME NEW c
      PROVE  PlacesOf(<<t, c>>, defs) = {k \in DOMAIN Columns[t] : Columns[t][k] = c}
  <2>1. \A k \in DOMAIN defs : NameOf(defs[k]) = <<t, c>> <=> Columns[t][k] = c
      BY <1>1
  <2> QED
      BY <1>1, <2>1 DEF PlacesOf
<1>3. ASSUME NEW j \in DOMAIN Columns[t], NEW c, c = Columns[t][j]
      PROVE  /\ <<t, c>> \in DOMAIN updated
             /\ updated[<<t, c>>] = LastColumn(row, t, c)
  <2> DEFINE places == PlacesOf(<<t, c>>, defs)
  <2>1. places = {k \in DOMAIN Columns[t] : Columns[t][k] = c}
      BY <1>2
  <2>2. places # {}
      BY <1>3, <2>1
  <2>3. <<t, c>> \in DOMAIN updated /\ updated[<<t, c>>] = row[LastOf(places)]
      BY <2>2, UpdatedValue
  <2> QED
      BY <2>1, <2>3 DEF LastColumn
<1>4. ASSUME NEW u, NEW c, u # t, <<u, c>> \in DOMAIN ctx
      PROVE  <<u, c>> \in DOMAIN updated /\ updated[<<u, c>>] = ctx[<<u, c>>]
  <2>1. PlacesOf(<<u, c>>, defs) = {}
      BY <1>1, <1>4 DEF PlacesOf
  <2> QED
      BY <1>4, <2>1, UpdatedValue
<1> HIDE DEF updated
<1>5. HasRow(updated, t, row)
    BY <1>3 DEF HasRow
<1> QED
    BY <1>4, <1>5 DEF defs, updated

(* The value of a column in a tuple with one more row: of its table it is  *)
(* in that row.                                                            *)
LEMMA LastValueOfNewTable ==
    ASSUME NEW tables \in Seq(Tables), NEW tuple, IsTuple(tuple, tables),
           Len(tuple) < Len(tables),
           NEW t, t = tables[Len(tuple) + 1], NEW row \in Rows[t], NEW c
    PROVE  LastValue(t, c, Append(tuple, row), tables) = LastColumn(row, t, c)
<1> DEFINE n == Len(tuple)
           longer == Append(tuple, row)
           column == LastOf({k \in DOMAIN Columns[t] : Columns[t][k] = c})
           S == ScansOf(t, n + 1, tables)
<1>1. Len(longer) = n + 1 /\ longer[n + 1] = row /\ n \in Nat
    BY TupleGrows, LenProperties DEF IsTuple
<1>2. n + 1 \in S /\ S \subseteq 0 .. n + 1 /\ \A k \in S : n + 1 >= k
    BY <1>1 DEF ScansOf
<1>3. n + 1 \in Nat
    BY <1>1
<1> HIDE DEF longer, column, S
<1>4. LastOf(S) = n + 1
    BY <1>2, <1>3, LastOfUnique
<1>5. LastValue(t, c, longer, tables) = longer[LastOf(S)][column]
    BY <1>1 DEF LastValue, column, S
<1>6. LastValue(t, c, longer, tables) = row[column]
    BY <1>1, <1>4, <1>5
<1>7. LastColumn(row, t, c) = row[column]
    BY DEF LastColumn, column
<1> QED
    BY <1>6, <1>7 DEF longer

(* Of another table it is where it was.                                    *)
LEMMA LastValueOfOldTable ==
    ASSUME NEW tables \in Seq(Tables), NEW tuple, IsTuple(tuple, tables),
           Len(tuple) < Len(tables), NEW row \in Rows[tables[Len(tuple) + 1]],
           NEW t, t # tables[Len(tuple) + 1],
           NEW i \in 1 .. Len(tuple) + 1, t = tables[i], NEW c
    PROVE  /\ LastValue(t, c, Append(tuple, row), tables) = LastValue(t, c, tuple, tables)
           /\ i \in 1 .. Len(tuple)
<1> DEFINE n == Len(tuple)
           longer == Append(tuple, row)
           column == LastOf({k \in DOMAIN Columns[t] : Columns[t][k] = c})
           S == ScansOf(t, n, tables)
<1>1. /\ Len(longer) = n + 1 /\ n \in Nat
      /\ \A k \in 1 .. n : longer[k] = tuple[k]
    BY TupleGrows, LenProperties DEF IsTuple
<1> HIDE DEF longer, column
<1>2. i \in 1 .. n /\ S = ScansOf(t, n + 1, tables)
  <2>1. i \in 1 .. n
      BY <1>1
  <2>2. \A k \in 1 .. n + 1 : tables[k] = t => k \in 1 .. n
      BY <1>1
  <2>3. \A k \in 1 .. n : k \in 1 .. n + 1
      BY <1>1
  <2> QED
      BY <2>1, <2>2, <2>3 DEF ScansOf
<1>3. i \in S /\ S \subseteq 0 .. n /\ S \subseteq 1 .. n
    BY <1>1, <1>2 DEF ScansOf
<1>4. LastValue(t, c, longer, tables) = longer[LastOf(ScansOf(t, n + 1, tables))][column]
    BY <1>1 DEF LastValue, column
<1>5. LastValue(t, c, tuple, tables) = tuple[LastOf(S)][column]
    BY DEF LastValue, column
<1> HIDE DEF S
<1>6. LastOf(S) \in S
    BY <1>1, <1>3, LastOfIs
<1>7. longer[LastOf(S)] = tuple[LastOf(S)]
    BY <1>1, <1>3, <1>6
<1>8. LastValue(t, c, longer, tables) = LastValue(t, c, tuple, tables)
    BY <1>2, <1>4, <1>5, <1>7
<1> QED
    BY <1>2, <1>8 DEF longer

(* A context with the last values of a tuple has those of the longer one   *)
(* once the row is put into it.                                            *)
LEMMA LongerValues ==
    ASSUME NEW tables \in Seq(Tables), NEW tuple, IsTuple(tuple, tables),
           Len(tuple) < Len(tables), NEW row \in Rows[tables[Len(tuple) + 1]],
           NEW ctx, HasLastValues(ctx, tuple, tables)
    PROVE  HasLastValues(UpdateTupleValue(ctx, GetAllColumns(tables[Len(tuple) + 1]), row),
                         Append(tuple, row), tables)
<1> DEFINE n == Len(tuple)
           last == tables[n + 1]
           longer == Append(tuple, row)
           updated == UpdateTupleValue(ctx, GetAllColumns(last), row)
           value(t, c) == LastValue(t, c, longer, tables)
<1>1. n \in Nat /\ Len(longer) = n + 1 /\ n + 1 \in 1 .. Len(tables)
    BY TupleGrows, LenProperties DEF IsTuple
<1>2. last \in Tables /\ row \in Rows[last]
    BY <1>1, ElementOfSeq
<1>3. \A c : value(last, c) = LastColumn(row, last, c)
    BY LastValueOfNewTable
<1>4. \A i \in 1 .. n + 1 : \A c :
          tables[i] # last => /\ value(tables[i], c) = LastValue(tables[i], c, tuple, tables)
                              /\ i \in 1 .. n
    BY LastValueOfOldTable
<1> HIDE DEF last, value
<1>5. HasRow(updated, last, row)
    BY <1>2, RowUpdates
<1>6. \A u, c : u # last /\ <<u, c>> \in DOMAIN ctx =>
          <<u, c>> \in DOMAIN updated /\ updated[<<u, c>>] = ctx[<<u, c>>]
    BY <1>2, RowUpdates
<1>7. ASSUME NEW j \in DOMAIN Columns[last]
      PROVE  LastColumn(row, last, Columns[last][j]) \in Values
  <2> DEFINE named == {k \in DOMAIN Columns[last] : Columns[last][k] = Columns[last][j]}
  <2>1. /\ Len(Columns[last]) \in Nat /\ DOMAIN Columns[last] = 1 .. Len(Columns[last])
        /\ \A k \in DOMAIN Columns[last] : row[k] \in Values
      BY <1>2, ColumnsAre, RowIs
  <2>2. /\ named \subseteq 0 .. Len(Columns[last]) /\ j \in named
        /\ named \subseteq DOMAIN Columns[last]
      BY <2>1
  <2>3. LastColumn(row, last, Columns[last][j]) = row[LastOf(named)]
      BY DEF LastColumn
  <2> HIDE DEF named
  <2>4. LastOf(named) \in named
      BY <2>1, <2>2, LastOfIs
  <2> QED
      BY <2>1, <2>2, <2>3, <2>4
<1> HIDE DEF longer, updated
<1>8. ASSUME NEW i \in 1 .. n + 1, NEW j \in DOMAIN Columns[tables[i]]
      PROVE  LET name == <<tables[i], Columns[tables[i]][j]>>
                 v == value(tables[i], Columns[tables[i]][j])
             IN  name \in DOMAIN updated /\ updated[name] = v /\ v \in Values
  <2>1. CASE tables[i] = last
      BY <1>3, <1>5, <1>7, <2>1 DEF HasRow
  <2>2. CASE tables[i] # last
    <3>1. i \in 1 .. n
        BY <1>4, <2>2
    <3>2. LET name == <<tables[i], Columns[tables[i]][j]>>
              v == LastValue(tables[i], Columns[tables[i]][j], tuple, tables)
          IN  name \in DOMAIN ctx /\ ctx[name] = v /\ v \in Values
        BY <3>1 DEF HasLastValues
    <3> QED
        BY <1>4, <1>6, <2>2, <3>2
  <2> QED
      BY <2>1, <2>2
<1>9. HasLastValues(updated, longer, tables)
    BY <1>1, <1>8 DEF HasLastValues, value
<1> QED
    BY <1>9 DEF longer, updated, last

(* All columns of a tuple put into a context leave its last values there.  *)
LEMMA TupleValues ==
    ASSUME NEW tables \in Seq(Tables), NEW tuple, IsTuple(tuple, tables), NEW ctx
    PROVE  HasLastValues(UpdateTupleValue(ctx, ColumnsOf(tables, Len(tuple)), FlattenSeq(tuple)),
                         tuple, tables)
<1> DEFINE defs == ColumnsOf(tables, Len(tuple))
           updated == UpdateTupleValue(ctx, defs, FlattenSeq(tuple))
<1>1. ASSUME NEW i \in 1 .. Len(tuple), NEW j \in DOMAIN Columns[tables[i]],
             NEW t, t = tables[i], NEW c, c = Columns[t][j]
      PROVE  /\ <<t, c>> \in DOMAIN updated
             /\ updated[<<t, c>>] = LastValue(t, c, tuple, tables)
             /\ LastValue(t, c, tuple, tables) \in Values
  <2>1. HasColumn(t, c)
    <3>1. i \in 1 .. Len(tables)
        BY LenProperties DEF IsTuple
    <3>2. t \in Tables
        BY <1>1, <3>1, ElementOfSeq
    <3> QED
        BY <1>1, <3>2 DEF HasColumn
  <2>2. /\ PlacesOf(<<t, c>>, defs) # {}
        /\ FlattenSeq(tuple)[LastOf(PlacesOf(<<t, c>>, defs))] = LastValue(t, c, tuple, tables)
        /\ LastValue(t, c, tuple, tables) \in Values
      BY <1>1, <2>1, LastPlace
  <2>3. /\ <<t, c>> \in DOMAIN updated
        /\ updated[<<t, c>>] = FlattenSeq(tuple)[LastOf(PlacesOf(<<t, c>>, defs))]
      BY <2>2, UpdatedValue
  <2> QED
      BY <2>2, <2>3
<1> HIDE DEF updated
<1>2. HasLastValues(updated, tuple, tables)
    BY <1>1 DEF HasLastValues
<1> QED
    BY <1>2 DEF updated

(* No row, no values.                                                      *)
LEMMA NoValues ==
    ASSUME NEW tables, NEW ctx
    PROVE  HasLastValues(ctx, <<>>, tables)
<1>1. 1 .. Len(<<>>) = {}
    BY EmptySeq
<1> QED
    BY <1>1 DEF HasLastValues

(* The context that the predicate of a join is evaluated in.               *)
LEMMA JoinHasValues ==
    ASSUME CallInv, RowsInv, pc = "stepping", NEW row \in Rows[stmt.tables[Scan]]
    PROVE  HasLastValues(JoinContext(row), Append(rows, row), stmt.tables)
<1> DEFINE tables == stmt.tables
           n == Len(rows)
           outer == UpdateTupleValue(ScanContext(row), ColumnsOf(tables, n), FlattenSeq(rows))
<1>1. /\ tables \in Seq(Tables) /\ IsTuple(rows, tables)
      /\ n \in Nat /\ n < Len(tables) /\ Scan = n + 1 /\ Scan - 1 = n
      /\ row \in Rows[tables[n + 1]]
    BY ScanIs DEF RowsInv
<1>2. JoinContext(row) =
          IF Scan = 1 THEN ScanContext(row)
          ELSE UpdateTupleValue(outer, GetAllColumns(tables[Scan]), row)
  <2>1. ColumnsUpTo(Scan - 1) = ColumnsOf(tables, n)
      BY <1>1 DEF ColumnsUpTo, ColumnsOf
  <2> QED
      BY <2>1 DEF JoinContext
<1>3. ScanContext(row) = UpdateTupleValue(context, GetAllColumns(tables[Scan]), row)
    BY DEF ScanContext
<1>4. HasLastValues(outer, rows, tables)
    BY <1>1, TupleValues
<1> HIDE DEF tables, outer
<1>5. CASE Scan = 1
  <2>1. rows = <<>>
      BY <1>1, <1>5, EmptySeq DEF IsTuple
  <2>2. HasLastValues(context, rows, tables)
      BY <2>1, NoValues
  <2>3. HasLastValues(UpdateTupleValue(context, GetAllColumns(tables[n + 1]), row),
                      Append(rows, row), tables)
      BY <1>1, <2>2, LongerValues
  <2> QED
      BY <1>1, <1>2, <1>3, <1>5, <2>3 DEF tables
<1>6. CASE Scan # 1
  <2>1. HasLastValues(UpdateTupleValue(outer, GetAllColumns(tables[n + 1]), row),
                      Append(rows, row), tables)
      BY <1>1, <1>4, LongerValues
  <2> QED
      BY <1>1, <1>2, <1>6, <2>1 DEF tables
<1> QED
    BY <1>5, <1>6

(* The conjuncts written that are bound to the first n tables hold.        *)
HoldsHere(where, tuple, tables, n) ==
    \A c \in ConjunctsWritten(where) :
        Plain(c) /\ BoundBy(c, {tables[i] : i \in 1 .. n}, tables)
            => HoldsAsWritten(c, tuple, tables)

(* So they do for every prefix of the rows.                                *)
RowPasses(where, tuple, tables) ==
    \A n \in DOMAIN tuple : HoldsHere(where, SubSeq(tuple, 1, n), tables, n)

(* Names that are bound to the tables of a row.                            *)
LEMMA BoundByTuple ==
    ASSUME NEW tables, NEW tuple, NEW x,
           BoundBy(x, {tables[i] : i \in 1 .. Len(tuple)}, tables)
    PROVE  BoundIn(x, tuple, tables)
BY DEF BoundBy, BoundIn

(* The part of a clause that a node evaluates, or the whole clause, lets a *)
(* row through only if the conjuncts that are bound to its tables hold.    *)
LEMMA PassedRowHolds ==
    ASSUME NEW tables \in Seq(Tables), NEW tuple, IsTuple(tuple, tables),
           NEW ctx, HasLastValues(ctx, tuple, tables),
           NEW where \in Tree,
           NEW cnf \in Clause, cnf = TransformToCNF(AmendedTree(where, tables)),
           NEW below, below = {tables[i] : i \in 1 .. Len(tuple)},
           NEW p, p = cnf \/ p = CreateSubExprForPushdown(cnf, below),
           Passes(p, ctx)
    PROVE  HoldsHere(where, tuple, tables, Len(tuple))
<1> SUFFICES ASSUME NEW c \in ConjunctsWritten(where), Plain(c), BoundBy(c, below, tables)
             PROVE  HoldsAsWritten(c, tuple, tables)
    BY DEF HoldsHere
<1>1. BoundIn(c, tuple, tables)
    BY BoundByTuple
<1>2. tables \in Seq(TableNames)
    BY SeqMonotonic, CatalogAssumption
<1>3. c \in Tree
    BY <1>2, ConjunctIs
<1>4. /\ Guards(cnf, below, AmendedTree(c, tables))
      /\ \A holds : IsTrue(cnf, holds) => IsTrue(AmendedTree(c, tables), holds)
    BY <1>1, ConjunctIsGuarded
<1>5. /\ p \in Clause
      /\ \A holds : IsTrue(p, holds) => IsTrue(AmendedTree(c, tables), holds)
  <2>1. CASE p = cnf
      BY <1>4, <2>1
  <2>2. CASE p = CreateSubExprForPushdown(cnf, below)
    <3>1. p # NULL /\ \A holds : IsTrue(p, holds) => IsTrue(AmendedTree(c, tables), holds)
        BY <1>4, <2>2 DEF Guards
    <3>2. p \in Clause \cup {NULL}
        BY <2>2, CreateSubExprOf
    <3> QED
        BY <3>1, <3>2
  <2> QED
      BY <2>1, <2>2
<1> QED
    BY <1>1, <1>3, <1>5, PassedHolds

(***************************************************************************)
(* Prefixes                                                                *)
(***************************************************************************)

(* The first rows of a longer tuple, and of a prefix, are the first rows.  *)
LEMMA PrefixOfLonger ==
    ASSUME NEW tables \in Seq(Tables), NEW tuple, IsTuple(tuple, tables),
           Len(tuple) < Len(tables), NEW row \in Rows[tables[Len(tuple) + 1]],
           NEW n \in 0 .. Len(tuple)
    PROVE  SubSeq(Append(tuple, row), 1, n) = SubSeq(tuple, 1, n)
<1> DEFINE longer == Append(tuple, row)
           p == SubSeq(longer, 1, n)
           q == SubSeq(tuple, 1, n)
<1>1. /\ IsTuple(longer, tables) /\ Len(longer) = Len(tuple) + 1
      /\ \A i \in 1 .. Len(tuple) : longer[i] = tuple[i]
      /\ Len(tuple) \in Nat
    BY TupleGrows, LenProperties DEF IsTuple
<1>2. n \in 0 .. Len(longer)
    BY <1>1
<1> HIDE DEF longer
<1>3. IsTuple(p, tables) /\ Len(p) = n /\ \A i \in 1 .. n : p[i] = longer[i]
    BY <1>1, <1>2, PrefixIsTuple
<1>4. IsTuple(q, tables) /\ Len(q) = n /\ \A i \in 1 .. n : q[i] = tuple[i]
    BY PrefixIsTuple
<1> HIDE DEF p, q
<1>5. \A i \in 1 .. Len(p) : p[i] = q[i]
    BY <1>1, <1>3, <1>4
<1>6. p = q
    BY <1>3, <1>4, <1>5, SeqEqual DEF IsTuple
<1> QED
    BY <1>6 DEF p, q, longer

(* The first rows of a prefix of a tuple are the first rows of the tuple.  *)
LEMMA PrefixOfPrefix ==
    ASSUME NEW tables \in Seq(Tables), NEW tuple, IsTuple(tuple, tables),
           NEW m \in 0 .. Len(tuple), NEW n \in 0 .. m
    PROVE  SubSeq(SubSeq(tuple, 1, m), 1, n) = SubSeq(tuple, 1, n)
<1> DEFINE prefix == SubSeq(tuple, 1, m)
           p == SubSeq(prefix, 1, n)
           q == SubSeq(tuple, 1, n)
<1>1. /\ IsTuple(prefix, tables) /\ Len(prefix) = m
      /\ \A i \in 1 .. m : prefix[i] = tuple[i]
    BY PrefixIsTuple
<1>2. n \in 0 .. Len(tuple) /\ n \in 0 .. Len(prefix) /\ Len(tuple) \in Nat
    BY <1>1, LenProperties DEF IsTuple
<1> HIDE DEF prefix
<1>3. IsTuple(p, tables) /\ Len(p) = n /\ \A i \in 1 .. n : p[i] = prefix[i]
    BY <1>1, <1>2, PrefixIsTuple
<1>4. IsTuple(q, tables) /\ Len(q) = n /\ \A i \in 1 .. n : q[i] = tuple[i]
    BY <1>2, PrefixIsTuple
<1> HIDE DEF p, q
<1>5. \A i \in 1 .. Len(p) : p[i] = q[i]
    BY <1>1, <1>3, <1>4
<1>6. p = q
    BY <1>3, <1>4, <1>5, SeqEqual DEF IsTuple
<1> QED
    BY <1>6 DEF p, q, prefix

(* A row that holds what it should lets the rows pass with it.             *)
LEMMA LongerPasses ==
    ASSUME NEW tables \in Seq(Tables), NEW tuple, IsTuple(tuple, tables),
           Len(tuple) < Len(tables), NEW row \in Rows[tables[Len(tuple) + 1]],
           NEW where, RowPasses(where, tuple, tables),
           HoldsHere(where, Append(tuple, row), tables, Len(tuple) + 1)
    PROVE  RowPasses(where, Append(tuple, row), tables)
<1> DEFINE longer == Append(tuple, row)
<1>1. /\ IsTuple(longer, tables) /\ Len(longer) = Len(tuple) + 1
      /\ Len(tuple) \in Nat /\ DOMAIN tuple = 1 .. Len(tuple)
    BY TupleGrows, LenProperties DEF IsTuple
<1> HIDE DEF longer
<1>2. DOMAIN longer = 1 .. Len(tuple) + 1 /\ SubSeq(longer, 1, Len(tuple) + 1) = longer
  <2>1. longer \in Seq(AnyRow)
      BY <1>1 DEF IsTuple
  <2> QED
      BY <1>1, <2>1, LenProperties, SubSeqFull
<1>3. ASSUME NEW n \in DOMAIN longer
      PROVE  HoldsHere(where, SubSeq(longer, 1, n), tables, n)
  <2>1. CASE n = Len(tuple) + 1
      BY <1>2, <2>1 DEF longer
  <2>2. CASE n # Len(tuple) + 1
    <3>1. n \in 1 .. Len(tuple)
        BY <1>1, <1>2, <2>2
    <3>2. SubSeq(longer, 1, n) = SubSeq(tuple, 1, n)
        BY <1>1, <3>1, PrefixOfLonger DEF longer
    <3>3. HoldsHere(where, SubSeq(tuple, 1, n), tables, n)
        BY <1>1, <3>1 DEF RowPasses
    <3> QED
        BY <3>2, <3>3
  <2> QED
      BY <2>1, <2>2
<1>4. RowPasses(where, longer, tables)
    BY <1>3 DEF RowPasses
<1> QED
    BY <1>4 DEF longer

(* The rows that are left when the last one goes pass.                     *)
LEMMA ShorterPasses ==
    ASSUME NEW tables \in Seq(Tables), NEW tuple, IsTuple(tuple, tables), tuple # <<>>,
           NEW where, RowPasses(where, tuple, tables)
    PROVE  RowPasses(where, Front(tuple), tables)
<1> DEFINE m == Len(tuple) - 1
           front == Front(tuple)
<1>1. /\ IsTuple(front, tables) /\ Len(front) = m /\ front = SubSeq(tuple, 1, m)
      /\ Len(tuple) \in Nat \ {0} /\ DOMAIN tuple = 1 .. Len(tuple)
    BY TupleShrinks, LenProperties, EmptySeq DEF IsTuple
<1> HIDE DEF front
<1>2. m \in 0 .. Len(tuple) /\ DOMAIN front = 1 .. m
    BY <1>1, LenProperties DEF IsTuple
<1>3. ASSUME NEW n \in DOMAIN front
      PROVE  HoldsHere(where, SubSeq(front, 1, n), tables, n)
  <2>1. n \in 0 .. m /\ n \in DOMAIN tuple
      BY <1>1, <1>2
  <2>2. SubSeq(front, 1, n) = SubSeq(tuple, 1, n)
      BY <1>1, <1>2, <2>1, PrefixOfPrefix
  <2>3. HoldsHere(where, SubSeq(tuple, 1, n), tables, n)
      BY <2>1 DEF RowPasses
  <2> QED
      BY <2>2, <2>3
<1>4. RowPasses(where, front, tables)
    BY <1>3 DEF RowPasses
<1> QED
    BY <1>4 DEF front

(* No row has nothing to pass.                                             *)
LEMMA NoRowPasses ==
    ASSUME NEW where, NEW tables
    PROVE  RowPasses(where, <<>>, tables)
<1>1. DOMAIN <<>> = {}
    OBVIOUS
<1> QED
    BY <1>1 DEF RowPasses

(* Where the text has no clause there is nothing to hold.                  *)
LEMMA NothingToHold ==
    ASSUME NEW where, where = NULL, NEW tuple, NEW tables, NEW n
    PROVE  HoldsHere(where, tuple, tables, n)
<1>1. ConjunctsWritten(where) = {}
    BY DEF ConjunctsWritten
<1> QED
    BY <1>1 DEF HoldsHere

(* What the clause of a statement was made from.                           *)
LEMMA ClauseOfText ==
    ASSUME CallInv, pc \in Bound, stmt.where # NULL
    PROVE  /\ text.where \in Tree /\ stmt.where \in Clause
           /\ stmt.where = TransformToCNF(AmendedTree(text.where, stmt.tables))
BY ClauseIs DEF BoundClause, AmendedTree

(* A row that comes through the scan and the join above it.                *)
LEMMA ScannedRowHolds ==
    ASSUME CallInv, RowsInv, pc = "stepping", NEW row \in Rows[stmt.tables[Scan]],
           PassesScan(row), PassesJoin(row)
    PROVE  HoldsHere(text.where, Append(rows, row), stmt.tables, Len(rows) + 1)
<1> DEFINE tables == stmt.tables
           longer == Append(rows, row)
           ctx == JoinContext(row)
           p == plan.local[<<1, Scan>>]
           below == {tables[i] : i \in 1 .. Len(longer)}
<1>1. /\ tables \in Seq(Tables) /\ DOMAIN tables = 1 .. Len(tables)
      /\ IsTuple(rows, tables) /\ Len(rows) < Len(tables)
      /\ Scan = Len(rows) + 1 /\ Scan \in 1 .. Len(tables)
      /\ row \in Rows[tables[Len(rows) + 1]]
    BY ScanIs DEF RowsInv
<1>2. IsTuple(longer, tables) /\ Len(longer) = Scan
    BY <1>1, TupleGrows
<1>3. HasLastValues(ctx, longer, tables)
    BY JoinHasValues
<1>4. Passes(p, ctx)
  <2>1. CASE Scan = 1
      BY <2>1 DEF PassesScan, JoinContext
  <2>2. CASE Scan # 1
      BY <2>2 DEF PassesJoin
  <2> QED
      BY <2>1, <2>2
<1>5. pc \in Bound /\ (stmt.where = NULL <=> text.where = NULL)
  <2>1. pc \in Bound /\ text.type = "select"
      BY SelectIs DEF Bound
  <2> QED
      BY <2>1, StmtIs
<1>6. CASE stmt.where = NULL
    BY <1>5, <1>6, NothingToHold
<1>7. CASE stmt.where # NULL
  <2>1. <<1, Scan>> \in Nodes(stmt)
      BY <1>1 DEF Nodes
  <2>2. p = CreateSubExprForPushdown(stmt.where, TablesBelow(stmt, <<1, Scan>>))
      BY <1>7, <2>1, LocalIs
  <2>3. TablesBelow(stmt, <<1, Scan>>) = below
    <3>1. <<1, Scan>>[1] = 1 /\ <<1, Scan>>[2] = Len(longer)
        BY <1>2
    <3> QED
        BY <3>1 DEF TablesBelow
  <2>4. /\ text.where \in Tree /\ stmt.where \in Clause
        /\ stmt.where = TransformToCNF(AmendedTree(text.where, tables))
      BY <1>5, <1>7, ClauseOfText
  <2> HIDE DEF tables, longer, ctx, p, below
  <2>5. p = CreateSubExprForPushdown(stmt.where, below)
      BY <2>2, <2>3
  <2>6. below = {tables[i] : i \in 1 .. Len(longer)}
      BY DEF below
  <2>7. HoldsHere(text.where, longer, tables, Len(longer))
      BY <1>1, <1>2, <1>3, <1>4, <2>4, <2>5, <2>6, PassedRowHolds
  <2> QED
      BY <1>1, <1>2, <2>7 DEF tables, longer
<1> QED
    BY <1>6, <1>7

(* A row that an UPDATE or a DELETE touches.                               *)
LEMMA TouchedRowPasses ==
    ASSUME CallInv, pc = "performing", NEW row \in Rows[stmt.tables[1]],
           Passes(stmt.where, PerformContext(row))
    PROVE  RowPasses(text.where, <<row>>, stmt.tables)
<1> DEFINE tables == stmt.tables
           none == <<>>
           ctx == PerformContext(row)
<1>1. /\ pc \in Bound /\ stmt.type \in {"update", "delete"}
      /\ text \in Texts /\ stmt.type = text.type /\ tables = text.tables
      /\ tables \in Seq(TableNames)
      /\ stmt.where = NULL <=> text.where = NULL
  <2>1. pc \in Bound /\ stmt.type \in {"update", "delete"}
      BY DEF CallInv, PlanOfStmt, Bound
  <2> QED
      BY <2>1, StmtIs
<1>2. CASE stmt.where = NULL
  <2>1. text.where = NULL
      BY <1>1, <1>2
  <2> QED
      BY <2>1, NothingToHold DEF RowPasses
<1>3. CASE stmt.where # NULL
  <2>1. Range(tables) \subseteq Tables
    <3> DEFINE s == WalkStatement(text)
    <3>1. PrepareStatus(s) = "kOK"
        BY <1>1 DEF CallInv, StmtOfText
    <3>2. /\ s.type # "empty" /\ s.where # NULL /\ s.tables = tables
          /\ s.columns \in Seq(ColumnName)
      <4>1. text.columns \in Seq(ColumnName) /\ <<>> \in Seq(ColumnName)
          BY <1>1, TextIs, EmptySeq
      <4>2. /\ s.type = text.type /\ s.tables = text.tables
            /\ s.where = WalkWhere(text)
            /\ s.columns = IF text.type = "delete" \/ (text.type = "select" /\ text.all)
                           THEN <<>> ELSE text.columns
          BY <1>1, StatementOf
      <4>3. text.where \in Tree
          BY <1>1, <1>3, TextIs
      <4>4. WalkWhere(text) # NULL
          BY <1>1, <1>3, <4>3, WalkClauseOf, NullIsNoClause DEF WalkWhere
      <4> QED
          BY <1>1, <4>1, <4>2, <4>4
    <3> HIDE DEF s
    <3> QED
        BY <3>1, <3>2, PrepareStatusIs
  <2>2. Len(tables) \in Nat \ {0} /\ DOMAIN tables = 1 .. Len(tables)
    <3>1. tables # <<>>
        BY <1>1, TextIs
    <3> QED
        BY <1>1, <3>1, EmptySeq, LenProperties
  <2>3. tables \in Seq(Tables)
    <3>1. \A i \in 1 .. Len(tables) : tables[i] \in Tables
        BY <2>1, <2>2 DEF Range
    <3> QED
        BY <1>1, <2>2, <3>1, IsASeq
  <2>4. IsTuple(none, tables) /\ Len(none) = 0 /\ HasLastValues(context, none, tables)
      BY <2>3, NoTuple, NoValues
  <2>5. RowPasses(text.where, none, tables)
      BY NoRowPasses
  <2>6. ctx = UpdateTupleValue(context, GetAllColumns(tables[1]), row)
      BY <1>3 DEF PerformContext
  <2>7. <<row>> = Append(none, row)
      OBVIOUS
  <2>8. /\ text.where \in Tree /\ stmt.where \in Clause
        /\ stmt.where = TransformToCNF(AmendedTree(text.where, tables))
      BY <1>1, <1>3, ClauseOfText
  <2>9. Passes(stmt.where, ctx) /\ row \in Rows[tables[1]]
      OBVIOUS
  <2> DEFINE longer == Append(none, row)
             below == {tables[i] : i \in 1 .. Len(longer)}
  <2> HIDE DEF tables, none, ctx
  <2>10. row \in Rows[tables[Len(none) + 1]] /\ Len(none) < Len(tables)
      BY <2>2, <2>4, <2>9
  <2>11. IsTuple(longer, tables) /\ Len(longer) = Len(none) + 1
      BY <2>3, <2>4, <2>10, TupleGrows
  <2>12. HasLastValues(ctx, longer, tables)
    <3>1. HasLastValues(UpdateTupleValue(context, GetAllColumns(tables[Len(none) + 1]), row),
                        longer, tables)
        BY <2>3, <2>4, <2>10, LongerValues
    <3> QED
        BY <2>4, <2>6, <3>1
  <2> HIDE DEF longer
  <2>13. below = {tables[i] : i \in 1 .. Len(longer)}
      OBVIOUS
  <2> HIDE DEF below
  <2>14. HoldsHere(text.where, longer, tables, Len(longer))
      BY <2>3, <2>8, <2>9, <2>11, <2>12, <2>13, PassedRowHolds
  <2>15. RowPasses(text.where, longer, tables)
      BY <2>3, <2>4, <2>5, <2>10, <2>11, <2>14, LongerPasses DEF longer
  <2> QED
      BY <2>7, <2>15 DEF longer, tables
<1> QED
    BY <1>2, <1>3

(* The rows kept, those delivered and the one touched pass what they must. *)
PassInv ==
    /\ pc = "stepping" =>
           /\ RowPasses(text.where, rows, stmt.tables)
           /\ output # NULL => RowPasses(text.where, output.rows, stmt.tables)
    /\ pc = "performing" /\ output # NULL =>
           RowPasses(text.where, output.rows, stmt.tables)

(* Elsewhere there are no rows to speak of.                                *)
LEMMA PassInvElsewhere ==
    ASSUME pc \notin {"stepping", "performing"}
    PROVE  PassInv
BY DEF PassInv

(* What comes through is checked when it comes, and the rows kept stay as  *)
(* they are until the outer scan goes on.                                  *)
THEOREM PassInvariance == Spec => []PassInv
<1>1. Init => PassInv
    BY PassInvElsewhere DEF Init
<1>2. CallInv /\ RowsInv /\ PassInv /\ [Next]_vars => PassInv'
  <2> SUFFICES ASSUME CallInv, RowsInv, PassInv, [Next]_vars
               PROVE  PassInv'
      OBVIOUS
  <2>1. ASSUME pc' \notin {"stepping", "performing"}
        PROVE  PassInv'
      BY <2>1 DEF PassInv
  <2>2. CASE \E t \in Texts : Execute(t)
      BY <2>1, <2>2 DEF Execute
  <2>3. CASE SyntaxError \/ ParseQuery \/ Prepare \/ PrepareFails \/ PassOn
             \/ GeneratePlanOfNoTable \/ SelectEnds \/ TableMissing \/ PerformEnds
    <3>1. pc' \notin {"stepping", "performing"}
        BY <2>3 DEF SyntaxError, ParseQuery, Prepare, PrepareFails, PassOn,
                    GeneratePlanOfNoTable, SelectEnds, TableMissing, PerformEnds, Answer
    <3> QED
        BY <2>1, <3>1
  <2>4. CASE GeneratePlan
    <3>1. /\ pc' = "stepping" /\ rows' = <<>> /\ output' = NULL
          /\ UNCHANGED <<text, stmt>>
        BY <2>4 DEF GeneratePlan, CallInv, PlanOfStmt
    <3> QED
        BY <3>1, NoRowPasses DEF PassInv
  <2>5. CASE Step
    <3>1. pc = "stepping" /\ UNCHANGED <<text, stmt, pc>>
        BY <2>5 DEF Step
    <3>2. PICK row \in Rows[stmt.tables[Scan]] :
                   SkipRow(row) \/ JoinRejects(row) \/ KeepRow(row) \/ DeliverRow(row)
        BY <2>5 DEF Step
    <3>3. RowPasses(text.where, rows, stmt.tables)
        BY <3>1 DEF PassInv
    <3>4. CASE SkipRow(row) \/ JoinRejects(row)
      <4>1. UNCHANGED rows /\ output' = NULL
          BY <3>4 DEF SkipRow, JoinRejects
      <4> QED
          BY <3>1, <3>3, <4>1 DEF PassInv
    <3>5. ASSUME PassesScan(row), PassesJoin(row)
          PROVE  RowPasses(text.where, Append(rows, row), stmt.tables)
      <4>1. HoldsHere(text.where, Append(rows, row), stmt.tables, Len(rows) + 1)
          BY <3>1, <3>5, ScannedRowHolds
      <4>2. /\ stmt.tables \in Seq(Tables) /\ IsTuple(rows, stmt.tables)
            /\ Len(rows) < Len(stmt.tables)
            /\ row \in Rows[stmt.tables[Len(rows) + 1]]
          BY <3>1, ScanIs DEF RowsInv
      <4> QED
          BY <3>3, <4>1, <4>2, LongerPasses
    <3>6. CASE KeepRow(row)
      <4>1. /\ PassesScan(row) /\ PassesJoin(row)
            /\ rows' = Append(rows, row) /\ output' = NULL
          BY <3>6 DEF KeepRow
      <4> QED
          BY <3>1, <3>5, <4>1 DEF PassInv
    <3>7. CASE DeliverRow(row)
      <4>1. /\ PassesScan(row) /\ PassesJoin(row) /\ UNCHANGED rows
            /\ output' = [rows |-> Append(rows, row), values |-> Project(row)]
          BY <3>7 DEF DeliverRow
      <4>2. output'.rows = Append(rows, row)
          BY <4>1
      <4> QED
          BY <3>1, <3>3, <3>5, <4>1, <4>2 DEF PassInv
    <3> QED
        BY <3>2, <3>4, <3>6, <3>7
  <2>6. CASE InnerEnds
    <3>1. /\ pc = "stepping" /\ rows # <<>> /\ rows' = Front(rows) /\ output' = NULL
          /\ UNCHANGED <<text, stmt, pc>>
        BY <2>6 DEF InnerEnds
    <3>2. stmt.tables \in Seq(Tables) /\ IsTuple(rows, stmt.tables)
        BY <3>1, ScanIs
    <3>3. RowPasses(text.where, Front(rows), stmt.tables)
        BY <3>1, <3>2, ShorterPasses DEF PassInv
    <3> QED
        BY <3>1, <3>3 DEF PassInv
  <2>7. CASE BeginPerform
    <3>1. pc' = "performing" /\ output' = NULL
        BY <2>7 DEF BeginPerform, CallInv, PlanOfStmt
    <3> QED
        BY <3>1 DEF PassInv
  <2>8. CASE PerformIterator
    <3>1. pc = "performing" /\ UNCHANGED <<text, stmt, pc>>
        BY <2>8 DEF PerformIterator
    <3>2. PICK row \in Rows[stmt.tables[1]] : Perform(row) \/ LeaveRow(row)
        BY <2>8 DEF PerformIterator
    <3>3. CASE LeaveRow(row)
        BY <3>1, <3>3 DEF LeaveRow, PassInv
    <3>4. CASE Perform(row)
      <4>1. Passes(stmt.where, PerformContext(row)) /\ output'.rows = <<row>>
          BY <3>4 DEF Perform
      <4>2. RowPasses(text.where, <<row>>, stmt.tables)
          BY <3>1, <4>1, TouchedRowPasses
      <4> QED
          BY <3>1, <4>1, <4>2 DEF PassInv
    <3> QED
        BY <3>2, <3>3, <3>4
  <2>9. CASE UNCHANGED vars
      BY <2>9 DEF vars, PassInv
  <2> QED
      BY <2>2, <2>3, <2>4, <2>5, <2>6, <2>7, <2>8, <2>9 DEF Next
<1> QED
    BY <1>1, <1>2, CallInvariance, RowsInvariance, PTL DEF Spec

(* Whatever else is in the clause: the rows that a SELECT delivers or      *)
(* keeps, and the one that an UPDATE or a DELETE touches, satisfy what is  *)
(* bound of the clause as it was written.                                  *)
THEOREM RowsPass == Spec => []RowsPassBoundPart
<1>1. CallInv /\ PassInv => RowsPassBoundPart
  <2> SUFFICES ASSUME CallInv, PassInv
               PROVE  RowsPassBoundPart
      OBVIOUS
  <2> DEFINE tuple == IF output # NULL THEN output.rows ELSE rows
  <2>1. RowPasses(text.where, tuple, stmt.tables)
    <3>1. CASE pc = "stepping"
        BY <3>1 DEF PassInv
    <3>2. CASE pc = "performing" /\ output # NULL
        BY <3>2 DEF PassInv
    <3>3. CASE pc # "stepping" /\ (pc = "performing" => output = NULL)
      <4>1. rows = <<>> /\ output = NULL
          BY <3>3 DEF CallInv, PlanOfStmt
      <4> QED
          BY <4>1, NoRowPasses
    <3> QED
        BY <3>1, <3>2, <3>3
  <2> HIDE DEF tuple
  <2>2. \A n \in DOMAIN tuple : \A c \in ConjunctsWritten(text.where) :
            Plain(c) /\ BoundBy(c, {stmt.tables[i] : i \in 1 .. n}, stmt.tables)
                => HoldsAsWritten(c, SubSeq(tuple, 1, n), stmt.tables)
      BY <2>1 DEF RowPasses, HoldsHere
  <2> QED
      BY <2>2 DEF RowsPassBoundPart, tuple
<1> QED
    BY <1>1, CallInvariance, PassInvariance, PTL
=============================================================================
