------------------------------ MODULE Induction ------------------------------
(***************************************************************************)
(* Induction over numbers with a set in place of a property, and functions *)
(* defined by recursion.                                                   *)
(*                                                                         *)
(* The induction theorems of the library take the property to be proved as *)
(* an operator, which the provers cannot instantiate. What is proved here  *)
(* takes the set of the numbers that have the property, which is a value   *)
(* like any other: it follows from the well-foundedness of < on Nat, a     *)
(* fact of the library without a parameter.                                *)
(***************************************************************************)
EXTENDS Integers, Sequences, TLAPS, WellFoundedInduction

(* A set of natural numbers that is not empty has a least element.         *)
LEMMA LeastNatural ==
    ASSUME NEW T, T \subseteq Nat, T # {}
    PROVE  \E n \in T : \A m \in T : n <= m
<1> DEFINE R == OpToRel(<, Nat)
<1>1. IsWellFoundedOn(R, Nat)
    BY NatLessThanWellFounded, Zenon
<1>2. \A m, n \in Nat : m < n => <<m, n>> \in R
    BY DEF OpToRel
<1> HIDE DEF R
<1>3. PICK n \in T : \A m \in T : ~(<<m, n>> \in R)
    BY <1>1, WFMin, Zenon
<1>4. ASSUME NEW m \in T PROVE n <= m
  <2>1. m \in Nat /\ n \in Nat
      OBVIOUS
  <2>2. ~(m < n)
      BY <1>2, <1>3, <2>1
  <2> QED
      BY <2>1, <2>2
<1> QED
    BY <1>4

(* A set that has 0 and with every number the next one has them all.       *)
LEMMA NaturalInduction ==
    ASSUME NEW T, 0 \in T, \A n \in Nat : n \in T => n + 1 \in T
    PROVE  Nat \subseteq T
<1> SUFFICES ASSUME NEW k \in Nat, k \notin T
             PROVE  FALSE
    OBVIOUS
<1> DEFINE U == Nat \ T
<1>1. PICK n \in U : \A m \in U : n <= m
    BY LeastNatural
<1>2. n # 0
    OBVIOUS
<1>3. n - 1 \in Nat /\ n - 1 \notin U
    BY <1>1, <1>2
<1> QED
    BY <1>3

(* A set that has every number whose predecessors it has, has them all.    *)
LEMMA StrongInduction ==
    ASSUME NEW T,
           \A n \in Nat : (\A m \in Nat : m < n => m \in T) => n \in T
    PROVE  Nat \subseteq T
<1> SUFFICES ASSUME NEW k \in Nat, k \notin T
             PROVE  FALSE
    OBVIOUS
<1> DEFINE U == Nat \ T
<1>1. PICK n \in U : \A m \in U : n <= m
    BY LeastNatural
<1>2. \A m \in Nat : m < n => m \in T
    BY <1>1
<1> QED
    BY <1>2

(* At n the function is computed from its value at an earlier place, or is *)
(* base[n] where there is none.                                            *)
Recursive(f, before, base, F) ==
    \A n \in Nat :
        f[n] = IF before[n] < n THEN F[<<n, f[before[n]]>>] ELSE base[n]

(* There is such a function, whose values are of the type of those it is   *)
(* computed from.                                                          *)
LEMMA RecursiveFunction ==
    ASSUME NEW V, NEW before \in [Nat -> Nat], NEW base \in [Nat -> V],
           NEW F \in [Nat \X V -> V]
    PROVE  \E f \in [Nat -> V] : Recursive(f, before, base, F)
<1> DEFINE Step(g, m) == IF before[m] < m THEN F[<<m, g[before[m]]>>] ELSE base[m]
           Upto(n) == {g \in [0 .. n -> V] : \A m \in 0 .. n : g[m] = Step(g, m)}
<1>a. ASSUME NEW m \in Nat, NEW g, before[m] < m => g[before[m]] \in V
      PROVE  Step(g, m) \in V
  <2>1. CASE before[m] < m
    <3>1. <<m, g[before[m]]>> \in Nat \X V
        BY <1>a, <2>1
    <3>2. F[<<m, g[before[m]]>>] \in V
        BY <3>1, Zenon
    <3> QED
        BY <2>1, <3>2
  <2>2. CASE ~(before[m] < m)
      BY <2>2
  <2> QED
      BY <2>1, <2>2
<1>b. ASSUME NEW m \in Nat, NEW g, NEW h,
             before[m] < m => g[before[m]] = h[before[m]]
      PROVE  Step(g, m) = Step(h, m)
    BY <1>b, Zenon
<1>c. \A n \in Nat, m \in Nat : \A g \in Upto(n) :
          m <= n => g[m] = Step(g, m) /\ g[m] \in V
  <2> SUFFICES ASSUME NEW n \in Nat, NEW m \in Nat, NEW g \in Upto(n), m <= n
               PROVE  g[m] = Step(g, m) /\ g[m] \in V
      OBVIOUS
  <2> HIDE DEF Step
  <2>1. m \in 0 .. n
      OBVIOUS
  <2> QED
      BY <2>1
<1>d. \A n \in Nat : \A g \in [0 .. n -> V] :
          (\A m \in 0 .. n : g[m] = Step(g, m)) => g \in Upto(n)
    OBVIOUS
<1>e. \A n \in Nat : \A g \in Upto(n) : g \in [0 .. n -> V]
    OBVIOUS
<1> HIDE DEF Step, Upto
<1>1. ASSUME NEW n \in Nat, NEW k \in Nat, NEW g \in Upto(n), NEW h \in Upto(k)
      PROVE  \A m \in Nat : m <= n /\ m <= k => g[m] = h[m]
  <2> DEFINE T == {m \in Nat : m <= n /\ m <= k => g[m] = h[m]}
  <2>1. ASSUME NEW m \in Nat, \A i \in Nat : i < m => i \in T
        PROVE  m \in T
    <3> SUFFICES ASSUME m <= n, m <= k
                 PROVE  g[m] = h[m]
        OBVIOUS
    <3>1. g[m] = Step(g, m) /\ h[m] = Step(h, m)
        BY <1>c
    <3>2. before[m] \in Nat
        OBVIOUS
    <3>3. before[m] < m => g[before[m]] = h[before[m]]
        BY <2>1, <3>2
    <3> QED
        BY <3>1, <3>3, <1>b
  <2> HIDE DEF T
  <2>2. Nat \subseteq T
      BY <2>1, StrongInduction
  <2> QED
      BY <2>2 DEF T
<1>2. \A n \in Nat : Upto(n) # {}
  <2> DEFINE T == {n \in Nat : Upto(n) # {}}
  <2>1. 0 \in T
    <3> DEFINE g == [m \in 0 .. 0 |-> base[m]]
    <3>1. g \in [0 .. 0 -> V] /\ g[0] = base[0]
        OBVIOUS
    <3>2. before[0] \in Nat
        OBVIOUS
    <3>3. Step(g, 0) = base[0]
        BY <3>2 DEF Step
    <3>4. \A m \in 0 .. 0 : g[m] = Step(g, m)
        BY <3>1, <3>3
    <3>5. g \in Upto(0)
        BY <3>1, <3>4, <1>d
    <3> QED
        BY <3>5
  <2>2. ASSUME NEW n \in Nat, n \in T
        PROVE  n + 1 \in T
    <3>1. PICK g \in Upto(n) : TRUE
        BY <2>2
    <3> DEFINE h == [m \in 0 .. n + 1 |-> IF m <= n THEN g[m] ELSE Step(g, m)]
    <3>2. Step(g, n + 1) \in V
      <4>1. before[n + 1] \in Nat
          OBVIOUS
      <4>2. before[n + 1] < n + 1 => g[before[n + 1]] \in V
          BY <4>1, <1>c
      <4> QED
          BY <4>2, <1>a
    <3>3. \A m \in 0 .. n + 1 : h[m] = IF m <= n THEN g[m] ELSE Step(g, m)
        OBVIOUS
    <3>4. \A m \in 0 .. n : g[m] \in V
        BY <1>c
    <3>5. h \in [0 .. n + 1 -> V]
        BY <3>2, <3>4
    <3> HIDE DEF h
    <3>6. ASSUME NEW m \in 0 .. n + 1
          PROVE  h[m] = Step(h, m)
      <4>1. before[m] \in Nat /\ m \in Nat
          OBVIOUS
      <4>2. before[m] < m => h[before[m]] = g[before[m]]
          BY <4>1, <3>3
      <4>3. Step(h, m) = Step(g, m)
          BY <4>1, <4>2, <1>b
      <4>4. CASE m <= n
        <5>1. h[m] = g[m]
            BY <4>4, <3>3
        <5>2. g[m] = Step(g, m)
            BY <4>1, <4>4, <1>c
        <5> QED
            BY <5>1, <5>2, <4>3
      <4>5. CASE m = n + 1
        <5>1. ~(m <= n)
            BY <4>5
        <5>2. h[m] = Step(g, m)
            BY <5>1, <3>3
        <5> QED
            BY <5>2, <4>3
      <4> QED
          BY <4>4, <4>5
    <3>7. n + 1 \in Nat
        OBVIOUS
    <3>8. \A m \in 0 .. n + 1 : h[m] = Step(h, m)
        BY <3>6
    <3>9. h \in Upto(n + 1)
        BY <3>5, <3>7, <3>8, <1>d, Zenon
    <3> QED
        BY <3>9
  <2> HIDE DEF T
  <2>3. Nat \subseteq T
      BY <2>1, <2>2, NaturalInduction
  <2> QED
      BY <2>3 DEF T
<1> DEFINE G(n) == CHOOSE g : g \in Upto(n)
           f == [n \in Nat |-> G(n)[n]]
<1>3. \A n \in Nat : G(n) \in Upto(n)
    BY <1>2
<1> HIDE DEF G
<1>4. \A n \in Nat : G(n)[n] \in V /\ f[n] = G(n)[n]
    BY <1>3, <1>c
<1>5. f \in [Nat -> V]
    BY <1>4
<1> HIDE DEF f
<1>6. ASSUME NEW n \in Nat
      PROVE  f[n] = Step(f, n)
  <2>1. before[n] \in Nat
      OBVIOUS
  <2>2. G(n)[n] = Step(G(n), n)
      BY <1>3, <1>c
  <2>3. before[n] < n => f[before[n]] = G(n)[before[n]]
      BY <1>1, <1>3, <1>4, <2>1
  <2>4. Step(f, n) = Step(G(n), n)
      BY <2>1, <2>3, <1>b
  <2> QED
      BY <2>2, <2>4, <1>4
<1> QED
    BY <1>5, <1>6 DEF Step, Recursive

(* A function on first .. last that starts at a and is computed from one   *)
(* place to the next.                                                      *)
RecursiveFrom(f, first, last, a, F) ==
    \A i \in first .. last :
        f[i] = IF i = first THEN a ELSE F[<<i, f[i - 1]>>]

(* There is such a function, again with its type: it is what gives a value *)
(* to the recursive functions of a LET, which are defined by CHOOSE.       *)
LEMMA RecursiveSequence ==
    ASSUME NEW V, NEW first \in Nat, NEW last \in Nat, NEW a \in V,
           NEW F \in [Nat \X V -> V]
    PROVE  \E f \in [first .. last -> V] : RecursiveFrom(f, first, last, a, F)
<1> DEFINE before == [i \in Nat |-> IF i <= first THEN i ELSE i - 1]
           base == [i \in Nat |-> a]
<1>1. before \in [Nat -> Nat] /\ base \in [Nat -> V]
    OBVIOUS
<1>2. \A i \in Nat : /\ before[i] = IF i <= first THEN i ELSE i - 1
                     /\ base[i] = a
    OBVIOUS
<1> HIDE DEF before, base
<1>a. PICK f \in [Nat -> V] : Recursive(f, before, base, F)
  <2>1. before \in [Nat -> Nat]
      BY <1>1
  <2>2. base \in [Nat -> V]
      BY <1>1
  <2> QED
      BY <2>1, <2>2, RecursiveFunction
<1>3. \A n \in Nat :
          f[n] = IF before[n] < n THEN F[<<n, f[before[n]]>>] ELSE base[n]
    BY <1>a DEF Recursive
<1> DEFINE g == [i \in first .. last |-> f[i]]
<1>4. g \in [first .. last -> V]
    OBVIOUS
<1>5. ASSUME NEW i \in first .. last
      PROVE  g[i] = IF i = first THEN a ELSE F[<<i, g[i - 1]>>]
  <2>1. i \in Nat /\ g[i] = f[i]
      OBVIOUS
  <2>2. CASE i = first
    <3>1. before[i] = i /\ base[i] = a /\ ~(i < i)
        BY <1>2, <2>1, <2>2
    <3> QED
        BY <1>3, <2>1, <2>2, <3>1
  <2>3. CASE i # first
    <3>1. before[i] = i - 1 /\ i - 1 < i /\ i - 1 \in first .. last
        BY <1>2, <2>1, <2>3
    <3>2. f[i] = F[<<i, f[i - 1]>>]
        BY <1>3, <2>1, <3>1
    <3>3. g[i - 1] = f[i - 1]
        BY <3>1
    <3> QED
        BY <2>1, <2>3, <3>2, <3>3
  <2> QED
      BY <2>2, <2>3
<1> HIDE DEF g
<1>6. \A i \in first .. last :
          g[i] = IF i = first THEN a ELSE F[<<i, g[i - 1]>>]
    BY <1>5
<1> QED
    BY <1>4, <1>6 DEF RecursiveFrom

(* Induction along first .. last.                                          *)
LEMMA RangeInduction ==
    ASSUME NEW first \in Nat, NEW last \in Nat, NEW T,
           first \in T,
           \A i \in first + 1 .. last : i - 1 \in T => i \in T
    PROVE  first .. last \subseteq T
<1> DEFINE U == {n \in Nat : n \in first .. last => n \in T}
<1>1. 0 \in U
    OBVIOUS
<1>2. ASSUME NEW n \in Nat, n \in U
      PROVE  n + 1 \in U
  <2>1. CASE n + 1 \in first + 1 .. last
    <3>1. (n + 1) - 1 = n /\ n \in first .. last
        BY <2>1
    <3>2. n \in T
        BY <1>2, <3>1
    <3>3. n + 1 \in T
        BY <2>1, <3>1, <3>2
    <3> QED
        BY <3>3
  <2>2. CASE n + 1 \notin first + 1 .. last
    <3>1. n + 1 \in first .. last => n + 1 = first
        BY <2>2
    <3> QED
        BY <3>1
  <2> QED
      BY <2>1, <2>2
<1> HIDE DEF U
<1>3. Nat \subseteq U
    BY <1>1, <1>2, NaturalInduction
<1> QED
    BY <1>3 DEF U

(* Functions on S with the value of each x in V[x].                        *)
Typed(S, V) == {g \in [S -> UNION {V[x] : x \in S}] : \A x \in S : g[x] \in V[x]}

(* Every value of f is what F makes of the others.                         *)
Computes(f, S, F) == \A x \in S : f[x] = F[<<x, f>>]

(* At x a function is computed from its values at places of a lower rank.  *)
DependsOnLower(S, V, rank, F) ==
    \A x \in S : \A g, h \in Typed(S, V) :
        (\A y \in S : rank[y] < rank[x] => g[y] = h[y]) => F[<<x, g>>] = F[<<x, h>>]

(* What it is to have these types.                                         *)
LEMMA TypedFunction ==
    ASSUME NEW S, NEW V, NEW g
    PROVE  /\ g \in Typed(S, V) => /\ g = [x \in S |-> g[x]]
                                   /\ \A x \in S : g[x] \in V[x]
           /\ g = [x \in S |-> g[x]] /\ (\A x \in S : g[x] \in V[x]) => g \in Typed(S, V)
<1> DEFINE W == UNION {V[x] : x \in S}
<1>1. \A x \in S : V[x] \subseteq W
    OBVIOUS
<1> HIDE DEF W
<1>2. Typed(S, V) = {f \in [S -> W] : \A x \in S : f[x] \in V[x]}
    BY DEF Typed, W
<1>3. ASSUME g = [x \in S |-> g[x]], \A x \in S : g[x] \in V[x]
      PROVE  g \in [S -> W]
  <2>1. \A x \in S : g[x] \in W
      BY <1>1, <1>3
  <2> QED
      BY <1>3, <2>1
<1> QED
    BY <1>2, <1>3

(* A function computed along a bounded rank is there, with its type.       *)
LEMMA RankedFunction ==
    ASSUME NEW S, NEW N \in Nat, NEW rank \in [S -> 0 .. N], NEW V,
           NEW start \in Typed(S, V), NEW F,
           \A x \in S : \A g \in Typed(S, V) : F[<<x, g>>] \in V[x],
           DependsOnLower(S, V, rank, F)
    PROVE  \E f \in Typed(S, V) : Computes(f, S, F)
<1> DEFINE Upto(n) == {g \in Typed(S, V) : \A x \in S : rank[x] < n => g[x] = F[<<x, g>>]}
           T == {n \in Nat : Upto(n) # {}}
<1>1. 0 \in T
  <2>1. \A x \in S : ~(rank[x] < 0)
      OBVIOUS
  <2>2. start \in Upto(0)
      BY <2>1
  <2> QED
      BY <2>2
<1>2. ASSUME NEW n \in Nat, n \in T
      PROVE  n + 1 \in T
  <2>1. PICK g \in Typed(S, V) : \A x \in S : rank[x] < n => g[x] = F[<<x, g>>]
      BY <1>2
  <2> DEFINE h == [x \in S |-> IF rank[x] < n THEN g[x] ELSE F[<<x, g>>]]
  <2>2. \A x \in S : h[x] = IF rank[x] < n THEN g[x] ELSE F[<<x, g>>]
      OBVIOUS
  <2>3. h = [x \in S |-> h[x]]
      OBVIOUS
  <2> HIDE DEF h
  <2>4. \A x \in S : g[x] \in V[x]
      BY TypedFunction
  <2>5. \A x \in S : h[x] \in V[x]
      BY <2>2, <2>4
  <2>6. h \in Typed(S, V)
      BY <2>3, <2>5, TypedFunction, Zenon
  <2>7. ASSUME NEW x \in S, rank[x] < n + 1
        PROVE  h[x] = F[<<x, h>>]
    <3>1. \A y \in S : rank[y] \in 0 .. N
        OBVIOUS
    <3>2. ASSUME NEW y \in S, rank[y] < rank[x]
          PROVE  g[y] = h[y]
      <4>1. rank[y] \in Nat /\ rank[x] \in Nat
          BY <3>1
      <4>2. rank[y] < n
          BY <2>7, <3>2, <4>1
      <4> QED
          BY <2>2, <4>2
    <3>3. F[<<x, g>>] = F[<<x, h>>]
        BY <2>6, <3>2, Zenon DEF DependsOnLower
    <3>4. CASE rank[x] < n
      <4>1. h[x] = g[x]
          BY <2>2, <3>4
      <4>2. g[x] = F[<<x, g>>]
          BY <2>1, <3>4
      <4> QED
          BY <3>3, <4>1, <4>2, Zenon
    <3>5. CASE ~(rank[x] < n)
      <4>1. h[x] = F[<<x, g>>]
          BY <2>2, <3>5
      <4> QED
          BY <3>3, <4>1, Zenon
    <3> QED
        BY <3>4, <3>5
  <2>8. h \in Upto(n + 1)
      BY <2>6, <2>7
  <2> QED
      BY <2>8
<1> HIDE DEF T
<1>3. N + 1 \in T
    BY <1>1, <1>2, NaturalInduction
<1>4. PICK f \in Upto(N + 1) : TRUE
    BY <1>3 DEF T
<1>5. \A x \in S : rank[x] < N + 1
  <2>1. \A x \in S : rank[x] \in 0 .. N
      OBVIOUS
  <2> QED
      BY <2>1
<1>6. f \in Typed(S, V) /\ Computes(f, S, F)
    BY <1>4, <1>5, Zenon DEF Computes
<1> QED
    BY <1>6
=============================================================================
