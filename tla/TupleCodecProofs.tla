-------------------------- MODULE TupleCodecProofs --------------------------
(***************************************************************************)
(* What is read, indexed and compared is what was written: proofs about    *)
(* TupleCodec.tla for any tables, literals within the int of the program   *)
(* and UPDATE lists, and rows of any length.                               *)
(*                                                                         *)
(* The invariant IInv says that the bytes of the row are those written for *)
(* the values last said for its columns, in their types (Held). What the   *)
(* properties say then follows from RowIsRead, which has no state: the row *)
(* that TupleToString makes of values of their columns' types is consumed  *)
(* as a whole, read back as these values and cut into keys that are the    *)
(* values. An UPDATE writes what was read, not what was said, so that the  *)
(* induction needs that both are written alike (WrittenAsRead).            *)
(***************************************************************************)
EXTENDS TupleCodec, Induction, SequenceTheorems

(* The digits of m, with the function that gives those of smaller numbers. *)
Digits(m, d) == IF m < 10 THEN <<48 + m>> ELSE Append(d[m \div 10], 48 + (m % 10))

(* The recursive function of NumberToString is there.                      *)
LEMMA DigitsExist ==
    \E d \in [Nat -> Seq(Digit)] : d = [m \in Nat |-> Digits(m, d)]
<1> DEFINE before == [m \in Nat |-> IF m < 10 THEN m ELSE m \div 10]
           base == [m \in Nat |-> IF m < 10 THEN <<48 + m>> ELSE <<>>]
           F == [p \in Nat \X Seq(Digit) |-> Append(p[2], 48 + (p[1] % 10))]
<1>1. before \in [Nat -> Nat]
    OBVIOUS
<1>2. base \in [Nat -> Seq(Digit)]
  <2>1. ASSUME NEW m \in Nat, m < 10 PROVE <<48 + m>> \in Seq(Digit)
    <3>1. 48 + m \in Digit
        BY <2>1 DEF Digit
    <3> QED
        BY <3>1
  <2> QED
      BY <2>1
<1>3. F \in [Nat \X Seq(Digit) -> Seq(Digit)]
  <2>1. ASSUME NEW n \in Nat PROVE 48 + (n % 10) \in Digit
      BY DEF Digit
  <2>2. ASSUME NEW n \in Nat, NEW s \in Seq(Digit)
        PROVE  Append(s, 48 + (n % 10)) \in Seq(Digit)
      BY <2>1
  <2> QED
      BY <2>2
<1>4. \A m \in Nat : /\ before[m] = IF m < 10 THEN m ELSE m \div 10
                     /\ before[m] \in Nat
                     /\ m < 10 => base[m] = <<48 + m>>
    OBVIOUS
<1>5. \A n \in Nat, s \in Seq(Digit) : F[<<n, s>>] = Append(s, 48 + (n % 10))
    OBVIOUS
<1> HIDE DEF before, base, F
<1>6. PICK d \in [Nat -> Seq(Digit)] : Recursive(d, before, base, F)
    BY <1>1, <1>2, <1>3, RecursiveFunction
<1>7. ASSUME NEW m \in Nat
      PROVE  d[m] = Digits(m, d)
  <2>1. CASE m < 10
    <3>0. before[m] = m
        BY <1>4, <2>1, Zenon
    <3>1. ~(before[m] < m)
        BY <3>0
    <3>2. d[m] = base[m]
        BY <1>6, <3>1 DEF Recursive
    <3> QED
        BY <1>4, <2>1, <3>2 DEF Digits
  <2>2. CASE ~(m < 10)
    <3>0. before[m] = m \div 10
        BY <1>4, <2>2, Zenon
    <3>1. before[m] < m
        BY <2>2, <3>0
    <3>2. d[m] = F[<<m, d[before[m]]>>]
        BY <1>6, <3>1 DEF Recursive
    <3>3. d[before[m]] \in Seq(Digit)
        BY <1>4
    <3>4. d[m] = Append(d[m \div 10], 48 + (m % 10))
        BY <1>5, <3>0, <3>2, <3>3
    <3> QED
        BY <2>2, <3>4, Zenon DEF Digits
  <2> QED
      BY <2>1, <2>2
<1>8. d = [m \in Nat |-> Digits(m, d)]
    BY <1>7
<1> QED
    BY <1>8

(* A number is written in digits: at least one, and no more of them than   *)
(* the number says.                                                        *)
LEMMA NumberToStringType ==
    ASSUME NEW n \in Nat
    PROVE  /\ NumberToString(n) \in Seq(Digit)
           /\ Len(NumberToString(n)) <= n + 1
           /\ n > 0 => Len(NumberToString(n)) <= n
<1> DEFINE d == CHOOSE d : d = [m \in Nat |-> Digits(m, d)]
           T == {m \in Nat : /\ d[m] \in Seq(Digit)
                             /\ Len(d[m]) <= m + 1
                             /\ m > 0 => Len(d[m]) <= m}
<1>1. NumberToString(n) = d[n]
    BY DEF NumberToString, Digits
<1>2. d = [m \in Nat |-> Digits(m, d)]
    BY DigitsExist, Zenon
<1> HIDE DEF d
<1>3. ASSUME NEW m \in Nat, \A k \in Nat : k < m => k \in T
      PROVE  m \in T
  <2>1. d[m] = Digits(m, d)
      BY <1>2, Zenon
  <2>2. CASE m < 10
    <3>1. d[m] = <<48 + m>>
        BY <2>1, <2>2 DEF Digits
    <3>2. 48 + m \in Digit
        BY <2>2 DEF Digit
    <3>3. d[m] \in Seq(Digit) /\ Len(d[m]) = 1
        BY <3>1, <3>2
    <3>4. Len(d[m]) <= m + 1 /\ (m > 0 => Len(d[m]) <= m)
        BY <3>3
    <3> QED
        BY <3>3, <3>4
  <2>3. CASE m >= 10
    <3>1. m \div 10 \in Nat /\ m \div 10 > 0 /\ m \div 10 < m
        BY <2>3
    <3>2. 48 + (m % 10) \in Digit
        BY DEF Digit
    <3>3. d[m \div 10] \in Seq(Digit) /\ Len(d[m \div 10]) <= m \div 10
        BY <1>3, <3>1
    <3>4. d[m] = Append(d[m \div 10], 48 + (m % 10))
        BY <2>1, <2>3 DEF Digits
    <3>5. d[m] \in Seq(Digit) /\ Len(d[m]) = Len(d[m \div 10]) + 1
        BY <3>2, <3>3, <3>4
    <3> QED
        BY <3>1, <3>3, <3>5
  <2> QED
      BY <2>2, <2>3
<1> HIDE DEF T
<1>4. Nat \subseteq T
    BY <1>3, StrongInduction
<1> QED
    BY <1>1, <1>4 DEF T

(* Bytes are numbers below 256.                                            *)
LEMMA ByteIsNumber == \A b \in Byte : b \in Nat /\ b <= 255
    BY DEF Byte

(* atoi of any string is a natural number, since it stops at a sign.       *)
LEMMA StringToNumberType ==
    ASSUME NEW s \in Seq(Byte)
    PROVE  StringToNumber(s) \in Nat
<1> DEFINE append(i, x) == 10 * x + (s[i] - 48)
           number == CHOOSE number : number =
               [i \in 0 .. Len(s) |-> IF i = 0 THEN 0 ELSE append(i, number[i - 1])]
           Numeral(i) == \A j \in 1 .. i : s[j] \in Digit
           Whole(i) == Numeral(i) /\ (i < Len(s) => ~Numeral(i + 1))
           length == CHOOSE i \in 0 .. Len(s) : Whole(i)
<1>1. StringToNumber(s) = number[length]
    BY DEF StringToNumber
<1>2. number = [i \in 0 .. Len(s) |-> IF i = 0 THEN 0 ELSE append(i, number[i - 1])]
  <2> DEFINE F == [p \in Nat \X Int |->
                      IF p[1] \in 1 .. Len(s) THEN append(p[1], p[2]) ELSE 0]
  <2>1. ASSUME NEW i \in 1 .. Len(s)
        PROVE  s[i] \in Int
    <3>1. s[i] \in Byte
        OBVIOUS
    <3> QED
        BY <3>1, ByteIsNumber
  <2>2. F \in [Nat \X Int -> Int]
      BY <2>1
  <2>3. \A i \in 1 .. Len(s), x \in Int : F[<<i, x>>] = append(i, x)
      OBVIOUS
  <2> HIDE DEF F
  <2>4. PICK f \in [0 .. Len(s) -> Int] : RecursiveFrom(f, 0, Len(s), 0, F)
    <3>1. Len(s) \in Nat /\ 0 \in Nat /\ 0 \in Int
        OBVIOUS
    <3> QED
        BY <2>2, <3>1, RecursiveSequence
  <2>5. ASSUME NEW i \in 0 .. Len(s)
        PROVE  f[i] = IF i = 0 THEN 0 ELSE append(i, f[i - 1])
    <3>1. i # 0 => i \in 1 .. Len(s) /\ i - 1 \in 0 .. Len(s)
        OBVIOUS
    <3>2. i # 0 => f[i - 1] \in Int
        BY <3>1
    <3>3. i # 0 => F[<<i, f[i - 1]>>] = append(i, f[i - 1])
        BY <2>3, <3>1, <3>2
    <3> QED
        BY <2>4, <3>3 DEF RecursiveFrom
  <2> HIDE DEF append
  <2>6. f = [i \in 0 .. Len(s) |-> IF i = 0 THEN 0 ELSE append(i, f[i - 1])]
      BY <2>5
  <2> QED
      BY <2>6
<1> HIDE DEF number
<1>3. length \in 0 .. Len(s) /\ Whole(length)
  <2> DEFINE T == {i \in 0 .. Len(s) : Numeral(i)}
             U == {k \in 0 .. Len(s) : Len(s) - k \in T}
  <2>1. Len(s) \in U
      BY DEF Digit
  <2>2. PICK k \in U : \A m \in U : k <= m
    <3>1. U \subseteq Nat /\ U # {}
        BY <2>1
    <3> HIDE DEF U
    <3> QED
        BY <3>1, LeastNatural
  <2>3. Len(s) - k \in 0 .. Len(s) /\ Numeral(Len(s) - k)
      BY <2>2
  <2>4. Len(s) - k < Len(s) => ~Numeral(Len(s) - k + 1)
    <3> SUFFICES ASSUME Len(s) - k < Len(s), Numeral(Len(s) - k + 1)
                 PROVE  FALSE
        OBVIOUS
    <3>1. k - 1 \in 0 .. Len(s) /\ Len(s) - (k - 1) = Len(s) - k + 1
        OBVIOUS
    <3>2. k - 1 \in U
        BY <3>1
    <3>3. k \in Nat
        OBVIOUS
    <3> HIDE DEF U
    <3>4. k <= k - 1
        BY <2>2, <3>2
    <3> QED
        BY <3>3, <3>4
  <2>5. \E i \in 0 .. Len(s) : Whole(i)
      BY <2>3, <2>4
  <2> HIDE DEF Whole
  <2> QED
      BY <2>5
<1> HIDE DEF length
<1> DEFINE T == {i \in 0 .. length : number[i] \in Nat}
<1>4. 0 \in T
    BY <1>2, <1>3
<1>5. ASSUME NEW i \in 0 + 1 .. length, i - 1 \in T
      PROVE  i \in T
  <2>1. i \in 0 .. Len(s) /\ i # 0 /\ number[i - 1] \in Nat
      BY <1>3, <1>5
  <2>2. s[i] \in Digit
      BY <1>3
  <2>3. number[i] = append(i, number[i - 1])
    <3> HIDE DEF append
    <3> QED
        BY <1>2, <2>1
  <2>4. number[i] \in Nat
    <3>1. s[i] \in Nat /\ s[i] >= 48
        BY <2>2 DEF Digit
    <3>2. number[i] = 10 * number[i - 1] + (s[i] - 48)
        BY <2>3
    <3> HIDE DEF number
    <3> QED
        BY <2>1, <3>1, <3>2
  <2> QED
      BY <1>3, <2>4
<1>6. length \in Nat
    BY <1>3
<1> HIDE DEF T
<1>7. 0 .. length \subseteq T
    BY <1>4, <1>5, <1>6, RangeInduction
<1>8. length \in T
    BY <1>6, <1>7
<1> QED
    BY <1>1, <1>8 DEF T

(* A word is four bytes.                                                   *)
LEMMA WordType ==
    ASSUME NEW n \in Nat
    PROVE  /\ Word(n) \in Seq(Byte)
           /\ Len(Word(n)) = WordSize
<1>1. /\ n % 256 \in Byte
      /\ (n \div 256) % 256 \in Byte
      /\ (n \div 65536) % 256 \in Byte
      /\ (n \div 16777216) % 256 \in Byte
    BY SMT DEF Byte
<1> HIDE DEF Byte
<1> QED
    BY <1>1, SMT DEF Word, WordSize

(* The largest int, to be known by its bounds and not by its digits.       *)
LEMMA IntMaxIsNumber ==
    /\ IntMax \in Nat
    /\ IntMax >= 1
    /\ IntMax < 2147483648
    BY SMT DEF IntMax

(* What fits an int is a natural number.                                   *)
LEMMA FitsInt ==
    ASSUME NEW n \in 0 .. IntMax
    PROVE  n \in Nat /\ n <= IntMax
    BY IntMaxIsNumber, SMT

(* The number whose word was written is the one that is read there.        *)
LEMMA WordIsRead ==
    ASSUME NEW s, NEW offset \in Nat, NEW n \in 0 .. IntMax,
           \A j \in 1 .. WordSize : s[offset + j] = Word(n)[j]
    PROVE  WordAt(s, offset) = n
<1>1. /\ s[offset + 1] = n % 256
      /\ s[offset + 2] = (n \div 256) % 256
      /\ s[offset + 3] = (n \div 65536) % 256
      /\ s[offset + 4] = (n \div 16777216) % 256
    BY SMT DEF Word, WordSize
<1> DEFINE m == n \div 256
           k == m \div 256
           l == k \div 256
<1>a. n \in Nat /\ n < 2147483648
    BY FitsInt, IntMaxIsNumber, SMT
<1>2. /\ n = 256 * m + (n % 256) /\ m \in Nat /\ n % 256 \in 0 .. 255
      /\ m = 256 * k + (m % 256) /\ k \in Nat /\ m % 256 \in 0 .. 255
      /\ k = 256 * l + (k % 256) /\ l \in Nat /\ k % 256 \in 0 .. 255
    BY <1>a, SMT
<1>3. n \div 65536 = k
    BY <1>a, <1>2, SMT
<1>4. n \div 16777216 = l
    BY <1>a, <1>2, SMT
<1>5. l < 128
    BY <1>a, <1>2, SMT
<1>6. l % 256 = l
    BY <1>2, <1>5, SMT
<1>7. n = (n % 256) + 256 * (m % 256) + 65536 * (k % 256) + 16777216 * l
    BY <1>a, <1>2, SMT
<1> HIDE DEF m, k, l
<1>8. /\ s[offset + 1] = n % 256
      /\ s[offset + 2] = m % 256
      /\ s[offset + 3] = k % 256
      /\ s[offset + 4] = l
    BY <1>1, <1>3, <1>4, <1>6, SMT DEF m
<1> QED
    BY <1>5, <1>7, <1>8, SMT DEF WordAt

(* A literal that is read as a type has a value of the type, and either is *)
(* written as the same bytes.                                              *)
LEMMA GetAsType ==
    ASSUME NEW v \in Literals, NEW type \in DataType
    PROVE  /\ GetAs(type, v) \in ValuesOf(type)
           /\ TupleElementToString(type, v)
                = TupleElementToString(type, GetAs(type, v))
<1>1. PICK t \in DataType : v \in ValuesOf(t)
    BY LiteralsFit
<1>2. GetAsNumber(v) \in 0 .. IntMax
    BY LiteralsFit
<1>3. CASE type = "kInt"
    BY <1>2, <1>3 DEF GetAs, Number, ValuesOf, TupleElementToString, GetAsNumber
<1>4. CASE type = "kText"
  <2>1. CASE t = "kText"
      BY <1>1, <1>4, <2>1
         DEF GetAs, Text, ValuesOf, TupleElementToString, GetAsString
  <2>2. CASE t = "kInt"
    <3>1. v.type = "kInt" /\ v.number \in 0 .. IntMax
        BY <1>1, <2>2 DEF ValuesOf
    <3> DEFINE s == NumberToString(v.number)
    <3>2. v.number \in Nat /\ v.number <= IntMax
        BY <3>1, FitsInt
    <3>3. s \in Seq(Digit) /\ Len(s) <= v.number + 1 /\ (v.number > 0 => Len(s) <= v.number)
        BY <3>2, NumberToStringType
    <3>4. s \in Seq(Byte)
        BY <3>3 DEF Digit, Byte
    <3>5. Len(s) <= IntMax
      <4>1. Len(s) \in Nat
          BY <3>3
      <4> HIDE DEF s
      <4> QED
          BY <3>2, <3>3, <4>1, IntMaxIsNumber, SMT
    <3>6. GetAsString(v) = s
        BY <3>1 DEF GetAsString
    <3> HIDE DEF s
    <3>7. GetAs(type, v) = Text(s)
        BY <1>4, <3>6 DEF GetAs
    <3>8. GetAsString(Text(s)) = s
        BY DEF GetAsString, Text
    <3>9. Text(s) \in ValuesOf(type)
        BY <1>4, <3>4, <3>5 DEF Text, ValuesOf
    <3> QED
        BY <1>4, <3>6, <3>7, <3>8, <3>9 DEF TupleElementToString
  <2> QED
      BY <2>1, <2>2 DEF DataType
<1> QED
    BY <1>3, <1>4 DEF DataType

(* ValuesOf, by the parts of a value.                                      *)
ValueOfType(type, v) ==
    \/ type = "kInt" /\ v = Number(v.number) /\ v.number \in 0 .. IntMax
    \/ /\ type = "kText" /\ v = Text(v.text)
       /\ v.text \in Seq(Byte) /\ Len(v.text) \in 0 .. IntMax

(* Values of a type have its parts.                                        *)
LEMMA ValuesOfType ==
    ASSUME NEW type \in DataType, NEW v \in ValuesOf(type)
    PROVE  ValueOfType(type, v)
<1>1. CASE type = "kInt"
    BY <1>1 DEF ValuesOf, ValueOfType, Number
<1>2. CASE type = "kText"
  <2>1. v \in [type : {"kText"}, text : Seq(Byte)] /\ Len(v.text) <= IntMax
      BY <1>2 DEF ValuesOf
  <2>2. v.text \in Seq(Byte) /\ Len(v.text) \in Nat
      BY <2>1
  <2>3. v = Text(v.text)
      BY <2>1 DEF Text
  <2>4. Len(v.text) \in 0 .. IntMax
      BY <2>1, <2>2, IntMaxIsNumber, SMT
  <2> QED
      BY <1>2, <2>2, <2>3, <2>4 DEF ValueOfType
<1> QED
    BY <1>1, <1>2 DEF DataType

(* The bytes of one column.                                                *)
Element(type, v) == TupleElementToString(type, v)

(* Reading a column as its type leaves what it holds as it is.             *)
LEMMA GetAsSame ==
    ASSUME NEW type \in DataType, NEW v \in ValuesOf(type)
    PROVE  GetAs(type, v) = v /\ v.type = type
<1>1. ValueOfType(type, v)
    BY ValuesOfType
<1>2. CASE type = "kInt"
    BY <1>1, <1>2 DEF ValueOfType, GetAs, GetAsNumber, Number
<1>3. CASE type = "kText"
    BY <1>1, <1>3 DEF ValueOfType, GetAs, GetAsString, Text
<1> QED
    BY <1>2, <1>3 DEF DataType

(* A number takes a word.                                                  *)
LEMMA ElementOfNumber ==
    ASSUME NEW n \in 0 .. IntMax
    PROVE  /\ Element("kInt", Number(n)) = Word(n)
           /\ Element("kInt", Number(n)) \in Seq(Byte)
           /\ Len(Element("kInt", Number(n))) = 4
<1>1. Element("kInt", Number(n)) = Word(n)
    BY DEF Element, TupleElementToString, GetAsNumber, Number
<1>2. n \in Nat
    BY FitsInt
<1> QED
    BY <1>1, <1>2, WordType DEF WordSize

(* A text is its length in a word, and the text.                           *)
LEMMA ElementOfText ==
    ASSUME NEW s \in Seq(Byte), Len(s) \in 0 .. IntMax
    PROVE  /\ Element("kText", Text(s)) = Word(Len(s)) \o s
           /\ Element("kText", Text(s)) \in Seq(Byte)
           /\ Len(Element("kText", Text(s))) = 4 + Len(s)
           /\ \A j \in 1 .. 4 : Element("kText", Text(s))[j] = Word(Len(s))[j]
           /\ \A j \in 1 .. Len(s) : Element("kText", Text(s))[4 + j] = s[j]
<1>1. Element("kText", Text(s)) = Word(Len(s)) \o s
    BY DEF Element, TupleElementToString, GetAsString, Text
<1>2. Len(s) \in Nat
    OBVIOUS
<1>3. Word(Len(s)) \in Seq(Byte) /\ Len(Word(Len(s))) = 4
    BY <1>2, WordType DEF WordSize
<1> DEFINE w == Word(Len(s))
<1> HIDE DEF w
<1>4. w \in Seq(Byte) /\ Len(w) = 4
    BY <1>3 DEF w
<1>5. /\ w \o s \in Seq(Byte)
      /\ Len(w \o s) = 4 + Len(s)
      /\ \A j \in 1 .. 4 : (w \o s)[j] = w[j]
      /\ \A j \in 1 .. Len(s) : (w \o s)[4 + j] = s[j]
  <2> HIDE DEF Byte
  <2>1. /\ w \o s \in Seq(Byte)
        /\ Len(w \o s) = 4 + Len(s)
        /\ \A i \in 1 .. 4 + Len(s) :
               (w \o s)[i] = IF i <= 4 THEN w[i] ELSE s[i - 4]
    <3>1. w \in Seq(Byte)
        BY <1>4
    <3>2. /\ w \o s \in Seq(Byte)
          /\ Len(w \o s) = Len(w) + Len(s)
          /\ \A i \in 1 .. Len(w) + Len(s) :
                 (w \o s)[i] = IF i <= Len(w) THEN w[i] ELSE s[i - Len(w)]
        BY <3>1, ConcatProperties
    <3> QED
        BY <1>4, <3>2
  <2>2. ASSUME NEW j \in 1 .. Len(s)
        PROVE  (w \o s)[4 + j] = s[j]
    <3>1. 4 + j \in 1 .. 4 + Len(s) /\ ~(4 + j <= 4) /\ (4 + j) - 4 = j
        BY <1>2
    <3> QED
        BY <2>1, <3>1
  <2>3. ASSUME NEW j \in 1 .. 4
        PROVE  (w \o s)[j] = w[j]
    <3>1. j \in 1 .. 4 + Len(s) /\ j <= 4
        BY <1>2
    <3> QED
        BY <2>1, <3>1
  <2> QED
      BY <2>1, <2>2, <2>3
<1> QED
    BY <1>1, <1>5 DEF w

(* What is written for a value of the column's type are bytes.             *)
LEMMA ElementType ==
    ASSUME NEW type \in DataType, NEW v \in ValuesOf(type)
    PROVE  Element(type, v) \in Seq(Byte)
<1>1. ValueOfType(type, v)
    BY ValuesOfType
<1> QED
    BY <1>1, ElementOfNumber, ElementOfText DEF ValueOfType

(* String s has e behind the offset.                                       *)
HeldAt(s, offset, e) ==
    /\ offset + Len(e) <= Len(s)
    /\ \A j \in 1 .. Len(e) : s[offset + j] = e[j]

(* The key of a column whose element begins behind the offset.             *)
KeyAt(type, s, offset) ==
    LET start == offset + (IF type = "kText" THEN WordSize ELSE 0)
        length == IF type = "kText" THEN WordAt(s, offset) ELSE WordSize
    IN  SubSeq(s, start + 1, start + length)

(* What a string has behind an offset can be cut out of it.                *)
LEMMA SubSeqIs ==
    ASSUME NEW s \in Seq(Byte), NEW t \in Seq(Byte), NEW offset \in Nat,
           HeldAt(s, offset, t)
    PROVE  SubSeq(s, offset + 1, offset + Len(t)) = t
<1> DEFINE u == SubSeq(s, offset + 1, offset + Len(t))
<1>1. Len(t) \in Nat /\ Len(s) \in Nat /\ offset + Len(t) <= Len(s)
    BY DEF HeldAt
<1>2. \A i \in offset + 1 .. offset + Len(t) : s[i] \in Byte
  <2> HIDE DEF Byte
  <2> QED
      BY <1>1, ElementOfSeq
<1>3. /\ u \in Seq(Byte)
      /\ Len(u) = Len(t)
      /\ \A i \in 1 .. Len(t) : u[i] = s[offset + i]
  <2>1. offset + 1 \in Int /\ offset + Len(t) \in Int
      BY <1>1
  <2>2. /\ u \in Seq(Byte)
        /\ Len(u) = IF offset + 1 <= offset + Len(t)
                    THEN offset + Len(t) - (offset + 1) + 1 ELSE 0
        /\ \A i \in 1 .. offset + Len(t) - (offset + 1) + 1 :
               u[i] = s[offset + 1 + i - 1]
      BY <1>2, <2>1, SubSeqProperties
  <2> HIDE DEF u
  <2>3. offset + Len(t) - (offset + 1) + 1 = Len(t)
      BY <1>1
  <2>4. \A i \in 1 .. Len(t) : offset + 1 + i - 1 = offset + i
      BY <1>1
  <2> QED
      BY <1>1, <2>2, <2>3, <2>4
<1> HIDE DEF u
<1>4. \A i \in 1 .. Len(u) : u[i] = t[i]
    BY <1>3 DEF HeldAt
<1>5. u = t
    BY <1>3, <1>4, SeqEqual
<1> QED
    BY <1>5 DEF u

(* Where the bytes of a value are, that value is read, its key is found,   *)
(* and the next element is expected right after them.                      *)
LEMMA ElementIsRead ==
    ASSUME NEW type \in DataType, NEW v \in ValuesOf(type),
           NEW s \in Seq(Byte), NEW offset \in Nat,
           HeldAt(s, offset, Element(type, v))
    PROVE  /\ AfterElement(type, s, offset) = offset + Len(Element(type, v))
           /\ StringToTupleElement(type, s, offset) = v
           /\ KeyAt(type, s, offset)
                = IF type = "kInt" THEN Word(v.number) ELSE v.text
<1>1. ValueOfType(type, v)
    BY ValuesOfType
<1>2. Len(s) \in Nat /\ offset # Outside
    BY DEF Outside
<1>3. CASE type = "kInt"
  <2>1. v = Number(v.number) /\ v.number \in 0 .. IntMax
      BY <1>1, <1>3 DEF ValueOfType
  <2>2. /\ Element(type, v) = Word(v.number)
        /\ Word(v.number) \in Seq(Byte)
        /\ Len(Word(v.number)) = 4
      BY <1>3, <2>1, ElementOfNumber
  <2>3. HeldAt(s, offset, Word(v.number))
      BY <2>2
  <2>4. offset + 4 <= Len(s) /\ AfterElement(type, s, offset) = offset + 4
      BY <1>2, <1>3, <2>2, <2>3 DEF HeldAt, AfterElement, WordSize
  <2>5. WordAt(s, offset) = v.number
      BY <2>1, <2>2, <2>3, WordIsRead DEF HeldAt, WordSize
  <2>6. StringToTupleElement(type, s, offset) = v
      BY <1>3, <2>1, <2>5 DEF StringToTupleElement
  <2>7. KeyAt(type, s, offset) = SubSeq(s, offset + 1, offset + 4)
      BY <1>3 DEF KeyAt, WordSize
  <2>8. SubSeq(s, offset + 1, offset + Len(Word(v.number))) = Word(v.number)
      BY <2>2, <2>3, SubSeqIs
  <2> QED
      BY <1>3, <2>2, <2>4, <2>6, <2>7, <2>8
<1>4. CASE type = "kText"
  <2> DEFINE t == v.text
  <2>1. v = Text(t) /\ t \in Seq(Byte) /\ Len(t) \in 0 .. IntMax
      BY <1>1, <1>4 DEF ValueOfType
  <2>2. /\ Element(type, v) = Word(Len(t)) \o t
        /\ Element(type, v) \in Seq(Byte)
        /\ Len(Element(type, v)) = 4 + Len(t)
        /\ \A j \in 1 .. 4 : Element(type, v)[j] = Word(Len(t))[j]
        /\ \A j \in 1 .. Len(t) : Element(type, v)[4 + j] = t[j]
    <3> HIDE DEF t
    <3>1. Element(type, v) = Element("kText", Text(t))
        BY <1>4, <2>1
    <3> QED
        BY <2>1, <3>1, ElementOfText
  <2> HIDE DEF t
  <2>3. /\ Len(t) \in Nat
        /\ offset + 4 + Len(t) <= Len(s)
        /\ \A j \in 1 .. 4 : s[offset + j] = Word(Len(t))[j]
        /\ \A j \in 1 .. Len(t) : s[offset + (4 + j)] = t[j]
    <3>1. Len(t) \in Nat
        BY <2>1
    <3>2. /\ offset + (4 + Len(t)) <= Len(s)
          /\ \A j \in 1 .. 4 + Len(t) : s[offset + j] = Element(type, v)[j]
        BY <2>2 DEF HeldAt
    <3>3. \A j \in 1 .. Len(t) : 4 + j \in 1 .. 4 + Len(t)
        BY <3>1
    <3>4. offset + 4 + Len(t) <= Len(s)
        BY <3>1, <3>2
    <3>5. \A j \in 1 .. 4 : s[offset + j] = Word(Len(t))[j]
      <4> SUFFICES ASSUME NEW j \in 1 .. 4
                   PROVE  s[offset + j] = Word(Len(t))[j]
          OBVIOUS
      <4>1. j \in 1 .. 4 + Len(t)
          BY <3>1
      <4> QED
          BY <2>2, <3>2, <4>1
    <3>6. \A j \in 1 .. Len(t) : s[offset + (4 + j)] = t[j]
        BY <2>2, <3>2, <3>3
    <3> QED
        BY <3>1, <3>4, <3>5, <3>6
  <2>4. WordAt(s, offset) = Len(t)
      BY <2>1, <2>3, WordIsRead DEF WordSize
  <2>5. AfterElement(type, s, offset) = offset + 4 + Len(t)
      BY <1>2, <1>4, <2>3, <2>4 DEF AfterElement, WordSize
  <2>6. HeldAt(s, offset + 4, t)
      BY <2>3 DEF HeldAt
  <2>7. SubSeq(s, offset + 4 + 1, offset + 4 + Len(t)) = t
      BY <2>1, <2>6, SubSeqIs
  <2>8. StringToTupleElement(type, s, offset) = v
      BY <1>4, <2>1, <2>5, <2>7 DEF StringToTupleElement, WordSize
  <2>9. KeyAt(type, s, offset) = t
      BY <1>4, <2>4, <2>7 DEF KeyAt, WordSize
  <2>10. offset + Len(Element(type, v)) = offset + 4 + Len(t)
      BY <2>2, <2>3
  <2>11. type # "kInt"
      BY <1>4
  <2> QED
      BY <2>5, <2>8, <2>9, <2>10, <2>11 DEF t
<1> QED
    BY <1>3, <1>4 DEF DataType

(* The bytes of the row after each of its columns, as TupleToString adds   *)
(* them up.                                                                *)
Bytes(types, values) ==
    CHOOSE bytes : bytes =
        [i \in 0 .. Len(types) |->
            IF i = 0 THEN <<>> ELSE bytes[i - 1] \o Element(types[i], values[i])]

(* A row is the last of them.                                              *)
LEMMA TupleToStringIs ==
    ASSUME NEW types, NEW values
    PROVE  TupleToString(types, values) = Bytes(types, values)[Len(types)]
    BY DEF TupleToString, Bytes, Element

(* They start with none and grow by an element for each column.            *)
LEMMA BytesStep ==
    ASSUME NEW types \in Seq(DataType), NEW values,
           \A i \in 1 .. Len(types) : Element(types[i], values[i]) \in Seq(Byte)
    PROVE  /\ Bytes(types, values) \in [0 .. Len(types) -> Seq(Byte)]
           /\ Bytes(types, values)[0] = <<>>
           /\ \A i \in 1 .. Len(types) :
                  Bytes(types, values)[i]
                    = Bytes(types, values)[i - 1] \o Element(types[i], values[i])
<1> DEFINE n == Len(types)
           grown(i, s) == s \o Element(types[i], values[i])
           F == [p \in Nat \X Seq(Byte) |->
                    IF p[1] \in 1 .. n THEN grown(p[1], p[2]) ELSE <<>>]
<1>1. n \in Nat
    OBVIOUS
<1>2. \A i \in 1 .. n : \A s \in Seq(Byte) : grown(i, s) \in Seq(Byte)
  <2> SUFFICES ASSUME NEW i \in 1 .. n, NEW s \in Seq(Byte)
               PROVE  grown(i, s) \in Seq(Byte)
      OBVIOUS
  <2>1. Element(types[i], values[i]) \in Seq(Byte)
      OBVIOUS
  <2> HIDE DEF Byte
  <2> QED
      BY <2>1, ConcatProperties
<1> HIDE DEF n, grown, Byte
<1>3. F \in [Nat \X Seq(Byte) -> Seq(Byte)]
    BY <1>2
<1>4. \A i \in 1 .. n : \A s \in Seq(Byte) : F[<<i, s>>] = grown(i, s)
    BY <1>1
<1> HIDE DEF F
<1>5. 0 \in Nat /\ <<>> \in Seq(Byte)
    OBVIOUS
<1>6. PICK f \in [0 .. n -> Seq(Byte)] : RecursiveFrom(f, 0, n, <<>>, F)
    BY <1>1, <1>3, <1>5, RecursiveSequence
<1>7. ASSUME NEW i \in 0 .. n
      PROVE  f[i] = IF i = 0 THEN <<>> ELSE grown(i, f[i - 1])
  <2>1. CASE i = 0
      BY <1>6, <2>1 DEF RecursiveFrom
  <2>2. CASE i # 0
    <3>1. i \in 1 .. n /\ i - 1 \in 0 .. n
        BY <1>1, <2>2
    <3>2. f[i - 1] \in Seq(Byte)
        BY <3>1
    <3>3. f[i] = F[<<i, f[i - 1]>>]
        BY <1>6, <2>2 DEF RecursiveFrom
    <3> QED
        BY <1>4, <2>2, <3>1, <3>2, <3>3
  <2> QED
      BY <2>1, <2>2
<1>8. f = [i \in 0 .. n |-> IF i = 0 THEN <<>> ELSE grown(i, f[i - 1])]
    BY <1>7
<1> DEFINE b == Bytes(types, values)
<1>9. b = [i \in 0 .. n |-> IF i = 0 THEN <<>> ELSE grown(i, b[i - 1])]
  <2>1. \E g : g = [i \in 0 .. n |-> IF i = 0 THEN <<>> ELSE grown(i, g[i - 1])]
      BY <1>8, Zenon
  <2>2. b = CHOOSE g : g = [i \in 0 .. n |->
                               IF i = 0 THEN <<>> ELSE grown(i, g[i - 1])]
      BY DEF Bytes, n, grown
  <2> HIDE DEF b
  <2> QED
      BY <2>1, <2>2
<1> HIDE DEF b
<1>10. b[0] = <<>>
    BY <1>1, <1>9
<1>11. ASSUME NEW i \in 1 .. n
       PROVE  b[i] = grown(i, b[i - 1])
  <2>1. i \in 0 .. n /\ i # 0
      BY <1>1
  <2> QED
      BY <1>9, <2>1
<1> DEFINE T == {i \in 0 .. n : b[i] \in Seq(Byte)}
<1>12. 0 \in T
  <2>1. b[0] \in Seq(Byte)
      BY <1>5, <1>10
  <2> HIDE DEF n
  <2> QED
      BY <1>1, <2>1
<1>13. ASSUME NEW i \in 0 + 1 .. n, i - 1 \in T
       PROVE  i \in T
  <2>1. i \in 1 .. n /\ i \in 0 .. n
    <3> HIDE DEF T, n
    <3> QED
        BY <1>1, <1>13
  <2>2. b[i - 1] \in Seq(Byte)
      BY <1>13
  <2>3. b[i] \in Seq(Byte)
      BY <1>2, <1>11, <2>1, <2>2
  <2> QED
      BY <2>1, <2>3
<1> HIDE DEF T
<1>14. 0 .. n \subseteq T
    BY <1>1, <1>12, <1>13, RangeInduction
<1>15. \A i \in 0 .. n : b[i] \in Seq(Byte)
    BY <1>14 DEF T
<1>16. b \in [0 .. n -> Seq(Byte)]
  <2>1. DOMAIN b = 0 .. n
      BY <1>9
  <2> QED
      BY <1>9, <1>15, <2>1
<1> QED
    BY <1>10, <1>11, <1>16 DEF b, n, grown

(* Rows whose elements are written alike are written alike.                *)
LEMMA SameElementsSameRow ==
    ASSUME NEW types \in Seq(DataType), NEW v, NEW w,
           \A i \in 1 .. Len(types) : Element(types[i], v[i]) \in Seq(Byte),
           \A i \in 1 .. Len(types) :
               Element(types[i], v[i]) = Element(types[i], w[i])
    PROVE  TupleToString(types, v) = TupleToString(types, w)
<1> DEFINE T == {i \in 0 .. Len(types) : Bytes(types, v)[i] = Bytes(types, w)[i]}
<1>1. Len(types) \in Nat
    OBVIOUS
<1>2. /\ Bytes(types, v)[0] = <<>>
      /\ \A i \in 1 .. Len(types) :
             Bytes(types, v)[i] = Bytes(types, v)[i - 1] \o Element(types[i], v[i])
    BY BytesStep
<1>3. /\ Bytes(types, w)[0] = <<>>
      /\ \A i \in 1 .. Len(types) :
             Bytes(types, w)[i] = Bytes(types, w)[i - 1] \o Element(types[i], w[i])
  <2>1. \A i \in 1 .. Len(types) : Element(types[i], w[i]) \in Seq(Byte)
      BY Zenon
  <2> QED
      BY <2>1, BytesStep
<1>4. 0 \in T
    BY <1>1, <1>2, <1>3
<1>5. ASSUME NEW i \in 0 + 1 .. Len(types), i - 1 \in T
      PROVE  i \in T
  <2>1. i \in 1 .. Len(types) /\ i \in 0 .. Len(types)
      BY <1>1
  <2>2. Bytes(types, v)[i - 1] = Bytes(types, w)[i - 1]
      BY <1>5
  <2>3. Element(types[i], v[i]) = Element(types[i], w[i])
      BY <2>1, Zenon
  <2>4. Bytes(types, v)[i] = Bytes(types, w)[i]
      BY <1>2, <1>3, <2>1, <2>2, <2>3, Zenon
  <2> QED
      BY <2>1, <2>4
<1> HIDE DEF T
<1>6. 0 .. Len(types) \subseteq T
    BY <1>1, <1>4, <1>5, RangeInduction
<1>7. Bytes(types, v)[Len(types)] = Bytes(types, w)[Len(types)]
    BY <1>1, <1>6 DEF T
<1> QED
    BY <1>7, TupleToStringIs

(* What is added to a string is at its end.                                *)
LEMMA HeldAtEnd ==
    ASSUME NEW s \in Seq(Byte), NEW e \in Seq(Byte)
    PROVE  HeldAt(s \o e, Len(s), e)
<1> HIDE DEF Byte
<1>1. /\ Len(s \o e) = Len(s) + Len(e)
      /\ \A i \in 1 .. Len(s) + Len(e) :
             (s \o e)[i] = IF i <= Len(s) THEN s[i] ELSE e[i - Len(s)]
    BY ConcatProperties
<1>2. Len(s) \in Nat /\ Len(e) \in Nat
    OBVIOUS
<1>3. ASSUME NEW j \in 1 .. Len(e)
      PROVE  (s \o e)[Len(s) + j] = e[j]
  <2>1. /\ Len(s) + j \in 1 .. Len(s) + Len(e)
        /\ ~(Len(s) + j <= Len(s))
        /\ (Len(s) + j) - Len(s) = j
      BY <1>2
  <2> QED
      BY <1>1, <2>1
<1> QED
    BY <1>1, <1>2, <1>3 DEF HeldAt

(* What a string has stays where it is when bytes are added.               *)
LEMMA HeldBeforeEnd ==
    ASSUME NEW s \in Seq(Byte), NEW e \in Seq(Byte), NEW t \in Seq(Byte),
           NEW offset \in Nat, HeldAt(s, offset, e)
    PROVE  HeldAt(s \o t, offset, e)
<1> HIDE DEF Byte
<1>1. /\ Len(s \o t) = Len(s) + Len(t)
      /\ \A i \in 1 .. Len(s) + Len(t) :
             (s \o t)[i] = IF i <= Len(s) THEN s[i] ELSE t[i - Len(s)]
    BY ConcatProperties
<1>2. Len(s) \in Nat /\ Len(e) \in Nat /\ Len(t) \in Nat
    OBVIOUS
<1>3. offset + Len(e) <= Len(s)
    BY DEF HeldAt
<1>4. ASSUME NEW j \in 1 .. Len(e)
      PROVE  (s \o t)[offset + j] = e[j]
  <2>1. offset + j \in 1 .. Len(s) + Len(t) /\ offset + j <= Len(s)
      BY <1>2, <1>3
  <2>2. s[offset + j] = e[j]
      BY DEF HeldAt
  <2> QED
      BY <1>1, <2>1, <2>2
<1>5. offset + Len(e) <= Len(s \o t)
    BY <1>1, <1>2, <1>3
<1> QED
    BY <1>4, <1>5 DEF HeldAt

(* Each element is where the bytes of the columns before it end.           *)
LEMMA ElementsAreHeld ==
    ASSUME NEW types \in Seq(DataType), NEW values,
           \A i \in 1 .. Len(types) : Element(types[i], values[i]) \in Seq(Byte),
           NEW i \in 1 .. Len(types)
    PROVE  /\ HeldAt(TupleToString(types, values),
                     Len(Bytes(types, values)[i - 1]), Element(types[i], values[i]))
           /\ Len(Bytes(types, values)[i])
                = Len(Bytes(types, values)[i - 1]) + Len(Element(types[i], values[i]))
<1> DEFINE b == Bytes(types, values)
           e(k) == Element(types[k], values[k])
           n == Len(types)
           offset == Len(b[i - 1])
           T == {k \in i .. n : HeldAt(b[k], offset, e(i))}
<1>1. n \in Nat /\ i \in Nat /\ i <= n /\ i - 1 \in 0 .. n /\ i \in 0 .. n
    OBVIOUS
<1>2. /\ b \in [0 .. n -> Seq(Byte)]
      /\ \A k \in 1 .. n : b[k] = b[k - 1] \o e(k)
    BY BytesStep
<1>3. \A k \in 1 .. n : e(k) \in Seq(Byte)
    OBVIOUS
<1>4. TupleToString(types, values) = b[n]
    BY TupleToStringIs
<1> HIDE DEF b, e, Byte
<1>5. b[i - 1] \in Seq(Byte) /\ offset \in Nat
  <2>1. b[i - 1] \in Seq(Byte)
      BY <1>1, <1>2
  <2> QED
      BY <2>1
<1>6. b[i] = b[i - 1] \o e(i)
    BY <1>2
<1>7. i \in T
  <2>1. HeldAt(b[i - 1] \o e(i), Len(b[i - 1]), e(i))
      BY <1>3, <1>5, HeldAtEnd
  <2>2. i \in i .. n
      BY <1>1
  <2> QED
      BY <1>6, <2>1, <2>2
<1>8. ASSUME NEW k \in i + 1 .. n, k - 1 \in T
      PROVE  k \in T
  <2>1. k \in 1 .. n /\ k - 1 \in 0 .. n /\ k \in i .. n
      BY <1>1
  <2>2. b[k] = b[k - 1] \o e(k) /\ b[k - 1] \in Seq(Byte) /\ e(k) \in Seq(Byte)
      BY <1>2, <1>3, <2>1
  <2>3. HeldAt(b[k - 1], offset, e(i))
      BY <1>8
  <2>4. HeldAt(b[k], offset, e(i))
      BY <1>3, <1>5, <2>2, <2>3, HeldBeforeEnd
  <2> QED
      BY <2>1, <2>4
<1> HIDE DEF T
<1>9. i .. n \subseteq T
    BY <1>1, <1>7, <1>8, RangeInduction
<1>10. n \in T
    BY <1>1, <1>9
<1>11. HeldAt(b[n], offset, e(i))
    BY <1>10 DEF T
<1>12. Len(b[i]) = offset + Len(e(i))
    BY <1>3, <1>5, <1>6, ConcatProperties
<1> QED
    BY <1>4, <1>11, <1>12 DEF b, e

(* Where an element may begin.                                             *)
Place == Nat \cup {Outside}

(* The next element begins at a place.                                     *)
LEMMA AfterElementType ==
    ASSUME NEW type, NEW s \in Seq(Byte), NEW offset \in Place
    PROVE  AfterElement(type, s, offset) \in Place
<1> DEFINE length == WordAt(s, offset)
<1>1. CASE offset = Outside \/ offset + WordSize > Len(s)
    BY <1>1 DEF AfterElement, Place
<1>2. CASE ~(offset = Outside \/ offset + WordSize > Len(s))
  <2>1. offset \in Nat
      BY <1>2 DEF Place
  <2>2. CASE type = "kInt"
      BY <1>2, <2>1, <2>2 DEF AfterElement, Place, WordSize
  <2>3. CASE type # "kInt" /\ length \in 0 .. Len(s) - offset - WordSize
    <3>1. length \in Nat
        BY <2>3
    <3>2. AfterElement(type, s, offset) = offset + WordSize + length
        BY <1>2, <2>3 DEF AfterElement
    <3> HIDE DEF length
    <3> QED
        BY <2>1, <3>1, <3>2 DEF Place, WordSize
  <2>4. CASE type # "kInt" /\ ~(length \in 0 .. Len(s) - offset - WordSize)
      BY <1>2, <2>4 DEF AfterElement, Place
  <2> QED
      BY <2>2, <2>3, <2>4
<1> QED
    BY <1>1, <1>2

(* The offsets of the elements, as Offset computes them.                   *)
Offsets(types, s, i) ==
    CHOOSE offset : offset =
        [k \in 1 .. i |->
            IF k = 1 THEN 0 ELSE AfterElement(types[k - 1], s, offset[k - 1])]

(* The recursive function of Offset is there.                              *)
LEMMA OffsetsStep ==
    ASSUME NEW types, NEW s \in Seq(Byte), NEW i \in Nat
    PROVE  Offsets(types, s, i) =
               [k \in 1 .. i |->
                   IF k = 1 THEN 0
                   ELSE AfterElement(types[k - 1], s, Offsets(types, s, i)[k - 1])]
<1> DEFINE next(k, offset) == AfterElement(types[k - 1], s, offset)
           F == [p \in Nat \X Place |-> next(p[1], p[2])]
<1>1. \A k \in Nat : \A offset \in Place : next(k, offset) \in Place
    BY AfterElementType
<1> HIDE DEF next
<1>2. F \in [Nat \X Place -> Place]
    BY <1>1
<1>3. \A k \in Nat : \A offset \in Place : F[<<k, offset>>] = next(k, offset)
    OBVIOUS
<1> HIDE DEF F
<1>4. 0 \in Place /\ 1 \in Nat
    BY DEF Place
<1>5. PICK f \in [1 .. i -> Place] : RecursiveFrom(f, 1, i, 0, F)
    BY <1>2, <1>4, RecursiveSequence
<1>6. ASSUME NEW k \in 1 .. i
      PROVE  f[k] = IF k = 1 THEN 0 ELSE next(k, f[k - 1])
  <2>1. CASE k = 1
      BY <1>5, <2>1 DEF RecursiveFrom
  <2>2. CASE k # 1
    <3>1. k - 1 \in 1 .. i /\ k \in Nat
        BY <2>2
    <3>2. f[k] = F[<<k, f[k - 1]>>] /\ f[k - 1] \in Place
        BY <1>5, <2>2, <3>1 DEF RecursiveFrom
    <3> QED
        BY <1>3, <2>2, <3>1, <3>2
  <2> QED
      BY <2>1, <2>2
<1>7. f = [k \in 1 .. i |-> IF k = 1 THEN 0 ELSE next(k, f[k - 1])]
    BY <1>6
<1>8. \E g : g = [k \in 1 .. i |-> IF k = 1 THEN 0 ELSE next(k, g[k - 1])]
    BY <1>7, Zenon
<1> QED
    BY <1>8, Zenon DEF Offsets, next

(* An offset is the last of them.                                          *)
LEMMA OffsetIs ==
    ASSUME NEW types, NEW s \in Seq(Byte), NEW i \in Nat
    PROVE  Offset(types, s, i) = Offsets(types, s, i)[i]
    BY DEF Offset, Offsets

(* However many are computed, the first offset is 0 and each is found from *)
(* the one before it.                                                      *)
LEMMA OffsetStep ==
    ASSUME NEW types, NEW s \in Seq(Byte)
    PROVE  /\ Offset(types, s, 1) = 0
           /\ \A i \in Nat \ {0} :
                  Offset(types, s, i + 1)
                    = AfterElement(types[i], s, Offset(types, s, i))
<1> DEFINE o(i) == Offsets(types, s, i)
           next(k, offset) == AfterElement(types[k - 1], s, offset)
<1>1. \A i \in Nat :
          o(i) = [k \in 1 .. i |-> IF k = 1 THEN 0 ELSE next(k, o(i)[k - 1])]
    BY OffsetsStep
<1>2. \A i \in Nat : Offset(types, s, i) = o(i)[i]
    BY OffsetIs
<1> HIDE DEF o, next
<1>3. Offset(types, s, 1) = 0
  <2>1. o(1) = [k \in 1 .. 1 |-> IF k = 1 THEN 0 ELSE next(k, o(1)[k - 1])]
      BY <1>1
  <2>2. o(1)[1] = 0
      BY <2>1
  <2> QED
      BY <1>2, <2>2
<1>4. ASSUME NEW i \in Nat \ {0}
      PROVE  Offset(types, s, i + 1) = next(i + 1, Offset(types, s, i))
  <2> DEFINE T == {k \in 1 .. i : o(i + 1)[k] = o(i)[k]}
  <2>1. \A k \in 1 .. i : o(i)[k] = IF k = 1 THEN 0 ELSE next(k, o(i)[k - 1])
    <3>1. o(i) = [k \in 1 .. i |-> IF k = 1 THEN 0 ELSE next(k, o(i)[k - 1])]
        BY <1>1
    <3> QED
        BY <3>1
  <2>2. \A k \in 1 .. i + 1 :
            o(i + 1)[k] = IF k = 1 THEN 0 ELSE next(k, o(i + 1)[k - 1])
    <3>1. o(i + 1) = [k \in 1 .. i + 1 |->
                         IF k = 1 THEN 0 ELSE next(k, o(i + 1)[k - 1])]
      <4>1. i + 1 \in Nat
          OBVIOUS
      <4> QED
          BY <1>1, <4>1, Zenon
    <3> QED
        BY <3>1
  <2>3. 1 \in T
      BY <2>1, <2>2
  <2>4. ASSUME NEW k \in 1 + 1 .. i, k - 1 \in T
        PROVE  k \in T
    <3>1. k \in 1 .. i /\ k \in 1 .. i + 1 /\ k # 1
        OBVIOUS
    <3>2. o(i + 1)[k - 1] = o(i)[k - 1]
        BY <2>4
    <3>3. o(i + 1)[k] = o(i)[k]
        BY <2>1, <2>2, <3>1, <3>2
    <3> QED
        BY <3>1, <3>3
  <2> HIDE DEF T
  <2>5. 1 .. i \subseteq T
      BY <2>3, <2>4, RangeInduction
  <2>6. o(i + 1)[i] = o(i)[i]
      BY <2>5 DEF T
  <2>7. o(i + 1)[i + 1] = next(i + 1, o(i + 1)[i])
    <3>1. i + 1 \in 1 .. i + 1 /\ i + 1 # 1 /\ (i + 1) - 1 = i
        OBVIOUS
    <3> QED
        BY <2>2, <3>1
  <2> QED
      BY <1>2, <2>6, <2>7
<1>5. \A i \in Nat \ {0} : (i + 1) - 1 = i
    OBVIOUS
<1>6. \A i \in Nat \ {0} :
          next(i + 1, Offset(types, s, i))
            = AfterElement(types[i], s, Offset(types, s, i))
    BY <1>5 DEF next
<1> QED
    BY <1>3, <1>4, <1>6

(* A row written from values of the types of its columns is consumed as a  *)
(* whole, read as these values and indexed by them.                        *)
LEMMA RowIsRead ==
    ASSUME NEW types \in Seq(DataType), NEW values,
           \A i \in 1 .. Len(types) : values[i] \in ValuesOf(types[i])
    PROVE  /\ TupleToString(types, values) \in Seq(Byte)
           /\ Consumed(types, TupleToString(types, values))
           /\ \A i \in 1 .. Len(types) :
                 /\ StringToTuple(types, TupleToString(types, values))[i] = values[i]
                 /\ Key(types, TupleToString(types, values), i)
                      = IF types[i] = "kInt" THEN Word(values[i].number)
                                             ELSE values[i].text
<1> DEFINE s == TupleToString(types, values)
           b == Bytes(types, values)
           n == Len(types)
           e(i) == Element(types[i], values[i])
           T == {i \in 1 .. n + 1 : Offset(types, s, i) = Len(b[i - 1])}
<1>1. n \in Nat /\ n \in 0 .. n
    OBVIOUS
<1>2. \A i \in 1 .. n : types[i] \in DataType /\ values[i] \in ValuesOf(types[i])
    OBVIOUS
<1>3. \A i \in 1 .. n : e(i) \in Seq(Byte)
    BY <1>2, ElementType
<1>4. /\ b \in [0 .. n -> Seq(Byte)]
      /\ b[0] = <<>>
    BY <1>3, BytesStep
<1>5. s = b[n]
    BY TupleToStringIs
<1>6. s \in Seq(Byte)
    BY <1>1, <1>4, <1>5, Zenon
<1>7. ASSUME NEW i \in 1 .. n
      PROVE  /\ HeldAt(s, Len(b[i - 1]), e(i))
             /\ Len(b[i]) = Len(b[i - 1]) + Len(e(i))
             /\ Len(b[i - 1]) \in Nat
  <2>1. b[i - 1] \in Seq(Byte)
      BY <1>1, <1>4
  <2>2. Len(b[i - 1]) \in Nat
      BY <2>1
  <2> QED
      BY <1>3, <2>2, ElementsAreHeld
<1>8. /\ Offset(types, s, 1) = 0
      /\ \A i \in Nat \ {0} :
             Offset(types, s, i + 1) = AfterElement(types[i], s, Offset(types, s, i))
    BY <1>6, OffsetStep
<1>9. ASSUME NEW i \in 1 .. n
      PROVE  /\ AfterElement(types[i], s, Len(b[i - 1])) = Len(b[i])
             /\ StringToTupleElement(types[i], s, Len(b[i - 1])) = values[i]
             /\ KeyAt(types[i], s, Len(b[i - 1]))
                  = IF types[i] = "kInt" THEN Word(values[i].number)
                                         ELSE values[i].text
  <2>1. HeldAt(s, Len(b[i - 1]), Element(types[i], values[i]))
      BY <1>7
  <2>2. Len(b[i - 1]) \in Nat /\ Len(b[i]) = Len(b[i - 1]) + Len(e(i))
      BY <1>7
  <2>3. types[i] \in DataType /\ values[i] \in ValuesOf(types[i])
      BY <1>2
  <2> HIDE DEF s, b
  <2>4. /\ AfterElement(types[i], s, Len(b[i - 1]))
             = Len(b[i - 1]) + Len(Element(types[i], values[i]))
        /\ StringToTupleElement(types[i], s, Len(b[i - 1])) = values[i]
        /\ KeyAt(types[i], s, Len(b[i - 1]))
             = IF types[i] = "kInt" THEN Word(values[i].number) ELSE values[i].text
    <3> DEFINE type == types[i]
               v == values[i]
               offset == Len(b[i - 1])
    <3>1. /\ type \in DataType /\ v \in ValuesOf(type)
          /\ s \in Seq(Byte) /\ offset \in Nat
          /\ HeldAt(s, offset, Element(type, v))
        BY <1>6, <2>1, <2>2, <2>3
    <3> HIDE DEF type, v, offset
    <3>2. /\ AfterElement(type, s, offset) = offset + Len(Element(type, v))
          /\ StringToTupleElement(type, s, offset) = v
          /\ KeyAt(type, s, offset)
                = IF type = "kInt" THEN Word(v.number) ELSE v.text
        BY <3>1, ElementIsRead
    <3> QED
        BY <3>2 DEF type, v, offset
  <2> QED
      BY <2>2, <2>4
<1> HIDE DEF s, b, e
<1>10. 1 \in T
  <2>1. Len(b[0]) = 0
      BY <1>4
  <2>2. 1 \in 1 .. n + 1 /\ 1 - 1 = 0
      BY <1>1
  <2> QED
      BY <1>8, <2>1, <2>2
<1>11. ASSUME NEW i \in 1 + 1 .. n + 1, i - 1 \in T
       PROVE  i \in T
  <2> DEFINE k == i - 1
  <2>1. k \in 1 .. n /\ k \in Nat \ {0} /\ k + 1 = i
      BY <1>1
  <2>2. Offset(types, s, k) = Len(b[k - 1])
      BY <1>11
  <2>3. Offset(types, s, k + 1) = AfterElement(types[k], s, Offset(types, s, k))
      BY <1>8, <2>1
  <2>4. Offset(types, s, k + 1) = Len(b[k])
      BY <1>9, <2>1, <2>2, <2>3
  <2> QED
      BY <1>1, <2>1, <2>4
<1> HIDE DEF T
<1>12. 1 .. n + 1 \subseteq T
  <2>1. 1 \in Nat /\ n + 1 \in Nat
      BY <1>1
  <2> QED
      BY <1>10, <1>11, <2>1, RangeInduction
<1>13. \A i \in 1 .. n + 1 : Offset(types, s, i) = Len(b[i - 1])
    BY <1>12 DEF T
<1>14. Consumed(types, s)
  <2>1. n + 1 \in 1 .. n + 1 /\ (n + 1) - 1 = n
      BY <1>1
  <2>2. Offset(types, s, n + 1) = Len(b[n])
      BY <1>13, <2>1
  <2> QED
      BY <1>5, <2>2 DEF Consumed, EndOf
<1>15. ASSUME NEW i \in 1 .. n
       PROVE  /\ StringToTuple(types, s)[i] = values[i]
              /\ Key(types, s, i)
                   = IF types[i] = "kInt" THEN Word(values[i].number)
                                          ELSE values[i].text
  <2>1. Offset(types, s, i) = Len(b[i - 1])
      BY <1>1, <1>13
  <2>2. StringToTuple(types, s)[i]
          = StringToTupleElement(types[i], s, Offset(types, s, i))
      BY DEF StringToTuple
  <2>3. Key(types, s, i) = KeyAt(types[i], s, Offset(types, s, i))
      BY DEF Key, KeyAt
  <2> QED
      BY <1>9, <2>1, <2>2, <2>3
<1> QED
    BY <1>6, <1>14, <1>15 DEF s

-----------------------------------------------------------------------------

(* x is the last value given to column c by the first i places of the      *)
(* list.                                                                   *)
LastGiven(columns, values, i, c, x) ==
    \E j \in 1 .. i : /\ columns[j] = c
                      /\ \A k \in 1 .. i : columns[k] = c => k <= j
                      /\ x = values[j]

(* The first i places of the list do not name column c.                    *)
NotNamed(columns, i, c) == \A j \in 1 .. i : columns[j] # c

(* The values of the row after each place of the list, as Assigned         *)
(* computes them.                                                          *)
AfterAssignments(old, columns, values) ==
    CHOOSE after : after =
        [i \in 0 .. Len(columns) |->
            IF i = 0 THEN old
            ELSE [after[i - 1] EXCEPT ![columns[i]] = values[i]]]

(* A row has the last value that the list gives to each column it names,   *)
(* and what was there in the others.                                       *)
Overwritten(n, old, columns, values, new) ==
    \A c \in 1 .. n :
        \/ LastGiven(columns, values, Len(columns), c, new[c])
        \/ NotNamed(columns, Len(columns), c) /\ new[c] = old[c]

(* An UPDATE leaves in a column the last value the list gives it, and what *)
(* was there if it gives none.                                             *)
LEMMA AssignedIs ==
    ASSUME NEW n \in Nat, NEW A, NEW old \in [1 .. n -> A],
           NEW columns \in Seq(1 .. n),
           NEW values \in [1 .. Len(columns) -> A]
    PROVE  Overwritten(n, old, columns, values, Assigned(old, columns, values))
<1> USE DEF Overwritten
<1> DEFINE m == Len(columns)
           V == [1 .. n -> A]
           assign(i, f) == [f EXCEPT ![columns[i]] = values[i]]
           F == [p \in Nat \X V |-> IF p[1] \in 1 .. m THEN assign(p[1], p[2]) ELSE old]
           after == AfterAssignments(old, columns, values)
<1>1. m \in Nat /\ m \in 0 .. m
    OBVIOUS
<1>2. \A i \in 1 .. m : columns[i] \in 1 .. n /\ values[i] \in A
    OBVIOUS
<1>3. \A i \in 1 .. m : \A f \in V :
          /\ assign(i, f) \in V
          /\ assign(i, f)[columns[i]] = values[i]
          /\ \A c \in 1 .. n : c # columns[i] => assign(i, f)[c] = f[c]
    BY <1>2
<1>4. Assigned(old, columns, values) = after[m]
    BY DEF Assigned, AfterAssignments
<1>5. old \in V /\ 0 \in Nat
    OBVIOUS
<1>6. after = [i \in 0 .. m |-> IF i = 0 THEN old ELSE assign(i, after[i - 1])]
  <2> HIDE DEF m, V, assign, after
  <2>1. F \in [Nat \X V -> V]
      BY <1>3, <1>5
  <2>2. \A i \in 1 .. m : \A f \in V : F[<<i, f>>] = assign(i, f)
      BY <1>1
  <2> HIDE DEF F
  <2>3. PICK g \in [0 .. m -> V] : RecursiveFrom(g, 0, m, old, F)
      BY <1>1, <1>5, <2>1, RecursiveSequence
  <2>4. ASSUME NEW i \in 0 .. m
        PROVE  g[i] = IF i = 0 THEN old ELSE assign(i, g[i - 1])
    <3>1. CASE i = 0
        BY <2>3, <3>1 DEF RecursiveFrom
    <3>2. CASE i # 0
      <4>1. i \in 1 .. m /\ i - 1 \in 0 .. m
          BY <1>1, <3>2
      <4>2. g[i] = F[<<i, g[i - 1]>>] /\ g[i - 1] \in V
          BY <2>3, <3>2, <4>1 DEF RecursiveFrom
      <4> QED
          BY <2>2, <3>2, <4>1, <4>2
    <3> QED
        BY <3>1, <3>2
  <2>5. g = [i \in 0 .. m |-> IF i = 0 THEN old ELSE assign(i, g[i - 1])]
      BY <2>4
  <2>6. \E h : h = [i \in 0 .. m |-> IF i = 0 THEN old ELSE assign(i, h[i - 1])]
      BY <2>5, Zenon
  <2>7. after = CHOOSE h : h = [i \in 0 .. m |->
                                   IF i = 0 THEN old ELSE assign(i, h[i - 1])]
      BY DEF after, AfterAssignments, m, assign
  <2> QED
      BY <2>6, <2>7
<1> HIDE DEF m, V, assign, after
<1>7. after[0] = old
    BY <1>1, <1>6
<1>8. ASSUME NEW i \in 1 .. m
      PROVE  after[i] = assign(i, after[i - 1])
  <2>1. i \in 0 .. m /\ i # 0
      BY <1>1
  <2> QED
      BY <1>6, <2>1
<1> DEFINE Given(i, c) == \/ LastGiven(columns, values, i, c, after[i][c])
                          \/ NotNamed(columns, i, c) /\ after[i][c] = old[c]
           T == {i \in 0 .. m : after[i] \in V /\ \A c \in 1 .. n : Given(i, c)}
<1>9. 0 \in T
    BY <1>1, <1>5, <1>7 DEF NotNamed
<1>10. ASSUME NEW i \in 0 + 1 .. m, i - 1 \in T
       PROVE  i \in T
  <2>1. i \in 1 .. m /\ i \in 0 .. m
      BY <1>1
  <2>2. after[i - 1] \in V
      BY <1>10
  <2>3. /\ after[i] \in V
        /\ after[i][columns[i]] = values[i]
        /\ \A c \in 1 .. n : c # columns[i] => after[i][c] = after[i - 1][c]
      BY <1>3, <1>8, <2>1, <2>2
  <2>4. ASSUME NEW c \in 1 .. n
        PROVE  Given(i, c)
    <3>1. CASE c = columns[i]
      <4>1. LastGiven(columns, values, i, c, after[i][c])
          BY <2>1, <2>3, <3>1 DEF LastGiven
      <4> QED
          BY <4>1
    <3>2. CASE c # columns[i]
      <4>1. after[i][c] = after[i - 1][c]
          BY <2>3, <3>2
      <4>2. Given(i - 1, c)
          BY <1>10
      <4>3. \A j \in 1 .. i : j = i \/ j \in 1 .. i - 1
          BY <2>1
      <4>4. 1 .. i - 1 \subseteq 1 .. i
          BY <2>1
      <4>5. LastGiven(columns, values, i - 1, c, after[i][c])
              => LastGiven(columns, values, i, c, after[i][c])
          BY <3>2, <4>3, <4>4 DEF LastGiven
      <4>6. NotNamed(columns, i - 1, c) => NotNamed(columns, i, c)
          BY <3>2, <4>3 DEF NotNamed
      <4> QED
          BY <4>1, <4>2, <4>5, <4>6
    <3> QED
        BY <3>1, <3>2
  <2> QED
      BY <2>1, <2>3, <2>4
<1> HIDE DEF T, Given
<1>11. 0 .. m \subseteq T
    BY <1>1, <1>9, <1>10, RangeInduction
<1>12. \A c \in 1 .. n : Given(m, c)
    BY <1>1, <1>11 DEF T
<1> QED
    BY <1>4, <1>12 DEF Given, m

(* The places of column c in the list.                                     *)
Places(columns, c) == {i \in 1 .. Len(columns) : columns[i] = c}

(* The last of them, as Say has it.                                        *)
LastPlace(columns, c) ==
    CHOOSE i \in Places(columns, c) : \A j \in Places(columns, c) : j <= i

(* Say chooses the same value.                                             *)
LEMMA SaidIs ==
    ASSUME NEW columns, Len(columns) \in Nat, NEW values, NEW c, NEW x
    PROVE  /\ LastGiven(columns, values, Len(columns), c, x)
                => /\ Places(columns, c) # {}
                   /\ values[LastPlace(columns, c)] = x
           /\ NotNamed(columns, Len(columns), c) => Places(columns, c) = {}
<1> DEFINE m == Len(columns)
           places == Places(columns, c)
<1>a. places = {i \in 1 .. m : columns[i] = c}
    BY DEF Places
<1>b. LastPlace(columns, c) = CHOOSE i \in places : \A j \in places : j <= i
    BY DEF LastPlace
<1> HIDE DEF m, places
<1>0. m \in Nat
    BY DEF m
<1>1. ASSUME LastGiven(columns, values, m, c, x)
      PROVE  /\ places # {}
             /\ values[LastPlace(columns, c)] = x
  <2>1. PICK i \in 1 .. m : /\ columns[i] = c
                            /\ \A k \in 1 .. m : columns[k] = c => k <= i
                            /\ x = values[i]
      BY <1>1 DEF LastGiven
  <2>2. i \in places /\ \A j \in places : j <= i
      BY <2>1, <1>a
  <2>3. \A k \in places : k \in Nat
      BY <1>0, <1>a
  <2>4. \A k \in places : (\A j \in places : j <= k) => k = i
      BY <2>2, <2>3
  <2>5. (CHOOSE k \in places : \A j \in places : j <= k) = i
      BY <2>2, <2>4
  <2> QED
      BY <2>1, <2>2, <2>5, <1>b
<1>2. ASSUME NotNamed(columns, m, c)
      PROVE  places = {}
    BY <1>2, <1>a DEF NotNamed
<1> QED
    BY <1>1, <1>2 DEF m, places

-----------------------------------------------------------------------------

(* s is after t, because of the byte after the first n.                    *)
AfterAt(s, t, n) ==
    /\ n \in 0 .. Len(t)
    /\ n < Len(s)
    /\ \A i \in 1 .. n : s[i] = t[i]
    /\ n < Len(t) => s[n + 1] > t[n + 1]

(* After, byte by byte.                                                    *)
LEMMA AfterIs ==
    ASSUME NEW s \in Seq(Byte), NEW t \in Seq(Byte)
    PROVE  After(s, t) <=> \E n \in Nat : AfterAt(s, t, n)
<1>1. ASSUME NEW n \in 0 .. Len(t), n < Len(s)
      PROVE  SubSeq(s, 1, n) = SubSeq(t, 1, n) <=> \A i \in 1 .. n : s[i] = t[i]
  <2> DEFINE u == SubSeq(s, 1, n)
             v == SubSeq(t, 1, n)
  <2>0. n \in Nat /\ n <= Len(t) /\ n <= Len(s) /\ Len(s) \in Nat /\ Len(t) \in Nat
      BY <1>1
  <2>1. \A i \in 1 .. n : s[i] \in Byte /\ t[i] \in Byte
    <3> HIDE DEF Byte
    <3>1. \A i \in 1 .. n : i \in 1 .. Len(s) /\ i \in 1 .. Len(t)
        BY <2>0
    <3> QED
        BY <3>1, ElementOfSeq
  <2>2. /\ u \in Seq(Byte) /\ Len(u) = n
        /\ \A i \in 1 .. n : u[i] = s[i]
    <3>1. /\ u \in Seq(Byte)
          /\ Len(u) = IF 1 <= n THEN n - 1 + 1 ELSE 0
          /\ \A i \in 1 .. n - 1 + 1 : u[i] = s[1 + i - 1]
        BY <2>0, <2>1, SubSeqProperties
    <3> HIDE DEF u
    <3> QED
        BY <2>0, <3>1
  <2>3. /\ v \in Seq(Byte) /\ Len(v) = n
        /\ \A i \in 1 .. n : v[i] = t[i]
    <3>1. /\ v \in Seq(Byte)
          /\ Len(v) = IF 1 <= n THEN n - 1 + 1 ELSE 0
          /\ \A i \in 1 .. n - 1 + 1 : v[i] = t[1 + i - 1]
        BY <2>0, <2>1, SubSeqProperties
    <3> HIDE DEF v
    <3> QED
        BY <2>0, <3>1
  <2> HIDE DEF u, v
  <2>4. (\A i \in 1 .. n : s[i] = t[i]) => u = v
    <3> SUFFICES ASSUME \A i \in 1 .. n : s[i] = t[i]
                 PROVE  u = v
        OBVIOUS
    <3>1. Len(u) = Len(v) /\ \A i \in 1 .. Len(u) : u[i] = v[i]
        BY <2>2, <2>3
    <3> QED
        BY <2>2, <2>3, <3>1, SeqEqual
  <2>5. u = v => \A i \in 1 .. n : s[i] = t[i]
      BY <2>2, <2>3
  <2> QED
      BY <2>4, <2>5 DEF u, v
<1>2. Len(t) \in Nat
    OBVIOUS
<1> QED
    BY <1>1, <1>2 DEF After, AfterAt

(* Of two strings one is after the other, and not both, or they are the    *)
(* same.                                                                   *)
LEMMA AfterIsOrder ==
    ASSUME NEW s \in Seq(Byte), NEW t \in Seq(Byte)
    PROVE  /\ ~(After(s, t) /\ After(t, s))
           /\ After(s, t) \/ After(t, s) \/ s = t
           /\ s = t => ~After(s, t)
<1>0. Len(s) \in Nat /\ Len(t) \in Nat
    OBVIOUS
<1>1. /\ \A i \in 1 .. Len(s) : s[i] \in Nat
      /\ \A i \in 1 .. Len(t) : t[i] \in Nat
  <2>1. /\ \A i \in 1 .. Len(s) : s[i] \in Byte
        /\ \A i \in 1 .. Len(t) : t[i] \in Byte
      OBVIOUS
  <2> QED
      BY <2>1, ByteIsNumber
<1>2. ASSUME NEW n \in Nat, NEW m \in Nat, AfterAt(s, t, n), AfterAt(t, s, m)
      PROVE  FALSE
  <2>1. n < Len(s) /\ n <= Len(t) /\ m < Len(t) /\ m <= Len(s)
      BY <1>0, <1>2 DEF AfterAt
  <2>2. CASE n < m
    <3>1. n + 1 \in 1 .. m /\ n + 1 \in 1 .. Len(s) /\ n + 1 \in 1 .. Len(t)
        BY <1>0, <2>1, <2>2
    <3>2. s[n + 1] > t[n + 1] /\ t[n + 1] = s[n + 1]
        BY <1>0, <1>2, <2>1, <2>2, <3>1 DEF AfterAt
    <3>3. s[n + 1] \in Nat /\ t[n + 1] \in Nat
        BY <1>1, <3>1
    <3> QED
        BY <3>2, <3>3
  <2>3. CASE m < n
    <3>1. m + 1 \in 1 .. n /\ m + 1 \in 1 .. Len(s) /\ m + 1 \in 1 .. Len(t)
        BY <1>0, <2>1, <2>3
    <3>2. t[m + 1] > s[m + 1] /\ s[m + 1] = t[m + 1]
        BY <1>0, <1>2, <2>1, <2>3, <3>1 DEF AfterAt
    <3>3. s[m + 1] \in Nat /\ t[m + 1] \in Nat
        BY <1>1, <3>1
    <3> QED
        BY <3>2, <3>3
  <2>4. CASE n = m
    <3>1. n + 1 \in 1 .. Len(s) /\ n + 1 \in 1 .. Len(t)
        BY <1>0, <2>1, <2>4
    <3>2. s[n + 1] > t[n + 1] /\ t[n + 1] > s[n + 1]
        BY <1>2, <2>1, <2>4 DEF AfterAt
    <3>3. s[n + 1] \in Nat /\ t[n + 1] \in Nat
        BY <1>1, <3>1
    <3> QED
        BY <3>2, <3>3
  <2> QED
      BY <2>2, <2>3, <2>4
<1>3. ~(After(s, t) /\ After(t, s))
    BY <1>2, AfterIs
<1>4. s = t => ~After(s, t)
    BY <1>3
<1>5. ASSUME s # t
      PROVE  After(s, t) \/ After(t, s)
  <2> DEFINE Alike(i) == i < Len(s) /\ i < Len(t) /\ s[i + 1] = t[i + 1]
             D == {i \in Nat : (i < Len(s) \/ i < Len(t)) /\ ~Alike(i)}
  <2>1. D # {}
    <3> SUFFICES ASSUME D = {}
                 PROVE  s = t
        BY <1>5
    <3>1. \A i \in Nat : i < Len(s) \/ i < Len(t) => Alike(i)
        OBVIOUS
    <3>2. Len(s) = Len(t)
      <4>1. ~(Len(s) < Len(t))
          BY <1>0, <3>1
      <4>2. ~(Len(t) < Len(s))
          BY <1>0, <3>1
      <4> QED
          BY <1>0, <4>1, <4>2
    <3>3. ASSUME NEW i \in 1 .. Len(s)
          PROVE  s[i] = t[i]
      <4>1. i - 1 \in Nat /\ i - 1 < Len(s) /\ (i - 1) + 1 = i
          BY <1>0
      <4>2. Alike(i - 1)
          BY <3>1, <4>1
      <4> QED
          BY <4>1, <4>2
    <3> QED
        BY <3>2, <3>3, SeqEqual
  <2>2. D \subseteq Nat
      OBVIOUS
  <2>3. PICK n \in D : \A m \in D : n <= m
    <3> HIDE DEF D
    <3> QED
        BY <2>1, <2>2, LeastNatural
  <2>4. n \in Nat /\ (n < Len(s) \/ n < Len(t)) /\ ~Alike(n)
      BY <2>3
  <2>5. \A i \in Nat : i < n => i \notin D
    <3> HIDE DEF D
    <3> QED
        BY <2>3, <2>4
  <2>6. \A i \in Nat : i < n => Alike(i)
      BY <1>0, <2>4, <2>5
  <2>7. n <= Len(s) /\ n <= Len(t)
    <3>1. CASE n = 0
        BY <1>0, <3>1
    <3>2. CASE n # 0
      <4>1. n - 1 \in Nat /\ n - 1 < n
          BY <2>4, <3>2
      <4>2. n - 1 < Len(s) /\ n - 1 < Len(t)
          BY <2>6, <4>1
      <4> QED
          BY <1>0, <2>4, <4>2
    <3> QED
        BY <3>1, <3>2
  <2>8. \A i \in 1 .. n : s[i] = t[i] /\ t[i] = s[i]
    <3> SUFFICES ASSUME NEW i \in 1 .. n
                 PROVE  s[i] = t[i]
        OBVIOUS
    <3>1. i - 1 \in Nat /\ i - 1 < n /\ (i - 1) + 1 = i
        BY <2>4
    <3> QED
        BY <2>6, <3>1
  <2>9. n \in 0 .. Len(s) /\ n \in 0 .. Len(t)
      BY <1>0, <2>4, <2>7
  <2>10. CASE n < Len(s) /\ n < Len(t)
    <3>1. s[n + 1] # t[n + 1]
        BY <2>4, <2>10
    <3>2. n + 1 \in 1 .. Len(s) /\ n + 1 \in 1 .. Len(t)
        BY <1>0, <2>4, <2>10
    <3>3. s[n + 1] > t[n + 1] \/ t[n + 1] > s[n + 1]
        BY <1>1, <3>1, <3>2
    <3>4. AfterAt(s, t, n) \/ AfterAt(t, s, n)
        BY <2>8, <2>9, <2>10, <3>3 DEF AfterAt
    <3> QED
        BY <2>4, <3>4, AfterIs
  <2>11. CASE n < Len(s) /\ ~(n < Len(t))
    <3>1. AfterAt(s, t, n)
        BY <2>8, <2>9, <2>11 DEF AfterAt
    <3> QED
        BY <2>4, <3>1, AfterIs
  <2>12. CASE n < Len(t) /\ ~(n < Len(s))
    <3>1. AfterAt(t, s, n)
        BY <2>8, <2>9, <2>12 DEF AfterAt
    <3> QED
        BY <2>4, <3>1, AfterIs
  <2> QED
      BY <2>4, <2>10, <2>11, <2>12
<1> QED
    BY <1>3, <1>4, <1>5

(* Any value of a type can be compared as a number and as a string.        *)
LEMMA Comparable ==
    ASSUME NEW type \in DataType, NEW v \in ValuesOf(type)
    PROVE  GetAsNumber(v) \in Nat /\ GetAsString(v) \in Seq(Byte)
<1>1. ValueOfType(type, v)
    BY ValuesOfType
<1>2. CASE type = "kInt"
  <2>1. v.type = "kInt" /\ v.number \in Nat
    <3>1. v = Number(v.number) /\ v.number \in 0 .. IntMax
        BY <1>1, <1>2 DEF ValueOfType
    <3>2. v.number \in Nat
        BY <3>1, FitsInt
    <3>3. v.type = "kInt"
        BY <1>2, GetAsSame
    <3> QED
        BY <3>2, <3>3
  <2>2. GetAsNumber(v) = v.number /\ GetAsString(v) = NumberToString(v.number)
      BY <2>1 DEF GetAsNumber, GetAsString
  <2>3. NumberToString(v.number) \in Seq(Digit)
      BY <2>1, NumberToStringType
  <2>4. NumberToString(v.number) \in Seq(Byte)
    <3> DEFINE s == NumberToString(v.number)
    <3>1. s \in Seq(Digit)
        BY <2>3
    <3> HIDE DEF s
    <3>2. s \in Seq(Byte)
        BY <3>1 DEF Digit, Byte
    <3> QED
        BY <3>2 DEF s
  <2> QED
      BY <2>1, <2>2, <2>4
<1>3. CASE type = "kText"
  <2>1. v.type = "kText" /\ v.text \in Seq(Byte)
    <3>1. v.text \in Seq(Byte)
        BY <1>1, <1>3 DEF ValueOfType
    <3>2. v.type = "kText"
        BY <1>3, GetAsSame
    <3> QED
        BY <3>1, <3>2
  <2>2. GetAsNumber(v) = StringToNumber(v.text) /\ GetAsString(v) = v.text
      BY <2>1 DEF GetAsNumber, GetAsString
  <2> QED
      BY <2>1, <2>2, StringToNumberType
<1> QED
    BY <1>2, <1>3 DEF DataType

(* The five comparisons with a value of a column agree with each other.    *)
LEMMA ComparisonsAgree ==
    ASSUME NEW type \in DataType, NEW v \in ValuesOf(type), NEW w,
           GetAsNumber(w) \in Nat, GetAsString(w) \in Seq(Byte)
    PROVE  /\ GreaterEqual(v, w) <=> Greater(v, w) \/ Equal(v, w)
           /\ LessEqual(v, w) <=> Less(v, w) \/ Equal(v, w)
           /\ ~(Less(v, w) /\ Greater(v, w))
<1>1. ValueOfType(type, v)
    BY ValuesOfType
<1>2. CASE type = "kInt"
  <2>1. v = Number(v.number) /\ v.number \in 0 .. IntMax
      BY <1>1, <1>2 DEF ValueOfType
  <2>2. v.number \in Nat
      BY <2>1, FitsInt
  <2>3. v.type = "kInt"
      BY <1>2, GetAsSame
  <2>4. Equal(v, w) <=> v.number = GetAsNumber(w)
    <3>1. Equal(v, w) <=> v = Number(GetAsNumber(w))
        BY <2>3 DEF Equal, GetAs
    <3>2. \A m, n : Number(m) = Number(n) <=> m = n
        BY DEF Number
    <3> QED
        BY <2>1, <3>1, <3>2, Zenon
  <2>5. /\ Greater(v, w) <=> v.number > GetAsNumber(w)
        /\ GreaterEqual(v, w) <=> v.number >= GetAsNumber(w)
      BY <2>3 DEF Greater, GreaterEqual
  <2> QED
      BY <2>2, <2>4, <2>5 DEF Less, LessEqual
<1>3. CASE type = "kText"
  <2>1. v = Text(v.text) /\ v.text \in Seq(Byte)
      BY <1>1, <1>3 DEF ValueOfType
  <2>2. v.type = "kText"
      BY <1>3, GetAsSame
  <2>3. Equal(v, w) <=> v.text = GetAsString(w)
    <3>1. Equal(v, w) <=> v = Text(GetAsString(w))
        BY <2>2 DEF Equal, GetAs
    <3>2. \A s, t : Text(s) = Text(t) <=> s = t
        BY DEF Text
    <3> QED
        BY <2>1, <3>1, <3>2, Zenon
  <2>4. /\ Greater(v, w) <=> After(v.text, GetAsString(w))
        /\ GreaterEqual(v, w) <=> ~After(GetAsString(w), v.text)
      BY <2>2 DEF Greater, GreaterEqual
  <2>5. /\ ~(After(v.text, GetAsString(w)) /\ After(GetAsString(w), v.text))
        /\ \/ After(v.text, GetAsString(w))
           \/ After(GetAsString(w), v.text)
           \/ v.text = GetAsString(w)
        /\ v.text = GetAsString(w) => ~After(v.text, GetAsString(w))
      BY <2>1, AfterIsOrder
  <2> QED
      BY <2>3, <2>4, <2>5, Zenon DEF Less, LessEqual
<1> QED
    BY <1>2, <1>3 DEF DataType

-----------------------------------------------------------------------------

(* Lists of INSERT name all columns in the order of the table. With others *)
(* the row is wrong, which the run insert_columns shows.                   *)
InsertsInOrder ==
    \A t \in Tables : InsertLists(t) \subseteq {[i \in 1 .. Len(t) |-> i]}

(* What is read of values written to the columns of t.                     *)
ReadAs(t, values) == [c \in 1 .. Len(t) |-> GetAs(t[c], values[c])]

(* What the row holds.                                                     *)
Held == ReadAs(table, said)

(* The invariant: the bytes of the row are those of what it holds.         *)
IInv ==
    /\ table \in Tables
    /\ said \in [1 .. Len(table) -> Literals \cup {NoValue}]
    /\ row # NoRow => /\ \A c \in 1 .. Len(table) : said[c] \in Literals
                      /\ row = TupleToString(table, Held)

(* A table is a list of types.                                             *)
LEMMA TableType ==
    ASSUME NEW t \in Tables
    PROVE  /\ t \in Seq(DataType)
           /\ Len(t) \in Nat
           /\ \A c \in 1 .. Len(t) : t[c] \in DataType
<1>1. t \in Seq(DataType)
    BY TablesAreTypes
<1> QED
    BY <1>1

(* Each value of v is the literal of w, or what that is read as.            *)
Stored(t, v, w) ==
    \A c \in 1 .. Len(t) :
        /\ w[c] \in Literals
        /\ v[c] = w[c] \/ v[c] = GetAs(t[c], w[c])

(* A row is written alike from literals and from what they are read as.    *)
LEMMA WrittenAsRead ==
    ASSUME NEW t \in Tables, NEW v, NEW w, Stored(t, v, w)
    PROVE  TupleToString(t, v)
             = TupleToString(t, ReadAs(t, w))
<1> USE DEF Stored
<1> DEFINE u == ReadAs(t, w)
<1>1. t \in Seq(DataType)
    BY TableType
<1>2. ASSUME NEW c \in 1 .. Len(t)
      PROVE  /\ Element(t[c], v[c]) \in Seq(Byte)
             /\ Element(t[c], v[c]) = Element(t[c], u[c])
  <2>1. t[c] \in DataType
      BY TableType
  <2>2. /\ GetAs(t[c], w[c]) \in ValuesOf(t[c])
        /\ Element(t[c], w[c]) = Element(t[c], GetAs(t[c], w[c]))
      BY <2>1, GetAsType DEF Element
  <2>3. u[c] = GetAs(t[c], w[c])
      BY DEF ReadAs
  <2>4. Element(t[c], v[c]) = Element(t[c], u[c])
    <3> HIDE DEF u
    <3> QED
        BY <2>2, <2>3, Zenon
  <2>5. Element(t[c], u[c]) \in Seq(Byte)
    <3> HIDE DEF u
    <3> QED
        BY <2>1, <2>2, <2>3, ElementType
  <2> QED
      BY <2>4, <2>5
<1> HIDE DEF u
<1>3. TupleToString(t, v) = TupleToString(t, u)
    BY <1>1, <1>2, SameElementsSameRow
<1> QED
    BY <1>3 DEF u

(* All that is read of a row, by the invariant.                            *)
LEMMA HeldIsRead ==
    ASSUME IInv, row # NoRow
    PROVE  /\ row \in Seq(Byte)
           /\ Consumed(table, row)
           /\ \A c \in 1 .. Len(table) :
                 /\ said[c] \in Literals
                 /\ table[c] \in DataType
                 /\ GetAs(table[c], said[c]) \in ValuesOf(table[c])
                 /\ StringToTuple(table, row)[c] = GetAs(table[c], said[c])
                 /\ Key(table, row, c)
                      = IF table[c] = "kInt"
                        THEN Word(GetAs(table[c], said[c]).number)
                        ELSE GetAs(table[c], said[c]).text
<1>1. table \in Tables /\ row = TupleToString(table, Held)
    BY DEF IInv
<1>2. table \in Seq(DataType)
    BY <1>1, TableType
<1>3. ASSUME NEW c \in 1 .. Len(table)
      PROVE  /\ said[c] \in Literals
             /\ table[c] \in DataType
             /\ Held[c] = GetAs(table[c], said[c])
             /\ Held[c] \in ValuesOf(table[c])
  <2>1. said[c] \in Literals /\ table[c] \in DataType
      BY <1>1, TableType DEF IInv
  <2>2. Held[c] = GetAs(table[c], said[c])
      BY DEF Held, ReadAs
  <2> QED
      BY <2>1, <2>2, GetAsType
<1>4. \A c \in 1 .. Len(table) : Held[c] \in ValuesOf(table[c])
    BY <1>3
<1>5. /\ row \in Seq(Byte)
      /\ Consumed(table, row)
      /\ \A c \in 1 .. Len(table) :
            /\ StringToTuple(table, row)[c] = Held[c]
            /\ Key(table, row, c) = IF table[c] = "kInt" THEN Word(Held[c].number)
                                                         ELSE Held[c].text
    BY <1>1, <1>2, <1>4, RowIsRead
<1> QED
    BY <1>3, <1>5

(* INSERT writes the literals in the order of the columns.                 *)
LEMMA InsertKeepsIInv ==
    ASSUME IInv, InsertsInOrder, NEW columns \in InsertLists(table),
           NEW values \in ValuesFor(columns), Insert(columns, values)
    PROVE  IInv'
<1> DEFINE n == Len(table)
<1>1. /\ table \in Tables /\ table' = table
      /\ n \in Nat
      /\ table \in Seq(DataType)
    BY TableType DEF IInv, Insert
<1>2. columns = [i \in 1 .. n |-> i]
    BY <1>1 DEF InsertsInOrder
<1>3. Len(columns) = n /\ \A i \in 1 .. n : columns[i] = i
    BY <1>1, <1>2
<1>4. values \in [1 .. n -> Literals]
    BY <1>3 DEF ValuesFor
<1>5. TypesOf(columns) = table
  <2>1. TypesOf(columns) = [i \in 1 .. n |-> table[i]]
      BY <1>3 DEF TypesOf
  <2>2. table = [i \in 1 .. n |-> table[i]]
      BY <1>1
  <2> QED
      BY <2>1, <2>2
<1>6. row' = TupleToString(table, values)
    BY <1>5 DEF Insert
<1>7. \A c \in 1 .. n : said'[c] = values[c]
  <2> SUFFICES ASSUME NEW c \in 1 .. n
               PROVE  said'[c] = values[c]
      OBVIOUS
  <2>1. said'[c] = IF Places(columns, c) = {} THEN said[c]
                   ELSE values[LastPlace(columns, c)]
      BY DEF Insert, Say, Places, LastPlace
  <2>2. LastGiven(columns, values, Len(columns), c, values[c])
      BY <1>1, <1>3 DEF LastGiven
  <2>3. Len(columns) \in Nat
      BY <1>1, <1>3
  <2>4. /\ Places(columns, c) # {}
        /\ values[LastPlace(columns, c)] = values[c]
      BY <2>2, <2>3, SaidIs
  <2> QED
      BY <2>1, <2>4
<1>8. said' \in [1 .. n -> Literals]
  <2>1. DOMAIN said' = 1 .. n
      BY DEF Insert, Say
  <2>2. said' = [c \in 1 .. n |-> said'[c]]
      BY <2>1 DEF Insert, Say
  <2>3. \A c \in 1 .. n : said'[c] \in Literals
      BY <1>4, <1>7
  <2> HIDE DEF n
  <2> QED
      BY <2>2, <2>3
<1>9. row' = TupleToString(table, ReadAs(table, said'))
  <2>1. \A c \in 1 .. n : said'[c] \in Literals /\ values[c] = said'[c]
      BY <1>4, <1>7
  <2> DEFINE w == said'
  <2>2. Stored(table, values, w)
      BY <2>1 DEF Stored
  <2> HIDE DEF w
  <2>3. TupleToString(table, values) = TupleToString(table, ReadAs(table, w))
      BY <1>1, <2>2, WrittenAsRead
  <2> QED
      BY <1>6, <2>3 DEF w
<1> QED
    BY <1>1, <1>8, <1>9 DEF IInv, Held

(* UPDATE writes literals in the columns it names and what was read in the *)
(* others.                                                                 *)
LEMMA UpdateKeepsIInv ==
    ASSUME IInv, NEW columns \in UpdateLists(table),
           NEW values \in ValuesFor(columns), Update(columns, values)
    PROVE  IInv'
<1> DEFINE n == Len(table)
           m == Len(columns)
           old == StringToTuple(table, row)
           new == Assigned(old, columns, values)
           A == Literals \cup {GetAs(table[c], said[c]) : c \in 1 .. n}
<1>1. /\ table \in Tables /\ table' = table
      /\ n \in Nat
      /\ columns \in Seq(1 .. n)
      /\ row # NoRow
      /\ values \in [1 .. m -> Literals]
  <2>1. columns \in Seq(1 .. n)
      BY ListsNameColumns DEF IInv
  <2> QED
      BY <2>1, TableType DEF IInv, Update, ValuesFor
<1>2. m \in Nat
    BY <1>1
<1>3. \A c \in 1 .. n : /\ old[c] = GetAs(table[c], said[c])
                        /\ said[c] \in Literals
    BY <1>1, HeldIsRead
<1>4. old \in [1 .. n -> A]
  <2>1. old = [c \in 1 .. n |-> old[c]]
      BY DEF StringToTuple
  <2>2. \A c \in 1 .. n : old[c] \in A
      BY <1>3
  <2> HIDE DEF old, A
  <2> QED
      BY <2>1, <2>2
<1>5. values \in [1 .. m -> A]
    BY <1>1
<1>6. row' = TupleToString(table, new)
    BY DEF Update
<1>7. \A c \in 1 .. n :
          \/ LastGiven(columns, values, m, c, new[c])
          \/ NotNamed(columns, m, c) /\ new[c] = old[c]
  <2> HIDE DEF A, old, n
  <2>1. /\ n \in Nat /\ columns \in Seq(1 .. n)
        /\ old \in [1 .. n -> A]
        /\ values \in [1 .. Len(columns) -> A]
      BY <1>1, <1>4, <1>5
  <2> HIDE DEF m
  <2>2. Overwritten(n, old, columns, values, new)
      BY <2>1, AssignedIs
  <2> QED
      BY <2>2 DEF m, Overwritten
<1> HIDE DEF new, old
<1>8. ASSUME NEW c \in 1 .. n
      PROVE  /\ said'[c] \in Literals
             /\ new[c] = said'[c] \/ new[c] = GetAs(table[c], said'[c])
  <2>1. said'[c] = IF Places(columns, c) = {} THEN said[c]
                   ELSE values[LastPlace(columns, c)]
      BY DEF Update, Say, Places, LastPlace
  <2>2. CASE LastGiven(columns, values, m, c, new[c])
    <3>1. /\ Places(columns, c) # {}
          /\ values[LastPlace(columns, c)] = new[c]
        BY <1>2, <2>2, SaidIs
    <3>2. said'[c] = new[c]
        BY <2>1, <3>1
    <3>3. new[c] \in Literals
        BY <1>1, <2>2 DEF LastGiven
    <3> QED
        BY <3>2, <3>3
  <2>3. CASE NotNamed(columns, m, c) /\ new[c] = old[c]
    <3>1. Places(columns, c) = {}
        BY <1>2, <2>3, SaidIs
    <3>2. said'[c] = said[c]
        BY <2>1, <3>1
    <3> QED
        BY <1>3, <2>3, <3>2
  <2> QED
      BY <1>7, <2>2, <2>3
<1>9. said' \in [1 .. n -> Literals]
  <2>1. said' = [c \in 1 .. n |-> said'[c]]
      BY DEF Update, Say
  <2> QED
      BY <1>8, <2>1
<1>10. row' = TupleToString(table, ReadAs(table, said'))
  <2>1. Stored(table, new, said')
      BY <1>8 DEF Stored
  <2>2. TupleToString(table, new) = TupleToString(table, ReadAs(table, said'))
      BY <1>1, <2>1, WrittenAsRead
  <2> QED
      BY <1>6, <2>2
<1> QED
    BY <1>1, <1>9, <1>10 DEF IInv, Held

(* The invariant.                                                          *)
LEMMA IInvHolds ==
    ASSUME InsertsInOrder
    PROVE  Spec => []IInv
<1>1. Init => IInv
    BY DEF Init, IInv
<1>2. ASSUME IInv, [Next]_vars
      PROVE  IInv'
  <2>1. CASE \E columns \in InsertLists(table) :
                 \E values \in ValuesFor(columns) : Insert(columns, values)
      BY <1>2, <2>1, InsertKeepsIInv
  <2>2. CASE \E columns \in UpdateLists(table) :
                 \E values \in ValuesFor(columns) : Update(columns, values)
      BY <1>2, <2>2, UpdateKeepsIInv
  <2>3. CASE Delete
      BY <1>2, <2>3 DEF IInv, Delete
  <2>4. CASE UNCHANGED vars
      BY <1>2, <2>4 DEF IInv, Held, vars
  <2> QED
      BY <1>2, <2>1, <2>2, <2>3, <2>4 DEF Next
<1> QED
    BY <1>1, <1>2, PTL DEF Spec

(* TypeOK: the row is bytes, and something was said for each column.       *)
THEOREM TypeCorrect ==
    ASSUME InsertsInOrder
    PROVE  Spec => []TypeOK
<1>1. IInv => TypeOK
    BY HeldIsRead DEF IInv, TypeOK
<1> QED
    BY <1>1, IInvHolds, PTL

(* WholeStringConsumed: reading a row by its columns ends where it ends,   *)
(* so that the assertion of StringToTuple holds.                           *)
THEOREM RowsConsumed ==
    ASSUME InsertsInOrder
    PROVE  Spec => []WholeStringConsumed
<1>1. IInv => WholeStringConsumed
    BY HeldIsRead DEF WholeStringConsumed
<1> QED
    BY <1>1, IInvHolds, PTL

(* RowIsWhatWasWritten: StringToTuple gives each column the value last     *)
(* written to it by INSERT or UPDATE, in the column's type.                *)
THEOREM RowsReadAsWritten ==
    ASSUME InsertsInOrder
    PROVE  Spec => []RowIsWhatWasWritten
<1>1. IInv => RowIsWhatWasWritten
    BY HeldIsRead DEF RowIsWhatWasWritten
<1> QED
    BY <1>1, IInvHolds, PTL

(* KeyIsColumn: the key that IndexBinder cuts out of a row for an index is *)
(* the value of the column and nothing else.                               *)
THEOREM KeysAreColumns ==
    ASSUME InsertsInOrder
    PROVE  Spec => []KeyIsColumn
<1>1. IInv => KeyIsColumn
  <2> SUFFICES ASSUME IInv, row # NoRow, NEW c \in 1 .. Len(table)
               PROVE  LET v == GetAs(table[c], said[c])
                      IN  Key(table, row, c) =
                              IF v.type = "kInt" THEN Word(v.number) ELSE v.text
      BY DEF KeyIsColumn
  <2>1. GetAs(table[c], said[c]).type = table[c]
      BY HeldIsRead, GetAsSame
  <2> QED
      BY <2>1, HeldIsRead
<1> QED
    BY <1>1, IInvHolds, PTL

(* WrittenIsFound: a comparison with the literal that was written finds    *)
(* the row, and the comparisons of Value agree with each other.            *)
THEOREM WhatIsWrittenIsFound ==
    ASSUME InsertsInOrder
    PROVE  Spec => []WrittenIsFound
<1>1. IInv => WrittenIsFound
  <2> DEFINE values == StringToTuple(table, row)
  <2> SUFFICES ASSUME IInv, row # NoRow, NEW c \in 1 .. Len(table)
               PROVE  /\ Equal(values[c], said[c])
                      /\ \A w \in Literals \cup {values[d] : d \in DOMAIN values} :
                          /\ GreaterEqual(values[c], w)
                               <=> Greater(values[c], w) \/ Equal(values[c], w)
                          /\ LessEqual(values[c], w)
                               <=> Less(values[c], w) \/ Equal(values[c], w)
                          /\ ~(Less(values[c], w) /\ Greater(values[c], w))
      BY DEF WrittenIsFound
  <2>1. \A d \in 1 .. Len(table) :
            /\ table[d] \in DataType
            /\ values[d] = GetAs(table[d], said[d])
            /\ values[d] \in ValuesOf(table[d])
      BY HeldIsRead
  <2>2. DOMAIN values = 1 .. Len(table)
      BY DEF StringToTuple
  <2> HIDE DEF values
  <2>3. values[c].type = table[c]
      BY <2>1, GetAsSame
  <2>4. Equal(values[c], said[c])
      BY <2>1, <2>3 DEF Equal
  <2>5. ASSUME NEW w \in Literals \cup {values[d] : d \in DOMAIN values}
        PROVE  \E type \in DataType : w \in ValuesOf(type)
      BY <2>1, <2>2, LiteralsFit
  <2>6. ASSUME NEW w \in Literals \cup {values[d] : d \in DOMAIN values}
        PROVE  GetAsNumber(w) \in Nat /\ GetAsString(w) \in Seq(Byte)
      BY <2>5, Comparable
  <2> QED
      BY <2>1, <2>4, <2>6, ComparisonsAgree
<1> QED
    BY <1>1, IInvHolds, PTL
=============================================================================
