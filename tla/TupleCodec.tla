----------------------------- MODULE TupleCodec -----------------------------
(***************************************************************************)
(* A row as a string of bytes.                                             *)
(*                                                                         *)
(* INSERT writes the values of its statement by the types of the columns   *)
(* the statement names; a scan reads a row, and UPDATE writes it again, by *)
(* the types of the columns of the table; an index takes its key out of    *)
(* the bytes. A number is four bytes, the lowest first, a text is its      *)
(* length as a number and then its characters, and nothing tells one from  *)
(* the other. A value written to a column of the other type is converted,  *)
(* and so is the right side of a comparison to the type of the left one.   *)
(*                                                                         *)
(* A text is the sequence of the codes of its characters: that of a        *)
(* literal has its quotation marks (ParserDriver::GetString). Numbers fit  *)
(* the int of the program and are not negative: the grammar has no sign.   *)
(*                                                                         *)
(* Operators whose names begin with that of the next one are mistakes to   *)
(* be tried in its place.                                                  *)
(***************************************************************************)
EXTENDS Integers, Sequences

CONSTANTS
    Tables,         \* the types of the columns of the tables to be tried
    Literals,       \* the values statements have
    InsertLists(_), \* the column lists of INSERT into a table
    UpdateLists(_)  \*     and of UPDATE

DataType == {"kInt", "kText"}

Number(n) == [type |-> "kInt", number |-> n]
Text(s)   == [type |-> "kText", text |-> s]

Byte   == 0 .. 255
IntMax == 2147483647

(* The values a column of a type has.                                      *)
ValuesOf(type) ==
    IF type = "kInt" THEN [type : {"kInt"}, number : 0 .. IntMax]
    ELSE {v \in [type : {"kText"}, text : Seq(Byte)] : Len(v.text) <= IntMax}

VARIABLES
    table,          \* the table
    row,            \* the bytes of its one row, or NoRow
    said            \* the literal last given to each column, or NoValue

vars == <<table, row, said>>

NoRow   == "no row"
NoValue == [type |-> "kUnknownType"]

-----------------------------------------------------------------------------
(***************************************************************************)
(* Values.                                                                 *)
(***************************************************************************)

Digit == 48 .. 57

NumberToString(n) ==
    LET digits[m \in Nat] ==
            IF m < 10 THEN <<48 + m>>
            ELSE Append(digits[m \div 10], 48 + (m % 10))
    IN  digits[n]

(* atoi: the digits the text begins with.                                  *)
StringToNumber(s) ==
    LET number[i \in 0 .. Len(s)] ==
            IF i = 0 THEN 0 ELSE 10 * number[i - 1] + (s[i] - 48)
        Numeral(i) == \A j \in 1 .. i : s[j] \in Digit
        length == CHOOSE i \in 0 .. Len(s) :
                      /\ Numeral(i)
                      /\ i < Len(s) => ~Numeral(i + 1)
    IN  number[length]

GetAsNumber(v) == IF v.type = "kInt" THEN v.number ELSE StringToNumber(v.text)
GetAsString(v) == IF v.type = "kText" THEN v.text ELSE NumberToString(v.number)

GetAs(type, v) ==
    IF type = "kInt" THEN Number(GetAsNumber(v)) ELSE Text(GetAsString(v))

(* A statement names columns of its table. A literal, and the number it    *)
(* begins with, fits the int of the program: atoi of a longer numeral is   *)
(* undefined.                                                              *)
ASSUME TablesAreTypes == Tables \subseteq Seq(DataType)

ASSUME ListsNameColumns ==
    \A t \in Tables :
        InsertLists(t) \cup UpdateLists(t) \subseteq Seq(1 .. Len(t))

ASSUME LiteralsFit ==
    \A v \in Literals :
        /\ \E type \in DataType : v \in ValuesOf(type)
        /\ GetAsNumber(v) \in 0 .. IntMax

(* operator> of std::string.                                               *)
After(s, t) ==
    \E n \in 0 .. Len(t) :
        /\ n < Len(s)
        /\ SubSeq(s, 1, n) = SubSeq(t, 1, n)
        /\ n < Len(t) => s[n + 1] > t[n + 1]

Equal(v, w) == v = GetAs(v.type, w)

Greater(v, w) ==
    IF v.type = "kInt" THEN v.number > GetAsNumber(w)
                       ELSE After(v.text, GetAsString(w))

GreaterEqualStrict(v, w) == Greater(v, w)

GreaterEqual(v, w) ==
    IF v.type = "kInt" THEN v.number >= GetAsNumber(w)
                       ELSE ~After(GetAsString(w), v.text)

Less(v, w)      == ~GreaterEqual(v, w)
LessEqual(v, w) == ~Greater(v, w)

-----------------------------------------------------------------------------
(***************************************************************************)
(* The row as bytes.                                                       *)
(***************************************************************************)

WordSize == 4

WordUntruncated(n) == <<n, n \div 256, n \div 65536, n \div 16777216>>

Word(n) == <<n % 256, (n \div 256) % 256, (n \div 65536) % 256,
             (n \div 16777216) % 256>>

WordAt(s, offset) ==
    LET b(i) == s[offset + i]
    IN  b(1) + 256 * b(2) + 65536 * b(3)
          + 16777216 * (IF b(4) < 128 THEN b(4) ELSE b(4) - 256)

TupleElementToStringAsIs(type, v) ==
    IF v.type = "kInt" THEN Word(v.number) ELSE Word(Len(v.text)) \o v.text

TupleElementToString(type, v) ==
    IF type = "kInt" THEN Word(GetAsNumber(v))
                     ELSE Word(Len(GetAsString(v))) \o GetAsString(v)

TupleToString(types, values) ==
    LET bytes[i \in 0 .. Len(types)] ==
            IF i = 0 THEN <<>>
            ELSE bytes[i - 1] \o TupleElementToString(types[i], values[i])
    IN  bytes[Len(types)]

(* Where a read outside of the string leads: the bytes there are anything. *)
Outside == -1

(* Where the element after the one at the offset begins.                   *)
AfterElement(type, s, offset) ==
    IF offset = Outside \/ offset + WordSize > Len(s) THEN Outside
    ELSE IF type = "kInt" THEN offset + WordSize
    ELSE LET length == WordAt(s, offset)
         IN  IF length \in 0 .. Len(s) - offset - WordSize
             THEN offset + WordSize + length
             ELSE Outside

Offset(types, s, i) ==
    LET offset[k \in 1 .. i] ==
            IF k = 1 THEN 0 ELSE AfterElement(types[k - 1], s, offset[k - 1])
    IN  offset[i]

EndOf(types, s) == Offset(types, s, Len(types) + 1)

StringToTupleElement(type, s, offset) ==
    IF type = "kInt" THEN Number(WordAt(s, offset))
    ELSE Text(SubSeq(s, offset + WordSize + 1, AfterElement(type, s, offset)))

(* The assertion that the whole string is consumed.                        *)
Consumed(types, s) == EndOf(types, s) = Len(s)

StringToTuple(types, s) ==
    [i \in 1 .. Len(types) |->
        StringToTupleElement(types[i], s, Offset(types, s, i))]

KeyWithLength(types, s, i) ==
    SubSeq(s, Offset(types, s, i) + 1, Offset(types, s, i + 1))

(* StringToTupleElmentOffsetAndLength, for IndexBinder.                    *)
Key(types, s, i) ==
    LET offset == Offset(types, s, i)
                    + (IF types[i] = "kText" THEN WordSize ELSE 0)
        length == IF types[i] = "kText" THEN WordAt(s, Offset(types, s, i))
                                        ELSE WordSize
    IN  SubSeq(s, offset + 1, offset + length)

-----------------------------------------------------------------------------
(***************************************************************************)
(* Statements.                                                             *)
(***************************************************************************)

(* The column is the one the statement names, by its place in the table    *)
(* (Table::GetColumnByName).                                               *)
TypesOf(columns) == [i \in 1 .. Len(columns) |-> table[columns[i]]]

AssignedInOrder(old, columns, values) ==
    [c \in 1 .. Len(old) |-> IF c <= Len(values) THEN values[c] ELSE old[c]]

Assigned(old, columns, values) ==
    LET after[i \in 0 .. Len(columns)] ==
            IF i = 0 THEN old
            ELSE [after[i - 1] EXCEPT ![columns[i]] = values[i]]
    IN  after[Len(columns)]

(* The last one counts if a column is named twice.                         *)
Say(columns, values) ==
    said' = [c \in 1 .. Len(table) |->
        LET places == {i \in 1 .. Len(columns) : columns[i] = c}
        IN  IF places = {} THEN said[c]
            ELSE values[CHOOSE i \in places : \A j \in places : j <= i]]

Insert(columns, values) ==
    /\ row = NoRow
    /\ row' = TupleToString(TypesOf(columns), values)
    /\ Say(columns, values)
    /\ UNCHANGED table

(* UpdateCurrent under the cursor of a scan. The program ends if the       *)
(* assertion does not hold.                                                *)
Update(columns, values) ==
    /\ row # NoRow
    /\ Consumed(table, row)
    /\ row' = TupleToString(table,
                  Assigned(StringToTuple(table, row), columns, values))
    /\ Say(columns, values)
    /\ UNCHANGED table

Delete ==
    /\ row # NoRow
    /\ row' = NoRow
    /\ said' = [c \in 1 .. Len(table) |-> NoValue]
    /\ UNCHANGED table

Init ==
    /\ table \in Tables
    /\ row = NoRow
    /\ said = [c \in 1 .. Len(table) |-> NoValue]

(* Lists and values have one length: TupleToString asserts it for INSERT,  *)
(* the grammar of UPDATE sees to it.                                       *)
ValuesFor(columns) == [1 .. Len(columns) -> Literals]

Next ==
    \/ \E columns \in InsertLists(table) :
           \E values \in ValuesFor(columns) : Insert(columns, values)
    \/ \E columns \in UpdateLists(table) :
           \E values \in ValuesFor(columns) : Update(columns, values)
    \/ Delete

Spec == Init /\ [][Next]_vars

-----------------------------------------------------------------------------
(***************************************************************************)
(* Properties.                                                             *)
(***************************************************************************)

TypeOK ==
    /\ table \in Tables
    /\ row = NoRow \/ row \in Seq(Byte)
    /\ said \in [1 .. Len(table) -> Literals \cup {NoValue}]

(* "Should consume the whole string" (StringToTuple): reading a row by the *)
(* columns of the table ends where the row ends.                           *)
WholeStringConsumed == row # NoRow => Consumed(table, row)

(* A scan reads from each column the value last written to it, in the type *)
(* of the column, through any updates of the others and of its own length. *)
RowIsWhatWasWritten ==
    row # NoRow =>
        \A c \in 1 .. Len(table) :
            StringToTuple(table, row)[c] = GetAs(table[c], said[c])

(* The key of an index is the value of its column and nothing else: two    *)
(* rows have the same key just if they have the same value there.          *)
KeyIsColumn ==
    row # NoRow =>
        \A c \in 1 .. Len(table) :
            LET v == GetAs(table[c], said[c])
            IN  Key(table, row, c) =
                    IF v.type = "kInt" THEN Word(v.number) ELSE v.text

(* A clause that compares a column with the literal that was written to it *)
(* selects the row, conversions and all, and each comparison agrees with   *)
(* the others, with any literal or column of the row on the right.         *)
WrittenIsFound ==
    row # NoRow =>
        \A c \in 1 .. Len(table) :
            LET values == StringToTuple(table, row)
                v == values[c]
            IN  /\ Equal(v, said[c])
                /\ \A w \in Literals \cup {values[d] : d \in DOMAIN values} :
                    /\ GreaterEqual(v, w) <=> Greater(v, w) \/ Equal(v, w)
                    /\ LessEqual(v, w) <=> Less(v, w) \/ Equal(v, w)
                    /\ ~(Less(v, w) /\ Greater(v, w))
=============================================================================
