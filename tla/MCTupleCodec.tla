---------------------------- MODULE MCTupleCodec ----------------------------
(* Tables of two and three columns of either type; numbers of one and two  *)
(* bytes, texts of several lengths with their quotation marks.             *)
EXTENDS TupleCodec

TypeLists == [1 .. 2 -> DataType] \cup [1 .. 3 -> DataType]

Values ==
    {Number(7), Number(300),
     Text(<<39, 39>>), Text(<<39, 55, 39>>), Text(<<39, 97, 98, 39>>)}

InOrder(types) == {[i \in 1 .. Len(types) |-> i]}

AnyList(types) ==
    UNION {[1 .. n -> 1 .. Len(types)] : n \in 1 .. Len(types)}

ShortList(types) == UNION {[1 .. n -> 1 .. Len(types)] : n \in 1 .. 2}
=============================================================================
