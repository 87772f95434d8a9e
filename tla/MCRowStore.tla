----------------------------- MODULE MCRowStore -----------------------------
(* A table of two columns, one with an index, one with a unique index.     *)
EXTENDS RowStore

Columns == {"a", "b"}
Indexes == {"ofA", "ofB"}
ColumnOf == [i \in Indexes |-> IF i = "ofA" THEN "a" ELSE "b"]
UniqueOnes == {"ofB"}

With(c, v) == {t \in Tuple : t[c] = v}

Update(w, s) == [kind |-> "update", where |-> w, set |-> s]
Delete(w)    == [kind |-> "delete", where |-> w, set |-> [c \in {} |-> 1]]

(* Updates that move rows out of their clause, into one another's keys,    *)
(* or change nothing; deletes with and without a clause.                   *)
Changes ==
    {Update(With("a", 1), [c \in {"a"} |-> 2]),
     Update(Tuple, [c \in {"b"} |-> 2]),
     Update(With("b", 1), [c \in Columns |-> 1]),
     Delete(With("a", 1)),
     Delete(Tuple)}
=============================================================================
