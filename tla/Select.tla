-------------------------------- MODULE Select --------------------------------
(***************************************************************************)
(* What the execution of a SELECT promises, as NestLoop.tla is shown to    *)
(* implement it: the selected tuples come out one by one, in the order of  *)
(* the rows of the first table, then of the second, and so on; each comes  *)
(* out once and none is skipped; the answer comes last, and after an       *)
(* answer of kOK none is missing, unless a read has failed.                *)
(***************************************************************************)
EXTENDS Naturals, Sequences

VARIABLES
    selected,   \* the tuples to come out, as sequences of positions of rows
    rows,       \* those that came out
    answer,     \* "none" until the end
    failed      \* a read has failed

svars == <<selected, rows, answer, failed>>

(* Lexicographic order of tuples of the same length.                       *)
Before(t, u) ==
    \E i \in DOMAIN t :
        /\ t[i] < u[i]
        /\ \A k \in 1 .. i - 1 : t[k] = u[k]

IsNext(t) ==
    /\ t \in selected
    /\ \A i \in DOMAIN rows : Before(rows[i], t)
    /\ \A u \in selected : Before(u, t) => \E i \in DOMAIN rows : rows[i] = u

Init ==
    /\ rows = <<>>
    /\ answer = "none"
    /\ failed = FALSE

Emit ==
    /\ answer = "none"
    /\ \E t \in selected : IsNext(t) /\ rows' = Append(rows, t)
    /\ UNCHANGED <<selected, answer, failed>>

Fail ==
    /\ answer = "none"
    /\ failed' = TRUE
    /\ UNCHANGED <<selected, rows, answer>>

Answer ==
    /\ answer = "none"
    /\ answer' \in {"kOK", "kInternalError"}
    /\ failed \/ (answer' = "kOK" /\ ~ \E t \in selected : IsNext(t))
    /\ UNCHANGED <<selected, rows, failed>>

Next == Emit \/ Fail \/ Answer

Spec == Init /\ [][Next]_svars
=============================================================================
