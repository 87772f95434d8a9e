------------------------------- MODULE Schema -------------------------------
(***************************************************************************)
(* What the schema statements of PandaSQL promise, as DBImpl.tla is shown  *)
(* to implement it: a statement takes effect at one moment between its     *)
(* call and its answer, an answer of kOK is given if and only if it took   *)
(* effect, dropping a table drops its indexes at the same moment, and the  *)
(* end of the process undoes nothing that took effect. All of it ends      *)
(* where an index that a user put on a schema table refuses a row.         *)
(***************************************************************************)
EXTENDS Naturals

CONSTANTS AnyTable, AnyIndex, System

VARIABLES
    tables,     \* the user tables there are
    indexes,    \* the <<index, table>> pairs there are
    call,       \* the last call, a record [op, table, index]
    running,    \* it has not been answered
    done,       \* it is running and has taken effect
    answer,     \* "none" until it is answered
    broken      \* an index of a schema table has refused a row since the
                \* DB object was made

schema == <<tables, indexes>>
svars  == <<schema, call, running, done, answer, broken>>

Init ==
    /\ tables = {}
    /\ indexes = {}
    /\ call.op = "none"
    /\ running = FALSE
    /\ done = FALSE
    /\ answer = "none"
    /\ broken = FALSE

CreateTable(t) ==
    /\ t \notin tables
    /\ tables' = tables \cup {t}
    /\ UNCHANGED indexes

DropTable(t) ==
    /\ t \in tables
    /\ tables' = tables \ {t}
    /\ indexes' = {x \in indexes : x[2] # t}

CreateIndex(x) ==
    /\ x \notin indexes
    /\ x[2] \in tables \cup System
    /\ indexes' = indexes \cup {x}
    /\ UNCHANGED tables

DropIndex(x) ==
    /\ x \in indexes
    /\ indexes' = indexes \ {x}
    /\ UNCHANGED tables

Effect(c) ==
    \/ c.op = "CreateTable" /\ CreateTable(c.table)
    \/ c.op = "DropTable"   /\ DropTable(c.table)
    \/ c.op = "CreateIndex" /\ CreateIndex(<<c.index, c.table>>)
    \/ c.op = "DropIndex"   /\ DropIndex(<<c.index, c.table>>)
    \/ c.op \in {"Open", "Close"} /\ UNCHANGED schema

Start(c) ==
    /\ ~running
    /\ running'
    /\ call' = c
    /\ answer' = "none"
    /\ UNCHANGED broken
    /\ \/ done' /\ Effect(c)
       \/ ~done' /\ UNCHANGED schema

Answer(c, status) ==
    /\ ~running'
    /\ ~done'
    /\ call' = c
    /\ answer' = status
    /\ UNCHANGED broken
    /\ IF status = "kOK" /\ ~done THEN Effect(c) ELSE UNCHANGED schema
    /\ done => status = "kOK"

(* The answer that ends the call, or a call answered in the same step.     *)
Finish(c, status) ==
    /\ status # "none"
    /\ running => c = call
    /\ Answer(c, status)

(* The process ends, or the caller makes a new DB object. What it finds    *)
(* may be half done if the one before was broken.                          *)
Forget ==
    /\ call'.op = "none"
    /\ answer' = "none"
    /\ ~running'
    /\ ~done'
    /\ ~broken'
    /\ UNCHANGED schema

(* Nothing is promised from a refusal on until the object is gone.         *)
GiveUp == broken'

Next ==
    \/ Start(call')
    \/ Finish(call', answer')
    \/ Forget
    \/ GiveUp

Spec == Init /\ [][Next]_svars
=============================================================================
