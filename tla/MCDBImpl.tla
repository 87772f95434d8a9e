------------------------------ MODULE MCDBImpl ------------------------------
(***************************************************************************)
(* Values of DBImpl's constants for TLC. Names are chosen to collide: the  *)
(* index "b" on table "a" has the physical name of the table "ab", and the *)
(* index "bc" on "a" that of "c" on "ab". A run names only the indexes     *)
(* that its question needs: two on one table, two that collide, one on a   *)
(* schema table.                                                           *)
(***************************************************************************)
EXTENDS DBImpl

Tables  == {<<"a">>, <<"a", "b">>}
Indexes == {<<"b">>, <<"b", "c">>, <<"c">>}

SchemaTableName == <<"PD_Table">>
SchemaIndexName == <<"PD_Index">>

OnOneTable    == {<<<<"b">>, <<"a">>>>, <<<<"c">>, <<"a">>>>}
Colliding     == {<<<<"b", "c">>, <<"a">>>>, <<<<"c">>, <<"a", "b">>>>}
OnSchemaTable == {<<<<"b">>, SchemaTableName>>}
OnSchemaIndex == {<<<<"b">>, SchemaIndexName>>}

WantedOnCrash  == OnOneTable \cup OnSchemaTable \cup OnSchemaIndex
WantedOnFault  == {<<<<"b">>, <<"a">>>>} \cup Colliding
WantedOnRetry  == OnOneTable \cup OnSchemaIndex
=============================================================================
