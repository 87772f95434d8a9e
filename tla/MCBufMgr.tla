------------------------------ MODULE MCBufMgr ------------------------------
(***************************************************************************)
(* Two frames and three pages, of which two share a bucket.                *)
(***************************************************************************)
EXTENDS BufMgr

Contents == {0, 1}

AFewFiles == {<<>>, <<1, 1, 1>>}
=============================================================================
