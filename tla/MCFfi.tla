------------------------------- MODULE MCFfi -------------------------------
(***************************************************************************)
(* Small instances of Ffi: callers with the same document.                 *)
(***************************************************************************)
EXTENDS Ffi, TLC

CONSTANTS t1, t2, doc1

SameDoc == (t1 :> doc1) @@ (t2 :> doc1)
=============================================================================
