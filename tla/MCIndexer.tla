----------------------------- MODULE MCIndexer -----------------------------
(***************************************************************************)
(* Small instances of Indexer: callers with the same document, and one    *)
(* with a document of its own.                                             *)
(***************************************************************************)
EXTENDS Indexer, TLC

CONSTANTS t1, t2, t3, doc1, doc2

SameDoc    == (t1 :> doc1) @@ (t2 :> doc1)
ThreeCalls == (t1 :> doc1) @@ (t2 :> doc1) @@ (t3 :> doc2)
=============================================================================
