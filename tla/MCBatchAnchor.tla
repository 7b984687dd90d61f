--------------------------- MODULE MCBatchAnchor ---------------------------
(***************************************************************************)
(* Small instances of BatchAnchor: one process, or two on one database and *)
(* a third, which polls an http bridge, on another.                        *)
(***************************************************************************)
EXTENDS BatchAnchor, TLC

CONSTANTS p1, p2, p3, d1, d2

SharedDb == (p1 :> d1) @@ (p2 :> d1) @@ (p3 :> d2)
SoleDb   == p1 :> d1

\* Two processes on the queue file, one on an http bridge.
Mixed == (p1 :> "file") @@ (p2 :> "file") @@ (p3 :> "http")

File  == p1 :> "file"
Http  == p1 :> "http"
Https == p1 :> "https"
=============================================================================
