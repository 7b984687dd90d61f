---------------------------- MODULE AnchorLedger ----------------------------
(***************************************************************************)
(* What the on-chain registry promises its readers: a partial function     *)
(* from CIDs to the record that was anchored first.  One transaction adds  *)
(* the records of at most MaxBatchSize new CIDs at once; nothing is ever   *)
(* replaced or erased.                                                     *)
(***************************************************************************)
EXTENDS Integers, FiniteSets

CONSTANTS Cids, Hashes, Times, MaxBatchSize

VARIABLE ledger

\* DocumentRecord: what is stored for one document.
Record == [cid : Cids, metadata_hash : Hashes, anchor_timestamp : Times]

TypeOK ==
  /\ DOMAIN ledger \subseteq Cids
  /\ \A c \in DOMAIN ledger : ledger[c] \in Record /\ ledger[c].cid = c

Init == ledger = [c \in {} |-> {}]

\* One accepted transaction registers the CIDs of S, all of them new.
Register(S) ==
  /\ S # {}
  /\ S \cap DOMAIN ledger = {}
  /\ Cardinality(S) <= MaxBatchSize
  /\ \E new \in [S -> Record] :
       /\ \A c \in S : new[c].cid = c
       /\ ledger' = [c \in DOMAIN ledger \cup S |->
                       IF c \in S THEN new[c] ELSE ledger[c]]

Next == \E S \in SUBSET Cids : Register(S)

Spec == Init /\ [][Next]_ledger
=============================================================================
