----------------------------- MODULE MCRegistry -----------------------------
(***************************************************************************)
(* Small instances of Registry and the transactions they may receive.      *)
(***************************************************************************)
EXTENDS Registry, SequencesExt

CONSTANT MaxArgs   \* longest vector of hashes, of timestamps

\* One entry more than a transaction may carry.
Oversized == {SetToSeq(Cids) \o <<b>> : b \in BadCids}

\* spel and the guest decode the three vectors apart: any lengths may meet.
MCGuestBatches ==
  [cids   : SeqOf(Cids \cup BadCids, MaxBatchSize) \cup Oversized,
   hashes : SeqOf(Hashes, MaxArgs),
   times  : SeqOf(Times, MaxArgs)]
=============================================================================
