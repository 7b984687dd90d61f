----------------------------- MODULE MCTwins -----------------------------
(***************************************************************************)
(* A small instance of RegistryTwins and the transactions it may receive.  *)
(***************************************************************************)
EXTENDS RegistryTwins, SequencesExt

CONSTANT MaxArgs   \* longest vector of hashes, of timestamps

\* One entry more than a transaction may carry.
Oversized == {SetToSeq(Cids) \o <<b>> : b \in BadCids}

\* spel and the guest decode the three vectors apart: any lengths may meet.
\* The last ones are oversized batches that the library can be given, too.
MCBatches ==
  [cids   : SeqOf(Cids \cup BadCids, MaxBatchSize) \cup Oversized,
   hashes : SeqOf(Hashes, MaxArgs),
   times  : SeqOf(Times, MaxArgs)]
  \cup {[cids |-> o, hashes |-> [k \in DOMAIN o |-> h], times |-> [k \in DOMAIN o |-> t]] :
          o \in Oversized, h \in Hashes, t \in Times}
=============================================================================
