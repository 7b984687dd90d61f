------------------------------ MODULE Registry ------------------------------
(***************************************************************************)
(* The CID registry program.  A transaction runs one instruction of the    *)
(* program over the registry account; the account changes only when the    *)
(* instruction returns a post-state.  anchor_batch is modelled one         *)
(* iteration of its loop at a time.                                        *)
(*                                                                         *)
(* The repository holds the instruction twice: in the zkVM guest that is   *)
(* deployed (cid-registry/src/main.rs) and in the host library that the    *)
(* unit tests exercise (cid-registry/src/lib.rs).  HostLibrary chooses.    *)
(***************************************************************************)
EXTENDS Functions, Sequences

CONSTANTS
  Cids,          \* byte strings of CID_BYTES bytes
  BadCids,       \* byte strings of any other length
  Hashes,        \* metadata hashes
  Times,         \* anchor timestamps
  MaxBatchSize,  \* MAX_BATCH_SIZE
  Capacity,      \* number of records that serialise into account Data
  Batches,       \* the argument vectors transactions may carry
  HostLibrary    \* TRUE: lib.rs; FALSE: the guest, main.rs

\* The three argument vectors of anchor_batch; nothing ties their lengths.
BatchArgs == [cids   : Seq(Cids \cup BadCids),
              hashes : Seq(Hashes),
              times  : Seq(Times)]

\* lib.rs takes one vector of triples: there the lengths agree.
Square(b) == Len(b.hashes) = Len(b.cids) /\ Len(b.times) = Len(b.cids)

ASSUME ConstAssumption ==
  /\ Cids \cap BadCids = {}
  /\ MaxBatchSize \in Nat
  /\ Capacity \in Nat
  /\ HostLibrary \in BOOLEAN
  /\ Batches \subseteq BatchArgs
  /\ HostLibrary => \A b \in Batches : Square(b)

VARIABLES
  initialized,   \* the registry PDA holds a RegistryState
  records,       \* RegistryState.records as stored in the account
  pc,            \* "idle", or "loop" inside anchor_batch
  batch,         \* arguments of the transaction running or last answered
  i,             \* next index into the batch
  work,          \* state.records, the instruction's own copy
  known,         \* existing (main.rs) or seen (lib.rs)
  reply          \* outcome of the last transaction

vars == <<initialized, records, pc, batch, i, work, known, reply>>

Record == [cid : Cids, metadata_hash : Hashes, anchor_timestamp : Times]

NoBatch == [cids |-> <<>>, hashes |-> <<>>, times |-> <<>>]

Errors == {"ERR_BATCH_TOO_LARGE", "ERR_INVALID_CID", "SerializationError",
           "init_refused", "panic"}

CidsOf(rs) == {r.cid : r \in Range(rs)}

\* The indices of rs that no earlier index shares its CID with.
Firsts(rs) == {k \in DOMAIN rs : \A j \in 1..(k-1) : rs[j].cid # rs[k].cid}

\* query_by_cid for every CID it finds: the first record of each.
Lookup(rs) ==
  [c \in CidsOf(rs) |-> rs[CHOOSE k \in Firsts(rs) : rs[k].cid = c]]

-----------------------------------------------------------------------------
TypeOK ==
  /\ initialized \in BOOLEAN
  /\ records \in Seq(Record)
  /\ pc \in {"idle", "loop"}
  /\ batch \in Batches \cup {NoBatch}
  /\ i \in Nat \ {0}
  /\ work \in Seq(Record)
  /\ known \subseteq Cids
  /\ reply \in Errors \cup {"none", "ok"}

Init ==
  /\ initialized = FALSE
  /\ records = <<>>
  /\ pc = "idle"
  /\ batch = NoBatch
  /\ i = 1
  /\ work = <<>>
  /\ known = {}
  /\ reply = "none"

-----------------------------------------------------------------------------
\* The instruction ends: its locals are gone and, unless it returned a
\* post-state, the account is what it was.
End(r) ==
  /\ pc' = "idle"
  /\ i' = 1
  /\ work' = <<>>
  /\ known' = {}
  /\ reply' = r

Fail(r) == End(r) /\ UNCHANGED <<initialized, records, batch>>

Reject(b, r) == /\ pc = "idle"
                /\ batch' = b
                /\ End(r)
                /\ UNCHANGED <<initialized, records>>

\* initialize: account(init) makes the framework refuse an account that is
\* not the default one (main.rs); the library asserts the same.
Initialize ==
  /\ pc = "idle"
  /\ batch' = NoBatch
  /\ records' = records
  /\ initialized' = TRUE
  /\ End(CASE ~initialized -> "ok"
           [] initialized /\ HostLibrary  -> "panic"
           [] initialized /\ ~HostLibrary -> "init_refused")

\* Mutant: the guest alone also refuses a batch of the full size.
RejectOversized_Full(b) ==
  /\ Len(b.cids) > MaxBatchSize \/ (~HostLibrary /\ Len(b.cids) = MaxBatchSize)
  /\ HostLibrary => initialized
  /\ Reject(b, "ERR_BATCH_TOO_LARGE")

\* The guest checks the size before it deserialises, the library after.
RejectOversized(b) ==
  /\ Len(b.cids) > MaxBatchSize
  /\ HostLibrary => initialized
  /\ Reject(b, "ERR_BATCH_TOO_LARGE")

\* Empty account data does not deserialise.  The guest answers with the code
\* of an oversized batch, the library panics.
RejectUninitialized(b) ==
  /\ ~initialized
  /\ ~HostLibrary => Len(b.cids) <= MaxBatchSize
  /\ Reject(b, IF HostLibrary THEN "panic" ELSE "ERR_BATCH_TOO_LARGE")

\* Mutant: the batch starts from an empty list, not from the stored state.
BeginAnchor_Empty(b) ==
  /\ pc = "idle"
  /\ initialized
  /\ Len(b.cids) <= MaxBatchSize
  /\ pc' = "loop"
  /\ batch' = b
  /\ i' = 1
  /\ work' = <<>>
  /\ known' = {}
  /\ reply' = "none"
  /\ UNCHANGED <<initialized, records>>

BeginAnchor(b) ==
  /\ pc = "idle"
  /\ initialized
  /\ Len(b.cids) <= MaxBatchSize
  /\ pc' = "loop"
  /\ batch' = b
  /\ i' = 1
  /\ work' = records
  /\ known' = CidsOf(records)
  /\ reply' = "none"
  /\ UNCHANGED <<initialized, records>>

\* The record made of one position of the batch.
Entry(k) == [cid              |-> batch.cids[k],
             metadata_hash    |-> batch.hashes[k],
             anchor_timestamp |-> batch.times[k]]

InLoop == pc = "loop" /\ i <= Len(batch.cids)

\* Mutant: an invalid CID is skipped instead of failing the batch.
RejectInvalidCid_Skip ==
  /\ InLoop
  /\ batch.cids[i] \notin Cids
  /\ i' = i + 1
  /\ UNCHANGED <<initialized, records, pc, batch, work, known, reply>>

RejectInvalidCid ==
  /\ InLoop
  /\ batch.cids[i] \notin Cids
  /\ Fail("ERR_INVALID_CID")

\* Mutant: a known CID is updated with the hash of the new envelope.
SkipKnown_Upsert ==
  /\ InLoop
  /\ batch.cids[i] \in known
  /\ i' = i + 1
  /\ work' = [k \in DOMAIN work |->
                IF work[k].cid = batch.cids[i] /\ i \in DOMAIN batch.hashes
                THEN [work[k] EXCEPT !.metadata_hash = batch.hashes[i]]
                ELSE work[k]]
  /\ UNCHANGED <<initialized, records, pc, batch, known, reply>>

\* continue: the CID is registered already (or, in the library, was earlier
\* in this batch).
SkipKnown ==
  /\ InLoop
  /\ batch.cids[i] \in known
  /\ i' = i + 1
  /\ UNCHANGED <<initialized, records, pc, batch, work, known, reply>>

\* Mutant: the length of the CID is not checked.
Fresh_AnyLength == InLoop /\ batch.cids[i] \notin known

Fresh == InLoop /\ batch.cids[i] \in Cids \ known

\* entries_meta_hashes[i] or entries_timestamps[i] is out of bounds.
IndexPanic ==
  /\ Fresh
  /\ i > Len(batch.hashes) \/ i > Len(batch.times)
  /\ Fail("panic")

\* Mutant: the hash comes from the position among the new records.
Push_Shifted ==
  /\ Fresh
  /\ i <= Len(batch.hashes) /\ i <= Len(batch.times)
  /\ LET n == Len(work) - Len(records) + 1
     IN  work' = Append(work, [Entry(i) EXCEPT !.metadata_hash = batch.hashes[n]])
  /\ known' = IF HostLibrary THEN known \cup {batch.cids[i]} ELSE known
  /\ i' = i + 1
  /\ UNCHANGED <<initialized, records, pc, batch, reply>>

\* Mutant: contains where the library has insert, as in the guest.
Push_NoInsert ==
  /\ Fresh
  /\ i <= Len(batch.hashes) /\ i <= Len(batch.times)
  /\ work' = Append(work, Entry(i))
  /\ i' = i + 1
  /\ UNCHANGED <<initialized, records, pc, batch, known, reply>>

\* The library's seen.insert(cid) also remembers the batch's own CIDs; the
\* guest's existing is never extended.
Push ==
  /\ Fresh
  /\ i <= Len(batch.hashes) /\ i <= Len(batch.times)
  /\ work' = Append(work, Entry(i))
  /\ known' = IF HostLibrary THEN known \cup {batch.cids[i]} ELSE known
  /\ i' = i + 1
  /\ UNCHANGED <<initialized, records, pc, batch, reply>>

AtEnd == pc = "loop" /\ i > Len(batch.cids)

\* Mutant: the last place in the account is not used.
StateTooLarge_OffByOne ==
  /\ AtEnd
  /\ Len(work) >= Capacity
  /\ Fail("SerializationError")

\* Data::try_from: state too large.
StateTooLarge ==
  /\ AtEnd
  /\ Len(work) > Capacity
  /\ Fail("SerializationError")

Commit ==
  /\ AtEnd
  /\ Len(work) <= Capacity
  /\ records' = work
  /\ End("ok")
  /\ UNCHANGED <<initialized, batch>>

AnchorLoop == \/ RejectInvalidCid \/ SkipKnown \/ IndexPanic \/ Push
              \/ StateTooLarge \/ Commit

Next == \/ Initialize
        \/ \E b \in Batches : \/ RejectOversized(b)
                              \/ RejectUninitialized(b)
                              \/ BeginAnchor(b)
        \/ AnchorLoop

Spec == Init /\ [][Next]_vars

-----------------------------------------------------------------------------
(* Properties.                                                             *)

\* A document once anchored cannot be erased, moved or rewritten: whatever
\* transactions run, the stored list only grows at its end.
AppendOnly ==
  [][Len(records) <= Len(records') /\ \A k \in DOMAIN records : records'[k] = records[k]]_vars

\* A new record belongs to a CID that was not registered when the transaction
\* began, and pairs the CID, hash and timestamp of one position of the batch:
\* skipped entries do not shift the three argument vectors.
FromBatch(r) ==
  \E k \in DOMAIN batch.cids :
     k \in DOMAIN batch.hashes /\ k \in DOMAIN batch.times /\ r = Entry(k)

NewRecordsFresh ==
  [][\A k \in DOMAIN records' \ DOMAIN records :
        records'[k].cid \notin CidsOf(records) /\ FromBatch(records'[k])]_vars

\* A transaction that succeeds has registered every CID it carried, however
\* many of them were known before (what batch-anchor relies on to mark them).
OkMeansRegistered ==
  reply = "ok" => \A k \in DOMAIN batch.cids : batch.cids[k] \in CidsOf(records)

\* Anchoring is idempotent: one record per CID (cid-registry/src/lib.rs:195,
\* "a CID repeated within one batch must register once").
OneRecordPerCid ==
  \A j, k \in DOMAIN records : records[j].cid = records[k].cid => j = k

\* Readers of the registry see the abstract ledger: first record wins, and
\* stays.
Ledger == INSTANCE AnchorLedger WITH ledger <- Lookup(records)
ImplementsLedger == Ledger!Spec
=============================================================================
