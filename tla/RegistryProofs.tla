--------------------------- MODULE RegistryProofs ---------------------------
(***************************************************************************)
(* What holds of the registry program for every set of CIDs, every batch   *)
(* limit, every account capacity and every set of transactions.            *)
(***************************************************************************)
EXTENDS Registry, FiniteSetTheorems, TLAPS

\* No transaction carries the same CID twice.
DistinctBatches ==
  \A b \in Batches : \A j, k \in DOMAIN b.cids : b.cids[j] = b.cids[k] => j = k

NoRepeat(rs) == \A j, k \in DOMAIN rs : rs[j].cid = rs[k].cid => j = k

\* The instruction's copy extends the stored list with records made of the
\* positions already visited, of CIDs the account does not hold; every CID
\* visited is in the copy.
LoopInv ==
  pc = "loop" =>
    /\ batch \in Batches
    /\ i <= Len(batch.cids) + 1
    /\ Len(records) <= Len(work)
    /\ \A k \in 1..Len(records) : work[k] = records[k]
    /\ \A k \in (Len(records) + 1)..Len(work) :
         /\ work[k].cid \notin CidsOf(records)
         /\ \E j \in 1..(i - 1) : /\ j \in DOMAIN batch.hashes
                                  /\ j \in DOMAIN batch.times
                                  /\ work[k] = Entry(j)
    /\ \A j \in 1..(i - 1) : batch.cids[j] \in CidsOf(work)
    /\ known = IF HostLibrary THEN CidsOf(work) ELSE CidsOf(records)

IInv == TypeOK /\ LoopInv /\ OkMeansRegistered

-----------------------------------------------------------------------------
\* A CID is among those of a list when one of its records has it.
LEMMA CidsOfSeq ==
  ASSUME NEW S, NEW rs \in Seq(S), NEW c
  PROVE  c \in CidsOf(rs) <=> \E k \in 1..Len(rs) : rs[k].cid = c
<1>1. DOMAIN rs = 1..Len(rs)
  OBVIOUS
<1>2. CidsOf(rs) = {rs[k].cid : k \in DOMAIN rs}
  BY DEF CidsOf, Range
<1> QED
  BY <1>1, <1>2

\* Appending a record adds its CID and no other.
LEMMA CidsOfAppend ==
  ASSUME NEW S, NEW rs \in Seq(S), NEW r \in S
  PROVE  /\ Append(rs, r) \in Seq(S)
         /\ Len(Append(rs, r)) = Len(rs) + 1
         /\ \A k \in 1..Len(rs) : Append(rs, r)[k] = rs[k]
         /\ Append(rs, r)[Len(rs) + 1] = r
         /\ CidsOf(Append(rs, r)) = CidsOf(rs) \cup {r.cid}
<1> DEFINE as == Append(rs, r)
<1>1. /\ as \in Seq(S)
      /\ Len(as) = Len(rs) + 1
      /\ \A k \in 1..Len(rs) : as[k] = rs[k]
      /\ as[Len(rs) + 1] = r
  OBVIOUS
<1>2. Len(rs) \in Nat
  OBVIOUS
<1> HIDE DEF as
<1>3. SUFFICES ASSUME NEW c
               PROVE  c \in CidsOf(as) <=> c \in CidsOf(rs) \/ c = r.cid
  BY <1>1 DEF as
<1>4. c \in CidsOf(as) <=> \E k \in 1..Len(as) : as[k].cid = c
  BY <1>1, CidsOfSeq
<1>5. c \in CidsOf(rs) <=> \E k \in 1..Len(rs) : rs[k].cid = c
  BY CidsOfSeq
<1>6. 1..Len(as) = 1..Len(rs) \cup {Len(rs) + 1}
  BY <1>1, <1>2
<1> QED
  BY <1>1, <1>2, <1>4, <1>5, <1>6

\* The fields of a transaction.
LEMMA BatchShape ==
  ASSUME NEW b \in Batches \cup {NoBatch}
  PROVE  /\ b.cids \in Seq(Cids \cup BadCids)
         /\ b.hashes \in Seq(Hashes)
         /\ b.times \in Seq(Times)
<1>1. CASE b \in Batches
  BY <1>1, ConstAssumption DEF BatchArgs
<1>2. CASE b = NoBatch
  BY <1>2 DEF NoBatch
<1> QED
  BY <1>1, <1>2

\* The empty registry is a list of records.
LEMMA EmptyList == <<>> \in Seq(Record)
OBVIOUS
-----------------------------------------------------------------------------
\* Every variable keeps its type, whatever transactions run.
LEMMA InitTypeOK == Init => TypeOK
<1> SUFFICES ASSUME Init
             PROVE  TypeOK
  OBVIOUS
<1>1. records \in Seq(Record) /\ work \in Seq(Record)
  BY EmptyList DEF Init
<1>2. i \in Nat \ {0}
  BY DEF Init
<1>3. known \subseteq Cids /\ initialized \in BOOLEAN
  BY DEF Init
<1>4. /\ pc \in {"idle", "loop"}
      /\ batch \in Batches \cup {NoBatch}
      /\ reply \in Errors \cup {"none", "ok"}
  BY DEF Init
<1> QED
  BY <1>1, <1>2, <1>3, <1>4 DEF TypeOK

\* Every instruction, and every iteration of the loop, keeps the types.
LEMMA NextTypeOK == TypeOK /\ [Next]_vars => TypeOK'
<1> SUFFICES ASSUME TypeOK, [Next]_vars
             PROVE  TypeOK'
  OBVIOUS
<1> USE DEF TypeOK
<1>1. CASE Initialize
  BY <1>1, EmptyList DEF Initialize, End, Errors
<1>2. ASSUME NEW b \in Batches, RejectOversized(b)
      PROVE  TypeOK'
  BY <1>2, EmptyList DEF RejectOversized, Reject, End, Errors
<1>3. ASSUME NEW b \in Batches, RejectUninitialized(b)
      PROVE  TypeOK'
  BY <1>3, EmptyList DEF RejectUninitialized, Reject, End, Errors
<1>4. ASSUME NEW b \in Batches, BeginAnchor(b)
      PROVE  TypeOK'
  <2>1. known' \subseteq Cids
    <3> SUFFICES ASSUME NEW c \in CidsOf(records)
                 PROVE  c \in Cids
      BY <1>4 DEF BeginAnchor
    <3>1. PICK k \in 1..Len(records) : records[k].cid = c
      BY CidsOfSeq
    <3>2. records[k] \in Record
      OBVIOUS
    <3> QED
      BY <3>1, <3>2 DEF Record
  <2> QED
    BY <2>1, <1>4 DEF BeginAnchor
<1>5. CASE RejectInvalidCid
  BY <1>5, EmptyList DEF RejectInvalidCid, Fail, End, Errors
<1>6. CASE SkipKnown
  BY <1>6 DEF SkipKnown
<1>7. CASE IndexPanic
  BY <1>7, EmptyList DEF IndexPanic, Fail, End, Errors
<1>8. CASE Push
  <2>1. Entry(i) \in Record
    BY <1>8, BatchShape DEF Push, Fresh, Entry, Record
  <2>2. batch.cids[i] \in Cids
    BY <1>8 DEF Push, Fresh
  <2>3. work' \in Seq(Record)
    BY <1>8, <2>1 DEF Push
  <2>4. known' \subseteq Cids
    BY <1>8, <2>2 DEF Push
  <2>5. i' \in Nat \ {0}
    BY <1>8 DEF Push
  <2> QED
    BY <1>8, <2>3, <2>4, <2>5 DEF Push
<1>9. CASE StateTooLarge
  BY <1>9, EmptyList DEF StateTooLarge, Fail, End, Errors
<1>10. CASE Commit
  BY <1>10, EmptyList DEF Commit, End
<1>11. CASE UNCHANGED vars
  BY <1>11 DEF vars
<1> QED
  BY <1>1, <1>2, <1>3, <1>4, <1>5, <1>6, <1>7, <1>8, <1>9, <1>10, <1>11
  DEF Next, AnchorLoop

\* Every variable keeps its type: only 46-byte CIDs reach the account.
THEOREM TypeCorrect == Spec => []TypeOK
<1>1. QED
  BY InitTypeOK, NextTypeOK, PTL DEF Spec

-----------------------------------------------------------------------------
\* An instruction that ends leaves no loop behind; unless it answers ok,
\* there is nothing to show for OkMeansRegistered.
LEMMA FailIInv ==
  ASSUME NEW r, r # "ok", End(r)
  PROVE  LoopInv' /\ OkMeansRegistered'
BY DEF End, LoopInv, OkMeansRegistered

\* Before the first transaction there is no loop and no answer.
LEMMA InitIInv == Init => IInv
BY InitTypeOK DEF Init, IInv, LoopInv, OkMeansRegistered

\* Entering the loop: nothing visited, the copy is the stored list.
LEMMA BeginIInv ==
  ASSUME IInv, NEW b \in Batches, BeginAnchor(b)
  PROVE  LoopInv' /\ OkMeansRegistered'
<1> USE DEF BeginAnchor, IInv, TypeOK
<1>1. OkMeansRegistered'
  BY DEF OkMeansRegistered
<1>2. Len(b.cids) \in Nat /\ Len(records) \in Nat
  BY BatchShape
<1>3. known' = IF HostLibrary THEN CidsOf(work)' ELSE CidsOf(records)'
  BY DEF CidsOf
<1>4. LoopInv'
  BY <1>2, <1>3 DEF LoopInv
<1> QED
  BY <1>1, <1>4

\* A skipped CID is in the account or, in the library, in the copy.
LEMMA SkipIInv ==
  ASSUME IInv, SkipKnown
  PROVE  LoopInv' /\ OkMeansRegistered'
<1> USE DEF SkipKnown, InLoop, IInv, TypeOK
<1>1. OkMeansRegistered'
  BY DEF OkMeansRegistered, CidsOf
<1>2. /\ pc = "loop" /\ batch \in Batches /\ i \in 1..Len(batch.cids)
      /\ Len(batch.cids) \in Nat
  BY BatchShape DEF LoopInv
<1>3. batch.cids[i] \in CidsOf(work)
  <2>1. CASE HostLibrary
    BY <2>1 DEF LoopInv
  <2>2. CASE ~HostLibrary
    <3>1. PICK k \in 1..Len(records) : records[k].cid = batch.cids[i]
      BY <2>2, CidsOfSeq DEF LoopInv
    <3>2. k \in 1..Len(work) /\ work[k] = records[k]
      BY <1>2 DEF LoopInv
    <3> QED
      BY <3>1, <3>2, CidsOfSeq
  <2> QED
    BY <2>1, <2>2
<1>4. 1..(i' - 1) = 1..(i - 1) \cup {i}
  BY <1>2
<1>5. \A j \in 1..(i' - 1) : batch'.cids[j] \in CidsOf(work)'
  BY <1>2, <1>3, <1>4 DEF LoopInv, CidsOf
<1>6. \A k \in (Len(records') + 1)..Len(work') :
         /\ work'[k].cid \notin CidsOf(records)'
         /\ \E j \in 1..(i' - 1) : /\ j \in DOMAIN batch'.hashes
                                   /\ j \in DOMAIN batch'.times
                                   /\ work'[k] = Entry(j)'
  BY <1>2, <1>4 DEF LoopInv, CidsOf, Entry
<1>7. known' = IF HostLibrary THEN CidsOf(work)' ELSE CidsOf(records)'
  BY <1>2 DEF LoopInv, CidsOf
<1>8. LoopInv'
  BY <1>2, <1>5, <1>6, <1>7 DEF LoopInv
<1> QED
  BY <1>1, <1>8

\* A pushed record is the entry at i; its CID is not in the account, because
\* known holds at least the account's CIDs.
LEMMA PushIInv ==
  ASSUME IInv, Push
  PROVE  LoopInv' /\ OkMeansRegistered'
<1> USE DEF Push, Fresh, InLoop, IInv, TypeOK
<1>1. OkMeansRegistered'
  BY DEF OkMeansRegistered, CidsOf
<1>2. /\ pc = "loop" /\ batch \in Batches /\ i \in 1..Len(batch.cids)
      /\ Len(batch.cids) \in Nat /\ Len(work) \in Nat /\ Len(records) \in Nat
  BY BatchShape DEF LoopInv
<1>3. Entry(i) \in Record /\ Entry(i).cid = batch.cids[i]
  BY BatchShape DEF Entry, Record
<1>4. /\ Len(work') = Len(work) + 1
      /\ \A k \in 1..Len(work) : work'[k] = work[k]
      /\ work'[Len(work) + 1] = Entry(i)
      /\ CidsOf(work') = CidsOf(work) \cup {batch.cids[i]}
  BY <1>3, CidsOfAppend
<1>5. 1..(i' - 1) = 1..(i - 1) \cup {i}
  BY <1>2
<1>6. batch.cids[i] \notin CidsOf(records)
  <2>1. CASE HostLibrary
    <3> SUFFICES ASSUME batch.cids[i] \in CidsOf(records)
                 PROVE  batch.cids[i] \in CidsOf(work)
      BY <2>1 DEF LoopInv
    <3>1. PICK k \in 1..Len(records) : records[k].cid = batch.cids[i]
      BY CidsOfSeq
    <3>2. k \in 1..Len(work) /\ work[k] = records[k]
      BY <1>2 DEF LoopInv
    <3> QED
      BY <3>1, <3>2, CidsOfSeq
  <2>2. CASE ~HostLibrary
    BY <2>2, <1>2 DEF LoopInv
  <2> QED
    BY <2>1, <2>2
<1>7. i \in DOMAIN batch.hashes /\ i \in DOMAIN batch.times
  BY <1>2, BatchShape
<1>8. \A k \in (Len(records) + 1)..Len(work') :
         /\ work'[k].cid \notin CidsOf(records)
         /\ \E j \in 1..(i' - 1) : /\ j \in DOMAIN batch.hashes
                                   /\ j \in DOMAIN batch.times
                                   /\ work'[k] = Entry(j)
  <2> SUFFICES ASSUME NEW k \in (Len(records) + 1)..Len(work')
               PROVE  /\ work'[k].cid \notin CidsOf(records)
                      /\ \E j \in 1..(i' - 1) : /\ j \in DOMAIN batch.hashes
                                                /\ j \in DOMAIN batch.times
                                                /\ work'[k] = Entry(j)
    OBVIOUS
  <2>1. CASE k = Len(work) + 1
    BY <2>1, <1>3, <1>4, <1>5, <1>6, <1>7
  <2>2. CASE k # Len(work) + 1
    <3>1. k \in (Len(records) + 1)..Len(work) /\ work'[k] = work[k]
      BY <2>2, <1>2, <1>4
    <3> QED
      BY <3>1, <1>2, <1>5 DEF LoopInv
  <2> QED
    BY <2>1, <2>2
<1>9. /\ Len(records) <= Len(work')
      /\ \A k \in 1..Len(records) : work'[k] = records[k]
  BY <1>2, <1>4 DEF LoopInv
<1>10. \A j \in 1..(i' - 1) : batch.cids[j] \in CidsOf(work')
  BY <1>2, <1>4, <1>5 DEF LoopInv
<1>11. known' = IF HostLibrary THEN CidsOf(work') ELSE CidsOf(records)
  BY <1>2, <1>4 DEF LoopInv
<1>12. /\ batch' = batch /\ records' = records /\ i' <= Len(batch.cids) + 1
       /\ CidsOf(work)' = CidsOf(work') /\ CidsOf(records)' = CidsOf(records)
       /\ \A j : Entry(j)' = Entry(j)
  BY <1>2 DEF CidsOf, Entry
<1>13. LoopInv'
  BY <1>2, <1>8, <1>9, <1>10, <1>11, <1>12 DEF LoopInv
<1> QED
  BY <1>1, <1>13

\* The account now holds the copy, and with it every CID of the batch.
LEMMA CommitIInv ==
  ASSUME IInv, Commit
  PROVE  LoopInv' /\ OkMeansRegistered'
<1> USE DEF Commit, AtEnd, End, IInv, TypeOK
<1>1. LoopInv'
  BY DEF LoopInv
<1>2. /\ batch \in Batches /\ Len(batch.cids) \in Nat
      /\ i = Len(batch.cids) + 1
      /\ DOMAIN batch.cids = 1..Len(batch.cids)
  BY BatchShape DEF LoopInv
<1>3. \A j \in DOMAIN batch.cids : batch.cids[j] \in CidsOf(work)
  BY <1>2 DEF LoopInv
<1>4. OkMeansRegistered'
  BY <1>3 DEF OkMeansRegistered, CidsOf
<1> QED
  BY <1>1, <1>4

\* Every instruction and every iteration keeps the loop invariant.
LEMMA NextIInv == IInv /\ [Next]_vars => IInv'
<1> SUFFICES ASSUME IInv, [Next]_vars
             PROVE  IInv'
  OBVIOUS
<1>1. TypeOK'
  BY NextTypeOK DEF IInv
<1> SUFFICES LoopInv' /\ OkMeansRegistered'
  BY <1>1 DEF IInv
<1>2. CASE Initialize
  BY <1>2 DEF Initialize, End, LoopInv, OkMeansRegistered, NoBatch
<1>3. ASSUME NEW b \in Batches, RejectOversized(b) \/ RejectUninitialized(b)
      PROVE  LoopInv' /\ OkMeansRegistered'
  BY <1>3, FailIInv DEF RejectOversized, RejectUninitialized, Reject
<1>4. ASSUME NEW b \in Batches, BeginAnchor(b)
      PROVE  LoopInv' /\ OkMeansRegistered'
  BY <1>4, BeginIInv
<1>5. CASE RejectInvalidCid \/ IndexPanic \/ StateTooLarge
  BY <1>5, FailIInv DEF RejectInvalidCid, IndexPanic, StateTooLarge, Fail
<1>6. CASE SkipKnown
  BY <1>6, SkipIInv
<1>7. CASE Push
  BY <1>7, PushIInv
<1>8. CASE Commit
  BY <1>8, CommitIInv
<1>9. CASE UNCHANGED vars
  BY <1>9 DEF vars, IInv, LoopInv, OkMeansRegistered, CidsOf, Entry
<1> QED
  BY <1>2, <1>3, <1>4, <1>5, <1>6, <1>7, <1>8, <1>9 DEF Next, AnchorLoop

\* The inductive invariant of the loop: the copy extends the stored list by
\* entries of this batch, and covers every CID visited so far.
THEOREM Invariance == Spec => []IInv
<1>1. QED
  BY InitIInv, NextIInv, PTL DEF Spec

\* A transaction that answers ok has registered every CID it carried.
THEOREM OkRegisters == Spec => []OkMeansRegistered
<1>1. IInv => OkMeansRegistered
  BY DEF IInv
<1> QED
  BY <1>1, Invariance, PTL
-----------------------------------------------------------------------------
\* Only a commit changes the list; it puts the copy in its place.
LEMMA RecordsStep ==
  ASSUME [Next]_vars
  PROVE  records' = records \/ Commit
<1>1. CASE AnchorLoop
  BY <1>1 DEF AnchorLoop, RejectInvalidCid, SkipKnown, IndexPanic, Push,
              StateTooLarge, Fail
<1>2. CASE Initialize
  BY <1>2 DEF Initialize
<1>3. ASSUME NEW b \in Batches,
             RejectOversized(b) \/ RejectUninitialized(b) \/ BeginAnchor(b)
      PROVE  records' = records
  BY <1>3 DEF RejectOversized, RejectUninitialized, BeginAnchor, Reject
<1>4. CASE UNCHANGED vars
  BY <1>4 DEF vars
<1> QED
  BY <1>1, <1>2, <1>3, <1>4 DEF Next

\* Nothing anchored is erased, moved or rewritten by any transaction.
THEOREM NothingErased == Spec => AppendOnly
<1>1. IInv /\ [Next]_vars
      => [Len(records) <= Len(records')
          /\ \A k \in DOMAIN records : records'[k] = records[k]]_vars
  <2> SUFFICES ASSUME IInv, [Next]_vars
               PROVE  /\ Len(records) <= Len(records')
                      /\ \A k \in DOMAIN records : records'[k] = records[k]
    OBVIOUS
  <2>1. records \in Seq(Record)
    BY DEF IInv, TypeOK
  <2>2. CASE records' = records
    BY <2>1, <2>2
  <2>3. CASE Commit
    BY <2>1, <2>3 DEF Commit, AtEnd, IInv, LoopInv
  <2> QED
    BY <2>2, <2>3, RecordsStep
<1> QED
  BY <1>1, Invariance, PTL DEF Spec, AppendOnly

\* A record enters the list only for a CID the list did not hold, with the
\* hash and the timestamp its batch gave for it.
THEOREM OnlyFreshRecords == Spec => NewRecordsFresh
<1>1. IInv /\ [Next]_vars
      => [\A k \in DOMAIN records' \ DOMAIN records :
            records'[k].cid \notin CidsOf(records) /\ FromBatch(records'[k])]_vars
  <2> SUFFICES ASSUME IInv, [Next]_vars, NEW k \in DOMAIN records' \ DOMAIN records
               PROVE  records'[k].cid \notin CidsOf(records) /\ FromBatch(records'[k])
    OBVIOUS
  <2>1. Commit
    BY RecordsStep
  <2>2. /\ records' = work /\ pc = "loop"
        /\ records \in Seq(Record) /\ work \in Seq(Record)
    BY <2>1 DEF Commit, AtEnd, IInv, TypeOK
  <2>3. k \in (Len(records) + 1)..Len(work)
    BY <2>2 DEF IInv, LoopInv
  <2>4. batch \in Batches /\ Len(batch.cids) \in Nat /\ i \in Nat /\ i <= Len(batch.cids) + 1
    BY <2>2, BatchShape DEF IInv, TypeOK, LoopInv
  <2>5. PICK j \in 1..(i - 1) : /\ j \in DOMAIN batch.hashes
                                /\ j \in DOMAIN batch.times
                                /\ work[k] = Entry(j)
    BY <2>2, <2>3 DEF IInv, LoopInv
  <2>6. j \in DOMAIN batch.cids
    BY <2>4, BatchShape
  <2>7. FromBatch(records'[k])
    BY <2>2, <2>5, <2>6 DEF FromBatch
  <2>8. records'[k].cid \notin CidsOf(records)
    BY <2>2, <2>3 DEF IInv, LoopInv
  <2> QED
    BY <2>7, <2>8
<1> QED
  BY <1>1, Invariance, PTL DEF Spec, NewRecordsFresh

-----------------------------------------------------------------------------
\* In the library the copy never holds a CID twice; in the guest, neither
\* does it when no batch repeats a CID.
OnceInv == OneRecordPerCid /\ (pc = "loop" => NoRepeat(work))

\* A pushed CID is new to the copy, in the library or when no batch repeats
\* one.
LEMMA PushOnce ==
  ASSUME HostLibrary \/ DistinctBatches, IInv, OnceInv, Push
  PROVE  NoRepeat(work')
<1> USE DEF Push, Fresh, InLoop, IInv, TypeOK
<1>1. /\ pc = "loop" /\ batch \in Batches /\ i \in 1..Len(batch.cids)
      /\ Len(batch.cids) \in Nat /\ Len(work) \in Nat /\ Len(records) \in Nat
      /\ DOMAIN work = 1..Len(work) /\ DOMAIN batch.cids = 1..Len(batch.cids)
  BY BatchShape DEF LoopInv
<1>2. Entry(i) \in Record /\ Entry(i).cid = batch.cids[i]
  BY BatchShape DEF Entry, Record
<1>3. /\ work' \in Seq(Record)
      /\ Len(work') = Len(work) + 1
      /\ \A k \in 1..Len(work) : work'[k] = work[k]
      /\ work'[Len(work) + 1] = Entry(i)
  BY <1>2, CidsOfAppend
<1>4. batch.cids[i] \notin CidsOf(work)
  <2>1. CASE HostLibrary
    BY <2>1, <1>1 DEF LoopInv
  <2>2. CASE ~HostLibrary
    <3> SUFFICES ASSUME NEW k \in 1..Len(work), work[k].cid = batch.cids[i]
                 PROVE  FALSE
      BY CidsOfSeq
    <3>1. known = CidsOf(records)
      BY <2>2, <1>1 DEF LoopInv
    <3>2. CASE k \in 1..Len(records)
      <4>1. records[k].cid = batch.cids[i]
        BY <3>2, <1>1 DEF LoopInv
      <4> QED
        BY <4>1, <3>1, <3>2, CidsOfSeq
    <3>3. CASE k \in (Len(records) + 1)..Len(work)
      <4>1. PICK j \in 1..(i - 1) : work[k] = Entry(j)
        BY <3>3, <1>1 DEF LoopInv
      <4>2. batch.cids[j] = batch.cids[i] /\ j # i /\ j \in 1..Len(batch.cids)
        BY <4>1, <1>1 DEF Entry
      <4> QED
        BY <4>2, <2>2, <1>1 DEF DistinctBatches
    <3> QED
      BY <3>2, <3>3, <1>1
  <2> QED
    BY <2>1, <2>2
<1>5. \A k \in 1..Len(work) : work[k].cid # batch.cids[i]
  BY <1>4, CidsOfSeq
<1>6. DOMAIN work' = 1..(Len(work) + 1)
  BY <1>3
<1> QED
  BY <1>1, <1>2, <1>3, <1>5, <1>6 DEF OnceInv, NoRepeat

\* No step makes two records of one CID.
LEMMA NextOnce ==
  ASSUME HostLibrary \/ DistinctBatches, IInv, OnceInv, [Next]_vars
  PROVE  OnceInv'
<1> USE DEF OnceInv, OneRecordPerCid, NoRepeat
<1>1. CASE Initialize
  BY <1>1 DEF Initialize, End
<1>2. ASSUME NEW b \in Batches, RejectOversized(b) \/ RejectUninitialized(b)
      PROVE  OnceInv'
  BY <1>2 DEF RejectOversized, RejectUninitialized, Reject, End
<1>3. ASSUME NEW b \in Batches, BeginAnchor(b)
      PROVE  OnceInv'
  BY <1>3 DEF BeginAnchor
<1>4. CASE RejectInvalidCid \/ IndexPanic \/ StateTooLarge
  BY <1>4 DEF RejectInvalidCid, IndexPanic, StateTooLarge, Fail, End
<1>5. CASE SkipKnown
  BY <1>5 DEF SkipKnown
<1>6. CASE Push
  <2>1. records' = records /\ pc' = pc
    BY <1>6 DEF Push
  <2> QED
    BY <1>6, <2>1, PushOnce
<1>7. CASE Commit
  BY <1>7 DEF Commit, AtEnd, End
<1>8. CASE UNCHANGED vars
  BY <1>8 DEF vars
<1> QED
  BY <1>1, <1>2, <1>3, <1>4, <1>5, <1>6, <1>7, <1>8 DEF Next, AnchorLoop

\* One record per CID: always in the library; in the guest as long as no
\* batch repeats a CID.
THEOREM RegisteredOnce ==
  ASSUME HostLibrary \/ DistinctBatches
  PROVE  Spec => []OneRecordPerCid
<1>1. Init => OnceInv
  BY DEF Init, OnceInv, OneRecordPerCid
<1>2. IInv /\ OnceInv /\ [Next]_vars => OnceInv'
  BY NextOnce
<1>3. OnceInv => OneRecordPerCid
  BY DEF OnceInv
<1> QED
  BY <1>1, <1>2, <1>3, Invariance, PTL DEF Spec

-----------------------------------------------------------------------------
\* A CID that has records has one that query_by_cid finds, and only one.
LEMMA FirstExists ==
  ASSUME NEW rs \in Seq(Record), NEW c \in CidsOf(rs)
  PROVE  \E k \in Firsts(rs) : rs[k].cid = c
<1> DEFINE R == OpToRel(<, Nat)
<1> DEFINE T == {k \in 1..Len(rs) : rs[k].cid = c}
<1>1. T # {} /\ T \subseteq Nat
  BY CidsOfSeq
<1>2. PICK k \in T : \A j \in T : <<j, k>> \notin R
  <2>1. IsWellFoundedOn(R, Nat)
    BY NatLessThanWellFounded DEF R
  <2> HIDE DEF R, T
  <2> QED
    BY <1>1, <2>1, WFMin
<1>3. \A a, b \in Nat : a < b => <<a, b>> \in R
  BY DEF OpToRel
<1> HIDE DEF R
<1>4. ASSUME NEW j \in 1..(k - 1), rs[j].cid = rs[k].cid
      PROVE  FALSE
  <2>1. k \in 1..Len(rs) /\ rs[k].cid = c /\ Len(rs) \in Nat
    BY <1>2
  <2>2. j \in Nat /\ k \in Nat /\ j < k /\ j \in 1..Len(rs)
    BY <2>1
  <2>3. j \in T
    BY <1>4, <2>1, <2>2
  <2> HIDE DEF T
  <2> QED
    BY <1>2, <1>3, <2>2, <2>3
<1>5. DOMAIN rs = 1..Len(rs)
  OBVIOUS
<1> QED
  BY <1>2, <1>4, <1>5 DEF Firsts

\* Lookup returns the record found by query_by_cid.
LEMMA LookupFinds ==
  ASSUME NEW rs \in Seq(Record), NEW k \in Firsts(rs)
  PROVE  rs[k].cid \in DOMAIN Lookup(rs) /\ Lookup(rs)[rs[k].cid] = rs[k]
<1>1. DOMAIN rs = 1..Len(rs) /\ k \in 1..Len(rs)
  BY DEF Firsts
<1>2. rs[k].cid \in CidsOf(rs)
  BY <1>1, CidsOfSeq
<1>3. \A l \in Firsts(rs) : rs[l].cid = rs[k].cid => l = k
  <2> SUFFICES ASSUME NEW l \in Firsts(rs), rs[l].cid = rs[k].cid
               PROVE  l = k
    OBVIOUS
  <2>1. l \in 1..Len(rs)
    BY <1>1 DEF Firsts
  <2>2. ~(l < k) /\ ~(k < l)
    BY <1>1, <2>1 DEF Firsts
  <2> QED
    BY <1>1, <2>1, <2>2
<1>4. (CHOOSE l \in Firsts(rs) : rs[l].cid = rs[k].cid) = k
  BY <1>3
<1> QED
  BY <1>2, <1>4 DEF Lookup

\* What readers see is a record of the CID they ask for.
LEMMA LookupType ==
  ASSUME NEW rs \in Seq(Record), NEW c \in CidsOf(rs)
  PROVE  c \in Cids /\ Lookup(rs)[c] \in Record /\ Lookup(rs)[c].cid = c
<1>1. PICK k \in Firsts(rs) : rs[k].cid = c
  BY FirstExists
<1>2. rs[k] \in Record
  BY DEF Firsts
<1>3. Lookup(rs)[c] = rs[k]
  BY <1>1, LookupFinds
<1> QED
  BY <1>1, <1>2, <1>3 DEF Record

\* A longer list shows readers the same record of each CID it had.
LEMMA LookupKeeps ==
  ASSUME NEW rs \in Seq(Record), NEW ws \in Seq(Record), Len(rs) <= Len(ws),
         \A k \in 1..Len(rs) : ws[k] = rs[k]
  PROVE  /\ CidsOf(rs) \subseteq CidsOf(ws)
         /\ \A c \in CidsOf(rs) : Lookup(ws)[c] = Lookup(rs)[c]
<1>1. DOMAIN rs = 1..Len(rs) /\ DOMAIN ws = 1..Len(ws) /\ Len(rs) \in Nat /\ Len(ws) \in Nat
  OBVIOUS
<1> SUFFICES ASSUME NEW c \in CidsOf(rs)
             PROVE  c \in CidsOf(ws) /\ Lookup(ws)[c] = Lookup(rs)[c]
  OBVIOUS
<1>2. PICK k \in Firsts(rs) : rs[k].cid = c
  BY FirstExists
<1>3. k \in 1..Len(rs) /\ ws[k] = rs[k]
  BY <1>1 DEF Firsts
<1>4. k \in Firsts(ws)
  BY <1>1, <1>3 DEF Firsts
<1>5. c \in DOMAIN Lookup(ws) /\ Lookup(ws)[c] = ws[k]
  BY <1>2, <1>3, <1>4, LookupFinds
<1>6. Lookup(rs)[c] = rs[k]
  BY <1>2, LookupFinds
<1>7. DOMAIN Lookup(ws) = CidsOf(ws)
  BY DEF Lookup
<1> QED
  BY <1>3, <1>5, <1>6, <1>7

\* The CIDs of the first n positions of a batch are at most n.
LEMMA FewCids ==
  ASSUME NEW s \in Seq(Cids \cup BadCids), NEW S,
         \A c \in S : \E j \in 1..Len(s) : s[j] = c
  PROVE  IsFiniteSet(S) /\ Cardinality(S) <= Len(s)
<1> DEFINE D == {j \in 1..Len(s) : s[j] \in S}
<1> DEFINE f == [j \in D |-> s[j]]
<1>1. f \in Surjection(D, S)
  BY DEF Surjection
<1>2. IsFiniteSet(1..Len(s)) /\ Cardinality(1..Len(s)) = Len(s)
  <2>1. Len(s) \in Nat
    OBVIOUS
  <2> QED
    BY <2>1, FS_Interval
<1>3. IsFiniteSet(D) /\ Cardinality(D) <= Len(s)
  BY <1>2, FS_Subset
<1>4. IsFiniteSet(S) /\ Cardinality(S) <= Cardinality(D)
  BY <1>1, <1>3, FS_Surjection
<1>5. Cardinality(S) \in Nat /\ Cardinality(D) \in Nat /\ Len(s) \in Nat
  BY <1>3, <1>4, FS_CardinalityType
<1> QED
  BY <1>3, <1>4, <1>5

\* An instruction that got as far as its loop has a batch within the limit.
BatchFits == pc = "loop" => Len(batch.cids) <= MaxBatchSize

\* Only BeginAnchor enters the loop, and it checks the limit.
LEMMA NextBatchFits == BatchFits /\ [Next]_vars => BatchFits'
BY DEF BatchFits, Next, AnchorLoop, Initialize, RejectOversized, RejectUninitialized, Reject,
       BeginAnchor, RejectInvalidCid, SkipKnown, IndexPanic, Push, StateTooLarge, Commit,
       Fail, End, vars

\* Committing a batch registers the CIDs that are new, with what readers
\* will see of them, and leaves the others as they were.
LEMMA CommitRefines ==
  ASSUME IInv, BatchFits, Commit
  PROVE  [Ledger!Next]_(Lookup(records))
<1> DEFINE S == CidsOf(work) \ CidsOf(records)
<1>1. /\ records \in Seq(Record) /\ work \in Seq(Record) /\ records' = work
      /\ pc = "loop" /\ batch \in Batches
      /\ batch.cids \in Seq(Cids \cup BadCids) /\ Len(batch.cids) \in Nat
      /\ i - 1 = Len(batch.cids) /\ Len(batch.cids) <= MaxBatchSize
  BY BatchShape DEF Commit, AtEnd, IInv, TypeOK, LoopInv, BatchFits
<1>2. Len(records) <= Len(work) /\ \A k \in 1..Len(records) : work[k] = records[k]
  BY <1>1 DEF IInv, LoopInv
<1>3. /\ CidsOf(records) \subseteq CidsOf(work)
      /\ \A c \in CidsOf(records) : Lookup(work)[c] = Lookup(records)[c]
  BY <1>1, <1>2, LookupKeeps
<1>4. \A c \in S : \E j \in 1..Len(batch.cids) : batch.cids[j] = c
  <2> SUFFICES ASSUME NEW c \in S
               PROVE  \E j \in 1..Len(batch.cids) : batch.cids[j] = c
    OBVIOUS
  <2>1. PICK k \in 1..Len(work) : work[k].cid = c
    BY <1>1, CidsOfSeq
  <2>2. k \notin 1..Len(records)
    BY <1>1, <1>2, <2>1, CidsOfSeq
  <2>3. k \in (Len(records) + 1)..Len(work)
    BY <1>1, <2>1, <2>2
  <2>4. PICK j \in 1..(i - 1) : work[k] = Entry(j)
    BY <1>1, <2>3 DEF IInv, LoopInv
  <2> QED
    BY <1>1, <2>1, <2>4 DEF Entry
<1>5. Cardinality(S) <= MaxBatchSize
  <2>1. IsFiniteSet(S) /\ Cardinality(S) <= Len(batch.cids)
    BY <1>1, <1>4, FewCids
  <2>2. Cardinality(S) \in Nat /\ MaxBatchSize \in Nat
    BY <2>1, FS_CardinalityType, ConstAssumption
  <2> QED
    BY <1>1, <2>1, <2>2
<1>6. DOMAIN Lookup(records) = CidsOf(records) /\ DOMAIN Lookup(work) = CidsOf(work)
  BY DEF Lookup
<1>7. Lookup(records)' = Lookup(work)
  BY <1>1 DEF Lookup, Firsts, CidsOf
<1>8. CASE S = {}
  <2>1. Lookup(work) = Lookup(records)
    <3>1. CidsOf(work) = CidsOf(records)
      BY <1>3, <1>8
    <3>2. Lookup(work) = [c \in CidsOf(work) |-> Lookup(work)[c]]
      BY DEF Lookup
    <3>3. Lookup(records) = [c \in CidsOf(records) |-> Lookup(records)[c]]
      BY DEF Lookup
    <3> QED
      BY <1>3, <3>1, <3>2, <3>3
  <2> QED
    BY <1>7, <2>1
<1>9. CASE S # {}
  <2> DEFINE new == [c \in S |-> Lookup(work)[c]]
  <2>1. \A c \in S : c \in Cids /\ Lookup(work)[c] \in Record /\ Lookup(work)[c].cid = c
    BY <1>1, LookupType
  <2>2. new \in [S -> Record] /\ \A c \in S : new[c].cid = c
    BY <2>1
  <2>3. Lookup(work) = [c \in DOMAIN Lookup(records) \cup S |->
                          IF c \in S THEN new[c] ELSE Lookup(records)[c]]
    <3>1. Lookup(work) = [c \in CidsOf(work) |-> Lookup(work)[c]]
      BY DEF Lookup
    <3>2. CidsOf(work) = DOMAIN Lookup(records) \cup S
      BY <1>3, <1>6
    <3>3. \A c \in CidsOf(work) :
             Lookup(work)[c] = IF c \in S THEN new[c] ELSE Lookup(records)[c]
      BY <1>3
    <3> HIDE DEF new, S
    <3> QED
      BY <3>1, <3>2, <3>3
  <2>4. S \cap DOMAIN Lookup(records) = {} /\ S \in SUBSET Cids
    BY <1>6, <2>1
  <2>5. Ledger!Record = Record
    BY DEF Ledger!Record, Record
  <2>6. Ledger!Cardinality(S) = Cardinality(S)
    BY DEF Cardinality, Ledger!Cardinality
  <2> HIDE DEF new, S
  <2>7. Ledger!Register(S)
    BY <1>5, <1>7, <1>9, <2>2, <2>3, <2>4, <2>5, <2>6 DEF Ledger!Register
  <2> QED
    BY <2>4, <2>7 DEF Ledger!Next
<1> QED
  BY <1>8, <1>9

\* The registry implements the ledger its readers rely on: first record wins,
\* and stays, and a transaction adds at most MaxBatchSize CIDs, whatever
\* lengths its vectors have and whatever it repeats.
THEOREM LedgerImplemented == Spec => ImplementsLedger
<1>1. Init => Ledger!Init
  BY DEF Init, Ledger!Init, Lookup, CidsOf, Range
<1>2. Init => BatchFits
  BY DEF Init, BatchFits
<1>3. IInv /\ BatchFits /\ [Next]_vars => [Ledger!Next]_(Lookup(records))
  <2> SUFFICES ASSUME IInv, BatchFits, [Next]_vars
               PROVE  [Ledger!Next]_(Lookup(records))
    OBVIOUS
  <2>1. CASE records' = records
    BY <2>1 DEF Lookup, Firsts, CidsOf
  <2>2. CASE Commit
    BY <2>2, CommitRefines
  <2> QED
    BY <2>1, <2>2, RecordsStep
<1> QED
  BY <1>1, <1>2, <1>3, NextBatchFits, Invariance, PTL
  DEF Spec, ImplementsLedger, Ledger!Spec
=============================================================================
