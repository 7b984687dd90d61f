------------------------- MODULE RegistryTwinsProofs -------------------------
(***************************************************************************)
(* The deployed guest and the tested library end with the same account     *)
(* after any transactions in which no batch repeats a CID; the guest does  *)
(* to the copies of each CID what BatchAnchor takes the chain to do; and   *)
(* the library registers a CID once.  For every batch limit, capacity and  *)
(* set of batches.                                                         *)
(***************************************************************************)
EXTENDS RegistryTwins, RegistryProofs

\* A batch both versions can be given, without repetitions.
Good(b) == b \in SquareBatches /\ Distinct(b)

\* The record at position k of a batch.
EntryAt(b, k) == [cid              |-> b.cids[k],
                  metadata_hash    |-> b.hashes[k],
                  anchor_timestamp |-> b.times[k]]

\* What position k of batch b makes of the copy rs, when the instruction
\* started from the list old.
Visited(b, old, k, rs) ==
  IF b.cids[k] \in CidsOf(old) THEN rs ELSE Append(rs, EntryAt(b, k))

\* w[j] is the instruction's copy before position j of batch b, for the first
\* n positions, when it starts from the list old.
Trace(b, old, n, w) ==
  /\ w \in [1..n -> Seq(Record)]
  /\ w[1] = old
  /\ \A j \in 1..(n - 1) :
       /\ b.cids[j] \in Cids
       /\ w[j + 1] = Visited(b, old, j, w[j])
  /\ \A j \in 1..n : CidsOf(w[j]) = CidsOf(old) \cup {b.cids[l] : l \in 1..(j - 1)}

\* The trace with the copy after position n as well.
Longer(b, old, n, w) ==
  [j \in 1..(n + 1) |-> IF j <= n THEN w[j] ELSE Visited(b, old, n, w[n])]

\* Between transactions the accounts, and the last answers, agree.
Agree ==
  /\ libPc = "idle"
  /\ libRecords = records /\ libInitialized = initialized
  /\ libReply = "ok" <=> reply = "ok"

\* In the loop of the guest the library waits with the same account.
GuestRuns ==
  /\ libPc = "idle"
  /\ libRecords = records /\ libInitialized = initialized /\ initialized
  /\ Good(batch) /\ Len(batch.cids) <= MaxBatchSize /\ i <= Len(batch.cids) + 1
  /\ \E w : Trace(batch, records, i, w) /\ w[i] = work

\* The guest has initialised; the library has not yet.
GuestInitialized ==
  /\ pc = "idle" /\ libPc = "idle"
  /\ libRecords = records /\ initialized
  /\ reply = "ok" <=> ~libInitialized

\* The guest did not get as far as its loop, and the library will not.
Refused ==
  /\ libPc = "idle"
  /\ ~libInitialized \/ Len(batch.cids) > MaxBatchSize
  /\ records = libRecords /\ reply # "ok"

\* The guest's loop ended at position n, with what makes the library's end
\* there too.
LoopEnded(n, w) ==
  LET len == Len(batch.cids) IN
  /\ n \in 1..(len + 1)
  /\ Trace(batch, libRecords, n, w)
  /\ \/ /\ reply = "ok"
        /\ n = len + 1 /\ Len(w[n]) <= Capacity
        /\ records = w[n]
     \/ /\ reply # "ok" /\ records = libRecords
        /\ \/ n <= len /\ batch.cids[n] \notin Cids
           \/ n = len + 1 /\ Len(w[n]) > Capacity
  /\ libPc = "loop" =>
       /\ libBatch = batch
       /\ libI \in 1..n
       /\ libWork = w[libI]
       /\ libKnown = CidsOf(libWork)

\* The guest has executed the batch; the library is at it.
LibraryRuns ==
  /\ pc = "idle" /\ libInitialized = initialized
  /\ Good(batch)
  /\ \/ Refused
     \/ /\ libInitialized /\ Len(batch.cids) <= MaxBatchSize
        /\ \E n, w : LoopEnded(n, w)

TwinsInv ==
  /\ turn \in {"guest", "initialize", "anchor_batch"}
  /\ libInitialized \in BOOLEAN
  /\ workload = "twins" /\ alike =>
       /\ turn = "guest" /\ pc = "idle" => Agree
       /\ turn = "guest" /\ pc = "loop" => GuestRuns
       /\ turn = "initialize" => GuestInitialized
       /\ turn = "anchor_batch" => LibraryRuns

-----------------------------------------------------------------------------
\* The steps of the guest are steps of the program.
LEMMA GuestIsRegistry == [TwinsNext]_twinVars => [Next]_vars
BY DEF TwinsNext, GuestInitialize, GuestBegin, GuestLoop, LibraryStep, Next, AnchorLoop,
       twinVars, vars

\* The library's helpers are those of the guest.
LEMMA LibCidsOf == ASSUME NEW rs PROVE Lib!CidsOf(rs) = CidsOf(rs)
BY DEF Lib!CidsOf, CidsOf, Lib!Range, Range

\* The fields of a batch without repetitions.
LEMMA GoodShape ==
  ASSUME NEW b, Good(b)
  PROVE  /\ b.cids \in Seq(Cids \cup BadCids)
         /\ b.hashes \in Seq(Hashes) /\ b.times \in Seq(Times)
         /\ Len(b.cids) \in Nat
         /\ DOMAIN b.cids = 1..Len(b.cids)
         /\ Len(b.hashes) = Len(b.cids) /\ Len(b.times) = Len(b.cids)
         /\ \A j, k \in 1..Len(b.cids) : b.cids[j] = b.cids[k] => j = k
         /\ \A j \in 1..Len(b.cids) :
              b.cids[j] \in Cids => EntryAt(b, j) \in Record /\ EntryAt(b, j).cid = b.cids[j]
<1>1. b \in Batches /\ Square(b) /\ Distinct(b)
  BY DEF Good, SquareBatches
<1>2. /\ b.cids \in Seq(Cids \cup BadCids)
      /\ b.hashes \in Seq(Hashes) /\ b.times \in Seq(Times)
  BY <1>1, BatchShape
<1>3. /\ DOMAIN b.cids = 1..Len(b.cids) /\ Len(b.cids) \in Nat
      /\ Len(b.hashes) = Len(b.cids) /\ Len(b.times) = Len(b.cids)
  BY <1>1, <1>2 DEF Square
<1>4. \A j, k \in 1..Len(b.cids) : b.cids[j] = b.cids[k] => j = k
  BY <1>1, <1>3 DEF Distinct
<1>5. ASSUME NEW j \in 1..Len(b.cids), b.cids[j] \in Cids
      PROVE  EntryAt(b, j) \in Record /\ EntryAt(b, j).cid = b.cids[j]
  BY <1>2, <1>3, <1>5 DEF EntryAt, Record
<1> QED
  BY <1>2, <1>3, <1>4, <1>5

\* At each position of a trace: the CID is in the copy exactly when the stored
\* list has it, since the batch does not repeat it.
LEMMA TraceKnows ==
  ASSUME NEW b, Good(b), NEW old, NEW n \in 1..(Len(b.cids) + 1), NEW w, Trace(b, old, n, w),
         NEW j \in 1..n, j <= Len(b.cids)
  PROVE  b.cids[j] \in CidsOf(w[j]) <=> b.cids[j] \in CidsOf(old)
<1>1. CidsOf(w[j]) = CidsOf(old) \cup {b.cids[l] : l \in 1..(j - 1)}
  BY DEF Trace
<1>2. \A l \in 1..(j - 1) : b.cids[l] # b.cids[j]
  BY GoodShape
<1> QED
  BY <1>1, <1>2

\* The CIDs of a list of records have 46 bytes.
LEMMA CidsOfRecords ==
  ASSUME NEW rs \in Seq(Record)
  PROVE  CidsOf(rs) \subseteq Cids
<1> SUFFICES ASSUME NEW c \in CidsOf(rs)
             PROVE  c \in Cids
  OBVIOUS
<1>1. PICK k \in 1..Len(rs) : rs[k].cid = c
  BY CidsOfSeq
<1>2. rs[k] \in Record
  OBVIOUS
<1> QED
  BY <1>1, <1>2 DEF Record

\* A trace goes on with one more position.
LEMMA TraceExtends ==
  ASSUME NEW b, Good(b), NEW old, NEW n \in 1..Len(b.cids), NEW w, Trace(b, old, n, w),
         b.cids[n] \in Cids
  PROVE  /\ Trace(b, old, n + 1, Longer(b, old, n, w))
         /\ Longer(b, old, n, w)[n + 1] = Visited(b, old, n, w[n])
<1> DEFINE next == Visited(b, old, n, w[n])
<1> DEFINE v == [j \in 1..(n + 1) |-> IF j <= n THEN w[j] ELSE next]
<1>0. v = Longer(b, old, n, w)
  BY DEF Longer
<1>1. n \in Nat /\ n >= 1 /\ n <= Len(b.cids) /\ w[n] \in Seq(Record)
  BY GoodShape DEF Trace
<1>2. EntryAt(b, n) \in Record /\ EntryAt(b, n).cid = b.cids[n]
  BY GoodShape
<1>3. next \in Seq(Record) /\ CidsOf(next) = CidsOf(w[n]) \cup {b.cids[n]}
  <2>1. CASE b.cids[n] \in CidsOf(old)
    <3>1. CidsOf(w[n]) = CidsOf(old) \cup {b.cids[l] : l \in 1..(n - 1)}
      BY <1>1 DEF Trace
    <3> QED
      BY <1>1, <2>1, <3>1 DEF Visited
  <2>2. CASE b.cids[n] \notin CidsOf(old)
    BY <1>1, <1>2, <2>2, CidsOfAppend DEF Visited
  <2> QED
    BY <2>1, <2>2
<1>4. v \in [1..(n + 1) -> Seq(Record)] /\ v[1] = old
  BY <1>1, <1>3 DEF Trace
<1>5. ASSUME NEW j \in 1..(n + 1 - 1)
      PROVE  /\ b.cids[j] \in Cids
             /\ v[j + 1] = Visited(b, old, j, v[j])
  <2>1. CASE j = n
    BY <1>1, <2>1
  <2>2. CASE j # n
    BY <1>1, <2>2 DEF Trace
  <2> QED
    BY <2>1, <2>2
<1>6. ASSUME NEW j \in 1..(n + 1)
      PROVE  CidsOf(v[j]) = CidsOf(old) \cup {b.cids[l] : l \in 1..(j - 1)}
  <2>1. CASE j = n + 1
    <3>1. CidsOf(w[n]) = CidsOf(old) \cup {b.cids[l] : l \in 1..(n - 1)}
      BY <1>1 DEF Trace
    <3>2. {b.cids[l] : l \in 1..(j - 1)} = {b.cids[l] : l \in 1..(n - 1)} \cup {b.cids[n]}
      <4>1. 1..(j - 1) = 1..(n - 1) \cup {n}
        BY <1>1, <2>1
      <4> QED
        BY <4>1
    <3>3. v[j] = next
      BY <1>1, <2>1
    <3> QED
      BY <1>3, <3>1, <3>2, <3>3
  <2>2. CASE j # n + 1
    BY <1>1, <2>2 DEF Trace
  <2> QED
    BY <2>1, <2>2
<1>7. v[n + 1] = next
  BY <1>1
<1>8. Trace(b, old, n + 1, v)
  <2> HIDE DEF v
  <2> QED
    BY <1>4, <1>5, <1>6 DEF Trace
<1> QED
  BY <1>0, <1>7, <1>8

\* The guest begins: before the first position the copy is the stored list.
LEMMA TraceBegins ==
  ASSUME NEW b, NEW old \in Seq(Record)
  PROVE  Trace(b, old, 1, [j \in 1..1 |-> old])
BY DEF Trace

-----------------------------------------------------------------------------
\* The guest initialises, or refuses to.
LEMMA StepGuestInitialize ==
  ASSUME TypeOK, TwinsInv, GuestInitialize
  PROVE  TwinsInv'
<1>1. /\ turn = "guest" /\ pc = "idle" /\ pc' = "idle" /\ records' = records /\ initialized'
      /\ turn' = (IF workload = "twins" THEN "initialize" ELSE turn)
      /\ UNCHANGED <<libVars, workload, alike>>
  BY DEF GuestInitialize, Initialize, End, Handover
<1>2. reply' = "ok" <=> ~initialized
  BY GuestAssumption DEF GuestInitialize, Initialize, End, TypeOK
<1>3. workload = "twins" /\ alike => GuestInitialized'
  BY <1>1, <1>2 DEF TwinsInv, Agree, GuestInitialized, libVars
<1> QED
  BY <1>1, <1>3 DEF TwinsInv, libVars

\* The guest takes a batch, and refuses it or enters its loop.
LEMMA StepGuestBegin ==
  ASSUME TypeOK, TwinsInv, NEW b \in Batches, GuestBegin(b)
  PROVE  TwinsInv'
<1>1. /\ turn = "guest" /\ pc = "idle" /\ batch' = b /\ UNCHANGED <<libVars, workload>>
      /\ alike' = (alike /\ Distinct(b))
  BY DEF GuestBegin, RejectOversized, RejectUninitialized, BeginAnchor, Reject
<1>2. turn' \in {"guest", "initialize", "anchor_batch"} /\ libInitialized' \in BOOLEAN
  BY <1>1 DEF GuestBegin, Handover, TwinsInv, libVars
<1>3. SUFFICES ASSUME workload' = "twins", alike'
               PROVE  /\ turn' = "guest" /\ pc' = "idle" => Agree'
                      /\ turn' = "guest" /\ pc' = "loop" => GuestRuns'
                      /\ turn' = "initialize" => GuestInitialized'
                      /\ turn' = "anchor_batch" => LibraryRuns'
  BY <1>2 DEF TwinsInv
<1>4. Agree /\ Good(b) /\ Good(batch')
  BY <1>1, <1>3 DEF TwinsInv, GuestBegin, Good
<1>5. CASE RejectOversized(b) \/ RejectUninitialized(b)
  <2>1. pc' = "idle" /\ turn' = "anchor_batch"
    BY <1>1, <1>3, <1>5 DEF GuestBegin, Handover, RejectOversized, RejectUninitialized, Reject, End
  <2>2. Refused' /\ libInitialized' = initialized'
    BY <1>1, <1>4, <1>5
       DEF Refused, Agree, RejectOversized, RejectUninitialized, Reject, End, libVars
  <2> QED
    BY <1>4, <2>1, <2>2 DEF LibraryRuns
<1>6. CASE BeginAnchor(b)
  <2>1. pc' = "loop" /\ turn' = "guest" /\ i' = 1 /\ work' = records /\ records' = records
        /\ initialized /\ initialized' = initialized /\ Len(b.cids) <= MaxBatchSize
    BY <1>1, <1>6 DEF GuestBegin, Handover, BeginAnchor
  <2> DEFINE w == [j \in 1..1 |-> records]
  <2>2. Trace(batch', records', i', w) /\ w[i'] = work'
    <3>1. Trace(batch', records, 1, w)
      BY TraceBegins DEF TypeOK
    <3> QED
      BY <2>1, <3>1
  <2>3. i' <= Len(batch'.cids) + 1
    BY <1>1, <1>4, <2>1, GoodShape
  <2> HIDE DEF w
  <2>4. GuestRuns'
    BY <1>1, <1>4, <2>1, <2>2, <2>3 DEF GuestRuns, Agree, libVars
  <2> QED
    BY <2>1, <2>4
<1> QED
  BY <1>5, <1>6 DEF GuestBegin

\* The guest visits one position of the batch, or ends.
LEMMA StepGuestLoop ==
  ASSUME TypeOK, LoopInv, TwinsInv, GuestLoop
  PROVE  TwinsInv'
<1>1. /\ turn = "guest" /\ pc = "loop" /\ batch' = batch /\ initialized' = initialized
      /\ UNCHANGED <<libVars, workload, alike>>
  BY DEF GuestLoop, AnchorLoop, RejectInvalidCid, SkipKnown, IndexPanic, Push, StateTooLarge,
         Commit, Fresh, InLoop, AtEnd, Fail
<1>2. turn' \in {"guest", "initialize", "anchor_batch"} /\ libInitialized' \in BOOLEAN
  BY <1>1 DEF GuestLoop, Handover, TwinsInv, libVars
<1>3. SUFFICES ASSUME workload = "twins", alike
               PROVE  /\ turn' = "guest" /\ pc' = "idle" => Agree'
                      /\ turn' = "guest" /\ pc' = "loop" => GuestRuns'
                      /\ turn' = "initialize" => GuestInitialized'
                      /\ turn' = "anchor_batch" => LibraryRuns'
  BY <1>1, <1>2 DEF TwinsInv
<1>4. GuestRuns
  BY <1>1, <1>3 DEF TwinsInv
<1>5. PICK w : Trace(batch, records, i, w) /\ w[i] = work
  BY <1>4 DEF GuestRuns
<1>6. /\ Good(batch) /\ i \in 1..(Len(batch.cids) + 1) /\ Len(batch.cids) \in Nat
      /\ known = CidsOf(records) /\ known \subseteq Cids /\ records \in Seq(Record)
  BY <1>1, <1>4, GoodShape, GuestAssumption DEF GuestRuns, TypeOK, LoopInv
<1>7. ASSUME pc' = "loop", i' = i + 1, i <= Len(batch.cids), records' = records,
             batch.cids[i] \in Cids,
             work' = Visited(batch, records, i, work)
      PROVE  GuestRuns' /\ turn' = "guest"
  <2>1. \E v : Trace(batch, records, i + 1, v) /\ v[i + 1] = work'
    <3>1. i \in 1..Len(batch.cids)
      BY <1>6, <1>7
    <3>2. Good(batch) /\ Trace(batch, records, i, w) /\ batch.cids[i] \in Cids
      BY <1>5, <1>6, <1>7
    <3>3. /\ Trace(batch, records, i + 1, Longer(batch, records, i, w))
          /\ Longer(batch, records, i, w)[i + 1] = Visited(batch, records, i, w[i])
      BY <3>1, <3>2, TraceExtends
    <3> QED
      BY <1>5, <1>7, <3>3
  <2>2. \E v : Trace(batch', records', i', v) /\ v[i'] = work'
    BY <1>1, <1>7, <2>1
  <2>3. i' <= Len(batch'.cids) + 1
    BY <1>1, <1>6, <1>7
  <2> QED
    BY <1>1, <1>4, <1>6, <1>7, <2>2, <2>3 DEF GuestRuns, libVars, GuestLoop, Handover
<1>8. ASSUME pc' = "idle",
             \/ reply' = "ok" /\ i = Len(batch.cids) + 1 /\ Len(work) <= Capacity /\ records' = work
             \/ /\ reply' # "ok" /\ records' = records
                /\ \/ i <= Len(batch.cids) /\ batch.cids[i] \notin Cids
                   \/ i = Len(batch.cids) + 1 /\ Len(work) > Capacity
      PROVE  LibraryRuns' /\ turn' = "anchor_batch"
  <2>1. turn' = "anchor_batch"
    BY <1>1, <1>3, <1>8 DEF GuestLoop, Handover
  <2>2. libPc' = "idle" /\ libRecords' = records /\ libInitialized' = initialized /\ libInitialized'
    BY <1>1, <1>4 DEF GuestRuns, libVars
  <2>3. PICK n : n = i
    OBVIOUS
  <2>4. LoopEnded(n, w)'
    BY <1>1, <1>5, <1>6, <1>8, <2>2, <2>3 DEF LoopEnded
  <2>5. Len(batch'.cids) <= MaxBatchSize /\ Good(batch')
    BY <1>1, <1>4 DEF GuestRuns
  <2> QED
    BY <1>1, <1>8, <2>1, <2>2, <2>4, <2>5 DEF LibraryRuns
<1>9. CASE RejectInvalidCid
  BY <1>8, <1>9 DEF RejectInvalidCid, InLoop, Fail, End
<1>10. CASE SkipKnown
  <2>1. /\ pc' = "loop" /\ i' = i + 1 /\ i <= Len(batch.cids) /\ records' = records
        /\ work' = work /\ batch.cids[i] \in known
    BY <1>1, <1>10 DEF SkipKnown, InLoop
  <2> QED
    BY <1>6, <1>7, <2>1 DEF Visited
<1>11. CASE IndexPanic
  BY <1>6, <1>11, GoodShape DEF IndexPanic, Fresh, InLoop
<1>12. CASE Push
  <2>1. /\ pc' = "loop" /\ i' = i + 1 /\ i <= Len(batch.cids) /\ records' = records
        /\ batch.cids[i] \in Cids /\ batch.cids[i] \notin known
        /\ work' = Append(work, EntryAt(batch, i))
    BY <1>1, <1>12 DEF Push, Fresh, InLoop, Entry, EntryAt
  <2> QED
    BY <1>6, <1>7, <2>1 DEF Visited
<1>13. CASE StateTooLarge
  BY <1>6, <1>8, <1>13 DEF StateTooLarge, AtEnd, Fail, End
<1>14. CASE Commit
  BY <1>6, <1>8, <1>14 DEF Commit, AtEnd, End
<1> QED
  BY <1>9, <1>10, <1>11, <1>12, <1>13, <1>14 DEF GuestLoop, AnchorLoop

\* The library initialises, or panics, after the guest did.
LEMMA StepLibraryInitialize ==
  ASSUME TypeOK, TwinsInv, LibraryStep, turn = "initialize"
  PROVE  TwinsInv'
<1>1. /\ Lib!Initialize /\ UNCHANGED <<vars, workload, alike>>
      /\ turn' = IF libPc' = "idle" THEN "guest" ELSE turn
  BY DEF LibraryStep
<1>2. /\ libPc' = "idle" /\ libRecords' = libRecords /\ libInitialized' = TRUE
      /\ turn' = "guest"
  BY <1>1 DEF Lib!Initialize, Lib!End
<1>3. libReply' = "ok" <=> ~libInitialized
  BY <1>1 DEF Lib!Initialize, Lib!End, TwinsInv
<1> QED
  BY <1>1, <1>2, <1>3 DEF TwinsInv, GuestInitialized, Agree, vars, TypeOK

\* The library executes a step of the batch the guest has executed.
LEMMA StepLibraryAnchor ==
  ASSUME TypeOK, TwinsInv, LibraryStep, turn = "anchor_batch"
  PROVE  TwinsInv'
<1>1. /\ UNCHANGED <<vars, workload, alike>>
      /\ turn' = IF libPc' = "idle" THEN "guest" ELSE turn
  BY DEF LibraryStep
<1>2. \/ Lib!RejectOversized(batch) \/ Lib!RejectUninitialized(batch)
      \/ Lib!BeginAnchor(batch) \/ Lib!AnchorLoop
  BY DEF LibraryStep
<1>3. libInitialized' = libInitialized
  BY <1>2 DEF Lib!RejectOversized, Lib!RejectUninitialized, Lib!BeginAnchor, Lib!Reject,
              Lib!AnchorLoop, Lib!RejectInvalidCid, Lib!SkipKnown, Lib!IndexPanic, Lib!Push,
              Lib!StateTooLarge, Lib!Commit, Lib!Fail
<1>4. turn' \in {"guest", "anchor_batch"} /\ libInitialized' \in BOOLEAN
  BY <1>1, <1>3 DEF TwinsInv
<1>5. SUFFICES ASSUME workload = "twins", alike
               PROVE  /\ turn' = "guest" /\ pc' = "idle" => Agree'
                      /\ turn' = "guest" /\ pc' = "loop" => GuestRuns'
                      /\ turn' = "anchor_batch" => LibraryRuns'
  BY <1>1, <1>4 DEF TwinsInv
<1>6. LibraryRuns /\ pc' = "idle" /\ libInitialized' = initialized' /\ batch' = batch
      /\ records' = records /\ reply' = reply
  BY <1>1, <1>3, <1>5 DEF TwinsInv, LibraryRuns, vars
<1>7. ASSUME libPc' = "idle", libRecords' = records, libReply' = "ok" <=> reply = "ok"
      PROVE  turn' = "guest" /\ Agree'
  BY <1>1, <1>6, <1>7 DEF Agree
<1>8. CASE Refused
  <2>1. Lib!RejectOversized(batch) \/ Lib!RejectUninitialized(batch)
    BY <1>2, <1>6, <1>8, ConstAssumption, GoodShape
       DEF Refused, LibraryRuns, Lib!BeginAnchor, Lib!AnchorLoop, Lib!RejectInvalidCid,
           Lib!SkipKnown, Lib!IndexPanic, Lib!Push, Lib!StateTooLarge, Lib!Commit, Lib!InLoop, Lib!AtEnd, Lib!Fresh
  <2>2. libPc' = "idle" /\ libRecords' = libRecords /\ libReply' # "ok"
    BY <2>1 DEF Lib!RejectOversized, Lib!RejectUninitialized, Lib!Reject, Lib!End
  <2> QED
    BY <1>4, <1>6, <1>7, <1>8, <2>2 DEF Refused
<1>9. ASSUME libInitialized, Len(batch.cids) <= MaxBatchSize, NEW n, NEW w, LoopEnded(n, w)
      PROVE  (turn' = "guest" /\ Agree') \/ (turn' = "anchor_batch" /\ LibraryRuns')
  <2> DEFINE len == Len(batch.cids)
  <2>1. /\ Good(batch) /\ len \in Nat /\ n \in 1..(len + 1)
        /\ Trace(batch, libRecords, n, w)
        /\ \A k \in 1..n : w[k] \in Seq(Record)
    BY <1>6, <1>9, GoodShape DEF LibraryRuns, LoopEnded, Trace
  <2>2. ASSUME NEW k \in 1..n, libPc' = "loop", libBatch' = batch, libI' = k, libWork' = w[k],
               libKnown' = CidsOf(w[k]), libRecords' = libRecords
        PROVE  turn' = "anchor_batch" /\ LibraryRuns'
    <3>1. LoopEnded(n, w)'
      BY <1>6, <1>9, <2>2 DEF LoopEnded
    <3> QED
      <4>1. turn' = "anchor_batch"
        BY <1>1, <2>2
      <4>2. \E m, v : LoopEnded(m, v)'
        BY <3>1
      <4>3. pc' = "idle" /\ Good(batch') /\ libInitialized' = initialized'
        BY <1>6, <2>1
      <4>4. Len(batch'.cids) <= MaxBatchSize
        BY <1>6, <1>9
      <4>5. libInitialized'
        BY <1>3, <1>9
      <4> QED
        BY <4>1, <4>2, <4>3, <4>4, <4>5 DEF LibraryRuns
  <2>3. CASE Lib!RejectOversized(batch) \/ Lib!RejectUninitialized(batch)
    BY <1>9, <2>1, <2>3, ConstAssumption DEF Lib!RejectOversized, Lib!RejectUninitialized
  <2>4. CASE Lib!BeginAnchor(batch)
    <3>1. /\ libPc' = "loop" /\ libBatch' = batch /\ libI' = 1 /\ libWork' = libRecords
          /\ libKnown' = CidsOf(libRecords) /\ libRecords' = libRecords
      BY <2>4, LibCidsOf DEF Lib!BeginAnchor
    <3>2. w[1] = libRecords /\ 1 \in 1..n
      BY <2>1 DEF Trace
    <3> QED
      BY <2>2, <3>1, <3>2
  <2>5. CASE Lib!AnchorLoop
    <3>1. libPc = "loop"
      BY <2>5 DEF Lib!AnchorLoop, Lib!RejectInvalidCid, Lib!SkipKnown, Lib!IndexPanic, Lib!Push,
                  Lib!StateTooLarge, Lib!Commit, Lib!InLoop, Lib!AtEnd, Lib!Fresh
    <3>2. /\ libBatch = batch /\ libI \in 1..n /\ libWork = w[libI]
          /\ libKnown = CidsOf(libWork) /\ libWork \in Seq(Record)
      BY <1>9, <2>1, <3>1 DEF LoopEnded
    \* The library stops where the guest did, not before.
    <3>3. ASSUME libI <= len, batch.cids[libI] \in Cids
          PROVE  libI + 1 \in 1..n
      BY <1>9, <2>1, <3>2, <3>3 DEF LoopEnded
    <3>4. CASE Lib!RejectInvalidCid
      <4>1. libI <= len /\ batch.cids[libI] \notin Cids
        BY <3>2, <3>4 DEF Lib!RejectInvalidCid, Lib!InLoop
      <4>2. libI = n
        BY <2>1, <3>2, <4>1 DEF Trace
      <4>3. reply # "ok" /\ records = libRecords
        BY <1>9, <2>1, <4>1, <4>2 DEF LoopEnded
      <4> QED
        BY <1>7, <3>4, <4>3 DEF Lib!RejectInvalidCid, Lib!Fail, Lib!End
    <3>5. CASE Lib!SkipKnown
      <4>1. libI <= len /\ batch.cids[libI] \in libKnown
        BY <3>2, <3>5 DEF Lib!SkipKnown, Lib!InLoop
      <4>2. batch.cids[libI] \in Cids
        BY <3>2, <4>1, CidsOfRecords
      <4>3. libI + 1 \in 1..n
        BY <3>3, <4>1, <4>2
      <4>4. batch.cids[libI] \in CidsOf(libRecords)
        BY <2>1, <3>2, <4>1, TraceKnows
      <4>5. w[libI + 1] = w[libI]
        BY <2>1, <3>2, <4>3, <4>4 DEF Trace, Visited
      <4>6. /\ libPc' = "loop" /\ libBatch' = batch /\ libI' = libI + 1 /\ libWork' = libWork
            /\ libKnown' = libKnown /\ libRecords' = libRecords
        BY <3>1, <3>2, <3>5 DEF Lib!SkipKnown
      <4> QED
        BY <2>2, <3>2, <4>3, <4>5, <4>6
    <3>6. CASE Lib!IndexPanic
      BY <2>1, <3>2, <3>6, GoodShape DEF Lib!IndexPanic, Lib!Fresh, Lib!InLoop
    <3>7. CASE Lib!Push
      <4>1. libI <= len /\ batch.cids[libI] \in Cids /\ batch.cids[libI] \notin libKnown
        BY <3>2, <3>7 DEF Lib!Push, Lib!Fresh, Lib!InLoop
      <4>2. libI + 1 \in 1..n
        BY <3>3, <4>1
      <4>3. batch.cids[libI] \notin CidsOf(libRecords)
        BY <2>1, <3>2, <4>1, TraceKnows
      <4>4. w[libI + 1] = Append(w[libI], EntryAt(batch, libI))
        <5>1. libI \in 1..(n - 1)
          BY <2>1, <3>2, <4>2
        <5> QED
          BY <2>1, <3>2, <4>3, <5>1 DEF Trace, Visited
      <4>5. /\ libPc' = "loop" /\ libBatch' = batch /\ libI' = libI + 1
            /\ libWork' = Append(libWork, EntryAt(batch, libI))
            /\ libKnown' = libKnown \cup {batch.cids[libI]} /\ libRecords' = libRecords
        BY <3>1, <3>2, <3>7 DEF Lib!Push, Lib!Entry, EntryAt
      <4>6. EntryAt(batch, libI) \in Record /\ EntryAt(batch, libI).cid = batch.cids[libI]
        BY <2>1, <3>2, <4>1, GoodShape
      <4>7. libKnown' = CidsOf(libWork')
        BY <3>2, <4>5, <4>6, CidsOfAppend
      <4> QED
        BY <2>2, <3>2, <4>2, <4>4, <4>5, <4>7
    <3>8. CASE Lib!StateTooLarge
      <4>1. libI = n /\ n = len + 1 /\ Len(w[n]) > Capacity
        BY <2>1, <3>2, <3>8 DEF Lib!StateTooLarge, Lib!AtEnd
      <4>2. reply # "ok" /\ records = libRecords
        <5>1. Len(w[n]) \in Nat
          BY <2>1
        <5> QED
          BY <1>9, <2>1, <4>1, <5>1, ConstAssumption DEF LoopEnded
      <4> QED
        BY <1>7, <3>8, <4>2 DEF Lib!StateTooLarge, Lib!Fail, Lib!End
    <3>9. CASE Lib!Commit
      <4>1. libI = n /\ n = len + 1 /\ Len(w[n]) <= Capacity
        BY <2>1, <3>2, <3>9 DEF Lib!Commit, Lib!AtEnd
      <4>2. reply = "ok" /\ records = w[n]
        <5>1. Len(w[n]) \in Nat
          BY <2>1
        <5> QED
          BY <1>9, <2>1, <4>1, <5>1, ConstAssumption DEF LoopEnded
      <4> QED
        BY <1>7, <3>2, <3>9, <4>1, <4>2 DEF Lib!Commit, Lib!End
    <3> QED
      BY <2>5, <3>4, <3>5, <3>6, <3>7, <3>8, <3>9 DEF Lib!AnchorLoop
  <2> QED
    BY <1>2, <2>3, <2>4, <2>5
<1>10. turn' = "guest" \/ turn' = "anchor_batch"
  BY <1>4
<1> QED
  BY <1>6, <1>8, <1>9, <1>10 DEF LibraryRuns

\* Nothing moves.
LEMMA StepTwinsStutter == TwinsInv /\ UNCHANGED twinVars => TwinsInv'
BY DEF TwinsInv, twinVars, vars, libVars, Agree, GuestRuns, GuestInitialized, Refused, LoopEnded,
       LibraryRuns

\* The tests of the library speak for the guest: as long as no batch repeats a
\* CID, both end every transaction with the same account, and one accepts what
\* the other accepts.
THEOREM TwinsAgree == TwinsSpec => []SameAccount
<1>1. TwinsInit => IInv /\ TwinsInv
  <2>1. TwinsInit => IInv
    BY InitIInv DEF TwinsInit
  <2>2. TwinsInit => TwinsInv
    BY DEF TwinsInit, Init, Lib!Init, TwinsInv, Agree
  <2> QED
    BY <2>1, <2>2
<1>2. IInv /\ TwinsInv /\ [TwinsNext]_twinVars => (IInv /\ TwinsInv)'
  <2> SUFFICES ASSUME IInv, TwinsInv, [TwinsNext]_twinVars
               PROVE  IInv' /\ TwinsInv'
    OBVIOUS
  <2>1. IInv'
    BY GuestIsRegistry, NextIInv
  <2>2. TypeOK /\ LoopInv
    BY DEF IInv
  <2>3. ASSUME LibraryStep
        PROVE  TwinsInv'
    BY <2>2, <2>3, StepLibraryInitialize, StepLibraryAnchor DEF LibraryStep
  <2>4. TwinsInv'
    BY <2>2, <2>3, StepGuestInitialize, StepGuestBegin, StepGuestLoop, StepTwinsStutter
       DEF TwinsNext
  <2> QED
    BY <2>1, <2>4
<1>3. TwinsInv => SameAccount
  BY DEF TwinsInv, Agree, SameAccount
<1> QED
  BY <1>1, <1>2, <1>3, PTL DEF TwinsSpec
-----------------------------------------------------------------------------
\* A list has as many records as BatchAnchor counts from its copies.
Filled(rs) ==
  /\ IsFiniteSet(Tool!RecordsOf(Copies(rs)))
  /\ Cardinality(Tool!RecordsOf(Copies(rs))) = Len(rs)

\* In the loop the instruction's copy holds what BatchAnchor says of the
\* positions visited, and both lists have the length BatchAnchor counts.
ChainInv ==
  /\ Filled(records)
  /\ pc = "loop" => /\ initialized
                    /\ Len(batch.cids) <= MaxBatchSize
                    /\ Filled(work)
                    /\ Copies(work) = Tool!NewCopies(1..(i - 1))

\* A set that gains one element counts one more.
LEMMA OneElementMore ==
  ASSUME NEW S, IsFiniteSet(S), NEW x, x \notin S, NEW T, T = S \cup {x}
  PROVE  IsFiniteSet(T) /\ Cardinality(T) = Cardinality(S) + 1
BY FS_AddElement

\* The copies of a CID can be counted, and there is one exactly when the list
\* has the CID.
LEMMA CopiesFacts ==
  ASSUME NEW rs \in Seq(Record)
  PROVE  /\ Copies(rs) \in [Cids -> Nat]
         /\ \A c \in Cids : Copies(rs)[c] > 0 <=> c \in CidsOf(rs)
<1>1. IsFiniteSet(DOMAIN rs) /\ DOMAIN rs = 1..Len(rs)
  BY FS_Interval
<1>2. ASSUME NEW c \in Cids, NEW same, same = {k \in DOMAIN rs : rs[k].cid = c}
      PROVE  /\ Cardinality(same) \in Nat
             /\ Cardinality(same) > 0 <=> c \in CidsOf(rs)
  <2>1. IsFiniteSet(same)
    BY <1>1, <1>2, FS_Subset
  <2>2. Cardinality(same) \in Nat /\ (Cardinality(same) = 0 <=> same = {})
    BY <2>1, FS_CardinalityType, FS_EmptySet
  <2>3. same # {} <=> c \in CidsOf(rs)
    BY <1>1, <1>2, CidsOfSeq
  <2> QED
    BY <2>2, <2>3
<1> QED
  BY <1>2 DEF Copies

\* Appending a record adds one copy of its CID.
LEMMA CopiesAppend ==
  ASSUME NEW rs \in Seq(Record), NEW r \in Record
  PROVE  Copies(Append(rs, r)) = [Copies(rs) EXCEPT ![r.cid] = @ + 1]
<1> DEFINE as == Append(rs, r)
           At(s, c) == {k \in DOMAIN s : s[k].cid = c}
<1>1. /\ DOMAIN as = DOMAIN rs \cup {Len(rs) + 1}
      /\ Len(rs) + 1 \notin DOMAIN rs
      /\ \A k \in DOMAIN rs : as[k] = rs[k]
      /\ as[Len(rs) + 1] = r
  OBVIOUS
<1>2. IsFiniteSet(DOMAIN rs)
  BY FS_Interval
<1> HIDE DEF as
<1>3. r.cid \in Cids
  BY DEF Record
<1>4. ASSUME NEW c \in Cids
      PROVE  Cardinality(At(as, c)) = IF c = r.cid THEN Cardinality(At(rs, c)) + 1
                                                  ELSE Cardinality(At(rs, c))
  <2>1. IsFiniteSet(At(rs, c))
    BY <1>2, FS_Subset
  <2>2. CASE c = r.cid
    <3>1. At(as, c) = At(rs, c) \cup {Len(rs) + 1} /\ Len(rs) + 1 \notin At(rs, c)
      BY <1>1, <2>2
    <3> QED
      BY <2>1, <2>2, <3>1, OneElementMore
  <2>3. CASE c # r.cid
    <3>1. At(as, c) = At(rs, c)
      BY <1>1, <2>3
    <3> QED
      BY <2>3, <3>1
  <2> QED
    BY <2>2, <2>3
<1>5. Copies(as) = [c \in Cids |-> Cardinality(At(as, c))]
      /\ Copies(rs) = [c \in Cids |-> Cardinality(At(rs, c))]
  BY DEF Copies
<1> HIDE DEF At
<1>6. Copies(as) = [Copies(rs) EXCEPT ![r.cid] = @ + 1]
  BY <1>3, <1>4, <1>5
<1> QED
  BY <1>6 DEF as

\* One copy more is one record more.
LEMMA OneRecordMore ==
  ASSUME NEW f \in [Cids -> Nat], NEW c \in Cids, IsFiniteSet(Tool!RecordsOf(f)),
         NEW g, g = [f EXCEPT ![c] = @ + 1]
  PROVE  /\ IsFiniteSet(Tool!RecordsOf(g))
         /\ Cardinality(Tool!RecordsOf(g)) = Cardinality(Tool!RecordsOf(f)) + 1
<1>1. <<c, f[c] + 1>> \notin Tool!RecordsOf(f)
  BY DEF Tool!RecordsOf
<1>2. Tool!RecordsOf(g) = Tool!RecordsOf(f) \cup {<<c, f[c] + 1>>}
  <2>1. ASSUME NEW d \in Cids
        PROVE  g[d] = IF d = c THEN f[c] + 1 ELSE f[d]
    OBVIOUS
  <2>2. 1..(f[c] + 1) = 1..f[c] \cup {f[c] + 1}
    OBVIOUS
  <2>3. ASSUME NEW d \in Cids
        PROVE  {d} \X (1..g[d]) = IF d = c THEN ({d} \X (1..f[d])) \cup {<<c, f[c] + 1>>}
                                           ELSE {d} \X (1..f[d])
    BY <2>1, <2>2
  <2> QED
    BY <2>3 DEF Tool!RecordsOf
<1> QED
  BY <1>1, <1>2, OneElementMore

\* A list that is one record longer still has the length BatchAnchor counts.
LEMMA FilledAppend ==
  ASSUME NEW rs \in Seq(Record), NEW r \in Record, Filled(rs)
  PROVE  Filled(Append(rs, r))
<1>1. r.cid \in Cids /\ Copies(rs) \in [Cids -> Nat]
  BY CopiesFacts DEF Record
<1>2. Copies(Append(rs, r)) = [Copies(rs) EXCEPT ![r.cid] = @ + 1]
  BY CopiesAppend
<1>3. Len(Append(rs, r)) = Len(rs) + 1
  OBVIOUS
<1> QED
  BY <1>1, <1>2, <1>3, OneRecordMore DEF Filled
-----------------------------------------------------------------------------
\* Both modules count with the same operator.
LEMMA ToolCardinality == ASSUME NEW S PROVE Tool!Cardinality(S) = Cardinality(S)
BY DEF Tool!Cardinality, Cardinality

\* One position further: a CID that is on chain, or has not 46 bytes, changes
\* no count; another is counted once more.
LEMMA NewCopiesStep ==
  ASSUME TypeOK, i \in 1..Len(batch.cids), NEW c, c = batch.cids[i]
  PROVE  /\ c \in CidsOf(records) \/ c \notin Cids
              => Tool!NewCopies(1..i) = Tool!NewCopies(1..(i - 1))
         /\ c \in Cids \ CidsOf(records)
              => Tool!NewCopies(1..i) = [Tool!NewCopies(1..(i - 1)) EXCEPT ![c] = @ + 1]
<1> DEFINE At(n, d) == {k \in 1..n : batch.cids[k] = d}
<1>1. \A d \in Cids : Copies(records)[d] > 0 <=> d \in CidsOf(records)
  BY CopiesFacts DEF TypeOK
<1>2. i \in Nat /\ 1..i = 1..(i - 1) \cup {i} /\ i \notin 1..(i - 1)
  BY DEF TypeOK
<1>3. ASSUME NEW d \in Cids
      PROVE  Cardinality(At(i, d)) = IF d = c THEN Cardinality(At(i - 1, d)) + 1
                                              ELSE Cardinality(At(i - 1, d))
  <2>1. IsFiniteSet(At(i - 1, d))
    <3>1. IsFiniteSet(1..(i - 1))
      BY <1>2, FS_Interval
    <3> QED
      BY <3>1, FS_Subset
  <2>2. CASE d = c
    <3>1. At(i, d) = At(i - 1, d) \cup {i} /\ i \notin At(i - 1, d)
      BY <1>2, <2>2
    <3> QED
      BY <2>1, <2>2, <3>1, OneElementMore
  <2>3. CASE d # c
    <3>1. At(i, d) = At(i - 1, d)
      BY <1>2, <2>3
    <3> QED
      BY <2>3, <3>1
  <2> QED
    BY <2>2, <2>3
<1>4. ASSUME NEW n
      PROVE  Tool!NewCopies(1..n) =
               [d \in Cids |-> IF d \in CidsOf(records) THEN Copies(records)[d]
                                                        ELSE Cardinality(At(n, d))]
  BY <1>1, ToolCardinality DEF Tool!NewCopies, Tool!OnChain
<1> HIDE DEF At
<1>5. Tool!NewCopies(1..i) = [d \in Cids |-> IF d \in CidsOf(records) THEN Copies(records)[d]
                                                        ELSE Cardinality(At(i, d))]
  BY <1>4
<1>6. Tool!NewCopies(1..(i - 1)) =
        [d \in Cids |-> IF d \in CidsOf(records) THEN Copies(records)[d]
                                                 ELSE Cardinality(At(i - 1, d))]
  BY <1>4
<1> QED
  BY <1>3, <1>5, <1>6

\* Before the first position the batch adds nothing.
LEMMA CountNone ==
  ASSUME NEW rs \in Seq(Record), NEW f
  PROVE  [c \in Cids |-> IF Copies(rs)[c] > 0 THEN Copies(rs)[c]
                         ELSE Cardinality({k \in 1..0 : f[k] = c})] = Copies(rs)
<1>1. ASSUME NEW c \in Cids
      PROVE  Cardinality({k \in 1..0 : f[k] = c}) = 0
  <2>1. {k \in 1..0 : f[k] = c} = {}
    OBVIOUS
  <2> QED
    BY <2>1, FS_EmptySet
<1>2. Copies(rs) \in [Cids -> Nat]
  BY CopiesFacts
<1> HIDE DEF Copies
<1> QED
  BY <1>1, <1>2

\* Later in the loop BatchAnchor still compares with the same account.
LEMMA OneFurther ==
  ASSUME TypeOK, i' = i + 1, records' = records, batch' = batch
  PROVE  Tool!NewCopies(1..(i - 1))' = Tool!NewCopies(1..i)
<1>1. i' - 1 = i
  BY DEF TypeOK
<1> QED
  BY <1>1 DEF Tool!NewCopies, Tool!OnChain

\* At the start the account is empty.
LEMMA InitChainInv == Init => ChainInv
<1> SUFFICES ASSUME Init
             PROVE  Filled(records)
  BY DEF ChainInv, Init
<1>1. records = <<>>
  BY DEF Init
<1>2. Tool!RecordsOf(Copies(records)) = {}
  <2>1. ASSUME NEW c \in Cids
        PROVE  Copies(records)[c] = 0
    <3>1. {k \in DOMAIN records : records[k].cid = c} = {}
      BY <1>1
    <3> QED
      BY <3>1, FS_EmptySet DEF Copies
  <2> QED
    BY <2>1 DEF Tool!RecordsOf
<1> QED
  BY <1>1, <1>2, FS_EmptySet DEF Filled

\* Every step keeps the count.
LEMMA NextChainInv == IInv /\ ChainInv /\ [Next]_vars => ChainInv'
<1> SUFFICES ASSUME IInv, ChainInv, [Next]_vars
             PROVE  ChainInv'
  OBVIOUS
<1>1. TypeOK /\ LoopInv
  BY DEF IInv
<1>2. CASE pc' = "idle" /\ records' = records
  BY <1>2 DEF ChainInv
<1>3. ASSUME NEW b \in Batches, BeginAnchor(b)
      PROVE  ChainInv'
  <2>1. /\ pc' = "loop" /\ records' = records /\ work' = records /\ i' = 1 /\ batch' = b
        /\ initialized' /\ Len(b.cids) <= MaxBatchSize
    BY <1>3 DEF BeginAnchor
  <2>2. Tool!NewCopies(1..0)' = Copies(records')
    BY <1>1, <2>1, CountNone, ToolCardinality DEF Tool!NewCopies, Tool!OnChain, TypeOK
  <2>3. Tool!NewCopies(1..(i - 1))' = Tool!NewCopies(1..0)'
    BY <2>1 DEF Tool!NewCopies, Tool!OnChain
  <2> QED
    BY <2>1, <2>2, <2>3 DEF ChainInv
<1>4. CASE SkipKnown
  <2>1. /\ pc = "loop" /\ i \in 1..Len(batch.cids) /\ i' = i + 1
        /\ UNCHANGED <<initialized, records, pc, batch, work>> /\ batch.cids[i] \in known
    BY <1>1, <1>4 DEF SkipKnown, InLoop, TypeOK
  <2>2. Tool!NewCopies(1..i) = Tool!NewCopies(1..(i - 1))
    BY <1>1, <2>1, NewCopiesStep, GuestAssumption DEF LoopInv
  <2> QED
    BY <2>1, <2>2, <1>1, OneFurther DEF ChainInv
<1>5. CASE Push
  <2>1. /\ pc = "loop" /\ i \in 1..Len(batch.cids) /\ i' = i + 1
        /\ UNCHANGED <<initialized, records, pc, batch>> /\ batch.cids[i] \in Cids \ known
        /\ work' = Append(work, Entry(i))
    BY <1>1, <1>5 DEF Push, Fresh, InLoop, TypeOK
  <2>2. Tool!NewCopies(1..i) = [Tool!NewCopies(1..(i - 1)) EXCEPT ![batch.cids[i]] = @ + 1]
    BY <1>1, <2>1, NewCopiesStep, GuestAssumption DEF LoopInv
  <2>3. Entry(i) \in Record /\ Entry(i).cid = batch.cids[i] /\ work \in Seq(Record)
    <3>1. batch.hashes[i] \in Hashes /\ batch.times[i] \in Times
      BY <1>1, <1>5, <2>1, BatchShape DEF Push, TypeOK
    <3> QED
      BY <1>1, <2>1, <3>1 DEF Entry, Record, TypeOK
  <2>4. Filled(work') /\ Copies(work') = Tool!NewCopies(1..i)
    BY <2>1, <2>2, <2>3, FilledAppend, CopiesAppend DEF ChainInv
  <2> QED
    BY <2>1, <2>4, <1>1, OneFurther DEF ChainInv
<1>6. CASE Commit
  <2>1. pc' = "idle" /\ records' = work
    BY <1>6 DEF Commit, End
  <2>2. Filled(work)
    BY <1>6 DEF Commit, AtEnd, ChainInv
  <2> QED
    BY <2>1, <2>2 DEF ChainInv
<1>7. CASE UNCHANGED vars
  BY <1>7 DEF vars, ChainInv, Tool!NewCopies, Tool!OnChain
<1> QED
  BY <1>2, <1>3, <1>4, <1>5, <1>6, <1>7
     DEF Next, AnchorLoop, Initialize, RejectOversized, RejectUninitialized, Reject,
         RejectInvalidCid, IndexPanic, StateTooLarge, Fail, End

\* The instruction ends after the last position: it cannot have met an
\* invalid CID or a vector that is too short.
LEMMA ChainStepAgrees ==
  ASSUME IInv, ChainInv, Next, pc = "loop", pc' = "idle", SentByTool
  PROVE  /\ reply' = "ok" <=> ToolAccepts
         /\ Copies(records') = IF ToolAccepts THEN Tool!NewCopies(DOMAIN batch.cids)
                                              ELSE Copies(records)
<1>1. TypeOK /\ LoopInv
  BY DEF IInv
<1>2. /\ Len(batch.cids) \in Nat /\ DOMAIN batch.cids = 1..Len(batch.cids)
      /\ Len(batch.hashes) = Len(batch.cids) /\ Len(batch.times) = Len(batch.cids)
      /\ \A k \in 1..Len(batch.cids) : batch.cids[k] \in Cids
  BY <1>1, BatchShape DEF TypeOK, SentByTool, Square
<1>3. AnchorLoop
  BY DEF Next, Initialize, RejectOversized, RejectUninitialized, BeginAnchor, Reject
<1>4. ~RejectInvalidCid /\ ~IndexPanic /\ ~SkipKnown /\ ~Push
  BY <1>1, <1>2 DEF RejectInvalidCid, IndexPanic, SkipKnown, Push, Fresh, InLoop, TypeOK
<1>5. i = Len(batch.cids) + 1
  BY <1>1, <1>2, <1>3, <1>4 DEF AnchorLoop, StateTooLarge, Commit, AtEnd, LoopInv, TypeOK
<1> DEFINE sent == DOMAIN batch.cids
<1>6. Tool!NewCopies(sent) = Copies(work)
  <2>1. 1..(i - 1) = sent
    BY <1>2, <1>5
  <2> QED
    BY <2>1 DEF ChainInv
<1>7. ToolAccepts <=> Len(work) <= Capacity
  <2>1. Cardinality(sent) = Len(batch.cids) /\ Len(batch.cids) <= MaxBatchSize
    <3>1. Cardinality(1..Len(batch.cids)) = Len(batch.cids)
      BY <1>2, FS_Interval
    <3> QED
      BY <1>2, <3>1 DEF ChainInv
  <2>2. Cardinality(Tool!RecordsOf(Tool!NewCopies(sent))) = Len(work)
    BY <1>6 DEF ChainInv, Filled
  <2>3. initialized
    BY DEF ChainInv
  <2>4. ToolAccepts <=> Tool!Accepts(sent)
    BY DEF ToolAccepts
  <2> HIDE DEF sent
  <2> QED
    BY <2>1, <2>2, <2>3, <2>4, ToolCardinality DEF Tool!Accepts
<1>8. Len(work) \in Nat /\ Capacity \in Nat
  BY <1>1, ConstAssumption DEF TypeOK
<1>9. CASE StateTooLarge
  <2>1. ~(Len(work) <= Capacity) /\ reply' # "ok" /\ records' = records
    BY <1>8, <1>9 DEF StateTooLarge, Fail, End
  <2> QED
    BY <1>7, <2>1
<1>10. CASE Commit
  <2>1. Len(work) <= Capacity /\ reply' = "ok" /\ records' = work
    BY <1>10 DEF Commit, End
  <2> QED
    BY <1>6, <1>7, <2>1
<1> QED
  BY <1>3, <1>4, <1>9, <1>10 DEF AnchorLoop

\* A batch of the tool that never reaches the loop is too long, or nobody has
\* initialised the registry.
LEMMA RefusalAgrees ==
  ASSUME IInv, Next, RefusedAtOnce, SentByTool'
  PROVE  ~ToolAccepts' /\ records' = records
<1>1. PICK b \in Batches : RejectOversized(b) \/ RejectUninitialized(b)
  BY DEF Next, RefusedAtOnce, Initialize, End, BeginAnchor, AnchorLoop, RejectInvalidCid,
         SkipKnown, IndexPanic, Push, Fresh, StateTooLarge, Commit, InLoop, AtEnd
<1>2. batch' = b /\ records' = records /\ initialized' = initialized
  BY <1>1 DEF RejectOversized, RejectUninitialized, Reject, Fail, End
<1>3. ~initialized \/ Len(b.cids) > MaxBatchSize
  BY <1>1 DEF RejectOversized, RejectUninitialized
<1>4. Len(b.cids) \in Nat /\ DOMAIN b.cids = 1..Len(b.cids)
  BY BatchShape
<1>5. Cardinality(DOMAIN batch'.cids) = Len(b.cids)
  BY <1>2, <1>4, FS_Interval
<1>6. ToolAccepts' => initialized' /\ Cardinality(DOMAIN batch'.cids) <= MaxBatchSize
  BY ToolCardinality DEF ToolAccepts, Tool!Accepts
<1> QED
  BY <1>2, <1>3, <1>4, <1>5, <1>6, ConstAssumption

\* The chain of the two models is one: whatever batches run, limits and
\* capacity hold, initialised or not, the deployed program accepts a
\* transaction of batch-anchor exactly when BatchAnchor does, and changes the
\* number of records per CID as BatchAnchor says.
THEOREM ChainsAgree == TwinsSpec => ChainAgrees
<1> DEFINE LastStep == pc = "loop" /\ pc' = "idle" /\ SentByTool
                         => /\ reply' = "ok" <=> ToolAccepts
                            /\ Copies(records') = IF ToolAccepts
                                                  THEN Tool!NewCopies(DOMAIN batch.cids)
                                                  ELSE Copies(records)
           Refusal == RefusedAtOnce /\ SentByTool' => ~ToolAccepts' /\ records' = records
<1>1. TwinsInit => IInv /\ ChainInv
  BY InitIInv, InitChainInv DEF TwinsInit
<1>2. IInv /\ ChainInv /\ [TwinsNext]_twinVars => (IInv /\ ChainInv)'
  BY GuestIsRegistry, NextIInv, NextChainInv
<1>3. IInv /\ ChainInv /\ [TwinsNext]_twinVars => [LastStep /\ Refusal]_vars
  <2>1. IInv /\ ChainInv /\ Next => LastStep
    BY ChainStepAgrees
  <2>2. IInv /\ Next => Refusal
    BY RefusalAgrees
  <2> HIDE DEF LastStep, Refusal
  <2> QED
    BY <2>1, <2>2, GuestIsRegistry
<1>4. ([][LastStep /\ Refusal]_vars) => ChainAgrees
  BY PTL DEF ChainAgrees
<1> HIDE DEF LastStep, Refusal
<1> QED
  BY <1>1, <1>2, <1>3, <1>4, PTL DEF TwinsSpec

-----------------------------------------------------------------------------
\* What RegistryProofs proves of the program, for the library.
LibProofs == INSTANCE RegistryProofs
               WITH HostLibrary <- TRUE, Batches <- SquareBatches,
                    initialized <- libInitialized, records <- libRecords, pc <- libPc,
                    batch <- libBatch, i <- libI, work <- libWork, known <- libKnown,
                    reply <- libReply

\* The library is only handed a batch that the guest has done with, and whose
\* vectors have equal lengths.
LibraryInput ==
  /\ workload = "twins" /\ pc = "loop" => batch \in SquareBatches
  /\ turn = "anchor_batch" => workload = "twins" /\ pc = "idle" /\ batch \in SquareBatches

\* Every step of the twins keeps what the library may be handed.
LEMMA NextLibraryInput == LibraryInput /\ [TwinsNext]_twinVars => LibraryInput'
<1> SUFFICES ASSUME LibraryInput, [TwinsNext]_twinVars
             PROVE  LibraryInput'
  OBVIOUS
<1> USE DEF LibraryInput
<1>1. CASE GuestInitialize
  BY <1>1 DEF GuestInitialize, Initialize, End, Handover
<1>2. ASSUME NEW b \in Batches, GuestBegin(b)
      PROVE  LibraryInput'
  <2>1. batch' = b /\ turn = "guest" /\ workload' = workload
        /\ (workload = "twins" => b \in SquareBatches)
    BY <1>2 DEF GuestBegin, RejectOversized, RejectUninitialized, BeginAnchor, Reject
  <2> QED
    BY <1>2, <2>1 DEF GuestBegin, Handover
<1>3. CASE GuestLoop
  <2>1. batch' = batch /\ turn = "guest" /\ pc = "loop" /\ workload' = workload
    BY <1>3 DEF GuestLoop, AnchorLoop, RejectInvalidCid, SkipKnown, IndexPanic, Push,
                StateTooLarge, Commit, Fresh, InLoop, AtEnd, Fail
  <2> QED
    BY <1>3, <2>1 DEF GuestLoop, Handover
<1>4. CASE LibraryStep
  BY <1>4 DEF LibraryStep, vars
<1>5. CASE UNCHANGED twinVars
  BY <1>5 DEF twinVars, vars
<1> QED
  BY <1>1, <1>2, <1>3, <1>4, <1>5 DEF TwinsNext

\* The steps of the library are steps of the program.
LEMMA LibraryIsRegistry == LibraryInput /\ [TwinsNext]_twinVars => [Lib!Next]_(Lib!vars)
<1> SUFFICES ASSUME LibraryInput, [TwinsNext]_twinVars
             PROVE  [Lib!Next]_(Lib!vars)
  OBVIOUS
<1>1. CASE LibraryStep
  BY <1>1 DEF LibraryStep, LibraryInput, Lib!Next
<1>2. CASE UNCHANGED libVars
  BY <1>2 DEF libVars, Lib!vars
<1> QED
  BY <1>1, <1>2 DEF TwinsNext, GuestInitialize, GuestBegin, GuestLoop, twinVars

\* Both actors run the program of Registry.tla: the guest as it is deployed,
\* the library in its variant, each from an empty account.
THEOREM TwinsAreRegistries == TwinsSpec => Spec /\ Lib!Spec
<1>1. TwinsInit => LibraryInput
  BY DEF TwinsInit, Init, LibraryInput
<1> QED
  BY <1>1, GuestIsRegistry, LibraryIsRegistry, NextLibraryInput, PTL
     DEF TwinsSpec, TwinsInit, Spec, Lib!Spec

\* LibProofs speaks of the program Lib runs: each definition of the one is that
\* of the other.
LEMMA LibProofsAreOfLib ==
  /\ Lib!Init => LibProofs!Init
  /\ [Lib!Next]_(Lib!vars) => [LibProofs!Next]_(LibProofs!vars)
<1>1. Lib!Init => LibProofs!Init
  BY DEF Lib!Init, LibProofs!Init, Lib!NoBatch, LibProofs!NoBatch
<1>2. [Lib!Next]_(Lib!vars) => [LibProofs!Next]_(LibProofs!vars)
  BY DEF Lib!Next, LibProofs!Next, Lib!vars, LibProofs!vars, Lib!Initialize,
         LibProofs!Initialize, Lib!RejectOversized, LibProofs!RejectOversized,
         Lib!RejectUninitialized, LibProofs!RejectUninitialized, Lib!BeginAnchor,
         LibProofs!BeginAnchor, Lib!AnchorLoop, LibProofs!AnchorLoop,
         Lib!RejectInvalidCid, LibProofs!RejectInvalidCid, Lib!SkipKnown,
         LibProofs!SkipKnown, Lib!IndexPanic, LibProofs!IndexPanic, Lib!Push,
         LibProofs!Push, Lib!StateTooLarge, LibProofs!StateTooLarge, Lib!Commit,
         LibProofs!Commit, Lib!Fail, LibProofs!Fail, Lib!End, LibProofs!End,
         Lib!Reject, LibProofs!Reject, Lib!Fresh, LibProofs!Fresh, Lib!InLoop,
         LibProofs!InLoop, Lib!AtEnd, LibProofs!AtEnd, Lib!Entry, LibProofs!Entry,
         Lib!CidsOf, LibProofs!CidsOf, Lib!Range, LibProofs!Range, Lib!NoBatch,
         LibProofs!NoBatch
<1> QED
  BY <1>1, <1>2

\* The library keeps one record per CID whatever the batches repeat: there
\* `seen` is extended in the loop.
THEOREM LibraryOnce == TwinsSpec => []LibraryRegistersOnce
<1>1. SquareBatches \subseteq LibProofs!BatchArgs /\ \A b \in SquareBatches : LibProofs!Square(b)
  BY ConstAssumption DEF SquareBatches, BatchArgs, LibProofs!BatchArgs, Square, LibProofs!Square
<1>2. LibProofs!Spec => []LibProofs!OneRecordPerCid
  BY <1>1, LibProofs!RegisteredOnce, ConstAssumption
<1>3. Lib!Spec => LibProofs!Spec
  BY LibProofsAreOfLib, PTL DEF Lib!Spec, LibProofs!Spec
<1>4. LibProofs!OneRecordPerCid => LibraryRegistersOnce
  BY DEF LibProofs!OneRecordPerCid, Lib!OneRecordPerCid, LibraryRegistersOnce
<1> QED
  BY <1>2, <1>3, <1>4, TwinsAreRegistries, PTL
=============================================================================
