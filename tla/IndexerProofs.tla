--------------------------- MODULE IndexerProofs ---------------------------
(***************************************************************************)
(* What holds of the dedup set for any number of concurrent calls, any     *)
(* documents, either backend and any failures.                             *)
(***************************************************************************)
EXTENDS Indexer, TLAPS

Sending == {"send", "sent", "undo"}

\* A call that sends holds its CID in the set, alone; what it has sent is on
\* the topic.
SendInv ==
  /\ \A t \in Calls : pc[t] \in Sending => cid[t] \in seen
  /\ \A t, u \in Calls : pc[t] \in Sending /\ pc[u] \in Sending /\ cid[t] = cid[u] => t = u
  /\ \A t \in Calls : pc[t] = "sent" => delivered[cid[t]] > 0

IInv == TypeOK /\ SendInv /\ NoPoison

-----------------------------------------------------------------------------
\* Every variable keeps its type.
LEMMA InitTypeOK == Init => TypeOK
BY DEF Init, TypeOK, Labels, Cids

\* Every step of every call keeps the types.
LEMMA NextTypeOK == TypeOK /\ [Next]_vars => TypeOK'
<1> SUFFICES ASSUME TypeOK, [Next]_vars
             PROVE  TypeOK'
  OBVIOUS
<1> USE ConstAssumption DEF TypeOK, Goto, Labels, Cids
<1>1. ASSUME NEW t \in Calls, Call(t)
      PROVE  TypeOK'
  BY <1>1 DEF Call
<1>2. ASSUME NEW t \in Calls, PostDocument(t)
      PROVE  TypeOK'
  BY <1>2 DEF PostDocument
<1>3. ASSUME NEW t \in Calls, CreateFile(t) \/ FillFile(t) \/ RemoveFile(t)
      PROVE  TypeOK'
  BY <1>3 DEF CreateFile, FillFile, RemoveFile
<1>4. ASSUME NEW t \in Calls, StoreFile(t) \/ StoreFails(t)
      PROVE  TypeOK'
  BY <1>4 DEF StoreFile, StoreFails
<1>5. ASSUME NEW t \in Calls, Retry(t)
      PROVE  TypeOK'
  BY <1>5 DEF Retry
<1>6. ASSUME NEW t \in Calls, Deduplicate(t) \/ Claim(t)
      PROVE  TypeOK'
  BY <1>6 DEF Deduplicate, Claim
<1>7. ASSUME NEW t \in Calls, Deliver(t)
      PROVE  TypeOK'
  BY <1>7 DEF Deliver
<1>8. ASSUME NEW t \in Calls, SendOk(t) \/ SendFails(t) \/ Undo(t)
      PROVE  TypeOK'
  BY <1>8 DEF SendOk, SendFails, Undo
<1>9. CASE UNCHANGED vars
  BY <1>9 DEF vars
<1> QED
  BY <1>1, <1>2, <1>3, <1>4, <1>5, <1>6, <1>7, <1>8, <1>9 DEF Next, Advance

\* Every variable keeps its type: a call that broadcasts has a CID.
THEOREM TypeCorrect == Spec => []TypeOK
<1>1. QED
  BY InitTypeOK, NextTypeOK, PTL DEF Spec

-----------------------------------------------------------------------------
\* Before it comes to broadcast, and when it has returned, a call has no part
\* in the dedup set.
Elsewhere(t) ==
  /\ pc' = [pc EXCEPT ![t] = pc'[t]]
  /\ pc[t] \notin Sending /\ pc'[t] \notin Sending
  /\ \A u \in Calls : u # t => cid'[u] = cid[u]
  /\ seen' = seen /\ delivered' = delivered

\* The steps of an upload touch neither the dedup set nor the topic.
LEMMA UploadIsElsewhere ==
  ASSUME TypeOK, NEW t \in Calls,
         \/ Call(t) \/ PostDocument(t) \/ CreateFile(t) \/ FillFile(t) \/ StoreFile(t)
         \/ StoreFails(t) \/ RemoveFile(t) \/ Retry(t) \/ Deduplicate(t)
  PROVE  Elsewhere(t)
<1> USE DEF TypeOK, Elsewhere, Goto, Sending
<1>1. CASE Call(t) \/ PostDocument(t) \/ StoreFile(t)
  BY <1>1 DEF Call, PostDocument, StoreFile
<1>2. CASE CreateFile(t) \/ FillFile(t) \/ StoreFails(t) \/ RemoveFile(t)
  BY <1>2 DEF CreateFile, FillFile, StoreFails, RemoveFile
<1>3. CASE Retry(t) \/ Deduplicate(t)
  BY <1>3 DEF Retry, Deduplicate
<1> QED
  BY <1>1, <1>2, <1>3

\* A step of one call outside the broadcast keeps the invariant.
LEMMA ElsewhereIInv ==
  ASSUME IInv, NEW t \in Calls, Elsewhere(t)
  PROVE  /\ SendInv' /\ NoPoison'
         /\ \A c \in Cids : InFlight(c)' = InFlight(c)
<1> USE DEF IInv, TypeOK, Elsewhere
<1>1. \A u \in Calls : pc[u] \in Sending <=> pc'[u] \in Sending
  OBVIOUS
<1>2. \A u \in Calls : pc[u] \in Sending => pc'[u] = pc[u] /\ cid'[u] = cid[u]
  OBVIOUS
<1>3. \A c \in Cids : InFlight(c)' = InFlight(c)
  BY <1>1, <1>2 DEF InFlight, Sending
<1>4. SendInv'
  BY <1>1, <1>2 DEF SendInv, Sending
<1>5. NoPoison'
  BY <1>3 DEF NoPoison
<1> QED
  BY <1>3, <1>4, <1>5

\* A call that takes a CID is the only one to hold it.
LEMMA ClaimIInv ==
  ASSUME IInv, NEW t \in Calls, Claim(t)
  PROVE  SendInv' /\ NoPoison'
<1> USE DEF IInv, TypeOK, Claim, Goto
<1>1. cid' = cid /\ delivered' = delivered /\ seen' = seen \cup {cid[t]}
  OBVIOUS
<1>2. pc'[t] = "send" /\ \A u \in Calls : u # t => pc'[u] = pc[u]
  OBVIOUS
<1>3. SendInv'
  BY <1>1, <1>2 DEF SendInv, Sending
<1>4. ASSUME NEW c \in seen'
      PROVE  delivered'[c] > 0 \/ InFlight(c)' # {}
  <2>1. CASE c = cid[t]
    BY <2>1, <1>1, <1>2 DEF InFlight
  <2>2. CASE c \in seen /\ c # cid[t]
    BY <2>2, <1>1, <1>2 DEF NoPoison, InFlight
  <2> QED
    BY <1>1, <1>4, <2>1, <2>2
<1> QED
  BY <1>3, <1>4 DEF NoPoison

\* A delivery puts the sender's CID on the topic.
LEMMA DeliverIInv ==
  ASSUME IInv, NEW t \in Calls, Deliver(t)
  PROVE  SendInv' /\ NoPoison'
<1> USE DEF IInv, TypeOK, Deliver, Goto
<1>1. cid' = cid /\ seen' = seen /\ pc[t] = "send" /\ cid[t] \in Cids
  OBVIOUS
<1>2. pc'[t] = "sent" /\ \A u \in Calls : u # t => pc'[u] = pc[u]
  OBVIOUS
<1>3. \A c \in Cids : delivered'[c] = IF c = cid[t] THEN delivered[c] + 1 ELSE delivered[c]
  OBVIOUS
<1>4. \A c \in Cids : delivered[c] > 0 => delivered'[c] > 0
  BY <1>3
<1>5. delivered'[cid[t]] > 0
  BY <1>1, <1>3
<1>6. SendInv'
  BY <1>1, <1>2, <1>4, <1>5 DEF SendInv, Sending
<1>7. NoPoison'
  BY <1>1, <1>2, <1>4 DEF NoPoison, InFlight
<1> QED
  BY <1>6, <1>7

\* A send that succeeded leaves its CID in the set and on the topic.
LEMMA SendOkIInv ==
  ASSUME IInv, NEW t \in Calls, SendOk(t)
  PROVE  SendInv' /\ NoPoison'
<1> USE DEF IInv, TypeOK, SendOk, Goto
<1>1. cid' = cid /\ seen' = seen /\ delivered' = delivered /\ pc[t] = "sent"
  OBVIOUS
<1>2. pc'[t] = "ok" /\ \A u \in Calls : u # t => pc'[u] = pc[u]
  OBVIOUS
<1>3. SendInv'
  BY <1>1, <1>2 DEF SendInv, Sending
<1>4. ASSUME NEW c \in seen, ~(delivered[c] > 0)
      PROVE  InFlight(c)' # {}
  <2>1. PICK u \in InFlight(c) : TRUE
    BY <1>4 DEF NoPoison
  <2>2. u # t
    BY <2>1, <1>1, <1>4 DEF SendInv, InFlight
  <2> QED
    BY <2>1, <2>2, <1>1, <1>2 DEF InFlight
<1> QED
  BY <1>1, <1>3, <1>4 DEF NoPoison

\* A send that failed is still the only one for its CID.
LEMMA SendFailsIInv ==
  ASSUME IInv, NEW t \in Calls, SendFails(t)
  PROVE  SendInv' /\ NoPoison'
<1> USE DEF IInv, TypeOK, SendFails, Goto
<1>1. cid' = cid /\ seen' = seen /\ delivered' = delivered /\ pc[t] \in {"send", "sent"}
  OBVIOUS
<1>2. pc'[t] = "undo" /\ \A u \in Calls : u # t => pc'[u] = pc[u]
  OBVIOUS
<1>3. SendInv'
  BY <1>1, <1>2 DEF SendInv, Sending
<1>4. NoPoison'
  BY <1>1, <1>2 DEF NoPoison, InFlight
<1> QED
  BY <1>3, <1>4

\* Only the call that put the CID into the set takes it out.
LEMMA UndoIInv ==
  ASSUME IInv, NEW t \in Calls, Undo(t)
  PROVE  SendInv' /\ NoPoison'
<1> USE DEF IInv, TypeOK, Undo, Goto
<1>1. cid' = cid /\ seen' = seen \ {cid[t]} /\ delivered' = delivered /\ pc[t] = "undo"
  OBVIOUS
<1>2. pc'[t] = "error" /\ \A u \in Calls : u # t => pc'[u] = pc[u]
  OBVIOUS
<1>3. SendInv'
  BY <1>1, <1>2 DEF SendInv, Sending
<1>4. ASSUME NEW c \in seen', ~(delivered[c] > 0)
      PROVE  InFlight(c)' # {}
  <2>1. PICK u \in InFlight(c) : TRUE
    BY <1>1, <1>4 DEF NoPoison
  <2>2. u # t
    BY <2>1, <1>1, <1>4 DEF InFlight
  <2> QED
    BY <2>1, <2>2, <1>1, <1>2 DEF InFlight
<1> QED
  BY <1>1, <1>3, <1>4 DEF NoPoison

\* Every step keeps the invariant of the dedup set.
LEMMA NextIInv == IInv /\ [Next]_vars => IInv'
<1> SUFFICES ASSUME IInv, [Next]_vars
             PROVE  SendInv' /\ NoPoison'
  BY NextTypeOK DEF IInv
<1>1. ASSUME NEW t \in Calls, Call(t) \/ Advance(t)
      PROVE  SendInv' /\ NoPoison'
  BY <1>1, UploadIsElsewhere, ElsewhereIInv, ClaimIInv, DeliverIInv, SendOkIInv,
     SendFailsIInv, UndoIInv DEF Advance, IInv
<1>2. CASE UNCHANGED vars
  BY <1>2 DEF vars, IInv, SendInv, NoPoison, InFlight
<1> QED
  BY <1>1, <1>2 DEF Next

\* At the start the dedup set is empty and nobody sends.
LEMMA InitIInv == Init => IInv
<1>1. Init => SendInv /\ NoPoison
  BY DEF Init, SendInv, NoPoison, Sending
<1> QED
  BY <1>1, InitTypeOK DEF IInv

\* The inductive invariant of the dedup set: one sender per CID, which holds it
\* in the set, and no CID in the set for nothing.
THEOREM Invariance == Spec => []IInv
<1>1. QED
  BY InitIInv, NextIInv, PTL DEF Spec

\* No CID is on the wire twice at the same time.
THEOREM OneSenderOnly == Spec => []OneSender
<1>1. IInv => OneSender
  BY DEF IInv, SendInv, OneSender, InFlight, Sending
<1> QED
  BY <1>1, Invariance, PTL

\* A failed broadcast never leaves its CID in the dedup set.
THEOREM SetIsNotPoisoned == Spec => []NoPoison
<1>1. IInv => NoPoison
  BY DEF IInv
<1> QED
  BY <1>1, Invariance, PTL

-----------------------------------------------------------------------------
\* A settled CID is in the set and nobody sends it, so that nobody can send
\* it or take it out again.
LEMMA SettledStep ==
  ASSUME IInv, [Next]_vars, NEW c \in Cids, Settled(c)
  PROVE  Settled(c)' /\ delivered'[c] = delivered[c]
<1> USE DEF IInv
<1>0. c \in seen /\ \A u \in Calls : pc[u] \in Sending => cid[u] # c
  BY DEF Settled, InFlight, Sending
<1>1. ASSUME NEW t \in Calls, Elsewhere(t)
      PROVE  Settled(c)' /\ delivered'[c] = delivered[c]
  BY <1>1, ElsewhereIInv DEF Elsewhere, Settled
<1>2. ASSUME NEW t \in Calls,
             Claim(t) \/ Deliver(t) \/ SendOk(t) \/ SendFails(t) \/ Undo(t)
      PROVE  Settled(c)' /\ delivered'[c] = delivered[c]
  <2>1. cid' = cid /\ cid[t] # c
    BY <1>0, <1>2 DEF Claim, Deliver, SendOk, SendFails, Undo, Sending
  <2>2. \A u \in Calls : u # t => pc'[u] = pc[u]
    BY <1>2 DEF Claim, Deliver, SendOk, SendFails, Undo, Goto, TypeOK
  <2>3. c \in seen' /\ delivered'[c] = delivered[c]
    BY <1>0, <1>2, <2>1 DEF Claim, Deliver, SendOk, SendFails, Undo, TypeOK
  <2> QED
    BY <1>0, <2>1, <2>2, <2>3 DEF Settled, InFlight, Sending
<1>3. CASE UNCHANGED vars
  BY <1>3 DEF vars, Settled, InFlight
<1> QED
  BY <1>1, <1>2, <1>3, UploadIsElsewhere DEF Next, Advance

\* Once acknowledged, a CID is never sent again in this session.
THEOREM NeverSentAgain == Spec => SettledForGood
<1>1. IInv /\ [Next]_vars
      => [\A c \in Cids : Settled(c) => Settled(c)' /\ delivered'[c] = delivered[c]]_vars
  BY SettledStep
<1> QED
  BY <1>1, Invariance, PTL DEF Spec, SettledForGood

-----------------------------------------------------------------------------
\* The CID a call works with, once it broadcasts, is that of its document or of
\* a file caught empty; over HTTP there are no files.
OwnCid(t) ==
  /\ cid[t] \in {"none", DocOf[t], Truncated}
  /\ pc[t] \in {"broadcast"} \cup Sending => cid[t] \in {DocOf[t], Truncated}
  /\ backend = "Http" => /\ pc[t] \notin {"fill", "read", "remove"}
                         /\ cid[t] \in {"none", DocOf[t]}

\* The file of a caller that is alone with its document is its own, written
\* when it is read; Ok means that its document is on the topic.
OwnFile(t) ==
  /\ pc[t] = "fill" => t \in open
  /\ pc[t] = "read" => tmp[DocOf[t]] = "full"
  /\ cid[t] \in {"none", DocOf[t]}
  /\ pc[t] \in {"broadcast", "ok"} \cup Sending => cid[t] = DocOf[t]
  /\ pc[t] = "ok" => delivered[DocOf[t]] > 0

AloneInv == \A t \in Calls : OwnCid(t) /\ (Alone(t) => OwnFile(t))

\* Every step of a call keeps its CID its own.
LEMMA OwnCidStep ==
  ASSUME TypeOK, [Next]_vars, NEW t \in Calls, OwnCid(t)
  PROVE  OwnCid(t)'
<1> USE DEF TypeOK, OwnCid, Goto, Sending
<1>1. ASSUME NEW u \in Calls, u # t, Call(u) \/ Advance(u)
      PROVE  pc'[t] = pc[t] /\ cid'[t] = cid[t] /\ backend' = backend
  BY <1>1 DEF Call, Advance, PostDocument, CreateFile, FillFile, StoreFile, StoreFails,
     RemoveFile, Retry, Deduplicate, Claim, Deliver, SendOk, SendFails, Undo
<1>2. CASE Call(t) \/ PostDocument(t) \/ CreateFile(t) \/ FillFile(t)
  BY <1>2 DEF Call, PostDocument, CreateFile, FillFile
<1>3. CASE StoreFile(t) \/ StoreFails(t) \/ RemoveFile(t) \/ Retry(t)
  BY <1>3 DEF StoreFile, StoreFails, RemoveFile, Retry
<1>4. CASE Deduplicate(t) \/ Claim(t) \/ Deliver(t) \/ SendOk(t) \/ SendFails(t) \/ Undo(t)
  BY <1>4 DEF Deduplicate, Claim, Deliver, SendOk, SendFails, Undo
<1>5. CASE UNCHANGED vars
  BY <1>5 DEF vars
<1> QED
  BY <1>1, <1>2, <1>3, <1>4, <1>5 DEF Next, Advance

\* The steps of the others do not reach the file of a call that is alone with
\* its document, nor take anything off the topic.
LEMMA OthersOwnFile ==
  ASSUME TypeOK, NEW t \in Calls, Alone(t), OwnFile(t),
         NEW u \in Calls, u # t, Call(u) \/ Advance(u)
  PROVE  OwnFile(t)'
<1> USE DEF TypeOK, Goto
<1>1. DocOf[u] # DocOf[t] /\ DocOf[t] \in Docs /\ DocOf[t] \in Cids
  BY ConstAssumption DEF Alone, Cids
<1>2. pc'[t] = pc[t] /\ cid'[t] = cid[t]
  BY DEF Call, Advance, PostDocument, CreateFile, FillFile, StoreFile, StoreFails,
     RemoveFile, Retry, Deduplicate, Claim, Deliver, SendOk, SendFails, Undo
<1>3. tmp'[DocOf[t]] = tmp[DocOf[t]]
  BY <1>1 DEF Call, Advance, PostDocument, CreateFile, FillFile, StoreFile, StoreFails,
     RemoveFile, Retry, Deduplicate, Claim, Deliver, SendOk, SendFails, Undo
<1>4. t \in open => t \in open'
  BY <1>1 DEF Call, Advance, PostDocument, CreateFile, FillFile, StoreFile, StoreFails,
     RemoveFile, Retry, Deduplicate, Claim, Deliver, SendOk, SendFails, Undo
<1>5. delivered[DocOf[t]] > 0 => delivered'[DocOf[t]] > 0
  BY <1>1 DEF Call, Advance, PostDocument, CreateFile, FillFile, StoreFile, StoreFails,
     RemoveFile, Retry, Deduplicate, Claim, Deliver, SendOk, SendFails, Undo
<1> QED
  BY <1>2, <1>3, <1>4, <1>5 DEF OwnFile

\* The dedup set has the document of a call that is alone with it only if it is
\* on the topic: nobody else could be sending it.
LEMMA AloneInSet ==
  ASSUME IInv, AloneInv, NEW t \in Calls, Alone(t), pc[t] = "broadcast", cid[t] \in seen
  PROVE  delivered[DocOf[t]] > 0
<1>1. cid[t] = DocOf[t]
  BY DEF AloneInv, OwnFile
<1>2. ASSUME NEW u \in InFlight(DocOf[t])
      PROVE  FALSE
  <2>1. u \in Calls /\ pc[u] \in Sending /\ cid[u] = DocOf[t]
    BY <1>2 DEF InFlight, Sending
  <2>2. cid[u] \in {DocOf[u], Truncated}
    BY <2>1 DEF AloneInv, OwnCid
  <2>3. u # t
    BY <2>1 DEF Sending
  <2> QED
    BY <2>1, <2>2, <2>3, ConstAssumption DEF Alone
<1> QED
  BY <1>1, <1>2 DEF IInv, NoPoison

\* The steps of a call that is alone with its document.
LEMMA OwnFileStep ==
  ASSUME IInv, AloneInv, NEW t \in Calls, Alone(t), Call(t) \/ Advance(t)
  PROVE  OwnFile(t)'
<1>0. OwnFile(t) /\ OwnCid(t)
  BY DEF AloneInv
<1> USE <1>0 DEF IInv, TypeOK, OwnFile, Goto, Sending
<1>1. CASE Call(t) \/ PostDocument(t)
  BY <1>1 DEF Call, PostDocument
<1>2. CASE CreateFile(t)
  BY <1>2 DEF CreateFile
<1>3. CASE FillFile(t)
  BY <1>3, ConstAssumption DEF FillFile
<1>4. CASE StoreFile(t) \/ StoreFails(t)
  BY <1>4 DEF StoreFile, StoreFails
<1>5. CASE RemoveFile(t) \/ Retry(t)
  BY <1>5 DEF RemoveFile, Retry
<1>6. CASE Deduplicate(t)
  BY <1>6, AloneInSet DEF Deduplicate
<1>7. CASE Claim(t) \/ Deliver(t)
  BY <1>7 DEF Claim, Deliver
<1>8. CASE SendOk(t)
  BY <1>8 DEF SendOk, SendInv
<1>9. CASE SendFails(t) \/ Undo(t)
  BY <1>9 DEF SendFails, Undo
<1> QED
  BY <1>1, <1>2, <1>3, <1>4, <1>5, <1>6, <1>7, <1>8, <1>9 DEF Advance

\* Every step keeps what a call has for itself.
LEMMA NextAloneInv == IInv /\ AloneInv /\ [Next]_vars => AloneInv'
<1> SUFFICES ASSUME IInv, AloneInv, [Next]_vars,
                    NEW t \in Calls
             PROVE  OwnCid(t)' /\ (Alone(t)' => OwnFile(t)')
  BY DEF AloneInv
<1>1. OwnCid(t)'
  BY OwnCidStep DEF AloneInv, IInv
<1>2. ASSUME Alone(t)
      PROVE  OwnFile(t)'
  <2>1. CASE UNCHANGED vars
    BY <1>2, <2>1 DEF vars, AloneInv, OwnFile
  <2>2. ASSUME NEW u \in Calls, Call(u) \/ Advance(u)
        PROVE  OwnFile(t)'
    BY <1>2, <2>2, OwnFileStep, OthersOwnFile DEF AloneInv, IInv
  <2> QED
    BY <2>1, <2>2 DEF Next
<1> QED
  BY <1>1, <1>2 DEF Alone

\* Before the first call nobody has a CID.
LEMMA InitAloneInv == Init => AloneInv
BY DEF Init, AloneInv, OwnCid, OwnFile, Sending

\* A caller that is alone with its document gets the CID of its data, and Ok
\* only for an envelope on the topic, however many calls with other documents
\* run and fail next to it; over HTTP every caller gets the CID of its data.
THEOREM UnsharedCalls == Spec => []UnsharedIsSafe
<1>1. AloneInv => UnsharedIsSafe
  BY DEF AloneInv, OwnCid, OwnFile, UnsharedIsSafe
<1> QED
  BY <1>1, Invariance, InitAloneInv, NextAloneInv, PTL DEF Spec
=============================================================================
