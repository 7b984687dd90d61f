------------------------------ MODULE FfiProofs ------------------------------
(***************************************************************************)
(* What holds of the C calls for any number of callers, any documents and  *)
(* any failures of storage, delivery and spel.                             *)
(***************************************************************************)
EXTENDS Ffi, IndexerProofs

\* A call whose send was answered has its envelope on the topic; it comes to
\* spel, and to success, only with Ok.
CallInv(t) ==
  /\ pc[t] \in {"sent", "ok"} => cid[t] \in Cids /\ delivered[cid[t]] > 0
  /\ stage[t] \in {"spel", "success"} => pc[t] = "ok"
  /\ stage[t] = "spel" => cid[t] \in Decodable

FfiInv == /\ FfiTypeOK
          /\ \A t \in Calls : CallInv(t)
          /\ OnlyBroadcastAnchored

-----------------------------------------------------------------------------
\* A step of one call's Indexer leaves the other calls alone, takes nothing
\* off the topic, and ends with Ok only after its send.
LEMMA IndexerStepFacts ==
  ASSUME TypeOK, NEW t \in Calls, IndexerStep(t), CallInv(t)
  PROVE  /\ TypeOK'
         /\ pc[t] \notin {"idle", "ok", "error"}
         /\ \A u \in Calls : u # t => pc'[u] = pc[u] /\ cid'[u] = cid[u]
         /\ \A c \in Cids : delivered'[c] >= delivered[c]
         /\ pc'[t] \in {"sent", "ok"} => cid'[t] \in Cids /\ delivered'[cid'[t]] > 0
<1>1. CASE CreateFile(t) \/ FillFile(t)
  <2>1. TypeOK'
    BY <1>1, NextTypeOK DEF Next, Advance
  <2> QED
    BY <1>1, <2>1 DEF CreateFile, FillFile, Goto, TypeOK
<1>2. CASE StoreFile(t) \/ StoreFails(t) \/ RemoveFile(t)
  <2>1. TypeOK'
    BY <1>2, NextTypeOK DEF Next, Advance
  <2> QED
    BY <1>2, <2>1 DEF StoreFile, StoreFails, RemoveFile, Goto, TypeOK
<1>3. CASE Retry(t) \/ SendFails(t) \/ Undo(t)
  <2>1. TypeOK'
    BY <1>3, NextTypeOK DEF Next, Advance
  <2> QED
    BY <1>3, <2>1 DEF Retry, SendFails, Undo, Goto, TypeOK
<1>4. CASE ClaimOwn(t)
  BY <1>4 DEF ClaimOwn, Goto, TypeOK, Labels
<1>5. CASE Deliver(t)
  <2>1. TypeOK'
    BY <1>5, NextTypeOK DEF Next, Advance
  <2> QED
    BY <1>5, <2>1 DEF Deliver, Goto, TypeOK
<1>6. CASE SendOk(t)
  <2>1. TypeOK'
    BY <1>6, NextTypeOK DEF Next, Advance
  <2> QED
    BY <1>6, <2>1 DEF SendOk, Goto, TypeOK, CallInv
<1> QED
  BY <1>1, <1>2, <1>3, <1>4, <1>5, <1>6 DEF IndexerStep

\* The steps of one call's Indexer keep the invariant.
LEMMA IndexerKeeps ==
  ASSUME FfiInv, NEW t \in Calls, IndexerStep(t)
  PROVE  FfiInv'
<1> USE DEF FfiInv
<1>1. /\ TypeOK'
      /\ pc[t] \notin {"idle", "ok", "error"}
      /\ \A u \in Calls : u # t => pc'[u] = pc[u] /\ cid'[u] = cid[u]
      /\ \A c \in Cids : delivered'[c] >= delivered[c]
      /\ pc'[t] \in {"sent", "ok"} => cid'[t] \in Cids /\ delivered'[cid'[t]] > 0
  BY IndexerStepFacts DEF FfiTypeOK
<1>2. stage' = stage /\ ledger' = ledger /\ late' = late
  BY DEF IndexerStep, onChain
<1>3. FfiTypeOK'
  BY <1>1, <1>2 DEF FfiTypeOK
<1>4. \A c \in Cids : delivered[c] \in Nat /\ delivered'[c] \in Nat
  BY <1>1 DEF FfiTypeOK, TypeOK
<1>5. \A c \in Cids : delivered[c] > 0 => delivered'[c] > 0
  BY <1>1, <1>4
<1>6. ASSUME NEW u \in Calls
      PROVE  CallInv(u)'
  <2>1. CASE u = t
    BY <1>1, <1>2, <2>1 DEF CallInv
  <2>2. CASE u # t
    BY <1>1, <1>2, <1>5, <2>2 DEF CallInv
  <2> QED
    BY <2>1, <2>2
<1>7. OnlyBroadcastAnchored'
  BY <1>2, <1>5, FfiAssumption DEF OnlyBroadcastAnchored, FfiTypeOK
<1> QED
  BY <1>3, <1>6, <1>7

\* A call that starts forgets the CID of the call before.
LEMMA CallKeeps ==
  ASSUME FfiInv, NEW t \in Calls, FfiCall(t)
  PROVE  FfiInv'
<1> USE DEF FfiInv
<1>1. TypeOK'
  BY NextTypeOK DEF FfiCall, Next, FfiTypeOK
<1>2. /\ stage' = [stage EXCEPT ![t] = "running"] /\ pc' = [pc EXCEPT ![t] = "upload"]
      /\ cid' = [cid EXCEPT ![t] = "none"]
      /\ delivered' = delivered /\ ledger' = ledger /\ late' = late
  BY DEF FfiCall, Reach, Call, Goto, onChain
<1>3. /\ stage \in [Calls -> {"idle", "running", "spel", "success", "error"}]
      /\ pc \in [Calls -> Labels]
      /\ cid \in [Calls -> Cids \cup {"none"}]
  BY DEF FfiTypeOK, TypeOK
<1>4. FfiTypeOK'
  BY <1>1, <1>2, <1>3 DEF FfiTypeOK
<1>5. ASSUME NEW u \in Calls
      PROVE  CallInv(u)'
  BY <1>2, <1>3 DEF CallInv
<1>6. OnlyBroadcastAnchored'
  BY <1>2 DEF OnlyBroadcastAnchored
<1> QED
  BY <1>4, <1>5, <1>6

\* The rest of the call: stage and chain change, the Indexer does not.
LEMMA OutsideKeeps ==
  ASSUME FfiInv, NEW t \in Calls,
         RuntimeFails(t) \/ ReturnError(t) \/ ReturnOk(t) \/ Anchor(t) \/ SpelEnds(t)
  PROVE  FfiInv'
<1> USE DEF FfiInv
<1>1. /\ UNCHANGED vars
      /\ \E s \in {"error", "success", "spel"} :
           /\ stage' = [stage EXCEPT ![t] = s]
           /\ s \in {"spel", "success"} => pc[t] = "ok"
           /\ s = "spel" => cid[t] \in Decodable
  BY DEF RuntimeFails, ReturnError, ReturnOk, Anchor, SpelEnds, Ended, Reach, CallInv
<1>2. /\ ledger \subseteq ledger'
      /\ ledger' \cup late' \subseteq ledger \cup late \cup (Decodable \cap {c \in Cids : delivered[c] > 0})
  BY DEF RuntimeFails, ReturnError, ReturnOk, Anchor, SpelEnds, onChain, CallInv
<1>3. stage \in [Calls -> {"idle", "running", "spel", "success", "error"}]
  BY DEF FfiTypeOK
<1>4. TypeOK'
  BY <1>1 DEF FfiTypeOK, TypeOK, vars
<1>5. FfiTypeOK'
  BY <1>1, <1>2, <1>3, <1>4 DEF FfiTypeOK
<1>6. ASSUME NEW u \in Calls
      PROVE  CallInv(u)'
  BY <1>1, <1>3 DEF CallInv, vars
<1>7. delivered' = delivered
  BY <1>1 DEF vars
<1>8. OnlyBroadcastAnchored'
  BY <1>2, <1>7 DEF OnlyBroadcastAnchored
<1> QED
  BY <1>5, <1>6, <1>8

\* A late transaction was in flight already.
LEMMA LateKeeps ==
  ASSUME FfiInv, NEW c \in Cids, LateLands(c)
  PROVE  FfiInv'
<1> USE DEF FfiInv
<1>1. /\ UNCHANGED vars
      /\ stage' = stage
      /\ ledger' \cup late' \subseteq ledger \cup late
  BY DEF LateLands
<1>2. TypeOK'
  BY <1>1 DEF FfiTypeOK, TypeOK, vars
<1>3. FfiTypeOK'
  BY <1>1, <1>2 DEF FfiTypeOK
<1>4. ASSUME NEW u \in Calls
      PROVE  CallInv(u)'
  BY <1>1 DEF CallInv, vars
<1>5. delivered' = delivered
  BY <1>1 DEF vars
<1>6. OnlyBroadcastAnchored'
  BY <1>1, <1>5 DEF OnlyBroadcastAnchored
<1> QED
  BY <1>3, <1>4, <1>6

-----------------------------------------------------------------------------
\* Every step keeps the invariant.
LEMMA NextFfiInv == FfiInv /\ [FfiNext]_ffiVars => FfiInv'
<1> SUFFICES ASSUME FfiInv, [FfiNext]_ffiVars
             PROVE  FfiInv'
  OBVIOUS
<1>1. CASE UNCHANGED ffiVars
  BY <1>1 DEF ffiVars, vars, onChain, FfiInv, FfiTypeOK, TypeOK, CallInv,
              OnlyBroadcastAnchored
<1> QED
  BY <1>1, IndexerKeeps, CallKeeps, OutsideKeeps, LateKeeps DEF FfiNext, FfiAdvance

\* Before the first call nothing is on the topic and nothing on chain.
LEMMA InitFfiInv == FfiInit => FfiInv
<1> SUFFICES ASSUME FfiInit
             PROVE  FfiInv
  OBVIOUS
<1>1. TypeOK
  BY InitTypeOK DEF FfiInit
<1>2. \A t \in Calls : pc[t] = "idle" /\ stage[t] = "idle"
  BY DEF FfiInit, Init
<1>3. FfiTypeOK
  BY <1>1 DEF FfiInit, FfiTypeOK
<1> QED
  BY <1>2, <1>3 DEF FfiInit, FfiInv, CallInv, OnlyBroadcastAnchored

\* The invariant holds in every state.
THEOREM FfiInvariance == FfiSpec => []FfiInv
<1>1. QED
  BY InitFfiInv, NextFfiInv, PTL DEF FfiSpec

\* Every variable of the calls and of the chain keeps its type: only CIDs
\* that decode are ever sent to the chain.
THEOREM FfiTypeCorrect == FfiSpec => []FfiTypeOK
<1>1. FfiInv => FfiTypeOK
  BY DEF FfiInv
<1> QED
  BY <1>1, FfiInvariance, PTL

\* Success is answered only for an envelope that is on the topic, for any
\* number of calls with the same document.
THEOREM SuccessIsBroadcast == FfiSpec => []SuccessMeansBroadcast
<1>1. FfiInv => SuccessMeansBroadcast
  BY DEF FfiInv, CallInv, SuccessMeansBroadcast
<1> QED
  BY <1>1, FfiInvariance, PTL

\* Nothing is registered, now or by a transaction in flight, that was not
\* broadcast.
THEOREM ChainFollowsTopic == FfiSpec => []OnlyBroadcastAnchored
<1>1. FfiInv => OnlyBroadcastAnchored
  BY DEF FfiInv
<1> QED
  BY <1>1, FfiInvariance, PTL

-----------------------------------------------------------------------------
\* The topic as AnchorService sees it.
OnTopic == {c \in Decodable : delivered[c] > 0}

\* A registration of one broadcast CID is a step of the service, or changes
\* nothing because the record is there already.
LEMMA RegisterOne ==
  ASSUME NEW c \in OnTopic, ledger' = ledger \cup {c}, delivered' = delivered
  PROVE  [Service!Next]_(Service!vars)
<1>1. OnTopic' = OnTopic
  BY DEF OnTopic
<1>2. CASE c \in ledger
  BY <1>1, <1>2 DEF Service!vars, OnTopic
<1>3. CASE c \notin ledger
  <2>1. Service!Register({c})
    BY <1>1, <1>3 DEF Service!Register, OnTopic
  <2> QED
    BY <2>1 DEF Service!Next, OnTopic
<1> QED
  BY <1>2, <1>3

\* A delivery is a broadcast of the service if the CID decodes.
LEMMA DeliverOne ==
  ASSUME FfiTypeOK, NEW t \in Calls, Deliver(t), ledger' = ledger
  PROVE  [Service!Next]_(Service!vars)
<1>1. PICK c \in Cids : c = cid[t]
  BY DEF FfiTypeOK, TypeOK, Deliver
<1>2. Decodable \subseteq Cids
  BY FfiAssumption
<1>3. \A d \in Cids : delivered'[d] > 0 <=> d = c \/ delivered[d] > 0
  BY <1>1 DEF FfiTypeOK, TypeOK, Deliver
<1>4. CASE c \in Decodable
  <2>1. Service!Broadcast(c)
    BY <1>2, <1>3, <1>4 DEF Service!Broadcast
  <2> QED
    BY <1>4, <2>1 DEF Service!Next
<1>5. CASE c \notin Decodable
  BY <1>2, <1>3, <1>5 DEF Service!vars
<1> QED
  BY <1>4, <1>5

\* Every step of the calls and of the chain is a step of the service.
LEMMA ServiceStep ==
  ASSUME FfiInv, [FfiNext]_ffiVars
  PROVE  [Service!Next]_(Service!vars)
<1>1. ASSUME NEW t \in Calls, FfiAdvance(t)
      PROVE  [Service!Next]_(Service!vars)
  <2>1. CASE IndexerStep(t)
    <3>1. ledger' = ledger
      BY <2>1 DEF IndexerStep, onChain
    <3>2. CASE Deliver(t)
      BY <3>1, <3>2, DeliverOne DEF FfiInv
    <3>3. CASE ~Deliver(t)
      <4>1. delivered' = delivered
        BY <2>1, <3>3 DEF IndexerStep, CreateFile, FillFile, StoreFile, StoreFails,
           RemoveFile, Retry, ClaimOwn, SendOk, SendFails, Undo
      <4> QED
        BY <3>1, <4>1 DEF Service!vars
    <3> QED
      BY <3>2, <3>3
  <2>2. CASE ReturnError(t) \/ ReturnOk(t) \/ Anchor(t)
    BY <2>2 DEF ReturnError, ReturnOk, Anchor, onChain, vars, Service!vars
  <2>3. CASE SpelEnds(t)
    <3>1. cid[t] \in OnTopic
      BY <2>3 DEF SpelEnds, FfiInv, CallInv, OnTopic
    <3>2. delivered' = delivered /\ (ledger' = ledger \/ ledger' = ledger \cup {cid[t]})
      BY <2>3 DEF SpelEnds, vars
    <3> QED
      BY <3>1, <3>2, RegisterOne DEF Service!vars
  <2> QED
    BY <1>1, <2>1, <2>2, <2>3 DEF FfiAdvance
<1>2. ASSUME NEW t \in Calls, FfiCall(t) \/ RuntimeFails(t)
      PROVE  [Service!Next]_(Service!vars)
  BY <1>2 DEF FfiCall, Call, RuntimeFails, onChain, vars, Service!vars
<1>3. ASSUME NEW c \in Cids, LateLands(c)
      PROVE  [Service!Next]_(Service!vars)
  <2>1. c \in OnTopic
    BY <1>3 DEF LateLands, FfiInv, FfiTypeOK, OnlyBroadcastAnchored, OnTopic
  <2>2. delivered' = delivered /\ ledger' = ledger \cup {c}
    BY <1>3 DEF LateLands, vars
  <2> QED
    BY <2>1, <2>2, RegisterOne
<1>4. CASE UNCHANGED ffiVars
  BY <1>4 DEF ffiVars, onChain, vars, Service!vars
<1> QED
  BY <1>1, <1>2, <1>3, <1>4 DEF FfiNext

\* Before the first call the service has nothing broadcast, nothing registered.
LEMMA InitService == FfiInit => Service!Init
BY FfiAssumption DEF FfiInit, Init, Service!Init

\* The calls keep the promise of AnchorService, whatever fails and however late
\* a transaction lands: they register only what was broadcast, and never take
\* a registration back.
THEOREM FfiIsAnchorService == FfiSpec => ImplementsService
<1>1. FfiInv /\ [FfiNext]_ffiVars => [Service!Next]_(Service!vars)
  BY ServiceStep
<1> QED
  BY <1>1, InitService, FfiInvariance, PTL DEF FfiSpec, ImplementsService, Service!Spec
=============================================================================
