-------------------------------- MODULE Ffi --------------------------------
(***************************************************************************)
(* From the C call to the chain: document_indexer_upload_and_anchor        *)
(* (document-indexer/src/ffi.rs) with the anchor_batch of the Indexer it   *)
(* ends in.  document_indexer_is_anchored only reads.  The calls use the   *)
(* LogosCore backend, whose payloads no batch-anchor tool can read         *)
(* (BatchAnchor, Junk): what is registered here is what the calls anchor.  *)
(*                                                                         *)
(* Every call builds an Indexer of its own, so that the steps of Indexer   *)
(* are those of independent sessions, which share the temporary files, the *)
(* topic and the chain.  The chain is what AnchorLedger promises, of which *)
(* only the set of CIDs matters here; it never fills.                      *)
(***************************************************************************)
EXTENDS Indexer

CONSTANTS
  AnchorOnChain,  \* callers with anchor_on_chain
  Decodable       \* CIDs that decode_cid turns into 46 bytes

ASSUME FfiAssumption ==
  /\ Backends = {"LogosCore"}
  /\ AnchorOnChain \subseteq Calls
  /\ Decodable \subseteq Cids

VARIABLES
  stage,   \* how far the C call of each caller is
  ledger,  \* chain: the registered CIDs
  late     \* CIDs in transactions spel has sent and nobody waits for

onChain == <<ledger, late>>
ffiVars == <<vars, stage, onChain>>

FfiTypeOK ==
  /\ TypeOK
  /\ stage \in [Calls -> {"idle", "running", "spel", "success", "error"}]
  /\ ledger \subseteq Decodable
  /\ late \subseteq Decodable

FfiInit ==
  /\ Init
  /\ stage = [t \in Calls |-> "idle"]
  /\ ledger = {}
  /\ late = {}

-----------------------------------------------------------------------------
(* The chain.                                                              *)

\* A transaction spel has given up on lands: the record is registered, or
\* skipped if its CID is registered already.
LateLands(c) ==
  /\ c \in late
  /\ late' = late \ {c}
  /\ ledger' = ledger \cup {c}
  /\ UNCHANGED <<vars, stage>>

-----------------------------------------------------------------------------
(* document_indexer_upload_and_anchor.                                     *)

Reach(t, s) == stage' = [stage EXCEPT ![t] = s]

FfiCall(t) ==
  /\ stage[t] \in {"idle", "success", "error"}
  /\ Reach(t, "running")
  /\ Call(t)
  /\ UNCHANGED onChain

\* Runtime::new fails: no Indexer is built.
RuntimeFails(t) ==
  /\ stage[t] \in {"idle", "success"}
  /\ Reach(t, "error")
  /\ UNCHANGED <<vars, onChain>>

\* Mutant: one Indexer serves all calls.
ClaimOwn_Shared(t) ==
  /\ pc[t] = "broadcast"
  /\ Goto(t, IF cid[t] \in seen THEN "ok" ELSE "send")
  /\ seen' = seen \cup {cid[t]}
  /\ UNCHANGED <<made, attempt, cid, tmp, open, delivered>>

\* The dedup set of a new Indexer is empty, and nobody else reads what this
\* call puts into it.
ClaimOwn(t) ==
  /\ pc[t] = "broadcast"
  /\ Goto(t, "send")
  /\ UNCHANGED <<made, attempt, cid, tmp, open, seen, delivered>>

\* upload_and_broadcast, on an Indexer of the call's own; its configuration is
\* the default one, so that the backend is LogosCore.
IndexerStep(t) ==
  /\ \/ CreateFile(t) \/ FillFile(t) \/ StoreFile(t) \/ StoreFails(t)
     \/ RemoveFile(t) \/ Retry(t)
     \/ ClaimOwn(t) \/ Deliver(t) \/ SendOk(t) \/ SendFails(t) \/ Undo(t)
  /\ UNCHANGED <<stage, onChain>>

Ended(t, label) == stage[t] = "running" /\ pc[t] = label

\* The error of upload_and_broadcast.
ReturnError(t) ==
  /\ Ended(t, "error")
  /\ Reach(t, "error")
  /\ UNCHANGED <<vars, onChain>>

\* Ok: published; nothing to anchor, or decode_cid fails and let _ = hides it.
ReturnOk(t) ==
  /\ Ended(t, "ok")
  /\ t \notin AnchorOnChain \/ cid[t] \notin Decodable
  /\ Reach(t, "success")
  /\ UNCHANGED <<vars, onChain>>

\* Mutant: anchors whatever upload_and_broadcast has answered.
Anchor_AnyOutcome(t) ==
  /\ Ended(t, "ok") \/ Ended(t, "error")
  /\ t \in AnchorOnChain /\ cid[t] \in Decodable
  /\ Reach(t, "spel")
  /\ UNCHANGED <<vars, onChain>>

\* Mutant: the length of the decoded CID is not checked.
Anchor_AnyLength(t) ==
  /\ Ended(t, "ok")
  /\ t \in AnchorOnChain
  /\ Reach(t, "spel")
  /\ UNCHANGED <<vars, onChain>>

\* Ok, and anchor_on_chain: anchor_batch with one entry runs spel.
Anchor(t) ==
  /\ Ended(t, "ok")
  /\ t \in AnchorOnChain /\ cid[t] \in Decodable
  /\ Reach(t, "spel")
  /\ UNCHANGED <<vars, onChain>>

\* spel ends: confirmed, or failed with the transaction refused or still in
\* flight.  The call answers success in each case.
SpelEnds(t) ==
  /\ stage[t] = "spel"
  /\ \/ ledger' = ledger \cup {cid[t]} /\ UNCHANGED late
     \/ UNCHANGED <<ledger, late>>
     \/ late' = late \cup {cid[t]} /\ UNCHANGED ledger
  /\ Reach(t, "success")
  /\ UNCHANGED vars

FfiAdvance(t) == \/ IndexerStep(t) \/ ReturnError(t) \/ ReturnOk(t)
                 \/ Anchor(t) \/ SpelEnds(t)

FfiNext ==
  \/ \E t \in Calls : FfiCall(t) \/ RuntimeFails(t) \/ FfiAdvance(t)
  \/ \E c \in Cids : LateLands(c)

FfiSpec == FfiInit /\ [][FfiNext]_ffiVars

\* A call that runs goes on: logoscore is run with --quit-on-finish, and spel
\* ends.  Nobody has to call, and late transactions owe nothing.
FfiFairSpec == FfiSpec /\ \A t \in Calls : WF_ffiVars(FfiAdvance(t))

-----------------------------------------------------------------------------
(* Properties.                                                             *)

\* A call that answers success has its envelope on the topic, whatever calls
\* with the same document fail next to it; with one shared Indexer this does
\* not hold (OkMeansBroadcast).
SuccessMeansBroadcast ==
  \A t \in Calls : stage[t] = "success" => delivered[cid[t]] > 0

\* What is on chain, or may still land, was broadcast first: a failed
\* publication leaves no trace on the registry.
OnlyBroadcastAnchored ==
  \A c \in ledger \cup late : delivered[c] > 0

\* The calls keep the promise of AnchorService, as batch-anchor does: only what
\* was broadcast is registered, and for good.
Service == INSTANCE AnchorService
             WITH Cids       <- Decodable,
                  broadcast  <- {c \in Decodable : delivered[c] > 0},
                  registered <- ledger
ImplementsService == Service!Spec

\* Every C call returns.
FfiReturns == \A t \in Calls : stage[t] = "running" ~> stage[t] \in {"success", "error"}
=============================================================================
