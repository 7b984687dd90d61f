--------------------------- MODULE RegistryTwins ---------------------------
(***************************************************************************)
(* The registry instruction exists twice: in the deployed guest and in the *)
(* library that the unit tests exercise.  Here each transaction the guest  *)
(* has executed is executed by the library as well, on an account of its   *)
(* own, so that what the tests say of one can be compared with the other.  *)
(* Alone, the guest also gets the transactions the library cannot express. *)
(* The guest is compared, too, with what BatchAnchor takes the chain to do *)
(* to the number of records per CID.                                       *)
(***************************************************************************)
EXTENDS Registry, Integers, FiniteSets

VARIABLES
  libInitialized, libRecords, libPc, libBatch, libI, libWork, libKnown, libReply,
  workload,  \* "alone": any transaction; "twins": those both can execute
  turn,      \* "guest", or the transaction the library is to execute
  alike      \* no batch so far repeats a CID

libVars == <<libInitialized, libRecords, libPc, libBatch, libI, libWork, libKnown, libReply>>
twinVars == <<vars, libVars, workload, turn, alike>>

ASSUME GuestAssumption == ~HostLibrary

SquareBatches == {b \in Batches : Square(b)}

\* The library, cid-registry/src/lib.rs.
Lib == INSTANCE Registry
         WITH HostLibrary <- TRUE, Batches <- SquareBatches,
              initialized <- libInitialized, records <- libRecords, pc <- libPc,
              batch <- libBatch, i <- libI, work <- libWork, known <- libKnown,
              reply <- libReply

\* The number of records of each CID.
Copies(rs) == [c \in Cids |-> Cardinality({k \in DOMAIN rs : rs[k].cid = c})]

\* The chain as batch-anchor sees it: a transaction of the tool carries
\* positions of the topic, here those of the batch.  Nothing else of the tool
\* matters.
Tool == INSTANCE BatchAnchor
          WITH topic <- batch.cids, initialized <- initialized, copies <- Copies(records),
               Procs <- {}, Dbs <- {}, DbOf <- <<>>, DryRun <- {}, Once <- {},
               SourceOf <- <<>>, BatchSize <- MaxBatchSize, MaxBatches <- 0, Junk <- {},
               Rebroadcast <- TRUE, MaxMessages <- 0, MaxFaults <- 0,
               orphans <- {}, pc <- <<>>, cursor <- <<>>, todo <- <<>>, entries <- <<>>,
               newCursor <- <<>>, submitted <- <<>>, anchored <- <<>>, saved <- <<>>,
               faults <- 0

Distinct(b) == \A j, k \in DOMAIN b.cids : b.cids[j] = b.cids[k] => j = k

TwinsInit ==
  /\ Init /\ Lib!Init
  /\ workload \in {"alone", "twins"}
  /\ turn = "guest"
  /\ alike = TRUE

\* The transaction has ended on the guest; the library is next.
Handover(instruction) ==
  turn' = IF workload = "twins" /\ pc' = "idle" THEN instruction ELSE turn

GuestInitialize ==
  /\ turn = "guest"
  /\ Initialize
  /\ Handover("initialize")
  /\ UNCHANGED <<libVars, workload, alike>>

GuestBegin(b) ==
  /\ turn = "guest"
  /\ workload = "twins" => b \in SquareBatches
  /\ RejectOversized(b) \/ RejectUninitialized(b) \/ BeginAnchor(b)
  /\ alike' = (alike /\ Distinct(b))
  /\ Handover("anchor_batch")
  /\ UNCHANGED <<libVars, workload>>

GuestLoop ==
  /\ turn = "guest"
  /\ AnchorLoop
  /\ Handover("anchor_batch")
  /\ UNCHANGED <<libVars, workload, alike>>

\* The same transaction on the library, step by step.
LibraryStep ==
  /\ \/ turn = "initialize" /\ Lib!Initialize
     \/ /\ turn = "anchor_batch"
        /\ \/ Lib!RejectOversized(batch)
           \/ Lib!RejectUninitialized(batch)
           \/ Lib!BeginAnchor(batch)
           \/ Lib!AnchorLoop
  /\ turn' = IF libPc' = "idle" THEN "guest" ELSE turn
  /\ UNCHANGED <<vars, workload, alike>>

TwinsNext ==
  \/ GuestInitialize
  \/ \E b \in Batches : GuestBegin(b)
  \/ GuestLoop
  \/ LibraryStep

TwinsSpec == TwinsInit /\ [][TwinsNext]_twinVars

-----------------------------------------------------------------------------
(* Properties.                                                             *)

\* As long as no batch repeats a CID, the two accounts are the same after
\* each transaction, and one version accepts it exactly when the other does:
\* so far, what the unit tests show of the library holds of the guest.
SameAccount ==
  workload = "twins" /\ turn = "guest" /\ pc = "idle" /\ alike
    => /\ libRecords = records
       /\ libInitialized = initialized
       /\ libReply = "ok" <=> reply = "ok"

\* The library keeps one record per CID, in batches that repeat one too
\* ("a CID repeated within one batch must register once",
\* cid-registry/src/lib.rs:195).
LibraryRegistersOnce == Lib!OneRecordPerCid

\* The two models agree on the chain: a batch of the tool, whose CIDs decode
\* and whose vectors have equal lengths, is accepted by the deployed program
\* exactly when BatchAnchor lets it, and leaves the copies BatchAnchor says.
\* A batch that is refused before the loop, because it is too long or the
\* registry is not initialised, is one BatchAnchor refuses.
SentByTool == Square(batch) /\ \A k \in DOMAIN batch.cids : batch.cids[k] \in Cids

ToolAccepts == Tool!Accepts(DOMAIN batch.cids)

RefusedAtOnce == pc = "idle" /\ pc' = "idle" /\ reply' = "ERR_BATCH_TOO_LARGE"

ChainAgrees ==
  [][/\ pc = "loop" /\ pc' = "idle" /\ SentByTool
         => /\ reply' = "ok" <=> ToolAccepts
            /\ Copies(records') = IF ToolAccepts THEN Tool!NewCopies(DOMAIN batch.cids)
                                                 ELSE Copies(records)
     /\ RefusedAtOnce /\ SentByTool' => ~ToolAccepts' /\ records' = records]_vars
=============================================================================
