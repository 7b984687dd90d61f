---------------------------- MODULE BatchAnchor ----------------------------
(***************************************************************************)
(* The batch-anchor tool (batch-anchor-cli/src/main.rs): processes that    *)
(* read the delivery topic a page at a time, leave out what their SQLite   *)
(* database marks as anchored, submit the rest in one transaction, mark    *)
(* the CIDs one by one and save their cursor.  Nobody coordinates them;    *)
(* any of them can be killed between two steps and be started again.       *)
(*                                                                         *)
(* The chain is what Registry.tla does to the number of records per CID,   *)
(* once somebody has initialised it.  A message's seq is its position in   *)
(* the topic.                                                              *)
(***************************************************************************)
EXTENDS Integers, Sequences, FiniteSets, FiniteSetsExt

CONSTANTS
  Procs,         \* invocations of `batch-anchor run`
  Dbs, DbOf,     \* state databases, and --state-db of each process
  DryRun, Once,  \* the processes with --dry-run, with --once
  SourceOf,      \* --delivery-source of each process, see Sources
  BatchSize,     \* --batch-size
  MaxBatches,    \* --max-batches, 0: no limit
  Cids,          \* CIDs that decode to 46 bytes
  BadCids,       \* strings that do not
  Junk,          \* messages whose payload is no envelope, such as the hex of
                 \* an envelope that the LogosCore backend sends
  Rebroadcast,   \* may a message be published more than once?
  MaxBatchSize,  \* limit of the on-chain program
  Capacity,      \* number of records the registry account holds
  MaxMessages,   \* bound: messages ever published
  MaxFaults      \* bound: crashes and failures injected

\* "file": file:<path>.  The others are http:<url>, of which the tool removes
\* every leading "http:".  Of "https", that is http:https://host, a URL is
\* left; of "http", http://host or http:http://host, only //host, which is none.
Sources == {"file", "https", "http"}

ASSUME ConstAssumption ==
  /\ DbOf \in [Procs -> Dbs]
  /\ DryRun \subseteq Procs /\ Once \subseteq Procs
  /\ SourceOf \in [Procs -> Sources]
  /\ Rebroadcast \in BOOLEAN
  /\ {BatchSize, MaxBatches, MaxBatchSize, Capacity, MaxMessages, MaxFaults} \subseteq Nat
  /\ Cids \cap BadCids = {} /\ Cids \cap Junk = {} /\ BadCids \cap Junk = {}

VARIABLES
  topic,      \* the delivery queue
  initialized, \* chain: the registry account holds a state
  copies,     \* chain: number of records per CID
  orphans,    \* transactions in flight whose submitter is gone
  pc,         \* where each process is
  cursor,     \* cursor, in memory
  todo,       \* messages of the page not examined yet
  entries,    \* messages to anchor; then, those not marked yet
  newCursor,  \* new_cursor
  submitted,  \* batches_submitted
  anchored,   \* table anchored of each database
  saved,      \* 'cursor' in table state of each database
  faults      \* failures injected so far

chain == <<initialized, copies, orphans>>
locals == <<cursor, todo, entries, newCursor, submitted>>
disk == <<anchored, saved>>
vars == <<topic, chain, pc, locals, disk, faults>>

Messages == Cids \cup BadCids \cup Junk

OnChain(c) == copies[c] > 0

TypeOK ==
  /\ topic \in Seq(Messages)
  /\ initialized \in BOOLEAN
  /\ copies \in [Cids -> Nat]
  /\ orphans \subseteq SUBSET DOMAIN topic
  /\ pc \in [Procs -> {"down", "poll", "filter", "sent", "mark"}]
  /\ cursor \in [Procs -> Nat]
  /\ todo \in [Procs -> SUBSET DOMAIN topic]
  /\ entries \in [Procs -> SUBSET {k \in DOMAIN topic : topic[k] \in Cids}]
  /\ newCursor \in [Procs -> Nat]
  /\ submitted \in [Procs -> Nat]
  /\ anchored \in [Dbs -> SUBSET Cids]
  /\ saved \in [Dbs -> Nat]
  /\ faults \in Nat

Init ==
  /\ topic = <<>>
  /\ initialized = FALSE
  /\ copies = [c \in Cids |-> 0]
  /\ orphans = {}
  /\ pc = [p \in Procs |-> "down"]
  /\ cursor = [p \in Procs |-> 0]
  /\ todo = [p \in Procs |-> {}]
  /\ entries = [p \in Procs |-> {}]
  /\ newCursor = [p \in Procs |-> 0]
  /\ submitted = [p \in Procs |-> 0]
  /\ anchored = [d \in Dbs |-> {}]
  /\ saved = [d \in Dbs |-> 0]
  /\ faults = 0

-----------------------------------------------------------------------------
(* Delivery.                                                               *)

Publish(m) ==
  /\ Len(topic) < MaxMessages
  /\ Rebroadcast \/ \A k \in DOMAIN topic : topic[k] # m
  /\ topic' = Append(topic, m)
  /\ UNCHANGED <<chain, pc, locals, disk, faults>>

\* The file loop pushes before it compares, so a limit of 0 acts as 1.
Limit(p) == IF SourceOf[p] = "file" /\ BatchSize = 0 THEN 1 ELSE BatchSize

\* The positions a poll after the cursor of p looks at.
Window(p) == {k \in DOMAIN topic : cursor[p] < k /\ k <= cursor[p] + Limit(p)}

\* What a poll returns if it does not fail: messages that are no envelopes
\* are left out.
Page(p) == {k \in Window(p) : topic[k] \notin Junk}

\* The poll fails: on a file with a message that is no envelope, over http
\* because reqwest refuses what is left of the URL.
Poisoned(p) ==
  \/ SourceOf[p] = "file" /\ Page(p) # Window(p)
  \/ SourceOf[p] = "http"

-----------------------------------------------------------------------------
(* The chain.                                                              *)

\* Somebody runs `spel -- initialize`; the program refuses a second one.
Initialize ==
  /\ ~initialized
  /\ initialized' = TRUE
  /\ UNCHANGED <<topic, copies, orphans, pc, locals, disk, faults>>

\* Mutant: the program does not look for the CID among its records.
NewCopies_NoCheck(S) ==
  [c \in Cids |-> copies[c] + Cardinality({k \in S : topic[k] = c})]

\* Mutant: the account is overwritten with the records of the batch.
NewCopies_Overwrite(S) ==
  [c \in Cids |-> Cardinality({k \in S : topic[k] = c})]

\* Records per CID after a transaction with the CIDs of S: one that has a
\* record is skipped; another is pushed as often as the batch repeats it.
NewCopies(S) ==
  [c \in Cids |-> IF OnChain(c) THEN copies[c]
                                ELSE Cardinality({k \in S : topic[k] = c})]

\* The records of a registry that holds f[c] of each CID c.
RecordsOf(f) == UNION {{c} \X (1..f[c]) : c \in Cids}

\* Until it is initialised the registry refuses every batch.
Accepts(S) ==
  /\ initialized
  /\ Cardinality(S) <= MaxBatchSize
  /\ Cardinality(RecordsOf(NewCopies(S))) <= Capacity

\* A transaction without a submitter may land at any time, or never.
OrphanLands(S) ==
  /\ S \in orphans
  /\ orphans' = orphans \ {S}
  /\ copies' = IF Accepts(S) THEN NewCopies(S) ELSE copies
  /\ UNCHANGED <<topic, initialized, pc, locals, disk, faults>>

-----------------------------------------------------------------------------
(* One process.                                                            *)

Goto(p, label) == pc' = [pc EXCEPT ![p] = label]

\* The process ends and its memory is gone; the database stays.
Exit(p) ==
  /\ Goto(p, "down")
  /\ cursor' = [cursor EXCEPT ![p] = 0]
  /\ todo' = [todo EXCEPT ![p] = {}]
  /\ entries' = [entries EXCEPT ![p] = {}]
  /\ newCursor' = [newCursor EXCEPT ![p] = 0]
  /\ submitted' = [submitted EXCEPT ![p] = 0]

\* The end of an iteration: save_cursor, then on to the next page unless
\* --once.  count: the iteration adds to batches_submitted, which only
\* --max-batches reads.
EndPage(p, count) ==
  /\ saved' = [saved EXCEPT ![DbOf[p]] = newCursor[p]]
  /\ \/ p \in Once /\ Exit(p)
     \/ /\ p \notin Once
        /\ Goto(p, "poll")
        /\ cursor' = [cursor EXCEPT ![p] = newCursor[p]]
        /\ todo' = [todo EXCEPT ![p] = {}]
        /\ entries' = [entries EXCEPT ![p] = {}]
        /\ newCursor' = [newCursor EXCEPT ![p] = 0]
        /\ submitted' = [submitted EXCEPT ![p] =
                           IF count /\ MaxBatches > 0 THEN @ + 1 ELSE @]

\* main and run: the cursor comes from the database.
Start(p) ==
  /\ pc[p] = "down"
  /\ Goto(p, "poll")
  /\ cursor' = [cursor EXCEPT ![p] = saved[DbOf[p]]]
  /\ UNCHANGED <<topic, chain, todo, entries, newCursor, submitted, disk, faults>>

Polls(p) ==
  /\ pc[p] = "poll"
  /\ MaxBatches = 0 \/ submitted[p] < MaxBatches

\* reached max_batches, stopping.
StopAtMax(p) ==
  /\ pc[p] = "poll"
  /\ MaxBatches > 0 /\ submitted[p] >= MaxBatches
  /\ Exit(p)
  /\ UNCHANGED <<topic, chain, disk, faults>>

PollFails(p) ==
  /\ Polls(p) /\ Poisoned(p)
  /\ Exit(p)
  /\ UNCHANGED <<topic, chain, disk, faults>>

\* No message: with --once the process ends; otherwise it sleeps and polls
\* again, which changes nothing.
PollEmpty(p) ==
  /\ Polls(p) /\ ~Poisoned(p) /\ Page(p) = {}
  /\ p \in Once
  /\ Exit(p)
  /\ UNCHANGED <<topic, chain, disk, faults>>

Poll(p) ==
  /\ Polls(p) /\ ~Poisoned(p) /\ Page(p) # {}
  /\ Goto(p, "filter")
  /\ todo' = [todo EXCEPT ![p] = Page(p)]
  /\ entries' = [entries EXCEPT ![p] = {}]
  /\ newCursor' = [newCursor EXCEPT ![p] = cursor[p]]
  /\ UNCHANGED <<topic, chain, cursor, submitted, disk, faults>>

\* Mutant: an invalid CID ends the process instead of being skipped.
Examine_Bail(p) ==
  /\ pc[p] = "filter" /\ todo[p] # {}
  /\ LET k == Min(todo[p]) IN
       /\ newCursor' = [newCursor EXCEPT ![p] = k]
       /\ todo' = [todo EXCEPT ![p] = @ \ {k}]
       /\ entries' = [entries EXCEPT ![p] =
                        IF topic[k] \in Cids \ anchored[DbOf[p]] THEN @ \cup {k} ELSE @]
       /\ Goto(p, IF topic[k] \in BadCids THEN "down" ELSE "filter")
  /\ UNCHANGED <<topic, chain, cursor, submitted, disk, faults>>

\* Mutant: a CID that does not decode is anchored all the same.
Examine_NoDecode(p) ==
  /\ pc[p] = "filter" /\ todo[p] # {}
  /\ LET k == Min(todo[p]) IN
       /\ newCursor' = [newCursor EXCEPT ![p] = k]
       /\ todo' = [todo EXCEPT ![p] = @ \ {k}]
       /\ entries' = [entries EXCEPT ![p] =
                        IF topic[k] \notin anchored[DbOf[p]] THEN @ \cup {k} ELSE @]
  /\ UNCHANGED <<topic, chain, pc, cursor, submitted, disk, faults>>

\* One message of the page: skipped when the database has its CID, or when
\* the CID does not decode.
Examine(p) ==
  /\ pc[p] = "filter" /\ todo[p] # {}
  /\ LET k == Min(todo[p]) IN
       /\ newCursor' = [newCursor EXCEPT ![p] = IF k > @ THEN k ELSE @]
       /\ todo' = [todo EXCEPT ![p] = @ \ {k}]
       /\ entries' = [entries EXCEPT ![p] =
                        IF topic[k] \in Cids \ anchored[DbOf[p]] THEN @ \cup {k} ELSE @]
  /\ UNCHANGED <<topic, chain, pc, cursor, submitted, disk, faults>>

Filtered(p) == pc[p] = "filter" /\ todo[p] = {}

\* Nothing is submitted for this page: there is nothing to anchor, or --dry-run
\* prints it.  The cursor is saved all the same.
SkipPage(p) ==
  /\ Filtered(p)
  /\ p \notin DryRun => entries[p] = {}
  /\ EndPage(p, entries[p] # {})
  /\ UNCHANGED <<topic, chain, anchored, faults>>

\* Mutant: the cursor is saved before the transaction is confirmed.
Submit_SaveFirst(p) ==
  /\ Filtered(p) /\ entries[p] # {} /\ p \notin DryRun
  /\ Goto(p, "sent")
  /\ saved' = [saved EXCEPT ![DbOf[p]] = newCursor[p]]
  /\ UNCHANGED <<topic, chain, locals, anchored, faults>>

\* Mutant: the tool does not wait for the transaction.
Submit_NoWait(p) ==
  /\ Filtered(p) /\ entries[p] # {} /\ p \notin DryRun
  /\ Goto(p, "mark")
  /\ orphans' = orphans \cup {entries[p]}
  /\ UNCHANGED <<topic, initialized, copies, locals, disk, faults>>

\* anchor_via_spel sends the transaction and waits for spel.
Submit(p) ==
  /\ Filtered(p) /\ entries[p] # {} /\ p \notin DryRun
  /\ Goto(p, "sent")
  /\ UNCHANGED <<topic, chain, locals, disk, faults>>

\* spel reports success once the transaction is confirmed.
Confirmed(p) ==
  /\ pc[p] = "sent" /\ Accepts(entries[p])
  /\ copies' = NewCopies(entries[p])
  /\ Goto(p, "mark")
  /\ UNCHANGED <<topic, initialized, orphans, locals, disk, faults>>

\* The program refuses the batch, spel fails and the process with it.
Rejected(p) ==
  /\ pc[p] = "sent" /\ ~Accepts(entries[p])
  /\ Exit(p)
  /\ UNCHANGED <<topic, chain, disk, faults>>

\* mark_anchored, one CID at a time.
Mark(p) ==
  /\ pc[p] = "mark" /\ entries[p] # {}
  /\ LET k == Min(entries[p]) IN
       /\ anchored' = [anchored EXCEPT ![DbOf[p]] = @ \cup {topic[k]}]
       /\ entries' = [entries EXCEPT ![p] = @ \ {k}]
  /\ UNCHANGED <<topic, chain, pc, cursor, todo, newCursor, submitted, saved, faults>>

SaveCursor(p) ==
  /\ pc[p] = "mark" /\ entries[p] = {}
  /\ EndPage(p, TRUE)
  /\ UNCHANGED <<topic, chain, anchored, faults>>

\* The process is killed, or a failing read of the source or of the
\* database, or spel giving up, ends it.  What spel has sent is in flight.
Crash(p) ==
  /\ pc[p] # "down" /\ faults < MaxFaults
  /\ faults' = faults + 1
  /\ orphans' = IF pc[p] = "sent" THEN orphans \cup {entries[p]} ELSE orphans
  /\ Exit(p)
  /\ UNCHANGED <<topic, initialized, copies, disk>>

Step(p) == \/ Start(p) \/ StopAtMax(p) \/ PollFails(p) \/ PollEmpty(p) \/ Poll(p)
           \/ Examine(p) \/ SkipPage(p) \/ Submit(p)
           \/ Confirmed(p) \/ Rejected(p) \/ Mark(p) \/ SaveCursor(p)

Next == \/ Initialize
        \/ \E m \in Messages : Publish(m)
        \/ \E S \in orphans : OrphanLands(S)
        \/ \E p \in Procs : Step(p) \/ Crash(p)

Spec == Init /\ [][Next]_vars

\* A process that is up runs, the sequencer answers a submitter that waits,
\* and a process that ended is started again.  Whoever deploys the program
\* initialises the registry.  Orphans owe nothing.
Fairness == WF_vars(Initialize) /\ \A p \in Procs : WF_vars(Step(p))

FairSpec == Spec /\ Fairness

-----------------------------------------------------------------------------
(* Properties.                                                             *)

\* What a database marks as anchored is on chain: no crash, lost answer or
\* other process makes is_anchored lie.
LocalAnchoredOnChain == \A d \in Dbs : \A c \in anchored[d] : OnChain(c)

\* A saved cursor never passes a message that is not on chain: whatever
\* the interruption, a restart does not lose a document.
NothingSkipped ==
  \A d \in Dbs : \A k \in DOMAIN topic :
     k <= saved[d] /\ topic[k] \in Cids => OnChain(topic[k])

\* One record per CID, however many processes anchor it and however often
\* ("Idempotent", batch-anchor-cli/src/main.rs:5-6).
OneRecordPerCid == \A c \in Cids : copies[c] <= 1

\* The pipeline of topic, tools and chain registers only what was broadcast,
\* for good, and in the end all of it.
Service == INSTANCE AnchorService
             WITH broadcast  <- {c \in Cids : \E k \in DOMAIN topic : topic[k] = c},
                  registered <- {c \in Cids : OnChain(c)}
ImplementsService == Service!Spec
EventuallyAnchored == Service!Live

\* When the last message has been published, the cursor of every database that
\* some process can poll for gets past all envelopes, and stays there: processes
\* on one database do not set each other back for ever.
CatchesUp ==
  \A d \in Dbs :
     (\E p \in Procs : DbOf[p] = d /\ SourceOf[p] # "http")
       => <>[](\A k \in DOMAIN topic : topic[k] \notin Junk => saved[d] >= k)
=============================================================================
