# TLA+ models of logos-whistleblower

This directory holds the formal models of the Whistleblower repository: TLA+
modules translated from the source, TLC configurations that check them on small
instances, and TLAPS proofs of what matters most for every instance.
All paths below are relative to the repository.

## 1. The system

A publisher uploads a document to content-addressed storage and broadcasts an
envelope with its CID on a delivery topic. Anybody may run `batch-anchor`, which
reads the topic and registers the CIDs in an on-chain program. The CID is the key
that joins the three parts.

| component | state | operations | talks to |
|---|---|---|---|
| **CID registry** `cid-registry/src/{main,lib}.rs` | `RegistryState.records` in one account (a PDA) | `initialize`, `anchor_batch`, `query_by_cid` | called by `spel` transactions |
| **batch-anchor** `batch-anchor-cli/src/main.rs` | SQLite: table `anchored`, `cursor`; in memory: cursor, page, entries, batches_submitted | `run` (poll, filter, submit, mark, save cursor), `status` | delivery queue (file or HTTP), the chain through `spel`, database (possibly shared) |
| **document-indexer** `document-indexer/src/lib.rs` | `broadcasted`, the dedup set of the session; temporary files | `upload_and_broadcast`, `anchor_batch`, `is_anchored` | storage and delivery (HTTP or `logoscore`), `spel` |
| **C FFI** `document-indexer/src/ffi.rs` | none (an Indexer per call) | `document_indexer_upload_and_anchor`, `document_indexer_is_anchored` | Indexer |
| **Basecamp application** `basecamp-app/` | `status`, `uploading`, `lastCid`; the text of the status bar and its binding | `uploadFile`, `runBatchAnchor` | storage and delivery over HTTP, by callbacks |
| external: storage, delivery, sequencer, `spel` | the documents, the topic, the account | | modelled from the way the code uses them |
| scripts, CI, IDL | the queue file of the demo | | |

What is hard in each, and what makes it correct:

* **Registry.** An instruction is atomic on chain but its loop has five ways out,
  some of them after records were pushed; the three argument vectors may have
  different lengths; the instruction exists twice, in the deployed guest and in
  the unit-tested library. *Correct*: nothing stored is lost or changed, a failed
  batch stores nothing, an accepted one registers all its CIDs with the hashes
  that belong to them, and each CID once.
* **batch-anchor.** Any number of uncoordinated processes, each with several
  durable writes per page (chain, marks, cursor), killed anywhere, with answers of
  `spel` lost, sharing databases, reading messages of any quality. *Correct*: a
  mark or a cursor never claims more than the chain holds, everything valid is
  registered in the end, and once.
* **document-indexer.** Concurrent calls on one dedup set with a network call
  between its two critical sections, answers lost after delivery, retries, and a
  temporary file that calls with equal data share. *Correct*: one sender per CID,
  failures poison nothing, an acknowledged CID is never sent again, the CID
  returned is that of the data, each call ends.
* **C FFI.** Each call has an Indexer and a runtime of its own, so that what one
  Indexer coordinates in memory (the dedup set) is not coordinated between calls,
  while the temporary file, the topic and the chain are shared; the outcome of the
  anchoring is dropped. *Correct*: success means broadcast, nothing is registered
  that was not broadcast, each call returns.
* **Basecamp application.** Two chained asynchronous requests with four ways to
  end, one flag and one status for all of them, a QML binding that an
  assignment removes. *Correct*: the flag is released on each way, nothing is called
  published that is not, the user reads the outcome.

The full list of hazards, each at its line, with the properties that cover it or
the reason why none does, is under `hazards` in `PROJECT.json`.

## 2. Modules

| module | what it is |
|---|---|
| `AnchorLedger` | abstract: what readers of the registry may rely on |
| `Registry` | the registry program, iteration by iteration |
| `RegistryTwins` | the guest and the library, given the same transactions |
| `MCRegistry`, `MCTwins` | transactions for TLC |
| `RegistryProofs` | theorems about `Registry` |
| `RegistryTwinsProofs` | that the guest and the library end with the same account, and that the chain of `BatchAnchor` is this program |
| `AnchorService` | abstract: broadcast CIDs get registered, for good |
| `BatchAnchor` | processes of `batch-anchor run`, topic, chain, databases |
| `MCBatchAnchor` | instances |
| `BatchAnchorProofs` | theorems about `BatchAnchor` |
| `BatchServiceProofs` | that `BatchAnchor` registers once and implements `AnchorService` |
| `DeliveryPoll` | `poll_delivery` over queues numbered in any order |
| `DeliveryPollProofs` | theorems about `DeliveryPoll`, and that `BatchAnchor` polls as it does |
| `Indexer` | concurrent `upload_and_broadcast` calls |
| `MCIndexer` | instances |
| `IndexerProofs` | theorems about `Indexer` |
| `Ffi` | the C calls: an `Indexer` per call, and what it anchors itself; extends `Indexer` |
| `MCFfi` | instances |
| `FfiProofs` | theorems about `Ffi`, among them that it implements `AnchorService` |
| `App` | the Basecamp application, C++ and QML |
| `AppProofs` | theorems about `App` |

Definitions named `X_Something` with a comment "Mutant:" are plausible errors in
`X`. They are part of no specification: replacing `X` by one of them makes the
property it is listed with in `PROJECT.json` fail, which shows that the property
can fail.

### Registry

`HostLibrary` selects the version. `records` and `initialized` are the account;
`batch`, `i`, `work`, `known` are the arguments, the loop index, `state.records`
and `existing`/`seen` of the instruction that runs; `reply` is the outcome of the
last transaction. A transaction begins with `Initialize`, `RejectOversized`,
`RejectUninitialized` or `BeginAnchor`; then each iteration is one of
`RejectInvalidCid`, `SkipKnown`, `IndexPanic`, `Push`, and the end is
`StateTooLarge` or `Commit`. Only `Commit` and `Initialize` change the account.
The sequencer runs one transaction at a time. The differences
between the versions are kept: the order of the size check and of deserialising,
the error code or panic for an account that is not initialised, and
`contains` in the guest where the library has `insert`. `Capacity` stands for the
size limit of `Data`, in records. A CID is a model value, in `Cids` if it
has 46 bytes and in `BadCids` if not.

`Lookup(records)` (that is `query_by_cid`, which finds the first record of a CID)
is the refinement mapping to `AnchorLedger`.

### RegistryTwins

`Registry` runs as the guest, and an instance `Lib` of the same module as the
library on an account of its own. After each transaction of the guest the library
executes the same one (`turn`), and the two accounts are compared. With
`workload = "alone"` the guest also gets what the library's type cannot express,
vectors of different lengths. `Tool` is an instance of `BatchAnchor` over the records
of the account: `BatchAnchor` does not run the program but says what a
transaction does to the number of records per CID, and `ChainAgrees` compares that with what the
guest does, at the end of the loop and where a batch is refused before it
(`RefusedAtOnce`).

### BatchAnchor

`topic` is the delivery queue; a message is its CID, or a member of `Junk` when its
payload does not parse as an envelope, and its `seq` is its position. The chain is
reduced to `initialized` and `copies`, the number of records per CID; `NewCopies` and
`Accepts` are what the guest of `Registry` does to that number (a registered CID is
skipped, a new one pushed as often as the batch repeats it, the batch refused when
nobody has initialised the registry, when it is too long, or when its records,
`RecordsOf`, do not fit). `Initialize` is the deployer's transaction; a tool that
submits before it is refused. Per process, `pc` is "poll", "filter" (the page is being examined),
"sent" (`spel` runs) and "mark" (`mark_anchored` for each entry, then `save_cursor`), or
"down". Every database access that another process or a crash can see apart is a step of
its own: `Examine` reads one mark, `Mark` writes one, `EndPage` writes the cursor. A
page of which nothing is submitted, because nothing is left of it or because of
`--dry-run`, is `SkipPage`.

`SourceOf` is `--delivery-source`, in the three forms `poll_delivery` tells apart. A file
with junk on the page fails the poll and ends the process. An http bridge drops the
message silently, if there is a URL to ask: `trim_start_matches` removes every leading
`http:` (`main.rs:129`), so that of `http:https://host` the URL `https://host` is left
("https"), while `http://host` and `http:http://host` become `//host`, which `reqwest`
refuses ("http"). Each poll of the latter fails (`Poisoned`).

`Crash` ends a process anywhere; it stands for a kill and for the errors of the
source, the database or `spel` that `?` turns into the end of the process. If
`spel` was running its transaction becomes an orphan, and lands at any time later
(`OrphanLands`), or never.

### DeliveryPoll

In `BatchAnchor` the `seq` of a message is its position, which is what the
repository's own writer produces. Here it is whatever a writer chooses:
`queue` is a sequence of lines, each with a number (a line without one counts as 0)
and a kind ("malformed" is no JSON, for example half a line; "junk" is no
envelope). `Truncate` is the first thing `scripts/publish-demo-docs.sh` does.
`Eligible`, `Taken`, `Page` and `Fails` are the filter, the limit, the envelopes and
the errors of `poll_delivery`; processing is reduced to `SavePage`. `past` records
in each line where the reader was when it was written, and `handled` the
lines processed; the program has neither, they are there to state the properties.
`source` has the forms of `BatchAnchor`'s `SourceOf`.
`Tool(s)` is `BatchAnchor` over the same messages: `PagesAgree` says that on a
queue numbered by position (`Numbered`) its `Page` and `Poisoned` are the `Page` and
`Fails` of this module, so that what the two models leave to each other fits.

### Indexer

One slot per caller; `backend` is the configuration of the Indexer and never changes.
`CreateFile` and `FillFile` are the two halves of `tokio::fs::write` (truncate, write),
so that another call can act between them; `open` knows whether the file a call holds
open is still the one under the name. `StoreFile` is what `logoscore` reads and answers;
`RemoveFile` the removal before the exit status is looked at. `Deduplicate` and `Claim`
are the first critical section of `broadcast`, `Undo` the second. `Deliver` and `SendOk`
or `SendFails` separate the envelope's arrival on the topic from the caller's knowledge
of it. Storage is content addressed: a document stands for its CID; `Truncated` is the
CID of an incomplete file. `Alone(t)` tells the callers that no other shares a document
with: `UnsharedIsSafe` draws the boundary of the two disagreements of section 6 that
concern this module.

### Ffi

`stage` is how far the C call of each caller is; while it is "running" the steps are
those of `Indexer`, except that `ClaimOwn` stands for `Deduplicate` and `Claim`: the set
of a new Indexer is empty. `Anchor` begins the `spel` of `anchor_batch`, `SpelEnds` ends
it with the three things that can happen to the transaction, and the answer is success
in each case. `LateLands` is the transaction that lands afterwards. What a tool anchors
has no part here: with LogosCore, which is the backend of every FFI call, the payload is
hex of the envelope, and to `BatchAnchor` that is `Junk`. `document_indexer_is_anchored`
only reads and is left out. `RuntimeFails` is the failure of `Runtime::new`. The
refinement mapping `Service` takes the CIDs that decode and are on the topic as
broadcast, and `ledger` as registered: the calls keep the promise the tools keep in
`BatchAnchor`, its safety part `Service!Spec`.

### App

One thread: an action is a click or a callback. `request` is what each upload
waits for. `SetStatus` is `setStatus` together with the binding
`text: whistleblower.status`; `Finished` is the signal `uploadFinished` together
with the handler in `Main.qml`, whose assignment ends the binding (`bound`). The
order of both inside a callback is kept: the outcome is assigned after the status.
`Deliver` separates the arrival of the envelope from the answer.

## 3. Runs

These runs check properties that hold. Six more show the disagreements between
code and documentation of section 6, one property each.

| run | instance | question |
|---|---|---|
| `registry_twins` | guest and library, 2 CIDs, 1 bad CID, limit 2, capacity 2, 2 hashes, argument vectors of every length 0..2 and oversized batches | nothing stored is lost, changed or paired wrongly (`AppendOnly`, `NewRecordsFresh`), ok means registered, readers see the `AnchorLedger`; the tested library and the deployed guest agree unless a batch repeats a CID (`SameAccount`), and the library registers such a CID once; `BatchAnchor`'s chain is this program (`ChainAgrees`) |
| `batch_live` | 2 fair processes on the queue file with one database, one of them `--once`, and a third on a plain http bridge with another; all `--max-batches 1`; 2 CIDs, a bad CID, pages of 2, 1 fault | everything is registered, once, and the cursor catches up (`EventuallyAnchored`, `CatchesUp`); marks and cursors claim nothing that is not on chain; implements `AnchorService` |
| `delivery_poll` | file, https bridge and plain http bridge, every queue of up to 3 lines numbered 0..3 in any order, pages of 2, torn lines, junk, truncation | only disorder makes the cursor pass an unprocessed envelope (`OnlyDisorderSkips`), nothing is processed twice, each envelope that no bad line blocks is processed; the pages are those of `BatchAnchor` (`PagesAgree`) |
| `indexer_calls` | 3 callers (2 with equal data), 3 calls in all, HTTP and LogosCore, 3 attempts | `OneSender`, `NoPoison`, `SettledForGood`; no call harms one with another document (`UnsharedIsSafe`) |
| `ffi_calls` | 2 fair callers with equal data, one of them with `anchor_on_chain`, 4 calls in all, LogosCore, 2 attempts | success means broadcast, only what was broadcast is registered, each call returns; implements `AnchorService` |
| `app` | 3 uploads, one with anchoring, the batch-anchor button at any time | the flag is true, the window shows nothing in vain, the outcome stays readable, each upload ends |

Why the bounds are enough: the limit 2 of the registry gives batches that are empty,
full and oversized, with the same CID twice, a known and a new one, a bad one after a
good one; capacity 2 is exceeded by a guest batch with a repetition after another one.
Two processes show each pair of steps in both orders, on one database; the third shows
that a process with a database of its own does not disturb them. Three messages make
more than one page of 2. A fault leaves an orphan of the dead attempt in flight next to
the second attempt. Re-broadcasts, more than one fault, dry runs and other assignments
of databases are covered by the theorems of section 5 for the safety properties. Three
lines and a limit of 2 let the limit cut, with every relation between the numbers on
both sides of the cut. Three callers let one fail while a second with the same CID waits
and a third, with another CID, succeeds; `indexer_calls` has the code's three attempts,
`ffi_calls` two: what a call does after a failed attempt does not depend on which one it
was, except at the last. Three uploads let two end in different ways before a third
begins. Nothing in the code depends on larger numbers, and the theorems of section 5
remove the bounds for the safety properties they state.

`MaxMessages`, `MaxFaults`, `MaxLines`, `MaxSeq` and `MaxCalls` are bounds of the models
and appear in `Publish`, `Crash`, `Write` and `Call` only (and in the type of a line).
`CHECK_DEADLOCK FALSE` stands where the system may stop: when all messages are published
and processed the tool only polls, which changes nothing, and when the calls of an
Indexer are over nobody has to make another.

## 4. Fairness

* `BatchAnchor!FairSpec`: weak fairness of `Step(p)` for each process. A process
  that is up runs its loop (it is one thread, each operation ends); the sequencer
  answers a submitter that waits (`spel` ends with success or error); a process
  that ended is started again (`Start` is part of `Step`). The last is the
  operator's part, which the tool's documentation counts on ("survive
  interruption, so a restart ..."); without it no tool could register anything.
  `Initialize` is fair too: it is the deployer's part, without which the registry refuses
  every batch. `Crash` is bounded, and neither orphans nor publishers are fair.
  Restarting does not hide wrong behaviour: the tool stuck behind a page of junk
  (`batch_head_of_line`) or without a URL (`batch_http_bridge`) is restarted too, and stays
  stuck. Liveness is claimed for a queue file without junk, which at least one process
  reads, a `Capacity` that suffices and pages the program accepts.
* `Ffi!FfiFairSpec`: weak fairness of each call that runs, `FfiAdvance(t)`.
  `logoscore` is run with `--quit-on-finish`, `spel` ends, and
  the runtime polls the future until it is done. That `logoscore` itself always ends is
  assumed: the code sets no timeout for it. Neither callers nor late transactions are fair.
* `DeliveryPoll!FairSpec`: weak fairness of `Poll \/ SavePage`, one reader in a
  loop that is started again when a poll fails. Writers owe nothing, not even the rest of a line.
* `App!FairSpec`: weak fairness of `Answer(u)`: a request ends. Qt sets no
  timeout unless asked, and the code does not ask, so this is an assumption about
  the network: if storage keeps the connection open for ever, the button stays disabled
  for ever.

## 5. Proofs

All for any constants that satisfy the module's `ConstAssumption`.

**`RegistryProofs`.** `TypeCorrect`; `OkRegisters`; `NothingErased`;
`OnlyFreshRecords`; `RegisteredOnce`; `LedgerImplemented`. The invariant that carries them is
`IInv == TypeOK /\ LoopInv /\ OkMeansRegistered`. None of the properties is
inductive alone, since nothing in them speaks of a running loop. `LoopInv` says of the instruction's
copy that it begins with the stored list, that each further record is the entry of a
visited position with a CID the account does not hold, that every visited CID is
in the copy, and what `known` is in each version. Commit then carries these over to the
account. `RegisteredOnce` needs `HostLibrary \/ DistinctBatches`: the guest keeps
one record per CID only if no batch repeats one (see section 6). `LedgerImplemented`
needs no such condition: a second record of a CID lies behind the first, which is the
one `query_by_cid` finds (`LookupKeeps`), and a committed batch adds at most as many
CIDs as it has positions (`FewCids`).

**`RegistryTwinsProofs`.** `TwinsAgree` (`SameAccount`), for any batch limit, capacity and
batches. The two versions do not run in step: the guest has ended when the library
begins. `TwinsInv` therefore keeps the `Trace` of the guest's loop, its copy of the list
before each position of the batch. Without a repeated CID the copy holds a CID
exactly when the stored list does (`TraceKnows`), so the library's larger set decides
as the guest's does, its copy at position j is the trace's, and it stops where the
guest stopped, for the same reason (`LoopEnded`).

`ChainsAgree` (`ChainAgrees`) joins the proofs about the program with those about the
tool: what `BatchAnchor` assumes of the chain is what the guest does, with batches that
repeat a CID too. `ChainInv` says that the guest's copy holds, of each CID, as many records as
`BatchAnchor` counts over the positions visited so far, and that both lists have
the length `RecordsOf` counts. Each iteration then adds one position to both sides
(`NewCopiesStep`, `CopiesAppend`, `FilledAppend`). At the end all
positions are visited, and with equal vectors of 46-byte CIDs only the size of the
account can decide. A batch that never reaches the loop is too long or finds no
state (`RefusalAgrees`), and `Accepts` refuses both.

`TwinsAreRegistries`: each of the two, seen alone, runs `Registry`. It gives `LibraryOnce`
(`LibraryRegistersOnce`) from `RegisteredOnce`, instantiated for the library (`LibProofs`):
`seen`, which the loop extends, makes repeated CIDs harmless there.

**`BatchAnchorProofs`.** `TypeCorrect`; `MarksAreTrue` (`LocalAnchoredOnChain`), for
which the invariant adds that whatever a process in "mark" has yet to mark is on chain;
and `WetCursorsAreSafe`: the cursor of a database that no dry run uses (`Wet`) passes
nothing that is not on chain, whatever dry runs do elsewhere. `CursorsAreSafe`
(`NothingSkipped`, every database) is the case `DryRun = {}`; the finding of section 6
shows that a dry run does harm the database it uses. The invariant gives each process a
promise about its page: below the cursor everything valid is on chain (`Past`), and each
valid message below `newCursor`, or below a message still to be examined, waits in
`todo`, goes into the transaction, or is on chain (`Covered`); in "mark" everything up
to `newCursor` is on chain. The chain and the topic only grow, so the steps of others
disturb nothing (`IdleProc`). This includes processes that share a database, and the
saved cursor that goes back.

**`BatchServiceProofs`.** `RegisteredOnce` (`OneRecordPerCid` when nothing is broadcast
twice, the case `batch_live` checks, or a page is one message). Its invariant
`UnlikeInv` says that no transaction in flight (`orphans`) or in the making (`Held`)
carries a CID twice; only `Poll` can bring in a repetition, and there neither case lets
it (`PageUnlike`). The program skips a CID it has. `ServiceImplemented`: `Publish` maps
to a broadcast, a landing transaction with something new to a registration, everything
else to a stutter; each record was broadcast before because a transaction carries CIDs
of the topic only.

**`DeliveryPollProofs`.** `TypeCorrect`; `AscendingLosesNothing` (`OnlyDisorderSkips`) and
`ProcessedOnce` (`NoneTwice`). The invariant says of every eligible envelope below
`newCursor` that it is on the page or out of order, which at the cut of the limit
follows from the order of the numbers, and that `handled` lies at or below the cursor.
`SamePages` (`PagesAgree`): on a numbered queue the loop has taken `k - 1 - cursor` lines
when it comes to line `k` (`TakenWhenNumbered`), so that the limit cuts where
`BatchAnchor`'s window ends.

**`IndexerProofs`.** `TypeCorrect`, `OneSenderOnly`, `SetIsNotPoisoned`,
`NeverSentAgain`. The invariant says that a call that sends holds its CID in the set and is
the only one, and that in "sent" its envelope is on the topic. So `Undo` removes a CID nobody
else relies on, and a settled CID has nobody who could remove it.

`UnsharedCalls` (`UnsharedIsSafe`) says for how many callers the two disagreements of this module
cannot happen: for each that shares its document with nobody. `AloneInv`
adds what such a call has for itself (`OwnFile`): the file it fills is the one
under the name, the file it has stored is complete, its CID is that of its document. The rest
is that another call cannot hold this CID (`OwnCid`), so that it is in the dedup set only
if it is on the topic (`AloneInSet`).

**`FfiProofs`.** `FfiTypeCorrect`, `SuccessIsBroadcast`, `ChainFollowsTopic`, for any
number of callers and documents, any failures. The invariant (`CallInv`) ties `stage` to
the label of the call's Indexer: `spel` and success are reached only from Ok, and Ok
only from an answered send. It reuses the type lemma of `IndexerProofs`.
`FfiIsAnchorService` (`ImplementsService`): `Deliver` maps to a broadcast, the end of
`spel` and a late transaction to a registration of one CID or to a stutter
(`RegisterOne`), all else to a stutter.

**`AppProofs`.** `TypeCorrect`, `FlagIsTrue`, `NothingShownInVain`, `OutcomeIsKept`, for any
number of uploads. `UploadingIsTrue` is needed for itself: that the button admits
one upload at a time is what makes the reset by any answer right.

**Only model-checked:** the liveness properties (`EventuallyAnchored`, `CatchesUp`,
`EveryLineHandled`, `FfiReturns`, `UploadEnds`), which rest on fairness and so on
ENABLED, out of reach of TLAPS here. Every other property that a run checks and finds to
hold is a theorem. `CidOfData` and `OkMeansBroadcast` have none because they do not
hold; `UnsharedCalls` and `SuccessIsBroadcast` are what holds in their place.

## 6. Where the code and its documentation disagree

Each of these is a run that TLC ends with a counterexample; `findings` in `PROJECT.json`
quotes the lines.

| run | what happens |
|---|---|
| `registry_guest_dup` | the deployed guest registers a CID repeated in one batch twice; the tested library does not |
| `batch_dryrun_skips` | `--dry-run` moves the saved cursor, so documents are skipped later |
| `batch_head_of_line` | from an https bridge, a page of messages that are no envelopes, such as the hex the LogosCore backend sends, stops the tool |
| `batch_http_bridge` | from a plain http bridge the tool never reads anything: no URL is left |
| `indexer_truncated` | concurrent uploads of equal bytes can broadcast the CID of a truncated file |
| `indexer_early_ok` | a deduplicated call returns Ok for a broadcast that then fails |

These are seen in the models but have no run of their own:

* batch-anchor is exposed to the first one: `is_anchored` is asked for a whole
  page before anything of it is marked, so an envelope broadcast twice on one page
  is registered twice (`batch-anchor-cli/src/main.rs:174-183`), although
  `docs/VIDEO_NARRATION.md:54-55` promises that re-broadcasts produce no duplicates.
  `OneRecordPerCid` of `BatchAnchor` is therefore checked where messages are not
  repeated; `registry_guest_dup` is the transaction such a page becomes.
* A batch sent before `initialize` is answered with `ERR_BATCH_TOO_LARGE`
  (`cid-registry/src/main.rs:61-63`, `RejectUninitialized`).
* There is one registry account, not one per page of records as
  `cid-registry/src/lib.rs:40` suggests. When it is full each transaction with a
  new CID fails, and the tool with it (`StateTooLarge`, `Rejected`).
* A process killed between confirmation and marks submits registered CIDs again
  when it restarts, which the program skips (`Crash` in "mark").
* The application never calls the FFI, although `document-indexer/src/ffi.rs:1-2`
  says it does, and "Anchor on-chain after upload" anchors nothing: `runBatchAnchor`
  sets a status (`whistleblower_impl.cpp:108-111` and `:117-121`, `RunBatchAnchor`).
  Over HTTP it also retries nothing and has no dedup set.
* The status "Uploading..." is shown in the bar for the first upload only; from then
  on the bar is no longer bound (`Main.qml:14-20`, `bound`). It does tell each outcome.
* With LogosCore the payload on the topic is hex of the envelope
  (`document-indexer/src/lib.rs:377-385`); batch-anchor parses the payload as the envelope
  (`batch-anchor-cli/src/main.rs:122` and `:135`). `SUBMISSION.md:12` says the batch tool reads
  it back and `README.md:143-144` that subscribers undo the hex; nothing here does.
  To `BatchAnchor` such messages are `Junk`: `batch_head_of_line` shows what they do over
  https, and a file with one of them fails every poll that reaches it (`Poisoned`).
* `README.md:83-86` and `docs/DEPLOYMENT.md:65-68` run batch-anchor with `--delivery-url` and
  `--sequencer-url`, which it does not have (`batch-anchor-cli/src/main.rs:34-51`).
* The FFI registers `hash_envelope`, a hash of the concatenated fields without separators
  or tags (`document-indexer/src/lib.rs:412`), with the timestamp 0; batch-anchor
  registers the hash of the JSON text. Both `cid-registry/src/lib.rs:33` and
  `document-indexer/src/lib.rs:79` speak of one, the SHA256 of the serialised envelope.
  Whichever transaction lands first decides, and the registry keeps it.
* A file poll fails for a bad line anywhere before the limit is reached, so good lines
  in front of it are not processed either (`Fails`).
* After batches with repetitions the guest is full earlier than the library, and refuses
  what the library would store.
* `--once` handles one page, not all the messages available
  (`batch-anchor-cli/src/main.rs:67` and `:206`, `EndPage`).

## 7. Not modelled

* `status` of batch-anchor only prints. `hash_envelope`,
  `metadata_hash_from_payload` and `decode_cid` are pure functions: hashes and CIDs
  are opaque, and which strings decode is a given set (`BadCids`, `Decodable`).
* `anchor_batch` with no entry or more than one: the only caller in the repository,
  the FFI, passes one.
* `document_indexer_is_anchored` changes nothing: it answers 0 for every error too, and nothing
  in the repository acts on the answer.
* A caller that drops the future of `upload_and_broadcast` between the insert into the dedup
  set and the removal (`document-indexer/src/lib.rs:345-358`) would leave the CID in it. No caller in the
  repository does; the FFI runs the future to its end with `block_on`.
* The copying of strings into the C result, and layout, texts and the file dialog of the
  application.
* External services beyond what section 2 says; proofs and fees of the chain.
* CI, the demo scripts except for what they do to the queue, and the IDL.

## 8. Plan

Done, in this order, since the chain is what everything else relies on and the tool
has the hardest behaviour: `AnchorLedger`, `Registry`, `AnchorService`,
`BatchAnchor`, `Indexer`, then `DeliveryPoll`, `Ffi`, `App` and `RegistryTwins`,
each with its runs and theorems.

The safety properties of the runs are proved. Next: what the proofs can say
about the remaining boundaries of section 6, such as how many records of one CID an account
can hold when pages do repeat CIDs.
