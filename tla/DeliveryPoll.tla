---------------------------- MODULE DeliveryPoll ----------------------------
(***************************************************************************)
(* poll_delivery of batch-anchor (batch-anchor-cli/src/main.rs:107-143)    *)
(* over a queue as it may really be: numbered in any order, or not at all, *)
(* with lines that are half written or no envelopes, and rewritten from    *)
(* the start by scripts/publish-demo-docs.sh.  One process reads it page   *)
(* by page.  What it does with a page is BatchAnchor's matter, where the   *)
(* seq of a message is its position.                                       *)
(***************************************************************************)
EXTENDS Integers, Sequences, FiniteSets, FiniteSetsExt

CONSTANTS BatchSize,  \* --batch-size
          MaxLines,   \* bound: lines in the queue
          MaxSeq      \* bound: largest number a writer gives

ASSUME ConstAssumption == {BatchSize, MaxLines, MaxSeq} \subseteq Nat

VARIABLES source,     \* --delivery-source, see Sources
          queue,      \* the lines
          cursor,     \* the cursor, in memory and saved
          page,       \* lines of the page being processed
          newCursor,  \* new_cursor; the cursor when no page is
          handled     \* lines whose page has been processed

vars == <<source, queue, cursor, page, newCursor, handled>>

\* The forms of --delivery-source: file:<path>, and http:<url> where a URL is
\* left ("https") or none ("http") after every leading "http:" is removed.
Sources == {"file", "https", "http"}

\* A line without "seq" counts as number 0.  past is no part of the line: it
\* is how far the reader had read when the line was written.
Kinds == {"envelope", "junk", "malformed"}
Line == [seq : 0..MaxSeq, kind : Kinds, past : Nat]

TypeOK ==
  /\ source \in Sources
  /\ queue \in Seq(Line)
  /\ cursor \in Nat /\ newCursor \in Nat
  /\ cursor <= newCursor
  /\ page \subseteq DOMAIN queue
  /\ handled \subseteq DOMAIN queue

Init ==
  /\ source \in Sources
  /\ queue = <<>>
  /\ cursor = 0 /\ newCursor = 0
  /\ page = {} /\ handled = {}

-----------------------------------------------------------------------------
(* Writers.                                                                *)

\* Mutant: a missing number counts as -1.
Write_Signed(seq, kind) ==
  /\ Len(queue) < MaxLines
  /\ source # "file" => kind # "malformed"
  /\ queue' = Append(queue, [seq |-> seq - 1, kind |-> kind, past |-> newCursor])
  /\ UNCHANGED <<source, cursor, page, newCursor, handled>>

\* A writer appends a line with whatever number it chooses.  One caught while
\* it is written does not parse.  An http bridge answers with JSON only.
Write(seq, kind) ==
  /\ Len(queue) < MaxLines
  /\ source # "file" => kind # "malformed"
  /\ queue' = Append(queue, [seq |-> seq, kind |-> kind, past |-> newCursor])
  /\ UNCHANGED <<source, cursor, page, newCursor, handled>>

\* The rest of the last line arrives.
Complete ==
  /\ queue # <<>> /\ queue[Len(queue)].kind = "malformed"
  /\ queue' = [queue EXCEPT ![Len(queue)].kind = "envelope"]
  /\ UNCHANGED <<source, cursor, page, newCursor, handled>>

\* publish-demo-docs.sh empties the file; the reader knows nothing of it.
Truncate ==
  /\ queue # <<>>
  /\ queue' = <<>>
  /\ page' = {} /\ handled' = {}
  /\ UNCHANGED <<source, cursor, newCursor>>

-----------------------------------------------------------------------------
(* The reader.                                                             *)

\* The file loop pushes before it compares, so a limit of 0 acts as 1.
Limit == IF source = "file" /\ BatchSize = 0 THEN 1 ELSE BatchSize

\* Mutant: the line with the cursor's own number is read again.
Eligible_Inclusive ==
  {k \in DOMAIN queue : queue[k].kind # "malformed" /\ queue[k].seq >= cursor}

\* The lines numbered above the cursor.
Eligible ==
  {k \in DOMAIN queue : queue[k].kind # "malformed" /\ queue[k].seq > cursor}

\* How many of them the loop has taken when it comes to line k.
TakenBefore(k) == Cardinality({j \in Eligible : j < k})

\* Mutant: the whole queue is sorted, and then the last of it is taken.
Taken_FromEnd == {k \in Eligible : Cardinality({j \in Eligible : j > k}) < Limit}

\* The loop takes them in file order, up to the limit, and only then sorts
\* them (which decides nothing here).  A bridge is asked for the same lines.
Taken == {k \in Eligible : TakenBefore(k) < Limit}

\* A file poll fails at a line that is not JSON, or whose payload is not an
\* envelope, unless the limit ends the loop before.  A poll without a URL
\* always fails.
Fails ==
  \/ source = "http"
  \/ source = "file" /\ \E k \in DOMAIN queue :
       /\ queue[k].kind = "malformed" \/ (queue[k].kind = "junk" /\ k \in Eligible)
       /\ TakenBefore(k) < Limit

\* What a poll that does not fail returns: over http it leaves out what is no envelope.
Page == {k \in Taken : queue[k].kind = "envelope"}

\* Mutant: the tool waits until a page is full.
Poll_Full ==
  /\ page = {} /\ newCursor = cursor
  /\ ~Fails /\ Cardinality(Page) = Limit
  /\ page' = Page
  /\ newCursor' = Max({queue[k].seq : k \in Page})
  /\ UNCHANGED <<source, queue, cursor, handled>>

\* A poll that fails ends the process, which starts again from the same
\* cursor; one that finds nothing sleeps.  Neither changes anything.
Poll ==
  /\ page = {} /\ newCursor = cursor
  /\ ~Fails /\ Page # {}
  /\ page' = Page
  /\ newCursor' = Max({queue[k].seq : k \in Page})
  /\ UNCHANGED <<source, queue, cursor, handled>>

\* The page has been anchored or skipped, and save_cursor.
SavePage ==
  /\ newCursor # cursor
  /\ cursor' = newCursor
  /\ handled' = handled \cup page
  /\ page' = {}
  /\ UNCHANGED <<source, queue, newCursor>>

Next ==
  \/ \E seq \in 0..MaxSeq, kind \in Kinds : Write(seq, kind)
  \/ Complete
  \/ Truncate
  \/ Poll
  \/ SavePage

Spec == Init /\ [][Next]_vars

\* The reader runs, and is started again after a poll that failed.  Writers
\* owe nothing.
FairSpec == Spec /\ WF_vars(Poll \/ SavePage)

-----------------------------------------------------------------------------
(* Properties.                                                             *)

\* A line whose number is not above every number before it in the queue, or
\* was reached by the reader before the line was written.
OutOfOrder(k) ==
  \/ queue[k].past >= queue[k].seq
  \/ \E j \in 1..(k-1) : queue[j].seq >= queue[k].seq

\* The cursor passes an envelope only if it was processed or is out of order:
\* on a queue numbered in ascending order no envelope is skipped, wherever
\* the limit cuts, whatever lines are torn and however often the queue is
\* truncated.  ("a monotonically-increasing seq", main.rs:101, is needed.)
OnlyDisorderSkips ==
  \A k \in DOMAIN queue :
     queue[k].kind = "envelope" /\ queue[k].seq <= cursor
       => k \in handled \/ OutOfOrder(k)

\* Nothing is processed twice: a page never holds a line of an earlier one.
NoneTwice == page \cap handled = {}

\* The tool of BatchAnchor, at this cursor, over the same messages.  Nothing
\* else of it matters.
Tool(s) == INSTANCE BatchAnchor
                WITH topic <- [k \in DOMAIN queue |-> queue[k].kind],
                     cursor <- [p \in {"reader"} |-> cursor], SourceOf <- [p \in {"reader"} |-> s],
                     Procs <- {"reader"}, Cids <- {"envelope"}, Junk <- {"junk"}, BadCids <- {},
                     Dbs <- {"db"}, DbOf <- [p \in {"reader"} |-> "db"],
                     DryRun <- {}, Once <- {}, MaxBatches <- 0,
                     Rebroadcast <- TRUE, MaxBatchSize <- 0, Capacity <- 0,
                     MaxMessages <- MaxLines, MaxFaults <- 0,
                     initialized <- TRUE, copies <- <<>>, orphans <- {}, pc <- <<>>, todo <- <<>>, entries <- <<>>,
                     newCursor <- <<>>, submitted <- <<>>, anchored <- <<>>, saved <- <<>>,
                     faults <- 0

\* The queue BatchAnchor supposes: each line whole, its number its position.
Numbered == \A k \in DOMAIN queue : queue[k].seq = k /\ queue[k].kind # "malformed"

\* On such a queue the two models poll alike: the same pages, and a poll that
\* fails in one fails in the other.
PagesAgree ==
  \A s \in Sources :
     Numbered /\ s = source
       => /\ Page = Tool(s)!Page("reader")
          /\ Fails <=> Tool(s)!Poisoned("reader")

\* An envelope in order is processed in the end, unless there is no URL to poll,
\* the queue is truncated before, or holds a line that is none: over http before
\* it, in a file also after it, since that line fails the poll for the page.
Waiting(k) ==
  /\ source # "http"
  /\ k \in DOMAIN queue
  /\ ~OutOfOrder(k)
  /\ \A j \in DOMAIN queue :
       queue[j].kind = "envelope" \/ (source = "https" /\ j > k)

EveryLineHandled ==
  \A k \in 1..MaxLines : Waiting(k) ~> k \in handled \/ ~Waiting(k)
=============================================================================
