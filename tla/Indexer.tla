------------------------------ MODULE Indexer ------------------------------
(***************************************************************************)
(* upload_and_broadcast of the document indexer (document-indexer/src/     *)
(* lib.rs): concurrent calls on one Indexer upload a document, up to three *)
(* times, and broadcast its envelope unless the session's dedup set has    *)
(* its CID.  With the LogosCore backend the bytes go through a temporary   *)
(* file named after their hash, which calls with equal data share.         *)
(*                                                                         *)
(* Storage is content addressed: a document stands for its own CID.        *)
(***************************************************************************)
EXTENDS Integers, FiniteSets

CONSTANTS
  Calls,        \* call slots: callers that may run at the same time
  Docs,         \* contents, and the CIDs storage gives them
  Truncated,    \* the CID of a file caught before its bytes are written
  DocOf,        \* what each caller uploads
  Backends,     \* the values of StorageBackend to consider
  MaxAttempts,  \* 3, the second argument of upload_with_retry
  MaxCalls      \* bound: calls made, all callers together

Cids == Docs \cup {Truncated}

ASSUME ConstAssumption ==
  /\ Truncated \notin Docs
  /\ DocOf \in [Calls -> Docs]
  /\ Backends \subseteq {"LogosCore", "Http"}
  /\ MaxAttempts \in Nat \ {0}
  /\ MaxCalls \in Nat

VARIABLES
  backend,   \* config.backend
  pc,        \* where each call is
  made,      \* calls made so far
  attempt,   \* attempt of upload_with_retry
  cid,       \* the CID storage returned
  tmp,       \* temporary file of each document
  open,      \* calls whose open file is the one under that name
  seen,      \* Indexer.broadcasted
  delivered  \* envelopes per CID that reached the topic

vars == <<backend, pc, made, attempt, cid, tmp, open, seen, delivered>>

Labels == {"idle", "upload", "fill", "read", "remove", "failed", "broadcast",
           "send", "sent", "undo", "ok", "error"}

InFlight(c) == {t \in Calls : pc[t] \in {"send", "sent", "undo"} /\ cid[t] = c}

TypeOK ==
  /\ backend \in Backends
  /\ pc \in [Calls -> Labels]
  /\ made \in Nat
  /\ attempt \in [Calls -> Nat]
  /\ cid \in [Calls -> Cids \cup {"none"}]
  /\ \A t \in Calls : pc[t] \in {"broadcast", "send", "sent", "undo"} => cid[t] \in Cids
  /\ tmp \in [Docs -> {"absent", "empty", "full"}]
  /\ open \subseteq Calls
  /\ seen \subseteq Cids
  /\ delivered \in [Cids -> Nat]

Init ==
  /\ backend \in Backends
  /\ pc = [t \in Calls |-> "idle"]
  /\ made = 0
  /\ attempt = [t \in Calls |-> 0]
  /\ cid = [t \in Calls |-> "none"]
  /\ tmp = [d \in Docs |-> "absent"]
  /\ open = {}
  /\ seen = {}
  /\ delivered = [c \in Cids |-> 0]

\* A call goes on; nothing changes the configuration of its Indexer.
Goto(t, label) == /\ pc' = [pc EXCEPT ![t] = label]
                  /\ UNCHANGED backend

\* A caller calls, and may call again with the same document.
Call(t) ==
  /\ pc[t] \in {"idle", "ok", "error"}
  /\ made < MaxCalls
  /\ Goto(t, "upload")
  /\ made' = made + 1
  /\ attempt' = [attempt EXCEPT ![t] = 1]
  /\ cid' = [cid EXCEPT ![t] = "none"]
  /\ UNCHANGED <<tmp, open, seen, delivered>>

-----------------------------------------------------------------------------
(* Upload.                                                                 *)

\* Mutant: the status of the response is not looked at.
PostDocument_AnyStatus(t) ==
  /\ pc[t] = "upload" /\ backend = "Http"
  /\ Goto(t, "broadcast")
  /\ cid' \in {[cid EXCEPT ![t] = c] : c \in {DocOf[t], "none"}}
  /\ UNCHANGED <<made, attempt, tmp, open, seen, delivered>>

\* upload_via_http: the client's timeout makes every request end.
PostDocument(t) ==
  /\ pc[t] = "upload" /\ backend = "Http"
  /\ \/ Goto(t, "broadcast") /\ cid' = [cid EXCEPT ![t] = DocOf[t]]
     \/ Goto(t, "failed") /\ UNCHANGED cid
  /\ UNCHANGED <<made, attempt, tmp, open, seen, delivered>>

\* tokio::fs::write creates or truncates the file, then writes the bytes.
CreateFile(t) ==
  /\ pc[t] = "upload" /\ backend = "LogosCore"
  /\ tmp' = [tmp EXCEPT ![DocOf[t]] = "empty"]
  /\ open' = open \cup {t}
  /\ Goto(t, "fill")
  /\ UNCHANGED <<made, attempt, cid, seen, delivered>>

\* The bytes go to the file that was opened, which another call may have
\* removed since; or the write fails, and the file stays as it is.
FillFile(t) ==
  /\ pc[t] = "fill"
  /\ open' = open \ {t}
  /\ \/ /\ tmp' = [tmp EXCEPT ![DocOf[t]] = IF t \in open THEN "full" ELSE @]
        /\ Goto(t, "read")
     \/ /\ UNCHANGED tmp
        /\ Goto(t, "failed")
  /\ UNCHANGED <<made, attempt, cid, seen, delivered>>

\* The storage module reads the file and answers with the CID of what it
\* finds.
StoreFile(t) ==
  /\ pc[t] = "read"
  /\ tmp[DocOf[t]] # "absent"
  /\ cid' = [cid EXCEPT ![t] = IF tmp[DocOf[t]] = "full" THEN DocOf[t] ELSE Truncated]
  /\ Goto(t, "remove")
  /\ UNCHANGED <<made, attempt, tmp, open, seen, delivered>>

\* logoscore answers with an error; or it could not be run at all, and then
\* the file is not removed.
StoreFails(t) ==
  /\ pc[t] = "read"
  /\ Goto(t, "remove") \/ Goto(t, "failed")
  /\ UNCHANGED <<made, attempt, cid, tmp, open, seen, delivered>>

\* remove_file, whatever logoscore answered; only then its exit status.
RemoveFile(t) ==
  /\ pc[t] = "remove"
  /\ tmp' = [tmp EXCEPT ![DocOf[t]] = "absent"]
  /\ open' = {u \in open : DocOf[u] # DocOf[t]}
  /\ Goto(t, IF cid[t] = "none" THEN "failed" ELSE "broadcast")
  /\ UNCHANGED <<made, attempt, cid, seen, delivered>>

\* Mutant: the attempts are not counted.
Retry_Forever(t) ==
  /\ pc[t] = "failed"
  /\ Goto(t, "upload")
  /\ UNCHANGED <<made, attempt, cid, tmp, open, seen, delivered>>

\* upload_with_retry: after a pause the next attempt, or the last error.
Retry(t) ==
  /\ pc[t] = "failed"
  /\ \/ /\ attempt[t] < MaxAttempts
        /\ attempt' = [attempt EXCEPT ![t] = @ + 1]
        /\ Goto(t, "upload")
     \/ /\ attempt[t] >= MaxAttempts
        /\ Goto(t, "error")
        /\ UNCHANGED attempt
  /\ UNCHANGED <<made, cid, tmp, open, seen, delivered>>

-----------------------------------------------------------------------------
(* Broadcast.                                                              *)

\* Under the lock: known to the dedup set, nothing to send.
Deduplicate(t) ==
  /\ pc[t] = "broadcast" /\ cid[t] \in seen
  /\ Goto(t, "ok")
  /\ UNCHANGED <<made, attempt, cid, tmp, open, seen, delivered>>

\* Mutant: the CID enters the dedup set only when its send has succeeded.
Claim_Late(t) ==
  /\ pc[t] = "broadcast" /\ cid[t] \notin seen
  /\ Goto(t, "send")
  /\ UNCHANGED <<made, attempt, cid, tmp, open, seen, delivered>>

\* Under the same lock: the CID enters the dedup set before it is sent.
Claim(t) ==
  /\ pc[t] = "broadcast" /\ cid[t] \notin seen
  /\ seen' = seen \cup {cid[t]}
  /\ Goto(t, "send")
  /\ UNCHANGED <<made, attempt, cid, tmp, open, delivered>>

\* The envelope reaches the topic; the sender does not know it yet.
Deliver(t) ==
  /\ pc[t] = "send"
  /\ delivered' = [delivered EXCEPT ![cid[t]] = @ + 1]
  /\ Goto(t, "sent")
  /\ UNCHANGED <<made, attempt, cid, tmp, open, seen>>

\* broadcast_via_* succeeds: the set keeps the CID.
SendOk(t) ==
  /\ pc[t] = "sent"
  /\ Goto(t, "ok")
  /\ UNCHANGED <<made, attempt, cid, tmp, open, seen, delivered>>

\* It fails: refused, or delivered and the answer lost.
SendFails(t) ==
  /\ pc[t] \in {"send", "sent"}
  /\ Goto(t, "undo")
  /\ UNCHANGED <<made, attempt, cid, tmp, open, seen, delivered>>

\* Mutant: the failed CID stays in the dedup set.
Undo_Poison(t) ==
  /\ pc[t] = "undo"
  /\ Goto(t, "error")
  /\ UNCHANGED <<made, attempt, cid, tmp, open, seen, delivered>>

\* Mutant: a failed broadcast clears the whole dedup set.
Undo_Clear(t) ==
  /\ pc[t] = "undo"
  /\ seen' = {}
  /\ Goto(t, "error")
  /\ UNCHANGED <<made, attempt, cid, tmp, open, delivered>>

\* The lock again: the failed CID leaves the set.
Undo(t) ==
  /\ pc[t] = "undo"
  /\ seen' = seen \ {cid[t]}
  /\ Goto(t, "error")
  /\ UNCHANGED <<made, attempt, cid, tmp, open, delivered>>

-----------------------------------------------------------------------------
Advance(t) == \/ PostDocument(t) \/ CreateFile(t) \/ FillFile(t) \/ StoreFile(t)
              \/ StoreFails(t) \/ RemoveFile(t) \/ Retry(t)
              \/ Deduplicate(t) \/ Claim(t) \/ Deliver(t) \/ SendOk(t)
              \/ SendFails(t) \/ Undo(t)

Next == \E t \in Calls : Call(t) \/ Advance(t)

Spec == Init /\ [][Next]_vars

-----------------------------------------------------------------------------
(* Properties.                                                             *)

\* Two calls never have the same CID on the wire at the same time: the check
\* and the insert are one critical section.
OneSender == \A t, u \in Calls : \A c \in Cids : {t, u} \subseteq InFlight(c) => t = u

\* The dedup set holds a CID only if its envelope is on the topic or a call
\* is still at it: a failed broadcast does not poison the set.
NoPoison == \A c \in seen : delivered[c] > 0 \/ InFlight(c) # {}

\* Once a send was acknowledged, its CID is settled for the session: it stays
\* in the set and is never sent again, whatever other calls fail.
Settled(c) == c \in seen /\ InFlight(c) = {}

SettledForGood ==
  [][\A c \in Cids : Settled(c) => Settled(c)' /\ delivered'[c] = delivered[c]]_vars

\* A caller that nobody shares its document with.
Alone(t) == \A u \in Calls : DocOf[u] = DocOf[t] => u = t

\* What goes wrong between calls with one document goes wrong nowhere else: a
\* caller alone with its document gets the CID of its data, and Ok only for an
\* envelope on the topic, whatever the others do; over HTTP everybody gets the
\* CID of his data.
UnsharedIsSafe ==
  \A t \in Calls :
     /\ Alone(t) \/ backend = "Http" => cid[t] \in {"none", DocOf[t]}
     /\ Alone(t) /\ pc[t] = "ok" => delivered[cid[t]] > 0

\* The CID a call broadcasts and returns is that of the data it was given
\* ("Upload bytes to Logos Storage ... Returns the CID",
\* document-indexer/src/lib.rs:165-166).
CidOfData == \A t \in Calls : cid[t] \in {"none", DocOf[t]}

\* A call that returned Ok has its envelope on the topic, at the latest when
\* no call is still at it ("CIDs already broadcast this session",
\* document-indexer/src/lib.rs:142).
OkMeansBroadcast ==
  \A t \in Calls : pc[t] = "ok" /\ InFlight(cid[t]) = {} => delivered[cid[t]] > 0
=============================================================================
