-------------------------------- MODULE App --------------------------------
(***************************************************************************)
(* The Basecamp application: WhistleblowerModule (basecamp-app/src/        *)
(* whistleblower_impl.cpp) with the QML that drives it and shows its       *)
(* properties.  One thread; storage and delivery answer by callbacks, in   *)
(* any order with the clicks of the user.                                  *)
(***************************************************************************)
EXTENDS Naturals, FiniteSets

CONSTANTS Uploads,  \* clicks on "Upload and Broadcast": each its own document
          Anchors   \* those with anchorCheck.checked

ASSUME ConstAssumption == Anchors \subseteq Uploads

VARIABLES
  request,    \* what each upload waits for, or how it ended
  uploading,  \* m_uploading
  lastCid,    \* m_lastCid: the upload whose CID it is
  status,     \* m_status
  bar,        \* statusBar.text
  bound,      \* is statusBar.text still bound to the status?
  topic,      \* uploads whose envelope delivery has
  last        \* the last upload to finish

vars == <<request, uploading, lastCid, status, bar, bound, topic, last>>

None == "none"
Ended == {"published", "failed"}
InFlight == {u \in Uploads : request[u] \in {"storing", "sending"}}

\* A status or a text of the bar: what it says, and of which upload.
Text == [what : {"", "uploading", "broadcasting", "batch anchor"} \cup Ended,
         of   : Uploads \cup {None}]
Say(what, u) == [what |-> what, of |-> u]

TypeOK ==
  /\ request \in [Uploads -> {"none", "storing", "sending"} \cup Ended]
  /\ uploading \in BOOLEAN
  /\ lastCid \in Uploads \cup {None}
  /\ status \in Text /\ bar \in Text
  /\ bound \in BOOLEAN
  /\ topic \subseteq Uploads
  /\ last \in Uploads \cup {None}

Init ==
  /\ request = [u \in Uploads |-> "none"]
  /\ uploading = FALSE
  /\ lastCid = None
  /\ status = Say("", None)
  /\ bar = Say("", None)
  /\ bound = TRUE
  /\ topic = {}
  /\ last = None

-----------------------------------------------------------------------------
\* setStatus: the bar follows as long as it is bound.
SetStatus(s) ==
  /\ status' = s
  /\ bar' = IF bound THEN s ELSE bar
  /\ UNCHANGED bound

\* Mutant: the bar is assigned, yet stays bound to the status.
Finished_Bound(u, outcome) ==
  /\ request' = [request EXCEPT ![u] = outcome]
  /\ bar' = Say(outcome, u)
  /\ UNCHANGED bound
  /\ last' = u

\* emit uploadFinished: onUploadFinished assigns the bar, which ends its
\* binding.
Finished(u, outcome) ==
  /\ request' = [request EXCEPT ![u] = outcome]
  /\ bar' = Say(outcome, u)
  /\ bound' = FALSE
  /\ last' = u

\* Mutant: the button stays enabled while uploading.
CanClick_Always(u) == request[u] = "none"

\* The button is enabled.
CanClick(u) == request[u] = "none" /\ ~uploading

\* The file does not open: the upload ends before uploading is set.
OpenFails(u) ==
  /\ CanClick(u)
  /\ Finished(u, "failed")
  /\ UNCHANGED <<uploading, lastCid, status, topic>>

UploadFile(u) ==
  /\ CanClick(u)
  /\ request' = [request EXCEPT ![u] = "storing"]
  /\ uploading' = TRUE
  /\ SetStatus(Say("uploading", u))
  /\ UNCHANGED <<lastCid, topic, last>>

\* Mutant: uploading is not reset when storage fails.
StorageFails_Stuck(u) ==
  /\ request[u] = "storing"
  /\ status' = Say("failed", u)
  /\ Finished(u, "failed")
  /\ UNCHANGED <<uploading, lastCid, topic>>

\* Storage answers with an error, or without a CID.
StorageFails(u) ==
  /\ request[u] = "storing"
  /\ uploading' = FALSE
  /\ status' = Say("failed", u)
  /\ Finished(u, "failed")
  /\ UNCHANGED <<lastCid, topic>>

\* Mutant: an answer without a CID counts.
Stored_AnyAnswer(u) ==
  /\ request[u] = "storing"
  /\ request' = [request EXCEPT ![u] = "sending"]
  /\ lastCid' \in {u, ""}
  /\ SetStatus(Say("broadcasting", u))
  /\ UNCHANGED <<uploading, topic, last>>

\* Storage answers with a CID: the envelope is posted to delivery.
Stored(u) ==
  /\ request[u] = "storing"
  /\ request' = [request EXCEPT ![u] = "sending"]
  /\ lastCid' = u
  /\ SetStatus(Say("broadcasting", u))
  /\ UNCHANGED <<uploading, topic, last>>

\* Delivery takes the envelope; its answer is still to come.
Deliver(u) ==
  /\ request[u] = "sending" /\ u \notin topic
  /\ topic' = topic \cup {u}
  /\ UNCHANGED <<request, uploading, lastCid, status, bar, bound, last>>

\* Mutant: the error of the second reply is not looked at.
Published_AnyReply(u) ==
  /\ request[u] = "sending"
  /\ uploading' = FALSE
  /\ status' = Say("published", u)
  /\ Finished(u, "published")
  /\ UNCHANGED <<lastCid, topic>>

\* The answer is success.  With anchorOnChain runBatchAnchor only sets another
\* status.
Published(u) ==
  /\ request[u] = "sending" /\ u \in topic
  /\ uploading' = FALSE
  /\ status' = IF u \in Anchors THEN Say("batch anchor", None) ELSE Say("published", u)
  /\ Finished(u, "published")
  /\ UNCHANGED <<lastCid, topic>>

\* The envelope was refused, or the answer lost.
BroadcastFails(u) ==
  /\ request[u] = "sending"
  /\ uploading' = FALSE
  /\ status' = Say("failed", u)
  /\ Finished(u, "failed")
  /\ UNCHANGED <<lastCid, topic>>

\* "Run batch anchor now", at any time: nothing but a status.
RunBatchAnchor ==
  /\ SetStatus(Say("batch anchor", None))
  /\ UNCHANGED <<request, uploading, lastCid, topic, last>>

Answer(u) == StorageFails(u) \/ Stored(u) \/ Published(u) \/ BroadcastFails(u)

Next ==
  \/ \E u \in Uploads : OpenFails(u) \/ UploadFile(u) \/ Deliver(u) \/ Answer(u)
  \/ RunBatchAnchor

Spec == Init /\ [][Next]_vars

\* Storage and delivery answer, or the connection breaks.  The code sets no
\* timeout, so that this is the network's part.
FairSpec == Spec /\ \A u \in Uploads : WF_vars(Answer(u))

-----------------------------------------------------------------------------
(* Properties.                                                             *)

\* uploading is one flag for all uploads, reset by whichever ends first: it is
\* right because the button lets only one in at a time.
UploadingIsTrue == /\ uploading <=> InFlight # {}
                   /\ Cardinality(InFlight) <= 1

\* What the user reads is so: a bar that says "published" names an upload
\* whose envelope is on the topic, and lastCid one that storage has.
ShownIsTrue ==
  /\ bar.what = "published" => bar.of \in topic
  /\ lastCid # None => request[lastCid] \notin {"none", "storing"}

\* From the first upload that ends, the bar tells the outcome of the last one
\* that ended; no status in between, nor "batch anchor", covers it up.
BarTellsOutcome ==
  last # None => bar = Say(request[last], last)

\* The button is enabled again, and the user has been told the outcome.
UploadEnds ==
  \A u \in Uploads : request[u] = "storing" ~> (request[u] \in Ended /\ ~uploading)
=============================================================================
