------------------------------ MODULE AppProofs ------------------------------
(***************************************************************************)
(* What the user of the application can rely on, for any number of uploads *)
(* and any order of clicks and answers.                                    *)
(***************************************************************************)
EXTENDS App, FiniteSetTheorems, TLAPS

\* The flag is set for exactly the one upload in flight; what is shown as
\* published is; the bar is no longer bound once an upload has ended.
IInv ==
  /\ TypeOK
  /\ InFlight # {} => uploading
  /\ uploading => \E u \in Uploads : InFlight = {u}
  /\ \A u \in Uploads : request[u] = "published" => u \in topic
  /\ bar.what = "published" => bar.of \in topic
  /\ status.what = "published" => status.of \in topic
  /\ lastCid # None => request[lastCid] \notin {"none", "storing"}
  /\ last # None => /\ ~bound
                    /\ request[last] \in Ended
                    /\ bar = Say(request[last], last)

\* The texts are what they are made of.
LEMMA SayFacts ==
  ASSUME NEW what \in {"", "uploading", "broadcasting", "batch anchor", "published", "failed"},
         NEW u \in Uploads \cup {None}
  PROVE  Say(what, u) \in Text /\ Say(what, u).what = what /\ Say(what, u).of = u
BY DEF Say, Text, Ended

\* What is in flight when one request changes.
LEMMA RequestFacts ==
  ASSUME TypeOK, NEW u \in Uploads,
         NEW s \in {"none", "storing", "sending"} \cup Ended,
         request' = [request EXCEPT ![u] = s]
  PROVE  /\ request' \in [Uploads -> {"none", "storing", "sending"} \cup Ended]
         /\ request'[u] = s
         /\ \A v \in Uploads : v # u => request'[v] = request[v]
         /\ InFlight' = IF s \in {"storing", "sending"} THEN InFlight \cup {u}
                                                         ELSE InFlight \ {u}
BY DEF TypeOK, InFlight

-----------------------------------------------------------------------------
\* A click: uploading is FALSE, so nothing is in flight.
LEMMA ClickKeeps ==
  ASSUME IInv, NEW u \in Uploads, OpenFails(u) \/ UploadFile(u)
  PROVE  IInv'
<1> USE DEF IInv
<1>0. ~uploading /\ InFlight = {} /\ request[u] = "none"
  BY DEF OpenFails, UploadFile, CanClick
<1>1. CASE OpenFails(u)
  <2>1. /\ request' = [request EXCEPT ![u] = "failed"] /\ bar' = Say("failed", u)
        /\ bound' = FALSE /\ last' = u
        /\ UNCHANGED <<uploading, lastCid, status, topic>>
    BY <1>1 DEF OpenFails, Finished
  <2>2. /\ request' \in [Uploads -> {"none", "storing", "sending"} \cup Ended]
        /\ request'[u] = "failed"
        /\ \A v \in Uploads : v # u => request'[v] = request[v]
        /\ InFlight' = {}
    BY <1>0, <2>1, RequestFacts DEF Ended
  <2>3. bar' \in Text /\ bar'.what = "failed"
    BY <2>1, SayFacts
  <2>4. TypeOK'
    BY <2>1, <2>2, <2>3 DEF TypeOK
  <2> QED
    BY <1>0, <2>1, <2>2, <2>3, <2>4 DEF TypeOK, Ended
<1>2. CASE UploadFile(u)
  <2>1. /\ request' = [request EXCEPT ![u] = "storing"]
        /\ uploading' = TRUE /\ status' = Say("uploading", u)
        /\ bar' = IF bound THEN Say("uploading", u) ELSE bar
        /\ UNCHANGED <<bound, lastCid, topic, last>>
    BY <1>2 DEF UploadFile, SetStatus
  <2>2. /\ request' \in [Uploads -> {"none", "storing", "sending"} \cup Ended]
        /\ request'[u] = "storing"
        /\ \A v \in Uploads : v # u => request'[v] = request[v]
        /\ InFlight' = {u}
    BY <1>0, <2>1, RequestFacts
  <2>3. status' \in Text /\ status'.what = "uploading"
    BY <2>1, SayFacts
  <2>4. bar' \in Text /\ (bar' = bar \/ bar'.what = "uploading")
    BY <2>1, <2>3 DEF TypeOK
  <2>5. TypeOK'
    BY <2>1, <2>2, <2>3, <2>4 DEF TypeOK
  <2> QED
    BY <1>0, <2>1, <2>2, <2>3, <2>4, <2>5 DEF TypeOK, Ended
<1> QED
  BY <1>1, <1>2

\* An answer that ends the upload: nothing is in flight any more.
LEMMA EndKeeps ==
  ASSUME IInv, NEW u \in Uploads, NEW outcome \in Ended,
         request[u] \in {"storing", "sending"}, Finished(u, outcome),
         outcome = "published" => u \in topic,
         uploading' = FALSE,
         status' \in Text, status'.what = "published" => status'.of \in topic,
         lastCid' = lastCid, topic' = topic
  PROVE  IInv'
<1> USE DEF IInv
<1>1. /\ request' = [request EXCEPT ![u] = outcome] /\ bar' = Say(outcome, u)
      /\ bound' = FALSE /\ last' = u
  BY DEF Finished
<1>2. u \in InFlight /\ InFlight = {u}
  BY DEF InFlight
<1>3. /\ request' \in [Uploads -> {"none", "storing", "sending"} \cup Ended]
      /\ request'[u] = outcome
      /\ \A v \in Uploads : v # u => request'[v] = request[v]
      /\ InFlight' = {}
  BY <1>1, <1>2, RequestFacts DEF Ended
<1>4. bar' \in Text /\ bar'.what = outcome /\ bar'.of = u
  <2>1. CASE outcome = "published"
    BY <1>1, <2>1, SayFacts
  <2>2. CASE outcome = "failed"
    BY <1>1, <2>2, SayFacts
  <2> QED
    BY <2>1, <2>2 DEF Ended
<1>5. TypeOK'
  BY <1>1, <1>3, <1>4 DEF TypeOK
<1> QED
  BY <1>1, <1>3, <1>4, <1>5 DEF TypeOK, Ended

\* Storage has answered with a CID: the same upload goes on.
LEMMA StoredKeeps ==
  ASSUME IInv, NEW u \in Uploads, Stored(u)
  PROVE  IInv'
<1> USE DEF IInv
<1>1. /\ request[u] = "storing" /\ request' = [request EXCEPT ![u] = "sending"]
      /\ lastCid' = u /\ status' = Say("broadcasting", u)
      /\ bar' = IF bound THEN Say("broadcasting", u) ELSE bar
      /\ UNCHANGED <<bound, uploading, topic, last>>
  BY DEF Stored, SetStatus
<1>2. /\ request' \in [Uploads -> {"none", "storing", "sending"} \cup Ended]
      /\ request'[u] = "sending"
      /\ \A v \in Uploads : v # u => request'[v] = request[v]
      /\ InFlight' = InFlight
  BY <1>1, RequestFacts DEF InFlight
<1>3. status' \in Text /\ status'.what = "broadcasting"
  BY <1>1, SayFacts
<1>4. bar' \in Text /\ (bar' = bar \/ bar'.what = "broadcasting")
  BY <1>1, <1>3 DEF TypeOK
<1>5. TypeOK'
  BY <1>1, <1>2, <1>3, <1>4 DEF TypeOK
<1> QED
  BY <1>1, <1>2, <1>3, <1>4, <1>5 DEF TypeOK, Ended

\* Delivery, and the button of the index page, change no request.
LEMMA RestKeeps ==
  ASSUME IInv, RunBatchAnchor \/ (\E u \in Uploads : Deliver(u)) \/ UNCHANGED vars
  PROVE  IInv'
<1> USE DEF IInv
<1>1. CASE RunBatchAnchor
  <2>1. /\ status' = Say("batch anchor", None)
        /\ bar' = IF bound THEN Say("batch anchor", None) ELSE bar
        /\ UNCHANGED <<bound, request, uploading, lastCid, topic, last>>
    BY <1>1 DEF RunBatchAnchor, SetStatus
  <2>2. status' \in Text /\ status'.what = "batch anchor"
    BY <2>1, SayFacts
  <2>3. bar' \in Text /\ (bar' = bar \/ bar'.what = "batch anchor")
    BY <2>1, <2>2 DEF TypeOK
  <2>4. TypeOK' /\ InFlight' = InFlight
    BY <2>1, <2>2, <2>3 DEF TypeOK, InFlight
  <2> QED
    BY <2>1, <2>2, <2>3, <2>4
<1>2. ASSUME NEW u \in Uploads, Deliver(u)
      PROVE  IInv'
  BY <1>2 DEF Deliver, TypeOK, InFlight
<1>3. CASE UNCHANGED vars
  BY <1>3 DEF vars, TypeOK, InFlight
<1> QED
  BY <1>1, <1>2, <1>3

\* Every step keeps the invariant.
LEMMA NextIInv == IInv /\ [Next]_vars => IInv'
<1> SUFFICES ASSUME IInv, [Next]_vars
             PROVE  IInv'
  OBVIOUS
<1>1. ASSUME NEW u \in Uploads, StorageFails(u) \/ BroadcastFails(u)
      PROVE  IInv'
  <2>1. Say("failed", u) \in Text /\ Say("failed", u).what = "failed"
    BY SayFacts
  <2>2. status' \in Text /\ status'.what = "failed"
    BY <1>1, <2>1 DEF StorageFails, BroadcastFails
  <2> QED
    BY <1>1, <2>2, EndKeeps DEF StorageFails, BroadcastFails, Ended
<1>2. ASSUME NEW u \in Uploads, Published(u)
      PROVE  IInv'
  <2>1. /\ status' \in Text
        /\ status'.what = "batch anchor" \/ (status'.what = "published" /\ status'.of = u)
    BY <1>2, SayFacts DEF Published
  <2> QED
    BY <1>2, <2>1, EndKeeps DEF Published, Ended
<1> QED
  BY <1>1, <1>2, ClickKeeps, StoredKeeps, RestKeeps DEF Next, Answer

\* The invariant holds at the start, and in every state.
THEOREM Invariance == Spec => []IInv
<1>1. Init => IInv
  <2> SUFFICES ASSUME Init
               PROVE  IInv
    OBVIOUS
  <2>1. Say("", None) \in Text /\ Say("", None).what = ""
    BY SayFacts
  <2>2. TypeOK /\ InFlight = {}
    BY <2>1 DEF Init, TypeOK, InFlight
  <2> QED
    BY <2>1, <2>2 DEF Init, IInv
<1> QED
  BY <1>1, NextIInv, PTL DEF Spec

\* Every variable keeps its type: what the window shows is always one of its
\* texts.
THEOREM TypeCorrect == Spec => []TypeOK
<1>1. IInv => TypeOK
  BY DEF IInv
<1> QED
  BY <1>1, Invariance, PTL

\* One flag is enough for all uploads: it tells whether one is in flight, and
\* there is never a second.
THEOREM FlagIsTrue == Spec => []UploadingIsTrue
<1>1. IInv => UploadingIsTrue
  <2> SUFFICES ASSUME IInv
               PROVE  UploadingIsTrue
    OBVIOUS
  <2>1. CASE uploading
    <3>1. PICK u \in Uploads : InFlight = {u}
      BY <2>1 DEF IInv
    <3>2. Cardinality({u}) = 1
      BY FS_Singleton
    <3> QED
      BY <2>1, <3>1, <3>2 DEF UploadingIsTrue
  <2>2. CASE ~uploading
    <3>1. InFlight = {}
      BY <2>2 DEF IInv
    <3> QED
      BY <2>2, <3>1, FS_EmptySet DEF UploadingIsTrue
  <2> QED
    BY <2>1, <2>2
<1> QED
  BY <1>1, Invariance, PTL

\* "published" is shown only of an envelope on the topic, and a CID only when
\* storage has the document.
THEOREM NothingShownInVain == Spec => []ShownIsTrue
<1>1. IInv => ShownIsTrue
  BY DEF IInv, ShownIsTrue
<1> QED
  BY <1>1, Invariance, PTL

\* Once an upload has ended, the bar tells the outcome of the last that did.
THEOREM OutcomeIsKept == Spec => []BarTellsOutcome
<1>1. IInv => BarTellsOutcome
  BY DEF IInv, BarTellsOutcome
<1> QED
  BY <1>1, Invariance, PTL
=============================================================================
