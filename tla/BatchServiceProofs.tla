------------------------- MODULE BatchServiceProofs -------------------------
(***************************************************************************)
(* The tools, the topic and the chain together: they implement             *)
(* AnchorService, and the chain holds one record per CID as long as no     *)
(* page repeats one.  For any number of processes and databases, with any  *)
(* options and any number of crashes.                                      *)
(***************************************************************************)
EXTENDS BatchAnchorProofs

\* A step publishes, or lands a transaction, or is none of the service's.
LEMMA StepShape ==
  ASSUME TypeOK, [Next]_vars
  PROVE  \/ \E m \in Messages : Publish(m)
         \/ /\ topic' = topic
            /\ \E S \in SUBSET DOMAIN topic : copies' = NewCopies(S)
         \/ topic' = topic /\ copies' = copies
<1> USE DEF chain, locals, disk
<1>1. ASSUME NEW S \in orphans, OrphanLands(S)
      PROVE  /\ topic' = topic
             /\ copies' = copies \/ \E T \in SUBSET DOMAIN topic : copies' = NewCopies(T)
  BY <1>1 DEF OrphanLands, TypeOK
<1>2. ASSUME NEW p \in Procs, Confirmed(p)
      PROVE  topic' = topic /\ \E T \in SUBSET DOMAIN topic : copies' = NewCopies(T)
  <2>1. entries[p] \in SUBSET DOMAIN topic
    BY EntriesAreCids
  <2> QED
    BY <1>2, <2>1 DEF Confirmed
<1>3. ASSUME NEW p \in Procs, Crash(p)
      PROVE  topic' = topic /\ copies' = copies
  BY <1>3 DEF Crash
<1>4. ASSUME NEW p \in Procs, Step(p), ~Confirmed(p)
      PROVE  topic' = topic /\ copies' = copies
  BY <1>4 DEF Step, Start, StopAtMax, PollFails, PollEmpty, Poll, Examine,
              SkipPage, Submit, Rejected, Mark, SaveCursor
<1>5. ASSUME Initialize \/ UNCHANGED vars
      PROVE  topic' = topic /\ copies' = copies
  BY <1>5 DEF Initialize, vars
<1> QED
  BY <1>1, <1>2, <1>3, <1>4, <1>5 DEF Next

-----------------------------------------------------------------------------
\* No two of these positions carry the same message.
Unlike(S) == \A j, k \in S : topic[j] = topic[k] => j = k

\* The page a process is working on, and what of it is left.
Held(p) == todo[p] \cup entries[p]

\* Of unlike messages at most one carries a given CID.
LEMMA AtMostOne ==
  ASSUME NEW S, Unlike(S), NEW c \in Cids
  PROVE  Cardinality({k \in S : topic[k] = c}) \in {0, 1}
<1> DEFINE same == {k \in S : topic[k] = c}
<1>1. CASE same = {}
  BY <1>1, FS_EmptySet
<1>2. CASE same # {}
  <2>1. PICK j \in same : TRUE
    BY <1>2
  <2>2. same = {j}
    BY <2>1 DEF Unlike
  <2>3. Cardinality({j}) = 1
    BY FS_Singleton
  <2> QED
    BY <2>2, <2>3
<1> QED
  BY <1>1, <1>2

\* No transaction carries a CID twice, in flight or in the making.
UnlikeInv ==
  /\ ~Rebroadcast => Unlike(DOMAIN topic)
  /\ \A p \in Procs : Unlike(Held(p))
  /\ \A S \in orphans : Unlike(S)

\* A page of messages that are published once, or of one message, does not
\* repeat a CID.
LEMMA PageUnlike ==
  ASSUME TypeOK, UnlikeInv, ~Rebroadcast \/ BatchSize <= 1, NEW p \in Procs
  PROVE  Unlike(Page(p))
<1>1. Page(p) \subseteq Window(p) /\ Window(p) \subseteq DOMAIN topic
  BY DEF Page, Window
<1>2. CASE ~Rebroadcast
  BY <1>1, <1>2 DEF UnlikeInv, Unlike
<1>3. CASE BatchSize <= 1
  <2>1. Limit(p) \in Nat /\ Limit(p) <= 1 /\ cursor[p] \in Nat
    BY <1>3, ConstAssumption DEF Limit, TypeOK
  <2>2. \A j, k \in Window(p) : j = k
    BY <2>1, TopicFacts DEF Window, TypeOK
  <2> QED
    BY <1>1, <2>2 DEF Unlike
<1> QED
  BY <1>2, <1>3

\* A published message is new, or pages have one message; what is held or in
\* flight is about earlier positions.
LEMMA PublishUnlike ==
  ASSUME TypeOK, UnlikeInv, NEW m \in Messages, Publish(m)
  PROVE  UnlikeInv'
<1>1. /\ DOMAIN topic' = DOMAIN topic \cup {Len(topic) + 1}
      /\ \A k \in DOMAIN topic : topic'[k] = topic[k]
      /\ topic'[Len(topic) + 1] = m
  BY PublishFacts DEF Publish, TypeOK
<1>2. todo' = todo /\ entries' = entries /\ orphans' = orphans
  BY DEF Publish, locals, chain
<1>3. ASSUME ~Rebroadcast
      PROVE  Unlike(DOMAIN topic)'
  <2>1. \A k \in DOMAIN topic : topic[k] # m
    BY <1>3 DEF Publish
  <2> QED
    BY <1>1, <1>3, <2>1 DEF UnlikeInv, Unlike
<1>4. ASSUME NEW S \in SUBSET DOMAIN topic, Unlike(S)
      PROVE  \A j, k \in S : topic'[j] = topic'[k] => j = k
  BY <1>1, <1>4 DEF Unlike
<1>5. ASSUME NEW p \in Procs
      PROVE  Unlike(Held(p))'
  <2>1. Held(p) \in SUBSET DOMAIN topic /\ Unlike(Held(p))
    BY DEF UnlikeInv, Held, TypeOK
  <2>2. Held(p)' = Held(p)
    BY <1>2 DEF Held
  <2> QED
    BY <1>4, <2>1, <2>2 DEF Unlike
<1>6. \A S \in orphans' : Unlike(S)'
  BY <1>2, <1>4 DEF UnlikeInv, Unlike, TypeOK
<1> QED
  BY <1>3, <1>5, <1>6 DEF UnlikeInv

\* A step of a process: what it holds, and what it leaves in flight, is part of
\* one page.
LEMMA StepUnlike ==
  ASSUME TypeOK, UnlikeInv, ~Rebroadcast \/ BatchSize <= 1,
         NEW p \in Procs, Step(p) \/ Crash(p)
  PROVE  UnlikeInv'
<1>1. topic' = topic
  BY DEF Step, Crash, Start, StopAtMax, PollFails, PollEmpty, Poll, Examine, SkipPage,
         Submit, Confirmed, Rejected, Mark, SaveCursor
<1>2. \A q \in Procs \ {p} : todo'[q] = todo[q] /\ entries'[q] = entries[q]
  BY OthersKeep
<1>3. Held(p)' \subseteq Held(p) \/ Held(p)' = Page(p)
  <2> USE DEF TypeOK, Held, Goto
  <2>1. CASE Exit(p)
    BY <2>1 DEF Exit
  <2>2. ASSUME NEW b \in BOOLEAN, EndPage(p, b)
        PROVE  Held(p)' = {}
    BY <2>2 DEF EndPage, Exit
  <2>3. CASE Poll(p)
    BY <2>3 DEF Poll
  <2>4. CASE Examine(p)
    <3>1. Min(todo[p]) \in todo[p]
      BY <2>4, MinIsMember, TopicFacts DEF Examine
    <3> QED
      BY <2>4, <3>1 DEF Examine
  <2>5. CASE Mark(p)
    BY <2>5 DEF Mark
  <2> QED
    BY <2>1, <2>2, <2>3, <2>4, <2>5
    DEF Step, Crash, Start, StopAtMax, PollFails, PollEmpty, SkipPage, Submit,
        Confirmed, Rejected, SaveCursor, locals
<1>4. orphans' \subseteq orphans \cup {entries[p]}
  BY DEF Step, Crash, Start, StopAtMax, PollFails, PollEmpty, Poll, Examine, SkipPage,
         Submit, Confirmed, Rejected, Mark, SaveCursor, chain
<1>5. Unlike(Page(p)) /\ Unlike(Held(p)) /\ Unlike(entries[p])
  BY PageUnlike DEF UnlikeInv, Unlike, Held
<1>6. ASSUME NEW q \in Procs
      PROVE  Unlike(Held(q))'
  <2>1. CASE q = p
    BY <1>1, <1>3, <1>5, <2>1 DEF Unlike
  <2>2. CASE q # p
    BY <1>1, <1>2, <2>2 DEF UnlikeInv, Unlike, Held
  <2> QED
    BY <2>1, <2>2
<1>7. \A S \in orphans' : Unlike(S)'
  BY <1>1, <1>4, <1>5 DEF UnlikeInv, Unlike
<1> QED
  BY <1>1, <1>6, <1>7 DEF UnlikeInv, Unlike

OnceInv == TypeOK /\ UnlikeInv /\ OneRecordPerCid

\* A transaction that does not repeat a CID leaves one record of each.
LEMMA UnlikeLands ==
  ASSUME OneRecordPerCid, NEW S, Unlike(S), copies' = NewCopies(S)
  PROVE  OneRecordPerCid'
<1>1. ASSUME NEW c \in Cids
      PROVE  copies'[c] <= 1
  <2>1. CASE OnChain(c)
    BY <2>1 DEF NewCopies, OneRecordPerCid
  <2>2. CASE ~OnChain(c)
    <3>1. copies'[c] = Cardinality({k \in S : topic[k] = c})
      BY <2>2 DEF NewCopies
    <3> QED
      BY <3>1, AtMostOne
  <2> QED
    BY <2>1, <2>2
<1> QED
  BY <1>1 DEF OneRecordPerCid

\* Every step keeps the invariant.
LEMMA NextOnceInv ==
  ASSUME ~Rebroadcast \/ BatchSize <= 1, OnceInv, [Next]_vars
  PROVE  OnceInv'
<1> USE DEF OnceInv
<1>1. TypeOK'
  BY NextTypeOK
<1>2. ASSUME NEW m \in Messages, Publish(m)
      PROVE  UnlikeInv' /\ OneRecordPerCid'
  BY <1>2, PublishUnlike DEF Publish, chain, OneRecordPerCid
<1>3. ASSUME NEW S \in orphans, OrphanLands(S)
      PROVE  UnlikeInv' /\ OneRecordPerCid'
  <2>1. /\ topic' = topic /\ todo' = todo /\ entries' = entries /\ orphans' \subseteq orphans
        /\ copies' = copies \/ copies' = NewCopies(S)
    BY <1>3 DEF OrphanLands, locals
  <2>2. Unlike(S)
    BY <1>3 DEF UnlikeInv
  <2>3. CASE copies' = copies
    BY <2>1, <2>3 DEF UnlikeInv, Unlike, Held, OneRecordPerCid
  <2>4. CASE copies' = NewCopies(S)
    BY <2>1, <2>2, <2>4, UnlikeLands DEF UnlikeInv, Unlike, Held
  <2> QED
    BY <2>1, <2>3, <2>4
<1>4. ASSUME NEW p \in Procs, Step(p) \/ Crash(p)
      PROVE  UnlikeInv' /\ OneRecordPerCid'
  <2>1. UnlikeInv'
    BY <1>4, StepUnlike
  <2>2. CASE Confirmed(p)
    <3>1. Unlike(entries[p])
      BY DEF UnlikeInv, Unlike, Held
    <3> QED
      BY <2>1, <2>2, <3>1, UnlikeLands DEF Confirmed
  <2>3. CASE ~Confirmed(p)
    <3>1. copies' = copies
      BY <1>4, <2>3 DEF Step, Crash, Start, StopAtMax, PollFails, PollEmpty, Poll, Examine,
         SkipPage, Submit, Rejected, Mark, SaveCursor, chain
    <3> QED
      BY <2>1, <3>1 DEF OneRecordPerCid
  <2> QED
    BY <2>2, <2>3
<1>5. ASSUME Initialize \/ UNCHANGED vars
      PROVE  UnlikeInv' /\ OneRecordPerCid'
  <2>1. UNCHANGED <<topic, todo, entries, orphans, copies>>
    BY <1>5 DEF Initialize, vars, chain, locals
  <2> QED
    BY <1>1, <2>1 DEF UnlikeInv, Unlike, Held, OneRecordPerCid
<1> QED
  BY <1>1, <1>2, <1>3, <1>4, <1>5 DEF Next

\* When no message is published twice, or a page is one message, the chain
\* holds one record per CID, however many processes submit it and however
\* often.  (Otherwise a page can carry a CID twice, and the deployed program
\* registers it twice.)
THEOREM RegisteredOnce ==
  ASSUME ~Rebroadcast \/ BatchSize <= 1
  PROVE  Spec => []OneRecordPerCid
<1>1. Init => OnceInv
  BY InitTypeOK DEF Init, OnceInv, UnlikeInv, Unlike, Held, OneRecordPerCid
<1>2. OnceInv /\ [Next]_vars => OnceInv'
  BY NextOnceInv
<1>3. OnceInv => OneRecordPerCid
  BY DEF OnceInv
<1> QED
  BY <1>1, <1>2, <1>3, PTL DEF Spec

-----------------------------------------------------------------------------
(* The refinement.                                                         *)

Broadcasts == {c \in Cids : \E k \in DOMAIN topic : topic[k] = c}
Registered == {c \in Cids : OnChain(c)}

\* Publishing is the service's Broadcast, or concerns no CID.
LEMMA PublishRefines ==
  ASSUME TypeOK, NEW m \in Messages, Publish(m)
  PROVE  Registered' = Registered /\ Broadcasts' = Broadcasts \cup ({m} \cap Cids)
<1>1. copies' = copies
  BY DEF Publish, chain
<1>2. topic'[Len(topic) + 1] = m
  BY DEF Publish, TypeOK
<1> QED
  BY <1>1, <1>2, PublishFacts DEF Registered, Broadcasts, OnChain, TypeOK

\* A transaction that lands registers only what was broadcast, and keeps what
\* is registered.
LEMMA LandingRefines ==
  ASSUME TypeOK, NEW S \in SUBSET DOMAIN topic, topic' = topic, copies' = NewCopies(S)
  PROVE  /\ Broadcasts' = Broadcasts
         /\ Registered \subseteq Registered'
         /\ Registered' \ Registered \subseteq Broadcasts
<1>1. Broadcasts' = Broadcasts
  BY DEF Broadcasts
<1>2. Registered \subseteq Registered'
  BY NewCopiesFacts DEF Registered, OnChain
<1>3. ASSUME NEW c \in Registered', c \notin Registered
      PROVE  c \in Broadcasts
  <2>1. Cardinality({k \in S : topic[k] = c}) > 0
    BY <1>3 DEF Registered, OnChain, NewCopies
  <2>2. {k \in S : topic[k] = c} # {}
    BY <2>1, FS_EmptySet
  <2> QED
    BY <1>3, <2>2 DEF Broadcasts, Registered
<1> QED
  BY <1>1, <1>2, <1>3

\* The tools, the topic and the chain do what AnchorService says: only CIDs
\* that were broadcast are registered, and for good.
THEOREM ServiceImplemented == Spec => ImplementsService
<1>1. Init => Service!Init
  BY DEF Init, Service!Init, OnChain
<1>2. TypeOK /\ [Next]_vars => [Service!Next]_(Service!vars)
  <2> SUFFICES ASSUME TypeOK, [Next]_vars
               PROVE  [Service!Next]_(Service!vars)
    OBVIOUS
  <2> USE DEF Service!Next, Service!vars, Service!Broadcast, Service!Register,
              Broadcasts, Registered
  <2>1. ASSUME NEW m \in Messages, Publish(m)
        PROVE  [Service!Next]_(Service!vars)
    <3>1. CASE m \in Cids
      BY <2>1, <3>1, PublishRefines
    <3>2. CASE m \notin Cids
      BY <2>1, <3>2, PublishRefines
    <3> QED
      BY <3>1, <3>2
  <2>2. ASSUME NEW S \in SUBSET DOMAIN topic, topic' = topic, copies' = NewCopies(S)
        PROVE  [Service!Next]_(Service!vars)
    <3> DEFINE new == Registered' \ Registered
    <3>1. CASE new = {}
      BY <2>2, <3>1, LandingRefines
    <3>2. CASE new # {}
      <4>1. Registered' = Registered \cup new /\ new \subseteq Broadcasts \ Registered
        BY <2>2, LandingRefines
      <4>2. Broadcasts' = Broadcasts
        BY <2>2, LandingRefines
      <4>3. new \in SUBSET Cids
        OBVIOUS
      <4>4. Service!Register(new)
        BY <3>2, <4>1, <4>2
      <4> QED
        BY <4>3, <4>4
    <3> QED
      BY <3>1, <3>2
  <2>3. CASE topic' = topic /\ copies' = copies
    BY <2>3 DEF OnChain
  <2> QED
    BY <2>1, <2>2, <2>3, StepShape
<1> QED
  BY <1>1, <1>2, TypeCorrect, PTL DEF Spec, ImplementsService, Service!Spec
=============================================================================
