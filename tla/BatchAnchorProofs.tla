------------------------- MODULE BatchAnchorProofs -------------------------
(***************************************************************************)
(* What holds of batch-anchor for any number of processes and databases,   *)
(* any options, any sequence of messages and any number of crashes.        *)
(***************************************************************************)
EXTENDS BatchAnchor, FiniteSetTheorems, WellFoundedInduction, TLAPS

-----------------------------------------------------------------------------
\* The next message of a page is one of the page.
LEMMA MinIsMember ==
  ASSUME NEW S \in SUBSET Nat, S # {}
  PROVE  Min(S) \in S /\ \A y \in S : Min(S) <= y
<1> DEFINE R == OpToRel(<, Nat)
<1>1. PICK x \in S : \A y \in S : <<y, x>> \notin R
  <2> HIDE DEF R
  <2>1. IsWellFoundedOn(R, Nat)
    BY NatLessThanWellFounded DEF R
  <2> QED
    BY <2>1, WFMin
<1>2. \A a, b \in Nat : a < b => <<a, b>> \in R
  BY DEF OpToRel
<1>3. \A y \in S : x <= y
  <2> SUFFICES ASSUME NEW y \in S, y < x
               PROVE  FALSE
    OBVIOUS
  <2>1. <<y, x>> \in R
    BY <1>2
  <2> QED
    BY <1>1, <2>1
<1> QED
  BY <1>3 DEF Min

\* The topic is a sequence of messages; its positions are positive numbers.
LEMMA TopicFacts ==
  ASSUME topic \in Seq(Messages)
  PROVE  /\ Len(topic) \in Nat
         /\ DOMAIN topic = 1..Len(topic)
         /\ \A k \in DOMAIN topic : k \in Nat \ {0} /\ topic[k] \in Messages
OBVIOUS

\* Publishing adds one message behind the others.
LEMMA PublishFacts ==
  ASSUME topic \in Seq(Messages), NEW m \in Messages, Publish(m)
  PROVE  /\ topic' \in Seq(Messages)
         /\ Len(topic') = Len(topic) + 1
         /\ DOMAIN topic' = DOMAIN topic \cup {Len(topic) + 1}
         /\ \A k \in DOMAIN topic : topic'[k] = topic[k]
<1>1. topic' = Append(topic, m)
  BY DEF Publish
<1>2. /\ topic' \in Seq(Messages)
      /\ Len(topic') = Len(topic) + 1
      /\ \A k \in 1..Len(topic) : topic'[k] = topic[k]
  BY <1>1
<1>3. DOMAIN topic' = 1..(Len(topic) + 1) /\ DOMAIN topic = 1..Len(topic)
  BY <1>2
<1>4. 1..(Len(topic) + 1) = 1..Len(topic) \cup {Len(topic) + 1}
  BY <1>2, TopicFacts
<1> QED
  BY <1>2, <1>3, <1>4

\* An accepted transaction keeps what is on chain and registers what it
\* carries.
LEMMA NewCopiesFacts ==
  ASSUME TypeOK, NEW S \in SUBSET DOMAIN topic
  PROVE  /\ NewCopies(S) \in [Cids -> Nat]
         /\ \A c \in Cids : OnChain(c) => NewCopies(S)[c] > 0
         /\ \A k \in S : topic[k] \in Cids => NewCopies(S)[topic[k]] > 0
<1>1. IsFiniteSet(DOMAIN topic)
  BY TopicFacts, FS_Interval DEF TypeOK
<1>2. \A c \in Cids :
        LET same == {k \in S : topic[k] = c}
        IN  /\ Cardinality(same) \in Nat
            /\ same # {} => Cardinality(same) > 0
  <2> SUFFICES ASSUME NEW c \in Cids,
                      NEW same, same = {k \in S : topic[k] = c}
               PROVE  /\ Cardinality(same) \in Nat
                      /\ same # {} => Cardinality(same) > 0
    OBVIOUS
  <2>1. same \in SUBSET DOMAIN topic
    OBVIOUS
  <2>2. IsFiniteSet(same)
    BY <1>1, <2>1, FS_Subset
  <2>3. Cardinality(same) \in Nat /\ (Cardinality(same) = 0 <=> same = {})
    BY <2>2, FS_CardinalityType, FS_EmptySet
  <2> QED
    BY <2>3
<1>3. NewCopies(S) \in [Cids -> Nat]
  BY <1>2 DEF NewCopies, TypeOK
<1>4. \A c \in Cids : OnChain(c) => NewCopies(S)[c] > 0
  BY DEF NewCopies, OnChain
<1>5. ASSUME NEW k \in S, topic[k] \in Cids
      PROVE  NewCopies(S)[topic[k]] > 0
  <2>1. CASE OnChain(topic[k])
    BY <1>4, <1>5, <2>1
  <2>2. CASE ~OnChain(topic[k])
    <3> DEFINE same == {j \in S : topic[j] = topic[k]}
    <3>1. k \in same
      OBVIOUS
    <3>2. Cardinality(same) > 0
      BY <1>2, <1>5, <3>1
    <3>3. NewCopies(S)[topic[k]] = Cardinality(same)
      BY <1>5, <2>2 DEF NewCopies
    <3> QED
      BY <3>2, <3>3
  <2> QED
    BY <2>1, <2>2
<1> QED
  BY <1>3, <1>4, <1>5
-----------------------------------------------------------------------------
\* Every variable keeps its type.
LEMMA InitTypeOK == Init => TypeOK
<1> SUFFICES ASSUME Init
             PROVE  TypeOK
  OBVIOUS
<1>1. topic \in Seq(Messages)
  BY DEF Init
<1>2. /\ initialized \in BOOLEAN
      /\ copies \in [Cids -> Nat]
      /\ orphans \subseteq SUBSET DOMAIN topic
      /\ pc \in [Procs -> {"down", "poll", "filter", "sent", "mark"}]
      /\ cursor \in [Procs -> Nat]
      /\ newCursor \in [Procs -> Nat]
      /\ submitted \in [Procs -> Nat]
      /\ saved \in [Dbs -> Nat]
      /\ faults \in Nat
  BY DEF Init
<1>3. /\ todo \in [Procs -> SUBSET DOMAIN topic]
      /\ entries \in [Procs -> SUBSET {k \in DOMAIN topic : topic[k] \in Cids}]
      /\ anchored \in [Dbs -> SUBSET Cids]
  BY DEF Init
<1> QED
  BY <1>1, <1>2, <1>3 DEF TypeOK

\* A process that ends, or goes on to its next page.
LEMMA ExitTypes ==
  ASSUME TypeOK, NEW p \in Procs, Exit(p), topic' = topic
  PROVE  /\ pc' \in [Procs -> {"down", "poll", "filter", "sent", "mark"}]
         /\ cursor' \in [Procs -> Nat]
         /\ todo' \in [Procs -> SUBSET DOMAIN topic']
         /\ entries' \in [Procs -> SUBSET {k \in DOMAIN topic' : topic'[k] \in Cids}]
         /\ newCursor' \in [Procs -> Nat]
         /\ submitted' \in [Procs -> Nat]
BY DEF TypeOK, Exit, Goto

\* The end of a page leaves every local and every cursor typed.
LEMMA EndPageTypes ==
  ASSUME TypeOK, NEW p \in Procs, NEW count \in BOOLEAN, EndPage(p, count), topic' = topic
  PROVE  /\ pc' \in [Procs -> {"down", "poll", "filter", "sent", "mark"}]
         /\ cursor' \in [Procs -> Nat]
         /\ todo' \in [Procs -> SUBSET DOMAIN topic']
         /\ entries' \in [Procs -> SUBSET {k \in DOMAIN topic' : topic'[k] \in Cids}]
         /\ newCursor' \in [Procs -> Nat]
         /\ submitted' \in [Procs -> Nat]
         /\ saved' \in [Dbs -> Nat]
<1>1. saved' \in [Dbs -> Nat]
  BY DEF EndPage, TypeOK
<1>2. CASE p \in Once /\ Exit(p)
  BY <1>1, <1>2, ExitTypes
<1>3. CASE ~(p \in Once /\ Exit(p))
  <2>1. /\ pc' = [pc EXCEPT ![p] = "poll"]
        /\ cursor' = [cursor EXCEPT ![p] = newCursor[p]]
        /\ todo' = [todo EXCEPT ![p] = {}]
        /\ entries' = [entries EXCEPT ![p] = {}]
        /\ newCursor' = [newCursor EXCEPT ![p] = 0]
        /\ submitted' = [submitted EXCEPT ![p] =
                           IF count /\ MaxBatches > 0 THEN @ + 1 ELSE @]
    BY <1>3 DEF EndPage, Goto
  <2>2. submitted[p] \in Nat /\ submitted[p] + 1 \in Nat
    BY DEF TypeOK
  <2>3. submitted' \in [Procs -> Nat]
    <3> DEFINE n == IF count /\ MaxBatches > 0 THEN submitted[p] + 1 ELSE submitted[p]
    <3>1. n \in Nat
      BY <2>2
    <3>2. submitted' = [submitted EXCEPT ![p] = n]
      BY <2>1
    <3> HIDE DEF n
    <3> QED
      BY <3>1, <3>2 DEF TypeOK
  <2>4. cursor' \in [Procs -> Nat] /\ newCursor' \in [Procs -> Nat]
    BY <2>1 DEF TypeOK
  <2>5. /\ todo' \in [Procs -> SUBSET DOMAIN topic']
        /\ entries' \in [Procs -> SUBSET {k \in DOMAIN topic' : topic'[k] \in Cids}]
        /\ pc' \in [Procs -> {"down", "poll", "filter", "sent", "mark"}]
    BY <2>1 DEF TypeOK
  <2> QED
    BY <1>1, <2>3, <2>4, <2>5
<1> QED
  BY <1>2, <1>3

\* Every step of topic, chain and processes keeps the types.
LEMMA NextTypeOK == TypeOK /\ [Next]_vars => TypeOK'
<1> SUFFICES ASSUME TypeOK, [Next]_vars
             PROVE  TypeOK'
  OBVIOUS
<1> USE DEF chain, locals, disk
<1>1. ASSUME NEW m \in Messages, Publish(m)
      PROVE  TypeOK'
  <2>1. DOMAIN topic \subseteq DOMAIN topic'
    BY <1>1, PublishFacts DEF TypeOK
  <2>2. {k \in DOMAIN topic : topic[k] \in Cids}
          \subseteq {k \in DOMAIN topic' : topic'[k] \in Cids}
    BY <1>1, PublishFacts DEF TypeOK
  <2>3. topic' \in Seq(Messages)
    BY <1>1, PublishFacts DEF TypeOK
  <2>4. /\ orphans' \subseteq SUBSET DOMAIN topic'
        /\ todo' \in [Procs -> SUBSET DOMAIN topic']
        /\ entries' \in [Procs -> SUBSET {k \in DOMAIN topic' : topic'[k] \in Cids}]
    <3>1. orphans' = orphans /\ todo' = todo /\ entries' = entries
      BY <1>1 DEF Publish
    <3>2. orphans \subseteq SUBSET DOMAIN topic'
      BY <2>1 DEF TypeOK
    <3>3. \A q \in Procs : todo[q] \subseteq DOMAIN topic'
      BY <2>1 DEF TypeOK
    <3>4. \A q \in Procs : entries[q] \subseteq {k \in DOMAIN topic' : topic'[k] \in Cids}
      BY <2>2 DEF TypeOK
    <3>5. todo \in [Procs -> SUBSET DOMAIN topic']
      BY <3>3 DEF TypeOK
    <3>6. entries \in [Procs -> SUBSET {k \in DOMAIN topic' : topic'[k] \in Cids}]
      BY <3>4 DEF TypeOK
    <3> QED
      BY <3>1, <3>2, <3>5, <3>6
  <2>5. /\ pc' = pc /\ copies' = copies /\ cursor' = cursor /\ newCursor' = newCursor
        /\ submitted' = submitted /\ anchored' = anchored /\ saved' = saved
        /\ faults' = faults /\ initialized' = initialized
    BY <1>1 DEF Publish
  <2> QED
    BY <2>3, <2>4, <2>5 DEF TypeOK
<1>2. ASSUME NEW S \in orphans, OrphanLands(S)
      PROVE  TypeOK'
  <2>1. copies' \in [Cids -> Nat]
    BY <1>2, NewCopiesFacts DEF OrphanLands, TypeOK
  <2> QED
    BY <1>2, <2>1 DEF OrphanLands, TypeOK
<1>3. ASSUME NEW p \in Procs, StopAtMax(p) \/ PollFails(p) \/ PollEmpty(p) \/ Rejected(p)
      PROVE  TypeOK'
  BY <1>3, ExitTypes DEF StopAtMax, PollFails, PollEmpty, Rejected, TypeOK
<1>4. ASSUME NEW p \in Procs, Crash(p)
      PROVE  TypeOK'
  <2>1. orphans' \subseteq SUBSET DOMAIN topic'
    BY <1>4 DEF Crash, TypeOK
  <2>2. Exit(p) /\ UNCHANGED <<topic, initialized, copies, disk>> /\ faults' \in Nat
    BY <1>4 DEF Crash, TypeOK
  <2>3. /\ topic' \in Seq(Messages) /\ initialized' \in BOOLEAN
        /\ copies' \in [Cids -> Nat]
        /\ anchored' \in [Dbs -> SUBSET Cids] /\ saved' \in [Dbs -> Nat]
    BY <2>2 DEF TypeOK
  <2> QED
    BY <2>1, <2>2, <2>3, ExitTypes DEF TypeOK
<1>5. ASSUME NEW p \in Procs, SkipPage(p) \/ SaveCursor(p)
      PROVE  TypeOK'
  BY <1>5, EndPageTypes DEF SkipPage, SaveCursor, TypeOK
<1>6. ASSUME NEW p \in Procs, Start(p)
      PROVE  TypeOK'
  <2>1. saved[DbOf[p]] \in Nat
    BY ConstAssumption DEF TypeOK
  <2> QED
    BY <1>6, <2>1 DEF Start, Goto, TypeOK
<1>7. ASSUME NEW p \in Procs, Poll(p)
      PROVE  TypeOK'
  <2>1. Page(p) \subseteq DOMAIN topic
    BY DEF Page, Window
  <2>2. todo' \in [Procs -> SUBSET DOMAIN topic]
    BY <1>7, <2>1 DEF Poll, TypeOK
  <2>3. /\ entries' \in [Procs -> SUBSET {k \in DOMAIN topic : topic[k] \in Cids}]
        /\ newCursor' \in [Procs -> Nat]
        /\ pc' \in [Procs -> {"down", "poll", "filter", "sent", "mark"}]
    BY <1>7 DEF Poll, Goto, TypeOK
  <2> QED
    BY <1>7, <2>2, <2>3 DEF Poll, TypeOK
<1>8. ASSUME NEW p \in Procs, Examine(p)
      PROVE  TypeOK'
  <2>1. todo[p] \in SUBSET Nat /\ todo[p] \subseteq DOMAIN topic /\ todo[p] # {}
    BY <1>8, TopicFacts DEF Examine, TypeOK
  <2> DEFINE k == Min(todo[p])
  <2>2. k \in DOMAIN topic /\ k \in Nat
    BY <2>1, MinIsMember
  <2> HIDE DEF k
  <2>3. /\ newCursor' = [newCursor EXCEPT ![p] = IF k > @ THEN k ELSE @]
        /\ todo' = [todo EXCEPT ![p] = @ \ {k}]
        /\ entries' = [entries EXCEPT ![p] =
                         IF topic[k] \in Cids \ anchored[DbOf[p]] THEN @ \cup {k} ELSE @]
        /\ UNCHANGED <<topic, chain, pc, cursor, submitted, disk, faults>>
    BY <1>8 DEF Examine, k
  <2>4. newCursor' \in [Procs -> Nat]
    BY <2>2, <2>3 DEF TypeOK
  <2>5. todo' \in [Procs -> SUBSET DOMAIN topic]
    BY <2>3 DEF TypeOK
  <2>6. entries' \in [Procs -> SUBSET {j \in DOMAIN topic : topic[j] \in Cids}]
    BY <2>2, <2>3 DEF TypeOK
  <2> QED
    BY <2>3, <2>4, <2>5, <2>6 DEF TypeOK
<1>9. ASSUME NEW p \in Procs, Submit(p)
      PROVE  TypeOK'
  BY <1>9 DEF Submit, Goto, TypeOK
<1>10. ASSUME NEW p \in Procs, Confirmed(p)
       PROVE  TypeOK'
  <2>1. entries[p] \in SUBSET DOMAIN topic
    BY DEF TypeOK
  <2>2. copies' \in [Cids -> Nat]
    BY <1>10, <2>1, NewCopiesFacts DEF Confirmed
  <2> QED
    BY <1>10, <2>2 DEF Confirmed, Goto, TypeOK
<1>11. ASSUME NEW p \in Procs, Mark(p)
       PROVE  TypeOK'
  <2>1. entries[p] \in SUBSET Nat /\ entries[p] # {}
    BY <1>11, TopicFacts DEF Mark, TypeOK
  <2> DEFINE k == Min(entries[p])
  <2>2. k \in entries[p]
    BY <2>1, MinIsMember
  <2>3. topic[k] \in Cids
    BY <2>2 DEF TypeOK
  <2> HIDE DEF k
  <2>4. /\ anchored' = [anchored EXCEPT ![DbOf[p]] = @ \cup {topic[k]}]
        /\ entries' = [entries EXCEPT ![p] = @ \ {k}]
        /\ UNCHANGED <<topic, chain, pc, cursor, todo, newCursor, submitted, saved, faults>>
    BY <1>11 DEF Mark, k
  <2>5. anchored' \in [Dbs -> SUBSET Cids]
    BY <2>3, <2>4 DEF TypeOK
  <2>6. entries' \in [Procs -> SUBSET {j \in DOMAIN topic : topic[j] \in Cids}]
    BY <2>4 DEF TypeOK
  <2> QED
    BY <2>4, <2>5, <2>6 DEF TypeOK
<1>12. CASE Initialize
  BY <1>12 DEF Initialize, TypeOK
<1>13. CASE UNCHANGED vars
  BY <1>13 DEF vars, TypeOK
<1> QED
  BY <1>1, <1>2, <1>3, <1>4, <1>5, <1>6, <1>7, <1>8, <1>9, <1>10, <1>11, <1>12, <1>13
  DEF Next, Step

\* Every variable keeps its type: only CIDs that decode are ever in a
\* transaction or in a database.
THEOREM TypeCorrect == Spec => []TypeOK
<1>1. QED
  BY InitTypeOK, NextTypeOK, PTL DEF Spec
-----------------------------------------------------------------------------
\* No step takes a record off the chain.
LEMMA ChainGrows ==
  ASSUME TypeOK, [Next]_vars
  PROVE  \A c \in Cids : OnChain(c) => OnChain(c)'
<1> USE DEF chain, locals, disk
<1>1. ASSUME NEW S \in orphans, OrphanLands(S)
      PROVE  \A c \in Cids : OnChain(c) => OnChain(c)'
  <2>1. S \in SUBSET DOMAIN topic
    BY DEF TypeOK
  <2>2. copies' = NewCopies(S) \/ copies' = copies
    BY <1>1 DEF OrphanLands
  <2> QED
    BY <2>1, <2>2, NewCopiesFacts DEF OnChain
<1>2. ASSUME NEW p \in Procs, Confirmed(p)
      PROVE  \A c \in Cids : OnChain(c) => OnChain(c)'
  <2>1. entries[p] \in SUBSET DOMAIN topic
    BY DEF TypeOK
  <2> QED
    BY <1>2, <2>1, NewCopiesFacts DEF Confirmed, OnChain
<1>3. ASSUME NEW m \in Messages, Publish(m)
      PROVE  copies' = copies
  BY <1>3 DEF Publish
<1>4. ASSUME NEW p \in Procs, Crash(p)
      PROVE  copies' = copies
  BY <1>4 DEF Crash
<1>5. ASSUME NEW p \in Procs, Step(p), ~Confirmed(p)
      PROVE  copies' = copies
  BY <1>5 DEF Step, Start, StopAtMax, PollFails, PollEmpty, Poll, Examine,
              SkipPage, Submit, Rejected, Mark, SaveCursor
<1>6. ASSUME Initialize \/ UNCHANGED vars
      PROVE  copies' = copies
  BY <1>6 DEF Initialize, vars
<1>7. copies' = copies => \A c \in Cids : OnChain(c) => OnChain(c)'
  BY DEF OnChain
<1> QED
  BY <1>1, <1>2, <1>3, <1>4, <1>5, <1>6, <1>7 DEF Next

\* Only Publish touches the topic, and it leaves what is there alone.
LEMMA TopicGrows ==
  ASSUME TypeOK, [Next]_vars
  PROVE  /\ DOMAIN topic \subseteq DOMAIN topic'
         /\ Len(topic') \in Nat /\ Len(topic) <= Len(topic')
         /\ \A k \in DOMAIN topic : topic'[k] = topic[k]
         /\ \A k \in DOMAIN topic' : k \in Nat \ {0} /\ (k \notin DOMAIN topic => k > Len(topic))
<1> USE DEF chain, locals, disk
<1>1. ASSUME NEW m \in Messages, Publish(m)
      PROVE  /\ DOMAIN topic \subseteq DOMAIN topic'
             /\ Len(topic') \in Nat /\ Len(topic) <= Len(topic')
             /\ \A k \in DOMAIN topic : topic'[k] = topic[k]
             /\ \A k \in DOMAIN topic' : k \in Nat \ {0} /\ (k \notin DOMAIN topic => k > Len(topic))
  BY <1>1, PublishFacts, TopicFacts DEF TypeOK
<1>2. ASSUME NEW p \in Procs, Step(p) \/ Crash(p)
      PROVE  topic' = topic
  BY <1>2 DEF Step, Crash, Start, StopAtMax, PollFails, PollEmpty, Poll, Examine,
              SkipPage, Submit, Confirmed, Rejected, Mark, SaveCursor
<1>3. ASSUME NEW S \in orphans, OrphanLands(S)
      PROVE  topic' = topic
  BY <1>3 DEF OrphanLands
<1>4. ASSUME Initialize \/ UNCHANGED vars
      PROVE  topic' = topic
  BY <1>4 DEF Initialize, vars
<1>5. CASE topic' = topic
  BY <1>5, TopicFacts DEF TypeOK
<1> QED
  BY <1>1, <1>2, <1>3, <1>4, <1>5 DEF Next

\* A step belongs to one process: the memory of the others is untouched.
LEMMA OthersKeep ==
  ASSUME TypeOK, NEW p \in Procs, Step(p) \/ Crash(p), NEW q \in Procs, q # p
  PROVE  /\ pc'[q] = pc[q]
         /\ cursor'[q] = cursor[q]
         /\ todo'[q] = todo[q]
         /\ entries'[q] = entries[q]
         /\ newCursor'[q] = newCursor[q]
<1> USE DEF chain, locals, disk
<1>1. CASE Exit(p)
  BY <1>1 DEF Exit, Goto, TypeOK
<1>2. CASE \E count \in BOOLEAN : EndPage(p, count)
  BY <1>1, <1>2 DEF EndPage, Goto, TypeOK
<1>3. CASE Start(p) \/ Submit(p) \/ Confirmed(p)
  BY <1>3 DEF Start, Submit, Confirmed, Goto, TypeOK
<1>4. CASE Poll(p)
  BY <1>4 DEF Poll, Goto, TypeOK
<1>5. CASE Examine(p)
  BY <1>5 DEF Examine, TypeOK
<1>6. CASE Mark(p)
  BY <1>6 DEF Mark, TypeOK
<1> QED
  BY <1>1, <1>2, <1>3, <1>4, <1>5, <1>6 DEF Step, Crash, StopAtMax, PollFails, PollEmpty, Rejected,
                          SkipPage, SaveCursor

\* Steps of the topic and of the chain leave all processes and databases alone.
LEMMA ProcsKeep ==
  ASSUME [Next]_vars, ~ \E p \in Procs : Step(p) \/ Crash(p)
  PROVE  /\ pc' = pc /\ cursor' = cursor /\ todo' = todo /\ entries' = entries
         /\ newCursor' = newCursor /\ anchored' = anchored /\ saved' = saved
BY DEF Next, Initialize, Publish, OrphanLands, vars, chain, locals, disk

-----------------------------------------------------------------------------
\* A process marks only what its confirmed transaction carried.
Confirmable(q) == pc[q] = "mark" => \A k \in entries[q] : OnChain(topic[k])

MarkInv == TypeOK /\ (\A q \in Procs : Confirmable(q)) /\ LocalAnchoredOnChain

\* What a process is about to submit or mark are valid messages of the topic.
LEMMA EntriesAreCids ==
  ASSUME TypeOK, NEW q \in Procs
  PROVE  /\ entries[q] \subseteq DOMAIN topic
         /\ \A k \in entries[q] : topic[k] \in Cids
BY DEF TypeOK

\* A CID on chain under a position stays there.
LEMMA StaysOnChain ==
  ASSUME TypeOK, [Next]_vars, NEW k \in DOMAIN topic, topic[k] \in Cids, OnChain(topic[k])
  PROVE  OnChain(topic[k])'
<1>1. topic'[k] = topic[k]
  BY TopicGrows
<1>2. OnChain(topic[k]) => copies'[topic[k]] > 0
  BY ChainGrows DEF OnChain
<1> QED
  BY <1>1, <1>2 DEF OnChain

\* A process that reaches "mark" has just been confirmed; one that is there
\* only takes entries away.
LEMMA ConfirmableStep ==
  ASSUME MarkInv, [Next]_vars, NEW q \in Procs
  PROVE  Confirmable(q)'
<1> USE DEF MarkInv
<1> SUFFICES ASSUME pc'[q] = "mark", NEW k \in entries'[q]
             PROVE  OnChain(topic[k])'
  BY DEF Confirmable
<1>1. CASE pc[q] = "mark" /\ k \in entries[q]
  BY <1>1, EntriesAreCids, StaysOnChain DEF Confirmable
<1>2. CASE Confirmed(q)
  <2>1. k \in entries[q] /\ topic' = topic /\ copies' = NewCopies(entries[q])
    BY <1>2 DEF Confirmed, locals
  <2>2. entries[q] \in SUBSET DOMAIN topic /\ topic[k] \in Cids
    BY <2>1, EntriesAreCids
  <2> QED
    BY <2>1, <2>2, NewCopiesFacts DEF OnChain
<1>3. CASE ~Confirmed(q) /\ (Step(q) \/ Crash(q))
  <2>1. CASE Mark(q)
    <3>1. entries'[q] \subseteq entries[q] /\ pc[q] = "mark"
      BY <2>1 DEF Mark, TypeOK
    <3> QED
      BY <3>1, <1>1
  <2>2. pc'[q] = "mark" => Mark(q)
    BY <1>3 DEF Step, Crash, Start, StopAtMax, PollFails, PollEmpty, Poll, Examine,
                SkipPage, Submit, Rejected, SaveCursor, Exit, EndPage, Goto, TypeOK,
                Filtered
  <2> QED
    BY <2>1, <2>2
<1>4. CASE ~(Step(q) \/ Crash(q))
  <2>1. pc'[q] = pc[q] /\ entries'[q] = entries[q]
    BY <1>4, OthersKeep, ProcsKeep
  <2> QED
    BY <2>1, <1>1
<1> QED
  BY <1>2, <1>3, <1>4 DEF Step

\* Only Mark adds to a table.
LEMMA AnchoredStep ==
  ASSUME MarkInv, [Next]_vars
  PROVE  LocalAnchoredOnChain'
<1> USE DEF MarkInv
<1> SUFFICES ASSUME NEW d \in Dbs, NEW c \in anchored'[d]
             PROVE  OnChain(c)'
  BY DEF LocalAnchoredOnChain
<1>1. CASE c \in anchored[d]
  <2>1. c \in Cids /\ OnChain(c)
    BY <1>1 DEF LocalAnchoredOnChain, TypeOK
  <2> QED
    BY <2>1, ChainGrows
<1>2. ASSUME NEW p \in Procs, Mark(p)
      PROVE  OnChain(c)'
  <2> DEFINE k == Min(entries[p])
  <2>1. entries[p] \in SUBSET Nat /\ entries[p] # {}
    BY <1>2, TopicFacts, EntriesAreCids DEF Mark, TypeOK
  <2>2. k \in entries[p]
    BY <2>1, MinIsMember
  <2>3. OnChain(topic[k])
    BY <1>2, <2>2 DEF Mark, Confirmable
  <2>4. /\ copies' = copies
        /\ anchored' = [anchored EXCEPT ![DbOf[p]] = @ \cup {topic[k]}]
    BY <1>2 DEF Mark, chain
  <2> HIDE DEF k
  <2>5. c \in anchored[d] \/ c = topic[k]
    BY <2>4 DEF TypeOK
  <2> QED
    BY <1>1, <2>3, <2>4, <2>5 DEF OnChain
<1>3. CASE ~ \E p \in Procs : Mark(p)
  <2>1. anchored' = anchored
    BY <1>3 DEF Next, vars, Initialize, Publish, OrphanLands, Step, Crash, Start, StopAtMax,
                PollFails, PollEmpty, Poll, Examine, SkipPage, Submit,
                Confirmed, Rejected, SaveCursor, disk
  <2> QED
    BY <2>1, <1>1
<1> QED
  BY <1>2, <1>3

\* At the start no database marks anything.
LEMMA InitMarkInv == Init => MarkInv
<1>1. Init => LocalAnchoredOnChain /\ \A q \in Procs : Confirmable(q)
  BY DEF Init, LocalAnchoredOnChain, Confirmable
<1> QED
  BY <1>1, InitTypeOK DEF MarkInv

\* Every step keeps the marks of all databases true.
LEMMA NextMarkInv == MarkInv /\ [Next]_vars => MarkInv'
BY NextTypeOK, ConfirmableStep, AnchoredStep DEF MarkInv

\* No database ever marks a CID that is not on chain, dry runs, shared
\* databases and crashes included.
THEOREM MarksAreTrue == Spec => []LocalAnchoredOnChain
<1>1. MarkInv => LocalAnchoredOnChain
  BY DEF MarkInv
<1> QED
  BY <1>1, InitMarkInv, NextMarkInv, PTL DEF Spec

\* The inductive invariant of the marks: besides the marks themselves, what a
\* process is still going to mark is on chain.
THEOREM MarkInvariance == Spec => []MarkInv
<1>1. QED
  BY InitMarkInv, NextMarkInv, PTL DEF Spec
-----------------------------------------------------------------------------
\* Every valid message up to position n is on chain.
Past(n) == \A k \in DOMAIN topic : k <= n /\ topic[k] \in Cids => OnChain(topic[k])

\* A message the page has passed, or has yet to reach, is not forgotten: it
\* waits in todo, goes into the transaction, or is on chain.
Covered(q) ==
  \A k \in DOMAIN topic :
     /\ topic[k] \in Cids
     /\ k <= newCursor[q] \/ \E t \in todo[q] : k <= t
     => k \in todo[q] \/ k \in entries[q] \/ OnChain(topic[k])

ProcInv(q) ==
  /\ cursor[q] <= Len(topic) /\ newCursor[q] <= Len(topic)
  /\ Past(cursor[q])
  /\ pc[q] \in {"filter", "sent"} => Covered(q)
  /\ pc[q] = "sent" => todo[q] = {}
  /\ pc[q] = "mark" => Past(newCursor[q])

DbInv(d) == saved[d] <= Len(topic) /\ Past(saved[d])

\* The databases that no process with --dry-run writes to: a dry run saves its
\* cursor like any other and anchors nothing.
Wet == Dbs \ {DbOf[p] : p \in DryRun}

\* The promises of the processes and databases that no dry run has misled.
IInv ==
  /\ MarkInv
  /\ \A q \in Procs : DbOf[q] \in Wet => ProcInv(q)
  /\ \A d \in Wet : DbInv(d)

\* What a cursor has passed stays passed, and on chain.
LEMMA PastStays ==
  ASSUME TypeOK, [Next]_vars, NEW n \in Nat, n <= Len(topic), Past(n)
  PROVE  n <= Len(topic)' /\ Past(n)'
<1>1. Len(topic) \in Nat
  BY TopicFacts DEF TypeOK
<1>2. n <= Len(topic)'
  BY <1>1, TopicGrows
<1> SUFFICES ASSUME NEW k \in DOMAIN topic', k <= n, topic'[k] \in Cids
             PROVE  OnChain(topic[k])'
  BY <1>2 DEF Past
<1>3. k \in DOMAIN topic
  BY <1>1, TopicGrows
<1>4. topic[k] \in Cids
  BY <1>3, TopicGrows
<1>5. OnChain(topic[k])
  BY <1>3, <1>4 DEF Past
<1> QED
  BY <1>3, <1>4, <1>5, StaysOnChain

\* A process that does not move keeps its invariant whatever the others do.
LEMMA IdleProc ==
  ASSUME IInv, [Next]_vars, NEW q \in Procs, DbOf[q] \in Wet,
         pc'[q] = pc[q], cursor'[q] = cursor[q], todo'[q] = todo[q],
         entries'[q] = entries[q], newCursor'[q] = newCursor[q]
  PROVE  ProcInv(q)'
<1> USE DEF IInv, MarkInv
<1>1. /\ cursor[q] \in Nat /\ newCursor[q] \in Nat
      /\ todo[q] \subseteq DOMAIN topic /\ Len(topic) \in Nat
      /\ DOMAIN topic = 1..Len(topic)
  BY TopicFacts DEF TypeOK
<1>2. cursor'[q] <= Len(topic)' /\ Past(cursor[q])'
  <2>1. PICK n \in Nat : n = cursor[q]
    BY <1>1
  <2>2. n <= Len(topic)' /\ Past(n)'
    BY <2>1, PastStays DEF ProcInv
  <2> QED
    BY <2>1, <2>2 DEF Past
<1>3. newCursor'[q] <= Len(topic)'
  BY <1>1, TopicGrows DEF ProcInv
<1>4. ASSUME pc[q] = "mark"
      PROVE  Past(newCursor[q])'
  <2>1. PICK n \in Nat : n = newCursor[q]
    BY <1>1
  <2>2. Past(n)'
    BY <1>4, <2>1, PastStays DEF ProcInv
  <2> QED
    BY <2>1, <2>2 DEF Past
<1>5. ASSUME pc[q] \in {"filter", "sent"}
      PROVE  Covered(q)'
  <2> SUFFICES ASSUME NEW k \in DOMAIN topic', topic'[k] \in Cids,
                      k <= newCursor[q] \/ \E t \in todo[q] : k <= t
               PROVE  k \in todo[q] \/ k \in entries[q] \/ OnChain(topic[k])'
    BY DEF Covered
  <2>1. k \in Nat /\ k <= Len(topic)
    BY <1>1, TopicGrows DEF ProcInv
  <2>2. k \in DOMAIN topic /\ topic'[k] = topic[k]
    BY <2>1, <1>1, TopicGrows
  <2>3. k \in todo[q] \/ k \in entries[q] \/ OnChain(topic[k])
    BY <1>5, <2>2 DEF ProcInv, Covered
  <2> QED
    BY <2>2, <2>3, StaysOnChain
<1> QED
  BY <1>2, <1>3, <1>4, <1>5 DEF ProcInv

\* The page is done when nothing waits and nothing is left to submit.
LEMMA PageDone ==
  ASSUME IInv, NEW p \in Procs, DbOf[p] \in Wet,
         SkipPage(p) \/ SaveCursor(p)
  PROVE  Past(newCursor[p])
<1> USE DEF IInv
<1>1. CASE SkipPage(p)
  <2>1. entries[p] = {}
    BY <1>1 DEF SkipPage, Wet
  <2> QED
    BY <1>1, <2>1 DEF SkipPage, Filtered, ProcInv, Covered, Past
<1>2. CASE SaveCursor(p)
  BY <1>2 DEF SaveCursor, ProcInv
<1> QED
  BY <1>1, <1>2

\* A saved cursor moves only to the end of a page that is all on chain.
LEMMA DbStep ==
  ASSUME IInv, [Next]_vars, NEW d \in Wet
  PROVE  DbInv(d)'
<1> USE DEF IInv, MarkInv
<1>0. d \in Dbs
  BY DEF Wet
<1>1. CASE saved'[d] = saved[d]
  <2>1. PICK n \in Nat : n = saved[d]
    BY <1>0 DEF TypeOK
  <2>2. n <= Len(topic)' /\ Past(n)'
    BY <2>1, PastStays DEF DbInv
  <2> QED
    BY <1>1, <2>1, <2>2 DEF DbInv, Past
<1>2. ASSUME NEW p \in Procs, SkipPage(p) \/ SaveCursor(p)
      PROVE  DbInv(d)'
  <2>1. PICK n \in Nat : n = newCursor[p]
    BY DEF TypeOK
  <2>2. saved' = [saved EXCEPT ![DbOf[p]] = n]
    BY <1>2, <2>1 DEF SkipPage, SaveCursor, EndPage
  <2>3. CASE DbOf[p] = d
    <3>1. n <= Len(topic) /\ Past(n)
      BY <1>2, <2>1, <2>3, PageDone DEF ProcInv
    <3>2. n <= Len(topic)' /\ Past(n)'
      BY <3>1, PastStays
    <3>3. saved'[d] = n
      BY <1>0, <2>2, <2>3 DEF TypeOK
    <3> QED
      BY <3>2, <3>3 DEF DbInv, Past
  <2>4. CASE DbOf[p] # d
    BY <1>0, <1>1, <2>2, <2>4 DEF TypeOK
  <2> QED
    BY <2>3, <2>4
<1>3. CASE ~ \E p \in Procs : SkipPage(p) \/ SaveCursor(p)
  <2>1. saved' = saved
    BY <1>3 DEF Next, vars, Initialize, Publish, OrphanLands, Step, Crash, Start, StopAtMax,
                PollFails, PollEmpty, Poll, Examine, Submit, Confirmed, Rejected, Mark, disk
  <2> QED
    BY <2>1, <1>1
<1> QED
  BY <1>2, <1>3
-----------------------------------------------------------------------------
\* A process that ends forgets its page.
LEMMA ExitProc ==
  ASSUME TypeOK, NEW q \in Procs, Exit(q), topic' = topic
  PROVE  ProcInv(q)'
<1>1. pc'[q] = "down" /\ cursor'[q] = 0 /\ newCursor'[q] = 0
  BY DEF Exit, Goto, TypeOK
<1>2. Len(topic)' \in Nat /\ \A k \in DOMAIN topic' : k \in Nat \ {0}
  BY TopicFacts DEF TypeOK
<1>3. Past(cursor[q])'
  BY <1>1, <1>2 DEF Past
<1> QED
  BY <1>1, <1>2, <1>3 DEF ProcInv

\* main reads the cursor of the database, which passes nothing.
LEMMA StartProc ==
  ASSUME IInv, NEW q \in Procs, DbOf[q] \in Wet, Start(q)
  PROVE  ProcInv(q)'
<1> USE DEF IInv, MarkInv, Start, chain, disk
<1>1. DbOf[q] \in Dbs
  BY ConstAssumption
<1>2. pc'[q] = "poll" /\ cursor'[q] = saved[DbOf[q]] /\ newCursor'[q] = newCursor[q]
  BY DEF Goto, TypeOK
<1>3. topic' = topic /\ copies' = copies
  OBVIOUS
<1>4. saved[DbOf[q]] <= Len(topic) /\ Past(saved[DbOf[q]])
  BY <1>1 DEF DbInv
<1>5. Past(cursor[q])'
  BY <1>2, <1>3, <1>4 DEF Past, OnChain
<1> QED
  BY <1>2, <1>3, <1>4, <1>5 DEF ProcInv

\* A page holds every valid message between the cursor and its last one.
LEMMA PollProc ==
  ASSUME IInv, NEW q \in Procs, DbOf[q] \in Wet, Poll(q)
  PROVE  ProcInv(q)'
<1> USE DEF IInv, MarkInv, Poll, chain, disk
<1>1. /\ pc'[q] = "filter" /\ cursor'[q] = cursor[q] /\ newCursor'[q] = cursor[q]
      /\ todo'[q] = Page(q)
  BY DEF Goto, TypeOK
<1>2. topic' = topic /\ copies' = copies
  OBVIOUS
<1>3. cursor[q] \in Nat /\ Limit(q) \in Nat /\ \A k \in DOMAIN topic : k \in Nat
  BY TopicFacts, ConstAssumption DEF TypeOK, Limit
<1>4. ASSUME NEW k \in DOMAIN topic, topic[k] \in Cids,
             k <= cursor[q] \/ \E t \in Page(q) : k <= t
      PROVE  k \in Page(q) \/ OnChain(topic[k])
  <2>1. CASE k <= cursor[q]
    BY <1>4, <2>1 DEF ProcInv, Past
  <2>2. CASE k > cursor[q]
    <3>1. PICK t \in Page(q) : k <= t
      BY <1>3, <1>4, <2>2
    <3>2. t \in DOMAIN topic /\ t <= cursor[q] + Limit(q)
      BY <3>1 DEF Page, Window
    <3>3. k \in Window(q)
      BY <1>3, <2>2, <3>1, <3>2 DEF Window
    <3>4. topic[k] \notin Junk
      BY <1>4, ConstAssumption
    <3> QED
      BY <3>3, <3>4 DEF Page
  <2> QED
    BY <1>3, <2>1, <2>2
<1>5. Covered(q)'
  BY <1>1, <1>2, <1>4 DEF Covered, OnChain
<1>6. Past(cursor[q])'
  BY <1>1, <1>2 DEF ProcInv, Past, OnChain
<1> QED
  BY <1>1, <1>2, <1>5, <1>6 DEF ProcInv

\* The message examined goes into the transaction, is on chain already, or
\* has no CID to anchor.
LEMMA ExamineProc ==
  ASSUME IInv, NEW q \in Procs, DbOf[q] \in Wet, Examine(q)
  PROVE  ProcInv(q)'
<1> USE DEF IInv, MarkInv
<1> DEFINE k == Min(todo[q])
<1>1. /\ todo[q] \in SUBSET Nat /\ todo[q] # {} /\ pc[q] = "filter"
      /\ todo[q] \subseteq DOMAIN topic
  BY TopicFacts DEF Examine, TypeOK
<1>2. k \in todo[q] /\ \A t \in todo[q] : k <= t
  BY <1>1, MinIsMember
<1> HIDE DEF k
<1>3. /\ newCursor' = [newCursor EXCEPT ![q] = IF k > @ THEN k ELSE @]
      /\ todo' = [todo EXCEPT ![q] = @ \ {k}]
      /\ entries' = [entries EXCEPT ![q] =
                       IF topic[k] \in Cids \ anchored[DbOf[q]] THEN @ \cup {k} ELSE @]
      /\ pc' = pc /\ cursor' = cursor /\ topic' = topic /\ copies' = copies
  BY DEF Examine, k, chain
<1>4. /\ newCursor'[q] = IF k > newCursor[q] THEN k ELSE newCursor[q]
      /\ todo'[q] = todo[q] \ {k}
      /\ entries[q] \subseteq entries'[q]
      /\ topic[k] \in Cids \ anchored[DbOf[q]] => k \in entries'[q]
  BY <1>3 DEF TypeOK
<1>5. k \in Nat /\ k <= Len(topic) /\ newCursor[q] \in Nat /\ DbOf[q] \in Dbs
  BY <1>1, <1>2, TopicFacts, ConstAssumption DEF TypeOK
<1>6. topic[k] \in anchored[DbOf[q]] => OnChain(topic[k])
  BY <1>5 DEF LocalAnchoredOnChain
<1>7. ASSUME NEW j \in DOMAIN topic, topic[j] \in Cids,
             j <= newCursor'[q] \/ \E t \in todo'[q] : j <= t
      PROVE  j \in todo'[q] \/ j \in entries'[q] \/ OnChain(topic[j])
  <2>1. CASE j = k
    BY <2>1, <1>4, <1>6, <1>7
  <2>2. CASE j # k
    <3>1. j <= newCursor[q] \/ \E t \in todo[q] : j <= t
      BY <1>2, <1>4, <1>7
    <3>2. j \in todo[q] \/ j \in entries[q] \/ OnChain(topic[j])
      BY <1>1, <1>7, <3>1 DEF ProcInv, Covered
    <3> QED
      BY <2>2, <3>2, <1>4
  <2> QED
    BY <2>1, <2>2
<1>8. Covered(q)'
  BY <1>3, <1>7 DEF Covered, OnChain
<1>9. Past(cursor[q])'
  BY <1>3 DEF ProcInv, Past, OnChain
<1>10. newCursor'[q] <= Len(topic) /\ cursor'[q] <= Len(topic)
  BY <1>3, <1>4, <1>5 DEF ProcInv
<1> QED
  BY <1>1, <1>3, <1>8, <1>9, <1>10 DEF ProcInv

\* Sending the transaction changes nothing about the page.
LEMMA SubmitProc ==
  ASSUME IInv, NEW q \in Procs, DbOf[q] \in Wet, Submit(q)
  PROVE  ProcInv(q)'
<1> USE DEF IInv, MarkInv, Submit, Filtered, chain, locals
<1>1. pc'[q] = "sent"
  BY DEF Goto, TypeOK
<1>2. UNCHANGED <<topic, copies, cursor, todo, entries, newCursor>>
  OBVIOUS
<1> QED
  BY <1>1, <1>2 DEF ProcInv, Past, Covered, OnChain

\* A confirmed transaction puts the whole page on chain.
LEMMA ConfirmedProc ==
  ASSUME IInv, NEW q \in Procs, DbOf[q] \in Wet, Confirmed(q)
  PROVE  ProcInv(q)'
<1> USE DEF IInv, MarkInv, Confirmed, locals
<1>1. pc'[q] = "mark"
  BY DEF Goto, TypeOK
<1>2. /\ UNCHANGED <<topic, cursor, todo, entries, newCursor>>
      /\ copies' = NewCopies(entries[q])
  OBVIOUS
<1>3. entries[q] \in SUBSET DOMAIN topic
  BY EntriesAreCids
<1>4. /\ \A c \in Cids : OnChain(c) => OnChain(c)'
      /\ \A k \in entries[q] : topic[k] \in Cids => OnChain(topic[k])'
  BY <1>2, <1>3, NewCopiesFacts DEF OnChain
<1>5. Past(cursor[q])'
  BY <1>2, <1>4 DEF ProcInv, Past
<1>6. Past(newCursor[q])'
  BY <1>2, <1>4 DEF ProcInv, Past, Covered
<1> QED
  BY <1>1, <1>2, <1>5, <1>6 DEF ProcInv

\* Marking one CID leaves the rest of the page on chain.
LEMMA MarkProc ==
  ASSUME IInv, NEW q \in Procs, DbOf[q] \in Wet, Mark(q)
  PROVE  ProcInv(q)'
<1> USE DEF IInv, MarkInv, Mark, chain
<1>1. UNCHANGED <<topic, copies, pc, cursor, newCursor>> /\ pc[q] = "mark"
  OBVIOUS
<1> QED
  BY <1>1 DEF ProcInv, Past, OnChain

\* The next iteration begins where the page ended.
LEMMA EndPageProc ==
  ASSUME IInv, NEW q \in Procs, DbOf[q] \in Wet,
         SkipPage(q) \/ SaveCursor(q)
  PROVE  ProcInv(q)'
<1> USE DEF IInv, MarkInv
<1>1. /\ topic' = topic /\ copies' = copies
      /\ \E count \in BOOLEAN : EndPage(q, count)
  BY DEF SkipPage, SaveCursor, chain
<1>2. CASE Exit(q)
  BY <1>1, <1>2, ExitProc
<1>3. CASE ~Exit(q)
  <2>1. pc'[q] = "poll" /\ cursor'[q] = newCursor[q] /\ newCursor'[q] = 0
    BY <1>1, <1>3 DEF EndPage, Goto, TypeOK
  <2>2. Past(newCursor[q])
    BY PageDone
  <2>3. Past(cursor[q])'
    BY <1>1, <2>1, <2>2 DEF Past, OnChain
  <2>4. Len(topic) \in Nat /\ newCursor[q] <= Len(topic)
    BY TopicFacts DEF TypeOK, ProcInv
  <2> QED
    BY <1>1, <2>1, <2>3, <2>4 DEF ProcInv
<1> QED
  BY <1>2, <1>3

\* Every step of a process keeps what its page has promised.
LEMMA ProcStep ==
  ASSUME IInv, [Next]_vars, NEW q \in Procs, DbOf[q] \in Wet
  PROVE  ProcInv(q)'
<1>1. CASE Start(q)
  BY <1>1, StartProc
<1>2. CASE StopAtMax(q) \/ PollFails(q) \/ PollEmpty(q) \/ Rejected(q) \/ Crash(q)
  BY <1>2, ExitProc DEF StopAtMax, PollFails, PollEmpty, Rejected, Crash, IInv, MarkInv
<1>3. CASE Poll(q)
  BY <1>3, PollProc
<1>4. CASE Examine(q)
  BY <1>4, ExamineProc
<1>5. CASE Submit(q)
  BY <1>5, SubmitProc
<1>6. CASE Confirmed(q)
  BY <1>6, ConfirmedProc
<1>7. CASE Mark(q)
  BY <1>7, MarkProc
<1>8. CASE SkipPage(q) \/ SaveCursor(q)
  BY <1>8, EndPageProc
<1>9. CASE ~(Step(q) \/ Crash(q))
  <2>1. /\ pc'[q] = pc[q] /\ cursor'[q] = cursor[q] /\ todo'[q] = todo[q]
        /\ entries'[q] = entries[q] /\ newCursor'[q] = newCursor[q]
    BY <1>9, OthersKeep, ProcsKeep DEF IInv, MarkInv
  <2> QED
    BY <2>1, IdleProc
<1> QED
  BY <1>1, <1>2, <1>3, <1>4, <1>5, <1>6, <1>7, <1>8, <1>9 DEF Step

\* At the start nothing is read and no cursor has moved.
LEMMA InitIInv == Init => IInv
<1> SUFFICES ASSUME Init
             PROVE  (\A q \in Procs : ProcInv(q)) /\ (\A d \in Wet : DbInv(d))
  BY InitMarkInv DEF IInv
<1>1. Len(topic) = 0 /\ \A n : Past(n)
  BY DEF Init, Past
<1>2. ASSUME NEW q \in Procs
      PROVE  ProcInv(q)
  <2>1. cursor[q] = 0 /\ newCursor[q] = 0 /\ pc[q] = "down"
    BY DEF Init
  <2> QED
    BY <1>1, <2>1 DEF ProcInv
<1>3. ASSUME NEW d \in Wet
      PROVE  DbInv(d)
  BY <1>1 DEF Init, DbInv, Wet
<1> QED
  BY <1>2, <1>3

\* In a database that no dry run uses the saved cursor never passes a message
\* that is not on chain: interruptions lose no document, whatever dry runs and
\* other tools do with databases of their own.
THEOREM WetCursorsAreSafe ==
  Spec => [](\A d \in Wet : \A k \in DOMAIN topic :
               k <= saved[d] /\ topic[k] \in Cids => OnChain(topic[k]))
<1>1. IInv /\ [Next]_vars => IInv'
  BY NextMarkInv, ProcStep, DbStep DEF IInv
<1>2. IInv => \A d \in Wet : \A k \in DOMAIN topic :
                k <= saved[d] /\ topic[k] \in Cids => OnChain(topic[k])
  BY DEF IInv, DbInv, Past
<1> QED
  BY <1>1, <1>2, InitIInv, PTL DEF Spec

\* When nobody runs with --dry-run, that is every database.
THEOREM CursorsAreSafe ==
  ASSUME DryRun = {}
  PROVE  Spec => []NothingSkipped
<1>1. Wet = Dbs
  BY DEF Wet
<1>2. (\A d \in Wet : \A k \in DOMAIN topic :
         k <= saved[d] /\ topic[k] \in Cids => OnChain(topic[k]))
        => NothingSkipped
  BY <1>1 DEF NothingSkipped
<1> QED
  BY <1>2, WetCursorsAreSafe, PTL
=============================================================================
