------------------------- MODULE DeliveryPollProofs -------------------------
(***************************************************************************)
(* What holds of poll_delivery for any page size, over queues of any       *)
(* length with any numbers, torn lines and truncations; and that the       *)
(* paging of BatchAnchor is this one on a queue numbered by position.      *)
(***************************************************************************)
EXTENDS DeliveryPoll, FiniteSetTheorems, WellFoundedInduction, TLAPS

\* What a torn line holds is not known yet; a junk line is never an envelope.
Matters(k) == queue[k].kind \in {"envelope", "malformed"}

\* A line the reader has got to, is processing, or could not take in order.
Accounted(k) == k \in handled \cup page \/ OutOfOrder(k)

IInv ==
  /\ TypeOK
  /\ source # "file" => \A k \in DOMAIN queue : queue[k].kind # "malformed"
  /\ \A k \in handled : queue[k].seq <= cursor
  /\ \A k \in page : cursor < queue[k].seq /\ queue[k].seq <= newCursor
  /\ \A k \in handled \cup page : queue[k].kind = "envelope"
  /\ \A k \in DOMAIN queue : Matters(k) /\ queue[k].seq <= newCursor => Accounted(k)

-----------------------------------------------------------------------------
\* The largest number of a page is one of the page.
LEMMA MaxIsMember ==
  ASSUME NEW n \in Nat, NEW S \in SUBSET (0..n), S # {}
  PROVE  Max(S) \in S /\ \A y \in S : y <= Max(S)
<1> DEFINE R == OpToRel(<, Nat)
<1> DEFINE T == {n - s : s \in S}
<1>1. PICK x \in T : \A y \in T : <<y, x>> \notin R
  <2>1. T # {} /\ T \in SUBSET Nat
    <3>1. \A s \in S : n - s \in Nat
      OBVIOUS
    <3> QED
      BY <3>1
  <2>2. IsWellFoundedOn(R, Nat)
    BY NatLessThanWellFounded DEF R
  <2> HIDE DEF R, T
  <2> QED
    BY <2>1, <2>2, WFMin
<1>2. \A a, b \in Nat : a < b => <<a, b>> \in R
  BY DEF OpToRel
<1>3. PICK m \in S : x = n - m
  OBVIOUS
<1>4. ASSUME NEW y \in S
      PROVE  y <= m
  <2>1. n - y \in T /\ n - y \in Nat /\ x \in Nat /\ m \in Nat /\ y \in Nat
    BY <1>3
  <2>2. ~ (n - y < x)
    BY <1>1, <1>2, <2>1
  <2> QED
    BY <1>3, <2>1, <2>2
<1>5. \E z \in S : \A y \in S : z >= y
  BY <1>3, <1>4
<1> HIDE DEF R, T
<1> QED
  BY <1>5 DEF Max

\* The queue is a sequence of lines.
LEMMA QueueFacts ==
  ASSUME TypeOK
  PROVE  /\ Len(queue) \in Nat
         /\ DOMAIN queue = 1..Len(queue)
         /\ \A k \in DOMAIN queue :
              /\ k \in Nat /\ queue[k].seq \in 0..MaxSeq /\ queue[k].past \in Nat
              /\ queue[k].seq \in Nat /\ queue[k].kind \in Kinds
<1>1. queue \in Seq(Line)
  BY DEF TypeOK
<1>2. Len(queue) \in Nat /\ DOMAIN queue = 1..Len(queue) /\ \A k \in DOMAIN queue : queue[k] \in Line
  BY <1>1
<1>3. \A l \in Line : l.seq \in 0..MaxSeq /\ l.past \in Nat /\ l.kind \in Kinds
  BY DEF Line
<1> QED
  BY <1>2, <1>3, ConstAssumption

\* Lines further back have more eligible lines before them.
LEMMA TakenGrows ==
  ASSUME TypeOK, NEW k \in DOMAIN queue, NEW m \in DOMAIN queue, k <= m
  PROVE  /\ TakenBefore(k) \in Nat /\ TakenBefore(m) \in Nat
         /\ TakenBefore(k) <= TakenBefore(m)
<1> DEFINE A == {j \in Eligible : j < k}
           B == {j \in Eligible : j < m}
<1>1. A \in SUBSET B /\ B \in SUBSET DOMAIN queue
  BY QueueFacts DEF Eligible
<1>2. IsFiniteSet(DOMAIN queue)
  BY QueueFacts, FS_Interval
<1>0. TakenBefore(k) = Cardinality(A) /\ TakenBefore(m) = Cardinality(B)
  BY DEF TakenBefore
<1> HIDE DEF A, B
<1>3. IsFiniteSet(B)
  BY <1>1, <1>2, FS_Subset
<1>4. IsFiniteSet(A) /\ Cardinality(A) <= Cardinality(B)
  BY <1>1, <1>3, FS_Subset
<1>5. Cardinality(A) \in Nat /\ Cardinality(B) \in Nat
  BY <1>3, <1>4, FS_CardinalityType
<1> QED
  BY <1>0, <1>4, <1>5

-----------------------------------------------------------------------------
(* Writers.                                                                *)

\* A new line is either numbered above what was read, or out of order.
LEMMA WriteStep ==
  ASSUME IInv, NEW seq \in 0..MaxSeq, NEW kind \in Kinds, Write(seq, kind)
  PROVE  IInv'
<1> USE DEF IInv
<1> DEFINE new == [seq |-> seq, kind |-> kind, past |-> newCursor]
           n   == Len(queue) + 1
<1>1. new \in Line
  BY DEF Line, TypeOK
<1>2. /\ queue' \in Seq(Line)
      /\ DOMAIN queue' = DOMAIN queue \cup {n}
      /\ n \notin DOMAIN queue
      /\ queue'[n] = new
      /\ \A k \in DOMAIN queue : queue'[k] = queue[k] /\ k < n /\ k \in Nat
  <2>1. queue \in Seq(Line) /\ queue' = Append(queue, new)
    BY DEF TypeOK, Write
  <2> HIDE DEF new
  <2> QED
    BY <1>1, <2>1
<1> HIDE DEF n
<1>3. /\ UNCHANGED <<source, cursor, page, newCursor, handled>>
      /\ handled \subseteq DOMAIN queue /\ page \subseteq DOMAIN queue
  BY DEF Write, TypeOK
<1>4. TypeOK'
  BY <1>2, <1>3 DEF TypeOK
<1>5. source' # "file" => \A k \in DOMAIN queue' : queue'[k].kind # "malformed"
  BY <1>2, <1>3 DEF Write
<1>6. ASSUME NEW k \in DOMAIN queue', Matters(k)', queue'[k].seq <= newCursor'
      PROVE  Accounted(k)'
  <2>1. CASE k = n
    BY <1>2, <1>3, <1>6, <2>1 DEF Accounted, OutOfOrder
  <2>2. CASE k \in DOMAIN queue
    <3>1. Accounted(k)
      BY <1>2, <1>3, <1>6, <2>2 DEF Matters
    <3>2. \A j \in 1..(k-1) : j \in DOMAIN queue
      BY <2>2, QueueFacts
    <3> QED
      BY <1>2, <1>3, <2>2, <3>1, <3>2 DEF Accounted, OutOfOrder
  <2> QED
    BY <1>2, <2>1, <2>2
<1>7. /\ \A k \in handled' : queue'[k].seq <= cursor'
      /\ \A k \in page' : cursor' < queue'[k].seq /\ queue'[k].seq <= newCursor'
      /\ \A k \in handled' \cup page' : queue'[k].kind = "envelope"
  BY <1>2, <1>3
<1> QED
  BY <1>4, <1>5, <1>6, <1>7

\* A torn line that is completed keeps its number, which was accounted for.
LEMMA CompleteStep ==
  ASSUME IInv, Complete
  PROVE  IInv'
<1> USE DEF IInv
<1> DEFINE n == Len(queue)
<1>1. /\ n \in DOMAIN queue
      /\ queue[n].kind = "malformed"
      /\ queue' = [queue EXCEPT ![n].kind = "envelope"]
      /\ UNCHANGED <<source, cursor, page, newCursor, handled>>
      /\ handled \subseteq DOMAIN queue /\ page \subseteq DOMAIN queue
  BY DEF Complete, TypeOK
<1> HIDE DEF n
<1>2. /\ DOMAIN queue' = DOMAIN queue
      /\ \A k \in DOMAIN queue : k # n => queue'[k] = queue[k]
      /\ queue'[n] = [queue[n] EXCEPT !.kind = "envelope"]
  BY <1>1 DEF TypeOK
<1>3. /\ \A k \in DOMAIN queue : queue'[k].seq = queue[k].seq /\ queue'[k].past = queue[k].past
      /\ queue'[n].kind = "envelope"
      /\ queue'[n] \in Line
  <2>1. queue[n] \in Line
    BY <1>1 DEF TypeOK
  <2> QED
    BY <1>2, <2>1 DEF Line, Kinds
<1>4. queue' \in Seq(Line)
  <2>1. queue' = [queue EXCEPT ![n] = queue'[n]]
    BY <1>1, <1>2 DEF TypeOK
  <2> QED
    BY <1>1, <1>3, <2>1 DEF TypeOK
<1>5. TypeOK'
  BY <1>1, <1>2, <1>4 DEF TypeOK
<1>6. ASSUME NEW k \in DOMAIN queue', Matters(k)', queue'[k].seq <= newCursor'
      PROVE  Accounted(k)'
  <2>1. Matters(k)
    BY <1>1, <1>2, <1>6 DEF Matters
  <2>2. Accounted(k)
    BY <1>1, <1>2, <1>3, <1>6, <2>1
  <2>3. \A j \in 1..(k-1) : j \in DOMAIN queue
    BY <1>2, <1>6, QueueFacts
  <2> QED
    BY <1>1, <1>2, <1>3, <2>2, <2>3 DEF Accounted, OutOfOrder
<1>7. /\ source' # "file" => \A k \in DOMAIN queue' : queue'[k].kind # "malformed"
      /\ \A k \in handled' : queue'[k].seq <= cursor'
      /\ \A k \in page' : cursor' < queue'[k].seq /\ queue'[k].seq <= newCursor'
      /\ \A k \in handled' \cup page' : queue'[k].kind = "envelope"
  BY <1>1, <1>2, <1>3
<1> QED
  BY <1>5, <1>6, <1>7

-----------------------------------------------------------------------------
(* The reader.                                                             *)

\* What the poll leaves behind below its new cursor is out of order: an
\* earlier line has a number as large.
LEMMA LeftBehind ==
  ASSUME IInv, ~Fails, NEW m \in Page, NEW k \in DOMAIN queue, Matters(k),
         k \notin Page, cursor < queue[k].seq, queue[k].seq <= queue[m].seq
  PROVE  OutOfOrder(k)
<1> USE DEF IInv
<1>1. /\ m \in DOMAIN queue /\ TakenBefore(m) < Limit /\ TakenBefore(m) \in Nat
      /\ TakenBefore(k) \in Nat /\ Limit \in Nat
  BY TakenGrows, QueueFacts, ConstAssumption DEF Page, Taken, Eligible, Limit
<1>2. ~ (TakenBefore(k) < Limit)
  <2>1. CASE queue[k].kind = "envelope"
    BY <2>1 DEF Page, Taken, Eligible
  <2>2. CASE queue[k].kind = "malformed"
    <3>1. source = "file"
      BY <2>2 DEF TypeOK
    <3> QED
      BY <2>2, <3>1 DEF Fails
  <2> QED
    BY <2>1, <2>2 DEF Matters
<1>3. m < k
  BY <1>1, <1>2, TakenGrows, QueueFacts
<1>4. m \in 1..(k-1)
  BY <1>1, <1>3, QueueFacts
<1> QED
  BY <1>4, QueueFacts DEF OutOfOrder

\* A poll takes a page of lines above the cursor.
LEMMA PollStep ==
  ASSUME IInv, Poll
  PROVE  IInv'
<1> USE DEF IInv
<1> DEFINE S == {queue[k].seq : k \in Page}
<1>1. /\ page = {} /\ newCursor = cursor /\ page' = Page /\ newCursor' = Max(S)
      /\ ~Fails /\ Page # {}
      /\ UNCHANGED <<source, queue, cursor, handled>>
  BY DEF Poll
<1>2. \A k \in Page : k \in DOMAIN queue /\ queue[k].seq > cursor /\ queue[k].kind = "envelope"
  BY DEF Page, Taken, Eligible
<1>3. S \in SUBSET (0..MaxSeq) /\ S # {}
  BY <1>1, <1>2, QueueFacts
<1>4. Max(S) \in S /\ \A y \in S : y <= Max(S)
  <2> HIDE DEF S
  <2> QED
    BY <1>3, MaxIsMember, ConstAssumption
<1>5. PICK m \in Page : newCursor' = queue[m].seq
  BY <1>1, <1>4
<1>6. \A k \in Page : queue[k].seq <= newCursor'
  BY <1>1, <1>4
<1> HIDE DEF S
<1>7. TypeOK'
  BY <1>1, <1>2, <1>5, QueueFacts DEF TypeOK
<1>8. ASSUME NEW k \in DOMAIN queue', Matters(k)', queue'[k].seq <= newCursor'
      PROVE  Accounted(k)'
  <2>1. k \in DOMAIN queue /\ Matters(k) /\ queue[k].seq <= queue[m].seq
    BY <1>1, <1>5, <1>8 DEF Matters
  <2>2. CASE queue[k].seq <= cursor
    BY <1>1, <2>1, <2>2 DEF Accounted, OutOfOrder
  <2>3. CASE k \in Page
    BY <1>1, <2>3 DEF Accounted
  <2>4. CASE k \notin Page /\ cursor < queue[k].seq
    BY <1>1, <2>1, <2>4, LeftBehind DEF Accounted, OutOfOrder
  <2> QED
    BY <2>1, <2>2, <2>3, <2>4, QueueFacts DEF TypeOK
<1> QED
  BY <1>1, <1>2, <1>6, <1>7, <1>8

\* The page is processed and its cursor saved.
LEMMA SaveStep ==
  ASSUME IInv, SavePage
  PROVE  IInv'
<1> USE DEF IInv
<1>1. /\ cursor' = newCursor /\ handled' = handled \cup page /\ page' = {}
      /\ UNCHANGED <<source, queue, newCursor>>
  BY DEF SavePage
<1>2. TypeOK'
  BY <1>1 DEF TypeOK
<1>3. ASSUME NEW k \in handled'
      PROVE  queue'[k].seq <= cursor' /\ queue'[k].kind = "envelope"
  BY <1>1, <1>3, QueueFacts DEF TypeOK
<1>4. ASSUME NEW k \in DOMAIN queue', Matters(k)', queue'[k].seq <= newCursor'
      PROVE  Accounted(k)'
  BY <1>1, <1>4 DEF Matters, Accounted, OutOfOrder
<1> QED
  BY <1>1, <1>2, <1>3, <1>4

\* Every step keeps the invariant.
LEMMA NextIInv == IInv /\ [Next]_vars => IInv'
<1> SUFFICES ASSUME IInv, [Next]_vars
             PROVE  IInv'
  OBVIOUS
<1>1. CASE Truncate
  BY <1>1 DEF Truncate, IInv, TypeOK
<1>2. CASE UNCHANGED vars
  BY <1>2 DEF vars, IInv, TypeOK, Matters, Accounted, OutOfOrder
<1> QED
  BY <1>1, <1>2, WriteStep, CompleteStep, PollStep, SaveStep DEF Next

\* The invariant holds at the start, and in every state.
THEOREM Invariance == Spec => []IInv
<1>1. Init => IInv
  BY DEF Init, IInv, TypeOK
<1> QED
  BY <1>1, NextIInv, PTL DEF Spec

\* Every variable keeps its type; the new cursor is never below the saved one.
THEOREM TypeCorrect == Spec => []TypeOK
<1>1. IInv => TypeOK
  BY DEF IInv
<1> QED
  BY <1>1, Invariance, PTL

\* The cursor skips nothing but lines out of order: with ascending numbers
\* no envelope is lost, whatever the page size, torn lines or truncations.
THEOREM AscendingLosesNothing == Spec => []OnlyDisorderSkips
<1>1. IInv => OnlyDisorderSkips
  <2> SUFFICES ASSUME IInv, NEW k \in DOMAIN queue,
                      queue[k].kind = "envelope", queue[k].seq <= cursor
               PROVE  k \in handled \/ OutOfOrder(k)
    BY DEF OnlyDisorderSkips
  <2>1. Accounted(k)
    BY QueueFacts DEF IInv, TypeOK, Matters
  <2>2. k \notin page
    BY QueueFacts DEF IInv, TypeOK
  <2> QED
    BY <2>1, <2>2 DEF Accounted
<1> QED
  BY <1>1, Invariance, PTL

\* No line is processed twice.
THEOREM ProcessedOnce == Spec => []NoneTwice
<1>1. IInv => NoneTwice
  <2> SUFFICES ASSUME IInv, NEW k \in page, k \in handled
               PROVE  FALSE
    BY DEF NoneTwice
  <2>1. queue[k].seq \in Nat /\ cursor \in Nat
    BY QueueFacts DEF IInv, TypeOK
  <2> QED
    BY <2>1 DEF IInv
<1> QED
  BY <1>1, Invariance, PTL
-----------------------------------------------------------------------------
(* The paging of BatchAnchor.                                              *)

\* On a numbered queue the loop has taken, when it comes to a line above the
\* cursor, the lines between the two.
LEMMA TakenWhenNumbered ==
  ASSUME TypeOK, Numbered, NEW k \in DOMAIN queue
  PROVE  /\ k \in Eligible <=> cursor < k
         /\ k \in Eligible => TakenBefore(k) = k - 1 - cursor
<1>1. /\ Len(queue) \in Nat /\ DOMAIN queue = 1..Len(queue) /\ cursor \in Nat
  BY QueueFacts DEF TypeOK
<1>2. \A j \in DOMAIN queue : j \in Eligible <=> cursor < j
  BY <1>1 DEF Eligible, Numbered
<1>3. ASSUME k \in Eligible
      PROVE  TakenBefore(k) = k - 1 - cursor
  <2>1. cursor < k /\ k \in 1..Len(queue)
    BY <1>1, <1>2, <1>3
  <2>2. {j \in Eligible : j < k} = (cursor + 1)..(k - 1)
    BY <1>1, <1>2, <2>1 DEF Eligible
  <2>3. cursor + 1 \in Int /\ k - 1 \in Int /\ cursor + 1 <= k
    BY <1>1, <2>1
  <2>4. Cardinality((cursor + 1)..(k - 1)) = k - 1 - cursor
    <3>1. CASE cursor + 1 > k - 1
      <4>1. (cursor + 1)..(k - 1) = {} /\ k - 1 - cursor = 0
        BY <1>1, <2>1, <3>1
      <4> QED
        BY <4>1, FS_EmptySet
    <3>2. CASE cursor + 1 <= k - 1
      <4>1. Cardinality((cursor + 1)..(k - 1)) = (k - 1) - (cursor + 1) + 1
        BY <2>3, <3>2, FS_Interval
      <4> QED
        BY <1>1, <2>3, <4>1
    <3> QED
      BY <1>1, <2>1, <3>1, <3>2
  <2> QED
    BY <2>2, <2>4 DEF TakenBefore
<1> QED
  BY <1>2, <1>3

\* A line is taken when it is in BatchAnchor's window.
LEMMA TakenIsWindow ==
  ASSUME TypeOK, Numbered, NEW s \in Sources, s = source
  PROVE  Taken = Tool(s)!Window("reader")
<1>1. /\ Len(queue) \in Nat /\ DOMAIN queue = 1..Len(queue) /\ cursor \in Nat
      /\ Limit \in Nat
  BY QueueFacts, ConstAssumption DEF TypeOK, Limit
<1>2. Tool(s)!Limit("reader") = Limit
  BY DEF Tool!Limit, Limit
<1>3. ASSUME NEW k \in DOMAIN queue
      PROVE  k \in Taken <=> cursor < k /\ k <= cursor + Limit
  BY <1>1, TakenWhenNumbered DEF Taken
<1>4. Tool(s)!Window("reader") = {k \in DOMAIN queue : cursor < k /\ k <= cursor + Limit}
  BY <1>2 DEF Tool!Window
<1>5. Taken \subseteq DOMAIN queue
  BY DEF Taken, Eligible
<1> QED
  BY <1>3, <1>4, <1>5

\* On a queue numbered by position BatchAnchor polls as poll_delivery does: the
\* same page, and a failure when it fails, for every page size and cursor.
THEOREM SamePages == Spec => []PagesAgree
<1>1. ASSUME TypeOK, Numbered, NEW s \in Sources, s = source
      PROVE  /\ Page = Tool(s)!Page("reader")
             /\ Fails <=> Tool(s)!Poisoned("reader")
  <2>1. Taken = Tool(s)!Window("reader")
    BY <1>1, TakenIsWindow
  <2>2. \A k \in DOMAIN queue : queue[k].kind \in {"envelope", "junk"}
    BY <1>1, QueueFacts DEF Numbered, Kinds
  <2>3. Taken \subseteq DOMAIN queue /\ Taken \subseteq Eligible
    BY DEF Taken, Eligible
  <2>4. Tool(s)!Page("reader") = {k \in Taken : queue[k].kind # "junk"}
    BY <2>1, <2>3 DEF Tool!Page
  <2>5. Page = Tool(s)!Page("reader")
    BY <2>2, <2>3, <2>4 DEF Page
  <2> DEFINE junkTaken == \E k \in Taken : queue[k].kind = "junk"
  <2>6. Fails <=> source = "http" \/ (source = "file" /\ junkTaken)
    BY <2>2, <2>3 DEF Fails, Taken
  <2>7. Tool(s)!Poisoned("reader") <=> s = "http" \/ (s = "file" /\ junkTaken)
    BY <2>1, <2>4 DEF Tool!Poisoned
  <2> QED
    BY <1>1, <2>5, <2>6, <2>7
<1>2. IInv => PagesAgree
  BY <1>1 DEF IInv, PagesAgree
<1> QED
  BY <1>2, Invariance, PTL
=============================================================================
