--------------------------- MODULE WhpQueueProofs ---------------------------
(***************************************************************************)
(* Proofs about WhpQueue, for any number of threads, queues and tokens.    *)
(*                                                                         *)
(* A write serves parked readers in a loop, so what it does to the queue,  *)
(* to guest memory and to the thread table is shown turn by turn (Turn).   *)
(* The loop is a recursive function; its value and what holds of it are    *)
(* found by least counterexample.                                          *)
(***************************************************************************)
EXTENDS WhpQueue, WhpSyncProofs, FiniteSetTheorems, SequenceTheorems

-----------------------------------------------------------------------------
(***************************************************************************)
(* The invariant                                                           *)
(***************************************************************************)
ElementType == [token : 1..MaxToken, priority : Priorities]

QueueType == [used : BOOLEAN, generation : 0..MaxGen, refs : 0..MaxCount,
              discipline : {"FIFO", "LIFO", "PRIORITY"}, nextToken : 0..MaxToken,
              notify : EventHandles \cup {NoHandle}, name : QueueNames \cup {NoName},
              entries : Seq(ElementType)]

QTyped == /\ queues \in [QueueSlots -> QueueType]
          /\ args \in [Slots -> [peek : BOOLEAN, cell : Cells]]
          /\ cells \in [Cells -> 0..MaxToken]
          /\ got \subseteq Slots \X (1..MaxToken)

\* Elements stand in the order of the discipline, with distinct tokens.
Ordered(d, entries) ==
    \A j, k \in 1..Len(entries) : j < k =>
        /\ Precedes(d, entries[j], entries[k])
        /\ entries[j].token # entries[k].token

\* Queue q is within its bounds and in order, and the next token is new.
QueueOK(q) ==
    /\ Len(q.entries) <= Depth
    /\ Ordered(q.discipline, q.entries)
    /\ q.nextToken # 0 => \A j \in 1..Len(q.entries) : q.entries[j].token < q.nextToken

\* Thread t waits beside no element.
OnQueueOf(t, Q) ==
    t.state = "WAIT_QUEUE" =>
        \E i \in QueueSlots : /\ t.on = Handle("queue", i, Q[i].generation)
                              /\ Q[i].used /\ Q[i].entries = <<>>

\* The orders of those that wait for elements were given out, each once.
InLine(T, w) ==
    \A s \in Slots : T[s].state = "WAIT_QUEUE" =>
        /\ T[s].order <= w
        /\ \A r \in Slots : T[r].state = "WAIT_QUEUE" /\ T[r].order = T[s].order => r = s

QInv == /\ WInv
        /\ QTyped
        /\ \A i \in QueueSlots : QueueOK(queues[i])
        /\ \A s \in Slots : OnQueueOf(threads[s], queues)
        /\ InLine(threads, waitSerial)
-----------------------------------------------------------------------------
(***************************************************************************)
(* Entries                                                                 *)
(***************************************************************************)

\* The bounds are numbers, and there is a cell for the arguments of a read.
LEMMA QueueBounds ==
  /\ NQueues \in Nat /\ Depth \in Nat \ {0} /\ MaxToken \in Nat \ {0}
  /\ NThreads \in Nat \ {0} /\ MaxCount \in Nat \ {0} /\ MaxGen \in Nat
  /\ Priorities \subseteq Nat /\ NoArgs.cell \in Cells /\ NoArgs \in [peek : BOOLEAN, cell : Cells]
BY WhpQueueAssumption, SyncAssumption DEF NoArgs

\* What is left when an element is taken out.
LEMMA RemoveIs ==
  ASSUME NEW S, NEW q \in Seq(S), NEW i \in 1..Len(q)
  PROVE  /\ RemoveAt(q, i) \in Seq(S)
         /\ Len(RemoveAt(q, i)) = Len(q) - 1
         /\ \A j \in 1..Len(q) - 1 : RemoveAt(q, i)[j] = q[IF j < i THEN j ELSE j + 1]
<1> DEFINE a == SubSeq(q, 1, i - 1)
           b == SubSeq(q, i + 1, Len(q))
<1>1. Len(q) \in Nat /\ i \in Nat /\ i >= 1 /\ i <= Len(q)
  OBVIOUS
<1>2. \A k \in 1..Len(q) : q[k] \in S
  OBVIOUS
<1>3. a \in Seq(S) /\ Len(a) = i - 1 /\ \A j \in 1..i - 1 : a[j] = q[j]
  <2>1. 1 \in Int /\ i - 1 \in Int /\ \A k \in 1..i - 1 : q[k] \in S
    BY <1>1, <1>2
  <2>2. /\ SubSeq(q, 1, i - 1) \in Seq(S)
        /\ Len(SubSeq(q, 1, i - 1)) = IF 1 <= i - 1 THEN i - 1 - 1 + 1 ELSE 0
        /\ \A j \in 1..i - 1 - 1 + 1 : SubSeq(q, 1, i - 1)[j] = q[1 + j - 1]
    BY <2>1, SubSeqProperties
  <2> QED
    BY <1>1, <2>2
<1>4. b \in Seq(S) /\ Len(b) = Len(q) - i /\ \A j \in 1..Len(q) - i : b[j] = q[i + j]
  <2>1. i + 1 \in Int /\ Len(q) \in Int /\ \A k \in i + 1..Len(q) : q[k] \in S
    BY <1>1, <1>2
  <2>2. /\ SubSeq(q, i + 1, Len(q)) \in Seq(S)
        /\ Len(SubSeq(q, i + 1, Len(q))) = IF i + 1 <= Len(q) THEN Len(q) - (i + 1) + 1 ELSE 0
        /\ \A j \in 1..Len(q) - (i + 1) + 1 : SubSeq(q, i + 1, Len(q))[j] = q[i + 1 + j - 1]
    BY <2>1, SubSeqProperties
  <2> QED
    BY <1>1, <2>2
<1>5. RemoveAt(q, i) = a \o b
  BY DEF RemoveAt
<1> HIDE DEF a, b
<1>6. /\ a \o b \in Seq(S)
      /\ Len(a \o b) = Len(a) + Len(b)
      /\ \A j \in 1..Len(a) + Len(b) :
            (a \o b)[j] = IF j <= Len(a) THEN a[j] ELSE b[j - Len(a)]
  BY <1>3, <1>4, ConcatProperties
<1>7. \A j \in 1..Len(q) - 1 : (a \o b)[j] = q[IF j < i THEN j ELSE j + 1]
  <2> SUFFICES ASSUME NEW j \in 1..Len(q) - 1
               PROVE  (a \o b)[j] = q[IF j < i THEN j ELSE j + 1]
    OBVIOUS
  <2>1. CASE j < i
    BY <2>1, <1>1, <1>3, <1>4, <1>6
  <2>2. CASE j >= i
    <3>1. j - (i - 1) \in 1..Len(q) - i /\ i + (j - (i - 1)) = j + 1
      BY <2>2, <1>1
    <3>2. (a \o b)[j] = b[j - (i - 1)]
      BY <2>2, <1>1, <1>3, <1>4, <1>6
    <3> QED
      BY <2>2, <1>1, <1>4, <3>1, <3>2
  <2>3. j < i \/ j >= i
    BY <1>1
  <2> QED
    BY <2>1, <2>2, <2>3
<1> QED
  BY <1>1, <1>3, <1>4, <1>5, <1>6, <1>7

\* What there is when an element is put in.
LEMMA InsertIs ==
  ASSUME NEW S, NEW q \in Seq(S), NEW i \in 1..Len(q) + 1, NEW e \in S
  PROVE  /\ InsertAt(q, i, e) \in Seq(S)
         /\ Len(InsertAt(q, i, e)) = Len(q) + 1
         /\ \A j \in 1..Len(q) + 1 :
               InsertAt(q, i, e)[j] = IF j < i THEN q[j] ELSE IF j = i THEN e ELSE q[j - 1]
<1> DEFINE a == SubSeq(q, 1, i - 1)
           b == SubSeq(q, i, Len(q))
           c == <<e>>
<1>1. Len(q) \in Nat /\ i \in Nat /\ i >= 1 /\ i <= Len(q) + 1
  OBVIOUS
<1>2. \A k \in 1..Len(q) : q[k] \in S
  OBVIOUS
<1>3. a \in Seq(S) /\ Len(a) = i - 1 /\ \A j \in 1..i - 1 : a[j] = q[j]
  <2>1. 1 \in Int /\ i - 1 \in Int /\ \A k \in 1..i - 1 : q[k] \in S
    BY <1>1, <1>2
  <2>2. /\ SubSeq(q, 1, i - 1) \in Seq(S)
        /\ Len(SubSeq(q, 1, i - 1)) = IF 1 <= i - 1 THEN i - 1 - 1 + 1 ELSE 0
        /\ \A j \in 1..i - 1 - 1 + 1 : SubSeq(q, 1, i - 1)[j] = q[1 + j - 1]
    BY <2>1, SubSeqProperties
  <2> QED
    BY <1>1, <2>2
<1>4. b \in Seq(S) /\ Len(b) = Len(q) - i + 1 /\ \A j \in 1..Len(q) - i + 1 : b[j] = q[i + j - 1]
  <2>1. i \in Int /\ Len(q) \in Int /\ \A k \in i..Len(q) : q[k] \in S
    BY <1>1, <1>2
  <2>2. /\ SubSeq(q, i, Len(q)) \in Seq(S)
        /\ Len(SubSeq(q, i, Len(q))) = IF i <= Len(q) THEN Len(q) - i + 1 ELSE 0
        /\ \A j \in 1..Len(q) - i + 1 : SubSeq(q, i, Len(q))[j] = q[i + j - 1]
    BY <2>1, SubSeqProperties
  <2> QED
    BY <1>1, <2>2
<1>5. c \in Seq(S) /\ Len(c) = 1 /\ c[1] = e
  OBVIOUS
<1>6. InsertAt(q, i, e) = (a \o c) \o b
  BY DEF InsertAt
<1> HIDE DEF a, b, c
<1>7. /\ a \o c \in Seq(S)
      /\ Len(a \o c) = i
      /\ \A j \in 1..i : (a \o c)[j] = IF j < i THEN a[j] ELSE e
  <2>1. /\ a \o c \in Seq(S)
        /\ Len(a \o c) = Len(a) + Len(c)
        /\ \A j \in 1..Len(a) + Len(c) :
              (a \o c)[j] = IF j <= Len(a) THEN a[j] ELSE c[j - Len(a)]
    BY <1>3, <1>5, ConcatProperties
  <2> QED
    BY <1>1, <1>3, <1>5, <2>1
<1> DEFINE ac == a \o c
<1>8. ac \in Seq(S) /\ Len(ac) = i /\ \A j \in 1..i : ac[j] = IF j < i THEN a[j] ELSE e
  BY <1>7
<1>9. InsertAt(q, i, e) = ac \o b
  BY <1>6
<1> HIDE DEF ac
<1>10. /\ ac \o b \in Seq(S)
       /\ Len(ac \o b) = Len(ac) + Len(b)
       /\ \A j \in 1..Len(ac) + Len(b) :
             (ac \o b)[j] = IF j <= Len(ac) THEN ac[j] ELSE b[j - Len(ac)]
  BY <1>4, <1>8, ConcatProperties
<1>11. \A j \in 1..Len(q) + 1 :
          (ac \o b)[j] = IF j < i THEN q[j] ELSE IF j = i THEN e ELSE q[j - 1]
  <2> SUFFICES ASSUME NEW j \in 1..Len(q) + 1
               PROVE  (ac \o b)[j] = IF j < i THEN q[j] ELSE IF j = i THEN e ELSE q[j - 1]
    OBVIOUS
  <2>1. CASE j <= i
    BY <2>1, <1>1, <1>3, <1>4, <1>8, <1>10
  <2>2. CASE j > i
    <3>1. j - i \in 1..Len(q) - i + 1 /\ i + (j - i) - 1 = j - 1
      BY <2>2, <1>1
    <3>2. (ac \o b)[j] = b[j - i]
      BY <2>2, <1>1, <1>4, <1>8, <1>10
    <3> QED
      BY <2>2, <1>1, <1>4, <3>1, <3>2
  <2>3. j <= i \/ j > i
    BY <1>1
  <2> QED
    BY <2>1, <2>2, <2>3
<1> QED
  BY <1>1, <1>4, <1>8, <1>9, <1>10, <1>11

\* The tokens of entries.
Tok(entries) == {entries[j].token : j \in 1..Len(entries)}

\* Taking out an element leaves the others in order.
LEMMA TakenOut ==
  ASSUME NEW d, NEW q \in Seq(ElementType), Ordered(d, q), NEW i \in 1..Len(q)
  PROVE  /\ RemoveAt(q, i) \in Seq(ElementType)
         /\ Len(RemoveAt(q, i)) = Len(q) - 1
         /\ Ordered(d, RemoveAt(q, i))
         /\ q[i].token \in 1..MaxToken
         /\ Tok(RemoveAt(q, i)) = Tok(q) \ {q[i].token}
<1> DEFINE r == RemoveAt(q, i)
           From(j) == IF j < i THEN j ELSE j + 1
<1>1. /\ r \in Seq(ElementType) /\ Len(r) = Len(q) - 1
      /\ \A j \in 1..Len(q) - 1 : r[j] = q[From(j)]
  BY RemoveIs
<1>2. Len(q) \in Nat /\ i \in Nat /\ i >= 1 /\ i <= Len(q)
  OBVIOUS
<1>3. q[i].token \in 1..MaxToken
  <2>1. q[i] \in ElementType
    OBVIOUS
  <2> QED
    BY <2>1 DEF ElementType
<1> HIDE DEF r
<1>4. \A j \in 1..Len(r) : From(j) \in 1..Len(q) /\ From(j) # i
  BY <1>1, <1>2
<1>5. \A j, k \in 1..Len(r) : j < k => From(j) < From(k)
  BY <1>1, <1>2
<1>6. \A k \in 1..Len(q) : k # i => \E j \in 1..Len(r) : From(j) = k
  <2> SUFFICES ASSUME NEW k \in 1..Len(q), k # i PROVE \E j \in 1..Len(r) : From(j) = k
    OBVIOUS
  <2>1. CASE k < i
    <3>1. k \in 1..Len(r) /\ From(k) = k
      BY <1>1, <1>2, <2>1
    <3> QED
      BY <3>1
  <2>2. CASE k > i
    <3>1. k - 1 \in 1..Len(r) /\ From(k - 1) = k
      BY <1>1, <1>2, <2>2
    <3> QED
      BY <3>1
  <2>3. k < i \/ k > i
    BY <1>2
  <2> QED
    BY <2>1, <2>2, <2>3
<1> HIDE DEF From
<1>7. \A j \in 1..Len(r) : r[j] = q[From(j)]
  BY <1>1
<1>8. Ordered(d, r)
  BY <1>4, <1>5, <1>7 DEF Ordered
<1>9. \A j, k \in 1..Len(q) : j # k => q[j].token # q[k].token
  <2> SUFFICES ASSUME NEW j \in 1..Len(q), NEW k \in 1..Len(q), j # k
               PROVE  q[j].token # q[k].token
    OBVIOUS
  <2>1. j < k \/ k < j
    BY <1>2
  <2> QED
    BY <2>1 DEF Ordered
<1>10. Tok(r) = Tok(q) \ {q[i].token}
  <2>1. \A j \in 1..Len(r) : r[j].token \in Tok(q) /\ r[j].token # q[i].token
    BY <1>4, <1>7, <1>9 DEF Tok
  <2>2. \A k \in 1..Len(q) : q[k].token # q[i].token => q[k].token \in Tok(r)
    <3> SUFFICES ASSUME NEW k \in 1..Len(q), q[k].token # q[i].token
                 PROVE  q[k].token \in Tok(r)
      OBVIOUS
    <3>1. PICK j \in 1..Len(r) : From(j) = k
      BY <1>6
    <3> QED
      BY <1>7, <3>1 DEF Tok
  <2> QED
    BY <2>1, <2>2 DEF Tok
<1> QED
  BY <1>1, <1>3, <1>8, <1>10 DEF r

\* Where a new element goes, those before it are read first, and those after it
\* later.
LEMMA PlaceIs ==
  ASSUME NEW q \in QueueType, QueueOK(q), q.nextToken # 0, NEW p \in Priorities
  PROVE  LET e == [token |-> q.nextToken, priority |-> p]
         IN  /\ e \in ElementType
             /\ Place(q, p) \in 1..Len(q.entries) + 1
             /\ \A j \in 1..Len(q.entries) :
                   /\ q.entries[j].token < e.token
                   /\ j < Place(q, p) => Precedes(q.discipline, q.entries[j], e)
                   /\ j >= Place(q, p) => Precedes(q.discipline, e, q.entries[j])
<1> DEFINE e == [token |-> q.nextToken, priority |-> p]
           a == q.entries
           n == Len(a)
           lower == {i \in 1..n : a[i].priority < p}
<1>1. /\ a \in Seq(ElementType) /\ n \in Nat
      /\ q.nextToken \in 1..MaxToken /\ q.discipline \in {"FIFO", "LIFO", "PRIORITY"}
  BY QueueBounds DEF QueueType
<1>2. e \in ElementType /\ e.token = q.nextToken /\ e.priority = p
  BY <1>1 DEF ElementType
<1>3. \A j \in 1..n : a[j] \in ElementType /\ a[j].token \in Nat /\ a[j].priority \in Nat
  <2>1. \A j \in 1..n : a[j] \in ElementType
    BY <1>1
  <2>2. \A x \in ElementType : x.token \in Nat /\ x.priority \in Nat
    <3>1. \A x \in ElementType : x.token \in 1..MaxToken /\ x.priority \in Priorities
      BY DEF ElementType
    <3>2. Priorities \subseteq Nat /\ \A k \in 1..MaxToken : k \in Nat
      BY QueueBounds
    <3> QED
      BY <3>1, <3>2
  <2> QED
    BY <2>1, <2>2
<1>4. \A j \in 1..n : a[j].token < e.token
  BY <1>2 DEF QueueOK
<1>5. Ordered(q.discipline, a)
  BY DEF QueueOK
<1>6. Place(q, p) = CASE q.discipline = "LIFO" -> 1
                      [] q.discipline = "PRIORITY" /\ lower # {} ->
                            CHOOSE i \in lower : \A j \in lower : i <= j
                      [] OTHER -> n + 1
  BY Zenon DEF Place
<1>7. p \in Nat
  BY QueueBounds
<1> HIDE DEF e, a
<1>8. CASE q.discipline = "LIFO"
  <2>1. Place(q, p) = 1
    BY <1>6, <1>8
  <2>2. \A j \in 1..n : Precedes(q.discipline, e, a[j])
    BY <1>4, <1>8 DEF Precedes
  <2> QED
    BY <1>1, <1>2, <1>4, <2>1, <2>2 DEF e, a
<1>9. CASE q.discipline = "FIFO"
  <2>1. Place(q, p) = n + 1
    BY <1>6, <1>9
  <2>2. \A j \in 1..n : Precedes(q.discipline, a[j], e)
    BY <1>4, <1>9 DEF Precedes
  <2> QED
    BY <1>1, <1>2, <1>4, <2>1, <2>2 DEF e, a
<1>10. CASE q.discipline = "PRIORITY" /\ lower = {}
  <2>1. Place(q, p) = n + 1
    BY <1>6, <1>10
  <2>2. \A j \in 1..n : a[j].priority >= p
    BY <1>3, <1>7, <1>10
  <2>3. \A j \in 1..n : Precedes(q.discipline, a[j], e)
    BY <1>2, <1>3, <1>4, <1>7, <1>10, <2>2 DEF Precedes
  <2> QED
    BY <1>1, <1>2, <1>4, <2>1, <2>3 DEF e, a
<1>11. CASE q.discipline = "PRIORITY" /\ lower # {}
  <2> DEFINE m == CHOOSE i \in lower : \A j \in lower : i <= j
  <2>1. Place(q, p) = m
    BY <1>6, <1>11
  <2>2. \E i \in lower : \A j \in lower : i <= j
    <3>1. lower \subseteq Nat
      OBVIOUS
    <3> HIDE DEF lower
    <3> QED
      BY <1>11, <3>1, LeastOf
  <2>3. m \in lower /\ \A j \in lower : m <= j
    BY <2>2
  <2> HIDE DEF m
  <2>4. m \in 1..n /\ a[m].priority < p
    BY <2>3
  <2>5. \A j \in 1..n : j < m => a[j].priority >= p
    <3> SUFFICES ASSUME NEW j \in 1..n, j < m, a[j].priority < p PROVE FALSE
      BY <1>3, <1>7
    <3> QED
      BY <2>3, <2>4
  <2>6. \A j \in 1..n : j >= m => a[j].priority < p
    <3> SUFFICES ASSUME NEW j \in 1..n, j > m PROVE a[j].priority < p
      BY <2>4
    <3>1. Precedes("PRIORITY", a[m], a[j])
      BY <1>5, <1>11, <2>4 DEF Ordered
    <3> QED
      BY <1>3, <1>7, <2>4, <3>1 DEF Precedes
  <2>7. \A j \in 1..n : /\ j < m => Precedes(q.discipline, a[j], e)
                        /\ j >= m => Precedes(q.discipline, e, a[j])
    BY <1>2, <1>3, <1>4, <1>7, <1>11, <2>5, <2>6 DEF Precedes
  <2> QED
    BY <1>1, <1>2, <1>4, <2>1, <2>4, <2>7 DEF e, a
<1> QED
  BY <1>1, <1>8, <1>9, <1>10, <1>11

\* A new element stands in the order of the discipline.
LEMMA PutIn ==
  ASSUME NEW q \in QueueType, QueueOK(q), q.nextToken # 0, NEW p \in Priorities
  PROVE  LET r == InsertAt(q.entries, Place(q, p), [token |-> q.nextToken, priority |-> p])
         IN  /\ r \in Seq(ElementType)
             /\ Len(r) = Len(q.entries) + 1
             /\ Ordered(q.discipline, r)
             /\ Tok(r) = Tok(q.entries) \cup {q.nextToken}
             /\ q.nextToken \notin Tok(q.entries)
             /\ \A j \in 1..Len(r) : r[j].token <= q.nextToken
<1> DEFINE e == [token |-> q.nextToken, priority |-> p]
           a == q.entries
           i == Place(q, p)
           r == InsertAt(a, i, e)
           d == q.discipline
<1>1. a \in Seq(ElementType) /\ Len(a) \in Nat /\ q.nextToken \in Nat /\ q.nextToken = e.token
  BY DEF QueueType
<1>2. /\ e \in ElementType
      /\ i \in 1..Len(a) + 1
      /\ \A j \in 1..Len(a) : /\ a[j].token < e.token
                              /\ j < i => Precedes(d, a[j], e)
                              /\ j >= i => Precedes(d, e, a[j])
  BY PlaceIs
<1>3. /\ Ordered(d, a)
      /\ \A j \in 1..Len(a) : a[j].token \in Nat
  <2>1. \A j \in 1..Len(a) : a[j] \in ElementType
    BY <1>1
  <2> QED
    BY <2>1 DEF QueueOK, ElementType
<1> HIDE DEF e, a, i, d
<1>4. /\ r \in Seq(ElementType)
      /\ Len(r) = Len(a) + 1
      /\ \A j \in 1..Len(a) + 1 :
            r[j] = IF j < i THEN a[j] ELSE IF j = i THEN e ELSE a[j - 1]
  BY <1>1, <1>2, InsertIs
<1> HIDE DEF r
<1>5. \A j \in 1..Len(r) :
         \/ j < i /\ j \in 1..Len(a) /\ r[j] = a[j]
         \/ j = i /\ r[j] = e
         \/ j > i /\ j - 1 \in 1..Len(a) /\ j - 1 >= i /\ r[j] = a[j - 1]
  <2> SUFFICES ASSUME NEW j \in 1..Len(r)
               PROVE  \/ j < i /\ j \in 1..Len(a) /\ r[j] = a[j]
                      \/ j = i /\ r[j] = e
                      \/ j > i /\ j - 1 \in 1..Len(a) /\ j - 1 >= i /\ r[j] = a[j - 1]
    OBVIOUS
  <2>1. j < i \/ j = i \/ j > i
    BY <1>1, <1>2, <1>4
  <2> QED
    BY <2>1, <1>1, <1>2, <1>4
<1>6. Ordered(d, r)
  <2> SUFFICES ASSUME NEW j \in 1..Len(r), NEW k \in 1..Len(r), j < k
               PROVE  Precedes(d, r[j], r[k]) /\ r[j].token # r[k].token
    BY DEF Ordered
  <2>1. CASE j = i
    <3>1. k - 1 \in 1..Len(a) /\ k - 1 >= i /\ r[k] = a[k - 1] /\ r[j] = e
      BY <2>1, <1>1, <1>2, <1>4
    <3> QED
      BY <3>1, <1>1, <1>2, <1>3
  <2>2. CASE k = i
    <3>1. j < i /\ j \in 1..Len(a) /\ r[j] = a[j] /\ r[k] = e
      BY <2>2, <1>1, <1>2, <1>4
    <3> QED
      BY <3>1, <1>1, <1>2, <1>3
  <2>3. CASE j # i /\ k # i
    <3>1. \E x, y \in 1..Len(a) : x < y /\ r[j] = a[x] /\ r[k] = a[y]
      <4>1. CASE k < i
        BY <4>1, <2>3, <1>1, <1>2, <1>5
      <4>2. CASE j < i /\ k > i
        <5>1. j \in 1..Len(a) /\ k - 1 \in 1..Len(a) /\ j < k - 1 /\ r[j] = a[j] /\ r[k] = a[k - 1]
          BY <4>2, <1>1, <1>2, <1>4
        <5> QED
          BY <5>1
      <4>3. CASE j > i
        <5>1. /\ j - 1 \in 1..Len(a) /\ k - 1 \in 1..Len(a) /\ j - 1 < k - 1
              /\ r[j] = a[j - 1] /\ r[k] = a[k - 1]
          BY <4>3, <1>1, <1>2, <1>4
        <5> QED
          BY <5>1
      <4>4. k < i \/ (j < i /\ k > i) \/ j > i
        BY <2>3, <1>1, <1>2, <1>4
      <4> QED
        BY <4>1, <4>2, <4>3, <4>4
    <3> QED
      BY <3>1, <1>3 DEF Ordered
  <2> QED
    BY <2>1, <2>2, <2>3
<1>7. Tok(r) = Tok(a) \cup {e.token}
  <2>1. \A j \in 1..Len(r) : r[j].token \in Tok(a) \cup {e.token}
    BY <1>5 DEF Tok
  <2>2. e.token \in Tok(r)
    <3>1. i \in 1..Len(r) /\ r[i] = e
      BY <1>1, <1>2, <1>4
    <3> QED
      BY <3>1 DEF Tok
  <2>3. \A j \in 1..Len(a) : a[j].token \in Tok(r)
    <3> SUFFICES ASSUME NEW j \in 1..Len(a) PROVE \E k \in 1..Len(r) : r[k] = a[j]
      BY DEF Tok
    <3>1. CASE j < i
      <4>1. j \in 1..Len(r) /\ r[j] = a[j]
        BY <3>1, <1>1, <1>2, <1>4
      <4> QED
        BY <4>1
    <3>2. CASE j >= i
      <4>1. j + 1 \in 1..Len(r) /\ r[j + 1] = a[j]
        BY <3>2, <1>1, <1>2, <1>4
      <4> QED
        BY <4>1
    <3>3. j < i \/ j >= i
      BY <1>1, <1>2
    <3> QED
      BY <3>1, <3>2, <3>3
  <2> QED
    BY <2>1, <2>2, <2>3 DEF Tok
<1>8. e.token \notin Tok(a)
  BY <1>1, <1>2, <1>3 DEF Tok
<1>9. \A j \in 1..Len(r) : r[j].token <= e.token
  <2>1. e.token \in Nat /\ \A j \in 1..Len(a) : a[j].token <= e.token
    BY <1>1, <1>2, <1>3
  <2> QED
    BY <1>5, <2>1
<1> QED
  BY <1>1, <1>4, <1>6, <1>7, <1>8, <1>9 DEF r, e, a, i, d

-----------------------------------------------------------------------------
(***************************************************************************)
(* One delivery                                                            *)
(***************************************************************************)
WorldType == [entries : Seq(ElementType), cells : [Cells -> 0..MaxToken],
              got : SUBSET (Slots \X (1..MaxToken)), threads : [Slots -> ThreadType],
              code : Codes]

\* World d is w after s was served: nothing left, or element i did.
Took(w, d, s) ==
    \/ d.entries = w.entries /\ d.got = w.got
    \/ \E i \in 1..Len(w.entries) :
          /\ d.entries = RemoveAt(w.entries, i)
          /\ d.got = w.got \cup {<<s, w.entries[i].token>>}

\* A delivery changes no thread and takes at most one element, which it gives to
\* the thread it serves.
LEMMA Delivered ==
  ASSUME NEW w \in WorldType, NEW s \in Slots, NEW token, NEW peek \in BOOLEAN, NEW cell \in Cells
  PROVE  LET d == Deliver(w, s, token, peek, cell)
         IN  /\ d \in WorldType /\ d.threads = w.threads
             /\ Took(w, d, s)
             /\ peek => d.entries = w.entries /\ d.got = w.got
<1> DEFINE found == Found(w.entries, token, peek)
           i == CHOOSE j \in found : TRUE
           e == w.entries[i]
           d == Deliver(w, s, token, peek, cell)
<1>1. /\ w.entries \in Seq(ElementType) /\ w.cells \in [Cells -> 0..MaxToken]
      /\ w.got \in SUBSET (Slots \X (1..MaxToken))
      /\ w.threads \in [Slots -> ThreadType] /\ w.code \in Codes
  BY DEF WorldType
<1>2. CASE found = {}
  <2>1. d = [w EXCEPT !.code = "ERROR"]
    BY <1>2 DEF Deliver
  <2> HIDE DEF d
  <2>2. d \in WorldType /\ d.threads = w.threads /\ d.entries = w.entries /\ d.got = w.got
    BY <1>1, <2>1 DEF WorldType, Codes
  <2> QED
    BY <2>2 DEF Took, d
<1>3. CASE found # {}
  <2>1. i \in found
    BY <1>3
  <2>2. found \subseteq 1..Len(w.entries)
    BY DEF Found
  <2>3. i \in 1..Len(w.entries)
    BY <2>1, <2>2
  <2> HIDE DEF i
  <2>4. e \in ElementType
    BY <1>1, <2>3
  <2>5. e.token \in 1..MaxToken /\ e.token \in 0..MaxToken
    <3>1. e.token \in 1..MaxToken
      BY <2>4 DEF ElementType
    <3> QED
      BY <3>1, QueueBounds
  <2>6. d = [w EXCEPT !.code = "NO_ERROR",
                      !.entries = IF peek THEN @ ELSE RemoveAt(@, i),
                      !.cells = IF peek THEN [@ EXCEPT ![cell] = e.token] ELSE @,
                      !.got = IF peek THEN @ ELSE @ \cup {<<s, e.token>>}]
    BY <1>3 DEF Deliver, i
  <2>7. CASE peek
    <3> DEFINE c == [w.cells EXCEPT ![cell] = e.token]
    <3>1. d = [w EXCEPT !.code = "NO_ERROR", !.entries = w.entries, !.cells = c, !.got = w.got]
      BY <2>6, <2>7
    <3>2. c \in [Cells -> 0..MaxToken]
      BY <1>1, <2>5
    <3> HIDE DEF c, d
    <3>3. d \in WorldType /\ d.threads = w.threads /\ d.entries = w.entries /\ d.got = w.got
      BY <1>1, <3>1, <3>2 DEF WorldType, Codes
    <3> QED
      BY <3>3 DEF Took, d
  <2>8. CASE ~ peek
    <3> DEFINE r == RemoveAt(w.entries, i)
               g == w.got \cup {<<s, e.token>>}
    <3>1. d = [w EXCEPT !.code = "NO_ERROR", !.entries = r, !.cells = w.cells, !.got = g]
      BY <2>6, <2>8
    <3>2. r \in Seq(ElementType)
      BY <1>1, <2>3, RemoveIs
    <3>3. g \in SUBSET (Slots \X (1..MaxToken))
      BY <1>1, <2>5
    <3>4. \E k \in 1..Len(w.entries) :
             r = RemoveAt(w.entries, k) /\ g = w.got \cup {<<s, w.entries[k].token>>}
      BY <2>3
    <3> HIDE DEF r, g, d
    <3>5. d \in WorldType /\ d.threads = w.threads /\ d.entries = r /\ d.got = g
      BY <1>1, <3>1, <3>2, <3>3 DEF WorldType, Codes
    <3> QED
      BY <2>8, <3>4, <3>5 DEF Took, d
  <2> QED
    BY <2>7, <2>8
<1> QED
  BY <1>2, <1>3

\* Serving thread s wakes it, and it alone.
LEMMA Served ==
  ASSUME NEW w \in WorldType, NEW s \in Slots, args \in [Slots -> [peek : BOOLEAN, cell : Cells]]
  PROVE  LET d == Serve(w, s)
         IN  /\ d \in WorldType
             /\ Took(w, d, s)
             /\ \E code \in Codes :
                   d.threads = [w.threads EXCEPT ![s] = Ready(w.threads[s], code)]
<1> DEFINE a == args[s]
           token == IF a.peek THEN w.cells[a.cell] ELSE 0
           x == Deliver(w, s, token, a.peek, a.cell)
           u == [x.threads EXCEPT ![s] = Ready(x.threads[s], x.code)]
           d == Serve(w, s)
<1>1. a.peek \in BOOLEAN /\ a.cell \in Cells
  OBVIOUS
<1> HIDE DEF a, token
<1>2. x \in WorldType /\ x.threads = w.threads /\ Took(w, x, s)
  BY <1>1, Delivered
<1>3. d = [x EXCEPT !.threads = u]
  BY DEF Serve, x, token, a
<1> HIDE DEF x
<1>4. /\ x.entries \in Seq(ElementType) /\ x.cells \in [Cells -> 0..MaxToken]
      /\ x.got \in SUBSET (Slots \X (1..MaxToken))
      /\ x.threads \in [Slots -> ThreadType] /\ x.code \in Codes
  BY <1>2 DEF WorldType
<1>5. u \in [Slots -> ThreadType]
  <2>1. Ready(x.threads[s], x.code) \in ThreadType
    BY <1>4, ReadyFields
  <2> QED
    BY <1>4, <2>1
<1>6. u = [w.threads EXCEPT ![s] = Ready(w.threads[s], x.code)]
  BY <1>2
<1> HIDE DEF u, d
<1>7. d \in WorldType /\ d.entries = x.entries /\ d.got = x.got /\ d.threads = u
  BY <1>2, <1>3, <1>4, <1>5 DEF WorldType
<1>8. Took(w, d, s)
  BY <1>2, <1>7 DEF Took
<1> QED
  BY <1>4, <1>6, <1>7, <1>8 DEF d

-----------------------------------------------------------------------------
(***************************************************************************)
(* The loop of queue_wake_readers                                          *)
(***************************************************************************)
Reader(t, h) == Waits(t, "WAIT_QUEUE", h)

\* What a write finds: elements in order, nothing handed out yet, and readers that
\* came one after the other.
Begins(d, w, h) ==
    /\ w \in WorldType
    /\ w.got = {}
    /\ Ordered(d, w.entries)
    /\ \A s, r \in Slots : Reader(w.threads[s], h) /\ Reader(w.threads[r], h)
                           /\ w.threads[s].order = w.threads[r].order => s = r

\* Tokens handed out.
GivenOut(w) == {x[2] : x \in w.got}

\* Elements are in the queue or were handed to one thread each.
Shared(d, v, w) ==
    /\ Ordered(d, w.entries)
    /\ Len(w.entries) <= Len(v.entries)
    /\ Tok(w.entries) \cup GivenOut(w) = Tok(v.entries)
    /\ Tok(w.entries) \cap GivenOut(w) = {}
    /\ \A x, y \in w.got : x[2] = y[2] => x = y

\* Readers were woken in the order they came, and nobody else was changed.
InTurn(v, w, h) ==
    /\ \A s \in Slots :
          \/ w.threads[s] = v.threads[s]
          \/ /\ Reader(v.threads[s], h)
             /\ \E code \in Codes : w.threads[s] = Ready(v.threads[s], code)
    /\ \A s, r \in Slots :
          Reader(v.threads[s], h) /\ ~ Reader(w.threads[s], h) /\ Reader(w.threads[r], h)
             => v.threads[s].order < v.threads[r].order

\* Where the loop is after n turns that began with v.
Turn(d, v, w, h, n) ==
    /\ w \in WorldType
    /\ Shared(d, v, w)
    /\ InTurn(v, w, h)
    /\ \/ w.entries = <<>>
       \/ Cardinality(Waiters(w.threads, "WAIT_QUEUE", h)) <= NThreads - n

\* Slots are finitely many.
LEMMA SlotsFinite ==
  /\ IsFiniteSet(Slots) /\ Cardinality(Slots) = NThreads
  /\ \A S \in SUBSET Slots : /\ IsFiniteSet(S) /\ Cardinality(S) \in Nat
                             /\ Cardinality(S) <= NThreads
<1>1. 0 \in Int /\ NThreads - 1 \in Int /\ 0 <= NThreads - 1 + 1
  BY QueueBounds
<1>2. IsFiniteSet(0..NThreads - 1)
      /\ Cardinality(0..NThreads - 1) = IF 0 > NThreads - 1 THEN 0 ELSE NThreads - 1 - 0 + 1
  BY <1>1, FS_Interval
<1>3. IsFiniteSet(Slots) /\ Cardinality(Slots) = NThreads
  BY <1>2, QueueBounds DEF Slots
<1> QED
  BY <1>3, FS_Subset, FS_CardinalityType

\* A woken thread reads no more.
LEMMA WokenReader ==
  ASSUME NEW t \in ThreadType, NEW code \in Codes, NEW h
  PROVE  ~ Reader(Ready(t, code), h)
BY ReadyFields DEF Reader, Waits

\* Before the first turn.
LEMMA TurnBegins ==
  ASSUME NEW d, NEW v, NEW h, Begins(d, v, h)
  PROVE  Turn(d, v, v, h, 0)
<1>1. v \in WorldType /\ v.got = {} /\ Ordered(d, v.entries) /\ Len(v.entries) \in Nat
  BY DEF Begins, WorldType
<1>2. Shared(d, v, v)
  BY <1>1 DEF Shared, GivenOut
<1>3. InTurn(v, v, h)
  BY DEF InTurn
<1>4. Cardinality(Waiters(v.threads, "WAIT_QUEUE", h)) <= NThreads - 0
  BY SlotsFinite, QueueBounds DEF Waiters
<1> QED
  BY <1>1, <1>2, <1>3, <1>4 DEF Turn

\* What was handed out before a delivery and is handed out by it.
LEMMA TookKeeps ==
  ASSUME NEW d, NEW v \in WorldType, NEW w \in WorldType, NEW x \in WorldType, NEW s \in Slots,
         Shared(d, v, w), Took(w, x, s)
  PROVE  Shared(d, v, x)
<1>1. CASE x.entries = w.entries /\ x.got = w.got
  BY <1>1 DEF Shared, GivenOut
<1>2. CASE \E i \in 1..Len(w.entries) : /\ x.entries = RemoveAt(w.entries, i)
                                        /\ x.got = w.got \cup {<<s, w.entries[i].token>>}
  <2>1. PICK i \in 1..Len(w.entries) : /\ x.entries = RemoveAt(w.entries, i)
                                       /\ x.got = w.got \cup {<<s, w.entries[i].token>>}
    BY <1>2
  <2> DEFINE k == w.entries[i].token
  <2>2. w.entries \in Seq(ElementType) /\ Len(w.entries) \in Nat /\ Len(v.entries) \in Nat
    BY DEF WorldType
  <2>3. Ordered(d, w.entries) /\ Len(w.entries) <= Len(v.entries)
    BY DEF Shared
  <2>4. /\ Len(x.entries) = Len(w.entries) - 1
        /\ Ordered(d, x.entries)
        /\ Tok(x.entries) = Tok(w.entries) \ {k}
    <3>1. /\ Len(RemoveAt(w.entries, i)) = Len(w.entries) - 1
          /\ Ordered(d, RemoveAt(w.entries, i))
          /\ Tok(RemoveAt(w.entries, i)) = Tok(w.entries) \ {w.entries[i].token}
      BY <2>2, <2>3, TakenOut
    <3> QED
      BY <2>1, <3>1
  <2>5. k \in Tok(w.entries)
    BY DEF Tok
  <2>6. GivenOut(x) = GivenOut(w) \cup {k}
    <3>1. \A y \in x.got : y \in w.got \/ y = <<s, k>>
      BY <2>1
    <3>2. <<s, k>> \in x.got /\ w.got \subseteq x.got
      BY <2>1
    <3>3. <<s, k>>[2] = k
      OBVIOUS
    <3> QED
      BY <3>1, <3>2, <3>3 DEF GivenOut
  <2>7. \A y \in w.got : y[2] # k
    BY <2>5 DEF Shared, GivenOut
  <2>8. \A y, z \in x.got : y[2] = z[2] => y = z
    <3>1. \A y \in x.got : y \in w.got \/ (y = <<s, k>> /\ y[2] = k)
      BY <2>1
    <3> QED
      BY <2>7, <3>1 DEF Shared
  <2> HIDE DEF k
  <2>9. /\ Tok(w.entries) \cup GivenOut(w) = Tok(v.entries)
        /\ Tok(w.entries) \cap GivenOut(w) = {}
    BY DEF Shared
  <2>10. /\ Tok(x.entries) \cup GivenOut(x) = Tok(v.entries)
         /\ Tok(x.entries) \cap GivenOut(x) = {}
    BY <2>4, <2>5, <2>6, <2>9
  <2>11. Len(x.entries) <= Len(v.entries)
    BY <2>2, <2>3, <2>4
  <2> QED
    BY <2>4, <2>8, <2>10, <2>11 DEF Shared
<1> QED
  BY <1>1, <1>2 DEF Took

\* One turn.
LEMMA TurnGoes ==
  ASSUME NEW d, NEW v, NEW h, Begins(d, v, h), NEW n \in 0..NThreads - 1, NEW w,
         Turn(d, v, w, h, n), args \in [Slots -> [peek : BOOLEAN, cell : Cells]]
  PROVE  Turn(d, v, ServeNext(w, h), h, n + 1)
<1> DEFINE R == Waiters(w.threads, "WAIT_QUEUE", h)
<1>1. /\ w \in WorldType /\ v \in WorldType
      /\ v.threads \in [Slots -> ThreadType] /\ w.threads \in [Slots -> ThreadType]
  BY DEF Turn, Begins, WorldType
<1>2. R \subseteq Slots /\ IsFiniteSet(R) /\ Cardinality(R) \in Nat
  BY SlotsFinite DEF Waiters
<1>3. NThreads \in Nat /\ n \in Nat /\ n + 1 <= NThreads
  BY QueueBounds
<1>4. CASE w.entries = <<>>
  <2>1. ServeNext(w, h) = w
    BY <1>4 DEF ServeNext
  <2> QED
    BY <1>4, <2>1 DEF Turn
<1>5. CASE w.entries # <<>> /\ R = {}
  <2>1. ServeNext(w, h) = w
    BY <1>5 DEF ServeNext
  <2>2. Cardinality(R) <= NThreads - (n + 1)
    <3>1. Cardinality({}) = 0
      BY FS_EmptySet
    <3>2. R = {}
      BY <1>5
    <3> HIDE DEF R
    <3> QED
      BY <1>3, <3>1, <3>2
  <2> QED
    BY <2>1, <2>2 DEF Turn
<1>6. CASE w.entries # <<>> /\ R # {}
  <2> DEFINE f == NextReader(w, h)
             x == Serve(w, f)
  <2>1. ServeNext(w, h) = x
    BY <1>6 DEF ServeNext
  <2>2. /\ f \in Slots /\ Reader(w.threads[f], h)
        /\ \A r \in R : w.threads[f].order <= w.threads[r].order
    BY <1>1, <1>6, FirstWaiterIs DEF NextReader, Reader, Waits
  <2> HIDE DEF f
  <2>3. x \in WorldType /\ Took(w, x, f)
    BY <1>1, <2>2, Served
  <2>4. PICK code \in Codes : x.threads = [w.threads EXCEPT ![f] = Ready(w.threads[f], code)]
    BY <1>1, <2>2, Served
  <2> HIDE DEF x
  <2>5. /\ x.threads[f] = Ready(w.threads[f], code)
        /\ \A s \in Slots \ {f} : x.threads[s] = w.threads[s]
    BY <1>1, <2>2, <2>4
  <2>6. ~ Reader(x.threads[f], h)
    BY <1>1, <2>2, <2>5, WokenReader
  <2>7. Shared(d, v, x)
    BY <1>1, <2>2, <2>3, TookKeeps DEF Turn
  <2>8. \A s \in Slots : \/ w.threads[s] = v.threads[s]
                         \/ /\ Reader(v.threads[s], h)
                            /\ \E c \in Codes : w.threads[s] = Ready(v.threads[s], c)
    BY DEF Turn, InTurn
  <2>9. \A s \in Slots : Reader(w.threads[s], h) => w.threads[s] = v.threads[s]
    BY <1>1, <2>8, WokenReader
  <2>10. InTurn(v, x, h)
    <3>1. \A s \in Slots :
             \/ x.threads[s] = v.threads[s]
             \/ /\ Reader(v.threads[s], h)
                /\ \E c \in Codes : x.threads[s] = Ready(v.threads[s], c)
      <4> SUFFICES ASSUME NEW s \in Slots
                   PROVE  \/ x.threads[s] = v.threads[s]
                          \/ /\ Reader(v.threads[s], h)
                             /\ \E c \in Codes : x.threads[s] = Ready(v.threads[s], c)
        OBVIOUS
      <4>1. CASE s = f
        BY <2>2, <2>5, <2>9, <4>1
      <4>2. CASE s # f
        BY <2>5, <2>8, <4>2
      <4> QED
        BY <4>1, <4>2
    <3>2. ASSUME NEW s \in Slots, NEW r \in Slots,
                 Reader(v.threads[s], h), ~ Reader(x.threads[s], h), Reader(x.threads[r], h)
          PROVE  v.threads[s].order < v.threads[r].order
      <4>1. r # f /\ Reader(w.threads[r], h) /\ w.threads[r] = v.threads[r]
        BY <2>5, <2>6, <2>9, <3>2
      <4>2. CASE ~ Reader(w.threads[s], h)
        BY <3>2, <4>1, <4>2 DEF Turn, InTurn
      <4>3. CASE Reader(w.threads[s], h)
        <5>1. s = f
          BY <2>5, <3>2, <4>3
        <5>2. w.threads[f] = v.threads[f]
          BY <2>2, <2>9
        <5>3. v.threads[f].order <= v.threads[r].order
          BY <2>2, <4>1, <5>2 DEF Waiters, Reader
        <5>4. v.threads[f].order # v.threads[r].order
          BY <2>2, <4>1, <5>2 DEF Begins
        <5>5. v.threads[f].order \in Nat /\ v.threads[r].order \in Nat
          BY <1>1, <2>2 DEF ThreadType
        <5> QED
          BY <5>1, <5>3, <5>4, <5>5
      <4> QED
        BY <4>2, <4>3
    <3> QED
      BY <3>1, <3>2 DEF InTurn
  <2>11. Waiters(x.threads, "WAIT_QUEUE", h) = R \ {f}
    BY <2>2, <2>5, <2>6 DEF Waiters, Reader
  <2>12. Cardinality(R \ {f}) = Cardinality(R) - 1
    <3>1. f \in R
      BY <2>2 DEF Waiters, Reader
    <3> HIDE DEF R
    <3> QED
      BY <1>2, <3>1, FS_RemoveElement
  <2>13. Cardinality(R) <= NThreads - n
    BY <1>6 DEF Turn
  <2>14. Cardinality(R) - 1 <= NThreads - (n + 1)
    BY <1>2, <1>3, <2>13
  <2> QED
    BY <2>1, <2>3, <2>7, <2>10, <2>11, <2>12, <2>14 DEF Turn
<1> QED
  BY <1>4, <1>5, <1>6

\* The first n turns, as a function.
IsLoop(f, w, h, n) ==
    f = [k \in 0..n |-> IF k = 0 THEN w ELSE ServeNext(f[k - 1], h)]

\* There is such a function for every n.
LEMMA LoopExists ==
  ASSUME NEW w, NEW h
  PROVE  \A n \in Nat : \E f : IsLoop(f, w, h, n)
<1> DEFINE Bad == {n \in Nat : ~ \E f : IsLoop(f, w, h, n)}
<1> SUFFICES ASSUME Bad # {} PROVE FALSE
  OBVIOUS
<1>1. \E m \in Bad : \A n \in Bad : m <= n
  <2>1. Bad \subseteq Nat
    OBVIOUS
  <2> HIDE DEF Bad
  <2> QED
    BY <2>1, LeastOf
<1>2. PICK m \in Bad : \A n \in Bad : m <= n
  BY <1>1
<1>3. CASE m = 0
  <2> DEFINE f == [k \in 0..0 |-> w]
  <2>1. f = [k \in 0..0 |-> IF k = 0 THEN w ELSE ServeNext(f[k - 1], h)]
    OBVIOUS
  <2>2. IsLoop(f, w, h, 0)
    BY <2>1 DEF IsLoop
  <2> QED
    BY <1>2, <1>3, <2>2
<1>4. CASE m # 0
  <2>1. m - 1 \in Nat /\ m \in Nat /\ ~ (m <= m - 1)
    BY <1>4
  <2>2. m - 1 \notin Bad
    BY <1>2, <2>1
  <2>3. PICK f : IsLoop(f, w, h, m - 1)
    BY <2>1, <2>2
  <2> DEFINE g == [k \in 0..m |-> IF k <= m - 1 THEN f[k] ELSE ServeNext(f[m - 1], h)]
  <2>4. \A k \in 0..m - 1 : g[k] = f[k]
    BY <2>1
  <2>5. \A k \in 0..m : g[k] = IF k = 0 THEN w ELSE ServeNext(g[k - 1], h)
    <3> SUFFICES ASSUME NEW k \in 0..m
                 PROVE  g[k] = IF k = 0 THEN w ELSE ServeNext(g[k - 1], h)
      OBVIOUS
    <3>1. CASE k = m
      <4>1. k # 0 /\ m - 1 \in 0..m - 1 /\ g[k] = ServeNext(f[m - 1], h)
        BY <2>1, <3>1
      <4>2. g[k - 1] = f[m - 1]
        BY <2>1, <2>4, <3>1, <4>1
      <4> QED
        BY <4>1, <4>2
    <3>2. CASE k # m
      <4>1. k \in 0..m - 1 /\ (k # 0 => k - 1 \in 0..m - 1)
        BY <2>1, <3>2
      <4>2. f[k] = IF k = 0 THEN w ELSE ServeNext(f[k - 1], h)
        BY <2>3, <4>1 DEF IsLoop
      <4> QED
        BY <2>4, <4>1, <4>2
    <3> QED
      BY <3>1, <3>2
  <2>6. g = [k \in 0..m |-> g[k]]
    OBVIOUS
  <2> HIDE DEF g
  <2>7. g = [k \in 0..m |-> IF k = 0 THEN w ELSE ServeNext(g[k - 1], h)]
    BY <2>5, <2>6
  <2>8. IsLoop(g, w, h, m)
    BY <2>7 DEF IsLoop
  <2> QED
    BY <1>2, <2>8
<1> QED
  BY <1>3, <1>4

\* The loop is the last of its turns.
LEMMA LoopIs ==
  ASSUME NEW w, NEW h
  PROVE  \E f : IsLoop(f, w, h, NThreads) /\ WakeReaders(w, h) = f[NThreads]
<1> DEFINE f == CHOOSE g : g = [k \in 0..NThreads |->
                                  IF k = 0 THEN w ELSE ServeNext(g[k - 1], h)]
<1>1. \E g : g = [k \in 0..NThreads |-> IF k = 0 THEN w ELSE ServeNext(g[k - 1], h)]
  <2>1. \E g : IsLoop(g, w, h, NThreads)
    <3>1. NThreads \in Nat
      BY QueueBounds
    <3> QED
      BY <3>1, LoopExists
  <2> QED
    BY Zenon, <2>1 DEF IsLoop
<1>2. f = [k \in 0..NThreads |-> IF k = 0 THEN w ELSE ServeNext(f[k - 1], h)]
  BY <1>1
<1>3. WakeReaders(w, h) = f[NThreads]
  BY Zenon DEF WakeReaders
<1> HIDE DEF f
<1>4. IsLoop(f, w, h, NThreads)
  BY <1>2 DEF IsLoop
<1> QED
  BY <1>3, <1>4

\* After the loop, elements were given out in turn until there were none left or
\* no readers.
LEMMA ReadersWoken ==
  ASSUME NEW d, NEW v, NEW h, Begins(d, v, h), args \in [Slots -> [peek : BOOLEAN, cell : Cells]]
  PROVE  LET w == WakeReaders(v, h)
         IN  /\ w \in WorldType /\ Shared(d, v, w) /\ InTurn(v, w, h)
             /\ w.entries = <<>> \/ Waiters(w.threads, "WAIT_QUEUE", h) = {}
<1>1. PICK f : IsLoop(f, v, h, NThreads) /\ WakeReaders(v, h) = f[NThreads]
  BY LoopIs
<1> DEFINE Bad == {n \in 0..NThreads : ~ Turn(d, v, f[n], h, n)}
<1>2. NThreads \in Nat
  BY QueueBounds
<1>3. /\ f[0] = v
      /\ \A n \in 0..NThreads : n # 0 => f[n] = ServeNext(f[n - 1], h)
  BY <1>1, <1>2 DEF IsLoop
<1>4. Bad = {}
  <2> SUFFICES ASSUME Bad # {} PROVE FALSE
    OBVIOUS
  <2>1. \E m \in Bad : \A n \in Bad : m <= n
    <3>1. Bad \subseteq Nat
      OBVIOUS
    <3> HIDE DEF Bad
    <3> QED
      BY <3>1, LeastOf
  <2>2. PICK m \in Bad : \A n \in Bad : m <= n
    BY <2>1
  <2>3. m \in 0..NThreads /\ ~ Turn(d, v, f[m], h, m)
    BY <2>2
  <2>4. m # 0
    BY <1>3, <2>3, TurnBegins
  <2>5. m - 1 \in 0..NThreads - 1 /\ m - 1 \in 0..NThreads /\ m - 1 + 1 = m /\ ~ (m <= m - 1)
    BY <1>2, <2>3, <2>4
  <2>6. Turn(d, v, f[m - 1], h, m - 1)
    BY <2>2, <2>5
  <2>7. Turn(d, v, ServeNext(f[m - 1], h), h, m - 1 + 1)
    BY <2>5, <2>6, TurnGoes
  <2> QED
    BY <1>3, <2>3, <2>4, <2>5, <2>7
<1>5. Turn(d, v, f[NThreads], h, NThreads)
  BY <1>2, <1>4
<1> DEFINE w == WakeReaders(v, h)
           R == Waiters(w.threads, "WAIT_QUEUE", h)
<1>6. Turn(d, v, w, h, NThreads)
  BY <1>1, <1>5
<1> HIDE DEF w
<1>7. R \subseteq Slots
  BY DEF Waiters
<1>8. w.entries = <<>> \/ Cardinality(R) <= 0
  BY <1>2, <1>6 DEF Turn
<1> HIDE DEF R
<1>9. w.entries = <<>> \/ R = {}
  <2>1. IsFiniteSet(R) /\ Cardinality(R) \in Nat
    BY <1>7, SlotsFinite
  <2> QED
    BY <1>8, <2>1, FS_EmptySet
<1> QED
  BY <1>6, <1>9 DEF Turn, w, R

-----------------------------------------------------------------------------
(***************************************************************************)
(* Queues that change                                                      *)
(***************************************************************************)

\* The fields of a queue.
LEMMA QueueFields ==
  ASSUME NEW q \in QueueType
  PROVE  /\ q.generation \in 0..MaxGen /\ q.refs \in 0..MaxCount
         /\ q.discipline \in {"FIFO", "LIFO", "PRIORITY"} /\ q.nextToken \in 0..MaxToken
         /\ q.notify \in EventHandles \cup {NoHandle} /\ q.name \in QueueNames \cup {NoName}
         /\ q.entries \in Seq(ElementType) /\ Len(q.entries) \in Nat
BY DEF QueueType

\* A queue with another count of openings.
LEMMA QueueRefs ==
  ASSUME NEW q \in QueueType, NEW n \in 0..MaxCount
  PROVE  LET u == [q EXCEPT !.refs = n]
         IN  /\ u \in QueueType /\ u.used = q.used /\ u.generation = q.generation
             /\ u.discipline = q.discipline /\ u.nextToken = q.nextToken
             /\ u.entries = q.entries
BY DEF QueueType

\* A queue with another event.
LEMMA QueueNotify ==
  ASSUME NEW q \in QueueType, NEW ev \in EventHandles
  PROVE  LET u == Notified(q, ev)
         IN  /\ u \in QueueType /\ u.used = q.used /\ u.generation = q.generation
             /\ u.discipline = q.discipline /\ u.nextToken = q.nextToken
             /\ u.entries = q.entries
BY DEF QueueType, Notified

\* A queue with other entries.
LEMMA QueueEntries ==
  ASSUME NEW q \in QueueType, NEW a \in Seq(ElementType)
  PROVE  LET u == [q EXCEPT !.entries = a]
         IN  /\ u \in QueueType /\ u.used = q.used /\ u.generation = q.generation
             /\ u.discipline = q.discipline /\ u.nextToken = q.nextToken
             /\ u.entries = a
BY DEF QueueType

\* An empty one.
LEMMA QueueEmpty ==
  ASSUME NEW q
  PROVE  q.entries = <<>> => QueueOK(q)
<1> SUFFICES ASSUME q.entries = <<>> PROVE QueueOK(q)
  OBVIOUS
<1>1. Len(q.entries) = 0
  OBVIOUS
<1> QED
  BY <1>1, QueueBounds DEF QueueOK, Ordered

\* A queue that does not exist.
LEMMA QueueZero ==
  /\ ZeroQueue \in QueueType /\ ZeroQueue.entries = <<>> /\ ~ ZeroQueue.used
  /\ <<>> \in Seq(ElementType)
<1>1. 0 \in 0..MaxGen /\ 0 \in 0..MaxCount /\ 1 \in 0..MaxToken
  BY QueueBounds
<1>2. <<>> \in Seq(ElementType)
  OBVIOUS
<1> QED
  BY <1>1, <1>2 DEF ZeroQueue, QueueType

\* One that was closed.
LEMMA QueueClosed ==
  ASSUME NEW g \in 0..MaxGen
  PROVE  LET u == [ZeroQueue EXCEPT !.generation = g]
         IN  u \in QueueType /\ ~ u.used /\ u.generation = g /\ u.entries = <<>>
BY QueueZero DEF ZeroQueue, QueueType

\* The queue of a handle.
LEMMA QueueOf ==
  ASSUME QInv, NEW h \in QueueHandles, IsQueue(h)
  PROVE  /\ h.slot \in QueueSlots
         /\ h = Handle("queue", h.slot, queues[h.slot].generation)
         /\ queues[h.slot].used
         /\ queues[h.slot] \in QueueType /\ QueueOK(queues[h.slot])
         /\ h \in [kind : {"none", "mutex", "event", "queue"}, slot : Nat, generation : Nat]
<1>1. PICK i \in QueueSlots, g \in 1..MaxGen : h = Handle("queue", i, g)
  BY DEF QueueHandles
<1>2. h.slot = i /\ h.generation = g /\ h.kind = "queue" /\ i \in Nat /\ g \in Nat
  BY <1>1, QueueBounds DEF Handle, QueueSlots
<1>3. h \in [kind : {"none", "mutex", "event", "queue"}, slot : Nat, generation : Nat]
  BY <1>1, <1>2 DEF Handle
<1> QED
  BY <1>1, <1>2, <1>3 DEF IsQueue, QInv, QTyped

\* Nobody begins to wait for an element.
Quiet == /\ \A s \in Slots : threads'[s].state = "WAIT_QUEUE" => threads'[s] = threads[s]
         /\ waitSerial <= waitSerial'

\* Those that go on waiting are still in line.
LEMMA StillInLine ==
  ASSUME QInv, TypeOK', Quiet
  PROVE  InLine(threads, waitSerial) => InLine(threads', waitSerial')
<1>1. \A s \in Slots : threads[s].order \in Nat
  BY DEF QInv, WInv, TypeOK, ThreadType
<1>2. waitSerial \in Nat /\ waitSerial' \in Nat
  BY DEF QInv, WInv, TypeOK
<1> QED
  BY <1>1, <1>2 DEF InLine, Quiet

\* Nothing happens to queues.
LEMMA QueuesStay ==
  ASSUME QInv, WInv', QTyped', Quiet, queues' = queues
  PROVE  QInv'
<1>1. InLine(threads', waitSerial')
  BY StillInLine DEF QInv, WInv
<1>2. \A s \in Slots : OnQueueOf(threads'[s], queues')
  BY DEF QInv, Quiet, OnQueueOf
<1> QED
  BY <1>1, <1>2 DEF QInv

\* One queue changes, and not for those that wait at it.
LEMMA OneQueue ==
  ASSUME QInv, WInv', Quiet,
         args' = args, cells' \in [Cells -> 0..MaxToken], got' \subseteq Slots \X (1..MaxToken),
         NEW i \in QueueSlots, NEW q \in QueueType, QueueOK(q),
         queues' = [queues EXCEPT ![i] = q],
         \A s \in Slots : /\ threads'[s].state = "WAIT_QUEUE"
                          /\ threads'[s].on = Handle("queue", i, queues[i].generation)
                          /\ queues[i].used
                          => q.used /\ q.generation = queues[i].generation /\ q.entries = <<>>
  PROVE  QInv'
<1>1. queues \in [QueueSlots -> QueueType]
  BY DEF QInv, QTyped
<1>2. queues'[i] = q /\ \A j \in QueueSlots \ {i} : queues'[j] = queues[j]
  BY <1>1
<1>3. queues' \in [QueueSlots -> QueueType]
  BY <1>1
<1>4. QTyped'
  BY <1>3 DEF QInv, QTyped
<1>5. \A j \in QueueSlots : QueueOK(queues'[j])
  BY <1>2 DEF QInv
<1>6. \A s \in Slots : OnQueueOf(threads'[s], queues')
  <2> SUFFICES ASSUME NEW s \in Slots, threads'[s].state = "WAIT_QUEUE"
               PROVE  \E j \in QueueSlots :
                         /\ threads'[s].on = Handle("queue", j, queues'[j].generation)
                         /\ queues'[j].used /\ queues'[j].entries = <<>>
    BY DEF OnQueueOf
  <2>1. threads'[s] = threads[s] /\ OnQueueOf(threads[s], queues)
    BY DEF Quiet, QInv
  <2>2. PICK j \in QueueSlots :
           /\ threads'[s].on = Handle("queue", j, queues[j].generation)
           /\ queues[j].used /\ queues[j].entries = <<>>
    BY <2>1 DEF OnQueueOf
  <2> QED
    BY <1>2, <2>2
<1>7. InLine(threads', waitSerial')
  BY StillInLine DEF QInv, WInv
<1> QED
  BY <1>4, <1>5, <1>6, <1>7 DEF QInv

\* Whoever waits at a queue finds it empty.
LEMMA NoneBeside ==
  ASSUME QInv, NEW s \in Slots, NEW i \in QueueSlots,
         threads[s].state = "WAIT_QUEUE",
         threads[s].on = Handle("queue", i, queues[i].generation)
  PROVE  queues[i].used /\ queues[i].entries = <<>>
<1>1. PICK j \in QueueSlots : /\ threads[s].on = Handle("queue", j, queues[j].generation)
                              /\ queues[j].used /\ queues[j].entries = <<>>
  BY DEF QInv, OnQueueOf
<1>2. threads[s].on.slot = i /\ threads[s].on.slot = j
  <2>1. \A k, g : Handle("queue", k, g).slot = k
    BY DEF Handle
  <2> QED
    BY <1>1, <2>1
<1> QED
  BY <1>1, <1>2

\* A call that answers is quiet.
LEMMA AnswerQuiet ==
  ASSUME WInv, Guest, NEW code \in Codes, Answer(code)
  PROVE  Quiet
<1>1. waitSerial' = waitSerial /\ waitSerial \in Nat
  BY DEF Answer, schedVars, WInv, TypeOK
<1>2. \A s \in Slots : threads'[s].state = "WAIT_QUEUE" => threads'[s] = threads[s]
  BY AnswerAside DEF Aside, Elsewhere
<1> QED
  BY <1>1, <1>2 DEF Quiet

\* A call that is refused.
LEMMA RefusedQueue ==
  ASSUME QInv, Guest, NEW code \in Codes, QueueRefuse(code)
  PROVE  QInv'
<1>1. WInv /\ Refuse(code) /\ UNCHANGED <<queues, args, cells>> /\ got' = {}
  BY DEF QInv, QueueRefuse, qVars
<1>2. WInv'
  BY <1>1, Refused
<1>3. Quiet
  BY <1>1, AnswerQuiet DEF Refuse
<1>4. QTyped'
  BY <1>1 DEF QInv, QTyped
<1> QED
  BY <1>1, <1>2, <1>3, <1>4, QueuesStay

-----------------------------------------------------------------------------
(***************************************************************************)
(* Each step keeps the invariant                                           *)
(***************************************************************************)

\* The start.
LEMMA InitQInv == QInit => QInv
<1> SUFFICES ASSUME QInit PROVE QInv
  OBVIOUS
<1>1. Init /\ WInv
  BY InitSound DEF QInit
<1>2. \A i \in QueueSlots : queues[i] = ZeroQueue
  BY DEF QInit
<1>3. 0 \in 0..MaxToken
  BY QueueBounds
<1>4. QTyped
  <2>1. queues \in [QueueSlots -> QueueType]
    BY QueueZero DEF QInit
  <2>2. args \in [Slots -> [peek : BOOLEAN, cell : Cells]]
    BY QueueBounds DEF QInit
  <2>3. cells \in [Cells -> 0..MaxToken] /\ got \subseteq Slots \X (1..MaxToken)
    BY <1>3 DEF QInit
  <2> QED
    BY <2>1, <2>2, <2>3 DEF QTyped
<1>5. \A i \in QueueSlots : QueueOK(queues[i])
  BY <1>2, QueueZero, QueueEmpty
<1>6. \A s \in Slots : threads[s].state # "WAIT_QUEUE"
  <2>1. \A s \in Slots : threads[s] = IF s = 0 THEN [ZeroThread EXCEPT !.state = "RUNNING", !.tid = 1]
                                      ELSE ZeroThread
    BY <1>1 DEF Init
  <2>2. [ZeroThread EXCEPT !.state = "RUNNING", !.tid = 1].state = "RUNNING"
        /\ ZeroThread.state = "FREE"
    BY DEF ZeroThread
  <2> QED
    BY <2>1, <2>2
<1> QED
  BY <1>1, <1>4, <1>5, <1>6 DEF QInv, OnQueueOf, InLine

\* The serial number of waits does not go back.
LEMMA SerialGrows ==
  ASSUME TypeOK, [Next]_vars
  PROVE  waitSerial <= waitSerial'
<1>1. waitSerial \in Nat
  BY DEF TypeOK
<1>2. waitSerial' = waitSerial \/ waitSerial' = waitSerial + 1
  <2>1. ThreadCall => waitSerial' = waitSerial \/ waitSerial' = waitSerial + 1
    BY DEF ThreadCall, Sleep, CreateThread, WaitThread, ExitThread, ExitProcess, Block,
           SwitchTo, Answer, schedVars
  <2>2. MutexCall => waitSerial' = waitSerial \/ waitSerial' = waitSerial + 1
    BY DEF MutexCall, CreateMutex, OpenMutexNamed, OpenMutex, OpenMutexSlot, CloseMutex,
           RequestMutex, ReleaseMutex, BadHandle, Refuse, Block, Answer, schedVars
  <2>3. EventCall => waitSerial' = waitSerial
    BY DEF EventCall, CreateEvent, OpenEventNamed, OpenEvent, OpenEventSlot, CloseEvent,
           ResetEvent, PostEvent, WaitEvent, BadHandle, Refuse, Answer, schedVars
  <2>4. Host \/ Ended \/ UNCHANGED vars => waitSerial' = waitSerial
    BY DEF Host, Schedule, ScheduleFails, DeadlinePasses, Ended, vars, schedVars
  <2> QED
    BY <2>1, <2>2, <2>3, <2>4 DEF Next
<1> QED
  BY <1>1, <1>2

\* A step of the scheduler and the semaphores.
LEMMA NextKeepsQueues ==
  ASSUME QInv, [Next]_vars, UNCHANGED qVars, got' \in {got, {}}
  PROVE  QInv'
<1>1. WInv /\ TypeOK
  BY DEF QInv, WInv
<1>2. WInv'
  BY <1>1, NextPreserves, StutterPreserves
<1>3. Quiet
  <2>1. Aside
    BY <1>1, NextAside
  <2> QED
    BY <1>1, <2>1, SerialGrows DEF Quiet, Aside, Elsewhere
<1>4. QTyped' /\ queues' = queues
  BY DEF qVars, QInv, QTyped
<1> QED
  BY <1>2, <1>3, <1>4, QueuesStay

\* A call that answers and leaves the semaphores alone.
LEMMA QueueAnswered ==
  ASSUME WInv, Guest, NEW code \in Codes, QueueAnswer(code)
  PROVE  WInv' /\ Quiet
<1>1. Refuse(code) /\ Answer(code)
  BY DEF QueueAnswer, Refuse
<1> QED
  BY <1>1, Refused, AnswerQuiet

\* DosCreateQueue.
LEMMA CreateQueueKeeps ==
  ASSUME QInv, NEW name \in QueueNames, NEW discipline \in Disciplines,
         CreateQueue(name, discipline)
  PROVE  QInv'
<1>1. Guest /\ {"NO_ERROR", "ERROR"} \subseteq Codes
  BY DEF CreateQueue, Codes
<1>2. CASE QueueRefuse("ERROR")
  BY <1>1, <1>2, RefusedQueue
<1>3. CASE ~ QueueRefuse("ERROR")
  <2> DEFINE new(i) == [ZeroQueue EXCEPT !.used = TRUE, !.generation = queues[i].generation + 1,
                                         !.refs = 1, !.discipline = discipline,
                                         !.name = name]
  <2>1. PICK i \in QueueSlots : FirstFreeQueue(i) /\ queues' = [queues EXCEPT ![i] = new(i)]
    BY <1>3 DEF CreateQueue
  <2>2. QueueAnswer("NO_ERROR") /\ UNCHANGED <<args, cells>> /\ got' = {}
    BY <1>3 DEF CreateQueue
  <2>3. ~ queues[i].used /\ queues[i].generation + 1 \in 0..MaxGen
    BY <2>1, QueueBounds, QueueFields DEF QInv, QTyped, FirstFreeQueue
  <2>4. new(i) \in QueueType /\ new(i).entries = <<>>
    <3> DEFINE g == queues[i].generation + 1
               u == [ZeroQueue EXCEPT !.used = TRUE, !.generation = g, !.refs = 1,
                                      !.discipline = discipline, !.name = name]
    <3>1. g \in 0..MaxGen
      BY <2>3
    <3> HIDE DEF g
    <3>2. u \in QueueType /\ u.entries = <<>>
      <4>1. /\ 1 \in 0..MaxCount /\ discipline \in {"FIFO", "LIFO", "PRIORITY"}
            /\ name \in QueueNames
        BY QueueBounds, WhpQueueAssumption
      <4> QED
        BY <3>1, <4>1, QueueZero DEF ZeroQueue, QueueType
    <3>3. new(i) = u
      BY DEF g
    <3> HIDE DEF new, u
    <3> QED
      BY <3>2, <3>3
  <2> HIDE DEF new
  <2>5. QueueOK(new(i))
    BY <2>4, QueueEmpty
  <2>6. WInv' /\ Quiet
    BY <1>1, <2>2, QueueAnswered DEF QInv
  <2>7. cells' \in [Cells -> 0..MaxToken] /\ got' \subseteq Slots \X (1..MaxToken) /\ args' = args
    BY <2>2 DEF QInv, QTyped
  <2> QED
    BY <2>1, <2>3, <2>4, <2>5, <2>6, <2>7, OneQueue
<1> QED
  BY <1>2, <1>3

\* DosOpenQueue.
LEMMA OpenQueueKeeps ==
  ASSUME QInv, NEW name \in QueueNames, OpenQueue(name)
  PROVE  QInv'
<1>1. Guest /\ {"NO_ERROR", "ERROR"} \subseteq Codes
  BY DEF OpenQueue, Codes
<1>2. CASE QueueRefuse("ERROR")
  BY <1>1, <1>2, RefusedQueue
<1>3. CASE ~ QueueRefuse("ERROR")
  <2>1. PICK i \in QueueNamed(name) :
           /\ queues[i].refs # MaxCount
           /\ queues' = [queues EXCEPT ![i].refs = @ + 1]
           /\ QueueAnswer("NO_ERROR")
           /\ UNCHANGED <<args, cells>> /\ got' = {}
    BY <1>3 DEF OpenQueue
  <2>2. i \in QueueSlots /\ queues[i] \in QueueType /\ QueueOK(queues[i])
    BY <2>1 DEF QueueNamed, QInv, QTyped
  <2> DEFINE u == [queues[i] EXCEPT !.refs = queues[i].refs + 1]
  <2>3. queues[i].refs + 1 \in 0..MaxCount
    BY <2>1, <2>2, QueueFields, QueueBounds
  <2>4. /\ u \in QueueType /\ u.used = queues[i].used /\ u.generation = queues[i].generation
        /\ u.discipline = queues[i].discipline /\ u.nextToken = queues[i].nextToken
        /\ u.entries = queues[i].entries
    BY <2>2, <2>3, QueueRefs
  <2>5. queues' = [queues EXCEPT ![i] = u]
    BY <2>1
  <2> HIDE DEF u
  <2>6. QueueOK(u)
    BY <2>2, <2>4 DEF QueueOK
  <2>7. WInv' /\ Quiet
    BY <1>1, <2>1, QueueAnswered DEF QInv
  <2>8. cells' \in [Cells -> 0..MaxToken] /\ got' \subseteq Slots \X (1..MaxToken) /\ args' = args
    BY <2>1 DEF QInv, QTyped
  <2>9. \A s \in Slots : /\ threads'[s].state = "WAIT_QUEUE"
                         /\ threads'[s].on = Handle("queue", i, queues[i].generation)
                         => queues[i].entries = <<>>
    BY <2>2, <2>7, NoneBeside DEF Quiet
  <2> QED
    BY <2>2, <2>4, <2>5, <2>6, <2>7, <2>8, <2>9, OneQueue
<1> QED
  BY <1>2, <1>3

\* DosPurgeQueue.
LEMMA PurgeQueueKeeps ==
  ASSUME QInv, NEW h \in QueueHandles, PurgeQueue(h)
  PROVE  QInv'
<1>1. /\ Guest /\ IsQueue(h) /\ "NO_ERROR" \in Codes
      /\ queues' = [queues EXCEPT ![h.slot].entries = <<>>]
      /\ QueueAnswer("NO_ERROR")
      /\ UNCHANGED <<args, cells>> /\ got' = {}
  BY DEF PurgeQueue, OnQueue, Codes
<1> DEFINE i == h.slot
           u == [queues[i] EXCEPT !.entries = <<>>]
<1>2. i \in QueueSlots /\ queues[i] \in QueueType
  BY <1>1, QueueOf
<1>3. /\ u \in QueueType /\ u.used = queues[i].used /\ u.generation = queues[i].generation
      /\ u.entries = <<>>
  <2>1. <<>> \in Seq(ElementType)
    OBVIOUS
  <2> QED
    BY <1>2, <2>1, QueueEntries
<1>4. queues' = [queues EXCEPT ![i] = u]
  BY <1>1
<1> HIDE DEF u, i
<1>5. QueueOK(u)
  BY <1>3, QueueEmpty
<1>6. WInv' /\ Quiet
  BY <1>1, QueueAnswered DEF QInv
<1>7. cells' \in [Cells -> 0..MaxToken] /\ got' \subseteq Slots \X (1..MaxToken) /\ args' = args
  BY <1>1 DEF QInv, QTyped
<1> QED
  BY <1>2, <1>3, <1>4, <1>5, <1>6, <1>7, OneQueue

\* The guest clears a cell.
LEMMA ClearCellKeeps ==
  ASSUME QInv, NEW c \in Cells, ClearCell(c)
  PROVE  QInv'
<1>1. /\ UNCHANGED vars /\ UNCHANGED <<queues, args>> /\ got' = {}
      /\ cells' = [cells EXCEPT ![c] = 0]
  BY DEF ClearCell
<1>2. WInv /\ WInv'
  BY <1>1, StutterPreserves DEF QInv
<1>3. 0 \in 0..MaxToken
  BY QueueBounds
<1>4. QTyped'
  BY <1>1, <1>3 DEF QInv, QTyped
<1>5. Quiet
  <2>1. threads' = threads /\ waitSerial' = waitSerial /\ waitSerial \in Nat
    BY <1>1, <1>2 DEF vars, WInv, TypeOK
  <2> QED
    BY <2>1 DEF Quiet
<1> QED
  BY <1>1, <1>2, <1>4, <1>5, QueuesStay

\* What a call starts from.
LEMMA WorldIs ==
  ASSUME QInv, NEW a \in Seq(ElementType)
  PROVE  /\ World(a) \in WorldType /\ World(a).entries = a /\ World(a).got = {}
         /\ World(a).threads = threads
<1>1. /\ cells \in [Cells -> 0..MaxToken] /\ threads \in [Slots -> ThreadType]
      /\ "NO_ERROR" \in Codes
  BY DEF QInv, QTyped, WInv, TypeOK, Codes
<1> QED
  BY <1>1 DEF World, WorldType

\* A queue from which an element may have been taken.
LEMMA StillOK ==
  ASSUME NEW q \in QueueType, QueueOK(q), NEW u, u.discipline = q.discipline,
         u.nextToken = q.nextToken, NEW i \in 1..Len(q.entries),
         u.entries = RemoveAt(q.entries, i)
  PROVE  QueueOK(u)
<1>1. /\ q.entries \in Seq(ElementType) /\ Len(q.entries) \in Nat /\ q.nextToken \in Nat
  BY QueueFields
<1>2. Ordered(q.discipline, q.entries) /\ Len(q.entries) <= Depth
  BY DEF QueueOK
<1>3. /\ Len(RemoveAt(q.entries, i)) = Len(q.entries) - 1
      /\ Ordered(q.discipline, RemoveAt(q.entries, i))
      /\ Tok(RemoveAt(q.entries, i)) = Tok(q.entries) \ {q.entries[i].token}
  BY <1>1, <1>2, TakenOut
<1>4. Len(u.entries) <= Depth
  BY <1>1, <1>2, <1>3, QueueBounds
<1>5. u.nextToken # 0 => \A j \in 1..Len(u.entries) : u.entries[j].token < u.nextToken
  <2> SUFFICES ASSUME u.nextToken # 0, NEW j \in 1..Len(u.entries)
               PROVE  u.entries[j].token < u.nextToken
    OBVIOUS
  <2>1. u.entries[j].token \in Tok(q.entries)
    BY <1>3 DEF Tok
  <2>2. \A k \in Tok(q.entries) : k < q.nextToken
    BY DEF Tok, QueueOK
  <2> QED
    BY <2>1, <2>2
<1> QED
  BY <1>2, <1>3, <1>4, <1>5 DEF QueueOK

\* The queue of a read or peek that answers.
LEMMA QueueRead ==
  ASSUME NEW q \in QueueType, QueueOK(q), NEW r \in {q} \cup {Notified(q, ev) : ev \in EventHandles},
         NEW v \in WorldType, v.entries = q.entries, NEW w \in WorldType, NEW s, Took(v, w, s)
  PROVE  LET u == [r EXCEPT !.entries = w.entries]
         IN  /\ u \in QueueType /\ u.used = q.used /\ u.generation = q.generation
             /\ u.nextToken = q.nextToken /\ u.discipline = q.discipline
             /\ u.entries = w.entries
             /\ QueueOK(u)
             /\ q.entries = <<>> => w.entries = <<>>
<1> DEFINE u == [r EXCEPT !.entries = w.entries]
<1>1. /\ r \in QueueType /\ r.used = q.used /\ r.generation = q.generation
      /\ r.nextToken = q.nextToken /\ r.discipline = q.discipline /\ r.entries = q.entries
  <2>1. CASE r = q
    BY <2>1
  <2>2. CASE r # q
    <3>1. PICK ev \in EventHandles : r = Notified(q, ev)
      BY <2>2
    <3> QED
      BY <3>1, QueueNotify
  <2> QED
    BY <2>1, <2>2
<1>2. w.entries \in Seq(ElementType)
  BY DEF WorldType
<1>3. /\ u \in QueueType /\ u.used = r.used /\ u.generation = r.generation
      /\ u.nextToken = r.nextToken /\ u.discipline = r.discipline /\ u.entries = w.entries
  BY <1>1, <1>2, QueueEntries
<1> HIDE DEF u
<1>4. CASE w.entries = q.entries
  <2>1. QueueOK(u)
    BY <1>1, <1>3, <1>4 DEF QueueOK
  <2> QED
    BY <1>1, <1>3, <1>4, <2>1 DEF u
<1>5. CASE w.entries # q.entries
  <2>1. PICK i \in 1..Len(q.entries) : w.entries = RemoveAt(q.entries, i)
    BY <1>5 DEF Took
  <2>2. QueueOK(u)
    BY <1>1, <1>3, <2>1, StillOK
  <2>3. q.entries # <<>>
    <3> SUFFICES ASSUME q.entries = <<>> PROVE FALSE
      OBVIOUS
    <3>1. Len(q.entries) = 0
      OBVIOUS
    <3> QED
      BY <2>1, <3>1
  <2> QED
    BY <1>1, <1>3, <2>2, <2>3 DEF u
<1> QED
  BY <1>4, <1>5

\* The call answers, and may leave a reference to an event.
LEMMA RetainedKeeps ==
  ASSUME QInv, Guest, NEW code \in Codes, Answer(code), UNCHANGED mutexes,
         NEW ev, NEW isNew \in BOOLEAN,
         isNew => ev \in EventHandles /\ IsEvent(ev) /\ events[ev.slot].refs # MaxCount,
         events' = Retained(ev, isNew)
  PROVE  WInv'
<1>1. WInv
  BY DEF QInv
<1>2. CASE ~ isNew
  <2>1. Refuse(code)
    BY <1>2 DEF Refuse, Retained
  <2> QED
    BY <1>1, <2>1, Refused
<1>3. CASE isNew
  <2> DEFINE i == ev.slot
             e == [events[i] EXCEPT !.refs = events[i].refs + 1]
  <2>1. i \in EventSlots /\ events[i].used
    BY <1>3, EventOf
  <2>2. /\ events[i] \in EventType
        /\ \A s \in Slots : Waits(threads[s], "WAIT_EVENT", EventHandle(i)) => events[i].posts = 0
    BY <1>1, <2>1, EventKnown
  <2>3. events[i].refs + 1 \in 0..MaxCount
    BY <1>3, <2>2, QueueBounds DEF EventType
  <2>4. /\ e \in EventType
        /\ e.used <=> events[i].used
        /\ e.generation = events[i].generation /\ e.posts = events[i].posts
    BY <2>2, <2>3, RefsFields
  <2>5. events' = [events EXCEPT ![i] = e]
    BY <1>3 DEF Retained
  <2> HIDE DEF e, i
  <2> QED
    BY <1>1, <2>1, <2>2, <2>4, <2>5, EventAnswered
<1> QED
  BY <1>2, <1>3

\* A read or peek that parks its caller finds the queue empty.
LEMMA ParkedAtQueue ==
  ASSUME QInv, Guest, NEW h \in QueueHandles, IsQueue(h), queues[h.slot].entries = <<>>,
         NEW peek \in BOOLEAN, NEW cell \in Cells,
         Block("WAIT_QUEUE", h, "indefinite"),
         args' = [args EXCEPT ![current] = [peek |-> peek, cell |-> cell]],
         UNCHANGED <<queues, cells, mutexes, events>>, got' = {}
  PROVE  QInv'
<1> DEFINE u == Parked(Me, "WAIT_QUEUE", h, "indefinite", waitSerial + 1)
<1>1. WInv /\ current \in Slots /\ Me \in ThreadType /\ waitSerial \in Nat
      /\ threads \in [Slots -> ThreadType]
  BY MeRuns DEF QInv, WInv, TypeOK
<1>2. /\ h.slot \in QueueSlots /\ h = Handle("queue", h.slot, queues[h.slot].generation)
      /\ queues[h.slot].used
      /\ h \in [kind : {"none", "mutex", "event", "queue"}, slot : Nat, generation : Nat]
  BY QueueOf
<1>3. SwitchTo([threads EXCEPT ![current] = u]) /\ waitSerial' = waitSerial + 1
  BY DEF Block, Me
<1>4. /\ u \in ThreadType /\ u.state = "WAIT_QUEUE" /\ u.on = h /\ u.tid = Me.tid
      /\ u.order = waitSerial + 1
  <2>1. "WAIT_QUEUE" \in ThreadStates /\ "indefinite" \in Timeouts /\ waitSerial + 1 \in Nat
    BY <1>1 DEF ThreadStates, Timeouts
  <2> QED
    BY <1>1, <1>2, <2>1, ParkedFields
<1> HIDE DEF u
<1>5. Live(u)
  BY <1>4 DEF Live, Gone
<1>6. Parks(threads, current, u, mutexes, events, waitSerial, waitSerial')
  BY <1>4 DEF Parks, OnMutexOf, OnEventOf
<1>7. WInv'
  <2>1. waitSerial' \in Nat /\ waitSerial <= waitSerial'
    BY <1>1, <1>3
  <2> QED
    BY <1>1, <1>3, <1>4, <1>5, <1>6, <2>1, Switched
<1>8. QTyped'
  BY <1>1 DEF QInv, QTyped
<1>9. threads'[current] = u /\ \A s \in Slots \ {current} : threads'[s] = threads[s]
  BY <1>1, <1>3 DEF SwitchTo
<1>10. \A s \in Slots : OnQueueOf(threads'[s], queues')
  BY <1>2, <1>4, <1>9 DEF QInv, OnQueueOf
<1>11. InLine(threads', waitSerial')
  <2>1. \A s \in Slots \ {current} : threads'[s].state = "WAIT_QUEUE" =>
           threads[s].order \in Nat /\ threads[s].order <= waitSerial
    BY <1>1, <1>9 DEF QInv, InLine, ThreadType
  <2>2. \A s, r \in Slots \ {current} :
           /\ threads'[s].state = "WAIT_QUEUE" /\ threads'[r].state = "WAIT_QUEUE"
           /\ threads'[s].order = threads'[r].order
           => r = s
    <3> SUFFICES ASSUME NEW s \in Slots \ {current}, NEW r \in Slots \ {current},
                        threads'[s].state = "WAIT_QUEUE", threads'[r].state = "WAIT_QUEUE",
                        threads'[s].order = threads'[r].order
                 PROVE  r = s
      OBVIOUS
    <3>1. threads'[s] = threads[s] /\ threads'[r] = threads[r]
      BY <1>9
    <3>2. InLine(threads, waitSerial)
      BY DEF QInv
    <3> QED
      BY <3>1, <3>2 DEF InLine
  <2> QED
    BY <1>1, <1>3, <1>4, <1>9, <2>1, <2>2 DEF InLine
<1> QED
  BY <1>7, <1>8, <1>10, <1>11 DEF QInv

\* DosReadQueue and DosPeekQueue.
LEMMA ReadOrPeekKeeps ==
  ASSUME QInv, NEW h \in QueueHandles, NEW token, NEW peek \in BOOLEAN, NEW cell \in Cells,
         NEW nowait \in BOOLEAN, NEW ev \in EventHandles \cup {NoHandle},
         ReadOrPeek(h, token, peek, cell, nowait, ev)
  PROVE  QInv'
<1> DEFINE i == h.slot
           q == queues[i]
           names == nowait /\ ev # NoHandle
           v == World(q.entries)
           w == Deliver(v, current, token, peek, cell)
           empty == IsEmpty(q.entries, token, peek)
           r == IF names THEN Notified(q, ev) ELSE q
           u == [r EXCEPT !.entries = w.entries]
<1>1. Guest /\ IsQueue(h) /\ "ERROR" \in Codes
  BY DEF ReadOrPeek, OnQueue, Codes
<1>2. i \in QueueSlots /\ q \in QueueType /\ QueueOK(q) /\ WInv
      /\ i \in QueueSlots /\ q.entries \in Seq(ElementType) /\ current \in Slots
  BY <1>1, QueueOf, QueueFields DEF QInv, WInv, TypeOK
<1>3. \/ QueueRefuse("ERROR")
      \/ /\ names => MayNotify(q, ev)
         /\ queues' = [queues EXCEPT ![i] = u]
         /\ events' = Retained(ev, names /\ q.notify = NoHandle)
         /\ cells' = w.cells /\ got' = w.got
         /\ Answer(w.code)
         /\ UNCHANGED <<args, mutexes>>
      \/ /\ empty /\ ~ nowait /\ token = 0
         /\ Block("WAIT_QUEUE", h, "indefinite")
         /\ args' = [args EXCEPT ![current] = [peek |-> peek, cell |-> cell]]
         /\ UNCHANGED <<queues, cells, mutexes, events>> /\ got' = {}
  BY DEF ReadOrPeek
<1>4. CASE QueueRefuse("ERROR")
  BY <1>1, <1>4, RefusedQueue
<1>5. CASE /\ names => MayNotify(q, ev)
           /\ queues' = [queues EXCEPT ![i] = u]
           /\ events' = Retained(ev, names /\ q.notify = NoHandle)
           /\ cells' = w.cells /\ got' = w.got
           /\ Answer(w.code)
           /\ UNCHANGED <<args, mutexes>>
  <2>1. v \in WorldType /\ v.entries = q.entries
    BY <1>2, WorldIs
  <2>2. w \in WorldType /\ Took(v, w, current)
    BY <1>2, <2>1, Delivered
  <2>3. w.code \in Codes /\ w.cells \in [Cells -> 0..MaxToken]
        /\ w.got \subseteq Slots \X (1..MaxToken)
    BY <2>2 DEF WorldType
  <2>4. r \in {q} \cup {Notified(q, e) : e \in EventHandles}
    OBVIOUS
  <2> HIDE DEF v, w, r
  <2>5. /\ u \in QueueType /\ u.used = q.used /\ u.generation = q.generation
        /\ u.entries = w.entries /\ QueueOK(u)
        /\ q.entries = <<>> => w.entries = <<>>
    BY <1>2, <2>1, <2>2, <2>4, QueueRead
  <2>6. WInv'
    <3> DEFINE isNew == names /\ q.notify = NoHandle
    <3>1. isNew \in BOOLEAN
      OBVIOUS
    <3>2. isNew => ev \in EventHandles /\ IsEvent(ev) /\ events[ev.slot].refs # MaxCount
      BY <1>5 DEF MayNotify
    <3>3. /\ events' = Retained(ev, isNew) /\ Answer(w.code) /\ UNCHANGED mutexes
      BY <1>5
    <3> HIDE DEF isNew
    <3> QED
      BY <1>1, <2>3, <3>1, <3>2, <3>3, RetainedKeeps
  <2>7. Quiet
    BY <1>1, <1>2, <1>5, <2>3, AnswerQuiet
  <2>8. \A s \in Slots : /\ threads'[s].state = "WAIT_QUEUE"
                         /\ threads'[s].on = Handle("queue", i, queues[i].generation)
                         => q.used /\ q.entries = <<>>
    <3>1. \A s \in Slots : /\ threads'[s].state = "WAIT_QUEUE"
                           /\ threads'[s].on = Handle("queue", i, queues[i].generation)
                           => queues[i].used /\ queues[i].entries = <<>>
      BY <1>2, <2>7, NoneBeside DEF Quiet
    <3> QED
      BY <3>1
  <2>9. /\ args' = args /\ cells' \in [Cells -> 0..MaxToken]
        /\ got' \subseteq Slots \X (1..MaxToken) /\ queues' = [queues EXCEPT ![i] = u]
    BY <1>5, <2>3
  <2>10. \A s \in Slots : /\ threads'[s].state = "WAIT_QUEUE"
                          /\ threads'[s].on = Handle("queue", i, queues[i].generation)
                          /\ queues[i].used
                          => u.used /\ u.generation = queues[i].generation /\ u.entries = <<>>
    <3> HIDE DEF u
    <3> QED
      BY <2>5, <2>8
  <2> HIDE DEF u, q, i
  <2> QED
    BY <1>2, <2>5, <2>6, <2>7, <2>9, <2>10, OneQueue DEF q
<1>6. CASE /\ empty /\ ~ nowait /\ token = 0
           /\ Block("WAIT_QUEUE", h, "indefinite")
           /\ args' = [args EXCEPT ![current] = [peek |-> peek, cell |-> cell]]
           /\ UNCHANGED <<queues, cells, mutexes, events>> /\ got' = {}
  <2>1. q.entries = <<>>
    <3>1. {1} \cap 1..Len(q.entries) = {}
      BY <1>6 DEF IsEmpty, Found
    <3>2. Len(q.entries) = 0
      BY <1>2, <3>1
    <3> QED
      BY <1>2, <3>2
  <2> QED
    BY <1>1, <1>6, <2>1, ParkedAtQueue
<1> QED
  BY <1>3, <1>4, <1>5, <1>6


-----------------------------------------------------------------------------
(***************************************************************************)
(* Writes                                                                  *)
(***************************************************************************)

\* T is the table after some threads were woken from events and queues.
Wakes(T) ==
    /\ T \in [Slots -> ThreadType]
    /\ \A s \in Slots :
          \/ T[s] = threads[s]
          \/ /\ threads[s].state \in {"WAIT_EVENT", "WAIT_QUEUE"}
             /\ \E code \in Codes : T[s] = Ready(threads[s], code)

\* The call wakes them and returns.
LEMMA SomeWoken ==
  ASSUME WInv, Guest, UNCHANGED schedVars, NEW T, Wakes(T),
         threads' = [T EXCEPT ![current].rc = "NO_ERROR"]
  PROVE  /\ ThreadsOK' /\ OneRuns'
         /\ Sound(threads', mutexes, events, nextTid', waitSerial')
         /\ Quiet
         /\ \A s \in Slots : /\ Mild(threads[s], threads'[s])
                             /\ threads'[s].state = T[s].state
                             /\ T[s].state # "RUNNING" => threads'[s] = T[s]
<1>1. /\ threads \in [Slots -> ThreadType] /\ current \in Slots /\ waitSerial \in Nat
      /\ threads[current].state = "RUNNING" /\ "NO_ERROR" \in Codes
      /\ T \in [Slots -> ThreadType]
  BY DEF WInv, TypeOK, OneRuns, Codes, Wakes
<1>2. T[current] = threads[current]
  BY <1>1 DEF Wakes
<1>3. /\ threads'[current] = [threads[current] EXCEPT !.rc = "NO_ERROR"]
      /\ \A s \in Slots \ {current} : threads'[s] = T[s]
  BY <1>1, <1>2
<1>4. /\ threads'[current] \in ThreadType /\ Mild(threads[current], threads'[current])
      /\ threads'[current].state = "RUNNING"
  <2> DEFINE t == threads[current]
             u == [t EXCEPT !.rc = "NO_ERROR"]
  <2>1. t \in ThreadType /\ t.state = "RUNNING" /\ threads'[current] = u
    BY <1>1, <1>3
  <2>2. u \in ThreadType /\ Mild(t, u) /\ u.state = t.state
    <3> HIDE DEF t
    <3> QED
      BY <1>1, <2>1, ResultOnly
  <2> HIDE DEF u
  <2> QED
    BY <2>1, <2>2
<1>5. \A s \in Slots \ {current} :
         /\ T[s] \in ThreadType /\ Mild(threads[s], T[s])
         /\ T[s].state = "RUNNING" <=> threads[s].state = "RUNNING"
         /\ T[s].state = "WAIT_QUEUE" => T[s] = threads[s]
  <2> SUFFICES ASSUME NEW s \in Slots
               PROVE  /\ T[s] \in ThreadType /\ Mild(threads[s], T[s])
                      /\ T[s].state = "RUNNING" <=> threads[s].state = "RUNNING"
                      /\ T[s].state = "WAIT_QUEUE" => T[s] = threads[s]
    OBVIOUS
  <2>1. CASE T[s] = threads[s]
    BY <1>1, <2>1, MildSelf
  <2>2. CASE T[s] # threads[s]
    <3>1. PICK code \in Codes : T[s] = Ready(threads[s], code)
      BY <2>2 DEF Wakes
    <3>2. threads[s].state \in {"WAIT_EVENT", "WAIT_QUEUE"} /\ Live(threads[s])
      BY <2>2 DEF Wakes, Live, Gone
    <3> QED
      BY <1>1, <3>1, <3>2, ReadyFields
  <2> QED
    BY <2>1, <2>2
<1>6. \A s \in Slots :
         /\ threads'[s] \in ThreadType /\ Mild(threads[s], threads'[s])
         /\ threads'[s].state = "RUNNING" <=> threads[s].state = "RUNNING"
         /\ threads'[s].state = T[s].state
         /\ T[s].state # "RUNNING" => threads'[s] = T[s]
         /\ threads'[s].state = "WAIT_QUEUE" => threads'[s] = threads[s]
  BY <1>1, <1>2, <1>3, <1>4, <1>5
<1>7. threads' \in [Slots -> ThreadType]
  <2>1. threads' = [s \in Slots |-> threads'[s]]
    BY <1>1
  <2> QED
    BY <1>6, <2>1
<1>8. /\ ThreadsOK' /\ OneRuns'
      /\ Sound(threads', mutexes, events, nextTid', waitSerial')
  BY <1>6, <1>7, GoesOn
<1>9. Quiet
  <2>1. waitSerial' = waitSerial
    BY DEF schedVars
  <2> QED
    BY <1>1, <1>6, <2>1 DEF Quiet
<1> QED
  BY <1>6, <1>8, <1>9

\* Who waited for a posted event.
LEMMA Posted ==
  ASSUME WInv, NEW ev
  PROVE  LET T == EventAwakens(threads, ev)
         IN  /\ Wakes(T)
             /\ \A s \in Slots : /\ ~ Waits(T[s], "WAIT_EVENT", ev)
                                 /\ threads[s].state # "WAIT_EVENT" => T[s] = threads[s]
                                 /\ T[s].state = "WAIT_QUEUE" => T[s] = threads[s]
<1> DEFINE T == EventAwakens(threads, ev)
<1>1. threads \in [Slots -> ThreadType] /\ "NO_ERROR" \in Codes
  BY DEF WInv, TypeOK, Codes
<1>2. T = [s \in Slots |-> IF Waits(threads[s], "WAIT_EVENT", ev)
                           THEN Ready(threads[s], "NO_ERROR") ELSE threads[s]]
  BY DEF EventAwakens
<1> HIDE DEF T
<1>3. \A s \in Slots :
         /\ T[s] \in ThreadType
         /\ Waits(threads[s], "WAIT_EVENT", ev) => /\ T[s] = Ready(threads[s], "NO_ERROR")
                                                   /\ T[s].state = "RUNNABLE"
         /\ ~ Waits(threads[s], "WAIT_EVENT", ev) => T[s] = threads[s]
  BY <1>1, <1>2, ReadyFields
<1>4. T \in [Slots -> ThreadType]
  <2>1. T = [s \in Slots |-> T[s]]
    BY <1>2
  <2> QED
    BY <1>3, <2>1
<1>5. Wakes(T)
  BY <1>1, <1>3, <1>4 DEF Wakes, Waits
<1>6. \A s \in Slots : /\ ~ Waits(T[s], "WAIT_EVENT", ev)
                       /\ threads[s].state # "WAIT_EVENT" => T[s] = threads[s]
                       /\ T[s].state = "WAIT_QUEUE" => T[s] = threads[s]
  BY <1>3 DEF Waits
<1> QED
  BY <1>5, <1>6 DEF T

\* The table and entries with which a write of priority p to queue q begins.
WriteWorld(q, p) ==
    [World(InsertAt(q.entries, Place(q, p), [token |-> q.nextToken, priority |-> p]))
        EXCEPT !.threads = IF IsEvent(q.notify) THEN EventAwakens(threads, q.notify) ELSE threads]

\* What a write does.
LEMMA WriteIs ==
  ASSUME NEW h, NEW p, WriteQueue(h, p), ~ QueueRefuse("ERROR")
  PROVE  LET q == queues[h.slot]
             w == WakeReaders(WriteWorld(q, p), h)
         IN  /\ Guest /\ IsQueue(h)
             /\ Len(q.entries) # Depth /\ q.nextToken # 0
             /\ queues' = [queues EXCEPT ![h.slot] =
                   [q EXCEPT !.entries = w.entries,
                             !.nextToken = (q.nextToken + 1) % (MaxToken + 1)]]
             /\ events' = IF IsEvent(q.notify) /\ events[q.notify.slot].posts # MaxCount
                          THEN [events EXCEPT ![q.notify.slot].posts = @ + 1] ELSE events
             /\ threads' = [w.threads EXCEPT ![current].rc = "NO_ERROR"]
             /\ cells' = w.cells /\ got' = w.got
             /\ UNCHANGED <<schedVars, mutexes, args>>
<1> DEFINE q == queues[h.slot]
           w == WakeReaders(WriteWorld(q, p), h)
<1>1. /\ Guest /\ IsQueue(h)
      /\ Len(q.entries) # Depth /\ q.nextToken # 0
      /\ queues' = [queues EXCEPT ![h.slot].entries = w.entries,
                                  ![h.slot].nextToken = (@ + 1) % (MaxToken + 1)]
      /\ events' = IF IsEvent(q.notify) /\ events[q.notify.slot].posts # MaxCount
                   THEN [events EXCEPT ![q.notify.slot].posts = @ + 1] ELSE events
      /\ threads' = [w.threads EXCEPT ![current].rc = "NO_ERROR"]
      /\ cells' = w.cells /\ got' = w.got
      /\ UNCHANGED <<schedVars, mutexes, args>>
  BY Zenon DEF WriteQueue, OnQueue, WriteWorld
<1> HIDE DEF w
<1>2. queues' = [queues EXCEPT ![h.slot] =
                   [q EXCEPT !.entries = w.entries,
                             !.nextToken = (q.nextToken + 1) % (MaxToken + 1)]]
  BY <1>1
<1> QED
  BY <1>1, <1>2 DEF w

\* What a write begins with, and what the loop makes of it.
LEMMA WriteServes ==
  ASSUME QInv, NEW h \in QueueHandles, NEW p \in Priorities, WriteQueue(h, p),
         ~ QueueRefuse("ERROR")
  PROVE  LET q == queues[h.slot]
             v == WriteWorld(q, p)
             w == WakeReaders(v, h)
         IN  /\ Len(v.entries) = Len(q.entries) + 1
             /\ Tok(v.entries) = Tok(q.entries) \cup {q.nextToken}
             /\ q.nextToken \notin Tok(q.entries)
             /\ \A j \in 1..Len(v.entries) : v.entries[j].token <= q.nextToken
             /\ w \in WorldType /\ Shared(q.discipline, v, w)
             /\ w.entries = <<>> \/ Waiters(w.threads, "WAIT_QUEUE", h) = {}
             /\ Wakes(v.threads) /\ Wakes(w.threads)
             /\ InTurn(v, w, h)
             /\ \A s \in Slots : threads[s].state = "WAIT_QUEUE" => v.threads[s] = threads[s]
             /\ IsEvent(q.notify) =>
                   \A s \in Slots : ~ Waits(w.threads[s], "WAIT_EVENT", q.notify)
<1> DEFINE q == queues[h.slot]
           e == [token |-> q.nextToken, priority |-> p]
           a == InsertAt(q.entries, Place(q, p), e)
           awake == IF IsEvent(q.notify) THEN EventAwakens(threads, q.notify) ELSE threads
           v == WriteWorld(q, p)
           w == WakeReaders(v, h)
<1>1. IsQueue(h) /\ q.nextToken # 0
  BY WriteIs
<1>2. q \in QueueType /\ QueueOK(q) /\ WInv /\ threads \in [Slots -> ThreadType]
  BY <1>1, QueueOf DEF QInv, WInv, TypeOK
<1> HIDE DEF q
<1>3. /\ a \in Seq(ElementType)
      /\ Len(a) = Len(q.entries) + 1
      /\ Ordered(q.discipline, a)
      /\ Tok(a) = Tok(q.entries) \cup {q.nextToken}
      /\ q.nextToken \notin Tok(q.entries)
      /\ \A j \in 1..Len(a) : a[j].token <= q.nextToken
  BY <1>1, <1>2, PutIn
<1>4. v = [World(a) EXCEPT !.threads = awake]
  BY DEF WriteWorld
<1> HIDE DEF e, a, v
<1>5. /\ Wakes(awake)
      /\ \A s \in Slots : /\ threads[s].state # "WAIT_EVENT" => awake[s] = threads[s]
                          /\ awake[s].state = "WAIT_QUEUE" => awake[s] = threads[s]
      /\ IsEvent(q.notify) => \A s \in Slots : ~ Waits(awake[s], "WAIT_EVENT", q.notify)
  <2>1. CASE IsEvent(q.notify)
    <3>1. awake = EventAwakens(threads, q.notify)
      BY <2>1
    <3> HIDE DEF awake
    <3> QED
      BY <1>2, <3>1, Posted
  <2>2. CASE ~ IsEvent(q.notify)
    <3>1. awake = threads
      BY <2>2
    <3> HIDE DEF awake
    <3> QED
      BY <1>2, <2>2, <3>1 DEF Wakes
  <2> QED
    BY <2>1, <2>2
<1> HIDE DEF awake
<1>6. awake \in [Slots -> ThreadType]
  BY <1>5 DEF Wakes
<1>7. v \in WorldType /\ v.entries = a /\ v.got = {} /\ v.threads = awake
  <2>1. World(a) \in WorldType /\ World(a).entries = a /\ World(a).got = {}
    BY <1>3, WorldIs
  <2> QED
    BY <1>4, <1>6, <2>1 DEF WorldType
<1>8. Begins(q.discipline, v, h)
  <2>1. \A s, r \in Slots : Reader(awake[s], h) /\ Reader(awake[r], h)
                            /\ awake[s].order = awake[r].order => s = r
    <3> SUFFICES ASSUME NEW s \in Slots, NEW r \in Slots, Reader(awake[s], h),
                        Reader(awake[r], h), awake[s].order = awake[r].order
                 PROVE  s = r
      OBVIOUS
    <3>1. /\ awake[s] = threads[s] /\ awake[r] = threads[r]
          /\ threads[s].state = "WAIT_QUEUE" /\ threads[r].state = "WAIT_QUEUE"
      BY <1>5 DEF Reader, Waits
    <3>2. InLine(threads, waitSerial)
      BY DEF QInv
    <3> QED
      BY <3>1, <3>2 DEF InLine
  <2> QED
    BY <1>3, <1>7, <2>1 DEF Begins
<1>9. args \in [Slots -> [peek : BOOLEAN, cell : Cells]]
  BY DEF QInv, QTyped
<1>10. /\ w \in WorldType /\ Shared(q.discipline, v, w) /\ InTurn(v, w, h)
       /\ w.entries = <<>> \/ Waiters(w.threads, "WAIT_QUEUE", h) = {}
  BY <1>8, <1>9, ReadersWoken
<1> HIDE DEF w
<1>11. \A s \in Slots : \/ w.threads[s] = awake[s]
                        \/ /\ awake[s] = threads[s] /\ threads[s].state = "WAIT_QUEUE"
                           /\ \E code \in Codes : w.threads[s] = Ready(threads[s], code)
  <2> SUFFICES ASSUME NEW s \in Slots, w.threads[s] # awake[s]
               PROVE  /\ awake[s] = threads[s] /\ threads[s].state = "WAIT_QUEUE"
                      /\ \E code \in Codes : w.threads[s] = Ready(threads[s], code)
    OBVIOUS
  <2>1. /\ Reader(awake[s], h)
        /\ \E code \in Codes : w.threads[s] = Ready(awake[s], code)
    BY <1>7, <1>10 DEF InTurn
  <2>2. awake[s] = threads[s] /\ awake[s].state = "WAIT_QUEUE"
    BY <1>5, <2>1 DEF Reader, Waits
  <2> QED
    BY <2>1, <2>2
<1>12. w.threads \in [Slots -> ThreadType]
  BY <1>10 DEF WorldType
<1>13. Wakes(w.threads)
  BY <1>5, <1>11, <1>12 DEF Wakes
<1>14. IsEvent(q.notify) => \A s \in Slots : ~ Waits(w.threads[s], "WAIT_EVENT", q.notify)
  <2> SUFFICES ASSUME IsEvent(q.notify), NEW s \in Slots
               PROVE  ~ Waits(w.threads[s], "WAIT_EVENT", q.notify)
    OBVIOUS
  <2>1. CASE w.threads[s] = awake[s]
    BY <1>5, <2>1
  <2>2. CASE w.threads[s] # awake[s]
    <3>1. PICK code \in Codes : w.threads[s] = Ready(threads[s], code)
      BY <1>11, <2>2
    <3>2. w.threads[s].state = "RUNNABLE"
      BY <1>2, <3>1, ReadyFields
    <3> QED
      BY <3>2 DEF Waits
  <2> QED
    BY <2>1, <2>2
<1>15. \A s \in Slots : threads[s].state = "WAIT_QUEUE" => v.threads[s] = threads[s]
  BY <1>5, <1>7
<1> QED
  BY <1>3, <1>5, <1>7, <1>10, <1>13, <1>14, <1>15 DEF q, v, w

\* The events after the queue's one was posted.
LEMMA PostKeeps ==
  ASSUME QInv, NEW ev \in EventHandles \cup {NoHandle}, UNCHANGED mutexes,
         ThreadsOK', OneRuns', Sound(threads', mutexes, events, nextTid', waitSerial'),
         IsEvent(ev) => \A s \in Slots : ~ Waits(threads'[s], "WAIT_EVENT", ev),
         events' = IF IsEvent(ev) /\ events[ev.slot].posts # MaxCount
                   THEN [events EXCEPT ![ev.slot].posts = @ + 1] ELSE events
  PROVE  WInv'
<1>1. WInv
  BY DEF QInv
<1>2. CASE events' = events
  <2>1. TypeOK'
    BY <1>1, <1>2, TypeOKSplit DEF WInv, TypeOK, ThreadsOK
  <2> QED
    BY <1>2, <2>1 DEF WInv
<1>3. CASE IsEvent(ev) /\ events[ev.slot].posts # MaxCount
  <2> DEFINE i == ev.slot
             e == [events[i] EXCEPT !.posts = events[i].posts + 1]
  <2>1. ev \in EventHandles
    BY <1>3 DEF IsEvent, NoHandle, Handle
  <2>2. i \in EventSlots /\ events[i].used /\ ev = EventHandle(i)
    BY <1>3, <2>1, EventOf
  <2>3. events[i] \in EventType
    BY <1>1, <2>2, EventKnown
  <2>4. events[i].posts + 1 \in 0..MaxCount
    BY <1>3, <2>3, QueueBounds DEF EventType
  <2>5. e \in EventType
    BY <2>3, <2>4, PostsFields
  <2>6. events' = [events EXCEPT ![i] = e]
    BY <1>3
  <2>7. \A s \in Slots : ~ Waits(threads'[s], "WAIT_EVENT", EventHandle(i))
    BY <1>3, <2>2
  <2> HIDE DEF e, i
  <2> QED
    BY <1>1, <2>2, <2>5, <2>6, <2>7, EventChanged
<1> QED
  BY <1>2, <1>3

\* The queue that is left by a write.
LEMMA QueueWritten ==
  ASSUME NEW q \in QueueType, QueueOK(q), q.nextToken # 0, Len(q.entries) # Depth,
         NEW v, Len(v.entries) = Len(q.entries) + 1,
         \A j \in 1..Len(v.entries) : v.entries[j].token <= q.nextToken,
         NEW w \in WorldType, Shared(q.discipline, v, w),
         NEW u, u = [q EXCEPT !.entries = w.entries,
                              !.nextToken = (q.nextToken + 1) % (MaxToken + 1)]
  PROVE  /\ u \in QueueType /\ u.used = q.used /\ u.generation = q.generation
         /\ u.entries = w.entries
         /\ QueueOK(u)
<1> DEFINE n == (q.nextToken + 1) % (MaxToken + 1)
<1>1. /\ q.nextToken \in Nat /\ q.nextToken <= MaxToken /\ MaxToken \in Nat
      /\ q.entries \in Seq(ElementType) /\ Len(q.entries) \in Nat
  BY QueueFields, QueueBounds
<1>2. n \in 0..MaxToken /\ (n = 0 \/ n = q.nextToken + 1)
  <2>1. CASE q.nextToken = MaxToken
    <3>1. \A b \in Nat \ {0} : b % b = 0
      OBVIOUS
    <3>2. MaxToken + 1 \in Nat \ {0}
      BY <1>1
    <3>3. (MaxToken + 1) % (MaxToken + 1) = 0
      BY <3>1, <3>2
    <3> QED
      BY <1>1, <2>1, <3>3
  <2>2. CASE q.nextToken # MaxToken
    <3>1. \A b, c \in Nat : b < c => b % c = b
      OBVIOUS
    <3>2. q.nextToken + 1 \in Nat /\ MaxToken + 1 \in Nat /\ q.nextToken + 1 < MaxToken + 1
      BY <1>1, <2>2
    <3>3. n = q.nextToken + 1
      BY <3>1, <3>2
    <3> HIDE DEF n
    <3> QED
      BY <1>1, <3>2, <3>3
  <2> QED
    BY <2>1, <2>2
<1> HIDE DEF n
<1>3. w.entries \in Seq(ElementType) /\ Len(w.entries) \in Nat
  BY DEF WorldType
<1>4. /\ u \in QueueType /\ u.used = q.used /\ u.generation = q.generation
      /\ u.discipline = q.discipline /\ u.nextToken = n /\ u.entries = w.entries
  <2> DEFINE a == w.entries
             x == [q EXCEPT !.entries = a, !.nextToken = n]
  <2>1. a \in Seq(ElementType)
    BY <1>3
  <2> HIDE DEF a
  <2>2. /\ x \in QueueType /\ x.used = q.used /\ x.generation = q.generation
        /\ x.discipline = q.discipline /\ x.nextToken = n /\ x.entries = a
    BY <1>2, <2>1 DEF QueueType
  <2> HIDE DEF x
  <2>3. u = x
    BY DEF x, a, n
  <2> QED
    BY <2>2, <2>3 DEF a
<1>5. QueueOK(u)
  <2>1. Len(w.entries) <= Depth
    <3>1. Len(w.entries) <= Len(v.entries) /\ Len(q.entries) <= Depth /\ Depth \in Nat
      BY QueueBounds DEF Shared, QueueOK
    <3> QED
      BY <1>1, <1>3, <3>1
  <2>2. Ordered(q.discipline, w.entries)
    BY DEF Shared
  <2>3. ASSUME n # 0, NEW j \in 1..Len(w.entries) PROVE w.entries[j].token < n
    <3>1. w.entries[j].token \in Tok(v.entries)
      BY DEF Tok, Shared
    <3>2. PICK k \in 1..Len(v.entries) : w.entries[j].token = v.entries[k].token
      BY <3>1 DEF Tok
    <3>3. w.entries[j].token \in Nat
      <4>1. w.entries[j] \in ElementType
        BY <1>3
      <4> QED
        BY <4>1, QueueBounds DEF ElementType
    <3>4. w.entries[j].token <= q.nextToken
      BY <3>2
    <3> QED
      BY <1>1, <1>2, <2>3, <3>3, <3>4
  <2> QED
    BY <1>4, <2>1, <2>2, <2>3 DEF QueueOK
<1> QED
  BY <1>4, <1>5

\* DosWriteQueue.
LEMMA WriteQueueKeeps ==
  ASSUME QInv, NEW h \in QueueHandles, NEW p \in Priorities, WriteQueue(h, p)
  PROVE  QInv'
<1> DEFINE i == h.slot
           q == queues[i]
           v == WriteWorld(q, p)
           w == WakeReaders(v, h)
           u == [q EXCEPT !.entries = w.entries,
                          !.nextToken = (q.nextToken + 1) % (MaxToken + 1)]
<1>1. Guest /\ "ERROR" \in Codes
  BY DEF WriteQueue, OnQueue, Codes
<1>2. CASE QueueRefuse("ERROR")
  BY <1>1, <1>2, RefusedQueue
<1>3. CASE ~ QueueRefuse("ERROR")
  <2>1. /\ IsQueue(h)
        /\ Len(q.entries) # Depth /\ q.nextToken # 0
        /\ queues' = [queues EXCEPT ![i] = u]
        /\ events' = IF IsEvent(q.notify) /\ events[q.notify.slot].posts # MaxCount
                     THEN [events EXCEPT ![q.notify.slot].posts = @ + 1] ELSE events
        /\ threads' = [w.threads EXCEPT ![current].rc = "NO_ERROR"]
        /\ cells' = w.cells /\ got' = w.got
        /\ UNCHANGED <<schedVars, mutexes, args>>
    BY <1>3, WriteIs
  <2>2. /\ Len(v.entries) = Len(q.entries) + 1
        /\ \A j \in 1..Len(v.entries) : v.entries[j].token <= q.nextToken
        /\ w \in WorldType /\ Shared(q.discipline, v, w)
        /\ w.entries = <<>> \/ Waiters(w.threads, "WAIT_QUEUE", h) = {}
        /\ Wakes(w.threads)
        /\ IsEvent(q.notify) => \A s \in Slots : ~ Waits(w.threads[s], "WAIT_EVENT", q.notify)
    BY <1>3, WriteServes
  <2>3. /\ i \in QueueSlots /\ h = Handle("queue", i, q.generation)
        /\ q.used /\ q \in QueueType /\ QueueOK(q) /\ WInv
    BY <2>1, QueueOf DEF QInv
  <2> HIDE DEF i, q, v, w
  <2>4. /\ u \in QueueType /\ u.used = q.used /\ u.generation = q.generation
        /\ u.entries = w.entries /\ QueueOK(u)
    <3>1. u = [q EXCEPT !.entries = w.entries,
                        !.nextToken = (q.nextToken + 1) % (MaxToken + 1)]
      OBVIOUS
    <3> HIDE DEF u
    <3> QED
      <4>1. q \in QueueType /\ QueueOK(q) /\ q.nextToken # 0 /\ Len(q.entries) # Depth
        BY <2>1, <2>3
      <4>2. Len(v.entries) = Len(q.entries) + 1
            /\ \A j \in 1..Len(v.entries) : v.entries[j].token <= q.nextToken
        BY <2>2
      <4>3. w \in WorldType /\ Shared(q.discipline, v, w)
        BY <2>2
      <4> QED
        BY <3>1, <4>1, <4>2, <4>3, QueueWritten
  <2> HIDE DEF u
  <2>5. /\ ThreadsOK' /\ OneRuns'
        /\ Sound(threads', mutexes, events, nextTid', waitSerial')
        /\ Quiet
        /\ \A s \in Slots : /\ threads'[s].state = w.threads[s].state
                            /\ w.threads[s].state # "RUNNING" => threads'[s] = w.threads[s]
    BY <1>1, <2>1, <2>2, <2>3, SomeWoken
  <2>6. WInv'
    <3>1. q.notify \in EventHandles \cup {NoHandle}
      BY <2>3, QueueFields
    <3>2. IsEvent(q.notify) => \A s \in Slots : ~ Waits(threads'[s], "WAIT_EVENT", q.notify)
      BY <2>2, <2>5 DEF Waits
    <3> QED
      BY <2>1, <2>5, <3>1, <3>2, PostKeeps
  <2>7. /\ args' = args /\ cells' \in [Cells -> 0..MaxToken]
        /\ got' \subseteq Slots \X (1..MaxToken)
    BY <2>1, <2>2 DEF WorldType
  <2>8. \A s \in Slots : /\ threads'[s].state = "WAIT_QUEUE"
                         /\ threads'[s].on = Handle("queue", i, q.generation)
                         => u.entries = <<>>
    <3> SUFFICES ASSUME NEW s \in Slots, threads'[s].state = "WAIT_QUEUE", threads'[s].on = h
                 PROVE  w.entries = <<>>
      BY <2>3, <2>4
    <3>1. Waits(w.threads[s], "WAIT_QUEUE", h)
      BY <2>5 DEF Waits
    <3> QED
      BY <2>2, <3>1 DEF Waiters
  <2> QED
    BY <2>1, <2>3, <2>4, <2>5, <2>6, <2>7, <2>8, OneQueue DEF q
<1> QED
  BY <1>2, <1>3

-----------------------------------------------------------------------------
(***************************************************************************)
(* Closes                                                                  *)
(***************************************************************************)

\* The events after the last close of a queue let go of one.
LEMMA ReleaseKeeps ==
  ASSUME QInv, NEW ev \in EventHandles \cup {NoHandle}, UNCHANGED mutexes,
         ThreadsOK', OneRuns', Sound(threads', mutexes, events, nextTid', waitSerial'),
         \A s \in Slots : Mild(threads[s], threads'[s]),
         NEW frees, frees <=> IsEvent(ev) /\ events[ev.slot].refs = 1,
         frees => \A s \in Slots : ~ Waits(threads'[s], "WAIT_EVENT", ev),
         events' = IF frees
                   THEN [events EXCEPT ![ev.slot] = ClosedEvent(@)]
                   ELSE IF IsEvent(ev)
                   THEN [events EXCEPT ![ev.slot].refs = Wrapped(@ + MaxCount)]
                   ELSE events
  PROVE  WInv'
<1>1. WInv
  BY DEF QInv
<1>2. CASE ~ IsEvent(ev)
  <2>1. events' = events
    BY <1>2
  <2>2. TypeOK'
    BY <1>1, <2>1, TypeOKSplit DEF WInv, TypeOK, ThreadsOK
  <2> QED
    BY <2>1, <2>2 DEF WInv
<1>3. CASE IsEvent(ev)
  <2> DEFINE i == ev.slot
  <2>1. ev \in EventHandles
    BY <1>3 DEF IsEvent, NoHandle, Handle
  <2>2. i \in EventSlots /\ events[i].used /\ ev = EventHandle(i)
    BY <1>3, <2>1, EventOf
  <2>3. /\ events[i] \in EventType
        /\ \A s \in Slots : Waits(threads[s], "WAIT_EVENT", EventHandle(i)) =>
              events[i].posts = 0
    BY <1>1, <2>2, EventKnown
  <2>4. events[i].refs \in 0..MaxCount /\ events[i].generation \in 0..MaxGen
    BY <2>3 DEF EventType
  <2>5. CASE frees
    <3> DEFINE e == ClosedEvent(events[i])
    <3>1. events' = [events EXCEPT ![i] = e]
      BY <2>5
    <3>2. events[i].refs = 1
      BY <2>5
    <3>3. e = [ZeroEvent EXCEPT !.generation = events[i].generation]
      BY <3>2 DEF ClosedEvent
    <3> HIDE DEF e
    <3>4. e = [used |-> FALSE, generation |-> events[i].generation, refs |-> 0,
               posts |-> 0, name |-> NoName]
      BY <3>3 DEF ZeroEvent
    <3>5. 0 \in 0..MaxCount
      BY QueueBounds
    <3>6. e \in EventType
      BY <2>4, <3>4, <3>5 DEF EventType
    <3>7. \A s \in Slots : ~ Waits(threads'[s], "WAIT_EVENT", EventHandle(i))
      BY <2>2, <2>5
    <3> HIDE DEF i
    <3> QED
      BY <1>1, <2>2, <3>1, <3>6, <3>7, EventChanged
  <2>6. CASE ~ frees
    <3> DEFINE n == Wrapped(events[i].refs + MaxCount)
               e == [events[i] EXCEPT !.refs = n]
    <3>1. events' = [events EXCEPT ![i] = e]
      BY <1>3, <2>6
    <3>2. n \in 0..MaxCount
      <4>1. \A a \in Nat, b \in Nat \ {0} : a % b \in 0..b - 1
        OBVIOUS
      <4>2. events[i].refs + MaxCount \in Nat /\ MaxCount + 1 \in Nat \ {0}
        BY <2>4, QueueBounds
      <4>3. (events[i].refs + MaxCount) % (MaxCount + 1) \in 0..(MaxCount + 1) - 1
        BY <4>1, <4>2
      <4> QED
        BY <4>3, QueueBounds DEF Wrapped
    <3> HIDE DEF n
    <3>3. /\ e \in EventType
          /\ e.used <=> events[i].used
          /\ e.generation = events[i].generation /\ e.posts = events[i].posts
      BY <2>3, <3>2, RefsFields
    <3>4. \A s \in Slots : Waits(threads'[s], "WAIT_EVENT", EventHandle(i)) =>
             Waits(threads[s], "WAIT_EVENT", EventHandle(i))
      BY DEF Mild, Waits
    <3> HIDE DEF e, i
    <3> QED
      BY <1>1, <2>2, <2>3, <3>1, <3>3, <3>4, EventChanged
  <2> QED
    BY <2>5, <2>6
<1> QED
  BY <1>2, <1>3

\* What the last close of a queue does.
CloseWakes(h, frees, ev) ==
    [s \in Slots |-> IF s \in LastWaiters(h, frees, ev) THEN Ready(threads[s], "ERROR")
                     ELSE threads[s]]

\* It sends off everyone who waits for the queue, or for the event that goes with
\* it.
LEMMA CloseSends ==
  ASSUME WInv, NEW h, NEW frees \in BOOLEAN, NEW ev
  PROVE  LET T == CloseWakes(h, frees, ev)
         IN  /\ Wakes(T)
             /\ \A s \in Slots : /\ ~ Waits(T[s], "WAIT_QUEUE", h)
                                 /\ frees => ~ Waits(T[s], "WAIT_EVENT", ev)
                                 /\ \/ T[s] = threads[s]
                                    \/ Waits(threads[s], "WAIT_QUEUE", h)
                                    \/ threads[s].state = "WAIT_EVENT"
<1> DEFINE T == CloseWakes(h, frees, ev)
           L == LastWaiters(h, frees, ev)
<1>1. threads \in [Slots -> ThreadType] /\ "ERROR" \in Codes
  BY DEF WInv, TypeOK, Codes
<1>2. T = [s \in Slots |-> IF s \in L THEN Ready(threads[s], "ERROR") ELSE threads[s]]
  BY DEF CloseWakes
<1>3. \A s \in Slots : s \in L <=> \/ Waits(threads[s], "WAIT_QUEUE", h)
                                   \/ frees /\ Waits(threads[s], "WAIT_EVENT", ev)
  BY DEF LastWaiters
<1> HIDE DEF T, L
<1>4. \A s \in Slots :
         /\ T[s] \in ThreadType
         /\ s \in L => T[s] = Ready(threads[s], "ERROR") /\ T[s].state = "RUNNABLE"
         /\ s \notin L => T[s] = threads[s]
  BY <1>1, <1>2, ReadyFields
<1>5. T \in [Slots -> ThreadType]
  <2>1. T = [s \in Slots |-> T[s]]
    BY <1>2
  <2> QED
    BY <1>4, <2>1
<1>6. Wakes(T)
  BY <1>1, <1>3, <1>4, <1>5 DEF Wakes, Waits
<1>7. \A s \in Slots : /\ ~ Waits(T[s], "WAIT_QUEUE", h)
                       /\ frees => ~ Waits(T[s], "WAIT_EVENT", ev)
                       /\ \/ T[s] = threads[s]
                          \/ Waits(threads[s], "WAIT_QUEUE", h)
                          \/ threads[s].state = "WAIT_EVENT"
  BY <1>3, <1>4 DEF Waits
<1> QED
  BY <1>6, <1>7 DEF T

\* The threads after the last close.
LEMMA CloseIs ==
  ASSUME WInv, Guest, NEW h, NEW frees, NEW ev,
         threads' = [s \in Slots |->
                       IF s \in LastWaiters(h, frees, ev) THEN Ready(threads[s], "ERROR")
                       ELSE IF s = current THEN [threads[s] EXCEPT !.rc = "NO_ERROR"]
                       ELSE threads[s]]
  PROVE  threads' = [CloseWakes(h, frees, ev) EXCEPT ![current].rc = "NO_ERROR"]
<1>1. current \in Slots /\ threads[current].state = "RUNNING"
  BY DEF WInv, TypeOK, OneRuns
<1>2. current \notin LastWaiters(h, frees, ev)
  BY <1>1 DEF LastWaiters, Waits
<1> QED
  BY <1>1, <1>2 DEF CloseWakes

\* DosCloseQueue.
LEMMA CloseQueueKeeps ==
  ASSUME QInv, NEW h \in QueueHandles, CloseQueue(h)
  PROVE  QInv'
<1> DEFINE i == h.slot
           q == queues[i]
           ev == q.notify
           frees == IsEvent(ev) /\ events[ev.slot].refs = 1
<1>1. /\ Guest /\ IsQueue(h) /\ "NO_ERROR" \in Codes
      /\ UNCHANGED <<args, cells>> /\ got' = {}
  BY DEF CloseQueue, OnQueue, Codes
<1>2. \/ /\ q.refs > 1
         /\ queues' = [queues EXCEPT ![i].refs = @ - 1]
         /\ QueueAnswer("NO_ERROR")
      \/ /\ queues' = [queues EXCEPT ![i] = [ZeroQueue EXCEPT !.generation = q.generation]]
         /\ events' = IF frees
                      THEN [events EXCEPT ![ev.slot] = ClosedEvent(@)]
                      ELSE IF IsEvent(ev)
                      THEN [events EXCEPT ![ev.slot].refs = Wrapped(@ + MaxCount)]
                      ELSE events
         /\ threads' = [s \in Slots |->
                          IF s \in LastWaiters(h, frees, ev) THEN Ready(threads[s], "ERROR")
                          ELSE IF s = current THEN [threads[s] EXCEPT !.rc = "NO_ERROR"]
                          ELSE threads[s]]
         /\ UNCHANGED <<schedVars, mutexes>>
  BY DEF CloseQueue
<1>3. /\ i \in QueueSlots /\ h = Handle("queue", i, q.generation)
      /\ q.used /\ q \in QueueType /\ QueueOK(q) /\ WInv
  BY <1>1, QueueOf DEF QInv
<1>4. cells' \in [Cells -> 0..MaxToken] /\ got' \subseteq Slots \X (1..MaxToken) /\ args' = args
  BY <1>1 DEF QInv, QTyped
<1>5. CASE /\ q.refs > 1
           /\ queues' = [queues EXCEPT ![i].refs = @ - 1]
           /\ QueueAnswer("NO_ERROR")
  <2> DEFINE u == [q EXCEPT !.refs = q.refs - 1]
  <2>1. q.refs - 1 \in 0..MaxCount
    BY <1>3, <1>5, QueueFields, QueueBounds
  <2>2. queues' = [queues EXCEPT ![i] = u]
    BY <1>5
  <2> HIDE DEF i, q
  <2>3. /\ u \in QueueType /\ u.used = q.used /\ u.generation = q.generation
        /\ u.discipline = q.discipline /\ u.nextToken = q.nextToken
        /\ u.entries = q.entries
    BY <1>3, <2>1, QueueRefs
  <2> HIDE DEF u
  <2>4. QueueOK(u)
    BY <1>3, <2>3 DEF QueueOK
  <2>5. WInv' /\ Quiet
    BY <1>1, <1>3, <1>5, QueueAnswered
  <2>6. \A s \in Slots : /\ threads'[s].state = "WAIT_QUEUE"
                         /\ threads'[s].on = Handle("queue", i, q.generation)
                         => q.entries = <<>>
    BY <1>3, <2>5, NoneBeside DEF Quiet, q
  <2> QED
    BY <1>3, <1>4, <2>2, <2>3, <2>4, <2>5, <2>6, OneQueue DEF q
<1>6. CASE /\ queues' = [queues EXCEPT ![i] = [ZeroQueue EXCEPT !.generation = q.generation]]
           /\ events' = IF frees
                        THEN [events EXCEPT ![ev.slot] = ClosedEvent(@)]
                        ELSE IF IsEvent(ev)
                        THEN [events EXCEPT ![ev.slot].refs = Wrapped(@ + MaxCount)]
                        ELSE events
           /\ threads' = [s \in Slots |->
                            IF s \in LastWaiters(h, frees, ev) THEN Ready(threads[s], "ERROR")
                            ELSE IF s = current THEN [threads[s] EXCEPT !.rc = "NO_ERROR"]
                            ELSE threads[s]]
           /\ UNCHANGED <<schedVars, mutexes>>
  <2> DEFINE u == [ZeroQueue EXCEPT !.generation = q.generation]
             T == CloseWakes(h, frees, ev)
  <2>1. ev \in EventHandles \cup {NoHandle} /\ q.generation \in 0..MaxGen
    BY <1>3, QueueFields
  <2>2. u \in QueueType /\ u.entries = <<>> /\ QueueOK(u)
    BY <2>1, QueueClosed, QueueEmpty
  <2>3. frees \in BOOLEAN /\ (frees <=> IsEvent(ev) /\ events[ev.slot].refs = 1)
    OBVIOUS
  <2> HIDE DEF frees, u
  <2>4. /\ queues' = [queues EXCEPT ![i] = u] /\ UNCHANGED <<schedVars, mutexes>>
        /\ events' = IF frees
                     THEN [events EXCEPT ![ev.slot] = ClosedEvent(@)]
                     ELSE IF IsEvent(ev)
                     THEN [events EXCEPT ![ev.slot].refs = Wrapped(@ + MaxCount)]
                     ELSE events
    BY <1>6 DEF u
  <2> HIDE DEF i, q, ev
  <2>5. threads' = [T EXCEPT ![current].rc = "NO_ERROR"]
    BY <1>1, <1>3, <1>6, CloseIs
  <2>6. /\ Wakes(T)
        /\ \A s \in Slots : /\ ~ Waits(T[s], "WAIT_QUEUE", h)
                            /\ frees => ~ Waits(T[s], "WAIT_EVENT", ev)
    BY <1>3, <2>3, CloseSends
  <2> HIDE DEF T
  <2>7. /\ ThreadsOK' /\ OneRuns'
        /\ Sound(threads', mutexes, events, nextTid', waitSerial')
        /\ Quiet
        /\ \A s \in Slots : /\ Mild(threads[s], threads'[s])
                            /\ threads'[s].state = T[s].state
                            /\ T[s].state # "RUNNING" => threads'[s] = T[s]
    BY <1>1, <1>3, <2>4, <2>5, <2>6, SomeWoken
  <2>8. \A s \in Slots : /\ ~ Waits(threads'[s], "WAIT_QUEUE", h)
                         /\ frees => ~ Waits(threads'[s], "WAIT_EVENT", ev)
    BY <2>6, <2>7 DEF Waits
  <2>9. WInv'
    BY <2>1, <2>3, <2>4, <2>7, <2>8, ReleaseKeeps
  <2>10. \A s \in Slots : ~ (/\ threads'[s].state = "WAIT_QUEUE"
                             /\ threads'[s].on = Handle("queue", i, q.generation))
    BY <1>3, <2>8 DEF Waits
  <2> QED
    BY <1>3, <1>4, <2>2, <2>4, <2>7, <2>9, <2>10, OneQueue DEF q
<1> QED
  BY <1>2, <1>5, <1>6

-----------------------------------------------------------------------------
(***************************************************************************)
(* The specification keeps the invariant                                   *)
(***************************************************************************)

\* Every call of a queue.
LEMMA QueueCallKeeps ==
  ASSUME QInv, QueueCall
  PROVE  QInv'
<1>1. ASSUME NEW name \in QueueNames, OpenQueue(name)
      PROVE  QInv'
  BY <1>1, OpenQueueKeeps
<1>2. ASSUME NEW name \in QueueNames, NEW d \in Disciplines, CreateQueue(name, d)
      PROVE  QInv'
  BY <1>2, CreateQueueKeeps
<1>3. ASSUME NEW h \in QueueHandles, CloseQueue(h)
      PROVE  QInv'
  BY <1>3, CloseQueueKeeps
<1>4. ASSUME NEW h \in QueueHandles, PurgeQueue(h)
      PROVE  QInv'
  BY <1>4, PurgeQueueKeeps
<1>5. ASSUME NEW h \in QueueHandles, BadQueue(h)
      PROVE  QInv'
  <2>1. Guest /\ QueueRefuse("ERROR") /\ "ERROR" \in Codes
    BY <1>5 DEF BadQueue, Codes
  <2> QED
    BY <2>1, RefusedQueue
<1>6. ASSUME NEW h \in QueueHandles, NEW p \in Priorities, WriteQueue(h, p)
      PROVE  QInv'
  BY <1>6, WriteQueueKeeps
<1>7. ASSUME NEW h \in QueueHandles, NEW nowait \in BOOLEAN,
             NEW ev \in EventHandles \cup {NoHandle}, NEW token \in 0..MaxToken,
             ReadQueue(h, token, nowait, ev)
      PROVE  QInv'
  <2>1. NoArgs.cell \in Cells /\ FALSE \in BOOLEAN
    BY QueueBounds
  <2> QED
    BY <1>7, <2>1, ReadOrPeekKeeps DEF ReadQueue
<1>8. ASSUME NEW h \in QueueHandles, NEW nowait \in BOOLEAN,
             NEW ev \in EventHandles \cup {NoHandle}, NEW c \in Cells,
             PeekQueue(h, c, nowait, ev)
      PROVE  QInv'
  BY <1>8, ReadOrPeekKeeps DEF PeekQueue
<1>9. ASSUME NEW c \in Cells, ClearCell(c)
      PROVE  QInv'
  BY <1>9, ClearCellKeeps
<1> QED
  BY <1>1, <1>2, <1>3, <1>4, <1>5, <1>6, <1>7, <1>8, <1>9 DEF QueueCall

\* Every step.
LEMMA QNextKeeps ==
  ASSUME QInv, [QNext]_allVars
  PROVE  QInv'
<1>1. CASE QueueCall
  BY <1>1, QueueCallKeeps
<1>2. CASE Next /\ UNCHANGED qVars /\ got' = {}
  BY <1>2, NextKeepsQueues
<1>3. CASE UNCHANGED allVars
  <2>1. UNCHANGED vars /\ UNCHANGED qVars /\ got' = got
    BY <1>3 DEF allVars
  <2> QED
    BY <2>1, NextKeepsQueues
<1> QED
  BY <1>1, <1>2, <1>3 DEF QNext

\* The invariant holds from the start on.
THEOREM QInvariance == QSpec => []QInv
<1>1. QInit => QInv
  BY InitQInv
<1>2. QInv /\ [QNext]_allVars => QInv'
  BY QNextKeeps
<1> QED
  BY <1>1, <1>2, PTL DEF QSpec

\* The types in a state of the invariant: entries are no longer than the queue.
LEMMA QTypesOf == QInv => QTypeOK
<1> SUFFICES ASSUME QInv PROVE QTypeOK
  OBVIOUS
<1> DEFINE E == UNION {[1..n -> [token : 1..MaxToken, priority : Priorities]] : n \in 0..Depth}
<1>1. \A i \in QueueSlots : queues[i].entries \in E
  <2> SUFFICES ASSUME NEW i \in QueueSlots PROVE queues[i].entries \in E
    OBVIOUS
  <2> DEFINE a == queues[i].entries
  <2>1. a \in Seq(ElementType) /\ Len(a) <= Depth /\ Len(a) \in Nat
    BY QueueFields DEF QInv, QTyped, QueueOK
  <2> HIDE DEF a
  <2>2. a \in [1..Len(a) -> ElementType] /\ Len(a) \in 0..Depth
    BY <2>1, QueueBounds
  <2>3. a \in E
    BY <2>2 DEF ElementType
  <2> QED
    BY <2>3 DEF a
<1> HIDE DEF E
<1>2. queues \in [QueueSlots ->
          [used : BOOLEAN, generation : 0..MaxGen, refs : 0..MaxCount,
           discipline : {"FIFO", "LIFO", "PRIORITY"}, nextToken : 0..MaxToken,
           notify : EventHandles \cup {NoHandle}, name : QueueNames \cup {NoName},
           entries : E]]
  BY <1>1 DEF QInv, QTyped, QueueType
<1> QED
  BY <1>2 DEF QInv, QTyped, QTypeOK, E

\* And the rest of it.
LEMMA QueuesOf == QInv => QueuesSound
<1> SUFFICES ASSUME QInv PROVE QueuesSound
  OBVIOUS
<1>1. InDiscipline
  BY DEF QInv, QueueOK, Ordered, InDiscipline
<1>2. QueueWaitersBlocked
  <2> SUFFICES ASSUME NEW s \in Slots, threads[s].state = "WAIT_QUEUE"
               PROVE  /\ IsQueue(threads[s].on)
                      /\ queues[threads[s].on.slot].entries = <<>>
    BY DEF QueueWaitersBlocked
  <2>1. PICK i \in QueueSlots : /\ threads[s].on = Handle("queue", i, queues[i].generation)
                                /\ queues[i].used /\ queues[i].entries = <<>>
    BY DEF QInv, OnQueueOf
  <2>2. /\ threads[s].on.kind = "queue" /\ threads[s].on.slot = i
        /\ threads[s].on.generation = queues[i].generation
    BY <2>1 DEF Handle
  <2> QED
    BY <2>1, <2>2 DEF IsQueue
<1> QED
  BY <1>1, <1>2, QTypesOf DEF QueuesSound

\* Whatever guests write, read by token, peek, purge and close: queues stay within
\* their bounds, their elements in the order of the discipline with tokens that
\* were given out once, and no thread is parked beside an element
\* (queue_wake_readers, dispatch_queue).
THEOREM QueuesKept == QSpec => []QueuesSound
  BY QueuesOf, QInvariance, PTL

\* Queues post, hold and destroy events, and no wait for an event, a mutex or a
\* thread is left without what it waits for (DosWriteQueue's post, the last
\* DosCloseQueue's release).
THEOREM WaitsKept == QSpec => []WaitersBlocked
<1>1. QInv => WaitersBlocked
  BY SyncPromises DEF QInv
<1> QED
  BY <1>1, QInvariance, PTL

\* The semaphores and the scheduler keep their other promises with queues.
THEOREM SyncWithQueues == QSpec => [](TypeOK /\ OneRuns /\ TidsUnique /\ OwnerLives)
<1>1. QInv => TypeOK /\ OneRuns /\ TidsUnique /\ OwnerLives
  BY SyncPromises DEF QInv
<1> QED
  BY <1>1, QInvariance, PTL

-----------------------------------------------------------------------------
(***************************************************************************)
(* Elements are handed out once, and in turn                               *)
(***************************************************************************)

\* Nobody that is parked at a queue is woken.
NoneServed ==
    \A s \in Slots : threads[s].state = "WAIT_QUEUE" => threads'[s].state # "RUNNABLE"

\* Then nobody is woken out of turn.
LEMMA NoneOvertaken == NoneServed => ServedInTurnStep
BY DEF NoneServed, ServedInTurnStep

\* Queues stay, and nothing is handed out.
LEMMA NothingTaken ==
  ASSUME queues' = queues, got' = {}
  PROVE  OneConsumerStep
BY DEF OneConsumerStep

\* Nobody is woken by a call that answers.
LEMMA AnswerServesNone ==
  ASSUME WInv, Guest, NEW code, Answer(code)
  PROVE  NoneServed
<1>1. Aside
  BY AnswerAside
<1> QED
  BY <1>1 DEF Aside, Elsewhere, NoneServed

\* Nor by one that parks its caller.
LEMMA ParkServesNone ==
  ASSUME WInv, Guest, NEW h, Block("WAIT_QUEUE", h, "indefinite")
  PROVE  NoneServed
<1>1. current \in Slots /\ threads[current].state = "RUNNING"
      /\ threads \in [Slots -> ThreadType]
  BY DEF WInv, TypeOK, OneRuns
<1>2. \A s \in Slots \ {current} : threads'[s] = threads[s]
  BY <1>1 DEF Block, SwitchTo
<1> QED
  BY <1>1, <1>2 DEF NoneServed

\* The call is refused.
LEMMA RefusedDelivers ==
  ASSUME QInv, Guest, NEW code, QueueRefuse(code)
  PROVE  OneConsumerStep /\ ServedInTurnStep
<1>1. WInv /\ Answer(code) /\ queues' = queues /\ got' = {}
  BY DEF QInv, QueueRefuse, qVars, Refuse
<1> QED
  BY <1>1, AnswerServesNone, NoneOvertaken, NothingTaken

\* One queue changes.
LEMMA OneTaken ==
  ASSUME QInv, NEW i \in QueueSlots, NEW u, queues' = [queues EXCEPT ![i] = u],
         SameQueue(i) =>
            \/ /\ (Tokens(queues[i]) \cup Written(i)) \ Tokens(u) = {d[2] : d \in got'}
               /\ Cardinality({d[2] : d \in got'}) = Cardinality(got')
            \/ Written(i) = {} /\ u.entries = <<>> /\ got' = {},
         got' # {} => SameQueue(i) /\ u # queues[i]
  PROVE  OneConsumerStep
<1>1. queues'[i] = u /\ \A j \in QueueSlots \ {i} : queues'[j] = queues[j]
  BY DEF QInv, QTyped
<1>2. ASSUME NEW j \in QueueSlots, SameQueue(j), queues'[j] # queues[j]
      PROVE  LET gone == (Tokens(queues[j]) \cup Written(j)) \ Tokens(queues'[j])
             IN  \/ gone = {d[2] : d \in got'} /\ Cardinality(gone) = Cardinality(got')
                 \/ Written(j) = {} /\ queues'[j].entries = <<>> /\ got' = {}
  <2>1. j = i
    BY <1>1, <1>2
  <2> QED
    BY <1>1, <1>2, <2>1
<1>3. got' # {} => \E j \in QueueSlots : SameQueue(j) /\ queues'[j] # queues[j]
  BY <1>1
<1> QED
  BY <1>2, <1>3 DEF OneConsumerStep

\* It keeps its elements.
LEMMA KeptElements ==
  ASSUME QInv, NEW i \in QueueSlots, NEW u, queues' = [queues EXCEPT ![i] = u],
         SameQueue(i) => u.entries = queues[i].entries /\ u.nextToken = queues[i].nextToken,
         got' = {}
  PROVE  OneConsumerStep
<1>1. queues'[i] = u
  BY DEF QInv, QTyped
<1>2. {d[2] : d \in got'} = {} /\ Cardinality({d[2] : d \in got'}) = Cardinality(got')
  BY Zenon
<1>3. SameQueue(i) => (Tokens(queues[i]) \cup Written(i)) \ Tokens(u) = {}
  BY <1>1 DEF Tokens, Written
<1> QED
  BY <1>2, <1>3, OneTaken

\* DosCreateQueue.
LEMMA CreateQueueDelivers ==
  ASSUME QInv, NEW name, NEW discipline, CreateQueue(name, discipline)
  PROVE  OneConsumerStep /\ ServedInTurnStep
<1>1. Guest /\ WInv
  BY DEF CreateQueue, QInv
<1>2. CASE QueueRefuse("ERROR")
  BY <1>1, <1>2, RefusedDelivers
<1>3. CASE ~ QueueRefuse("ERROR")
  <2>1. PICK i \in QueueSlots : FirstFreeQueue(i) /\ \E u : queues' = [queues EXCEPT ![i] = u]
    BY <1>3 DEF CreateQueue
  <2>2. PICK u : queues' = [queues EXCEPT ![i] = u]
    BY <2>1
  <2>3. Answer("NO_ERROR") /\ got' = {}
    BY <1>3 DEF CreateQueue, QueueAnswer
  <2>4. ~ SameQueue(i)
    BY <2>1 DEF FirstFreeQueue, SameQueue
  <2> QED
    BY <1>1, <2>2, <2>3, <2>4, KeptElements, AnswerServesNone, NoneOvertaken
<1> QED
  BY <1>2, <1>3

\* DosOpenQueue.
LEMMA OpenQueueDelivers ==
  ASSUME QInv, NEW name, OpenQueue(name)
  PROVE  OneConsumerStep /\ ServedInTurnStep
<1>1. Guest /\ WInv
  BY DEF OpenQueue, QInv
<1>2. CASE QueueRefuse("ERROR")
  BY <1>1, <1>2, RefusedDelivers
<1>3. CASE ~ QueueRefuse("ERROR")
  <2>1. PICK i \in QueueNamed(name) :
           /\ queues[i].refs # MaxCount
           /\ queues' = [queues EXCEPT ![i].refs = @ + 1]
           /\ QueueAnswer("NO_ERROR") /\ got' = {}
    BY <1>3 DEF OpenQueue
  <2> DEFINE u == [queues[i] EXCEPT !.refs = queues[i].refs + 1]
  <2>2. i \in QueueSlots /\ queues[i] \in QueueType
    BY <2>1 DEF QueueNamed, QInv, QTyped
  <2>3. queues[i].refs + 1 \in 0..MaxCount
    BY <2>1, <2>2, QueueFields, QueueBounds
  <2>4. u.entries = queues[i].entries /\ u.nextToken = queues[i].nextToken
    BY <2>2, <2>3, QueueRefs
  <2>5. queues' = [queues EXCEPT ![i] = u]
    BY <2>1
  <2> HIDE DEF u
  <2>6. Answer("NO_ERROR")
    BY <2>1 DEF QueueAnswer
  <2> QED
    BY <1>1, <2>1, <2>2, <2>4, <2>5, <2>6, KeptElements, AnswerServesNone, NoneOvertaken
<1> QED
  BY <1>2, <1>3

\* DosPurgeQueue.
LEMMA PurgeQueueDelivers ==
  ASSUME QInv, NEW h \in QueueHandles, PurgeQueue(h)
  PROVE  OneConsumerStep /\ ServedInTurnStep
<1>1. /\ Guest /\ IsQueue(h) /\ WInv
      /\ queues' = [queues EXCEPT ![h.slot].entries = <<>>]
      /\ Answer("NO_ERROR") /\ got' = {}
  BY DEF PurgeQueue, OnQueue, QueueAnswer, QInv
<1> DEFINE i == h.slot
           u == [queues[i] EXCEPT !.entries = <<>>]
<1>2. i \in QueueSlots /\ queues[i] \in QueueType
  BY <1>1, QueueOf
<1>3. u.entries = <<>> /\ u.nextToken = queues[i].nextToken
  <2>1. <<>> \in Seq(ElementType)
    OBVIOUS
  <2> QED
    BY <1>2, <2>1, QueueEntries
<1>4. queues' = [queues EXCEPT ![i] = u]
  BY <1>1
<1> HIDE DEF u, i
<1>5. Written(i) = {}
  <2>1. queues'[i] = u
    BY <1>2, <1>4 DEF QInv, QTyped
  <2> QED
    BY <1>3, <2>1 DEF Written
<1> QED
  BY <1>1, <1>2, <1>3, <1>4, <1>5, OneTaken, AnswerServesNone, NoneOvertaken

\* The guest clears a cell.
LEMMA ClearCellDelivers ==
  ASSUME QInv, NEW c, ClearCell(c)
  PROVE  OneConsumerStep /\ ServedInTurnStep
<1>1. threads' = threads /\ queues' = queues /\ got' = {}
  BY DEF ClearCell, vars
<1> QED
  BY <1>1, NothingTaken DEF ServedInTurnStep

\* A step of the scheduler and the semaphores.
LEMMA NextDelivers ==
  ASSUME QInv, Next, UNCHANGED qVars, got' = {}
  PROVE  OneConsumerStep /\ ServedInTurnStep
<1>1. Aside
  BY NextAside DEF QInv
<1>2. NoneServed
  BY <1>1 DEF Aside, Elsewhere, NoneServed
<1> QED
  BY <1>2, NoneOvertaken, NothingTaken DEF qVars

\* One token for each element handed out.
LEMMA OneEach ==
  ASSUME NEW G, G \subseteq Slots \X (1..MaxToken), \A x, y \in G : x[2] = y[2] => x = y
  PROVE  Cardinality({x[2] : x \in G}) = Cardinality(G)
<1> DEFINE S == {x[2] : x \in G}
           f == [x \in G |-> x[2]]
<1>1. IsFiniteSet(Slots) /\ IsFiniteSet(1..MaxToken)
  <2>1. 1 \in Int /\ MaxToken \in Int
    BY QueueBounds
  <2> QED
    BY <2>1, SlotsFinite, FS_Interval
<1>2. IsFiniteSet(G)
  BY <1>1, FS_Product, FS_Subset
<1>3. f \in Bijection(G, S)
  <2>1. f \in [G -> S] /\ \A x \in G : f[x] = x[2]
    OBVIOUS
  <2>2. \A x, y \in G : f[x] = f[y] => x = y
    BY <2>1
  <2>3. \A t \in S : \E x \in G : f[x] = t
    BY <2>1
  <2> HIDE DEF f, S
  <2> QED
    BY <2>1, <2>2, <2>3 DEF Bijection, Injection, Surjection, IsInjective
<1>4. ExistsBijection(G, S)
  BY <1>3 DEF ExistsBijection
<1> HIDE DEF S
<1>5. Cardinality(S) = Cardinality(G)
  BY <1>2, <1>4, FS_Bijection
<1> QED
  BY <1>5 DEF S

\* A read or peek hands out what it takes.
LEMMA TakenIsGiven ==
  ASSUME NEW q \in QueueType, QueueOK(q), NEW w, NEW s, NEW v, v.entries = q.entries, v.got = {},
         Took(v, w, s)
  PROVE  LET gone == Tok(q.entries) \ Tok(w.entries)
         IN  /\ gone = {d[2] : d \in w.got}
             /\ Cardinality({d[2] : d \in w.got}) = Cardinality(w.got)
             /\ w.got # {} => w.entries # q.entries
<1>1. CASE w.entries = q.entries /\ w.got = {}
  <2>1. {d[2] : d \in w.got} = {} /\ Cardinality({d[2] : d \in w.got}) = Cardinality(w.got)
    BY <1>1, Zenon
  <2> QED
    BY <1>1, <2>1
<1>2. CASE \E i \in 1..Len(q.entries) : /\ w.entries = RemoveAt(q.entries, i)
                                        /\ w.got = {<<s, q.entries[i].token>>}
  <2>1. PICK i \in 1..Len(q.entries) : /\ w.entries = RemoveAt(q.entries, i)
                                       /\ w.got = {<<s, q.entries[i].token>>}
    BY <1>2
  <2> DEFINE k == q.entries[i].token
  <2>2. q.entries \in Seq(ElementType) /\ Len(q.entries) \in Nat /\ Ordered(q.discipline, q.entries)
    BY QueueFields DEF QueueOK
  <2>3. /\ Len(RemoveAt(q.entries, i)) = Len(q.entries) - 1
        /\ Tok(RemoveAt(q.entries, i)) = Tok(q.entries) \ {k}
    BY <2>2, TakenOut
  <2>4. k \in Tok(q.entries)
    BY DEF Tok
  <2>5. w.got = {<<s, k>>}
    BY <2>1
  <2> HIDE DEF k
  <2>6. {d[2] : d \in w.got} = {k}
    <3>1. \A d \in w.got : d = <<s, k>> /\ d[2] = k
      BY <2>5
    <3>2. <<s, k>> \in w.got /\ <<s, k>>[2] = k
      BY <2>5
    <3> QED
      BY <3>1, <3>2
  <2>7. Cardinality({k}) = 1 /\ Cardinality({<<s, k>>}) = 1
    BY FS_Singleton
  <2>8. w.entries # q.entries
    BY <2>1, <2>2, <2>3
  <2>9. Cardinality({d[2] : d \in w.got}) = Cardinality(w.got)
    BY <2>5, <2>6, <2>7
  <2> QED
    BY <2>1, <2>3, <2>4, <2>6, <2>8, <2>9
<1>3. Took(v, w, s) => \/ w.entries = q.entries /\ w.got = {}
                       \/ \E i \in 1..Len(q.entries) :
                             /\ w.entries = RemoveAt(q.entries, i)
                             /\ w.got = {<<s, q.entries[i].token>>}
  BY DEF Took
<1> QED
  BY <1>1, <1>2, <1>3

\* DosReadQueue and DosPeekQueue.
LEMMA ReadOrPeekDelivers ==
  ASSUME QInv, NEW h \in QueueHandles, NEW token, NEW peek \in BOOLEAN, NEW cell \in Cells,
         NEW nowait \in BOOLEAN, NEW ev \in EventHandles \cup {NoHandle},
         ReadOrPeek(h, token, peek, cell, nowait, ev)
  PROVE  OneConsumerStep /\ ServedInTurnStep
<1> DEFINE i == h.slot
           q == queues[i]
           names == nowait /\ ev # NoHandle
           v == World(q.entries)
           w == Deliver(v, current, token, peek, cell)
           r == IF names THEN Notified(q, ev) ELSE q
           u == [r EXCEPT !.entries = w.entries]
<1>1. Guest /\ IsQueue(h) /\ WInv
  BY DEF ReadOrPeek, OnQueue, QInv
<1>2. i \in QueueSlots /\ q \in QueueType /\ QueueOK(q) /\ q.used
      /\ q.entries \in Seq(ElementType) /\ current \in Slots
  BY <1>1, QueueOf, QueueFields DEF QInv, WInv, TypeOK
<1>3. \/ QueueRefuse("ERROR")
      \/ queues' = [queues EXCEPT ![i] = u] /\ got' = w.got /\ Answer(w.code)
      \/ Block("WAIT_QUEUE", h, "indefinite") /\ queues' = queues /\ got' = {}
  BY DEF ReadOrPeek
<1>4. CASE QueueRefuse("ERROR")
  BY <1>1, <1>4, RefusedDelivers
<1>5. CASE queues' = [queues EXCEPT ![i] = u] /\ got' = w.got /\ Answer(w.code)
  <2>1. v \in WorldType /\ v.entries = q.entries /\ v.got = {}
    BY <1>2, WorldIs
  <2>2. w \in WorldType /\ Took(v, w, current)
    BY <1>2, <2>1, Delivered
  <2>3. r \in {q} \cup {Notified(q, e) : e \in EventHandles}
    OBVIOUS
  <2> HIDE DEF v, w, r
  <2>4. /\ u.used = q.used /\ u.generation = q.generation
        /\ u.nextToken = q.nextToken /\ u.entries = w.entries
    <3>1. r \in QueueType /\ r.used = q.used /\ r.generation = q.generation
          /\ r.nextToken = q.nextToken
      <4>1. CASE r = q
        BY <1>2, <4>1
      <4>2. CASE r # q
        <5>1. PICK e \in EventHandles : r = Notified(q, e)
          BY <2>3, <4>2
        <5> QED
          BY <1>2, <5>1, QueueNotify
      <4> QED
        BY <4>1, <4>2
    <3>2. w.entries \in Seq(ElementType)
      BY <2>2 DEF WorldType
    <3>3. /\ u.used = r.used /\ u.generation = r.generation
          /\ u.nextToken = r.nextToken /\ u.entries = w.entries
      BY <3>1, <3>2, QueueEntries
    <3> QED
      BY <3>1, <3>3
  <2> HIDE DEF i, q
  <2>5. queues' = [queues EXCEPT ![i] = u] /\ got' = w.got /\ Answer(w.code)
    BY <1>5
  <2> HIDE DEF u
  <2>6. queues'[i] = u
    BY <1>2, <2>5 DEF QInv, QTyped
  <2>7. SameQueue(i) /\ Written(i) = {}
    BY <1>2, <2>4, <2>6 DEF SameQueue, Written, q
  <2>8. /\ Tok(q.entries) \ Tok(w.entries) = {d[2] : d \in w.got}
        /\ Cardinality({d[2] : d \in w.got}) = Cardinality(w.got)
        /\ w.got # {} => w.entries # q.entries
    BY <1>2, <2>1, <2>2, TakenIsGiven
  <2>9. Tokens(queues[i]) = Tok(q.entries) /\ Tokens(u) = Tok(w.entries)
    BY <2>4 DEF Tokens, Tok, q
  <2>10. OneConsumerStep
    <3>1. (Tokens(queues[i]) \cup Written(i)) \ Tokens(u) = {d[2] : d \in got'}
          /\ Cardinality({d[2] : d \in got'}) = Cardinality(got')
      BY <2>5, <2>7, <2>8, <2>9
    <3>2. got' # {} => u # queues[i]
      BY <2>4, <2>5, <2>8 DEF q
    <3> QED
      BY <1>2, <2>5, <2>7, <3>1, <3>2, OneTaken
  <2> QED
    BY <1>1, <2>5, <2>10, AnswerServesNone, NoneOvertaken
<1>6. CASE Block("WAIT_QUEUE", h, "indefinite") /\ queues' = queues /\ got' = {}
  BY <1>1, <1>6, ParkServesNone, NoneOvertaken, NothingTaken
<1> QED
  BY <1>3, <1>4, <1>5, <1>6

\* DosWriteQueue.
LEMMA WriteQueueDelivers ==
  ASSUME QInv, NEW h \in QueueHandles, NEW p \in Priorities, WriteQueue(h, p)
  PROVE  OneConsumerStep /\ ServedInTurnStep
<1> DEFINE i == h.slot
           q == queues[i]
           v == WriteWorld(q, p)
           w == WakeReaders(v, h)
           n == (q.nextToken + 1) % (MaxToken + 1)
           u == [q EXCEPT !.entries = w.entries, !.nextToken = n]
<1>1. Guest
  BY DEF WriteQueue, OnQueue
<1>2. CASE QueueRefuse("ERROR")
  BY <1>1, <1>2, RefusedDelivers
<1>3. CASE ~ QueueRefuse("ERROR")
  <2>1. /\ IsQueue(h) /\ q.nextToken # 0 /\ UNCHANGED schedVars
        /\ queues' = [queues EXCEPT ![i] = u]
        /\ threads' = [w.threads EXCEPT ![current].rc = "NO_ERROR"]
        /\ got' = w.got
    BY <1>3, WriteIs
  <2>2. /\ Tok(v.entries) = Tok(q.entries) \cup {q.nextToken}
        /\ w \in WorldType /\ Shared(q.discipline, v, w)
        /\ Wakes(w.threads) /\ InTurn(v, w, h)
        /\ \A s \in Slots : threads[s].state = "WAIT_QUEUE" => v.threads[s] = threads[s]
    BY <1>3, WriteServes
  <2>3. i \in QueueSlots /\ q.used /\ q \in QueueType /\ WInv
        /\ threads \in [Slots -> ThreadType]
    BY <2>1, QueueOf DEF QInv, WInv, TypeOK
  <2> HIDE DEF i, q, v, w
  <2>4. /\ u.used = q.used /\ u.generation = q.generation
        /\ u.nextToken = n /\ u.entries = w.entries
    BY <2>3 DEF QueueType
  <2>5. n # q.nextToken
    <3>1. q.nextToken \in Nat /\ q.nextToken <= MaxToken /\ MaxToken \in Nat
      BY <2>3, QueueFields, QueueBounds
    <3>2. CASE q.nextToken = MaxToken
      <4>1. \A b \in Nat \ {0} : b % b = 0
        OBVIOUS
      <4>2. MaxToken + 1 \in Nat \ {0}
        BY <3>1
      <4>3. n = 0
        BY <3>2, <4>1, <4>2
      <4> HIDE DEF n
      <4> QED
        BY <2>1, <4>3
    <3>3. CASE q.nextToken # MaxToken
      <4>1. \A b, c \in Nat : b < c => b % c = b
        OBVIOUS
      <4>2. q.nextToken + 1 \in Nat /\ MaxToken + 1 \in Nat /\ q.nextToken + 1 < MaxToken + 1
        BY <3>1, <3>3
      <4>3. n = q.nextToken + 1
        BY <4>1, <4>2
      <4> HIDE DEF n
      <4> QED
        BY <3>1, <4>3
    <3> QED
      BY <3>2, <3>3
  <2> HIDE DEF n
  <2>6. queues' = [queues EXCEPT ![i] = u]
    BY <2>1 DEF n
  <2> HIDE DEF u
  <2>7. queues'[i] = u
    BY <2>3, <2>6 DEF QInv, QTyped
  <2>8. SameQueue(i) /\ Written(i) = {q.nextToken} /\ u # queues[i]
    BY <2>3, <2>4, <2>5, <2>7 DEF SameQueue, Written, q
  <2>9. Tokens(queues[i]) = Tok(q.entries) /\ Tokens(u) = Tok(w.entries)
    BY <2>4 DEF Tokens, Tok, q
  <2>10. (Tokens(queues[i]) \cup Written(i)) \ Tokens(u) = {d[2] : d \in got'}
    <3>1. /\ Tok(w.entries) \cup GivenOut(w) = Tok(v.entries)
          /\ Tok(w.entries) \cap GivenOut(w) = {}
      BY <2>2 DEF Shared
    <3>2. GivenOut(w) = {d[2] : d \in got'}
      BY <2>1 DEF GivenOut
    <3> QED
      BY <2>2, <2>8, <2>9, <3>1, <3>2
  <2>11. Cardinality({d[2] : d \in got'}) = Cardinality(got')
    <3>1. w.got \subseteq Slots \X (1..MaxToken)
      BY <2>2 DEF WorldType
    <3>2. \A x, y \in w.got : x[2] = y[2] => x = y
      BY <2>2 DEF Shared
    <3>3. Cardinality({x[2] : x \in w.got}) = Cardinality(w.got)
      BY <3>1, <3>2, OneEach
    <3> QED
      BY <2>1, <3>3
  <2>12. OneConsumerStep
    BY <2>3, <2>6, <2>8, <2>10, <2>11, OneTaken
  <2>13. \A s \in Slots : threads'[s].state = w.threads[s].state
    BY <1>1, <2>1, <2>2, <2>3, SomeWoken
  <2>14. ServedInTurnStep
    <3> SUFFICES ASSUME NEW s \in Slots, NEW r \in Slots,
                        threads[s].state = "WAIT_QUEUE", threads'[s].state = "RUNNABLE",
                        threads[r].state = "WAIT_QUEUE", threads'[r].state = "WAIT_QUEUE",
                        threads[s].on = threads[r].on
                 PROVE  threads[s].order < threads[r].order
      BY DEF ServedInTurnStep
    <3>1. v.threads[s] = threads[s] /\ v.threads[r] = threads[r]
      BY <2>2
    <3>2. w.threads[s].state = "RUNNABLE" /\ w.threads[r].state = "WAIT_QUEUE"
      BY <2>13
    <3>3. Reader(v.threads[s], h)
      BY <2>2, <3>1, <3>2 DEF InTurn
    <3>4. Reader(v.threads[r], h)
      BY <3>1, <3>3 DEF Reader, Waits
    <3>5. w.threads[r] = v.threads[r]
      <4> SUFFICES ASSUME w.threads[r] # v.threads[r] PROVE FALSE
        OBVIOUS
      <4>1. PICK code \in Codes : w.threads[r] = Ready(v.threads[r], code)
        BY <2>2 DEF InTurn
      <4>2. Ready(threads[r], code).state = "RUNNABLE"
        BY <2>3, ReadyFields
      <4> QED
        BY <3>1, <3>2, <4>1, <4>2
    <3>6. Reader(w.threads[r], h) /\ ~ Reader(w.threads[s], h)
      BY <3>2, <3>4, <3>5 DEF Reader, Waits
    <3> QED
      BY <2>2, <3>1, <3>3, <3>6 DEF InTurn
  <2> QED
    BY <2>12, <2>14
<1> QED
  BY <1>2, <1>3

\* DosCloseQueue.
LEMMA CloseQueueDelivers ==
  ASSUME QInv, NEW h \in QueueHandles, CloseQueue(h)
  PROVE  OneConsumerStep /\ ServedInTurnStep
<1> DEFINE i == h.slot
           q == queues[i]
           ev == q.notify
           frees == IsEvent(ev) /\ events[ev.slot].refs = 1
           T == CloseWakes(h, frees, ev)
<1>1. Guest /\ IsQueue(h) /\ got' = {}
  BY DEF CloseQueue, OnQueue
<1>2. \/ /\ q.refs > 1
         /\ queues' = [queues EXCEPT ![i].refs = @ - 1]
         /\ QueueAnswer("NO_ERROR")
      \/ /\ queues' = [queues EXCEPT ![i] = [ZeroQueue EXCEPT !.generation = q.generation]]
         /\ threads' = [s \in Slots |->
                          IF s \in LastWaiters(h, frees, ev) THEN Ready(threads[s], "ERROR")
                          ELSE IF s = current THEN [threads[s] EXCEPT !.rc = "NO_ERROR"]
                          ELSE threads[s]]
         /\ UNCHANGED schedVars
  BY DEF CloseQueue
<1>3. i \in QueueSlots /\ q \in QueueType /\ WInv
  BY <1>1, QueueOf DEF QInv
<1>4. CASE /\ q.refs > 1
           /\ queues' = [queues EXCEPT ![i].refs = @ - 1]
           /\ QueueAnswer("NO_ERROR")
  <2> DEFINE u == [q EXCEPT !.refs = q.refs - 1]
  <2>1. q.refs - 1 \in 0..MaxCount
    BY <1>3, <1>4, QueueFields, QueueBounds
  <2>2. queues' = [queues EXCEPT ![i] = u]
    BY <1>4
  <2>3. u.entries = q.entries /\ u.nextToken = q.nextToken
    BY <1>3, <2>1, QueueRefs
  <2> HIDE DEF u, i
  <2>4. Answer("NO_ERROR")
    BY <1>4 DEF QueueAnswer
  <2> QED
    BY <1>1, <1>3, <2>2, <2>3, <2>4, KeptElements, AnswerServesNone, NoneOvertaken
<1>5. CASE /\ queues' = [queues EXCEPT ![i] = [ZeroQueue EXCEPT !.generation = q.generation]]
           /\ threads' = [s \in Slots |->
                            IF s \in LastWaiters(h, frees, ev) THEN Ready(threads[s], "ERROR")
                            ELSE IF s = current THEN [threads[s] EXCEPT !.rc = "NO_ERROR"]
                            ELSE threads[s]]
           /\ UNCHANGED schedVars
  <2> DEFINE u == [ZeroQueue EXCEPT !.generation = q.generation]
  <2>1. q.generation \in 0..MaxGen
    BY <1>3, QueueFields
  <2>2. ~ u.used
    BY <2>1, QueueClosed
  <2>3. queues' = [queues EXCEPT ![i] = u]
    BY <1>5
  <2>4. threads' = [T EXCEPT ![current].rc = "NO_ERROR"]
    BY <1>1, <1>3, <1>5, CloseIs
  <2>5. frees \in BOOLEAN
    OBVIOUS
  <2> HIDE DEF u, i, q, ev, frees
  <2>6. /\ Wakes(T)
        /\ \A s \in Slots : /\ ~ Waits(T[s], "WAIT_QUEUE", h)
                            /\ \/ T[s] = threads[s]
                               \/ Waits(threads[s], "WAIT_QUEUE", h)
                               \/ threads[s].state = "WAIT_EVENT"
    BY <1>3, <2>5, CloseSends
  <2> HIDE DEF T
  <2>7. \A s \in Slots : /\ threads'[s].state = T[s].state
                         /\ T[s].state # "RUNNING" => threads'[s] = T[s]
    BY <1>1, <1>3, <1>5, <2>4, <2>6, SomeWoken
  <2>8. OneConsumerStep
    <3>1. queues'[i] = u
      BY <1>3, <2>3 DEF QInv, QTyped
    <3>2. ~ SameQueue(i)
      BY <2>2, <3>1 DEF SameQueue
    <3> QED
      BY <1>1, <1>3, <2>3, <3>2, KeptElements
  <2>9. ServedInTurnStep
    <3> SUFFICES ASSUME NEW s \in Slots, NEW r \in Slots,
                        threads[s].state = "WAIT_QUEUE", threads'[s].state = "RUNNABLE",
                        threads[r].state = "WAIT_QUEUE", threads'[r].state = "WAIT_QUEUE",
                        threads[s].on = threads[r].on
                 PROVE  FALSE
      BY DEF ServedInTurnStep
    <3>1. T[s] # threads[s]
      BY <2>7
    <3>2. threads[r].on = h
      BY <2>6, <3>1 DEF Waits
    <3>3. T[r].state = "WAIT_QUEUE"
      BY <2>7
    <3>4. T[r] # threads[r]
      BY <2>6, <3>2 DEF Waits
    <3>5. PICK code \in Codes : T[r] = Ready(threads[r], code)
      BY <2>6, <3>4 DEF Wakes
    <3>6. threads[r] \in ThreadType
      BY <1>3 DEF WInv, TypeOK
    <3> QED
      BY <3>3, <3>5, <3>6, ReadyFields
  <2> QED
    BY <2>8, <2>9
<1> QED
  BY <1>2, <1>4, <1>5

\* Every call of a queue.
LEMMA QueueCallDelivers ==
  ASSUME QInv, QueueCall
  PROVE  OneConsumerStep /\ ServedInTurnStep
<1>1. ASSUME NEW name \in QueueNames, OpenQueue(name)
      PROVE  OneConsumerStep /\ ServedInTurnStep
  BY <1>1, OpenQueueDelivers
<1>2. ASSUME NEW name \in QueueNames, NEW d \in Disciplines, CreateQueue(name, d)
      PROVE  OneConsumerStep /\ ServedInTurnStep
  BY <1>2, CreateQueueDelivers
<1>3. ASSUME NEW h \in QueueHandles, CloseQueue(h)
      PROVE  OneConsumerStep /\ ServedInTurnStep
  BY <1>3, CloseQueueDelivers
<1>4. ASSUME NEW h \in QueueHandles, PurgeQueue(h)
      PROVE  OneConsumerStep /\ ServedInTurnStep
  BY <1>4, PurgeQueueDelivers
<1>5. ASSUME NEW h \in QueueHandles, BadQueue(h)
      PROVE  OneConsumerStep /\ ServedInTurnStep
  BY <1>5, RefusedDelivers DEF BadQueue
<1>6. ASSUME NEW h \in QueueHandles, NEW p \in Priorities, WriteQueue(h, p)
      PROVE  OneConsumerStep /\ ServedInTurnStep
  BY <1>6, WriteQueueDelivers
<1>7. ASSUME NEW h \in QueueHandles, NEW nowait \in BOOLEAN,
             NEW ev \in EventHandles \cup {NoHandle}, NEW token \in 0..MaxToken,
             ReadQueue(h, token, nowait, ev)
      PROVE  OneConsumerStep /\ ServedInTurnStep
  <2>1. NoArgs.cell \in Cells /\ FALSE \in BOOLEAN
    BY QueueBounds
  <2> QED
    BY <1>7, <2>1, ReadOrPeekDelivers DEF ReadQueue
<1>8. ASSUME NEW h \in QueueHandles, NEW nowait \in BOOLEAN,
             NEW ev \in EventHandles \cup {NoHandle}, NEW c \in Cells,
             PeekQueue(h, c, nowait, ev)
      PROVE  OneConsumerStep /\ ServedInTurnStep
  BY <1>8, ReadOrPeekDelivers DEF PeekQueue
<1>9. ASSUME NEW c \in Cells, ClearCell(c)
      PROVE  OneConsumerStep /\ ServedInTurnStep
  BY <1>9, ClearCellDelivers
<1> QED
  BY <1>1, <1>2, <1>3, <1>4, <1>5, <1>6, <1>7, <1>8, <1>9 DEF QueueCall

\* Every step.
LEMMA QNextDelivers ==
  QInv /\ [QNext]_allVars => [OneConsumerStep /\ ServedInTurnStep]_allVars
<1>1. QInv /\ QNext => OneConsumerStep /\ ServedInTurnStep
  BY QueueCallDelivers, NextDelivers DEF QNext
<1> QED
  BY <1>1

\* One consuming reader per element, and readers in the order they came: an
\* element that leaves a queue, and not by a purge, was returned to exactly one
\* thread, and a parked reader that is served leaves none waiting at that queue
\* that came before it (queue_deliver, queue_wake_readers).
THEOREM DeliveredInTurn == QSpec => Delivery
<1>1. QInv /\ [QNext]_allVars => [OneConsumerStep /\ ServedInTurnStep]_allVars
  BY QNextDelivers
<1> QED
  BY <1>1, QInvariance, PTL DEF QSpec, Delivery
=============================================================================
