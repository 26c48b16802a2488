--------------------------- MODULE Os2QueueProofs ---------------------------
(***************************************************************************)
(* Proofs about Os2Queue, for any number of threads, processes, queues and *)
(* elements.                                                               *)
(*                                                                         *)
(* The invariant says of each table slot, in Sound, what its object looks  *)
(* like, and of each thread, in Coming, what it relies on when it comes    *)
(* back to the lock.  Most calls change one live queue and nothing that a  *)
(* waiting reader can see of it: OneQueueChanged covers them all.          *)
(*                                                                         *)
(* RInv adds what makes a list of elements a faithful picture of the set   *)
(* that QueueService keeps, and each step is then one of the service.      *)
(***************************************************************************)
EXTENDS Os2Queue, FiniteSetTheorems, SequenceTheorems,
        WellFoundedInduction, TLAPS

\* Elements among the first w written.
Accepted(w) == [id : 1..w, priority : Priorities]

\* A queue object when the serial number is s and w elements were written.
Sound(q, s, w) ==
    /\ q \in QueueObject
    /\ q.handle <= s
    /\ q.entries \in Seq(Accepted(w)) /\ Len(q.entries) <= Depth
    /\ q.used = 0 => q = Free
    /\ q.used # 0 => q.handle # 0 /\ q.event # "none" /\ q.owner \in Processes
    /\ q.entries # <<>> => q.event = "set"
    /\ q.used = 2 => q.event = "set" /\ q.waiters > 0
    /\ q.event = "set" /\ q.used = 1 /\ ~BackendMayFail => q.entries # <<>>

\* A thread that has left the lock comes back to a queue its process owns,
\* if that queue is still open; its wait fails only if the backend may.
Coming(t) ==
    /\ readers[t].woken = "FAILED" => BackendMayFail
    /\ readers[t].at # "outside" =>
          /\ readers[t].slot \in Slots /\ readers[t].handle \in 1..serial
          /\ \A i \in Slots : Holds(i, readers[t].handle) => queues[i].owner = Pid[t]

QInv ==
    /\ serial \in 0..MaxSerial /\ written \in 0..MaxWrites
    /\ delivered \subseteq 1..written
    /\ queues \in [Slots -> QueueObject]
    /\ readers \in [Threads -> Reader]
    /\ \A i \in Slots : Sound(queues[i], serial, written)
    /\ \A t \in Threads : Coming(t)
    /\ SlotIsPinned
    /\ NamesOneQueue

-----------------------------------------------------------------------------
(***************************************************************************)
(* Lists of elements                                                       *)
(***************************************************************************)

\* A set of numbers that is not empty has a least one.
LEMMA LeastExists ==
  ASSUME NEW S, S \subseteq Nat, S # {}
  PROVE  \E i \in S : \A j \in S : i <= j
<1>1. PICK i \in S : \A j \in S : <<j, i>> \notin OpToRel(<, Nat)
  BY NatLessThanWellFounded, WFMin
<1>2. \A j \in S : ~ (j < i)
  BY <1>1 DEF OpToRel
<1> QED
  BY <1>2

\* The position of a new element is one of the list, or just behind it.
LEMMA PositionInRange ==
  ASSUME NEW q, NEW p \in Nat, Len(q.entries) \in Nat
  PROVE  InsertPosition(q, p) \in 1..(Len(q.entries) + 1)
<1> DEFINE lower == {i \in 1..Len(q.entries) : q.entries[i].priority < p}
<1>1. CASE lower = {}
  BY <1>1 DEF InsertPosition
<1>2. CASE lower # {}
  <2>1. lower \subseteq Nat
    OBVIOUS
  <2>2. \E i \in lower : \A j \in lower : i <= j
    <3> HIDE DEF lower
    <3> QED
      BY <1>2, <2>1, LeastExists
  <2>3. (CHOOSE i \in lower : \A j \in lower : i <= j) \in lower
    BY <2>2
  <2> QED
    BY <1>2, <2>3 DEF InsertPosition
<1> QED
  BY <1>1, <1>2

\* What a list holds when an element is put in: those before keep their place,
\* those after move up by one.
LEMMA InsertIs ==
  ASSUME NEW S, NEW q \in Seq(S), NEW i \in 1..Len(q) + 1, NEW e \in S
  PROVE  /\ InsertAt(q, i, e) \in Seq(S)
         /\ Len(InsertAt(q, i, e)) = Len(q) + 1
         /\ \A j \in 1..Len(q) + 1 :
               InsertAt(q, i, e)[j] = IF j < i THEN q[j] ELSE IF j = i THEN e ELSE q[j - 1]
<1> DEFINE a == SubSeq(q, 1, i - 1)
           b == SubSeq(q, i, Len(q))
           c == <<e>>
<1>1. Len(q) \in Nat /\ i \in Nat /\ i >= 1 /\ i <= Len(q) + 1
  OBVIOUS
<1>2. \A k \in 1..Len(q) : q[k] \in S
  OBVIOUS
<1>3. a \in Seq(S) /\ Len(a) = i - 1 /\ \A j \in 1..i - 1 : a[j] = q[j]
  <2>1. 1 \in Int /\ i - 1 \in Int /\ \A k \in 1..i - 1 : q[k] \in S
    BY <1>1, <1>2
  <2>2. /\ SubSeq(q, 1, i - 1) \in Seq(S)
        /\ Len(SubSeq(q, 1, i - 1)) = IF 1 <= i - 1 THEN i - 1 - 1 + 1 ELSE 0
        /\ \A j \in 1..i - 1 - 1 + 1 : SubSeq(q, 1, i - 1)[j] = q[1 + j - 1]
    BY <2>1, SubSeqProperties
  <2> QED
    BY <1>1, <2>2
<1>4. b \in Seq(S) /\ Len(b) = Len(q) - i + 1 /\ \A j \in 1..Len(q) - i + 1 : b[j] = q[i + j - 1]
  <2>1. i \in Int /\ Len(q) \in Int /\ \A k \in i..Len(q) : q[k] \in S
    BY <1>1, <1>2
  <2>2. /\ SubSeq(q, i, Len(q)) \in Seq(S)
        /\ Len(SubSeq(q, i, Len(q))) = IF i <= Len(q) THEN Len(q) - i + 1 ELSE 0
        /\ \A j \in 1..Len(q) - i + 1 : SubSeq(q, i, Len(q))[j] = q[i + j - 1]
    BY <2>1, SubSeqProperties
  <2> QED
    BY <1>1, <2>2
<1>5. c \in Seq(S) /\ Len(c) = 1 /\ c[1] = e
  OBVIOUS
<1>6. InsertAt(q, i, e) = (a \o c) \o b
  BY DEF InsertAt
<1> HIDE DEF a, b, c
<1>7. /\ a \o c \in Seq(S)
      /\ Len(a \o c) = i
      /\ \A j \in 1..i : (a \o c)[j] = IF j < i THEN a[j] ELSE e
  <2>1. /\ a \o c \in Seq(S)
        /\ Len(a \o c) = Len(a) + Len(c)
        /\ \A j \in 1..Len(a) + Len(c) :
              (a \o c)[j] = IF j <= Len(a) THEN a[j] ELSE c[j - Len(a)]
    BY <1>3, <1>5, ConcatProperties
  <2> QED
    BY <1>1, <1>3, <1>5, <2>1
<1> DEFINE ac == a \o c
<1>8. ac \in Seq(S) /\ Len(ac) = i /\ \A j \in 1..i : ac[j] = IF j < i THEN a[j] ELSE e
  BY <1>7
<1>9. InsertAt(q, i, e) = ac \o b
  BY <1>6
<1> HIDE DEF ac
<1>10. /\ ac \o b \in Seq(S)
       /\ Len(ac \o b) = Len(ac) + Len(b)
       /\ \A j \in 1..Len(ac) + Len(b) :
             (ac \o b)[j] = IF j <= Len(ac) THEN ac[j] ELSE b[j - Len(ac)]
  BY <1>4, <1>8, ConcatProperties
<1>11. \A j \in 1..Len(q) + 1 :
          (ac \o b)[j] = IF j < i THEN q[j] ELSE IF j = i THEN e ELSE q[j - 1]
  <2> SUFFICES ASSUME NEW j \in 1..Len(q) + 1
               PROVE  (ac \o b)[j] = IF j < i THEN q[j] ELSE IF j = i THEN e ELSE q[j - 1]
    OBVIOUS
  <2>1. CASE j <= i
    BY SMTT(30), <2>1, <1>1, <1>3, <1>4, <1>8, <1>10
  <2>2. CASE j > i
    <3>1. j - i \in 1..Len(q) - i + 1 /\ i + (j - i) - 1 = j - 1
      BY <2>2, <1>1
    <3>2. (ac \o b)[j] = b[j - i]
      BY <2>2, <1>1, <1>4, <1>8, <1>10
    <3> QED
      BY SMTT(30), <2>2, <1>1, <1>4, <3>1, <3>2
  <2>3. j <= i \/ j > i
    BY <1>1
  <2> QED
    BY <2>1, <2>2, <2>3
<1> QED
  BY <1>1, <1>4, <1>8, <1>9, <1>10, <1>11

\* Nothing of a list is lost from sight when more elements are accepted.
LEMMA AcceptedLater ==
  ASSUME NEW w \in Nat, NEW v \in Nat, w <= v, NEW s \in Seq(Accepted(w))
  PROVE  s \in Seq(Accepted(v))
<1>1. Accepted(w) \subseteq Accepted(v)
  BY DEF Accepted
<1> QED
  BY <1>1, SeqMonotonic

\* A queue object stays sound when handles are given out and elements accepted.
LEMMA SoundLater ==
  ASSUME NEW q, NEW s \in Nat, NEW w \in Nat, NEW u \in Nat, NEW v \in Nat,
         Sound(q, s, w), s <= u, w <= v
  PROVE  Sound(q, u, v)
<1>1. q.handle \in Int
  BY DEF Sound, QueueObject
<1> QED
  BY <1>1, AcceptedLater DEF Sound

-----------------------------------------------------------------------------
(***************************************************************************)
(* The invariant                                                           *)
(***************************************************************************)
USE DEF vars

\* There are only so many readers in a slot.
LEMMA ReadersFinite == \A i \in Slots : IsFiniteSet(InSlot(i))
<1> TAKE i \in Slots
<1>1. InSlot(i) \subseteq Threads
  BY DEF InSlot
<1> QED
  BY <1>1, QueueAssumption, FS_Subset

\* The empty list is a list of elements.
LEMMA NoElements == /\ <<>> \in Seq(Element) /\ Len(<<>>) = 0
                    /\ \A w : <<>> \in Seq(Accepted(w))
  BY EmptySeq

\* A queue object with other elements and another event level.
Refill(q, s, ev) == [q EXCEPT !.entries = s, !.event = ev]

\* All else stays.
LEMMA Refilled ==
  ASSUME NEW q \in QueueObject, NEW s \in Seq(Element),
         NEW ev \in {"none", "reset", "set"}
  PROVE  LET r == Refill(q, s, ev)
         IN  /\ r \in QueueObject /\ r.entries = s /\ r.event = ev
             /\ r.used = q.used /\ r.handle = q.handle /\ r.waiters = q.waiters
             /\ r.name = q.name /\ r.owner = q.owner /\ r.order = q.order
<1> DEFINE S == Seq(Element)
<1>1. S = Seq(Element)
  OBVIOUS
<1> HIDE DEF S
<1> QED
  BY <1>1 DEF Refill, QueueObject

\* A queue object with other references and another state of use.
Retype(q, refs, used) == [q EXCEPT !.refs = refs, !.used = used]

\* All else stays.
LEMMA Retyped ==
  ASSUME NEW q \in QueueObject, NEW refs \in SUBSET Processes, NEW used \in 0..2
  PROVE  LET r == Retype(q, refs, used)
         IN  /\ r \in QueueObject /\ r.entries = q.entries /\ r.event = q.event
             /\ r.used = used /\ r.handle = q.handle /\ r.waiters = q.waiters
             /\ r.name = q.name /\ r.owner = q.owner /\ r.order = q.order
<1> DEFINE S == Seq(Element)
<1>1. S = Seq(Element)
  OBVIOUS
<1> HIDE DEF S
<1> QED
  BY <1>1 DEF Retype, QueueObject

\* A queue object with another number of waiting readers.
Count(q, n) == [q EXCEPT !.waiters = n]

\* All else stays.
LEMMA Counted ==
  ASSUME NEW q \in QueueObject, NEW n \in Nat
  PROVE  LET r == Count(q, n)
         IN  /\ r \in QueueObject /\ r.entries = q.entries /\ r.event = q.event
             /\ r.used = q.used /\ r.handle = q.handle /\ r.waiters = n
             /\ r.name = q.name /\ r.owner = q.owner /\ r.order = q.order
<1> DEFINE S == Seq(Element)
<1>1. S = Seq(Element)
  OBVIOUS
<1> HIDE DEF S
<1> QED
  BY <1>1 DEF Count, QueueObject

\* Calls that change one live queue, keep it what it is to its readers and
\* leave those alone, keep the invariant.
LEMMA OneQueueChanged ==
  ASSUME QInv, NEW i \in Slots,
         queues' \in [Slots -> QueueObject],
         \A j \in Slots \ {i} : queues'[j] = queues[j],
         queues[i].used = 1, queues'[i].used \in {1, 2},
         queues'[i].handle = queues[i].handle, queues'[i].name = queues[i].name,
         queues'[i].owner = queues[i].owner, queues'[i].waiters = queues[i].waiters,
         serial' = serial, written' \in written..MaxWrites, delivered' \subseteq 1..written',
         Sound(queues'[i], serial, written'),
         readers' \in [Threads -> Reader],
         \A t \in Threads : \/ readers'[t] = readers[t]
                            \/ /\ readers[t].at \notin {"waiting", "woken"}
                               /\ readers'[t] = Outside
  PROVE  QInv'
<1>1. serial \in Nat /\ written \in Nat /\ written' \in Nat /\ written <= written'
  BY QueueAssumption DEF QInv
<1>2. \A j \in Slots : InSlot(j)' = InSlot(j)
  BY DEF InSlot, Outside
<1>3. SlotIsPinned'
  <2> SUFFICES ASSUME NEW j \in Slots
               PROVE  /\ queues'[j].waiters = Cardinality(InSlot(j)')
                      /\ \A t \in InSlot(j)' :
                            /\ queues'[j].handle = readers'[t].handle
                            /\ queues'[j].used # 0 /\ queues'[j].event # "none"
    BY DEF SlotIsPinned
  <2>1. queues'[j].waiters = Cardinality(InSlot(j)')
    BY <1>2 DEF QInv, SlotIsPinned
  <2>2. \A t \in InSlot(j)' : readers'[t] = readers[t]
    BY <1>2 DEF InSlot
  <2> QED
    BY <1>2, <2>1, <2>2 DEF QInv, SlotIsPinned, Sound
<1>4. NamesOneQueue'
  BY DEF QInv, NamesOneQueue
<1>5. \A t \in Threads : Coming(t)'
  BY DEF QInv, Coming, Holds, Outside
<1>6. \A j \in Slots : Sound(queues'[j], serial', written')
  BY <1>1, SoundLater DEF QInv
<1> QED
  BY <1>1, <1>3, <1>4, <1>5, <1>6 DEF QInv

\* An empty table.
LEMMA QInvInit == Init => QInv
<1> SUFFICES ASSUME Init
             PROVE  QInv
  OBVIOUS
<1>1. \A i \in Slots : InSlot(i) = {}
  BY DEF Init, InSlot, Outside
<1>2. SlotIsPinned
  BY <1>1, FS_EmptySet DEF Init, SlotIsPinned, Free
<1>3. Free \in QueueObject
  BY QueueAssumption DEF Free, QueueObject
<1>4. Sound(Free, 0, 0)
  BY <1>3, QueueAssumption DEF Sound, Free
<1>5. Outside \in Reader
  BY QueueAssumption DEF Outside, Reader
<1>6. NamesOneQueue /\ \A t \in Threads : Coming(t)
  BY DEF Init, NamesOneQueue, Coming, Free, Outside
<1> QED
  BY <1>2, <1>3, <1>4, <1>5, <1>6, QueueAssumption DEF Init, QInv

\* A refused call keeps everything but the code it returns.
LEMMA RefusedKeeps ==
  ASSUME QInv, UNCHANGED <<serial, queues, readers, written, delivered>>
  PROVE  QInv'
<1>1. SlotIsPinned'
  BY DEF QInv, SlotIsPinned, InSlot
<1>2. NamesOneQueue' /\ \A t \in Threads : Coming(t)'
  BY DEF QInv, NamesOneQueue, Coming, Holds
<1> QED
  BY <1>1, <1>2 DEF QInv

\* A new queue takes a free slot, a new handle and a name not in use.
LEMMA CreateKeeps ==
  ASSUME QInv, NEW t \in Threads, NEW n \in Names, NEW o \in Orders,
         DosCreateQueue(t, n, o)
  PROVE  QInv'
<1> DEFINE new == [used |-> 1, handle |-> serial + 1, waiters |-> 0,
                   refs |-> {Pid[t]}, name |-> n, order |-> o,
                   owner |-> Pid[t], entries |-> <<>>, event |-> "reset"]
<1> SUFFICES ASSUME ~UNCHANGED <<serial, queues, readers, written, delivered>>
             PROVE  QInv'
  BY RefusedKeeps
<1>1. PICK i \in Slots : /\ queues[i].used = 0 /\ ~HasName(n) /\ serial < MaxSerial
                         /\ queues' = [queues EXCEPT ![i] = new]
                         /\ serial' = serial + 1
                         /\ UNCHANGED <<readers, written, delivered>>
  BY DEF DosCreateQueue, Refuse, FirstFree, FreeSlots, NewHandle, SerialLeft
<1>2. serial \in Nat /\ serial + 1 \in 0..MaxSerial /\ written \in Nat
  BY <1>1, QueueAssumption DEF QInv
<1>3. new \in QueueObject
  BY <1>2 DEF QueueObject, Processes
<1>4. Sound(new, serial', written')
  BY <1>1, <1>2, <1>3, QueueAssumption DEF Sound, Processes
<1>5. InSlot(i) = {} /\ \A j \in Slots : InSlot(j)' = InSlot(j)
  BY <1>1 DEF QInv, SlotIsPinned, InSlot
<1>6. SlotIsPinned'
  BY <1>1, <1>5, FS_EmptySet DEF QInv, SlotIsPinned
<1>7. \A j \in Slots : queues[j].handle # serial + 1
  BY <1>2 DEF QInv, Sound, QueueObject
<1>8. NamesOneQueue'
  BY <1>1, <1>7 DEF QInv, NamesOneQueue, HasName
<1>9. \A r \in Threads : Coming(r)'
  BY <1>1, <1>2 DEF QInv, Coming, Holds
<1>10. \A j \in Slots : Sound(queues'[j], serial', written')
  BY <1>1, <1>2, <1>4, SoundLater DEF QInv
<1> QED
  BY <1>1, <1>2, <1>3, <1>6, <1>8, <1>9, <1>10 DEF QInv

\* Opening a queue adds a reference to it.
LEMMA OpenKeeps ==
  ASSUME QInv, NEW t \in Threads, NEW n \in Names, DosOpenQueue(t, n)
  PROVE  QInv'
<1> SUFFICES ASSUME ~UNCHANGED <<serial, queues, readers, written, delivered>>
             PROVE  QInv'
  BY RefusedKeeps
<1>1. PICK i \in Slots :
         /\ queues[i].used = 1
         /\ queues' = [queues EXCEPT ![i].refs = @ \cup {Pid[t]}]
         /\ UNCHANGED <<serial, readers, written, delivered>>
  BY DEF DosOpenQueue, Refuse
<1>2. queues[i] \in QueueObject /\ Sound(queues[i], serial, written)
  BY DEF QInv
<1>3. queues'[i] = [queues[i] EXCEPT !.refs = @ \cup {Pid[t]}]
  BY <1>1 DEF QInv
<1>4. queues'[i] \in QueueObject
  BY <1>2, <1>3 DEF QueueObject, Processes
<1>5. Sound(queues'[i], serial, written')
  BY <1>1, <1>2, <1>3, <1>4 DEF Sound, QueueObject
<1>6. queues' \in [Slots -> QueueObject] /\ \A j \in Slots \ {i} : queues'[j] = queues[j]
  BY <1>1, <1>4 DEF QInv
<1>7. /\ queues'[i].used = 1 /\ queues'[i].handle = queues[i].handle
      /\ queues'[i].name = queues[i].name /\ queues'[i].owner = queues[i].owner
      /\ queues'[i].waiters = queues[i].waiters
  BY <1>1, <1>2, <1>3 DEF QueueObject
<1>8. /\ written' \in written..MaxWrites /\ delivered' \subseteq 1..written'
      /\ readers' \in [Threads -> Reader] /\ readers' = readers
  BY <1>1, QueueAssumption DEF QInv
<1> QED
  BY <1>1, <1>5, <1>6, <1>7, <1>8, OneQueueChanged

\* A write inserts an element, and sets the event for the first one.
LEMMA WriteKeeps ==
  ASSUME QInv, NEW t \in Threads, NEW h \in Handles, NEW p \in Priorities,
         written < MaxWrites, DosWriteQueue(t, h, p)
  PROVE  QInv'
<1> SUFFICES ASSUME ~UNCHANGED <<serial, queues, readers, written, delivered>>
             PROVE  QInv'
  BY RefusedKeeps
<1> DEFINE e == [id |-> written + 1, priority |-> p]
<1>1. PICK i \in Slots :
         /\ queues[i].used = 1 /\ Len(queues[i].entries) < Depth
         /\ queues' = [queues EXCEPT
               ![i].entries = InsertAt(@, InsertPosition(queues[i], p), e),
               ![i].event = IF queues[i].entries = <<>> THEN "set" ELSE @]
         /\ written' = written + 1
         /\ UNCHANGED <<serial, readers, delivered>>
  BY DEF DosWriteQueue, Refuse, Holds
<1>2. queues[i] \in QueueObject /\ Sound(queues[i], serial, written)
  BY DEF QInv
<1> DEFINE s == InsertAt(queues[i].entries, InsertPosition(queues[i], p), e)
<1>3. written \in Nat /\ written' \in written..MaxWrites
  BY <1>1, QueueAssumption DEF QInv
<1>4. queues[i].entries \in Seq(Accepted(written')) /\ e \in Accepted(written')
  <2>1. queues[i].entries \in Seq(Accepted(written))
    BY <1>2 DEF Sound
  <2>2. e \in Accepted(written')
    BY <1>1, <1>3 DEF Accepted
  <2> QED
    BY <1>3, <2>1, <2>2, AcceptedLater
<1>5. s \in Seq(Accepted(written')) /\ Len(s) = Len(queues[i].entries) + 1
  <2>1. Len(queues[i].entries) \in Nat /\ p \in Nat
    BY <1>4, QueueAssumption
  <2>2. InsertPosition(queues[i], p) \in 1..(Len(queues[i].entries) + 1)
    BY <2>1, PositionInRange
  <2> QED
    BY <1>4, <2>2, InsertIs
<1> HIDE DEF s
<1>6. Len(queues[i].entries) + 1 \in 1..Depth
  BY <1>1, <1>4, QueueAssumption
<1>7. s \in Seq(Element)
  <2>1. Accepted(written') \subseteq Element
    BY <1>3, QueueAssumption DEF Accepted, Element
  <2> QED
    BY <1>5, <2>1, SeqMonotonic
<1>8. queues'[i] = Refill(queues[i], s, "set")
  BY <1>1, <1>2 DEF QInv, Sound, s, Refill
<1>9. queues[i].used = 1
  BY <1>1
<1>10. /\ queues'[i] \in QueueObject
      /\ queues'[i].entries = s /\ queues'[i].event = "set"
      /\ queues'[i].used = 1 /\ queues'[i].handle = queues[i].handle
      /\ queues'[i].name = queues[i].name /\ queues'[i].owner = queues[i].owner
      /\ queues'[i].waiters = queues[i].waiters
  BY <1>9, <1>2, <1>7, <1>8, Refilled
<1>11. s # <<>>
  BY <1>5, <1>6
<1>12. Sound(queues'[i], serial, written')
  BY <1>1, <1>2, <1>5, <1>6, <1>10, <1>11 DEF Sound
<1>13. queues' \in [Slots -> QueueObject] /\ \A j \in Slots \ {i} : queues'[j] = queues[j]
  BY <1>1, <1>10 DEF QInv
<1>14. delivered' \subseteq 1..written'
  BY <1>1, <1>3 DEF QInv
<1>15. readers' \in [Threads -> Reader] /\ readers' = readers
  BY <1>1 DEF QInv
<1> QED
  BY <1>1, <1>3, <1>10, <1>12, <1>13, <1>14, <1>15, OneQueueChanged

\* A purge leaves the queue empty and its event reset.
LEMMA PurgeKeeps ==
  ASSUME QInv, NEW t \in Threads, NEW h \in Handles, DosPurgeQueue(t, h)
  PROVE  QInv'
<1> SUFFICES ASSUME ~UNCHANGED <<serial, queues, readers, written, delivered>>
             PROVE  QInv'
  BY RefusedKeeps
<1>1. PICK i \in Slots :
         /\ queues[i].used = 1
         /\ queues' = [queues EXCEPT ![i].event = "reset", ![i].entries = <<>>]
         /\ UNCHANGED <<serial, readers, written, delivered>>
  BY DEF DosPurgeQueue, Refuse, Holds
<1>2. queues[i].used = 1 /\ queues[i] \in QueueObject /\ Sound(queues[i], serial, written)
  BY <1>1 DEF QInv
<1>3. PICK s \in Seq(Element) : s = <<>>
  BY NoElements
<1>4. queues'[i] = Refill(queues[i], s, "reset")
  BY <1>1, <1>3 DEF QInv, Refill
<1>5. /\ queues'[i] \in QueueObject
      /\ queues'[i].entries = s /\ queues'[i].event = "reset"
      /\ queues'[i].used = 1 /\ queues'[i].handle = queues[i].handle
      /\ queues'[i].name = queues[i].name /\ queues'[i].owner = queues[i].owner
      /\ queues'[i].waiters = queues[i].waiters
  BY SMTT(30), <1>2, <1>4, Refilled
<1>6. Sound(queues'[i], serial, written)
  BY <1>2, <1>3, <1>5, NoElements, QueueAssumption DEF Sound
<1>7. queues' \in [Slots -> QueueObject] /\ \A j \in Slots \ {i} : queues'[j] = queues[j]
  BY <1>1, <1>5 DEF QInv
<1>8. /\ written' = written /\ written' \in written..MaxWrites /\ delivered' \subseteq 1..written'
      /\ readers' \in [Threads -> Reader] /\ readers' = readers
  BY <1>1, QueueAssumption DEF QInv
<1> QED
  BY <1>1, <1>2, <1>5, <1>6, <1>7, <1>8, OneQueueChanged

\* A slot that no reader waits in may become free.
LEMMA SlotFreed ==
  ASSUME QInv, NEW i \in Slots, queues' = [queues EXCEPT ![i] = Free],
         UNCHANGED <<serial, written, delivered>>,
         readers' \in [Threads -> Reader],
         InSlot(i)' = {},
         \A j \in Slots \ {i} : InSlot(j)' = InSlot(j),
         \A j \in Slots \ {i} : \A t \in InSlot(j) : readers'[t] = readers[t],
         \A t \in Threads : \/ readers'[t].at = "outside"
                            \/ /\ readers[t].at # "outside"
                               /\ readers'[t].slot = readers[t].slot
                               /\ readers'[t].handle = readers[t].handle,
         \A t \in Threads : readers'[t].woken = "FAILED" => BackendMayFail
  PROVE  QInv'
<1>1. Free \in QueueObject /\ Sound(Free, serial, written)
  <2>1. Free \in QueueObject
    BY QueueAssumption DEF Free, QueueObject
  <2>2. serial \in Nat
    BY QueueAssumption DEF QInv
  <2> QED
    BY <2>1, <2>2, NoElements, QueueAssumption DEF Sound, Free
<1>2. queues' \in [Slots -> QueueObject] /\ \A j \in Slots : Sound(queues'[j], serial', written')
  BY <1>1 DEF QInv
<1>3. SlotIsPinned'
  <2>1. queues'[i].waiters = Cardinality(InSlot(i)')
    BY FS_EmptySet DEF QInv, Free
  <2>2. InSlot(i)' = {} /\ \A j \in Slots \ {i} : queues'[j] = queues[j]
    BY DEF QInv
  <2>3. ASSUME NEW j \in Slots \ {i}
        PROVE  /\ queues'[j].waiters = Cardinality(InSlot(j)')
               /\ \A t \in InSlot(j)' : /\ queues'[j].handle = readers'[t].handle
                                         /\ queues'[j].used # 0 /\ queues'[j].event # "none"
    BY <2>2 DEF QInv, SlotIsPinned
  <2> QED
    BY <2>1, <2>2, <2>3 DEF SlotIsPinned
<1>4. NamesOneQueue'
  BY DEF QInv, NamesOneQueue, Free
<1>5. \A t \in Threads : Coming(t)'
  BY DEF QInv, Coming, Holds, Free
<1> QED
  BY <1>2, <1>3, <1>4, <1>5 DEF QInv

\* A close drops a reference; the owner's frees the slot, or, if readers
\* wait, wakes them and leaves it to the last of them.
LEMMA CloseKeeps ==
  ASSUME QInv, NEW t \in Threads, NEW h \in Handles, DosCloseQueue(t, h)
  PROVE  QInv'
<1> SUFFICES ASSUME ~UNCHANGED <<serial, queues, readers, written, delivered>>
             PROVE  QInv'
  BY RefusedKeeps
<1>1. PICK i \in Slots :
         /\ queues[i].used = 1
         /\ queues' = [queues EXCEPT ![i] =
               IF Pid[t] # queues[i].owner
               THEN Dereferenced(@, Pid[t])
               ELSE Destroyed(@)]
         /\ UNCHANGED <<serial, readers, written, delivered>>
  BY DEF DosCloseQueue, Refuse, Holds
<1>2. queues[i] \in QueueObject /\ Sound(queues[i], serial, written)
  BY DEF QInv
<1>3. /\ written' = written /\ written' \in written..MaxWrites /\ delivered' \subseteq 1..written'
      /\ readers' \in [Threads -> Reader] /\ readers' = readers
  BY <1>1, QueueAssumption DEF QInv
<1>7. queues[i].used = 1
  BY <1>1
<1>4. CASE Pid[t] # queues[i].owner
  <2> DEFINE less == queues[i].refs \ {Pid[t]}
  <2>1. queues'[i] = [queues[i] EXCEPT !.refs = less]
    BY <1>1, <1>4 DEF QInv, Dereferenced
  <2>2. queues'[i] \in QueueObject
    BY <1>2, <2>1 DEF QueueObject
  <2>3. Sound(queues'[i], serial, written')
    BY <1>1, <1>2, <2>1, <2>2 DEF Sound, QueueObject
  <2>4. queues' \in [Slots -> QueueObject] /\ \A j \in Slots \ {i} : queues'[j] = queues[j]
    BY <1>1, <2>2 DEF QInv
  <2>5. /\ queues'[i].used = 1 /\ queues'[i].handle = queues[i].handle
        /\ queues'[i].name = queues[i].name /\ queues'[i].owner = queues[i].owner
        /\ queues'[i].waiters = queues[i].waiters
    BY <1>1, <1>2, <2>1 DEF QueueObject
  <2> QED
    BY <1>1, <1>3, <2>3, <2>4, <2>5, OneQueueChanged
<1>5. CASE Pid[t] = queues[i].owner /\ queues[i].waiters > 0
  <2>1. queues'[i] = [queues[i] EXCEPT !.refs = @ \ {queues[i].owner}, !.used = 2,
                                       !.entries = <<>>, !.event = "set"]
    BY <1>1, <1>5 DEF QInv, Destroyed
  <2>2. PICK s \in Seq(Element) : s = <<>>
    BY NoElements
  <2>3. /\ queues'[i] \in QueueObject
        /\ queues'[i].used = 2 /\ queues'[i].entries = s /\ queues'[i].event = "set"
        /\ queues'[i].handle = queues[i].handle /\ queues'[i].name = queues[i].name
        /\ queues'[i].owner = queues[i].owner /\ queues'[i].waiters = queues[i].waiters
    <3> DEFINE r == Refill(queues[i], s, "set")
               less == queues[i].refs \ {queues[i].owner}
    <3>1. queues'[i] = Retype(r, less, 2)
      BY <1>2, <2>1, <2>2 DEF Refill, Retype
    <3>2. /\ r \in QueueObject /\ r.entries = s /\ r.event = "set"
          /\ r.handle = queues[i].handle /\ r.waiters = queues[i].waiters
          /\ r.name = queues[i].name /\ r.owner = queues[i].owner
      BY <1>2, Refilled
    <3>3. less \in SUBSET Processes
      BY <1>2 DEF QueueObject
    <3> HIDE DEF r, less
    <3> QED
      BY <3>1, <3>2, <3>3, Retyped
  <2>4. Sound(queues'[i], serial, written)
    BY <1>2, <1>5, <1>7, <2>2, <2>3, NoElements, QueueAssumption DEF Sound
  <2>5. queues' \in [Slots -> QueueObject] /\ \A j \in Slots \ {i} : queues'[j] = queues[j]
    BY <1>1, <2>3 DEF QInv
  <2> QED
    BY <1>1, <1>3, <2>3, <2>4, <2>5, OneQueueChanged
<1>6. CASE Pid[t] = queues[i].owner /\ ~(queues[i].waiters > 0)
  <2>1. queues' = [queues EXCEPT ![i] = Free]
    BY <1>1, <1>6 DEF QInv, Destroyed
  <2>2. InSlot(i) = {}
    <3>1. queues[i].waiters = Cardinality(InSlot(i)) /\ queues[i].waiters \in Nat
      BY <1>2 DEF QInv, SlotIsPinned, QueueObject
    <3> QED
      BY <1>6, <3>1, ReadersFinite, FS_EmptySet
  <2>3. \A j \in Slots : InSlot(j)' = InSlot(j)
    BY <1>1 DEF InSlot
  <2>4. \A r \in Threads : readers[r].woken = "FAILED" => BackendMayFail
    BY DEF QInv, Coming
  <2> QED
    BY <1>1, <1>3, <2>1, <2>2, <2>3, <2>4, SlotFreed
<1> QED
  BY <1>4, <1>5, <1>6

\* A reader that leaves without having changed a queue.
LEMMA LeaveKeeps ==
  ASSUME QInv, NEW t \in Threads, readers[t].at \notin {"waiting", "woken"},
         Leave(t), UNCHANGED <<serial, queues, written, delivered>>
  PROVE  QInv'
<1>1. readers' \in [Threads -> Reader]
  BY QueueAssumption DEF QInv, Leave, Outside, Reader
<1>2. \A j \in Slots : InSlot(j)' = InSlot(j)
  BY DEF QInv, Leave, InSlot, Outside
<1>3. \A j \in Slots : \A r \in InSlot(j) : readers'[r] = readers[r]
  BY DEF QInv, Leave, InSlot
<1>4. SlotIsPinned'
  BY <1>2, <1>3 DEF QInv, SlotIsPinned
<1>5. NamesOneQueue' /\ \A r \in Threads : Coming(r)'
  BY DEF QInv, NamesOneQueue, Coming, Holds, Leave, Outside
<1> QED
  BY <1>1, <1>4, <1>5 DEF QInv

\* A read that takes the first element; the last one resets the event.
LEMMA TakeKeeps ==
  ASSUME QInv, NEW t \in Threads, readers[t].at \notin {"waiting", "woken"},
         NEW i \in Slots, queues[i].used = 1, queues[i].entries # <<>>,
         TakeFirst(i), Leave(t), UNCHANGED <<serial, written>>
  PROVE  QInv'
<1> DEFINE s == queues[i].entries
           w == written
<1>1. queues[i] \in QueueObject /\ Sound(queues[i], serial, written) /\ w \in Nat
  BY QueueAssumption DEF QInv
<1>2. /\ s \in Seq(Accepted(w)) /\ s \in Seq(Element) /\ Len(s) \in 1..Depth
      /\ queues[i].event = "set"
  <2>1. s \in Seq(Accepted(w)) /\ Len(s) <= Depth /\ queues[i].event = "set"
    BY <1>1 DEF Sound
  <2>2. Len(s) \in Nat \ {0}
    BY <2>1, EmptySeq
  <2>3. Accepted(w) \subseteq Element
    BY QueueAssumption DEF QInv, Accepted, Element
  <2> QED
    BY <2>1, <2>2, <2>3, SeqMonotonic, QueueAssumption
<1>3. /\ Head(s) \in Accepted(w)
      /\ Tail(s) \in Seq(Accepted(w)) /\ Tail(s) \in Seq(Element)
      /\ Len(Tail(s)) = Len(s) - 1
  BY <1>2, HeadTailProperties
<1>4. \E r \in Seq(Element), ev \in {"reset", "set"} :
         /\ queues' = [queues EXCEPT ![i] = Refill(queues[i], r, ev)]
         /\ r \in Seq(Accepted(w)) /\ Len(r) <= Depth
         /\ r # <<>> => ev = "set"
         /\ ev = "set" /\ ~BackendMayFail => r # <<>>
  <2>1. CASE queues' = [queues EXCEPT ![i].entries = Tail(@),
                                      ![i].event = LevelAfterRead(queues[i])]
    <3> DEFINE ev == LevelAfterRead(queues[i])
    <3>1. ev = IF Len(s) = 1 THEN "reset" ELSE "set"
      BY <1>2 DEF LevelAfterRead
    <3>2. queues' = [queues EXCEPT ![i] = Refill(queues[i], Tail(s), ev)]
      BY <2>1 DEF QInv, Refill
    <3>3. Tail(s) = <<>> <=> Len(s) = 1
      <4>1. Tail(s) = <<>> <=> Len(Tail(s)) = 0
        BY <1>3, EmptySeq
      <4> QED
        BY <1>2, <1>3, <4>1
    <3>4. Len(Tail(s)) <= Depth
      BY <1>2, <1>3, QueueAssumption
    <3> HIDE DEF ev
    <3> QED
      BY <1>3, <3>1, <3>2, <3>3, <3>4
  <2>2. CASE BackendMayFail /\ queues' = [queues EXCEPT ![i].entries = <<>>]
    <3>1. PICK r \in Seq(Element) : r = <<>>
      BY NoElements
    <3>2. queues' = [queues EXCEPT ![i] = Refill(queues[i], r, "set")]
      BY <1>2, <2>2, <1>1, <3>1 DEF QInv, Refill, QueueObject
    <3>3. r \in Seq(Accepted(w)) /\ Len(r) <= Depth
      BY <3>1, NoElements, QueueAssumption
    <3> QED
      BY <2>2, <3>2, <3>3
  <2> QED
    BY <2>1, <2>2 DEF TakeFirst
<1>5. PICK r \in Seq(Element), ev \in {"reset", "set"} :
         /\ queues' = [queues EXCEPT ![i] = Refill(queues[i], r, ev)]
         /\ r \in Seq(Accepted(w)) /\ Len(r) <= Depth
         /\ r # <<>> => ev = "set"
         /\ ev = "set" /\ ~BackendMayFail => r # <<>>
  BY <1>4
<1>6. queues'[i] = Refill(queues[i], r, ev)
  BY <1>5 DEF QInv
<1>7. /\ queues'[i] \in QueueObject
      /\ queues'[i].entries = r /\ queues'[i].event = ev
      /\ queues'[i].used = 1 /\ queues'[i].handle = queues[i].handle
      /\ queues'[i].name = queues[i].name /\ queues'[i].owner = queues[i].owner
      /\ queues'[i].waiters = queues[i].waiters
  BY <1>1, <1>6, Refilled
<1>8. Sound(queues'[i], serial, written)
  BY <1>1, <1>5, <1>7 DEF Sound
<1>9. queues' \in [Slots -> QueueObject] /\ \A j \in Slots \ {i} : queues'[j] = queues[j]
  BY <1>5, <1>7, <1>6 DEF QInv
<1>10. delivered' \subseteq 1..written
  BY <1>3 DEF QInv, TakeFirst, Accepted
<1>11. /\ readers' \in [Threads -> Reader]
       /\ \A u \in Threads : \/ readers'[u] = readers[u]
                             \/ /\ readers[u].at \notin {"waiting", "woken"}
                                /\ readers'[u] = Outside
  BY QueueAssumption DEF QInv, Leave, Outside, Reader
<1>12. written' = written /\ written \in written..MaxWrites
  BY QueueAssumption DEF QInv
<1> QED
  BY <1>7, <1>8, <1>9, <1>10, <1>11, <1>12, OneQueueChanged

\* A reader that finds its queue empty counts itself in and leaves the lock.
LEMMA EnterKeeps ==
  ASSUME QInv, NEW t \in Threads, readers[t].at \notin {"waiting", "woken"},
         NEW i \in Slots, NEW h \in 1..serial,
         Holds(i, h), Pid[t] = queues[i].owner,
         queues' = [queues EXCEPT ![i].waiters = @ + 1],
         readers' = [readers EXCEPT ![t] =
            [at |-> "waiting", handle |-> h, slot |-> i, woken |-> "READY"]],
         UNCHANGED <<serial, written, delivered>>
  PROVE  QInv'
<1>1. /\ queues[i] \in QueueObject /\ Sound(queues[i], serial, written)
      /\ queues[i].used = 1 /\ queues[i].handle = h
  BY DEF QInv, Holds
<1>2. queues'[i] = Count(queues[i], queues[i].waiters + 1) /\ queues[i].waiters + 1 \in Nat
  BY <1>1 DEF QInv, Count, QueueObject
<1>3. /\ queues'[i] \in QueueObject /\ queues'[i].waiters = queues[i].waiters + 1
      /\ queues'[i].used = queues[i].used /\ queues'[i].handle = queues[i].handle
      /\ queues'[i].name = queues[i].name /\ queues'[i].owner = queues[i].owner
      /\ queues'[i].entries = queues[i].entries /\ queues'[i].event = queues[i].event
  BY <1>1, <1>2, Counted
<1>4. \A j \in Slots \ {i} : queues'[j] = queues[j]
  BY DEF QInv
<1>5. queues' \in [Slots -> QueueObject] /\ \A j \in Slots : Sound(queues'[j], serial, written)
  <2>1. Sound(queues'[i], serial, written)
    BY <1>1, <1>3 DEF Sound
  <2> QED
    BY <1>3, <1>4, <2>1 DEF QInv
<1>6. readers' \in [Threads -> Reader]
  BY QueueAssumption DEF QInv, Reader, Slots
<1>7. /\ t \notin InSlot(i) /\ InSlot(i)' = InSlot(i) \cup {t}
      /\ \A j \in Slots \ {i} : InSlot(j)' = InSlot(j)
  BY DEF QInv, InSlot
<1>8. Cardinality(InSlot(i)') = Cardinality(InSlot(i)) + 1
  BY <1>7, ReadersFinite, FS_AddElement
<1>9. SlotIsPinned'
  <2>1. \A j \in Slots : queues'[j].waiters = Cardinality(InSlot(j)')
    <3>1. \A j \in Slots : queues[j].waiters = Cardinality(InSlot(j))
      BY DEF QInv, SlotIsPinned
    <3>2. queues'[i].waiters = Cardinality(InSlot(i)')
      BY <1>3, <1>8, <3>1
    <3> QED
      BY <1>4, <1>7, <3>1, <3>2
  <2>2. \A j \in Slots : \A r \in InSlot(j)' \ {t} : readers'[r] = readers[r] /\ r \in InSlot(j)
    BY <1>7 DEF QInv, InSlot
  <2>3. readers'[t].handle = h /\ \A j \in Slots : t \in InSlot(j)' => j = i
    BY DEF QInv, InSlot
  <2> QED
    BY <1>1, <1>3, <1>4, <2>1, <2>2, <2>3 DEF QInv, SlotIsPinned, Sound
<1>10. NamesOneQueue'
  BY <1>3, <1>4 DEF QInv, NamesOneQueue
<1>11. \A r \in Threads : Coming(r)'
  <2>1. \A j \in Slots : Holds(j, h) => j = i
    BY <1>1 DEF QInv, NamesOneQueue, Holds
  <2>2. \A j \in Slots, k \in 1..serial : Holds(j, k)' <=> Holds(j, k)
    BY <1>3, <1>4 DEF Holds
  <2>3. Coming(t)'
    BY <1>3, <2>1, <2>2 DEF QInv, Coming
  <2>4. ASSUME NEW r \in Threads \ {t}
        PROVE  Coming(r)'
    BY <1>3, <1>4, <2>2 DEF QInv, Coming
  <2> QED
    BY <2>3, <2>4
<1> QED
  BY <1>5, <1>6, <1>9, <1>10, <1>11 DEF QInv

\* The first section of DosReadQueue, whichever way it ends.
LEMMA SectionKeeps ==
  ASSUME QInv, NEW t \in Threads, readers[t].at \notin {"waiting", "woken"},
         NEW h \in 1..serial, NEW wait \in BOOLEAN, ReadSection(t, h, wait),
         UNCHANGED <<serial, written>>
  PROVE  QInv'
<1>1. CASE Leave(t) /\ UNCHANGED <<queues, delivered>>
  BY <1>1, LeaveKeeps
<1>2. ASSUME NEW i \in Slots, Holds(i, h), queues[i].entries # <<>>, TakeFirst(i), Leave(t)
      PROVE  QInv'
  BY <1>2, TakeKeeps DEF Holds
<1>3. ASSUME NEW i \in Slots, Holds(i, h), Pid[t] = queues[i].owner,
             queues' = [queues EXCEPT ![i].waiters = @ + 1],
             readers' = [readers EXCEPT ![t] =
                [at |-> "waiting", handle |-> h, slot |-> i, woken |-> "READY"]],
             UNCHANGED delivered
      PROVE  QInv'
  BY <1>3, EnterKeeps
<1> QED
  BY <1>1, <1>2, <1>3 DEF ReadSection

\* A woken reader is still in its slot.
LEMMA WakeKeeps ==
  ASSUME QInv, NEW t \in Threads, Wake(t)
  PROVE  QInv'
<1>1. /\ UNCHANGED <<serial, queues, written, delivered>>
      /\ readers[t].at = "waiting" /\ readers'[t].at = "woken"
      /\ readers'[t].slot = readers[t].slot /\ readers'[t].handle = readers[t].handle
      /\ readers'[t].woken = readers[t].woken \/ BackendMayFail
      /\ \A r \in Threads \ {t} : readers'[r] = readers[r]
      /\ readers' \in [Threads -> Reader]
  BY DEF Wake, QInv, Reader
<1>2. \A j \in Slots : InSlot(j)' = InSlot(j)
  BY <1>1 DEF InSlot
<1>3. SlotIsPinned'
  <2>1. \A r \in Threads : readers'[r].handle = readers[r].handle
    BY <1>1
  <2> SUFFICES ASSUME NEW j \in Slots
               PROVE  /\ queues[j].waiters = Cardinality(InSlot(j))
                      /\ \A r \in InSlot(j) : /\ queues[j].handle = readers'[r].handle
                                              /\ queues[j].used # 0 /\ queues[j].event # "none"
    BY <1>1, <1>2 DEF SlotIsPinned
  <2>2. InSlot(j) \subseteq Threads
    BY DEF InSlot
  <2> QED
    BY <2>1, <2>2 DEF QInv, SlotIsPinned
<1>4. NamesOneQueue' /\ \A r \in Threads : Coming(r)'
  BY <1>1 DEF QInv, NamesOneQueue, Coming, Holds
<1> QED
  BY <1>1, <1>3, <1>4 DEF QInv

\* A reader that comes back counts itself out; the last one to leave a closed
\* queue frees its slot.
LEMMA UnwindKeeps ==
  ASSUME QInv, NEW t \in Threads, ReadUnwind(t)
  PROVE  QInv'
<1>0. PICK i \in Slots, left \in Int :
         /\ i = readers[t].slot /\ left = queues[i].waiters - 1
  BY DEF QInv, Coming, ReadUnwind, QueueObject
<1>1. /\ readers[t].at = "woken" /\ t \in InSlot(i)
      /\ UNCHANGED <<serial, written, delivered>>
      /\ queues' = [queues EXCEPT ![i] =
            IF @.used = 2 /\ left = 0 THEN Free ELSE [@ EXCEPT !.waiters = left]]
  BY <1>0 DEF ReadUnwind, InSlot
<1>2. /\ queues[i] \in QueueObject /\ Sound(queues[i], serial, written)
      /\ queues[i].used # 0
  BY <1>1 DEF QInv, SlotIsPinned
<1>3. left \in Nat /\ left = Cardinality(InSlot(i) \ {t}) /\ IsFiniteSet(InSlot(i) \ {t})
  <2>1. /\ IsFiniteSet(InSlot(i) \ {t})
        /\ Cardinality(InSlot(i) \ {t}) = Cardinality(InSlot(i)) - 1
    BY <1>1, ReadersFinite, FS_RemoveElement
  <2>2. queues[i].waiters = Cardinality(InSlot(i))
    BY <1>1 DEF QInv, SlotIsPinned
  <2> QED
    BY <1>0, <2>1, <2>2, FS_CardinalityType
<1>4. /\ \/ readers' = [readers EXCEPT ![t] = Outside]
         \/ queues[i].used # 2 /\ readers' = [readers EXCEPT ![t].at = "retry"]
      /\ queues[i].used = 2 => readers' = [readers EXCEPT ![t] = Outside]
  BY <1>0 DEF ReadUnwind, Leave
<1>5. /\ readers' \in [Threads -> Reader]
      /\ readers'[t].at \in {"outside", "retry"}
      /\ \A r \in Threads \ {t} : readers'[r] = readers[r]
      /\ readers'[t].at = "retry" => /\ readers'[t].slot = i
                                    /\ readers'[t].handle = readers[t].handle
      /\ readers'[t].woken = "FAILED" => BackendMayFail
  BY <1>0, <1>4, QueueAssumption DEF QInv, Coming, Reader, Outside
<1>6. /\ InSlot(i)' = InSlot(i) \ {t}
      /\ \A j \in Slots \ {i} : InSlot(j)' = InSlot(j) /\ t \notin InSlot(j)
  BY <1>0, <1>1, <1>5 DEF InSlot
<1>7. CASE queues[i].used = 2 /\ left = 0
  <2>1. queues' = [queues EXCEPT ![i] = Free]
    BY <1>1, <1>7 DEF QInv
  <2>2. InSlot(i)' = {}
    BY <1>3, <1>6, <1>7, FS_EmptySet
  <2>3. \A j \in Slots \ {i} : \A r \in InSlot(j) : readers'[r] = readers[r]
    BY <1>5, <1>6 DEF InSlot
  <2>4. \A r \in Threads : \/ readers'[r].at = "outside"
                           \/ /\ readers[r].at # "outside"
                              /\ readers'[r].slot = readers[r].slot
                              /\ readers'[r].handle = readers[r].handle
    BY <1>0, <1>1, <1>5
  <2>5. \A r \in Threads : readers'[r].woken = "FAILED" => BackendMayFail
    BY <1>5 DEF QInv, Coming
  <2> QED
    BY <1>1, <1>5, <1>6, <2>1, <2>2, <2>3, <2>4, <2>5, SlotFreed
<1>8. CASE ~(queues[i].used = 2 /\ left = 0)
  <2>1. queues' = [queues EXCEPT ![i] = Count(queues[i], left)]
    BY <1>1, <1>8 DEF QInv, Count
  <2>2. queues'[i] = Count(queues[i], left)
    BY <1>1, <2>1 DEF QInv
  <2>3. /\ queues'[i] \in QueueObject /\ queues'[i].waiters = left
        /\ queues'[i].used = queues[i].used /\ queues'[i].handle = queues[i].handle
        /\ queues'[i].name = queues[i].name /\ queues'[i].owner = queues[i].owner
        /\ queues'[i].entries = queues[i].entries /\ queues'[i].event = queues[i].event
    BY <1>2, <1>3, <2>2, Counted
  <2>4. \A j \in Slots \ {i} : queues'[j] = queues[j]
    BY <2>1 DEF QInv
  <2>5. Sound(queues'[i], serial, written)
    BY <1>2, <1>3, <1>8, <2>3 DEF Sound
  <2>6. queues' \in [Slots -> QueueObject] /\ \A j \in Slots : Sound(queues'[j], serial, written)
    <3>1. queues' \in [Slots -> QueueObject]
      BY <1>1, <2>1, <2>2, <2>3 DEF QInv
    <3> QED
      BY <2>4, <2>5, <3>1 DEF QInv
  <2>7. SlotIsPinned'
    <3>1. \A j \in Slots : queues'[j].waiters = Cardinality(InSlot(j)')
      <4>1. queues'[i].waiters = Cardinality(InSlot(i)')
        BY <1>3, <1>6, <2>3
      <4> QED
        BY <1>6, <2>4, <4>1 DEF QInv, SlotIsPinned
    <3>2. \A j \in Slots : \A r \in InSlot(j)' : r \in InSlot(j) /\ readers'[r] = readers[r]
      BY <1>5, <1>6 DEF InSlot
    <3> QED
      BY <2>3, <2>4, <3>1, <3>2 DEF QInv, SlotIsPinned
  <2>8. NamesOneQueue'
    BY <2>3, <2>4 DEF QInv, NamesOneQueue
  <2>9. \A r \in Threads : Coming(r)'
    <3>1. \A j \in Slots, k \in 1..serial : Holds(j, k)' <=> Holds(j, k)
      BY <2>3, <2>4 DEF Holds
    <3>2. \A j \in Slots : queues'[j].owner = queues[j].owner
      BY <2>3, <2>4
    <3>3. Coming(t)'
      BY <1>0, <1>1, <1>5, <3>1, <3>2 DEF QInv, Coming
    <3>4. ASSUME NEW r \in Threads \ {t}
          PROVE  Coming(r)'
      BY <1>1, <1>5, <3>1, <3>2 DEF QInv, Coming
    <3> QED
      BY <3>3, <3>4
  <2> QED
    BY <1>1, <1>5, <2>6, <2>7, <2>8, <2>9 DEF QInv
<1> QED
  BY <1>7, <1>8

\* Every call keeps the invariant.
LEMMA QInvStep == QInv /\ [Next]_vars => QInv'
<1> SUFFICES ASSUME QInv, [Next]_vars
             PROVE  QInv'
  OBVIOUS
<1>1. CASE UNCHANGED vars
  BY <1>1, RefusedKeeps
<1>2. ASSUME NEW t \in Threads, NEW n \in Names,
             DosOpenQueue(t, n) \/ \E o \in Orders : DosCreateQueue(t, n, o)
      PROVE  QInv'
  BY <1>2, OpenKeeps, CreateKeeps
<1>3. ASSUME NEW t \in Threads, NEW h \in Handles, written < MaxWrites,
             NEW p \in Priorities, DosWriteQueue(t, h, p)
      PROVE  QInv'
  BY <1>3, WriteKeeps
<1>4. ASSUME NEW t \in Threads, NEW h \in Handles, NEW wait \in BOOLEAN,
             DosReadQueue(t, h, wait)
      PROVE  QInv'
  BY <1>4, SectionKeeps DEF DosReadQueue, Idle, Handles
<1>5. ASSUME NEW t \in Threads, NEW h \in Handles,
             DosQueryQueue(t, h) \/ DosPurgeQueue(t, h) \/ DosCloseQueue(t, h)
      PROVE  QInv'
  <2>1. CASE DosQueryQueue(t, h)
    BY <2>1, RefusedKeeps DEF DosQueryQueue, Refuse
  <2> QED
    BY <1>5, <2>1, PurgeKeeps, CloseKeeps
<1>6. ASSUME NEW t \in Threads, Continue(t)
      PROVE  QInv'
  <2>1. CASE ReadAgain(t)
    <3>1. /\ readers[t].at = "retry" /\ readers[t].handle \in 1..serial
          /\ ReadSection(t, readers[t].handle, TRUE) /\ UNCHANGED <<serial, written>>
      BY <2>1 DEF ReadAgain, QInv, Coming
    <3>2. PICK h \in 1..serial : h = readers[t].handle
      BY <3>1
    <3>3. ReadSection(t, h, TRUE)
      BY <3>1, <3>2
    <3> QED
      BY <3>1, <3>3, SectionKeeps
  <2> QED
    BY <1>6, <2>1, WakeKeeps, UnwindKeeps DEF Continue
<1> QED
  BY <1>1, <1>2, <1>3, <1>4, <1>5, <1>6 DEF Next, Call

\* The inductive invariant holds in every state of the queues.
THEOREM QInvariance == Spec => []QInv
  BY QInvInit, QInvStep, PTL DEF Spec

-----------------------------------------------------------------------------
(***************************************************************************)
(* The properties                                                          *)
(***************************************************************************)

\* Type correctness: no queue overflows and no handle passes the serial
\* number.
THEOREM QTypeCorrect == Spec => []QTypeOK
<1>1. QInv => QTypeOK
  BY DEF QInv, QTypeOK, Sound
<1> QED
  BY <1>1, QInvariance, PTL

\* A reader comes back to the very queue it waited for.
THEOREM PinnedSlots == Spec => []SlotIsPinned
<1>1. QInv => SlotIsPinned
  BY DEF QInv
<1> QED
  BY <1>1, QInvariance, PTL

\* The event of a queue never strands a reader and never makes it spin.
THEOREM TrueEvents == Spec => []EventTellsTruth
<1>1. QInv => EventTellsTruth
  BY DEF QInv, Sound, EventTellsTruth
<1> QED
  BY <1>1, QInvariance, PTL

\* A name or a handle means at most one queue.
THEOREM UniqueNames == Spec => []NamesOneQueue
<1>1. QInv => NamesOneQueue
  BY DEF QInv
<1> QED
  BY <1>1, QInvariance, PTL

\* A read that waited ends with an element or with its queue closed.
THEOREM WaitsEndRight == Spec => WaitEndsRight
<1> DEFINE Right(t) == \/ rc' = "NO_ERROR"
                       \/ rc' = "INVALID_HANDLE" /\ ~IsHandle(readers[t].handle)
                       \/ rc' = "INVALID_HANDLE" /\ BackendMayFail
           Ends == \A t \in Threads :
                      readers[t].at # "outside" /\ readers'[t].at = "outside" => Right(t)
<1>1. QInv /\ [Next]_vars => [Ends]_vars
  <2> SUFFICES ASSUME QInv, Next, NEW t \in Threads,
                      readers[t].at # "outside", readers'[t].at = "outside"
               PROVE  Right(t)
    OBVIOUS
  <2>1. Continue(t)
    <3>1. ASSUME NEW r \in Threads \ {t}, Call(r) \/ Continue(r)
          PROVE  readers'[t] = readers[t]
      BY ZenonT(30), <3>1
      DEF QInv, Call, Continue, DosCreateQueue, DosOpenQueue, DosWriteQueue,
          DosReadQueue, DosQueryQueue, DosPurgeQueue, DosCloseQueue, Refuse,
          ReadSection, TakeFirst, Leave, Wake, ReadUnwind, ReadAgain
    <3>2. ~Call(t)
      BY DEF Call, Idle, DosCreateQueue, DosOpenQueue, DosWriteQueue,
         DosReadQueue, DosQueryQueue, DosPurgeQueue, DosCloseQueue
    <3> QED
      BY <3>1, <3>2 DEF Next
  <2>2. CASE Wake(t)
    BY <2>2 DEF Wake, QInv, Reader
  <2>3. CASE ReadUnwind(t)
    <3>1. PICK i \in Slots : i = readers[t].slot
      BY <2>3 DEF QInv, Coming
    <3>2. /\ t \in InSlot(i) /\ rc' = "INVALID_HANDLE"
          /\ queues[i].used = 2 \/ BackendMayFail
      <4>1. t \in InSlot(i)
        BY <2>3, <3>1 DEF ReadUnwind, InSlot
      <4>2. queues[i].used = 2 \/ readers[t].woken = "FAILED"
        <5>1. ASSUME readers' = [readers EXCEPT ![t].at = "retry"]
              PROVE  FALSE
          BY <5>1 DEF QInv, Reader
        <5> QED
          BY <2>3, <3>1, <5>1 DEF ReadUnwind
      <4>3. rc' = "INVALID_HANDLE"
        BY <2>3, <3>1, <4>2 DEF ReadUnwind, Return
      <4> QED
        BY <4>1, <4>2, <4>3 DEF QInv, Coming
    <3>3. queues[i].used = 2 => ~IsHandle(readers[t].handle)
      BY <3>2 DEF QInv, SlotIsPinned, NamesOneQueue, IsHandle, Holds
    <3> QED
      BY <3>2, <3>3
  <2>4. CASE ReadAgain(t)
    <3>1. PICK h : h = readers[t].handle
      OBVIOUS
    <3>2. ReadSection(t, h, TRUE)
      BY <2>4, <3>1 DEF ReadAgain
    <3>3. CASE ~IsHandle(h) /\ Return("INVALID_HANDLE")
      BY <3>1, <3>3 DEF Return
    <3>4. ASSUME NEW i \in Slots, Holds(i, h), Pid[t] # queues[i].owner
          PROVE  FALSE
      BY <3>1, <3>4 DEF QInv, Coming
    <3>5. ASSUME NEW i \in Slots, TakeFirst(i)
          PROVE  Right(t)
      BY <3>5 DEF TakeFirst, Return
    <3>6. ASSUME NEW i \in Slots,
                 readers' = [readers EXCEPT ![t] =
                    [at |-> "waiting", handle |-> h, slot |-> i, woken |-> "READY"]]
          PROVE  FALSE
      BY <3>6 DEF QInv
    <3> HIDE DEF Right
    <3> QED
      BY <3>2, <3>3, <3>4, <3>5, <3>6 DEF ReadSection
  <2> QED
    BY <2>1, <2>2, <2>3, <2>4 DEF Continue
<1> QED
  BY <1>1, QInvariance, PTL DEF Spec, WaitEndsRight, Right, Ends
-----------------------------------------------------------------------------
(***************************************************************************)
(* The refinement of QueueService                                          *)
(*                                                                         *)
(* A list stands for the set of its elements, so the order of the list must *)
(* be the discipline's, and an element must be in one place and not yet     *)
(* delivered.                                                              *)
(***************************************************************************)

\* Each element is read before those behind it.
InOrder(order, s) ==
    \A k, l \in 1..Len(s) : k < l => Service!Precedes(order, s[k], s[l])

\* No element that is still to be read has been delivered before.
Undelivered ==
    \A i \in Slots : \A k \in 1..Len(queues[i].entries) :
        queues[i].entries[k].id \notin delivered

\* An element is at one place of one list.
OnePlace ==
    \A i, j \in Slots :
        \A k \in 1..Len(queues[i].entries), l \in 1..Len(queues[j].entries) :
            queues[i].entries[k].id = queues[j].entries[l].id => i = j /\ k = l

RInv ==
    /\ QInv
    /\ \A i \in Slots : InOrder(queues[i].order, queues[i].entries)
    /\ Undelivered
    /\ OnePlace

\* An element is not read before itself.
LEMMA NotBeforeItself ==
  ASSUME NEW order, NEW w \in Nat, NEW e \in Accepted(w)
  PROVE  ~Service!Precedes(order, e, e)
<1>1. e.id \in Int /\ e.priority \in Int
  <2>1. e.id \in 1..w /\ e.priority \in Priorities
    BY DEF Accepted
  <2>2. e.priority \in Nat
    BY <2>1, QueueAssumption
  <2>3. e.id \in Int
    BY <2>1
  <2> QED
    BY <2>2, <2>3
<1> QED
  BY <1>1 DEF Service!Precedes

\* The elements of a list that loses its first one.
LEMMA WithoutFirst ==
  ASSUME NEW order, NEW w \in Nat, NEW s \in Seq(Accepted(w)), s # <<>>,
         InOrder(order, s)
  PROVE  /\ Head(s) \in ToSet(s)
         /\ \A f \in ToSet(s) \ {Head(s)} : Service!Precedes(order, Head(s), f)
         /\ ToSet(Tail(s)) = ToSet(s) \ {Head(s)}
         /\ InOrder(order, Tail(s))
<1>1. Len(s) \in Nat \ {0} /\ Head(s) = s[1] /\ \A k \in 1..Len(s) : s[k] \in Accepted(w)
  BY EmptySeq
<1>2. /\ Len(Tail(s)) = Len(s) - 1
      /\ \A k \in 1..Len(s) - 1 : Tail(s)[k] = s[k + 1]
      /\ DOMAIN Tail(s) = 1..Len(s) - 1 /\ DOMAIN s = 1..Len(s)
  OBVIOUS
<1>3. \A k \in 2..Len(s) : Service!Precedes(order, s[1], s[k]) /\ s[k] # s[1]
  <2>1. \A k \in 2..Len(s) : Service!Precedes(order, s[1], s[k])
    BY <1>1 DEF InOrder
  <2>2. ~Service!Precedes(order, s[1], s[1])
    BY <1>1, NotBeforeItself
  <2> QED
    BY <2>1, <2>2
<1>4. Head(s) \in ToSet(s)
  BY <1>1, <1>2 DEF ToSet
<1>5. \A f \in ToSet(s) \ {Head(s)} : Service!Precedes(order, Head(s), f)
  <2> SUFFICES ASSUME NEW f \in ToSet(s) \ {Head(s)}
               PROVE  Service!Precedes(order, s[1], f)
    BY <1>1
  <2>1. PICK k \in 1..Len(s) : f = s[k]
    BY <1>2 DEF ToSet
  <2>2. k \in 2..Len(s)
    BY <1>1, <2>1
  <2> QED
    BY <1>3, <2>1, <2>2
<1>6. ToSet(Tail(s)) \subseteq ToSet(s) \ {Head(s)}
  <2> SUFFICES ASSUME NEW f \in ToSet(Tail(s))
               PROVE  f \in ToSet(s) /\ f # s[1]
    BY <1>1
  <2>1. PICK k \in 1..Len(s) - 1 : f = s[k + 1]
    BY <1>2 DEF ToSet
  <2>2. k + 1 \in 2..Len(s) /\ k + 1 \in 1..Len(s)
    BY <1>1
  <2> QED
    BY <1>2, <1>3, <2>1, <2>2 DEF ToSet
<1>7. ToSet(s) \ {Head(s)} \subseteq ToSet(Tail(s))
  <2> SUFFICES ASSUME NEW f \in ToSet(s) \ {Head(s)}
               PROVE  f \in ToSet(Tail(s))
    OBVIOUS
  <2>1. PICK k \in 1..Len(s) : f = s[k]
    BY <1>2 DEF ToSet
  <2>2. k - 1 \in 1..Len(s) - 1 /\ (k - 1) + 1 = k
    BY <1>1, <2>1
  <2>3. Tail(s)[k - 1] = f
    BY <1>2, <2>1, <2>2
  <2> QED
    BY <1>2, <2>2, <2>3 DEF ToSet
<1>8. InOrder(order, Tail(s))
  <2> SUFFICES ASSUME NEW k \in 1..Len(s) - 1, NEW l \in 1..Len(s) - 1, k < l
               PROVE  Service!Precedes(order, Tail(s)[k], Tail(s)[l])
    BY <1>2 DEF InOrder
  <2>1. k + 1 \in 1..Len(s) /\ l + 1 \in 1..Len(s) /\ k + 1 < l + 1
    BY <1>1
  <2> QED
    BY <1>2, <2>1 DEF InOrder
<1> QED
  BY <1>4, <1>5, <1>6, <1>7, <1>8

\* A new element is put where the discipline wants it: behind the elements it
\* must wait for, before those that must wait for it.
LEMMA PositionInOrder ==
  ASSUME NEW q, NEW w \in Nat, NEW p \in Priorities, NEW e \in Accepted(w + 1),
         q.entries \in Seq(Accepted(w)), InOrder(q.order, q.entries),
         q.order \in {"FIFO", "LIFO", "PRIORITY"},
         e.id = w + 1, e.priority = p
  PROVE  \A k \in 1..Len(q.entries) :
            IF k < InsertPosition(q, p)
            THEN Service!Precedes(q.order, q.entries[k], e)
            ELSE Service!Precedes(q.order, e, q.entries[k])
<1> DEFINE s == q.entries
           n == Len(s)
           lower == {i \in 1..n : s[i].priority < p}
<1>1. n \in Nat /\ p \in Int
  BY QueueAssumption
<1>2. \A k \in 1..n : s[k].id \in 1..w /\ s[k].priority \in Priorities /\ s[k].priority \in Int
  <2>1. \A k \in 1..n : s[k] \in Accepted(w)
    OBVIOUS
  <2>2. \A f \in Accepted(w) : f.id \in 1..w /\ f.priority \in Priorities
    BY DEF Accepted
  <2>3. \A f \in Accepted(w) : f.priority \in Nat
    BY <2>2, QueueAssumption
  <2> QED
    BY <2>1, <2>2, <2>3
<1> SUFFICES ASSUME NEW k \in 1..n
             PROVE  IF k < InsertPosition(q, p)
                    THEN Service!Precedes(q.order, s[k], e)
                    ELSE Service!Precedes(q.order, e, s[k])
  OBVIOUS
<1>3. s[k].id < w + 1 /\ s[k].priority \in Int /\ s[k].id \in Int
  BY <1>2
<1>4. CASE q.order = "LIFO"
  <2>1. InsertPosition(q, p) = 1
    BY <1>4 DEF InsertPosition
  <2> QED
    BY <1>3, <1>4, <2>1 DEF Service!Precedes
<1>5. CASE q.order = "FIFO"
  <2>1. InsertPosition(q, p) = n + 1
    BY <1>5 DEF InsertPosition
  <2> QED
    BY <1>1, <1>3, <1>5, <2>1 DEF Service!Precedes
<1>6. CASE q.order = "PRIORITY" /\ lower = {}
  <2>1. InsertPosition(q, p) = n + 1
    BY <1>6 DEF InsertPosition
  <2>2. ~(s[k].priority < p)
    BY <1>6
  <2> QED
    BY <1>1, <1>3, <1>6, <2>1, <2>2 DEF Service!Precedes
<1>7. CASE q.order = "PRIORITY" /\ lower # {}
  <2> DEFINE i == CHOOSE i \in lower : \A j \in lower : i <= j
  <2>1. \E m \in lower : \A j \in lower : m <= j
    <3>1. lower \subseteq Nat
      OBVIOUS
    <3> HIDE DEF lower
    <3> QED
      BY <1>7, <3>1, LeastExists
  <2>2. i \in lower /\ \A j \in lower : i <= j
    <3> HIDE DEF lower
    <3> QED
      BY <2>1
  <2>3. InsertPosition(q, p) = i
    BY <1>7 DEF InsertPosition
  <2> HIDE DEF i
  <2>4. i \in 1..n /\ s[i].priority < p /\ s[i].priority \in Int
    BY <1>2, <2>2
  <2>5. CASE k < i
    <3>1. ~(s[k].priority < p)
      BY <2>2, <2>4, <2>5
    <3> QED
      BY <1>1, <1>3, <1>7, <2>3, <2>5, <3>1 DEF Service!Precedes
  <2>6. CASE ~(k < i)
    <3>1. s[k].priority <= s[i].priority
      <4>1. CASE k = i
        BY <4>1, <2>4
      <4>2. CASE k # i
        <5>1. Service!Precedes(q.order, s[i], s[k])
          BY <2>4, <2>6, <4>2 DEF InOrder
        <5> QED
          BY <1>3, <1>7, <2>4, <5>1 DEF Service!Precedes
      <4> QED
        BY <4>1, <4>2
    <3>2. e.priority > s[k].priority
      BY <1>1, <1>3, <2>4, <3>1
    <3> QED
      BY <1>7, <2>3, <2>6, <3>2 DEF Service!Precedes
  <2> QED
    BY <2>5, <2>6
<1> QED
  BY <1>4, <1>5, <1>6, <1>7

\* What a new element e makes of a list s of the elements accepted before it.
Grown(order, s, e, w, r) ==
    /\ r \in Seq(Accepted(w + 1)) /\ Len(r) = Len(s) + 1
    /\ ToSet(r) = ToSet(s) \cup {e}
    /\ \A k \in 1..Len(s) + 1 : r[k] = e \/ \E m \in 1..Len(s) : r[k] = s[m]
    /\ InOrder(order, r)
    /\ \A k, l \in 1..Len(s) + 1 : r[k].id = r[l].id => k = l

\* Each element of a list is there once.
Distinct(s) == \A k, l \in 1..Len(s) : s[k].id = s[l].id => k = l

\* A list in the order of its discipline, with no element twice, is one still
\* when a new element is put at its position.
LEMMA Inserted ==
  ASSUME NEW q, NEW w \in Nat, NEW p \in Priorities, NEW e \in Accepted(w + 1),
         q.entries \in Seq(Accepted(w)), InOrder(q.order, q.entries), Distinct(q.entries),
         q.order \in {"FIFO", "LIFO", "PRIORITY"},
         e.id = w + 1, e.priority = p
  PROVE  Grown(q.order, q.entries, e, w, InsertAt(q.entries, InsertPosition(q, p), e))
<1>0. PICK s \in Seq(Accepted(w)), i \in {InsertPosition(q, p)},
            r \in {InsertAt(q.entries, InsertPosition(q, p), e)} :
         /\ s = q.entries /\ i = InsertPosition(q, p) /\ r = InsertAt(s, i, e)
  OBVIOUS
<1> DEFINE n == Len(s)
           From(k) == IF k < i THEN k ELSE k - 1
<1>1. n \in Nat /\ i \in 1..n + 1
  <2>1. n \in Nat /\ p \in Nat /\ n = Len(q.entries)
    BY <1>0, QueueAssumption
  <2> QED
    BY <1>0, <2>1, PositionInRange
<1>2. \A k \in 1..n : s[k] \in Accepted(w) /\ s[k].id \in 1..w /\ s[k].id # w + 1
  <2>1. \A k \in 1..n : s[k] \in Accepted(w)
    OBVIOUS
  <2>2. \A f \in Accepted(w) : f.id \in 1..w /\ f.id # w + 1
    BY DEF Accepted
  <2> QED
    BY <2>1, <2>2
<1>3. s \in Seq(Accepted(w + 1))
  BY AcceptedLater
<1>4. /\ r \in Seq(Accepted(w + 1)) /\ Len(r) = n + 1
      /\ \A k \in 1..n + 1 : r[k] = IF k < i THEN s[k] ELSE IF k = i THEN e ELSE s[k - 1]
  <2>1. PICK z \in Seq(Accepted(w + 1)), m \in 1..n + 1 : z = s /\ m = i
    BY <1>1, <1>3
  <2>2. Len(z) = n
    BY <2>1
  <2>3. m \in 1..Len(z) + 1
    BY <2>2
  <2>4. InsertAt(z, m, e) \in Seq(Accepted(w + 1))
    BY <2>3, InsertIs
  <2>5. Len(InsertAt(z, m, e)) = n + 1
    BY <2>2, <2>3, InsertIs
  <2>6. ASSUME NEW k \in 1..Len(z) + 1
        PROVE  InsertAt(z, m, e)[k] = IF k < m THEN z[k] ELSE IF k = m THEN e ELSE z[k - 1]
    BY <2>3, InsertIs
  <2> QED
    BY <1>0, <2>1, <2>2, <2>4, <2>5, <2>6
<1>5. r[i] = e
  <2>1. \A k \in 1..n + 1 : r[k] = IF k < i THEN s[k] ELSE IF k = i THEN e ELSE s[k - 1]
    BY <1>4
  <2>2. i \in 1..n + 1 /\ ~(i < i)
    BY <1>1
  <2>3. r[i] = IF i < i THEN s[i] ELSE IF i = i THEN e ELSE s[i - 1]
    BY <2>1, <2>2, Zenon
  <2> QED
    BY <2>2, <2>3, Zenon
<1>6. \A k \in (1..n + 1) \ {i} : From(k) \in 1..n /\ r[k] = s[From(k)]
  <2>1. \A k \in (1..n + 1) \ {i} : From(k) \in 1..n
    BY <1>1
  <2>2. \A k \in 1..n + 1 : r[k] = IF k < i THEN s[k] ELSE IF k = i THEN e ELSE s[k - 1]
    BY <1>4
  <2>3. ASSUME NEW k \in (1..n + 1) \ {i}
        PROVE  r[k] = s[From(k)]
    <3>1. k \in 1..n + 1 /\ k # i
      OBVIOUS
    <3>2. r[k] = IF k < i THEN s[k] ELSE s[k - 1]
      BY <2>2, <3>1
    <3> QED
      BY <3>2
  <2> QED
    BY <2>1, <2>3
<1>7. \A k, l \in (1..n + 1) \ {i} : /\ k < l => From(k) < From(l)
                                     /\ From(k) = From(l) => k = l
                                     /\ k < i => From(k) < i
                                     /\ i < k => ~(From(k) < i)
  BY <1>1
<1> HIDE DEF From
<1>8. \A k \in 1..n : IF k < i THEN Service!Precedes(q.order, s[k], e)
                      ELSE Service!Precedes(q.order, e, s[k])
  BY <1>0, PositionInOrder
<1>9. \A k \in 1..n + 1 : r[k] = e \/ \E m \in 1..n : r[k] = s[m]
  BY <1>5, <1>6
<1>10. ToSet(r) = ToSet(s) \cup {e}
  <2>1. ToSet(r) \subseteq ToSet(s) \cup {e}
    BY <1>4, <1>9 DEF ToSet
  <2>2. \A m \in 1..n : \E k \in 1..n + 1 : r[k] = s[m]
    <3> SUFFICES ASSUME NEW m \in 1..n
                 PROVE  \E k \in 1..n + 1 : r[k] = s[m]
      OBVIOUS
    <3>1. CASE m < i
      <4>1. m \in 1..n + 1 /\ r[m] = s[m]
        BY <1>1, <1>4, <3>1
      <4> QED
        BY <4>1
    <3>2. CASE ~(m < i)
      <4>1. m + 1 \in 1..n + 1 /\ (m + 1) - 1 = m /\ ~(m + 1 < i) /\ m + 1 # i
        BY <1>1, <3>2
      <4>2. r[m + 1] = s[m]
        BY <1>4, <4>1
      <4> QED
        BY <4>1, <4>2
    <3> QED
      BY <3>1, <3>2
  <2>3. ToSet(s) \subseteq ToSet(r)
    <3> SUFFICES ASSUME NEW f \in ToSet(s)
                 PROVE  f \in ToSet(r)
      OBVIOUS
    <3>1. PICK m \in 1..n : f = s[m]
      BY DEF ToSet
    <3>2. PICK k \in 1..n + 1 : r[k] = f
      BY <2>2, <3>1
    <3>3. k \in DOMAIN r
      BY <1>4
    <3> QED
      BY <3>2, <3>3, Zenon DEF ToSet
  <2>4. e \in ToSet(r)
    BY <1>1, <1>4, <1>5 DEF ToSet
  <2> QED
    BY <2>1, <2>3, <2>4
<1>11. InOrder(q.order, r)
  <2> SUFFICES ASSUME NEW k \in 1..n + 1, NEW l \in 1..n + 1, k < l
               PROVE  Service!Precedes(q.order, r[k], r[l])
    BY <1>4 DEF InOrder
  <2>1. CASE k # i /\ l # i
    <3>1. From(k) \in 1..n /\ From(l) \in 1..n /\ From(k) < From(l)
      BY <1>6, <1>7, <2>1
    <3> QED
      BY <1>0, <1>6, <2>1, <3>1 DEF InOrder
  <2>2. CASE k = i
    <3>1. l \in (1..n + 1) \ {i} /\ i < l
      BY <1>1, <2>2
    <3>2. From(l) \in 1..n /\ ~(From(l) < i) /\ r[l] = s[From(l)]
      BY <1>6, <1>7, <3>1
    <3> QED
      BY <1>5, <1>8, <2>2, <3>2
  <2>3. CASE l = i
    <3>1. k \in (1..n + 1) \ {i} /\ k < i
      BY <1>1, <2>3
    <3>2. From(k) \in 1..n /\ From(k) < i /\ r[k] = s[From(k)]
      BY <1>6, <1>7, <3>1
    <3> QED
      BY <1>5, <1>8, <2>3, <3>2
  <2> QED
    BY <2>1, <2>2, <2>3
<1>12. \A k, l \in 1..n + 1 : r[k].id = r[l].id => k = l
  <2> SUFFICES ASSUME NEW k \in 1..n + 1, NEW l \in 1..n + 1, r[k].id = r[l].id
               PROVE  k = l
    OBVIOUS
  <2>1. CASE k # i /\ l # i
    <3>1. From(k) \in 1..n /\ From(l) \in 1..n
      BY <1>6, <2>1
    <3>2. From(k) = From(l)
      BY SMTT(30), <1>0, <1>6, <2>1, <3>1 DEF Distinct
    <3> QED
      BY <1>7, <2>1, <3>2
  <2>2. CASE k = i /\ l # i
    BY <1>2, <1>5, <1>6, <2>2
  <2>3. CASE k # i /\ l = i
    BY <1>2, <1>5, <1>6, <2>3
  <2> QED
    BY <2>1, <2>2, <2>3
<1> QED
  BY <1>0, <1>4, <1>9, <1>10, <1>11, <1>12 DEF Grown

-----------------------------------------------------------------------------
(***************************************************************************)
(* What a handle means                                                     *)
(***************************************************************************)

\* A queue object as the service sees it.
Content(q) == [order |-> q.order, elements |-> ToSet(q.entries)]

\* Slot i of the table qs holds the open queue of handle h.
Means(qs, i, h) == qs[i].used = 1 /\ qs[i].handle = h

\* The abstract queues of a table.
ViewOf(qs) ==
    [h \in 1..MaxSerial |->
        IF \E i \in Slots : Means(qs, i, h)
        THEN Content(qs[CHOOSE i \in Slots : Means(qs, i, h)])
        ELSE [order |-> "none", elements |-> {}]]

\* A handle means at most one slot.
OneMeaning(qs) == \A i, j \in Slots, h \in 1..MaxSerial :
                     Means(qs, i, h) /\ Means(qs, j, h) => i = j

\* The handle of an open queue means its elements.
LEMMA ViewOpen ==
  ASSUME NEW qs, OneMeaning(qs), NEW i \in Slots, NEW h \in 1..MaxSerial, Means(qs, i, h)
  PROVE  ViewOf(qs)[h] = Content(qs[i])
<1>1. (CHOOSE j \in Slots : Means(qs, j, h)) = i
  BY DEF OneMeaning
<1> QED
  BY <1>1 DEF ViewOf

\* Any other handle means nothing.
LEMMA ViewClosed ==
  ASSUME NEW qs, NEW h \in 1..MaxSerial, \A i \in Slots : ~Means(qs, i, h)
  PROVE  ViewOf(qs)[h] = [order |-> "none", elements |-> {}]
  BY DEF ViewOf

\* What a slot that means nothing or has a handle h does changes the view at h
\* only.
LEMMA ViewChanges ==
  ASSUME NEW qs, NEW rs, OneMeaning(qs), OneMeaning(rs),
         NEW i \in Slots, NEW h \in 1..MaxSerial,
         \A j \in Slots \ {i} : rs[j] = qs[j] /\ ~Means(qs, j, h),
         \A k \in 1..MaxSerial : Means(qs, i, k) \/ Means(rs, i, k) => k = h
  PROVE  ViewOf(rs) = [ViewOf(qs) EXCEPT ![h] =
                          IF Means(rs, i, h) THEN Content(rs[i])
                          ELSE [order |-> "none", elements |-> {}]]
<1> DEFINE c == IF Means(rs, i, h) THEN Content(rs[i])
                ELSE [order |-> "none", elements |-> {}]
           v == [ViewOf(qs) EXCEPT ![h] = c]
<1>1. ASSUME NEW k \in 1..MaxSerial
      PROVE  ViewOf(rs)[k] = v[k]
  <2>1. CASE k = h
    <3>1. v[k] = c
      BY <2>1 DEF ViewOf
    <3>2. CASE Means(rs, i, h)
      BY <2>1, <3>1, <3>2, ViewOpen
    <3>3. CASE ~Means(rs, i, h)
      <4>1. \A j \in Slots : ~Means(rs, j, h)
        BY <3>3 DEF Means
      <4> QED
        BY <2>1, <3>1, <3>3, <4>1, ViewClosed
    <3> QED
      BY <3>2, <3>3
  <2>2. CASE k # h
    <3>1. v[k] = ViewOf(qs)[k]
      BY <2>2 DEF ViewOf
    <3>2. \A j \in Slots : Means(rs, j, k) <=> Means(qs, j, k)
      BY <2>2 DEF Means
    <3>3. CASE \E j \in Slots : Means(qs, j, k)
      <4>1. PICK j \in Slots : Means(qs, j, k)
        BY <3>3
      <4>2. rs[j] = qs[j]
        BY <2>2, <4>1
      <4>3. ViewOf(qs)[k] = Content(qs[j])
        BY <4>1, ViewOpen
      <4>4. ViewOf(rs)[k] = Content(rs[j])
        BY <3>2, <4>1, ViewOpen
      <4> QED
        BY <3>1, <4>2, <4>3, <4>4
    <3>4. CASE ~\E j \in Slots : Means(qs, j, k)
      <4>1. ViewOf(qs)[k] = [order |-> "none", elements |-> {}]
        BY <3>4, ViewClosed
      <4>2. ViewOf(rs)[k] = [order |-> "none", elements |-> {}]
        BY <3>2, <3>4, ViewClosed
      <4> QED
        BY <3>1, <4>1, <4>2
    <3> QED
      BY <3>3, <3>4
  <2> QED
    BY <2>1, <2>2
<1>2. /\ ViewOf(rs) = [k \in 1..MaxSerial |-> ViewOf(rs)[k]]
      /\ v = [k \in 1..MaxSerial |-> v[k]]
  BY Zenon DEF ViewOf
<1> QED
  BY <1>1, <1>2

\* Two tables with the same open queues have the same view.
LEMMA ViewSame ==
  ASSUME NEW qs, NEW rs, OneMeaning(qs), OneMeaning(rs),
         \A i \in Slots, h \in 1..MaxSerial :
            /\ Means(rs, i, h) <=> Means(qs, i, h)
            /\ Means(qs, i, h) => Content(rs[i]) = Content(qs[i])
  PROVE  ViewOf(rs) = ViewOf(qs)
<1>1. ASSUME NEW k \in 1..MaxSerial
      PROVE  ViewOf(rs)[k] = ViewOf(qs)[k]
  <2>1. CASE \E j \in Slots : Means(qs, j, k)
    <3>1. PICK j \in Slots : Means(qs, j, k)
      BY <2>1
    <3>2. ViewOf(qs)[k] = Content(qs[j])
      BY <3>1, ViewOpen
    <3>3. ViewOf(rs)[k] = Content(rs[j])
      BY <3>1, ViewOpen
    <3> QED
      BY <3>1, <3>2, <3>3
  <2>2. CASE ~\E j \in Slots : Means(qs, j, k)
    <3>1. ViewOf(qs)[k] = [order |-> "none", elements |-> {}]
      BY <2>2, ViewClosed
    <3>2. ViewOf(rs)[k] = [order |-> "none", elements |-> {}]
      BY <2>2, ViewClosed
    <3> QED
      BY <3>1, <3>2
  <2> QED
    BY <2>1, <2>2
<1>2. /\ ViewOf(rs) = [k \in 1..MaxSerial |-> ViewOf(rs)[k]]
      /\ ViewOf(qs) = [k \in 1..MaxSerial |-> ViewOf(qs)[k]]
  BY Zenon DEF ViewOf
<1> QED
  BY <1>1, <1>2

\* The queues the service is given.
View == [h \in 1..MaxSerial |->
            IF IsHandle(h)
            THEN LET i == CHOOSE j \in Slots : Holds(j, h)
                 IN  [order |-> queues[i].order, elements |-> ToSet(queues[i].entries)]
            ELSE [order |-> "none", elements |-> {}]]

\* They are those of the table, before a step and after it.
LEMMA ViewIs == View = ViewOf(queues) /\ View' = ViewOf(queues')
<1>1. View = ViewOf(queues)
  BY Zenon DEF View, ViewOf, Content, Means, IsHandle, Holds
<1>2. View' = ViewOf(queues')
  BY Zenon DEF View, ViewOf, Content, Means, IsHandle, Holds
<1> QED
  BY <1>1, <1>2

\* Handles mean one queue in every state of the invariant.
LEMMA OneMeaningNow == QInv => OneMeaning(queues)
  BY DEF QInv, NamesOneQueue, OneMeaning, Means

\* Likewise after a step.
LEMMA OneMeaningNext == QInv' => OneMeaning(queues')
  BY DEF QInv, NamesOneQueue, OneMeaning, Means

-----------------------------------------------------------------------------
(***************************************************************************)
(* Every step of the queues is a step of the service, or none              *)
(***************************************************************************)

\* The step keeps the lists in order and does what the service may do.
Faithful == RInv' /\ (Service!Next \/ UNCHANGED Service!vars)

\* Lists that stay or are emptied are as sound as before.
LEMMA ListsKept ==
  ASSUME RInv, QInv', delivered' = delivered,
         \A i \in Slots : \/ queues'[i].entries = <<>>
                          \/ /\ queues'[i].entries = queues[i].entries
                             /\ queues'[i].order = queues[i].order
  PROVE  RInv'
<1>1. \A i \in Slots : \A k \in 1..Len(queues'[i].entries) :
         /\ k \in 1..Len(queues[i].entries)
         /\ queues'[i].entries[k] = queues[i].entries[k]
  BY NoElements
<1>2. \A i \in Slots : InOrder(queues'[i].order, queues'[i].entries)
  <2> SUFFICES ASSUME NEW i \in Slots
               PROVE  InOrder(queues'[i].order, queues'[i].entries)
    OBVIOUS
  <2>1. CASE queues'[i].entries = <<>>
    BY <2>1, NoElements DEF InOrder
  <2>2. CASE queues'[i].entries = queues[i].entries /\ queues'[i].order = queues[i].order
    BY <2>2 DEF RInv
  <2> QED
    BY <2>1, <2>2
<1>3. Undelivered'
  BY <1>1 DEF RInv, Undelivered
<1>4. OnePlace'
  <2> SUFFICES ASSUME NEW i \in Slots, NEW j \in Slots,
                      NEW k \in 1..Len(queues'[i].entries),
                      NEW l \in 1..Len(queues'[j].entries),
                      queues'[i].entries[k].id = queues'[j].entries[l].id
               PROVE  i = j /\ k = l
    BY DEF OnePlace
  <2>1. /\ k \in 1..Len(queues[i].entries) /\ l \in 1..Len(queues[j].entries)
        /\ queues[i].entries[k].id = queues[j].entries[l].id
    BY <1>1
  <2> QED
    BY <2>1 DEF RInv, OnePlace
<1> QED
  BY <1>2, <1>3, <1>4 DEF RInv

\* A step that leaves every open queue as it is.
LEMMA Quiet ==
  ASSUME RInv, QInv', UNCHANGED <<serial, written, delivered>>,
         \A i \in Slots :
            /\ queues'[i].used = 1 <=> queues[i].used = 1
            /\ queues[i].used = 1 => queues'[i].handle = queues[i].handle
            /\ \/ queues'[i].entries = <<>> /\ queues[i].used # 1
               \/ /\ queues'[i].entries = queues[i].entries
                  /\ queues'[i].order = queues[i].order
  PROVE  Faithful
<1>1. RInv'
  BY ListsKept
<1>2. View' = View
  <2>1. \A i \in Slots, h \in 1..MaxSerial :
           /\ Means(queues', i, h) <=> Means(queues, i, h)
           /\ Means(queues, i, h) => Content(queues'[i]) = Content(queues[i])
    BY DEF Means, Content
  <2>2. OneMeaning(queues) /\ OneMeaning(queues')
    BY OneMeaningNow, OneMeaningNext DEF RInv
  <2>3. ViewOf(queues') = ViewOf(queues)
    BY <2>1, <2>2, ViewSame
  <2> QED
    BY <2>3, ViewIs
<1>3. UNCHANGED Service!vars
  BY <1>2 DEF Service!vars, View
<1> QED
  BY <1>1, <1>3 DEF Faithful

\* A refused call, or one that only touches the readers.
LEMMA Unseen ==
  ASSUME RInv, QInv', UNCHANGED <<serial, queues, written, delivered>>
  PROVE  Faithful
  BY Quiet

\* One open queue changes: what the service sees of it.
LEMMA QueueSeen ==
  ASSUME RInv, QInv', NEW i \in Slots, NEW h \in 1..MaxSerial, Means(queues, i, h),
         \A j \in Slots \ {i} : queues'[j] = queues[j],
         queues'[i].used = 1 => queues'[i].handle = h
  PROVE  /\ View[h] = Content(queues[i])
         /\ View' = [View EXCEPT ![h] =
                        IF queues'[i].used = 1 THEN Content(queues'[i])
                        ELSE [order |-> "none", elements |-> {}]]
<1>1. OneMeaning(queues) /\ OneMeaning(queues')
  BY OneMeaningNow, OneMeaningNext DEF RInv
<1>2. \A j \in Slots \ {i} : queues'[j] = queues[j] /\ ~Means(queues, j, h)
  BY <1>1 DEF OneMeaning
<1>3. \A k \in 1..MaxSerial : Means(queues, i, k) \/ Means(queues', i, k) => k = h
  BY DEF Means
<1>4. Means(queues', i, h) <=> queues'[i].used = 1
  BY DEF Means
<1>5. ViewOf(queues)[h] = Content(queues[i])
  BY <1>1, ViewOpen
<1>6. ViewOf(queues') = [ViewOf(queues) EXCEPT ![h] =
                            IF Means(queues', i, h) THEN Content(queues'[i])
                            ELSE [order |-> "none", elements |-> {}]]
  BY <1>1, <1>2, <1>3, ViewChanges
<1> QED
  BY <1>4, <1>5, <1>6, ViewIs

\* An open queue loses its elements, or is closed.
LEMMA Emptied ==
  ASSUME RInv, QInv', NEW i \in Slots, NEW h \in 1..MaxSerial, Means(queues, i, h),
         UNCHANGED <<serial, written, delivered>>,
         \A j \in Slots \ {i} : queues'[j] = queues[j],
         queues'[i].entries = <<>>,
         queues'[i].used = 1 => /\ queues'[i].handle = h
                                /\ queues'[i].order = queues[i].order
  PROVE  Faithful
<1>1. RInv'
  BY ListsKept
<1>2. /\ View[h] = Content(queues[i])
      /\ View' = [View EXCEPT ![h] =
                     IF queues'[i].used = 1 THEN Content(queues'[i])
                     ELSE [order |-> "none", elements |-> {}]]
  BY QueueSeen
<1>3. CASE queues'[i].used = 1
  <2>1. Content(queues'[i]) = [Content(queues[i]) EXCEPT !.elements = {}]
    <3>1. ToSet(queues'[i].entries) = {}
      BY DEF ToSet
    <3>2. Content(queues'[i]) = [order |-> queues[i].order, elements |-> {}]
      BY <1>3, <3>1 DEF Content
    <3>3. PICK o, x : o = queues[i].order /\ x = ToSet(queues[i].entries)
      OBVIOUS
    <3>4. Content(queues[i]) = [order |-> o, elements |-> x]
      BY <3>3 DEF Content
    <3>5. \A y : [[order |-> o, elements |-> x] EXCEPT !.elements = y]
                    = [order |-> o, elements |-> y]
      OBVIOUS
    <3> QED
      BY <3>2, <3>3, <3>4, <3>5
  <2>2. View' = [View EXCEPT ![h].elements = {}]
    <3>1. View' = [View EXCEPT ![h] = [View[h] EXCEPT !.elements = {}]]
      BY <1>2, <1>3, <2>1
    <3> QED
      BY <3>1
  <2>3. Service!Purge(h)
    BY <2>2 DEF Service!Purge, View
  <2> QED
    BY <1>1, <2>3 DEF Faithful, Service!Next
<1>4. CASE queues'[i].used # 1
  <2>1. View' = [View EXCEPT ![h] = [order |-> "none", elements |-> {}]]
    BY <1>2, <1>4
  <2>2. Service!Close(h)
    BY <2>1 DEF Service!Close, Service!Closed, View
  <2> QED
    BY <1>1, <2>2 DEF Faithful, Service!Next
<1> QED
  BY <1>3, <1>4

\* A write: the element joins the set, and is the newest of all.
LEMMA WriteFaithful ==
  ASSUME RInv, QInv', NEW t \in Threads, NEW h \in Handles, NEW p \in Priorities,
         written < MaxWrites, DosWriteQueue(t, h, p)
  PROVE  Faithful
<1> SUFFICES ASSUME ~UNCHANGED <<serial, queues, readers, written, delivered>>
             PROVE  Faithful
  BY Unseen
<1> DEFINE e == [id |-> written + 1, priority |-> p]
<1>1. PICK i \in Slots :
         /\ Means(queues, i, h)
         /\ queues' = [queues EXCEPT
               ![i].entries = InsertAt(@, InsertPosition(queues[i], p), e),
               ![i].event = IF queues[i].entries = <<>> THEN "set" ELSE @]
         /\ written' = written + 1
         /\ UNCHANGED <<serial, readers, delivered>>
  BY DEF DosWriteQueue, Refuse, Holds, Means
<1>2. queues[i] \in QueueObject /\ queues \in [Slots -> QueueObject]
  BY DEF RInv, QInv
<1>3. written \in Nat /\ h \in 1..MaxSerial /\ delivered \subseteq 1..written
  BY QueueAssumption DEF RInv, QInv, Handles
<1>4. PICK s \in Seq(Accepted(written)) : s = queues[i].entries
  BY DEF RInv, QInv, Sound
<1> DEFINE m == InsertPosition(queues[i], p)
           r == InsertAt(s, m, e)
<1>5. e \in Accepted(written + 1) /\ e.id = written + 1 /\ e.priority = p
  BY <1>3 DEF Accepted
<1>6. queues[i].order \in {"FIFO", "LIFO", "PRIORITY"}
  <2>1. queues[i].order \in Orders \cup {"FIFO"}
    BY <1>2 DEF QueueObject
  <2> QED
    BY <2>1, QueueAssumption
<1>7. /\ queues'[i].entries = r /\ queues'[i].order = queues[i].order
      /\ queues'[i].used = 1 /\ queues'[i].handle = h
      /\ \A j \in Slots \ {i} : queues'[j] = queues[j]
  BY <1>1, <1>2, <1>4 DEF QueueObject, Means
<1>8. InOrder(queues[i].order, s) /\ Distinct(s)
  BY <1>4 DEF RInv, OnePlace, Distinct
<1> HIDE DEF m, r, e
<1>9. Grown(queues[i].order, s, e, written, r)
  <2>1. PICK w \in Nat, q \in {queues[i]} : w = written /\ q = queues[i]
    BY <1>3
  <2>2. PICK f \in Accepted(w + 1) : f = e
    BY <1>5, <2>1
  <2>3. /\ q.entries \in Seq(Accepted(w)) /\ InOrder(q.order, q.entries)
        /\ q.order \in {"FIFO", "LIFO", "PRIORITY"}
        /\ f.id = w + 1 /\ f.priority = p /\ Distinct(q.entries)
    BY <1>4, <1>5, <1>6, <1>8, <2>1, <2>2
  <2>4. Grown(q.order, q.entries, f, w, InsertAt(q.entries, InsertPosition(q, p), f))
    BY <2>3, Inserted
  <2> QED
    BY <1>4, <2>1, <2>2, <2>4 DEF m, r
<1>10. \A j \in Slots : \A k \in 1..Len(queues[j].entries) :
          queues[j].entries[k].id \in 1..written /\ queues[j].entries[k].id # e.id
  <2> SUFFICES ASSUME NEW j \in Slots, NEW k \in 1..Len(queues[j].entries)
               PROVE  queues[j].entries[k].id \in 1..written
    BY <1>3, <1>5
  <2>1. queues[j].entries \in Seq(Accepted(written))
    BY DEF RInv, QInv, Sound
  <2>2. queues[j].entries[k] \in Accepted(written)
    BY <2>1
  <2> QED
    BY <2>2 DEF Accepted
<1>11. \A k \in 1..Len(r) : \/ r[k] = e
                            \/ \E n \in 1..Len(queues[i].entries) :
                                  r[k] = queues[i].entries[n]
  BY <1>4, <1>9 DEF Grown
<1>12. \A j \in Slots : InOrder(queues'[j].order, queues'[j].entries)
  BY <1>7, <1>9 DEF RInv, Grown
<1>13. Undelivered'
  <2> SUFFICES ASSUME NEW j \in Slots, NEW k \in 1..Len(queues'[j].entries)
               PROVE  queues'[j].entries[k].id \notin delivered
    BY <1>1 DEF Undelivered
  <2>1. CASE j = i
    <3>1. CASE r[k] = e
      BY <1>3, <1>5, <1>7, <2>1, <3>1
    <3>2. CASE r[k] # e
      <4>1. PICK n \in 1..Len(queues[i].entries) : r[k] = queues[i].entries[n]
        BY <1>7, <1>11, <2>1, <3>2
      <4> QED
        BY <1>7, <2>1, <4>1 DEF RInv, Undelivered
    <3> QED
      BY <3>1, <3>2
  <2>2. CASE j # i
    BY <1>7, <2>2 DEF RInv, Undelivered
  <2> QED
    BY <2>1, <2>2
<1>14. OnePlace'
  <2>1. ASSUME NEW j \in Slots \ {i}, NEW k \in 1..Len(r), NEW l \in 1..Len(queues[j].entries)
        PROVE  r[k].id # queues[j].entries[l].id
    <3>1. CASE r[k] = e
      BY <1>10, <3>1
    <3>2. CASE r[k] # e
      <4>1. PICK n \in 1..Len(queues[i].entries) : r[k] = queues[i].entries[n]
        BY <1>11, <3>2
      <4> QED
        BY <4>1 DEF RInv, OnePlace
    <3> QED
      BY <3>1, <3>2
  <2> SUFFICES ASSUME NEW j1 \in Slots, NEW j2 \in Slots,
                      NEW k \in 1..Len(queues'[j1].entries),
                      NEW l \in 1..Len(queues'[j2].entries),
                      queues'[j1].entries[k].id = queues'[j2].entries[l].id
               PROVE  j1 = j2 /\ k = l
    BY DEF OnePlace
  <2>2. CASE j1 = i /\ j2 = i
    BY <1>4, <1>7, <1>9, <2>2 DEF Grown
  <2>3. CASE j1 = i /\ j2 # i
    BY SMTT(30), <1>7, <2>1, <2>3
  <2>4. CASE j1 # i /\ j2 = i
    BY <1>7, <2>1, <2>4
  <2>5. CASE j1 # i /\ j2 # i
    <3>1. queues'[j1] = queues[j1] /\ queues'[j2] = queues[j2]
      BY <1>7, <2>5
    <3>2. OnePlace
      BY DEF RInv
    <3> QED
      BY <3>1, <3>2 DEF OnePlace
  <2> QED
    BY <2>2, <2>3, <2>4, <2>5
<1>15. RInv'
  BY <1>12, <1>13, <1>14 DEF RInv
<1>16. /\ View[h] = Content(queues[i])
       /\ View' = [View EXCEPT ![h] = Content(queues'[i])]
  <2>1. /\ View[h] = Content(queues[i])
        /\ View' = [View EXCEPT ![h] =
                       IF queues'[i].used = 1 THEN Content(queues'[i])
                       ELSE [order |-> "none", elements |-> {}]]
    BY <1>1, <1>3, <1>7, QueueSeen
  <2> QED
    BY <1>7, <2>1
<1>17. Content(queues'[i]) = [order |-> queues[i].order, elements |-> ToSet(s) \cup {e}]
  BY <1>7, <1>9 DEF Content, Grown
<1>18. View[h].order = queues[i].order /\ View[h].elements = ToSet(s)
  BY <1>4, <1>16 DEF Content
<1>19. View' = [View EXCEPT ![h].elements = @ \cup {[id |-> written + 1, priority |-> p]}]
  <2>1. PICK o, x : o = queues[i].order /\ x = ToSet(s)
    OBVIOUS
  <2>2. View[h] = [order |-> o, elements |-> x]
    BY <1>4, <1>16, <2>1 DEF Content
  <2>3. \A y : [[order |-> o, elements |-> x] EXCEPT !.elements = y]
                  = [order |-> o, elements |-> y]
    OBVIOUS
  <2>4. [View[h] EXCEPT !.elements = x \cup {e}] = Content(queues'[i])
    BY <1>17, <2>1, <2>2, <2>3
  <2>5. View' = [View EXCEPT ![h] = [View[h] EXCEPT !.elements = x \cup {e}]]
    BY <1>16, <2>4
  <2>6. View[h].elements = x
    BY <1>18, <2>1
  <2> QED
    BY <2>5, <2>6 DEF e
<1>20. Service!Write(h, p)
  <2>1. View[h].order # "none" /\ written + 1 \in 1..MaxWrites
    BY <1>3, <1>6, <1>18, QueueAssumption
  <2> QED
    BY <1>1, <1>19, <2>1 DEF Service!Write, View
<1> QED
  BY <1>3, <1>15, <1>20 DEF Faithful, Service!Next

\* A read that delivers: the first element of the list is the first by the
\* discipline.  If the event cannot be reset, the one element is purged.
LEMMA TakeFaithful ==
  ASSUME RInv, QInv', NEW i \in Slots, NEW h \in 1..serial, Holds(i, h),
         queues[i].entries # <<>>, TakeFirst(i), UNCHANGED <<serial, written>>
  PROVE  Faithful
<1>1. Means(queues, i, h) /\ h \in 1..MaxSerial /\ written \in Nat
  BY QueueAssumption DEF RInv, QInv, Holds, Means
<1>2. queues[i] \in QueueObject /\ queues \in [Slots -> QueueObject]
  BY DEF RInv, QInv
<1>3. PICK s \in Seq(Accepted(written)) : s = queues[i].entries
  BY DEF RInv, QInv, Sound
<1>4. CASE /\ queues' = [queues EXCEPT ![i].entries = <<>>]
           /\ UNCHANGED delivered
  <2>1. /\ queues'[i].entries = <<>> /\ queues'[i].order = queues[i].order
        /\ queues'[i].handle = h
        /\ \A j \in Slots \ {i} : queues'[j] = queues[j]
    BY <1>1, <1>2, <1>4 DEF QueueObject, Means
  <2> QED
    BY <1>1, <1>4, <2>1, Emptied
<1>5. CASE /\ queues' = [queues EXCEPT ![i].entries = Tail(@),
                                       ![i].event = LevelAfterRead(queues[i])]
           /\ delivered' = delivered \cup {Head(queues[i].entries).id}
  <2>1. /\ queues'[i].entries = Tail(s) /\ queues'[i].order = queues[i].order
        /\ queues'[i].used = 1 /\ queues'[i].handle = h
        /\ \A j \in Slots \ {i} : queues'[j] = queues[j]
    BY <1>1, <1>2, <1>3, <1>5 DEF QueueObject, Means
  <2>2. /\ Head(s) \in ToSet(s)
        /\ \A f \in ToSet(s) \ {Head(s)} : Service!Precedes(queues[i].order, Head(s), f)
        /\ ToSet(Tail(s)) = ToSet(s) \ {Head(s)}
        /\ InOrder(queues[i].order, Tail(s))
    <3>1. PICK w \in Nat, o \in {queues[i].order} : o = queues[i].order /\ w = written
      BY <1>1
    <3>2. InOrder(o, s) /\ s # <<>> /\ s \in Seq(Accepted(w))
      BY <1>3, <3>1 DEF RInv
    <3> QED
      BY <3>1, <3>2, WithoutFirst
  <2>3. /\ Len(s) \in Nat \ {0} /\ Head(s) = s[1]
        /\ Len(Tail(s)) = Len(s) - 1
        /\ \A k \in 1..Len(s) - 1 : Tail(s)[k] = s[k + 1]
    <3>1. s # <<>>
      BY <1>3
    <3> QED
      BY <3>1, EmptySeq
  <2>4. \A j \in Slots : \A k \in 1..Len(queues'[j].entries) :
           \E l \in 1..Len(queues[j].entries) :
              /\ queues'[j].entries[k] = queues[j].entries[l]
              /\ l = IF j = i THEN k + 1 ELSE k
    <3> SUFFICES ASSUME NEW j \in Slots, NEW k \in 1..Len(queues'[j].entries)
                 PROVE  \E l \in 1..Len(queues[j].entries) :
                           /\ queues'[j].entries[k] = queues[j].entries[l]
                           /\ l = IF j = i THEN k + 1 ELSE k
      OBVIOUS
    <3>1. CASE j = i
      <4>1. k \in 1..Len(s) - 1 /\ k + 1 \in 1..Len(s)
        BY <2>1, <2>3, <3>1
      <4> QED
        BY <1>3, <2>1, <2>3, <3>1, <4>1
    <3>2. CASE j # i
      BY <2>1, <3>2
    <3> QED
      BY <3>1, <3>2
  <2>5. \A j \in Slots : InOrder(queues'[j].order, queues'[j].entries)
    <3>1. ASSUME NEW j \in Slots \ {i}
          PROVE  InOrder(queues'[j].order, queues'[j].entries)
      BY <2>1 DEF RInv
    <3> QED
      BY <2>1, <2>2, <3>1
  <2>6. Undelivered'
    <3> SUFFICES ASSUME NEW j \in Slots, NEW k \in 1..Len(queues'[j].entries)
                 PROVE  queues'[j].entries[k].id \notin delivered'
      BY DEF Undelivered
    <3>1. PICK l \in 1..Len(queues[j].entries) :
             /\ queues'[j].entries[k] = queues[j].entries[l]
             /\ l = IF j = i THEN k + 1 ELSE k
      BY <2>4
    <3>2. queues[j].entries[l].id \notin delivered
      BY DEF RInv, Undelivered
    <3>3. queues[j].entries[l].id # Head(s).id
      <4>1. 1 \in 1..Len(queues[i].entries) /\ Head(s) = queues[i].entries[1]
        BY <1>3, <2>3
      <4>2. ~(j = i /\ l = 1)
        BY <3>1
      <4> QED
        BY <4>1, <4>2 DEF RInv, OnePlace
    <3> QED
      BY SMTT(30), <1>3, <1>5, <3>1, <3>2, <3>3
  <2>7. OnePlace'
    <3> SUFFICES ASSUME NEW j1 \in Slots, NEW j2 \in Slots,
                        NEW k1 \in 1..Len(queues'[j1].entries),
                        NEW k2 \in 1..Len(queues'[j2].entries),
                        queues'[j1].entries[k1].id = queues'[j2].entries[k2].id
                 PROVE  j1 = j2 /\ k1 = k2
      BY DEF OnePlace
    <3>1. PICK l1 \in 1..Len(queues[j1].entries) :
             /\ queues'[j1].entries[k1] = queues[j1].entries[l1]
             /\ l1 = IF j1 = i THEN k1 + 1 ELSE k1
      BY <2>4
    <3>2. PICK l2 \in 1..Len(queues[j2].entries) :
             /\ queues'[j2].entries[k2] = queues[j2].entries[l2]
             /\ l2 = IF j2 = i THEN k2 + 1 ELSE k2
      BY <2>4
    <3>3. j1 = j2 /\ l1 = l2
      <4>1. \A a, b \in Slots : \A k \in 1..Len(queues[a].entries), l \in 1..Len(queues[b].entries) :
                queues[a].entries[k].id = queues[b].entries[l].id => a = b /\ k = l
        BY DEF RInv, OnePlace
      <4>2. queues[j1].entries[l1].id = queues[j2].entries[l2].id
        BY <3>1, <3>2
      <4> QED
        BY <4>1, <4>2
    <3>4. k1 \in Nat /\ k2 \in Nat
      BY <2>1, <2>3
    <3> QED
      BY <3>1, <3>2, <3>3, <3>4
  <2>8. RInv'
    BY <2>5, <2>6, <2>7 DEF RInv
  <2>9. /\ View[h] = Content(queues[i])
        /\ View' = [View EXCEPT ![h] = Content(queues'[i])]
    <3>1. /\ View[h] = Content(queues[i])
          /\ View' = [View EXCEPT ![h] =
                         IF queues'[i].used = 1 THEN Content(queues'[i])
                         ELSE [order |-> "none", elements |-> {}]]
      BY <1>1, <2>1, QueueSeen
    <3> QED
      BY <2>1, <3>1
  <2>10. PICK o, x, e : o = queues[i].order /\ x = ToSet(s) /\ e = Head(s)
    OBVIOUS
  <2>11. View[h] = [order |-> o, elements |-> x] /\ View[h].order = o /\ View[h].elements = x
    BY <1>3, <2>9, <2>10 DEF Content
  <2>12. View' = [View EXCEPT ![h].elements = @ \ {e}]
    <3>1. \A y : [[order |-> o, elements |-> x] EXCEPT !.elements = y]
                    = [order |-> o, elements |-> y]
      OBVIOUS
    <3>2. Content(queues'[i]) = [order |-> o, elements |-> x \ {e}]
      BY <2>1, <2>2, <2>10 DEF Content
    <3>3. [View[h] EXCEPT !.elements = x \ {e}] = Content(queues'[i])
      BY <2>11, <3>1, <3>2
    <3>4. View' = [View EXCEPT ![h] = [View[h] EXCEPT !.elements = x \ {e}]]
      BY <2>9, <3>3
    <3> QED
      BY <2>11, <3>4
  <2>13. e.id \notin delivered
    <3>1. 1 \in 1..Len(queues[i].entries) /\ e = queues[i].entries[1]
      BY <1>3, <2>3, <2>10
    <3> QED
      BY <3>1 DEF RInv, Undelivered
  <2>14. delivered' = delivered \cup {e.id}
    BY <1>3, <1>5, <2>10
  <2>15. /\ e \in View[h].elements
         /\ \A f \in View[h].elements \ {e} : Service!Precedes(View[h].order, e, f)
    BY <2>2, <2>10, <2>11
  <2>16. Service!Read(h)
    BY <2>12, <2>13, <2>14, <2>15 DEF Service!Read, View
  <2> QED
    BY <1>1, <2>8, <2>16 DEF Faithful, Service!Next
<1> QED
  BY <1>4, <1>5 DEF TakeFirst

\* A new queue has a new handle and no elements.
LEMMA CreateFaithful ==
  ASSUME RInv, QInv', NEW t \in Threads, NEW n \in Names, NEW o \in Orders,
         DosCreateQueue(t, n, o)
  PROVE  Faithful
<1> SUFFICES ASSUME ~UNCHANGED <<serial, queues, readers, written, delivered>>
             PROVE  Faithful
  BY Unseen
<1> DEFINE new == [used |-> 1, handle |-> serial + 1, waiters |-> 0,
                   refs |-> {Pid[t]}, name |-> n, order |-> o,
                   owner |-> Pid[t], entries |-> <<>>, event |-> "reset"]
<1>1. PICK i \in Slots : /\ queues[i].used = 0 /\ serial < MaxSerial
                         /\ queues' = [queues EXCEPT ![i] = new]
                         /\ serial' = serial + 1
                         /\ UNCHANGED <<readers, written, delivered>>
  BY DEF DosCreateQueue, Refuse, FirstFree, FreeSlots, NewHandle, SerialLeft
<1>2. PICK h \in 1..MaxSerial : h = serial + 1
  BY <1>1, QueueAssumption DEF RInv, QInv
<1>3. /\ queues'[i].used = 1 /\ queues'[i].handle = h /\ queues'[i].entries = <<>>
      /\ queues'[i].order = o /\ \A j \in Slots \ {i} : queues'[j] = queues[j]
  BY <1>1, <1>2 DEF RInv, QInv
<1>4. RInv'
  BY <1>1, <1>3, ListsKept
<1>5. View' = [View EXCEPT ![h] = [order |-> o, elements |-> {}]]
  <2>1. OneMeaning(queues) /\ OneMeaning(queues')
    BY OneMeaningNow, OneMeaningNext DEF RInv
  <2>2. \A j \in Slots : ~Means(queues, j, h)
    BY SMTT(30), <1>2 DEF RInv, QInv, Sound, QueueObject, Means
  <2>3. \A j \in Slots \ {i} : queues'[j] = queues[j] /\ ~Means(queues, j, h)
    BY <1>3, <2>2
  <2>4. \A k \in 1..MaxSerial : Means(queues, i, k) \/ Means(queues', i, k) => k = h
    BY <1>1, <1>3 DEF Means
  <2>5. ViewOf(queues') = [ViewOf(queues) EXCEPT ![h] =
                              IF Means(queues', i, h) THEN Content(queues'[i])
                              ELSE [order |-> "none", elements |-> {}]]
    BY <2>1, <2>3, <2>4, ViewChanges
  <2>6. Means(queues', i, h)
    BY <1>3 DEF Means
  <2>7. Content(queues'[i]) = [order |-> o, elements |-> {}]
    <3>1. ToSet(queues'[i].entries) = {}
      BY <1>3 DEF ToSet
    <3> QED
      BY <1>3, <3>1 DEF Content
  <2> QED
    BY <2>5, <2>6, <2>7, ViewIs
<1>6. Service!Create(o)
  BY <1>1, <1>2, <1>5 DEF Service!Create, View
<1> QED
  BY <1>4, <1>6 DEF Faithful, Service!Next

\* Opening a queue is between its users.
LEMMA OpenFaithful ==
  ASSUME RInv, QInv', NEW t \in Threads, NEW n \in Names, DosOpenQueue(t, n)
  PROVE  Faithful
<1> SUFFICES ASSUME ~UNCHANGED <<serial, queues, readers, written, delivered>>
             PROVE  Faithful
  BY Unseen
<1>1. PICK i \in Slots :
         /\ queues[i].used = 1
         /\ queues' = [queues EXCEPT ![i].refs = @ \cup {Pid[t]}]
         /\ UNCHANGED <<serial, readers, written, delivered>>
  BY DEF DosOpenQueue, Refuse
<1>2. queues[i] \in QueueObject /\ queues \in [Slots -> QueueObject]
  BY DEF RInv, QInv
<1>3. /\ queues'[i].used = queues[i].used /\ queues'[i].handle = queues[i].handle
      /\ queues'[i].entries = queues[i].entries /\ queues'[i].order = queues[i].order
      /\ \A j \in Slots \ {i} : queues'[j] = queues[j]
  BY <1>1, <1>2 DEF QueueObject
<1> QED
  BY <1>1, <1>3, Quiet

\* A purge empties the queue.
LEMMA PurgeFaithful ==
  ASSUME RInv, QInv', NEW t \in Threads, NEW h \in Handles, DosPurgeQueue(t, h)
  PROVE  Faithful
<1> SUFFICES ASSUME ~UNCHANGED <<serial, queues, readers, written, delivered>>
             PROVE  Faithful
  BY Unseen
<1>1. PICK i \in Slots :
         /\ Means(queues, i, h)
         /\ queues' = [queues EXCEPT ![i].event = "reset", ![i].entries = <<>>]
         /\ UNCHANGED <<serial, readers, written, delivered>>
  BY DEF DosPurgeQueue, Refuse, Holds, Means
<1>2. queues[i] \in QueueObject /\ queues \in [Slots -> QueueObject] /\ h \in 1..MaxSerial
  BY QueueAssumption DEF RInv, QInv, Handles
<1>3. /\ queues'[i].entries = <<>> /\ queues'[i].order = queues[i].order
      /\ queues'[i].handle = h
      /\ \A j \in Slots \ {i} : queues'[j] = queues[j]
  BY <1>1, <1>2 DEF QueueObject, Means
<1> QED
  BY <1>1, <1>2, <1>3, Emptied

\* The owner's close ends the queue; another's is between its users.
LEMMA CloseFaithful ==
  ASSUME RInv, QInv', NEW t \in Threads, NEW h \in Handles, DosCloseQueue(t, h)
  PROVE  Faithful
<1> SUFFICES ASSUME ~UNCHANGED <<serial, queues, readers, written, delivered>>
             PROVE  Faithful
  BY Unseen
<1>1. PICK i \in Slots :
         /\ Means(queues, i, h)
         /\ queues' = [queues EXCEPT ![i] =
               IF Pid[t] # queues[i].owner
               THEN Dereferenced(@, Pid[t])
               ELSE Destroyed(@)]
         /\ UNCHANGED <<serial, readers, written, delivered>>
  BY DEF DosCloseQueue, Refuse, Holds, Means
<1>2. queues[i] \in QueueObject /\ queues \in [Slots -> QueueObject] /\ h \in 1..MaxSerial
  BY QueueAssumption DEF RInv, QInv, Handles
<1>3. \A j \in Slots \ {i} : queues'[j] = queues[j]
  BY <1>1, <1>2
<1>4. CASE Pid[t] # queues[i].owner
  <2>1. queues'[i] = [queues[i] EXCEPT !.refs = @ \ {Pid[t]}]
    BY <1>1, <1>2, <1>4 DEF Dereferenced
  <2>2. /\ queues'[i].used = queues[i].used /\ queues'[i].handle = queues[i].handle
        /\ queues'[i].entries = queues[i].entries /\ queues'[i].order = queues[i].order
    BY <1>2, <2>1 DEF QueueObject
  <2> QED
    BY <1>1, <1>3, <2>2, Quiet
<1>5. CASE Pid[t] = queues[i].owner
  <2>1. queues'[i] = Destroyed(queues[i])
    BY <1>1, <1>2, <1>5
  <2>2. queues'[i].entries = <<>> /\ queues'[i].used # 1
    <3>1. CASE queues[i].waiters > 0
      <4>1. queues'[i] = [queues[i] EXCEPT !.refs = @ \ {queues[i].owner}, !.used = 2,
                                           !.entries = <<>>, !.event = "set"]
        BY <2>1, <3>1 DEF Destroyed
      <4> QED
        BY <1>2, <4>1 DEF QueueObject
    <3>2. CASE ~(queues[i].waiters > 0)
      BY <2>1, <3>2 DEF Destroyed, Free
    <3> QED
      BY <3>1, <3>2
  <2> QED
    BY <1>1, <1>2, <1>3, <2>2, Emptied
<1> QED
  BY <1>4, <1>5

\* The first section of DosReadQueue: what it takes is delivered, and nothing
\* else is seen of it.
LEMMA SectionFaithful ==
  ASSUME RInv, QInv', NEW t \in Threads, NEW h \in 1..serial, NEW wait \in BOOLEAN,
         ReadSection(t, h, wait), UNCHANGED <<serial, written>>
  PROVE  Faithful
<1>1. CASE UNCHANGED <<queues, delivered>>
  BY <1>1, Unseen
<1>2. ASSUME NEW i \in Slots, Holds(i, h), queues[i].entries # <<>>, TakeFirst(i)
      PROVE  Faithful
  BY <1>2, TakeFaithful
<1>3. ASSUME NEW i \in Slots, queues' = [queues EXCEPT ![i].waiters = @ + 1],
             UNCHANGED delivered
      PROVE  Faithful
  <2>1. queues[i] \in QueueObject /\ queues \in [Slots -> QueueObject]
    BY DEF RInv, QInv
  <2>2. /\ queues'[i].used = queues[i].used /\ queues'[i].handle = queues[i].handle
        /\ queues'[i].entries = queues[i].entries /\ queues'[i].order = queues[i].order
        /\ \A j \in Slots \ {i} : queues'[j] = queues[j]
    BY <1>3, <2>1 DEF QueueObject
  <2> QED
    BY <1>3, <2>2, Quiet
<1> QED
  BY <1>1, <1>2, <1>3 DEF ReadSection

\* The second section is between the readers.
LEMMA UnwindFaithful ==
  ASSUME RInv, QInv', NEW t \in Threads, ReadUnwind(t)
  PROVE  Faithful
<1>1. PICK i \in Slots, left \in {queues[readers[t].slot].waiters - 1} : i = readers[t].slot /\ left = queues[i].waiters - 1
  BY DEF RInv, QInv, Coming, ReadUnwind
<1>2. /\ queues' = [queues EXCEPT ![i] =
            IF @.used = 2 /\ left = 0 THEN Free ELSE [@ EXCEPT !.waiters = left]]
      /\ UNCHANGED <<serial, written, delivered>>
  BY <1>1 DEF ReadUnwind
<1>3. queues[i] \in QueueObject /\ queues \in [Slots -> QueueObject]
  BY DEF RInv, QInv
<1>4. \A j \in Slots \ {i} : queues'[j] = queues[j]
  BY <1>2, <1>3
<1>5. CASE queues[i].used = 2 /\ left = 0
  <2>1. queues'[i] = Free
    BY <1>2, <1>3, <1>5
  <2>2. queues'[i].used = 0 /\ queues'[i].entries = <<>>
    BY <2>1 DEF Free
  <2> QED
    BY <1>2, <1>4, <1>5, <2>2, Quiet
<1>6. CASE ~(queues[i].used = 2 /\ left = 0)
  <2>1. queues'[i] = [queues[i] EXCEPT !.waiters = left]
    BY <1>2, <1>3, <1>6
  <2>2. /\ queues'[i].used = queues[i].used /\ queues'[i].handle = queues[i].handle
        /\ queues'[i].entries = queues[i].entries /\ queues'[i].order = queues[i].order
    BY <1>3, <2>1 DEF QueueObject
  <2> QED
    BY <1>2, <1>4, <2>2, Quiet
<1> QED
  BY <1>5, <1>6

\* Every step.
LEMMA RInvStep == RInv /\ [Next]_vars => Faithful
<1> SUFFICES ASSUME RInv, [Next]_vars
             PROVE  Faithful
  OBVIOUS
<1>0. QInv'
  BY QInvStep DEF RInv
<1>1. CASE UNCHANGED vars
  BY <1>0, <1>1, Unseen
<1>2. ASSUME NEW t \in Threads, NEW n \in Names,
             DosOpenQueue(t, n) \/ \E o \in Orders : DosCreateQueue(t, n, o)
      PROVE  Faithful
  BY <1>0, <1>2, OpenFaithful, CreateFaithful
<1>3. ASSUME NEW t \in Threads, NEW h \in Handles, written < MaxWrites,
             NEW p \in Priorities, DosWriteQueue(t, h, p)
      PROVE  Faithful
  BY <1>0, <1>3, WriteFaithful
<1>4. ASSUME NEW t \in Threads, NEW h \in Handles, NEW wait \in BOOLEAN,
             DosReadQueue(t, h, wait)
      PROVE  Faithful
  BY <1>0, <1>4, SectionFaithful DEF DosReadQueue, Handles
<1>5. ASSUME NEW t \in Threads, NEW h \in Handles,
             DosQueryQueue(t, h) \/ DosPurgeQueue(t, h) \/ DosCloseQueue(t, h)
      PROVE  Faithful
  <2>1. CASE DosQueryQueue(t, h)
    BY <1>0, <2>1, Unseen DEF DosQueryQueue, Refuse
  <2> QED
    BY <1>0, <1>5, <2>1, PurgeFaithful, CloseFaithful
<1>6. ASSUME NEW t \in Threads, Continue(t)
      PROVE  Faithful
  <2>1. CASE ReadAgain(t)
    <3>1. /\ readers[t].handle \in 1..serial
          /\ ReadSection(t, readers[t].handle, TRUE) /\ UNCHANGED <<serial, written>>
      BY <2>1 DEF ReadAgain, RInv, QInv, Coming
    <3>2. PICK h \in 1..serial : h = readers[t].handle
      BY <3>1
    <3>3. ReadSection(t, h, TRUE)
      BY <3>1, <3>2
    <3> QED
      BY <1>0, <3>1, <3>3, SectionFaithful
  <2>2. CASE Wake(t)
    BY <1>0, <2>2, Unseen DEF Wake
  <2> QED
    BY <1>0, <1>6, <2>1, <2>2, UnwindFaithful DEF Continue
<1> QED
  BY <1>1, <1>2, <1>3, <1>4, <1>5, <1>6 DEF Next, Call

\* There is no queue at first.
LEMMA ServiceStart == Init => RInv /\ Service!Init
<1> SUFFICES ASSUME Init
             PROVE  RInv /\ Service!Init
  OBVIOUS
<1>1. \A i \in Slots : queues[i].used = 0 /\ queues[i].entries = <<>>
  BY DEF Init, Free
<1>2. RInv
  BY <1>1, QInvInit, NoElements DEF RInv, InOrder, Undelivered, OnePlace
<1>3. View = [h \in 1..MaxSerial |-> [order |-> "none", elements |-> {}]]
  <2>1. \A h \in 1..MaxSerial : ~IsHandle(h)
    BY <1>1 DEF IsHandle, Holds
  <2> QED
    BY <2>1 DEF View
<1>4. Service!Init
  BY <1>3 DEF Init, Service!Init, Service!Closed, View
<1> QED
  BY <1>2, <1>4

\* The queues implement the abstract service, whichever backend calls fail: an
\* element is delivered once at most, each time the first by its queue's
\* discipline, and a handle never comes to mean another queue.
THEOREM QueuesImplement == Spec => ServiceSpec
<1>1. RInv /\ [Next]_vars => RInv' /\ [Service!Next]_(Service!vars)
  BY RInvStep DEF Faithful
<1> QED
  BY <1>1, ServiceStart, PTL DEF Spec, ServiceSpec, Service!Spec

=============================================================================
