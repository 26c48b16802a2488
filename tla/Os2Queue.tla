------------------------------ MODULE Os2Queue ------------------------------
(***************************************************************************)
(* The OS/2 queues (QUECALLS) of the shared personality:                   *)
(* common/queue/os2_queue.c, with the backend of                           *)
(* common/win32/os2_queue_win32.c.                                         *)
(*                                                                         *)
(* A session holds a fixed table of queue objects.  The creator of a queue *)
(* owns it: only the owner's process reads, purges or destroys it; other   *)
(* processes open it and write.  Every call runs under the session's lock, *)
(* so it is one step here, except a DosReadQueue that waits: it counts     *)
(* itself in `waiters', leaves the lock, waits for the manual-reset event  *)
(* of the queue and comes back.  A queue closed meanwhile keeps its slot   *)
(* (used = 2) until the last such reader has left.                         *)
(*                                                                         *)
(* Element payloads are opaque to the code; each element is known here by  *)
(* the order in which it was written.                                      *)
(***************************************************************************)
EXTENDS Integers, Sequences, FiniteSets, SequencesExt

CONSTANTS
    Threads,         \* the callers
    Pid,             \* the process of each thread
    Names,           \* valid queue names, case folded
    Orders,          \* disciplines used, of "FIFO", "LIFO", "PRIORITY"
    Priorities,      \* element priorities, 0..15 in the code
    MaxQueues,       \* OS2_QUEUE_MAX_QUEUES; also the number of refs of a queue
    Depth,           \* OS2_QUEUE_DEPTH
    MaxSerial,       \* UINT32_MAX
    MaxWrites,       \* bound: elements written
    BackendMayFail,  \* backend calls may fail
    None             \* no name, no process

ASSUME QueueAssumption ==
    /\ IsFiniteSet(Threads)
    /\ Orders \subseteq {"FIFO", "LIFO", "PRIORITY"}
    /\ Priorities \subseteq Nat
    /\ MaxQueues \in Nat \ {0} /\ Depth \in Nat \ {0}
    /\ MaxSerial \in Nat /\ MaxWrites \in Nat
    /\ BackendMayFail \in BOOLEAN
    /\ None \notin Names
    /\ \A t \in Threads : Pid[t] # None

VARIABLES
    serial,     \* session->serial, the handle given last
    queues,     \* session->queues
    readers,    \* the DosReadQueue each thread is inside
    written,    \* elements accepted so far; the next one is written + 1
    delivered,  \* history: elements returned by a read
    rc          \* what the call that ended last returned

vars == <<serial, queues, readers, written, delivered, rc>>

Slots == 1..MaxQueues
Processes == {Pid[t] : t \in Threads}

\* A zeroed Os2QueueObject.  `event' stands for its availability event.
Free == [used |-> 0, handle |-> 0, waiters |-> 0, refs |-> {}, name |-> None,
         order |-> "FIFO", owner |-> None, entries |-> <<>>, event |-> "none"]

Outside == [at |-> "outside", handle |-> 0, slot |-> 0, woken |-> "READY"]

Init ==
    /\ serial = 0
    /\ queues = [i \in Slots |-> Free]
    /\ readers = [t \in Threads |-> Outside]
    /\ written = 0 /\ delivered = {}
    /\ rc = "NO_ERROR"

-----------------------------------------------------------------------------
\* queue_from_handle_locked and find_queue_locked: live queues only.
Holds(i, h) == queues[i].used = 1 /\ queues[i].handle = h
IsHandle(h) == \E i \in Slots : Holds(i, h)

\* Mutant of HasName: nobody looks for the name.
HasNameNever(n) == FALSE

HasName(n) == \E i \in Slots : queues[i].used = 1 /\ queues[i].name = n

\* A handle a caller may pass: any one handed out, open or not.
Handles == 1..serial

Idle(t) == readers[t].at = "outside"
Return(code) == rc' = code
Refuse(code) == Return(code) /\ UNCHANGED <<serial, queues, readers, written, delivered>>

-----------------------------------------------------------------------------
FreeSlots == {i \in Slots : queues[i].used = 0}
FirstFree(i) == i \in FreeSlots /\ \A j \in FreeSlots : i <= j

\* Mutant of NewHandle: the handle is the table slot.
SlotAsHandle(i) == i

NewHandle(i) == serial + 1

\* Mutant of SerialLeft: the serial number is not checked.
SerialLeftAlways == TRUE

SerialLeft == serial < MaxSerial

DosCreateQueue(t, n, order) ==
    /\ Idle(t)
    /\ \/ HasName(n) /\ Refuse("DUPLICATE")
       \/ /\ ~HasName(n)
          /\ FreeSlots = {} \/ ~SerialLeft \/ BackendMayFail
          /\ Refuse("NO_MEMORY")
       \/ /\ ~HasName(n) /\ SerialLeft
          /\ \E i \in Slots :
                /\ FirstFree(i)
                /\ queues' = [queues EXCEPT ![i] =
                      [used |-> 1, handle |-> NewHandle(i), waiters |-> 0,
                       refs |-> {Pid[t]}, name |-> n, order |-> order,
                       owner |-> Pid[t], entries |-> <<>>, event |-> "reset"]]
          /\ serial' = serial + 1
          /\ Return("NO_ERROR")
          /\ UNCHANGED <<readers, written, delivered>>

\* A process that has the queue open already keeps its one reference.
DosOpenQueue(t, n) ==
    /\ Idle(t)
    /\ \/ ~HasName(n) /\ Refuse("NAME_NOT_EXIST")
       \/ \E i \in Slots :
             /\ queues[i].used = 1 /\ queues[i].name = n
             /\ IF Pid[t] \in queues[i].refs \/ Cardinality(queues[i].refs) < MaxQueues
                THEN /\ queues' = [queues EXCEPT ![i].refs = @ \cup {Pid[t]}]
                     /\ Return("NO_ERROR")
                     /\ UNCHANGED <<serial, readers, written, delivered>>
                ELSE Refuse("NO_MEMORY")

\* Mutant of InsertPosition: a new element goes before those of its priority.
InsertBeforeEqual(q, priority) ==
    LET lower == {i \in 1..Len(q.entries) : q.entries[i].priority <= priority}
    IN  CASE q.order = "LIFO" -> 1
          [] q.order = "PRIORITY" /\ lower # {} ->
                CHOOSE i \in lower : \A j \in lower : i <= j
          [] OTHER -> Len(q.entries) + 1

\* insert_position, counted from 1.
InsertPosition(q, priority) ==
    LET lower == {i \in 1..Len(q.entries) : q.entries[i].priority < priority}
    IN  CASE q.order = "LIFO" -> 1
          [] q.order = "PRIORITY" /\ lower # {} ->
                CHOOSE i \in lower : \A j \in lower : i <= j
          [] OTHER -> Len(q.entries) + 1

\* The event is set when the first element arrives; if that fails the
\* element is taken out again.
DosWriteQueue(t, h, priority) ==
    /\ Idle(t)
    /\ \/ /\ ~\E i \in Slots : Holds(i, h) /\ Pid[t] \in queues[i].refs
          /\ Refuse("INVALID_HANDLE")
       \/ \E i \in Slots :
             /\ Holds(i, h) /\ Pid[t] \in queues[i].refs
             /\ \/ /\ \/ Len(queues[i].entries) >= Depth
                      \/ BackendMayFail /\ queues[i].entries = <<>>
                   /\ Refuse("UNABLE_TO_ADD")
                \/ /\ Len(queues[i].entries) < Depth
                   /\ queues' = [queues EXCEPT
                         ![i].entries = InsertAt(@, InsertPosition(queues[i], priority),
                             [id |-> written + 1, priority |-> priority]),
                         ![i].event = IF queues[i].entries = <<>> THEN "set" ELSE @]
                   /\ written' = written + 1
                   /\ Return("NO_ERROR")
                   /\ UNCHANGED <<serial, readers, delivered>>

-----------------------------------------------------------------------------
\* Mutant of LevelAfterRead: the event is reset by every read.
LevelReset(q) == "reset"

\* The last element read resets the event.
LevelAfterRead(q) == IF Len(q.entries) = 1 THEN "reset" ELSE q.event

\* try_read_locked on a queue that is not empty: the first element.  If the
\* event cannot be reset the call fails, and the element is gone.
TakeFirst(i) ==
    \/ /\ queues' = [queues EXCEPT ![i].entries = Tail(@),
                                   ![i].event = LevelAfterRead(queues[i])]
       /\ delivered' = delivered \cup {Head(queues[i].entries).id}
       /\ Return("NO_ERROR")
    \/ /\ BackendMayFail /\ Len(queues[i].entries) = 1
       /\ queues' = [queues EXCEPT ![i].entries = <<>>]
       /\ Return("INVALID_HANDLE")
       /\ UNCHANGED delivered

Leave(t) == readers' = [readers EXCEPT ![t] = Outside]

\* The first section of the loop of DosReadQueue: a new call, or one that
\* was woken and tries again.
ReadSection(t, h, wait) ==
    \/ /\ ~IsHandle(h)
       /\ Return("INVALID_HANDLE") /\ Leave(t)
       /\ UNCHANGED <<queues, delivered>>
    \/ \E i \in Slots :
          /\ Holds(i, h)
          /\ \/ /\ Pid[t] # queues[i].owner
                /\ Return("PROC_NOT_OWNED") /\ Leave(t)
                /\ UNCHANGED <<queues, delivered>>
             \/ /\ Pid[t] = queues[i].owner /\ queues[i].entries # <<>>
                /\ TakeFirst(i) /\ Leave(t)
             \/ /\ Pid[t] = queues[i].owner /\ queues[i].entries = <<>> /\ ~wait
                /\ Return("EMPTY") /\ Leave(t)
                /\ UNCHANGED <<queues, delivered>>
             \/ /\ Pid[t] = queues[i].owner /\ queues[i].entries = <<>> /\ wait
                /\ queues' = [queues EXCEPT ![i].waiters = @ + 1]
                /\ readers' = [readers EXCEPT ![t] =
                      [at |-> "waiting", handle |-> h, slot |-> i, woken |-> "READY"]]
                /\ UNCHANGED <<delivered, rc>>

DosReadQueue(t, h, wait) ==
    /\ Idle(t)
    /\ ReadSection(t, h, wait)
    /\ UNCHANGED <<serial, written>>

ReadAgain(t) ==
    /\ readers[t].at = "retry"
    /\ ReadSection(t, readers[t].handle, TRUE)
    /\ UNCHANGED <<serial, written>>

\* wait_available returns: the event is set, or the wait failed.
Wake(t) ==
    /\ readers[t].at = "waiting"
    /\ \/ queues[readers[t].slot].event = "set"
             /\ readers' = [readers EXCEPT ![t].at = "woken"]
       \/ BackendMayFail
             /\ readers' = [readers EXCEPT ![t].at = "woken", ![t].woken = "FAILED"]
    /\ UNCHANGED <<serial, queues, written, delivered, rc>>

\* The second section: the reader leaves the queue it waited for, and frees
\* it if it was closed meanwhile and no other reader is left.
ReadUnwind(t) ==
    LET i == readers[t].slot
        left == queues[i].waiters - 1
    IN  /\ readers[t].at = "woken"
        /\ queues' = [queues EXCEPT ![i] =
              IF @.used = 2 /\ left = 0 THEN Free ELSE [@ EXCEPT !.waiters = left]]
        /\ IF queues[i].used = 2 \/ readers[t].woken = "FAILED"
           THEN Return("INVALID_HANDLE") /\ Leave(t)
           ELSE readers' = [readers EXCEPT ![t].at = "retry"] /\ UNCHANGED rc
        /\ UNCHANGED <<serial, written, delivered>>

-----------------------------------------------------------------------------
\* It only reads; a process without a reference is refused.
DosQueryQueue(t, h) ==
    /\ Idle(t)
    /\ Refuse(IF \E i \in Slots : Holds(i, h) /\ Pid[t] \in queues[i].refs
              THEN "NO_ERROR" ELSE "INVALID_HANDLE")

DosPurgeQueue(t, h) ==
    /\ Idle(t)
    /\ \/ ~IsHandle(h) /\ Refuse("INVALID_HANDLE")
       \/ \E i \in Slots :
             /\ Holds(i, h)
             /\ \/ Pid[t] # queues[i].owner /\ Refuse("PROC_NOT_OWNED")
                \/ BackendMayFail /\ Pid[t] = queues[i].owner /\ Refuse("INVALID_HANDLE")
                \/ /\ Pid[t] = queues[i].owner
                   /\ queues' = [queues EXCEPT ![i].event = "reset",
                                               ![i].entries = <<>>]
                   /\ Return("NO_ERROR")
                   /\ UNCHANGED <<serial, readers, written, delivered>>

\* Mutants of Destroyed: the slot is freed under its readers, or they are
\* not woken.
DestroyedAtOnce(q) == Free
DestroyedUnwoken(q) == IF q.waiters > 0 THEN [q EXCEPT !.used = 2, !.entries = <<>>]
                       ELSE Free

\* A queue closed by its owner stays for the readers that wait, woken.
Destroyed(q) ==
    IF q.waiters > 0
    THEN [q EXCEPT !.refs = @ \ {q.owner}, !.used = 2, !.entries = <<>>,
                   !.event = "set"]
    ELSE Free

\* Another process takes its reference back.
Dereferenced(q, process) == [q EXCEPT !.refs = @ \ {process}]

\* The owner's close destroys the queue.  Waiting readers are woken first,
\* or the close fails; the last of them frees the slot.
DosCloseQueue(t, h) ==
    /\ Idle(t)
    /\ \/ /\ ~\E i \in Slots : Holds(i, h) /\ Pid[t] \in queues[i].refs
          /\ Refuse("INVALID_HANDLE")
       \/ \E i \in Slots :
             /\ Holds(i, h) /\ Pid[t] \in queues[i].refs
             /\ \/ /\ BackendMayFail
                   /\ Pid[t] = queues[i].owner /\ queues[i].waiters > 0
                   /\ Refuse("INVALID_HANDLE")
                \/ /\ queues' = [queues EXCEPT ![i] =
                         IF Pid[t] # queues[i].owner
                         THEN Dereferenced(@, Pid[t])
                         ELSE Destroyed(@)]
                   /\ Return("NO_ERROR")
                   /\ UNCHANGED <<serial, readers, written, delivered>>

-----------------------------------------------------------------------------
Call(t) ==
    \/ \E n \in Names, o \in Orders : DosCreateQueue(t, n, o)
    \/ \E n \in Names : DosOpenQueue(t, n)
    \/ \E h \in Handles :
          \/ written < MaxWrites /\ \E p \in Priorities : DosWriteQueue(t, h, p)
          \/ \E wait \in BOOLEAN : DosReadQueue(t, h, wait)
          \/ DosQueryQueue(t, h) \/ DosPurgeQueue(t, h) \/ DosCloseQueue(t, h)

Continue(t) == Wake(t) \/ ReadUnwind(t) \/ ReadAgain(t)

Next == \E t \in Threads : Call(t) \/ Continue(t)

Spec == Init /\ [][Next]_vars

\* A thread inside DosReadQueue runs when it can; nobody has to call.
FairSpec == Spec /\ \A t \in Threads : WF_vars(Continue(t))

-----------------------------------------------------------------------------
(***************************************************************************)
(* Properties                                                              *)
(***************************************************************************)
Element == [id : 1..MaxWrites, priority : Priorities]

QueueObject ==
    [used : 0..2, handle : 0..MaxSerial, waiters : Nat, refs : SUBSET Processes,
     name : Names \cup {None}, order : Orders \cup {"FIFO"},
     owner : Processes \cup {None}, entries : Seq(Element),
     event : {"none", "reset", "set"}]

Reader == [at : {"outside", "waiting", "woken", "retry"}, handle : 0..MaxSerial,
           slot : 0..MaxQueues, woken : {"READY", "FAILED"}]

\* Every variable stays in its range: no queue overflows, no handle passes
\* the serial number and no element is delivered that was not written.
QTypeOK ==
    /\ serial \in 0..MaxSerial /\ written \in 0..MaxWrites
    /\ queues \in [Slots -> QueueObject]
    /\ readers \in [Threads -> Reader]
    /\ delivered \subseteq 1..written
    /\ \A i \in Slots : queues[i].handle <= serial /\ Len(queues[i].entries) <= Depth

InSlot(i) == {t \in Threads : /\ readers[t].at \in {"waiting", "woken"}
                              /\ readers[t].slot = i}

\* A reader that left the lock comes back to the very queue it waited for:
\* its slot is neither freed, reused nor counted wrongly while it waits, and
\* the event it waits on exists.
SlotIsPinned ==
    \A i \in Slots :
        /\ queues[i].waiters = Cardinality(InSlot(i))
        /\ \A t \in InSlot(i) : /\ queues[i].handle = readers[t].handle
                                /\ queues[i].used # 0 /\ queues[i].event # "none"

\* The event is only a wake indication, yet it never lies in the direction
\* that would strand a reader: a queue with elements, or a closed one that
\* readers have still to leave, has it set.  While the backend does not fail
\* it is set for no other queue, so that a waiting reader does not spin.
EventTellsTruth ==
    \A i \in Slots :
        /\ queues[i].entries # <<>> => queues[i].event = "set"
        /\ queues[i].used = 2 => queues[i].event = "set" /\ queues[i].waiters > 0
        /\ queues[i].event = "set" /\ queues[i].used = 1 /\ ~BackendMayFail =>
              queues[i].entries # <<>>

\* A name or a handle means at most one queue, and a slot on its way out
\* (used = 2) shares its handle with no new queue.
NamesOneQueue ==
    \A i, j \in Slots :
        i # j /\ queues[i].used # 0 /\ queues[j].used # 0 =>
            /\ queues[i].handle # queues[j].handle
            /\ queues[i].used = 1 /\ queues[j].used = 1 =>
                  queues[i].name # queues[j].name

\* A DosReadQueue that waited ends with an element, or because its own queue
\* was closed: it never comes back to a queue that is not the one it asked
\* for, and never reports an empty one.
WaitEndsRight ==
    [][\A t \in Threads :
          readers[t].at # "outside" /\ readers'[t].at = "outside" =>
              \/ rc' = "NO_ERROR"
              \/ rc' = "INVALID_HANDLE" /\ ~IsHandle(readers[t].handle)
              \/ rc' = "INVALID_HANDLE" /\ BackendMayFail]_vars

\* The queues implement the abstract service: elements enter once, are
\* delivered once and in the order of the discipline, and leave undelivered
\* only when their queue is purged or closed.  A handle never comes to mean
\* another queue.
Service == INSTANCE QueueService WITH
    Handles <- 1..MaxSerial,
    Ids <- 1..MaxWrites,
    queue <- [h \in 1..MaxSerial |->
                 IF IsHandle(h)
                 THEN LET i == CHOOSE j \in Slots : Holds(j, h)
                      IN  [order |-> queues[i].order, elements |-> ToSet(queues[i].entries)]
                 ELSE [order |-> "none", elements |-> {}]],
    known <- serial
ServiceSpec == Service!Spec

\* A reader that waits for a queue with elements comes back, unless others
\* take them all or the queue is purged.
ReaderServed ==
    \A t \in Threads :
        (readers[t].at = "waiting" /\ queues[readers[t].slot].entries # <<>>) ~>
            (readers[t].at # "waiting" \/ queues[readers[t].slot].entries = <<>>)

\* The slot of a closed queue becomes free again: every reader that waited
\* for it leaves.
ClosedIsReclaimed == \A i \in Slots : queues[i].used = 2 ~> queues[i].used # 2

=============================================================================
