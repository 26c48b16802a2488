---------------------------- MODULE QueueService ----------------------------
(***************************************************************************)
(* What the OS/2 queues promise (DosCreateQueue to DosCloseQueue), whatever *)
(* table slots, events and waiting readers they are built from: a queue is *)
(* a set of elements, and its discipline says which of them is next.       *)
(***************************************************************************)
EXTENDS Integers

CONSTANTS
    Handles,     \* every handle that can be given out, 1..n
    Ids,         \* elements, numbered in the order in which they are written
    Priorities,
    Orders

VARIABLES
    queue,       \* of each handle: its discipline and its elements
    known,       \* handles given out so far
    written,     \* elements accepted so far
    delivered    \* elements handed to a reader

vars == <<queue, known, written, delivered>>

Closed == [order |-> "none", elements |-> {}]

Init == /\ queue = [h \in Handles |-> Closed]
        /\ known = 0 /\ written = 0 /\ delivered = {}

\* e is read before f.
Precedes(order, e, f) ==
    CASE order = "FIFO" -> e.id < f.id
      [] order = "LIFO" -> e.id > f.id
      [] OTHER -> \/ e.priority > f.priority
                  \/ e.priority = f.priority /\ e.id < f.id

\* A new queue has a handle never used before.
Create(order) ==
    /\ known + 1 \in Handles
    /\ known' = known + 1
    /\ queue' = [queue EXCEPT ![known + 1] = [order |-> order, elements |-> {}]]
    /\ UNCHANGED <<written, delivered>>

Write(h, priority) ==
    /\ queue[h].order # "none" /\ written + 1 \in Ids
    /\ written' = written + 1
    /\ queue' = [queue EXCEPT ![h].elements =
                    @ \cup {[id |-> written + 1, priority |-> priority]}]
    /\ UNCHANGED <<known, delivered>>

\* The first element by the discipline is delivered, for the first time.
Read(h) ==
    \E e \in queue[h].elements :
        /\ \A f \in queue[h].elements \ {e} : Precedes(queue[h].order, e, f)
        /\ e.id \notin delivered
        /\ queue' = [queue EXCEPT ![h].elements = @ \ {e}]
        /\ delivered' = delivered \cup {e.id}
        /\ UNCHANGED <<known, written>>

Purge(h) ==
    /\ queue' = [queue EXCEPT ![h].elements = {}]
    /\ UNCHANGED <<known, written, delivered>>

Close(h) ==
    /\ queue' = [queue EXCEPT ![h] = Closed]
    /\ UNCHANGED <<known, written, delivered>>

Next ==
    \/ \E order \in Orders : Create(order)
    \/ \E h \in Handles :
          \/ \E p \in Priorities : Write(h, p)
          \/ Read(h) \/ Purge(h) \/ Close(h)

Spec == Init /\ [][Next]_vars

=============================================================================
