------------------------------ MODULE WhpQueue ------------------------------
(***************************************************************************)
(* The guest queues of the WHP host (whp/src/v2_queue.h) on top of its     *)
(* scheduler and semaphores.  Queues belong to one guest process.  A read  *)
(* or peek of an empty queue parks the thread with its arguments; a write  *)
(* serves parked threads itself, before it returns, in the order in which  *)
(* they came.  A queue may post an event semaphore on writes; it holds a   *)
(* reference to it.                                                        *)
(*                                                                         *)
(* The request, length and data of an element are opaque to the code and   *)
(* left out; the token names the element.                                  *)
(***************************************************************************)
EXTENDS WhpSync

CONSTANTS
    NQueues,      \* MAX_QUEUES
    Depth,        \* QUEUE_DEPTH
    MaxToken,     \* UINT32_MAX, the largest token
    QueueNames,   \* names, case folded
    Disciplines,  \* those guests use, of "FIFO", "LIFO", "PRIORITY"
    Priorities,   \* 0..15
    Cells         \* guest memory where a peek finds and leaves its token

ASSUME WhpQueueAssumption ==
    /\ NQueues \in Nat /\ Depth \in Nat \ {0} /\ MaxToken \in Nat \ {0}
    /\ NoName \notin QueueNames
    /\ Disciplines \subseteq {"FIFO", "LIFO", "PRIORITY"}
    /\ Priorities \subseteq Nat
    /\ Cells # {}

VARIABLES
    queues,  \* rt->queues
    args,    \* queue_args and queue_peek of each parked thread
    cells,   \* the tokens in guest memory
    got      \* history: <<slot, token>> for each element a read took in this step

qVars == <<queues, args, cells>>
allVars == <<vars, qVars, got>>

QueueSlots == 0..NQueues - 1
QueueHandle(i) == Handle("queue", i, queues[i].generation)
QueueHandles == {Handle("queue", i, g) : i \in QueueSlots, g \in 1..MaxGen}

IsQueue(h) == /\ h.kind = "queue"
              /\ queues[h.slot].used /\ queues[h.slot].generation = h.generation

ZeroQueue == [used |-> FALSE, generation |-> 0, refs |-> 0, discipline |-> "FIFO",
              nextToken |-> 1, notify |-> NoHandle, name |-> NoName, entries |-> <<>>]

NoArgs == [peek |-> FALSE, cell |-> CHOOSE c \in Cells : TRUE]

\* The call returns, changes the queue state and nothing else.
QueueAnswer(code) == Answer(code) /\ UNCHANGED <<mutexes, events>>
QueueRefuse(code) == Refuse(code) /\ UNCHANGED qVars /\ got' = {}

(***************************************************************************)
(* queue_deliver: what a read or peek with this token finds.  A read takes *)
(* the element of the token, a peek the one after it; without a token both *)
(* take the first.                                                         *)
(***************************************************************************)
Positions(entries, token) == {i \in 1..Len(entries) : entries[i].token = token}

Found(entries, token, peek) ==
    LET at == IF token = 0 THEN {1}
              ELSE {IF peek THEN i + 1 ELSE i : i \in Positions(entries, token)}
    IN  at \cap 1..Len(entries)

\* QUE_EMPTY; a token that is not in the queue is another error.
IsEmpty(entries, token, peek) ==
    /\ Found(entries, token, peek) = {}
    /\ token = 0 \/ Positions(entries, token) # {}

\* s is the thread, w the entries, cells, history and threads so far.
Deliver(w, s, token, peek, cell) ==
    LET found == Found(w.entries, token, peek)
    IN  IF found = {} THEN [w EXCEPT !.code = "ERROR"]
        ELSE LET i == CHOOSE j \in found : TRUE
                 e == w.entries[i]
             IN  [w EXCEPT !.code = "NO_ERROR",
                           !.entries = IF peek THEN @ ELSE RemoveAt(@, i),
                           !.cells = IF peek THEN [@ EXCEPT ![cell] = e.token] ELSE @,
                           !.got = IF peek THEN @ ELSE @ \cup {<<s, e.token>>}]

World(entries) == [entries |-> entries, cells |-> cells, got |-> {},
                   threads |-> threads, code |-> "NO_ERROR"]

\* queue_wake_readers: as long as there are elements, the first parked
\* thread is served and woken.

\* Mutant of NextReader: the first in the table, not in time.
LowestReader(w, h) == LowestWaiter(w.threads, "WAIT_QUEUE", h)

NextReader(w, h) == FirstWaiter(w.threads, "WAIT_QUEUE", h)

Serve(w, s) ==
    LET a == args[s]
        d == Deliver(w, s, IF a.peek THEN w.cells[a.cell] ELSE 0, a.peek, a.cell)
    IN  [d EXCEPT !.threads[s] = Ready(@, d.code)]

ServeNext(w, h) ==
    IF w.entries = <<>> \/ Waiters(w.threads, "WAIT_QUEUE", h) = {} THEN w
    ELSE Serve(w, NextReader(w, h))

\* Mutant of WakeReaders: only one thread is served.
WakeOneReader(w, h) == ServeNext(w, h)

\* Every turn of the loop sends a thread off, so NThreads turns are enough.
WakeReaders(w, h) ==
    LET after[n \in 0..NThreads] == IF n = 0 THEN w ELSE ServeNext(after[n - 1], h)
    IN  after[NThreads]

(***************************************************************************)
(* dispatch_queue.                                                         *)
(***************************************************************************)
QueueNamed(name) == {i \in QueueSlots : queues[i].used /\ queues[i].name = name}

FirstFreeQueue(i) ==
    /\ ~ queues[i].used /\ queues[i].generation < MaxGen
    /\ \A j \in QueueSlots : j < i => queues[j].used \/ queues[j].generation = MaxGen

\* DosCreateQueue
CreateQueue(name, discipline) ==
    /\ Guest
    /\ \/ QueueNamed(name) # {} /\ QueueRefuse("ERROR")
       \/ (\A i \in QueueSlots : ~ FirstFreeQueue(i)) /\ QueueRefuse("ERROR")
       \/ /\ QueueNamed(name) = {}
          /\ \E i \in QueueSlots :
                /\ FirstFreeQueue(i)
                /\ queues' = [queues EXCEPT ![i] =
                      [ZeroQueue EXCEPT !.used = TRUE, !.generation = queues[i].generation + 1,
                                        !.refs = 1, !.discipline = discipline,
                                        !.name = name]]
          /\ QueueAnswer("NO_ERROR")
          /\ UNCHANGED <<args, cells>> /\ got' = {}

\* DosOpenQueue
OpenQueue(name) ==
    /\ Guest
    /\ \/ QueueNamed(name) = {} /\ QueueRefuse("ERROR")
       \/ \E i \in QueueNamed(name) :
             \/ queues[i].refs = MaxCount /\ QueueRefuse("ERROR")
             \/ /\ queues[i].refs # MaxCount
                /\ queues' = [queues EXCEPT ![i].refs = @ + 1]
                /\ QueueAnswer("NO_ERROR")
                /\ UNCHANGED <<args, cells>> /\ got' = {}

\* Every other call starts with queue_from_handle.
OnQueue(h) == Guest /\ IsQueue(h)
BadQueue(h) == Guest /\ ~ IsQueue(h) /\ QueueRefuse("ERROR")

\* A NOWAIT call may name the event to post on writes; the queue keeps the
\* first one and takes a reference to it.
MayNotify(q, ev) ==
    /\ IsEvent(ev)
    /\ q.notify \in {NoHandle, ev}
    /\ q.notify = NoHandle => events[ev.slot].refs # MaxCount

Notified(q, ev) == [q EXCEPT !.notify = ev]
Retained(ev, isNew) == IF isNew THEN [events EXCEPT ![ev.slot].refs = @ + 1] ELSE events

\* DosReadQueue and DosPeekQueue.  token is the read's own, or the one in
\* the peek's cell; ev is NoHandle when none is given.
ReadOrPeek(h, token, peek, cell, nowait, ev) ==
    LET q == queues[h.slot]
        names == nowait /\ ev # NoHandle
        w == Deliver(World(q.entries), current, token, peek, cell)
        empty == IsEmpty(q.entries, token, peek)
    IN
    /\ OnQueue(h)
    /\ \/ names /\ ~ MayNotify(q, ev) /\ QueueRefuse("ERROR")
       \/ /\ names => MayNotify(q, ev)
          /\ empty => nowait \/ token # 0
          /\ queues' = [queues EXCEPT ![h.slot] =
                [IF names THEN Notified(q, ev) ELSE q EXCEPT !.entries = w.entries]]
          /\ events' = Retained(ev, names /\ q.notify = NoHandle)
          /\ cells' = w.cells /\ got' = w.got
          /\ Answer(w.code)
          /\ UNCHANGED <<args, mutexes>>
       \/ /\ empty /\ ~ nowait /\ token = 0
          /\ Block("WAIT_QUEUE", h, "indefinite")
          /\ args' = [args EXCEPT ![current] = [peek |-> peek, cell |-> cell]]
          /\ UNCHANGED <<queues, cells, mutexes, events>> /\ got' = {}

ReadQueue(h, token, nowait, ev) == ReadOrPeek(h, token, FALSE, NoArgs.cell, nowait, ev)
PeekQueue(h, cell, nowait, ev) == ReadOrPeek(h, cells[cell], TRUE, cell, nowait, ev)

\* DosPurgeQueue
PurgeQueue(h) ==
    /\ OnQueue(h)
    /\ queues' = [queues EXCEPT ![h.slot].entries = <<>>]
    /\ QueueAnswer("NO_ERROR")
    /\ UNCHANGED <<args, cells>> /\ got' = {}

\* The position of a new element.
Place(q, priority) ==
    LET lower == {i \in 1..Len(q.entries) : q.entries[i].priority < priority}
    IN  CASE q.discipline = "LIFO" -> 1
          [] q.discipline = "PRIORITY" /\ lower # {} -> CHOOSE i \in lower : \A j \in lower : i <= j
          [] OTHER -> Len(q.entries) + 1

\* DosWriteQueue: a token is given out, the event posted, parked readers
\* served.  The token after the last is 0, and no element is added any more.
WriteQueue(h, priority) ==
    LET q == queues[h.slot]
        element == [token |-> q.nextToken, priority |-> priority]
        posts == IsEvent(q.notify)
        awake == IF posts THEN EventAwakens(threads, q.notify) ELSE threads
        w == WakeReaders([World(InsertAt(q.entries, Place(q, priority), element))
                             EXCEPT !.threads = awake], h)
    IN
    /\ OnQueue(h)
    /\ \/ (Len(q.entries) = Depth \/ q.nextToken = 0) /\ QueueRefuse("ERROR")
       \/ /\ Len(q.entries) # Depth /\ q.nextToken # 0
          /\ queues' = [queues EXCEPT ![h.slot].entries = w.entries,
                                      ![h.slot].nextToken = (@ + 1) % (MaxToken + 1)]
          /\ events' = IF posts /\ events[q.notify.slot].posts # MaxCount
                       THEN [events EXCEPT ![q.notify.slot].posts = @ + 1] ELSE events
          /\ threads' = [w.threads EXCEPT ![current].rc = "NO_ERROR"]
          /\ cells' = w.cells /\ got' = w.got
          /\ UNCHANGED <<schedVars, mutexes, args>>

\* Mutant of LastWaiters: those that wait for the queue's event are left.
QueueWaiters(h, frees, ev) == {s \in Slots : Waits(threads[s], "WAIT_QUEUE", h)}

\* Who waits for what the last close of queue h takes away.
LastWaiters(h, frees, ev) ==
    {s \in Slots : \/ Waits(threads[s], "WAIT_QUEUE", h)
                   \/ frees /\ Waits(threads[s], "WAIT_EVENT", ev)}

\* DosCloseQueue.  The last close releases the event; if nobody else has it
\* open it is destroyed, and whoever waits for it told.
CloseQueue(h) ==
    LET q == queues[h.slot]
        ev == q.notify
        frees == IsEvent(ev) /\ events[ev.slot].refs = 1
    IN
    /\ OnQueue(h)
    /\ \/ /\ q.refs > 1
          /\ queues' = [queues EXCEPT ![h.slot].refs = @ - 1]
          /\ QueueAnswer("NO_ERROR")
       \/ /\ q.refs <= 1
          /\ queues' = [queues EXCEPT ![h.slot] = [ZeroQueue EXCEPT !.generation = q.generation]]
          /\ events' = IF frees
                       THEN [events EXCEPT ![ev.slot] = ClosedEvent(@)]
                       ELSE IF IsEvent(ev)
                       THEN [events EXCEPT ![ev.slot].refs = Wrapped(@ + MaxCount)]
                       ELSE events
          /\ threads' = [s \in Slots |->
                           IF s \in LastWaiters(h, frees, ev) THEN Ready(threads[s], "ERROR")
                           ELSE IF s = current THEN [threads[s] EXCEPT !.rc = "NO_ERROR"]
                           ELSE threads[s]]
          /\ UNCHANGED <<schedVars, mutexes>>
    /\ UNCHANGED <<args, cells>> /\ got' = {}

\* The guest clears a cell to start over.
ClearCell(c) ==
    /\ Guest
    /\ cells' = [cells EXCEPT ![c] = 0]
    /\ UNCHANGED <<vars, queues, args>> /\ got' = {}

(***************************************************************************)
(* The specification.                                                      *)
(***************************************************************************)
QInit ==
    /\ Init
    /\ queues = [i \in QueueSlots |-> ZeroQueue]
    /\ args = [s \in Slots |-> NoArgs]
    /\ cells = [c \in Cells |-> 0]
    /\ got = {}

QueueCall ==
    \/ \E name \in QueueNames :
          \/ OpenQueue(name)
          \/ \E d \in Disciplines : CreateQueue(name, d)
    \/ \E h \in QueueHandles :
          \/ CloseQueue(h) \/ PurgeQueue(h) \/ BadQueue(h)
          \/ \E p \in Priorities : WriteQueue(h, p)
          \/ \E nowait \in BOOLEAN, ev \in EventHandles \cup {NoHandle} :
                \/ \E token \in 0..MaxToken : ReadQueue(h, token, nowait, ev)
                \/ \E c \in Cells : PeekQueue(h, c, nowait, ev)
    \/ \E c \in Cells : ClearCell(c)

QNext == QueueCall \/ (Next /\ UNCHANGED qVars /\ got' = {})

QSpec == QInit /\ [][QNext]_allVars

(***************************************************************************)
(* Properties.                                                             *)
(***************************************************************************)
\* The variables of the queues have their types.
QTypeOK ==
    /\ queues \in [QueueSlots ->
          [used : BOOLEAN, generation : 0..MaxGen, refs : 0..MaxCount,
           discipline : {"FIFO", "LIFO", "PRIORITY"}, nextToken : 0..MaxToken,
           notify : EventHandles \cup {NoHandle}, name : QueueNames \cup {NoName},
           entries : UNION {[1..n -> [token : 1..MaxToken, priority : Priorities]] :
                            n \in 0..Depth}]]
    /\ args \in [Slots -> [peek : BOOLEAN, cell : Cells]]
    /\ cells \in [Cells -> 0..MaxToken]
    /\ got \subseteq Slots \X (1..MaxToken)

\* No thread is parked on a queue that has elements or is closed: a write
\* serves parked threads until the queue is empty, a close sends them off.
QueueWaitersBlocked ==
    \A s \in Slots : threads[s].state = "WAIT_QUEUE" =>
        IsQueue(threads[s].on) /\ queues[threads[s].on.slot].entries = <<>>

\* e is to be read before f.
Precedes(discipline, e, f) ==
    CASE discipline = "FIFO" -> e.token < f.token
      [] discipline = "LIFO" -> e.token > f.token
      [] OTHER -> \/ e.priority > f.priority
                  \/ e.priority = f.priority /\ e.token < f.token

\* The elements stand in the order of the discipline, equal priorities in
\* the order written, across reads by token, peeks and writes; "equal
\* priority entries remain FIFO", README-V2-SYNC-R8.  Tokens are distinct
\* and given out ("tokens do not wrap/reuse within a queue lifetime").
InDiscipline ==
    \A i \in QueueSlots :
        LET q == queues[i] IN
        \A j, k \in 1..Len(q.entries) : j < k =>
            /\ Precedes(q.discipline, q.entries[j], q.entries[k])
            /\ q.entries[j].token # q.entries[k].token

\* Each queue is what its discipline and its bounds allow, and nobody waits
\* beside an element.
QueuesSound == QTypeOK /\ InDiscipline /\ QueueWaitersBlocked

SameQueue(i) == /\ queues[i].used /\ queues'[i].used
                /\ queues'[i].generation = queues[i].generation

Tokens(q) == {q.entries[j].token : j \in 1..Len(q.entries)}
Written(i) == IF queues'[i].nextToken = queues[i].nextToken THEN {}
              ELSE {queues[i].nextToken}

\* Every element that leaves a queue, and not by a purge, was returned to
\* exactly one thread, by a read ("one consuming reader per element"); what
\* was written and not returned is there; and what a read returns was there.
OneConsumerStep ==
    /\ \A i \in QueueSlots :
          LET gone == (Tokens(queues[i]) \cup Written(i)) \ Tokens(queues'[i])
          IN  SameQueue(i) /\ queues'[i] # queues[i] =>
              \/ gone = {d[2] : d \in got'} /\ Cardinality(gone) = Cardinality(got')
              \/ Written(i) = {} /\ queues'[i].entries = <<>> /\ got' = {}
    /\ got' # {} => \E i \in QueueSlots : SameQueue(i) /\ queues'[i] # queues[i]

\* Parked readers are served in the order in which they came: one that gets
\* an element leaves none waiting that came before it.
ServedInTurnStep ==
    \A s, r \in Slots :
        /\ threads[s].state = "WAIT_QUEUE" /\ threads'[s].state = "RUNNABLE"
        /\ threads[r].state = "WAIT_QUEUE" /\ threads'[r].state = "WAIT_QUEUE"
        /\ threads[s].on = threads[r].on
        => threads[s].order < threads[r].order

\* Elements are handed out once, and in turn.
Delivery == [][OneConsumerStep /\ ServedInTurnStep]_allVars

=============================================================================
