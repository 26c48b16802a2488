------------------------------ MODULE WhpSync -------------------------------
(***************************************************************************)
(* The guest scheduler of the Windows Hypervisor Platform host and what    *)
(* guest threads wait for: each other, time, event semaphores and mutex    *)
(* semaphores (whp/src/whp_os2_v2_hi.c, v2_sync.h).                        *)
(*                                                                         *)
(* One virtual processor runs one guest thread at a time, and the host is  *)
(* a single thread: a hypercall is one step.  The running thread goes on   *)
(* after its call unless the call asked for a switch; then the scheduler   *)
(* takes the next runnable thread, round robin, and when there is none the *)
(* host sleeps until the nearest deadline.  Deadlines are looked at at the *)
(* head of every hypercall and in the scheduler's loop.  Guest code runs   *)
(* in between and sees none of this state, so a step of its own,           *)
(* DeadlinePasses, stands for the expiry of one wait at either place.      *)
(*                                                                         *)
(* Left out: the callbacks, PM and console waits, the registers other than *)
(* EAX, and stacks.  WhpQueue adds the queues, WhpProcess the children.    *)
(***************************************************************************)
EXTENDS Integers, FiniteSets, SequencesExt

CONSTANTS
    NThreads,    \* MAX_THREADS
    NMutexes,    \* MAX_MUTEXES
    NEvents,     \* MAX_EVENT_SEMS
    MaxTid,      \* the value of next_tid at which no thread is created: UINT32_MAX
    MaxGen,      \* SYNC_GENERATION_MAX
    MaxCount,    \* UINT32_MAX: reference, recursion and post counts
    Names,       \* semaphore names, case folded
    NoName,      \* the name of an unnamed semaphore
    MaxSerial    \* bound: sync_block calls

ASSUME SyncAssumption ==
    /\ NThreads \in Nat \ {0} /\ NMutexes \in Nat /\ NEvents \in Nat
    /\ MaxTid \in Nat /\ MaxTid > 1
    /\ MaxGen \in Nat
    /\ MaxCount \in Nat \ {0}
    /\ NoName \notin Names
    /\ MaxSerial \in Nat

VARIABLES
    threads,     \* rt->threads
    current,     \* rt->current_thread
    mode,        \* what the host does: see Modes
    nextTid,     \* rt->next_tid
    waitSerial,  \* rt->wait_serial
    mutexes,     \* rt->mutexes
    events       \* rt->events

schedVars == <<current, mode, nextTid, waitSerial>>
vars == <<threads, current, mode, nextTid, waitSerial, mutexes, events>>

Slots == 0..NThreads - 1
MutexSlots == 0..NMutexes - 1
EventSlots == 0..NEvents - 1

\* "guest": the current thread runs; "switch": schedule_next_thread has not
\* found a thread yet; the other two end the run.
Modes == {"guest", "switch", "exited", "deadlock"}

ThreadStates == {"FREE", "RUNNABLE", "RUNNING", "WAIT_THREAD", "WAIT_EVENT",
                 "SLEEP", "WAIT_MUTEX", "WAIT_QUEUE", "WAIT_PROCESS", "SUSPENDED",
                 "DEAD"}
Gone == {"FREE", "DEAD"}

\* The waits wake_expired_waiters ends.
TimedStates == {"WAIT_EVENT", "WAIT_MUTEX", "SLEEP"}

\* The values of a timeout argument the code tells apart.
Timeouts == {"zero", "finite", "indefinite"}

\* Results the properties tell apart; "ERROR" is any other.
Codes == {"NO_ERROR", "SEM_OWNER_DIED", "SEM_TIMEOUT", "ERROR"}

(***************************************************************************)
(* Handles carry a tag, a slot and a generation.  A guest may pass any     *)
(* number for one.                                                         *)
(***************************************************************************)
Handle(kind, i, g) == [kind |-> kind, slot |-> i, generation |-> g]
NoHandle == Handle("none", 0, 0)

MutexHandle(i) == Handle("mutex", i, mutexes[i].generation)
EventHandle(i) == Handle("event", i, events[i].generation)

MutexHandles == {Handle("mutex", i, g) : i \in MutexSlots, g \in 1..MaxGen}
EventHandles == {Handle("event", i, g) : i \in EventSlots, g \in 1..MaxGen}

IsMutex(h) == /\ h.kind = "mutex"
              /\ mutexes[h.slot].used /\ mutexes[h.slot].generation = h.generation
IsEvent(h) == /\ h.kind = "event"
              /\ events[h.slot].used /\ events[h.slot].generation = h.generation

(***************************************************************************)
(* The thread table.                                                       *)
(*   on       wait_event: the handle waited for                            *)
(*   timed    wait_deadline_ms is not zero                                 *)
(*   order    wait_order                                                   *)
(*   waitTid  wait_tid                                                     *)
(*   rc       EAX, the result of the thread's last call                    *)
(***************************************************************************)
ZeroThread == [state |-> "FREE", tid |-> 0, on |-> NoHandle, timed |-> FALSE,
               order |-> 0, waitTid |-> 0, rc |-> "NO_ERROR"]

ZeroMutex == [used |-> FALSE, generation |-> 0, refs |-> 0, owner |-> 0, count |-> 0,
              abandoned |-> FALSE, name |-> NoName]

ZeroEvent == [used |-> FALSE, generation |-> 0, refs |-> 0, posts |-> 0,
              name |-> NoName]

\* find_thread
SlotsOf(T, tid) == {s \in Slots : T[s].state # "FREE" /\ T[s].tid = tid}

Live(t) == t.state \notin Gone

\* Of a dead thread only the id is read, of a free slot nothing.
Dead(t) == [ZeroThread EXCEPT !.state = "DEAD", !.tid = t.tid]

Waits(t, state, h) == t.state = state /\ t.on = h
Waiters(T, state, h) == {s \in Slots : Waits(T[s], state, h)}

\* Mutant of FirstWaiter: the first in the table, not in time.
LowestWaiter(T, state, h) ==
    CHOOSE s \in Waiters(T, state, h) : \A r \in Waiters(T, state, h) : s <= r

\* sync_first_waiter; there is one.
FirstWaiter(T, state, h) ==
    CHOOSE s \in Waiters(T, state, h) :
        \A r \in Waiters(T, state, h) : T[s].order <= T[r].order

\* sync_ready; waits that end elsewhere do the same but leave wait_order,
\* which is set again before it is next read.
Ready(t, code) == [t EXCEPT !.state = "RUNNABLE", !.on = NoHandle, !.timed = FALSE,
                            !.order = 0, !.rc = code]

\* Parking the current thread; its call returns rc when it is woken.
Parked(t, state, h, timeout, order) ==
    [t EXCEPT !.state = state, !.on = h, !.timed = (timeout = "finite"),
              !.order = order, !.rc = "NO_ERROR"]

(***************************************************************************)
(* How calls end.                                                          *)
(***************************************************************************)
Guest == mode = "guest"
Me == threads[current]

\* The call returns a result and the thread goes on.
Answer(code) ==
    /\ threads' = [threads EXCEPT ![current].rc = code]
    /\ UNCHANGED schedVars

\* It returns one and changes nothing else.
Refuse(code) == Answer(code) /\ UNCHANGED <<mutexes, events>>

\* switch_requested: save the context and look for another thread.
SwitchTo(T) ==
    /\ threads' = T
    /\ mode' = "switch"
    /\ UNCHANGED <<current, nextTid>>

\* sync_block
Block(state, h, timeout) ==
    /\ waitSerial < MaxSerial
    /\ waitSerial' = waitSerial + 1
    /\ SwitchTo([threads EXCEPT ![current] =
                    Parked(@, state, h, timeout, waitSerial + 1)])

(***************************************************************************)
(* The scheduler.                                                          *)
(***************************************************************************)
\* Mutant of After: every search starts from the same slot.
AfterZero(n) == n % NThreads

\* next_runnable_thread: the slot n places on.
After(n) == (current + n) % NThreads
Runnable(n) == threads[After(n)].state = "RUNNABLE"

Schedule ==
    /\ mode = "switch"
    /\ \E n \in 1..NThreads :
          /\ Runnable(n)
          /\ \A k \in 1..n - 1 : ~ Runnable(k)
          /\ current' = After(n)
          /\ threads' = [threads EXCEPT ![After(n)].state = "RUNNING"]
    /\ mode' = "guest"
    /\ UNCHANGED <<nextTid, waitSerial, mutexes, events>>

\* next_wait_timeout: waits the host sleeps for.  Waits for child processes
\* are polled (WhpProcess).
Timed(t) == t.state \in TimedStates \cup {"WAIT_PROCESS"} /\ t.timed

\* "scheduler deadlock: no runnable guest thread and no finite timeout"
ScheduleFails ==
    /\ mode = "switch"
    /\ \A s \in Slots : threads[s].state # "RUNNABLE"
    /\ \A s \in Slots : ~ Timed(threads[s])
    /\ mode' = "deadlock"
    /\ UNCHANGED <<threads, current, nextTid, waitSerial, mutexes, events>>

\* wake_expired_waiters, for one thread.
DeadlinePasses(s) ==
    /\ mode \in {"guest", "switch"}
    /\ threads[s].state \in TimedStates /\ threads[s].timed
    /\ threads' = [threads EXCEPT ![s] =
                      Ready(@, IF @.state = "SLEEP" THEN "NO_ERROR" ELSE "SEM_TIMEOUT")]
    /\ UNCHANGED <<schedVars, mutexes, events>>

\* guest_sleep
Sleep(timeout) ==
    /\ Guest
    /\ \/ /\ timeout = "zero"
          /\ SwitchTo([threads EXCEPT ![current].state = "RUNNABLE",
                                      ![current].rc = "NO_ERROR"])
          /\ UNCHANGED waitSerial
       \/ timeout # "zero" /\ Block("SLEEP", NoHandle, timeout)
    /\ UNCHANGED <<mutexes, events>>

(***************************************************************************)
(* Threads.                                                                *)
(***************************************************************************)
NewThread(tid, suspended) ==
    [ZeroThread EXCEPT !.tid = tid, !.state = IF suspended THEN "SUSPENDED" ELSE "RUNNABLE"]

\* create_guest_thread.  It takes the first slot that is free or dead; when
\* WHvGetVirtualProcessorRegisters fails the slot is left zeroed.
CreateThread(suspended) ==
    /\ Guest
    /\ \/ Answer("ERROR")
       \/ \E s \in Slots :
             /\ nextTid < MaxTid
             /\ ~ Live(threads[s]) /\ \A r \in Slots : r < s => Live(threads[r])
             /\ \/ /\ threads' = [threads EXCEPT ![s] = ZeroThread, ![current].rc = "ERROR"]
                   /\ UNCHANGED schedVars
                \/ /\ threads' = [threads EXCEPT
                         ![s] = NewThread(nextTid, suspended),
                         ![current].rc = "NO_ERROR"]
                   /\ nextTid' = nextTid + 1
                   /\ UNCHANGED <<current, mode, waitSerial>>
    /\ UNCHANGED <<mutexes, events>>

\* guest_wait_thread.  The dead slot found is freed; a thread that was
\* issued and has no slot any more is taken to have ended.
WaitThread(tid, nowait) ==
    /\ Guest
    /\ \/ \E s \in Slots :
             /\ threads[s].state = "DEAD"
             /\ IF tid = 0 THEN \A r \in Slots : r < s => threads[r].state # "DEAD"
                           ELSE threads[s].tid = tid
             /\ threads' = [threads EXCEPT ![s] = ZeroThread, ![current].rc = "NO_ERROR"]
             /\ UNCHANGED schedVars
       \/ /\ tid # 0 /\ SlotsOf(threads, tid) = {}
          /\ Answer(IF tid < nextTid THEN "NO_ERROR" ELSE "ERROR")
       \/ /\ tid = Me.tid
          /\ Answer("ERROR")
       \/ /\ tid = 0 /\ \A s \in Slots \ {current} : ~ Live(threads[s])
          /\ \A s \in Slots : threads[s].state # "DEAD"
          /\ Answer("ERROR")
       \/ /\ \/ tid = 0 /\ \A s \in Slots : threads[s].state # "DEAD"
             \/ tid # 0 /\ \E s \in SlotsOf(threads, tid) \ {current} : Live(threads[s])
          /\ tid = 0 => \E s \in Slots \ {current} : Live(threads[s])
          /\ \/ nowait /\ Answer("ERROR")
             \/ /\ ~ nowait
                /\ SwitchTo([threads EXCEPT ![current].state = "WAIT_THREAD",
                                            ![current].waitTid = tid,
                                            ![current].rc = "NO_ERROR"])
                /\ UNCHANGED waitSerial
    /\ UNCHANGED <<mutexes, events>>

(***************************************************************************)
(* mutex_handoff: a mutex nobody owns is given to its first waiter.        *)
(***************************************************************************)
\* Mutant of HandedMutex: the mutex is left free for the woken thread to take.
HandedNobody(T, m, h) == m

HandedMutex(T, m, h) ==
    IF Waiters(T, "WAIT_MUTEX", h) = {} THEN m
    ELSE [m EXCEPT !.owner = T[FirstWaiter(T, "WAIT_MUTEX", h)].tid,
                   !.count = 1, !.abandoned = FALSE]

\* Mutant of HandedThreads: every waiter is woken.
HandedAll(T, m, h) ==
    [s \in Slots |-> IF Waits(T[s], "WAIT_MUTEX", h) THEN Ready(T[s], "NO_ERROR") ELSE T[s]]

HandedThreads(T, m, h) ==
    IF Waiters(T, "WAIT_MUTEX", h) = {} THEN T
    ELSE [T EXCEPT ![FirstWaiter(T, "WAIT_MUTEX", h)] =
             Ready(@, IF m.abandoned THEN "SEM_OWNER_DIED" ELSE "NO_ERROR")]

\* mutex_owner_exit, mutexes and threads.
Orphaned(i) == mutexes[i].used /\ mutexes[i].owner = Me.tid

\* Mutant of Orphan: the mutex is simply freed.
OrphanUnmarked(m) == [m EXCEPT !.owner = 0, !.count = 0]

Orphan(m) == [m EXCEPT !.owner = 0, !.count = 0, !.abandoned = TRUE]

\* Mutant of MutexesLeft: a thread that ends keeps what it owns.
MutexesKept == mutexes

MutexesLeft == [i \in MutexSlots |->
    IF Orphaned(i) THEN HandedMutex(threads, Orphan(mutexes[i]), MutexHandle(i))
                   ELSE mutexes[i]]

IsHeir(s) == \E i \in MutexSlots :
    /\ Orphaned(i)
    /\ Waiters(threads, "WAIT_MUTEX", MutexHandle(i)) # {}
    /\ s = FirstWaiter(threads, "WAIT_MUTEX", MutexHandle(i))

\* wake_thread_waiters: all that wait for this thread or for any; the first
\* of them frees the dead slot.
\* Mutant of Awaits: those that wait for any thread are forgotten.
AwaitsByName(t, tid) == t.state = "WAIT_THREAD" /\ t.waitTid = tid

Awaits(t, tid) == t.state = "WAIT_THREAD" /\ t.waitTid \in {0, tid}

ThreadsLeft == [s \in Slots |->
    IF s = current
    THEN IF \E r \in Slots : Awaits(threads[r], Me.tid) THEN ZeroThread ELSE Dead(Me)
    ELSE IF IsHeir(s) THEN Ready(threads[s], "SEM_OWNER_DIED")
    ELSE IF Awaits(threads[s], Me.tid)
    THEN [threads[s] EXCEPT !.state = "RUNNABLE", !.waitTid = 0]
    ELSE threads[s]]

\* No other thread lives.
LastEnds == \A s \in Slots \ {current} : ~ Live(threads[s])

\* finish_guest_thread, by DosExit(EXIT_THREAD) or the return of the thread.
ExitThread ==
    /\ Guest
    /\ mutexes' = MutexesLeft
    /\ threads' = ThreadsLeft
    /\ mode' = IF LastEnds THEN "exited" ELSE "switch"
    /\ UNCHANGED <<current, nextTid, waitSerial, events>>

\* DosExit(EXIT_PROCESS)
ExitProcess ==
    /\ Guest
    /\ mode' = "exited"
    /\ UNCHANGED <<threads, current, nextTid, waitSerial, mutexes, events>>

(***************************************************************************)
(* Mutex semaphores, dispatch_mutex.                                       *)
(***************************************************************************)
MutexNamed(name) == {i \in MutexSlots : mutexes[i].used /\ mutexes[i].name = name}

\* Mutant of FirstFreeMutex: a slot whose generations are used up is taken.
FirstUnusedMutex(i) ==
    ~ mutexes[i].used /\ \A j \in MutexSlots : j < i => mutexes[j].used

FirstFreeMutex(i) ==
    /\ ~ mutexes[i].used /\ mutexes[i].generation < MaxGen
    /\ \A j \in MutexSlots : j < i => mutexes[j].used \/ mutexes[j].generation = MaxGen

\* DosCreateMutexSem
CreateMutex(name, owned) ==
    /\ Guest
    /\ \/ name # NoName /\ MutexNamed(name) # {} /\ Refuse("ERROR")
       \/ (\A i \in MutexSlots : ~ FirstFreeMutex(i)) /\ Refuse("ERROR")
       \/ /\ name # NoName => MutexNamed(name) = {}
          /\ \E i \in MutexSlots :
                /\ FirstFreeMutex(i)
                /\ mutexes' = [mutexes EXCEPT ![i] =
                      [used |-> TRUE, generation |-> @.generation + 1, refs |-> 1,
                       owner |-> IF owned THEN Me.tid ELSE 0,
                       count |-> IF owned THEN 1 ELSE 0,
                       abandoned |-> FALSE, name |-> name]]
          /\ Answer("NO_ERROR")
          /\ UNCHANGED events

\* DosOpenMutexSem, by name or by handle.
OpenMutexSlot(i) ==
    \/ mutexes[i].refs = MaxCount /\ Refuse("ERROR")
    \/ /\ mutexes[i].refs # MaxCount
       /\ mutexes' = [mutexes EXCEPT ![i].refs = @ + 1]
       /\ Answer("NO_ERROR")
       /\ UNCHANGED events

OpenMutexNamed(name) ==
    /\ Guest
    /\ \/ MutexNamed(name) = {} /\ Refuse("ERROR")
       \/ \E i \in MutexNamed(name) : OpenMutexSlot(i)

\* Every other call starts with mutex_from_handle.
OnMutex(h) == Guest /\ IsMutex(h)

OpenMutex(h) == OnMutex(h) /\ OpenMutexSlot(h.slot)

\* DosCloseMutexSem

MutexBusy(i) ==
    mutexes[i].owner # 0 \/ Waiters(threads, "WAIT_MUTEX", MutexHandle(i)) # {}

ClosedMutex(m) ==
    IF m.refs > 1 THEN [m EXCEPT !.refs = @ - 1]
    ELSE [m EXCEPT !.used = FALSE, !.refs = 0, !.name = NoName]

CloseMutex(h) ==
    /\ OnMutex(h)
    /\ \/ mutexes[h.slot].refs <= 1 /\ MutexBusy(h.slot) /\ Refuse("ERROR")
       \/ /\ mutexes[h.slot].refs > 1 \/ ~ MutexBusy(h.slot)
          /\ mutexes' = [mutexes EXCEPT ![h.slot] = ClosedMutex(@)]
          /\ Answer("NO_ERROR")
          /\ UNCHANGED events

\* DosRequestMutexSem: the owner's request is counted, a free mutex is
\* taken, otherwise the thread waits.
RequestMutex(h, timeout) ==
    LET m == mutexes[h.slot] IN
    /\ OnMutex(h)
    /\ \/ /\ m.owner = Me.tid
          /\ \/ m.count = MaxCount /\ Refuse("ERROR")
             \/ /\ m.count # MaxCount
                /\ mutexes' = [mutexes EXCEPT ![h.slot].count = @ + 1]
                /\ Answer("NO_ERROR")
                /\ UNCHANGED events
       \/ /\ m.owner = 0
          /\ mutexes' = [mutexes EXCEPT ![h.slot].owner = Me.tid, ![h.slot].count = 1,
                                        ![h.slot].abandoned = FALSE]
          /\ Answer(IF m.abandoned THEN "SEM_OWNER_DIED" ELSE "NO_ERROR")
          /\ UNCHANGED events
       \/ /\ m.owner \notin {0, Me.tid}
          /\ \/ timeout = "zero" /\ Refuse("SEM_TIMEOUT")
             \/ /\ timeout # "zero"
                /\ Block("WAIT_MUTEX", h, timeout)
                /\ UNCHANGED <<mutexes, events>>

\* DosReleaseMutexSem: the last release hands the mutex on.
ReleaseMutex(h) ==
    LET m == mutexes[h.slot]
        free == [m EXCEPT !.owner = 0, !.count = 0]
    IN
    /\ OnMutex(h)
    /\ \/ m.owner # Me.tid /\ Refuse("ERROR")
       \/ /\ m.owner = Me.tid /\ m.count > 1
          /\ mutexes' = [mutexes EXCEPT ![h.slot].count = @ - 1]
          /\ Answer("NO_ERROR")
          /\ UNCHANGED events
       \/ /\ m.owner = Me.tid /\ m.count = 1
          /\ mutexes' = [mutexes EXCEPT ![h.slot] = HandedMutex(threads, free, h)]
          /\ threads' = [HandedThreads(threads, free, h) EXCEPT
                            ![current].rc = "NO_ERROR"]
          /\ UNCHANGED <<schedVars, events>>

(***************************************************************************)
(* Event semaphores.  Their reference and post counts are not guarded by   *)
(* the calls and wrap.                                                     *)
(***************************************************************************)
Wrapped(n) == n % (MaxCount + 1)

EventNamed(name) == {i \in EventSlots : events[i].used /\ events[i].name = name}
FirstFreeEvent(i) ==
    /\ ~ events[i].used /\ events[i].generation < MaxGen
    /\ \A j \in EventSlots : j < i => events[j].used \/ events[j].generation = MaxGen

\* DosCreateEventSem
CreateEvent(name, posted) ==
    /\ Guest
    /\ \/ name # NoName /\ EventNamed(name) # {} /\ Refuse("ERROR")
       \/ (\A i \in EventSlots : ~ FirstFreeEvent(i)) /\ Refuse("ERROR")
       \/ /\ name # NoName => EventNamed(name) = {}
          /\ \E i \in EventSlots :
                /\ FirstFreeEvent(i)
                /\ events' = [events EXCEPT ![i] =
                      [used |-> TRUE, generation |-> @.generation + 1, refs |-> 1,
                       posts |-> IF posted THEN 1 ELSE 0, name |-> name]]
          /\ Answer("NO_ERROR")
          /\ UNCHANGED mutexes

\* DosOpenEventSem, by name or by handle.
OpenEventSlot(i) ==
    /\ events' = [events EXCEPT ![i].refs = Wrapped(@ + 1)]
    /\ Answer("NO_ERROR")
    /\ UNCHANGED mutexes

OpenEventNamed(name) ==
    /\ Guest
    /\ \/ EventNamed(name) = {} /\ Refuse("ERROR")
       \/ \E i \in EventNamed(name) : OpenEventSlot(i)

\* Every other call starts with event_from_handle.
OnEvent(h) == Guest /\ IsEvent(h)

OpenEvent(h) == OnEvent(h) /\ OpenEventSlot(h.slot)

\* DosCloseEventSem
EventBusy(i) == Waiters(threads, "WAIT_EVENT", EventHandle(i)) # {}

ClosedEvent(e) ==
    IF e.refs > 1 THEN [e EXCEPT !.refs = @ - 1]
    ELSE [ZeroEvent EXCEPT !.generation = e.generation]

CloseEvent(h) ==
    /\ OnEvent(h)
    /\ \/ events[h.slot].refs <= 1 /\ EventBusy(h.slot) /\ Refuse("ERROR")
       \/ /\ events[h.slot].refs > 1 \/ ~ EventBusy(h.slot)
          /\ events' = [events EXCEPT ![h.slot] = ClosedEvent(@)]
          /\ Answer("NO_ERROR")
          /\ UNCHANGED mutexes

\* DosResetEventSem
ResetEvent(h) ==
    /\ OnEvent(h)
    /\ events' = [events EXCEPT ![h.slot].posts = 0]
    /\ Answer(IF events[h.slot].posts = 0 THEN "ERROR" ELSE "NO_ERROR")
    /\ UNCHANGED mutexes

\* wake_event_waiters
EventAwakens(T, h) ==
    [s \in Slots |-> IF Waits(T[s], "WAIT_EVENT", h) THEN Ready(T[s], "NO_ERROR") ELSE T[s]]

\* DosPostEventSem
PostEvent(h) ==
    /\ OnEvent(h)
    /\ events' = [events EXCEPT ![h.slot].posts = Wrapped(@ + 1)]
    /\ threads' = [EventAwakens(threads, h) EXCEPT
          ![current].rc = IF events[h.slot].posts = 0 THEN "NO_ERROR" ELSE "ERROR"]
    /\ UNCHANGED <<schedVars, mutexes>>

\* DosWaitEventSem.  It does not use sync_block: event waits have no order.
WaitEvent(h, timeout) ==
    /\ OnEvent(h)
    /\ \/ events[h.slot].posts # 0 /\ Refuse("NO_ERROR")
       \/ events[h.slot].posts = 0 /\ timeout = "zero" /\ Refuse("SEM_TIMEOUT")
       \/ /\ events[h.slot].posts = 0 /\ timeout # "zero"
          /\ SwitchTo([threads EXCEPT ![current] =
                Parked(@, "WAIT_EVENT", h, timeout, 0)])
          /\ UNCHANGED <<waitSerial, mutexes, events>>

\* A call on a handle that names no semaphore.
BadHandle(h) ==
    /\ Guest
    /\ IF h.kind = "mutex" THEN ~ IsMutex(h) ELSE ~ IsEvent(h)
    /\ Refuse("ERROR")

(***************************************************************************)
(* The specification.                                                      *)
(***************************************************************************)
Init ==
    /\ threads = [s \in Slots |->
                    IF s = 0 THEN [ZeroThread EXCEPT !.state = "RUNNING", !.tid = 1]
                             ELSE ZeroThread]
    /\ current = 0
    /\ mode = "guest"
    /\ nextTid = 2
    /\ waitSerial = 0
    /\ mutexes = [i \in MutexSlots |-> ZeroMutex]
    /\ events = [i \in EventSlots |-> ZeroEvent]

ThreadCall ==
    \/ \E timeout \in Timeouts : Sleep(timeout)
    \/ \E suspended \in BOOLEAN : CreateThread(suspended)
    \/ \E tid \in 0..nextTid, nowait \in BOOLEAN : WaitThread(tid, nowait)
    \/ ExitThread
    \/ ExitProcess

MutexCall ==
    \/ \E name \in Names \cup {NoName}, owned \in BOOLEAN : CreateMutex(name, owned)
    \/ \E name \in Names : OpenMutexNamed(name)
    \/ \E h \in MutexHandles :
          \/ OpenMutex(h)
          \/ CloseMutex(h)
          \/ \E timeout \in Timeouts : RequestMutex(h, timeout)
          \/ ReleaseMutex(h)
          \/ BadHandle(h)

EventCall ==
    \/ \E name \in Names \cup {NoName}, posted \in BOOLEAN : CreateEvent(name, posted)
    \/ \E name \in Names : OpenEventNamed(name)
    \/ \E h \in EventHandles :
          \/ OpenEvent(h)
          \/ CloseEvent(h)
          \/ ResetEvent(h)
          \/ PostEvent(h)
          \/ \E timeout \in Timeouts : WaitEvent(h, timeout)
          \/ BadHandle(h)

Host == Schedule \/ ScheduleFails \/ \E s \in Slots : DeadlinePasses(s)

\* The run is over.
Ended == mode \in {"exited", "deadlock"} /\ UNCHANGED vars

Next == ThreadCall \/ MutexCall \/ EventCall \/ Host \/ Ended

Spec == Init /\ [][Next]_vars

(***************************************************************************)
(* Properties.                                                             *)
(***************************************************************************)
ThreadType == [state : ThreadStates, tid : Nat,
               on : [kind : {"none", "mutex", "event", "queue"}, slot : Nat,
                     generation : Nat],
               timed : BOOLEAN, order : Nat, waitTid : Nat, rc : Codes]

MutexType == [used : BOOLEAN, generation : 0..MaxGen, refs : 0..MaxCount, owner : Nat,
              count : 0..MaxCount, abandoned : BOOLEAN, name : Names \cup {NoName}]

EventType == [used : BOOLEAN, generation : 0..MaxGen, refs : 0..MaxCount,
              posts : 0..MaxCount, name : Names \cup {NoName}]

\* The variables have their types.
TypeOK ==
    /\ threads \in [Slots -> ThreadType]
    /\ current \in Slots
    /\ mode \in Modes
    /\ nextTid \in 2..MaxTid
    /\ waitSerial \in Nat
    /\ mutexes \in [MutexSlots -> MutexType]
    /\ events \in [EventSlots -> EventType]

\* One virtual processor: at most one thread is RUNNING, it is the current
\* one, and while the run goes on some thread has not ended
\* (schedule_next_thread, switch_after_hypercall, finish_guest_thread).
OneRuns ==
    /\ Guest => threads[current].state = "RUNNING"
    /\ \A s \in Slots : threads[s].state = "RUNNING" => mode \in {"guest", "exited"}
                                                     /\ s = current
    /\ mode # "exited" => \E s \in Slots : Live(threads[s])

\* A thread id is never given to two threads, though their slots are used
\* again (create_guest_thread); "TIDs are monotonically issued and never
\* reused", README-V2-SYNC-R8.
TidsUnique ==
    \A s \in Slots : threads[s].state # "FREE" =>
        /\ threads[s].tid \in 1..nextTid - 1
        /\ SlotsOf(threads, threads[s].tid) = {s}

\* A mutex is owned by a thread that has not ended, and is counted as owned
\* exactly then; an abandoned one has no owner (dispatch_mutex,
\* mutex_owner_exit).
OwnerLives ==
    \A i \in MutexSlots : mutexes[i].used =>
        /\ mutexes[i].owner = 0 <=> mutexes[i].count = 0
        /\ mutexes[i].owner # 0 =>
              \E s \in Slots : Live(threads[s]) /\ threads[s].tid = mutexes[i].owner
        /\ mutexes[i].abandoned => mutexes[i].owner = 0

\* No thread waits for a mutex that is free, its own, or destroyed: every
\* release, owner's end, and close hands it on or is refused.
MutexWaitersBlocked ==
    \A s \in Slots : threads[s].state = "WAIT_MUTEX" =>
        /\ IsMutex(threads[s].on)
        /\ mutexes[threads[s].on.slot].owner \notin {0, threads[s].tid}

\* No thread waits for an event that is posted or destroyed (DosPostEventSem,
\* DosCloseEventSem).
EventWaitersBlocked ==
    \A s \in Slots : threads[s].state = "WAIT_EVENT" =>
        /\ IsEvent(threads[s].on)
        /\ events[threads[s].on.slot].posts = 0

\* DosWaitThread blocks only while the thread waited for lives; for any
\* thread, only while another one lives and none has ended unreported
\* (guest_wait_thread, wake_thread_waiters).
ThreadWaitersBlocked ==
    \A s \in Slots : threads[s].state = "WAIT_THREAD" =>
        IF threads[s].waitTid = 0
        THEN /\ \A r \in Slots : threads[r].state # "DEAD"
             /\ \E r \in Slots \ {s} : Live(threads[r])
        ELSE \E r \in Slots \ {s} : Live(threads[r]) /\ threads[r].tid = threads[s].waitTid

\* No wake-up is lost: whoever waits for a mutex, an event or a thread waits for
\* something that exists and that it cannot have yet.
WaitersBlocked == MutexWaitersBlocked /\ EventWaitersBlocked /\ ThreadWaitersBlocked

SameMutex(i) == /\ mutexes[i].used /\ mutexes'[i].used
                /\ mutexes'[i].generation = mutexes[i].generation

\* Nobody overtakes: whoever comes to own a mutex, by a request or by being
\* handed it, leaves no thread waiting that waited before
\* ("reserves ownership for the oldest waiting guest", README-V2-SYNC-R8).
FifoStep ==
    \A i \in MutexSlots :
        LET was == Waiters(threads, "WAIT_MUTEX", MutexHandle(i))
            left == {s \in was : threads'[s].state = "WAIT_MUTEX"}
        IN  SameMutex(i) /\ mutexes'[i].owner \notin {0, mutexes[i].owner} =>
               \A s \in left : \E r \in was :
                   /\ threads[r].tid = mutexes'[i].owner
                   /\ threads[r].order < threads[s].order
Fifo == [][FifoStep]_vars

\* A request tells the truth: a thread leaves the wait as owner with one
\* count, or with SEM_TIMEOUT after a finite timeout and without the mutex.
WaitTellsTruth ==
    \A s \in Slots :
        threads[s].state = "WAIT_MUTEX" /\ threads'[s].state # "WAIT_MUTEX" =>
            LET m == mutexes'[threads[s].on.slot] IN
            IF threads'[s].rc = "SEM_TIMEOUT"
            THEN threads[s].timed /\ m = mutexes[threads[s].on.slot]
            ELSE m.owner = threads[s].tid /\ m.count = 1
RequestHonest == [][WaitTellsTruth]_vars

\* The end of an owner is reported once: the next owner gets SEM_OWNER_DIED,
\* whether it waited or asks later, and nobody else does.
OwnerDiesIn(i) == \E s \in Slots : /\ Live(threads[s]) /\ ~ Live(threads'[s])
                                   /\ threads[s].tid = mutexes[i].owner
EndTold(i) ==
    LET died == mutexes[i].abandoned \/ OwnerDiesIn(i) IN
    IF mutexes'[i].owner = 0 THEN mutexes'[i].abandoned = died
    ELSE IF mutexes'[i].owner = mutexes[i].owner THEN ~ died
    ELSE \E s \in Slots :
            /\ Live(threads'[s]) /\ threads'[s].tid = mutexes'[i].owner
            /\ (threads'[s].rc = "SEM_OWNER_DIED") <=> died
DeathTold == \A i \in MutexSlots : SameMutex(i) => EndTold(i)
OwnerDeathTold == [][DeathTold]_vars

(***************************************************************************)
(* Liveness, for guests that do not keep the processor: "a thread that     *)
(* never yields or blocks can starve others" (README-V2-SYNC-R8).          *)
(***************************************************************************)
Fairness ==
    /\ []<> ~ Guest
    /\ WF_vars(Schedule)
    /\ \A s \in Slots : WF_vars(DeadlinePasses(s))

FairSpec == Spec /\ Fairness

Over == mode \in {"exited", "deadlock"}

\* Round robin: no thread stays runnable for ever; it runs.
RunnableRuns == \A s \in Slots : []<> (threads[s].state # "RUNNABLE" \/ Over)

\* A wait with a finite timeout ends, whatever else happens.
TimedWaitEnds == \A s \in Slots : []<> (~ threads[s].timed \/ Over)

\* A guest that owns a mutex and goes on running releases it, at every depth.
Releases(depth) ==
    \E h \in MutexHandles :
        /\ Me.tid = mutexes[h.slot].owner /\ mutexes[h.slot].count = depth
        /\ ReleaseMutex(h)

DutifulSpec == FairSpec /\ \A depth \in 1..MaxCount : SF_vars(Releases(depth))

\* Nobody waits for ever for a mutex whose owners stay able to run.
OwnerReady(i) == mutexes[i].owner = 0 \/ \E s \in Slots :
    /\ threads[s].tid = mutexes[i].owner
    /\ threads[s].state \in {"RUNNABLE", "RUNNING"}
MutexWaitEnds ==
    \A s \in Slots :
        []<> (Over \/ ~ (threads[s].state = "WAIT_MUTEX" /\ OwnerReady(threads[s].on.slot)))

\* Waits end: those with a deadline by it, and those for a mutex because it is
\* released and handed on (wake_expired_waiters, mutex_handoff).
WaitsEnd == TimedWaitEnds /\ MutexWaitEnds

(***************************************************************************)
(* Each mutex slot implements MutexService.                                *)
(***************************************************************************)
WaitingTids(i) ==
    LET those == Waiters(threads, "WAIT_MUTEX", MutexHandle(i))
        Before(s) == Cardinality({r \in those : threads[r].order < threads[s].order})
    IN  [k \in 1..Cardinality(those) |->
            threads[CHOOSE s \in those : Before(s) = k - 1].tid]

Service(i) == INSTANCE MutexService WITH
    Tids <- 1..MaxTid,
    Limit <- MaxCount,
    holder <- mutexes[i].owner,
    depth <- mutexes[i].count,
    waiting <- WaitingTids(i),
    orphan <- mutexes[i].abandoned

\* Every mutex slot behaves as MutexService, whatever guests do.
ServiceStep == \A i \in MutexSlots : UNCHANGED Service(i)!svcVars \/ Service(i)!Next
ServiceSpec == (\A i \in MutexSlots : Service(i)!Init) /\ [][ServiceStep]_vars

=============================================================================
