# A verification development for OS2HOST32

OS2HOST32 runs 32-bit OS/2 2.x programs. The same personality code is hosted in
three ways: inside a Win32 process (`loader/`, `dlls/`, `common/`), in a guest of
the Windows Hypervisor Platform (`whp/`), and as a native subsystem of ReactOS
(`subsystem/`). This directory holds TLA+ models of the parts where several threads
or processes meet, TLC runs that check them on small instances, and proofs, checked
by TLAPS, for every instance.

1. [Inventory](#inventory)
2. [What is modelled](#what-is-modelled)
3. [Runs](#runs)
4. [Fairness](#fairness)
5. [Proofs](#proofs)
6. [Where code and documents disagree](#where-code-and-documents-disagree)
7. [What is not modelled](#what-is-not-modelled)
8. [Plan](#plan)

## Inventory

| Part | State it keeps | Operations | Meets | What is hard | What makes it correct |
|---|---|---|---|---|---|
| OS2SS console bridge (`subsystem/os2ss/os2ss.c`) | port bound, pending Wait, one queued action, sequence number, stored outcome, auto-reset event, all under `gConsoleLock` | `Le4cDispatchConsoleAction`, `ConsoleListener` (connect, close, Wait, Ack) | API thread, listener thread and launchers, over LPC | three critical sections per action, no timeout, launchers that die | an action is performed at most once and reported truthfully; no wake-up is lost |
| LE4C launcher (`subsystem/launcher/os2le4claunch.c`) | connection, child process, action in hand | connect with retry, `SmExecPgm`, bridge loop, wait for the child | OS2SS, SMSS, OS2BOOT | may be killed anywhere; retries | outlives its vessel; serves only what it is asked |
| OS2SS server (`os2ss.c`, `api.c`, `process.c`) | start-up stage, process records, mapped views | SB requests, API connect, close and DOSCALLS | vessels, bridge, SMSS | one API thread for all vessels blocks in the bridge; vessels die while served | records and views outlive their use; the result of a DosWrite is the truth |
| OS2BOOT vessel (`subsystem/os2boot/`) | API port, guest memory, files, loaded image | DOSCALLS gateways | OS2SS | transport failure | the program is told what happened |
| Common queues (`common/queue/os2_queue.c`) | table of queue objects, serial number | create, open, write, read, query, purge, close | threads of one or more processes, a backend of locks and events (`common/win32/os2_queue_win32.c`) | DosReadQueue waits outside the lock on a manual-reset event while the queue is closed and its slot reused | readers come back to the queue they waited for; elements are delivered once, in order |
| Sessions (`common/sesmgr/os2_sesmgr.c`, `common/win32/os2_sesmgr_win32.c`) | table of the sessions a process started, registry in memory shared by all processes | DosStartSession, DosStopSession, DosSmSetTitle, O2HostQuerySessions | child processes, other OS2HOST32 processes | two tables, two locks, failures between them; owners that die while they write; process ids used again | a child that runs is in the registry; the tables agree; a title is set by the session or its owner |
| WHP scheduler and semaphores (`whp/src/whp_os2_v2_hi.c`, `v2_sync.h`) | guest threads, mutexes, events | hypercalls of guest threads, scheduling | one virtual processor, one host thread | hand-off, owner death, deadlines, slots and handle generations used again | nobody waits for what it could have; requests are served in order and answered truthfully |
| WHP queues (`whp/src/v2_queue.h`) | queues, arguments of parked readers | create, open, read, peek, write, purge, close | scheduler, event semaphores | a write serves parked readers itself; the last close frees readers and the event | an element reaches one reader, in order; nobody is parked beside an element |
| WHP processes (`whp/src/v2_process.h`) | table of child processes, a packet shared with each | DosExecPgm, DosWaitChild and their polls | host processes | the child goes on between two reads of the parent | what callers are told is so, and told once |
| DOSCALLS core (`common/`, `common/win32/`) | threads, handles, semaphores, child processes | DosCreateThread, DosWaitThread, DosExecPgm ... | Win32 | DosWaitThread waits on handles it read under the lock | each end of a thread is reported to one waiter |
| KBD, MOU, VIO | key and mouse rings, screen buffers, logical handles | reads, peeks, flushes, writes | console input thread | ring at its limit | events in order, the oldest lost first |
| Presentation Manager (`dlls/pm*`) | windows, message queues | WinPostMsg, WinGetMsg ... | Win32 USER | message queue life cycle | messages of a thread in order |
| Loaders, `transformer/`, `soft386/` | an image | parse, fix up, convert | files | bounds of malformed images | every fixup is applied once, inside the image |
| `shell/`, `sdk/`, `examples/`, `tests/`, `tools/` | files and environment | commands | the user | none that is concurrent | behaves like CMD.EXE |

How the ReactOS parts fit together: the launcher connects to
`\OS2SS\Le4cConsolePort`, creates the vessel OS2BOOT suspended, and asks SMSS
(`SmExecPgm`) to have OS2SS record and resume it. The vessel connects to
`\OS2SS\ApiPort` and sends its DOSCALLS requests there. OS2SS owns no console: when
a request writes to or reads from the console, or ends the program, the API thread
hands the action to the connected launcher through the bridge and waits for its
acknowledgement.

The hazards of all of these, each at its line and with the properties that cover it,
are listed in `PROJECT.json`.

## What is modelled

| Module | Models | Extends or uses |
|---|---|---|
| `ConsoleBridge` | the console bridge and the launchers that serve it | - |
| `ConsoleService` | abstract: one at-most-once remote call | instantiated by `ConsoleBridge` |
| `ConsoleBridgeProofs` | proofs about `ConsoleBridge` | `ConsoleBridge` |
| `Os2ss` | the whole server with launchers and vessels | `ConsoleBridge` |
| `Os2ssProofs` | proofs about `Os2ss` | `Os2ss`, `ConsoleBridgeProofs` |
| `Os2Queue` | the common queues with their Win32 backend | - |
| `QueueService` | abstract: sets of elements with a discipline | instantiated by `Os2Queue` |
| `Os2QueueProofs` | proofs about `Os2Queue` | `Os2Queue` |
| `WhpSync` | the WHP scheduler, threads, mutex and event semaphores | - |
| `MutexService` | abstract: a mutex with an order of service | instantiated by `WhpSync`, once for each mutex slot |
| `WhpSyncProofs` | proofs about `WhpSync` | `WhpSync` |
| `WhpMutexProofs` | the proof that its mutexes implement `MutexService` | `WhpSyncProofs` |
| `WhpQueue` | the WHP queues, composed with scheduler and semaphores | `WhpSync` |
| `WhpQueueProofs` | proofs about `WhpQueue` | `WhpQueue`, `WhpSyncProofs` |
| `WhpProcess` | child processes of WHP guests, composed with the scheduler | `WhpSync` |
| `WhpProcessProofs` | proofs about `WhpProcess` | `WhpProcess`, `WhpSyncProofs` |
| `Os2Sesmgr` | the session manager of several processes | - |
| `Os2SesmgrProofs` | proofs about `Os2Sesmgr` | `Os2Sesmgr` |
| `MCConsoleBridge`, `MCOs2ss`, `MCOs2Queue`, `MCWhpSync`, `MCWhpQueue`, `MCWhpProcess`, `MCOs2Sesmgr` | instances for TLC | |

### ConsoleBridge

Each section under `gConsoleLock` is one action; other threads may come between two
sections, which is where the hazards are.

* The **dispatcher** is the API thread inside `Le4cDispatchConsoleAction` (`dpc`).
  `DispatchCall` runs up to `NtResetEvent`, `DispatchRefuse` and `DispatchEnter` are
  the two ways through the first section, `DispatchReply` is the `NtReplyPort` made
  outside the lock, `DispatchGiveUp` and `DispatchCollect` the second section, and
  `ReadCopy` the third, taken by `Os2Le4cConsoleRead`.
* The **listener** is one iteration of `ConsoleListener` per message. `ListenerReply`
  is the reply sent at the head of the next `NtReplyWaitReceivePort`.
  `ListenerAccept` and `ListenerBind` are apart because `NtCompleteConnectPort`
  releases the launcher before `gConsoleCommPort` is stored.
* A **launcher** runs once (`pc`). It may be killed in any state (`LauncherCrash`);
  its outstanding request may or may not be delivered after that.
* **LPC** is external. What is assumed of it: a client has at most one request
  outstanding, the closing of its port is delivered after that request, and requests
  of different clients arrive in any order.

`times` and `moved` are history variables: how often the present action was performed,
and the bytes it moved.

Abstracted: the bytes themselves, NTSTATUS values the code does not tell apart, the
security descriptor of the port, and the text of log messages.

### ConsoleService

What `api.c` relies on: between a call and its return an action is performed at most
once; a success reports the bytes moved; a failure never reports more than were moved.

### Os2ss

`Os2ss` extends `ConsoleBridge` and adds what surrounds it: the order of start-up in
`entry()` (`stage`), the SB listener (`SbRecord`, `SbResume`, `SbFail`), the process
records (`record`), the API thread (`apc`) with `Os2Le4cConsoleWrite`'s loop over
chunks (`ApiChunk`, `ApiBack`), and the vessels (`vessel`). The bridge's
`DispatchCall` and `DispatchReturn` happen only as part of an API step. A launcher
creates at most one vessel, so a vessel bears the name of its launcher.
`DosWrite`, `DosRead` and `DosExit` are the calls that use the bridge; all others are
`Query`: answered from the request.

### Os2Queue

Every call runs under the session lock and is one action. `DosReadQueue` is more than
one: `ReadSection` is its first section, `Wake` the return of the wait, `ReadUnwind`
the second section, and `ReadAgain` the next turn of the loop. A queue object is a
record with the fields of `Os2QueueObject` the calls tell apart; element payloads are
left out, since the code never looks at them, and `id`, the order of writing, stands
for the element.

`Pid` maps threads to processes. `QUECALLS.DLL` has one session per process, so in
the product all callers have one process id; the core is written for more than one,
and its test `tests/queue/queue-core-check.c` changes the id between calls. The runs
with two processes check the core, the run with one checks the DLL.

With `BackendMayFail` every call of the backend may fail.

### QueueService

A queue is a set of elements and a discipline; `Read` delivers the element that
precedes all others, for the first time. Slots, events and waiting readers are gone.

### WhpSync

The host is one thread, so a hypercall is one action, with every hand-off and wake-up
it makes. `mode` says where the host is: running the current guest thread, or in
`schedule_next_thread` because a call asked for a switch.

* **Threads** (`CreateThread`, `WaitThread`, `Sleep`, `ExitThread`, `ExitProcess`). An
  `ExitThread` is the whole of `finish_guest_thread`: the mutexes of the thread go to
  their first waiters or are marked abandoned (`MutexesLeft`), those that wait for the
  thread are woken, its slot is freed if there are any (`ThreadsLeft`), and the run
  ends with the last thread.
* **Mutexes** and **events**, with names, references, generations of handles, recursion
  and post counts at the width `MaxCount` gives them. `BadHandle` stands for every call
  with a handle of an earlier generation.
* **The host**: `Schedule`, round robin; `ScheduleFails`, the run that ends when nobody
  can go on; `DeadlinePasses`, the expiry of one wait.

A handle is a kind, a slot and a generation; a thread waits `on` one, and `order` is the
serial number of its wait.

### MutexService

What guests rely on: one owner at a time, recursion, service in the order of asking, and
the next owner told when an owner ended. Names, references and handles are gone.

### WhpQueue

`WhpQueue` adds to `WhpSync` the queues of a guest process. `Deliver` is
`queue_deliver`, shared by reads, peeks and the service of parked threads, and
`WakeReaders` is the loop of `queue_wake_readers`: as long as there are elements, the
thread that waits longest is served (`ServeNext`). A peek keeps its place in a cell of
guest memory; two threads may use one cell. `CloseQueue` contains the release of the
event the queue posts. `got` is a history variable: what reads took in this step.

### WhpProcess

Children enter their guest, leave it, and end, at any time between two reads of their
parent: `PollExec` asks whether the process has ended, `JudgeExec` reads the packet;
`ScanChild` is one turn of the loop of `DosWaitChild`, or of its poll. While one of
these is going on no other call of the host comes between (`HostFree`). `told` is a
history variable: what callers learned in this step.

### Os2Sesmgr

Processes with their own tables and local locks, one registry, and threads that are
somewhere in a call. What is done under the registry mutex is one action, except that a
process may end in the middle of writing a record, which is then torn (`EndInAdd`,
`EndInRemove`). The scans of the local table are one entry a step, because the lock is
held but children end meanwhile. `Launch`, `Store`, `Resume` are the steps of
`DosStartSession` and each may fail; `Discard` and `Dispose` undo the launch.
Process ids are used again as soon as the system may: when the process has ended and
nobody has a handle to it. `lingers` is the exit code 259, which Windows reports for
processes that live.

## Runs

| Run | Instance | What it shows |
|---|---|---|
| `bridge` | 2 launchers, sequence numbers 1..2, actions of up to 2 bytes, 2 connection attempts | `BoundOnly`, `NoStaleAction`, `NoLostWakeup`, `AnsweredInTruth`; `DispatchReturns`, `PortIsFreed`; `ConsoleBridge` implements `ConsoleService` (`ServiceSpec`) |
| `os2ss_safety` | 2 launchers with vessels, chunks of 1 byte, DosWrite of up to 2, 1 call each, launchers may be killed | `WriteAcknowledged`, `ViewStaysMapped`, `StartUpOrdered` |
| `os2ss_liveness` | the same, no launcher is killed, the server may die | `ExitEndsOwnBridge`, `CallReturns` |
| `os2ss_serverdeath` | the server may die | violation of `WriteAcknowledged`, see below |
| `os2ss_orphan` | nobody killed | violation of `LauncherOutlivesVessel`, see below |
| `queue_safety` | 3 threads of 2 processes, 2 slots, 2 names, 3 handles, failing backend | `SlotIsPinned`, `EventTellsTruth`, `NamesOneQueue`, `WaitEndsRight` |
| `queue_service` | 3 threads of 1 process, 1 slot used twice, 3 disciplines, 2 priorities, 3 elements | `Os2Queue` implements `QueueService`; `ReaderServed`, `ClosedIsReclaimed` |
| `whp_sync` | 3 threads, 4 ids, 1 mutex with or without a name, counts up to 2, 2 waits | `OwnerLives`, `WaitersBlocked`, `Fifo`, `RequestHonest`, `OwnerDeathTold`, `RunnableRuns`, `WaitsEnd`; each mutex implements `MutexService` |
| `whp_readers` | 3 threads, 1 priority queue of depth 2, 2 priorities, 2 tokens, 1 cell, 2 waits | `QueuesSound`, `Delivery` |
| `whp_notify` | 2 threads, 1 LIFO queue of depth 2, 1 named event, 1 wait | `WaitersBlocked`, across the close of queue and event |
| `whp_process` | 2 threads, 2 children, 2 waits | `TableSound`, `Told`, `ChildCallReturns` |
| `sesmgr` | 3 processes, two threads in the first and one in the second, tables of 2, 2 session ids, 3 process ids | `TablesSound`, `ChildrenKept`, `TitleOwn` |

Each run also checks the type invariant of its module. Some properties are conjunctions
of named parts, explained where they are defined: `BoundOnly` of `ClosedIsCurrent` and
`OneWaiter`; `AnsweredInTruth` of `WakesWithAnswer` and `HonestReport`; `StartUpOrdered`
of `NeverRefused` and `LockBeforeUse`; `WaitersBlocked` of the three kinds of waits;
`QueuesSound` of `InDiscipline` and `QueueWaitersBlocked`; `Delivery` of
`OneConsumerStep` and `ServedInTurnStep`; `Told` of `TrueFor` and `ToldOnceStep`;
`TablesSound` of `TablesAgree` and `SidsUnique`; `ChildrenKept` of `Published` and
`NoneForgotten`.

Why these bounds are enough to be worth checking:

* Two launchers are what every hazard of the bridge needs: one that is bound, or
  dying, and one that takes its place. Two sequence numbers make the number wrap on
  the third action. Two bytes allow a short write that is neither empty nor complete.
* In `Os2ss` a DosWrite of two bytes with chunks of one is a loop of two actions, so
  that a launcher can be lost between them.
* Two queue slots allow a slot to be reused while the other is open, three handles
  allow a slot to be used twice beside a queue that is closing, and three threads are
  two readers of one process and a writer, of the other process or of the same.
  Serial numbers and table both run out.
* In `whp_sync` three threads are an owner and two that wait, who may come back in
  either order of slots; the fourth id allows a slot to be used again. A count of 2 is
  a recursion, and its limit. One generation lets handles run out; events are checked
  by `whp_notify` and, with any number of mutexes and events together, by the proofs.
* In `whp_readers` three threads are two parked readers, or a reader and a peeker, and
  a writer; two tokens of two priorities show every order of equal and different ones.
* In `whp_process` two children of two threads let one thread collect what the other
  waits for, and let a wait for any child find the second entry.
* In `sesmgr` two threads of a parent meet in its table while one of them starts what
  the other stops; the second process is a child that starts one of its own. Tables of
  two are filled by two sessions; three ids for three processes leave an id to be used
  again or not.

Launchers, the threads of a process, names and process ids are symmetric where a run
says so. No liveness property is checked under symmetry.

Deadlock is not checked where the system may really stop: when every launcher has
ended and no call is made (`ConsoleBridge`, `Os2ss`); in `queue_service`, when
every thread waits for an element; in `sesmgr`, when every process has ended or no
session id is left. It is checked in the other runs.

## Fairness

`ConsoleBridge`: the dispatcher and the listener are threads of a server that runs
for ever, so their steps are weakly fair, each branch of the listener by itself,
because LPC delivers messages in the order they came. A launcher that is connected
goes on (`Start`, `Serve`): what `Start` waits for, the answer to `SmExecPgm`, comes
from threads that never wait for the API thread. Nobody is obliged to start a
launcher, to make a call, to crash, or to type a line: `LauncherRead` is not fair,
and `DispatchReturns` therefore excepts reads. `LauncherTerminate` is not fair either:
a launcher that has left its loop waits for its vessel without a timeout
(`subsystem/launcher/os2le4claunch.c:500`), and its vessel may itself wait for a
launcher. `DispatchReturns` says that this is all that can hold a call: it returns, or
it is `Stranded` for ever, kept for a launcher that has performed an Exit and never
ends. That happens after a launcher was killed: the DosExit of its vessel then ends
the loop of the next launcher, whose own vessel still writes. Without the exception
TLC finds this behaviour. `Os2ss` has the vessels and lets a launcher end only when its
vessel has (`Terminate`); there `CallReturns` shows that no call is stranded as long as
no launcher is killed.

`Os2ss`: the same, as long as the server is up; a vessel released from DosExit, or
whose server has died, goes on.

`Os2Queue`: a thread inside `DosReadQueue` runs when it can. Nobody has to call.

`WhpSync` (`FairSpec`): the host's loop schedules when it is in the loop, and deadlines
pass, so `Schedule` and each `DeadlinePasses` are weakly fair. That guests give up the
processor again and again, `[]<>~Guest`, is an assumption about programs the code
shares: README-V2-SYNC-R8 says that a thread that never yields or blocks can starve
others. `MutexWaitEnds` also assumes that owners release what they own at every depth
when they run again and again (`DutifulSpec`); it excepts owners that wait themselves.

`WhpProcess` (`PFairSpec`): a poll or scan once begun is ended; a thread that waits is
polled again and again, at each hypercall and while the host sleeps; and children end.
The last is an assumption: a call waits for ever for a child that never does.

## Proofs

Checked by TLAPS for all values of the constants that satisfy the `ASSUME`s of the
modules: any set of launchers, any width of the sequence number, any length of an
action; any finite set of threads, any number of processes, slots, elements, tokens, handles
and priorities; any sizes of the session tables and any process ids.

| Module | Invariant | Properties of runs it proves |
|---|---|---|
| `ConsoleBridgeProofs` | `IInv` | `TypeOK`, `BoundOnly`, `NoStaleAction`, `NoLostWakeup`, `AnsweredInTruth`, `ServiceSpec` |
| `Os2ssProofs` | `OsIInv` | `OsTypeOK`, `ViewStaysMapped`, `StartUpOrdered`, `WriteAcknowledged`, `ExitEndsOwnBridge`, `ServiceSpec` |
| `Os2QueueProofs` | `QInv`, `RInv` | `QTypeOK`, `SlotIsPinned`, `EventTellsTruth`, `NamesOneQueue`, `WaitEndsRight`, `ServiceSpec` |
| `WhpSyncProofs` | `WInv` | `TypeOK`, `OwnerLives`, `WaitersBlocked`, `Fifo`, `RequestHonest`, `OwnerDeathTold` |
| `WhpMutexProofs` | `MInv` | `ServiceSpec` |
| `WhpQueueProofs` | `QInv` | `QueuesSound`, `Delivery`, `WaitersBlocked` |
| `WhpProcessProofs` | `PInv` | `TableSound`, `Told` |
| `Os2SesmgrProofs` | `Inv` | `TablesSound`, `ChildrenKept`, `TitleOwn` |

### The bridge (`ConsoleBridgeProofs`)

The safety properties are not inductive. `IInv` strengthens them:

* `Connection`: at most one launcher is connected, and a close notice not yet read is
  its notice.
* `Exchange`: how requests, the pending Wait and the reply on its way match the
  launchers' states.
* `OnePlace`: the outstanding action is kept in `gConsoleAction`, in the listener's
  reply, in the launcher's hands or in its acknowledgement, and in one of these only.
* `Dispatching`: what the dispatcher may rely on at each of its steps.
* `WakeUp`: a dispatcher that waits will be woken.

There is one lemma per action, `<Action>Keeps`, and one lemma per kind of thread for
the types. `Invariance` (`Spec => []IInv`) then gives `ClosedCurrent`,
`WaiterIsBound` (both in `BoundServed`), `ActionIsCurrent`, `WakeupIsComing`,
`WakesAnswered` and `ReportIsHonest` (both in `AnswersTrue`). `Implements` is the refinement `Spec => ServiceSpec`: in states
of `IInv` every step of the bridge is a step of `ConsoleService` or a stutter.

### The whole server (`Os2ssProofs`)

The bridge was proved for a dispatcher that may call at any time. In the server it is
called by the API thread, so `OsIInv` adds what that thread knows:

* `Book`, which holds even when the server is gone: the types; `Started`, that only a
  server that has registered makes records; `Lives`, how a vessel, its SmExecPgm
  request and its process record agree; `Asking`, that a vessel has one request at a
  time and asks for a console only when it is bound; `ServesOne`, that the request the
  API thread serves is still there and its vessel waits for the answer or is dead.
* `InService`, while the server is up: `IInv` of the bridge; `Moves`, that a launcher
  moves no more than it was asked to; `Waits`, that the bridge is busy exactly while
  the API thread waits for it, and that `total`, what the loop of DosWrite has added
  up, is `shown`, what the consoles have moved; `NotYet`, that nobody is past the
  console port before it exists.

`WriteAcknowledged` says that the count in the answer is the count that was moved. It is
not inductive, because the answer is made many steps before it arrives, from a total
that was added up over several actions; `Waits` carries the equality through them. The
steps are split by who makes them: those that leave the bridge alone, those of the
bridge alone, where the lemmas of `ConsoleBridgeProofs` are cited, and the two that
couple them (the call into the bridge and the return from it).

`OsInvariance` gives `OsTypes`, `ViewMapped`, `StartOrdered`, `BridgeKept` (the properties
of the bridge, of the bridge as the server uses it) and `AcknowledgedWhileUp`. Two
theorems have a hypothesis that the code needs, and a run or a remark below shows that it
does. `Acknowledged` assumes `~ServerMayDie`: with it, `os2ss_serverdeath` violates the
property. `ExitIsOwn` assumes `~LaunchersMayDie`: the bridge does not know which vessel
an action comes from. Its invariant `Exits` says who may have called DosExit when a
launcher is on its way out.

`OsImplements` is the refinement `OsSpec => ServiceSpec`: every step of the server is a
step of `ConsoleService` or a stutter, those after the server's death included
(`Aftermath`: an action that a launcher still has in its hands can be done once).

### The session manager (`Os2SesmgrProofs`)

The table of a process is written under its local lock and the registry under the
global one, in one order when a session is added and in the other when it is removed,
and a process may die between the two. A session id is given out once, so an entry and
a record with the same id are about the same session; `Inv` says how far the two
may be apart:

* `OnePid`, `Families`: a process id names one process while it can be opened, and
  every child session has a parent that was there before it.
* `Phases`, `Locks`: what a thread has in its hands at each step of a call, and that
  it holds the local lock where it relies on the table.
* `Entries`, `RealRecords`, `FreshIds`: entries are children of a living process, ids in
  records are of processes that were created, and an id being started is nowhere yet.
* `Mirrored`, `Known`: a record in the name of a living process is one of its entries,
  and an entry of a living child has its record.
* `Kept`, `InHand`: a child that runs is in its parent's table; one that is suspended
  is in the hands of a thread that will resume it, end it, or has yet to reach
  its entry in a DosStopSession.

For each action one lemma says what it does (`<Action>Does`), and one for all of them
what a step can do to processes and tables at all; then there is one lemma for each
part of `Inv`. `SesmgrInvariance` gives `Tables`, `Children` and `Titles`. The last rests
on the reaping that comes before each search of the registry: a title is set by
comparing process ids, and a dead process's id may be in use again.

### The queues (`Os2QueueProofs`)

`QInv` says of each slot what its object looks like (`Sound`), of each thread what it
relies on when it comes back to the lock (`Coming`: its queue, if still open, belongs
to its process), that the number of waiters of a slot is the number of threads in it,
and that handles and names are unique. Most calls change one live queue and nothing
a waiting reader can see of it: `OneQueueChanged` covers those, `SlotFreed` the ones
that free a slot, and the remaining ones have a lemma each. `QInvariance` gives
`QTypeCorrect`, `PinnedSlots`, `TrueEvents` and `UniqueNames`, and the action property
`WaitsEndRight`.

`QueuesImplement` is the refinement `Spec => ServiceSpec`. `QueueService` keeps sets where
the code keeps lists, so `RInv` adds to `QInv` what makes a list stand for its set:

* `InOrder`: each element of a list is read, by the discipline, before those behind it.
  A write puts the element where that stays so: `PositionInOrder` says that it must wait
  for the elements before its position and they for it behind (`Inserted`); a read takes
  the first (`WithoutFirst`).
* `Undelivered`: no element of a list was delivered before.
* `OnePlace`: an element is at one place of one list.

`View` is the refinement mapping. Handles are unique, so a call that changes one slot
changes the view at one handle (`ViewChanges`, `QueueSeen`), and one that leaves lists
and handles alone changes nothing (`Quiet`). The lemmas `<Action>Faithful` then map each
call to the service: create, write, the owner's close and purge to the actions of those
names, a read that delivers to `Read`, everything about references, waiters and events to
a stutter. A read whose event cannot be reset loses the one element there is; the service
sees a purge. The theorem therefore needs no assumption about the backend, while
`queue_service` is checked with one that does not fail.

### The WHP scheduler and semaphores (`WhpSyncProofs`)

For any number of threads, mutexes and events, and any width of ids, generations and
counts. The invariant is `WInv`: the types; `OneRuns`, about the scheduler; and `Sound`,
about the thread table with the two semaphore tables:

* `Tids`: ids below `nextTid`, one for each thread that has not been forgotten.
* `Owners`: a mutex is owned by a thread that lives, with a count that is not zero.
* `Waiting`: whoever waits, waits for a mutex that exists and another owns, an event
  that exists and is not posted, or a thread that lives.
* `Orders`: the serial numbers of the waits for mutexes were given out, each once.

The hard cases are those in which one call changes several threads. Most calls leave
every thread as it is, or wake it, and park at most one: `ThreadsStep` covers them all,
and `OneMutex` and `OneEvent` the calls that change one semaphore. What is left is
`Handed` (a mutex goes to its first waiter, whose lowest serial number exists by
well-founded induction on the finite table) and `Left` (the end of a thread that owns
mutexes, is waited for, and may be the last). `Invariant` then gives `TypeCorrect`,
`ProcessorShared`, `TidsNeverShared`, `OwnersLive` and `WaitsNeeded`; `ServedInOrder`
is the action property `Fifo`, from `Orders` and the choice of the first waiter.

Two more action properties follow step by step. Most steps are `Steady`: nobody starts
or stops waiting for a mutex, and nobody ends. And most keep every owner (`OwnersKept`); only
requests, releases and ends of threads do not (`OwnersChange`). What is left are the
steps that hand a mutex on, where `HeirWoken` and `HeirLeft` say who leaves a wait and
with which result. They give `RequestsHonest` (a wait ends in owning the mutex, or at its
deadline without it) and `OwnersDeathTold` (the end of an owner reaches the next one,
and nobody else).

### Mutexes as a service (`WhpMutexProofs`)

`MutexesImplement` says that every mutex slot implements `MutexService`. The service
keeps a list of those that wait; the host keeps none, only a state and a serial number in
each thread's entry. `WaitingTids` makes the list from them by counting: the k-th is the
thread that k - 1 others came before. The first part of the module is about such lists
in any table. No two have the same number before them (`RankGrows`, `RankOwn`), so, the
table being finite, every place is taken (`AtPlace`, by counting and without induction).
From this follows what becomes of the list when one leaves (`LineGone`), when the first
is served (`LineServed`) and when one comes last (`LineJoined`).

The invariant `MInv` adds to `WInv` that a mutex that does not exist has no owner
(`Unowned`), which the service needs to make it anew. Each step is then a step of the
service or none: a request parks its caller at the end of the list of that mutex and no
other (`AskServes`); a release and the end of an owner take its first element
(`HandingServes`, which both share), for as many mutexes at once as the thread that
ends owned; a deadline takes one from anywhere (`DeadlineServes`); all others leave every
list as it is (`SteadyServes`).

### Queues of WHP guests (`WhpQueueProofs`)

A write gives out a token, posts an event, and then serves parked readers in a loop, all
in one call: it changes a queue, guest memory, the event table and any number of threads
at once. `QInv` is `WInv` with

* `QTyped` and `QueueOK`: a queue is no longer than `Depth`, its elements are `Ordered` by
  its discipline, and the next token is larger than all that are in it;
* `OnQueueOf`: whoever is parked for an element is parked at a queue that exists and is
  empty;
* `InLine`: the serial numbers of these waits were given out, each once.

The loop is followed turn by turn. `Turn` says where it is after n turns: elements are
in the queue or were handed to one thread each (`Shared`), readers were woken in the
order they came and nobody else was changed (`InTurn`), and either the queue is empty
or at least n of the threads wait there no more. `TurnGoes` is one turn. Its value
and what holds of it after `NThreads` turns are found without an induction theorem,
from a least n for which it fails (`LoopExists`, `ReadersWoken`), so at the end the
queue is empty or nobody waits. That elements stay in order is shown of `Place`,
`InsertAt` and `RemoveAt` (`PlaceIs`, `PutIn`, `TakenOut`).

Steps of the scheduler and the semaphores touch no thread parked at a queue (`NextAside`
in `WhpSyncProofs`). Of the calls of a queue only a write and the last close wake parked
readers (`NoneServed` for all others). `QInvariance` gives `QueuesKept`, `WaitsKept` and
`SyncWithQueues` (the promises of the scheduler and the semaphores, with queues that
post and destroy events), and `DeliveredInTurn` is the action property `Delivery`: an
element that leaves a queue, and not by a purge, was returned to exactly one thread,
and nobody is served before one that came earlier.

### Children of WHP guests (`WhpProcessProofs`)

A parked DosExecPgm keeps the number of an entry and looks the child up by it at every
poll, while other threads start and collect children; and a poll or a scan reads the
process and its packet one after the other, while the child runs. `PInv` is `WInv` with

* `Lives`: a process enters its guest, leaves it and ends, each after it was created;
* `Entries`: a process has at most one entry, an entry that is being started has an
  owner, and one that is not has entered its guest;
* `OwnEntry`: the entry a parked DosExecPgm has the number of is its own, and no two
  have the same number;
* `Going`: what a poll or a scan goes by. A process read as ended is ended, whatever is
  read of its packet later; and as long as a scan has met no child to wait for, the
  part of the table behind it has none, because nothing but the host adds to it.

A step of the scheduler or of a semaphore may happen between any two steps of a child.
`NextAside` (in `WhpSyncProofs`) says that none of them touches a thread parked in
WAIT_PROCESS, so `Invariant`'s lemmas take over the steps of `WhpSync` and only the calls
and polls about children are left: `<Action>Keeps` for `PInv`, `<Action>True` for what
callers are told. `PInvariance` gives `TableKept`, `SyncKept` (the promises of the
scheduler and the semaphores, beside children), and `ReportsTrue`, the action property
`Told`: an ended process with a packet that says ready did enter its guest, one without
never will, and the step that tells of an end is the step that frees the entry.

### Only model-checked

* Liveness (`DispatchReturns`, `PortIsFreed`, `CallReturns`, `ReaderServed`,
  `ClosedIsReclaimed`, `RunnableRuns`, `WaitsEnd`, `ChildCallReturns`), which TLAPS does
  not reach.

## Where code and documents disagree

* **A DosWrite reports success when the server dies** (`os2ss_serverdeath`). When
  `NtRequestWaitReplyPort` fails, `RequestMessage` returns `OS2_ERROR_GEN_FAILURE`, but
  `ClientDosWrite` returns `Message.ReturnCode`, still zero
  (`subsystem/os2boot/os2boot.c`). The program sees NO_ERROR with no byte written;
  `subsystem/os2ss/api.c:167` says that the launcher acknowledges the byte count
  before DosWrite succeeds.
* **A launcher may end before its vessel** (`os2ss_orphan`). When `SmExecPgm` fails,
  the launcher terminates and leaves the vessel it created suspended. The comment
  above the call, `subsystem/launcher/os2le4claunch.c:504`, says that it has remained
  alive for the entire vessel lifetime.

Met on the way, outside of what a run checks:

* `CHANGES-CMD32-PSKILL-R1.txt` (lines 13 and 30) says that PS lists live sessions and
  that the entries of dead children are reaped lazily. A session that ended with exit
  code 259, STILL_ACTIVE, counts as living (`IdentityAlive`, `OwnedAlive`): it stays listed until
  its owner stops it or ends. `Os2Sesmgr` models it (`lingers`), and no property is
  violated by it.
* With no document that promises otherwise: the bridge does not know which vessel an
  action comes from. `ExitEndsOwnBridge` holds while no launcher is killed, because a
  second launcher is refused while the first is connected; it is violated with
  `LaunchersMayDie = TRUE`, when a vessel's own launcher was killed and its exit reaches
  the launcher of another.

## What is not modelled

`PROJECT.json` lists every component with its status. Within the modelled ones:

* the handlers of OS2SS that answer from the request alone are one call, `Query`;
* process ids are not reused in `Os2ss`, because nobody removes a record
  (`subsystem/os2ss/process.c:121` has no caller): the records of all programs run stay,
  which no property calls wrong;
* in the bridge, what only another program than these could cause: requests of a wrong
  version, length or operation, which the listener answers with an error
  (`subsystem/os2ss/os2ss.c:323`, `:386`), and actions of a wrong version or length,
  which the launcher acknowledges as invalid and goes on
  (`subsystem/launcher/os2le4claunch.c:227`);
* the guest side of OS2BOOT (files, memory, loading of images);
* `os2_queue_session_destroy` (`common/queue/os2_queue.c:179`), which runs when the DLL
  is unloaded, with threads of the process possibly still waiting: what Windows does
  with such threads decides, not this code;
* in the session manager, a `registry_remove` whose `registry_begin` fails
  (`common/sesmgr/os2_sesmgr.c:155`): on Windows that is a failed wait for a mutex which
  the caller has taken before, so `Forget` always removes the record;
* in `WhpProcess`, a process id that Windows gives again after the child was collected
  and its handle closed (`whp/src/v2_process.h:108`): ids are never given twice;
* in the WHP host: callbacks into guest code, PM and console waits, memory, files, and
  the registers, except the result;
* programs that Windows does not let the session manager open: they count as living.

Of the whole repository:

* DOSCALLS core: `DosWaitThread` (`common/win32/os2_thread_wait.h:40`) waits outside the
  lock on handles read under it. The lock, the table and the wait are spread over Win32
  code that differs between the hosts; it is the next candidate for a model.
* KBD, MOU and VIO: rings of events that drop the oldest when full
  (`common/mou/os2_mou.c:94`) under one lock, with nothing that happens across two
  sections but the wait of a reader.
* Loaders, `transformer/`, `soft386/`, the catalog, NLS, MSG: sequential code over
  data. Its interest is in the bytes, which a model of this kind leaves out.
* Presentation Manager, the shell, the SDK, examples, tools: Win32 USER and GDI, files
  and text.

Generated tables, resources, vendored ReactOS headers and the tiny386 emulator are
left out for good.

## Plan

1. *Done.* `ConsoleBridge`, its service, its proofs; `Os2ss` around it, its proofs.
2. *Done.* `Os2Queue`, its service, its proofs, that of its refinement among them.
3. *Done.* `WhpSync`, `MutexService`, `WhpSyncProofs` and `WhpMutexProofs`; `WhpQueue` and `WhpProcess` on
   top of it, `WhpQueueProofs` and `WhpProcessProofs`.
4. *Done.* `Os2Sesmgr` and its proofs.
5. *Open.* `DosWaitThread`: handles read under the lock and waited for outside it.
6. *Open.* `MouRing` and the logical handles of KBD: bounded rings with a reader.
7. *Open.* OS2BOOT memory and file tables; fixups of the LE loader as operators against
   a reference definition.
