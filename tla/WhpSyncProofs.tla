--------------------------- MODULE WhpSyncProofs ----------------------------
(***************************************************************************)
(* Proofs about WhpSync, for any number of threads, mutexes and events.    *)
(*                                                                         *)
(* The invariant is WInv: the types, OneRuns, of the scheduler, and Sound, *)
(* of the thread table and the two semaphore tables.  Most calls leave     *)
(* every thread as it is or wake it, or park the current one: ThreadsStep  *)
(* covers them all, and OneMutex and OneEvent the calls that change one    *)
(* semaphore.  What is left is a new thread and the end of one.            *)
(***************************************************************************)
EXTENDS WhpSync, WellFoundedInduction, TLAPS

-----------------------------------------------------------------------------
(***************************************************************************)
(* The invariant                                                           *)
(***************************************************************************)

\* Ids below n, one for each thread in table T.
Tids(T, n) ==
    \A s \in Slots : T[s].state # "FREE" =>
        /\ T[s].tid \in 1..n - 1
        /\ \A r \in Slots : T[r].state # "FREE" /\ T[r].tid = T[s].tid => r = s

\* Mutex m, if it exists, has an owner in T that lives.
OwnerOK(T, m) ==
    m.used =>
        /\ m.owner = 0 <=> m.count = 0
        /\ m.owner # 0 => \E s \in Slots : Live(T[s]) /\ T[s].tid = m.owner
        /\ m.abandoned => m.owner = 0

Owners(T, M) == \A i \in MutexSlots : OwnerOK(T, M[i])

\* Thread t waits for nothing it could have.
OnMutexOf(t, M) ==
    t.state = "WAIT_MUTEX" =>
        \E i \in MutexSlots : /\ t.on = Handle("mutex", i, M[i].generation)
                              /\ M[i].used /\ M[i].owner \notin {0, t.tid}

OnEventOf(t, E) ==
    t.state = "WAIT_EVENT" =>
        \E i \in EventSlots : /\ t.on = Handle("event", i, E[i].generation)
                              /\ E[i].used /\ E[i].posts = 0

\* A thread in slot s has a thread to wait for when it waits for id tid.
HasOther(T, s, tid) ==
    IF tid = 0
    THEN /\ \A r \in Slots : T[r].state # "DEAD"
         /\ \E r \in Slots \ {s} : Live(T[r])
    ELSE \E r \in Slots \ {s} : Live(T[r]) /\ T[r].tid = tid

\* The orders of those that wait for mutexes were given out, each once.
Orders(T, w) ==
    \A s \in Slots : T[s].state = "WAIT_MUTEX" =>
        /\ T[s].order <= w
        /\ \A r \in Slots : T[r].state = "WAIT_MUTEX" /\ T[r].order = T[s].order => r = s

Waiting(T, M, E) ==
    \A s \in Slots :
        /\ OnMutexOf(T[s], M)
        /\ OnEventOf(T[s], E)
        /\ T[s].state = "WAIT_THREAD" => HasOther(T, s, T[s].waitTid)

Sound(T, M, E, n, w) == Tids(T, n) /\ Owners(T, M) /\ Waiting(T, M, E) /\ Orders(T, w)

WInv == /\ TypeOK
        /\ OneRuns
        /\ Sound(threads, mutexes, events, nextTid, waitSerial)

-----------------------------------------------------------------------------
(***************************************************************************)
(* Threads                                                                 *)
(***************************************************************************)

\* Thread u is what t was, or became of it, and lives on if it lived.
Kept(t, u) ==
    /\ u.state # "FREE" => t.state # "FREE" /\ u.tid = t.tid
    /\ Live(t) => Live(u)
    /\ u.state = "DEAD" => t.state = "DEAD"

\* It does not begin to wait, except for time.
Mild(t, u) ==
    /\ Kept(t, u)
    /\ u.state \in {"WAIT_MUTEX", "WAIT_EVENT", "WAIT_THREAD"} =>
          /\ u.state = t.state /\ u.on = t.on
          /\ u.order = t.order /\ u.waitTid = t.waitTid

\* The same thread, with another result.
LEMMA ResultOnly ==
  ASSUME NEW t \in ThreadType, NEW code \in Codes
  PROVE  LET u == [t EXCEPT !.rc = code]
         IN  u \in ThreadType /\ Mild(t, u) /\ u.state = t.state /\ u.rc = code
BY DEF ThreadType, Mild, Kept, Live

\* A thread that is woken.
LEMMA ReadyFields ==
  ASSUME NEW t \in ThreadType, NEW code \in Codes
  PROVE  LET u == Ready(t, code)
         IN  /\ u \in ThreadType /\ u.state = "RUNNABLE" /\ u.tid = t.tid /\ u.rc = code
             /\ Live(t) => Mild(t, u)
BY DEF ThreadType, Ready, Mild, Kept, Live, NoHandle, Handle, ThreadStates, Gone

\* A thread in another state.
LEMMA StateOnly ==
  ASSUME NEW t \in ThreadType, NEW state \in ThreadStates, NEW code \in Codes
  PROVE  LET u == [t EXCEPT !.state = state]
         IN  /\ u \in ThreadType /\ u.state = state /\ u.tid = t.tid
             /\ [u EXCEPT !.rc = code] \in ThreadType
BY DEF ThreadType

\* An empty slot, and a new thread.
LEMMA ZeroFields ==
  /\ ZeroThread \in ThreadType /\ ZeroThread.state = "FREE"
  /\ \A t \in ThreadType : ~ Live(t) => Mild(t, ZeroThread)
BY DEF ThreadType, ZeroThread, ThreadStates, NoHandle, Handle, Codes, Mild, Kept, Live, Gone

\* A new thread.
LEMMA NewFields ==
  ASSUME NEW tid \in Nat, NEW suspended \in BOOLEAN
  PROVE  LET u == NewThread(tid, suspended)
         IN  /\ u \in ThreadType /\ u.tid = tid /\ u.state \in {"RUNNABLE", "SUSPENDED"}
             /\ Live(u)
BY DEF ThreadType, NewThread, ZeroThread, ThreadStates, NoHandle, Handle, Codes, Live, Gone

\* A thread that has ended.
LEMMA DeadFields ==
  ASSUME NEW t \in ThreadType
  PROVE  Dead(t) \in ThreadType /\ Dead(t).state = "DEAD" /\ Dead(t).tid = t.tid
BY DEF ThreadType, Dead, ZeroThread, ThreadStates, NoHandle, Handle, Codes

\* A thread that is parked.
LEMMA ParkedFields ==
  ASSUME NEW t \in ThreadType, NEW state \in ThreadStates, NEW h, NEW timeout \in Timeouts,
         h \in [kind : {"none", "mutex", "event", "queue"}, slot : Nat, generation : Nat],
         NEW order \in Nat
  PROVE  LET u == Parked(t, state, h, timeout, order)
         IN  /\ u \in ThreadType /\ u.state = state /\ u.on = h /\ u.order = order
             /\ u.tid = t.tid
BY DEF ThreadType, Parked, Codes

\* What stays, stays.
LEMMA MildSelf ==
  ASSUME NEW t PROVE Mild(t, t)
BY DEF Mild, Kept

-----------------------------------------------------------------------------
(***************************************************************************)
(* Steps of the tables                                                     *)
(***************************************************************************)

\* The thread in slot c may begin to wait, for something it cannot have.
Parks(T, c, u, M, E, w, v) ==
    /\ u.state = "WAIT_MUTEX" => u.order \in w + 1..v
    /\ OnMutexOf(u, M)
    /\ OnEventOf(u, E)
    /\ u.state = "WAIT_THREAD" => HasOther(T, c, u.waitTid)

\* Every thread stays or is woken, and at most one is parked.
LEMMA ThreadsStep ==
  ASSUME NEW T \in [Slots -> ThreadType], NEW U \in [Slots -> ThreadType],
         NEW M, NEW E, NEW n \in Nat, NEW w \in Nat, NEW v \in Nat, w <= v,
         Sound(T, M, E, n, w),
         \A s \in Slots : Kept(T[s], U[s]),
         NEW c \in Slots,
         \A s \in Slots \ {c} : Mild(T[s], U[s]),
         Mild(T[c], U[c]) \/ Parks(T, c, U[c], M, E, w, v)
  PROVE  Sound(U, M, E, n, v)
<1>1. Tids(U, n)
  BY DEF Sound, Tids, Kept
<1>2. Owners(U, M)
  BY DEF Sound, Owners, OwnerOK, Kept, Live, Gone
<1>3. \A s \in Slots : \A tid : HasOther(T, s, tid) => HasOther(U, s, tid)
  BY DEF HasOther, Kept, Live, Gone
<1>4. Waiting(U, M, E)
  <2> SUFFICES ASSUME NEW s \in Slots
               PROVE  /\ OnMutexOf(U[s], M)
                      /\ OnEventOf(U[s], E)
                      /\ U[s].state = "WAIT_THREAD" => HasOther(U, s, U[s].waitTid)
    BY DEF Waiting
  <2>1. CASE Mild(T[s], U[s])
    <3>1. OnMutexOf(T[s], M) /\ OnEventOf(T[s], E)
      BY DEF Sound, Waiting
    <3>2. T[s].state = "WAIT_THREAD" => HasOther(T, s, T[s].waitTid)
      BY DEF Sound, Waiting
    <3>3. U[s].state \in {"WAIT_MUTEX", "WAIT_EVENT"} => U[s].tid = T[s].tid
      BY DEF Kept
    <3> QED
      BY <2>1, <1>3, <3>1, <3>2, <3>3 DEF Mild, OnMutexOf, OnEventOf
  <2>2. CASE s = c /\ Parks(T, c, U[c], M, E, w, v)
    BY <2>2, <1>3 DEF Parks
  <2> QED
    BY <2>1, <2>2
<1>5. Orders(U, v)
  <2>1. \A s \in Slots : U[s].order \in Nat /\ T[s].order \in Nat
    BY DEF ThreadType
  <2>2. \A s \in Slots : U[s].state = "WAIT_MUTEX" =>
           \/ T[s].state = "WAIT_MUTEX" /\ T[s].order = U[s].order
           \/ s = c /\ U[s].order \in w + 1..v
    BY DEF Mild, Parks
  <2>3. Orders(T, w)
    BY DEF Sound
  <2> QED
    BY <2>1, <2>2, <2>3 DEF Orders
<1> QED
  BY <1>1, <1>2, <1>4, <1>5 DEF Sound

\* One mutex changes, and not for those that wait for it.
LEMMA OneMutex ==
  ASSUME NEW T, NEW M, NEW E, NEW n, NEW w, Sound(T, M, E, n, w),
         NEW i \in MutexSlots, NEW m, OwnerOK(T, m),
         M \in [MutexSlots -> MutexType],
         \A s \in Slots : /\ T[s].state = "WAIT_MUTEX"
                          /\ T[s].on = Handle("mutex", i, M[i].generation)
                          /\ M[i].used
                          => /\ m.used /\ m.generation = M[i].generation
                             /\ m.owner \notin {0, T[s].tid}
  PROVE  Sound(T, [M EXCEPT ![i] = m], E, n, w)
<1> DEFINE N == [M EXCEPT ![i] = m]
<1>1. N[i] = m /\ \A j \in MutexSlots \ {i} : N[j] = M[j]
  OBVIOUS
<1> HIDE DEF N
<1>2. Owners(T, N)
  BY <1>1 DEF Sound, Owners
<1>3. \A s \in Slots : OnMutexOf(T[s], N)
  BY <1>1 DEF Sound, Waiting, OnMutexOf
<1> QED
  <2>1. Sound(T, N, E, n, w)
    BY <1>2, <1>3 DEF Sound, Waiting
  <2> QED
    BY <2>1 DEF N

\* One event changes, and not for those that wait for it.
LEMMA OneEvent ==
  ASSUME NEW T, NEW M, NEW E, NEW n, NEW w, Sound(T, M, E, n, w),
         NEW i \in EventSlots, NEW e,
         E \in [EventSlots -> EventType],
         \A s \in Slots : /\ T[s].state = "WAIT_EVENT"
                          /\ T[s].on = Handle("event", i, E[i].generation)
                          /\ E[i].used
                          => e.used /\ e.generation = E[i].generation /\ e.posts = 0
  PROVE  Sound(T, M, [E EXCEPT ![i] = e], n, w)
<1> DEFINE F == [E EXCEPT ![i] = e]
<1>1. F[i] = e /\ \A j \in EventSlots \ {i} : F[j] = E[j]
  OBVIOUS
<1> HIDE DEF F
<1>2. \A s \in Slots : OnEventOf(T[s], F)
  BY <1>1 DEF Sound, Waiting, OnEventOf
<1> QED
  <2>1. Sound(T, M, F, n, w)
    BY <1>2 DEF Sound, Waiting
  <2> QED
    BY <2>1 DEF F

-----------------------------------------------------------------------------
(***************************************************************************)
(* How calls end                                                           *)
(***************************************************************************)

\* The types of all but the semaphores.
ThreadsOK ==
    /\ threads \in [Slots -> ThreadType]
    /\ current \in Slots
    /\ mode \in Modes
    /\ nextTid \in 2..MaxTid
    /\ waitSerial \in Nat

\* The types in two parts.
LEMMA TypeOKSplit ==
  TypeOK <=> /\ ThreadsOK
             /\ mutexes \in [MutexSlots -> MutexType]
             /\ events \in [EventSlots -> EventType]
BY DEF TypeOK, ThreadsOK

\* The running thread exists, and has an id.
LEMMA MeRuns ==
  ASSUME WInv, Guest
  PROVE  /\ current \in Slots /\ Me \in ThreadType
         /\ Me.state = "RUNNING" /\ Live(Me)
         /\ Me.tid \in Nat /\ Me.tid # 0
<1>1. current \in Slots /\ Me \in ThreadType /\ Me.state = "RUNNING"
  BY DEF WInv, TypeOK, OneRuns, Me
<1>2. Live(Me)
  BY <1>1 DEF Live, Gone
<1>3. Me.tid \in 1..nextTid - 1
  BY <1>1 DEF WInv, Sound, Tids, Me
<1> QED
  BY <1>1, <1>2, <1>3 DEF WInv, TypeOK

\* Threads stay or are woken while the current one goes on.
LEMMA GoesOn ==
  ASSUME WInv, threads' \in [Slots -> ThreadType], UNCHANGED schedVars,
         \A s \in Slots : Mild(threads[s], threads'[s]),
         \A s \in Slots : threads'[s].state = "RUNNING" <=> threads[s].state = "RUNNING"
  PROVE  /\ ThreadsOK' /\ OneRuns'
         /\ Sound(threads', mutexes, events, nextTid', waitSerial')
<1>1. UNCHANGED <<current, mode, nextTid, waitSerial>>
  BY DEF schedVars
<1>2. ThreadsOK'
  BY <1>1 DEF WInv, TypeOK, ThreadsOK
<1>3. \A s \in Slots : Kept(threads[s], threads'[s])
  BY DEF Mild
<1>4. OneRuns'
  BY <1>1, <1>3 DEF WInv, TypeOK, OneRuns, Guest, Kept
<1>5. current \in Slots /\ threads \in [Slots -> ThreadType]
      /\ nextTid \in Nat /\ waitSerial \in Nat
  BY DEF WInv, TypeOK
<1>6. Sound(threads', mutexes, events, nextTid, waitSerial)
  BY <1>3, <1>5, ThreadsStep DEF WInv
<1> QED
  BY <1>1, <1>2, <1>4, <1>6

\* The current thread gets a result.
LEMMA Answered ==
  ASSUME WInv, Guest, NEW code \in Codes, Answer(code)
  PROVE  /\ ThreadsOK' /\ OneRuns'
         /\ Sound(threads', mutexes, events, nextTid', waitSerial')
         /\ \A s \in Slots : Mild(threads[s], threads'[s])
         /\ \A s \in Slots : threads'[s].state = threads[s].state
<1>1. threads \in [Slots -> ThreadType] /\ current \in Slots
  BY DEF WInv, TypeOK
<1>2. threads' = [threads EXCEPT ![current] = [threads[current] EXCEPT !.rc = code]]
      /\ UNCHANGED schedVars
  BY DEF Answer
<1>3. \A s \in Slots : /\ threads'[s] \in ThreadType
                       /\ Mild(threads[s], threads'[s])
                       /\ threads'[s].state = threads[s].state
  <2> SUFFICES ASSUME NEW s \in Slots
               PROVE  /\ threads'[s] \in ThreadType
                      /\ Mild(threads[s], threads'[s])
                      /\ threads'[s].state = threads[s].state
    OBVIOUS
  <2>1. CASE s = current
    BY <2>1, <1>1, <1>2, ResultOnly
  <2>2. CASE s # current
    BY <2>2, <1>1, <1>2, MildSelf
  <2> QED
    BY <2>1, <2>2
<1>4. threads' \in [Slots -> ThreadType]
  BY <1>1, <1>2, <1>3
<1> QED
  BY <1>2, <1>3, <1>4, GoesOn

\* A call that only answers.
LEMMA Refused ==
  ASSUME WInv, Guest, NEW code \in Codes, Refuse(code)
  PROVE  WInv'
<1>1. Answer(code) /\ UNCHANGED <<mutexes, events>>
  BY DEF Refuse
<1>2. TypeOK'
  BY <1>1, Answered, TypeOKSplit DEF WInv, TypeOK, ThreadsOK
<1> QED
  BY <1>1, <1>2, Answered DEF WInv

\* The current thread is parked, or yields.
LEMMA Switched ==
  ASSUME WInv, Guest, NEW u \in ThreadType,
         u.tid = Me.tid, Live(u), u.state # "RUNNING",
         SwitchTo([threads EXCEPT ![current] = u]),
         waitSerial' \in Nat, waitSerial <= waitSerial',
         UNCHANGED <<mutexes, events>>,
         Mild(Me, u) \/ Parks(threads, current, u, mutexes, events, waitSerial, waitSerial')
  PROVE  WInv'
<1>1. /\ threads \in [Slots -> ThreadType] /\ current \in Slots
      /\ nextTid \in Nat /\ waitSerial \in Nat
  BY DEF WInv, TypeOK
<1>2. /\ threads' = [threads EXCEPT ![current] = u] /\ mode' = "switch"
      /\ current' = current /\ nextTid' = nextTid
  BY DEF SwitchTo
<1>3. threads' \in [Slots -> ThreadType] /\ threads'[current] = u
      /\ \A s \in Slots \ {current} : threads'[s] = threads[s]
  BY <1>1, <1>2
<1>4. TypeOK'
  BY <1>2, <1>3 DEF WInv, TypeOK, Modes
<1>5. Kept(Me, u)
  BY MeRuns DEF Kept, Live, Gone
<1>6. \A s \in Slots : Kept(threads[s], threads'[s])
  BY <1>3, <1>5, MildSelf DEF Me, Mild
<1>7. OneRuns'
  BY <1>1, <1>2, <1>3 DEF WInv, OneRuns, Guest
<1>8. \A s \in Slots \ {current} : Mild(threads[s], threads'[s])
  BY <1>3, MildSelf
<1>9. Sound(threads', mutexes, events, nextTid, waitSerial')
  BY <1>1, <1>3, <1>6, <1>8, ThreadsStep DEF WInv, Me
<1> QED
  BY <1>2, <1>4, <1>7, <1>9 DEF WInv

-----------------------------------------------------------------------------
(***************************************************************************)
(* The scheduler and the calls about threads                               *)
(***************************************************************************)

\* The start is in order.
LEMMA InitSound == Init => WInv
<1> SUFFICES ASSUME Init PROVE WInv
  OBVIOUS
<1>1. 0 \in Slots /\ NThreads \in Nat
  BY SyncAssumption DEF Slots
<1>2. [ZeroThread EXCEPT !.state = "RUNNING", !.tid = 1] \in ThreadType
  BY DEF ZeroThread, ThreadType, ThreadStates, NoHandle, Handle, Codes
<1>3. threads \in [Slots -> ThreadType]
  BY <1>2, ZeroFields DEF Init
<1>4. /\ threads[0].state = "RUNNING" /\ threads[0].tid = 1
      /\ \A s \in Slots \ {0} : threads[s].state = "FREE"
  BY <1>1, ZeroFields DEF Init, ZeroThread
<1>5. ZeroMutex \in MutexType /\ ~ ZeroMutex.used
  BY SyncAssumption DEF ZeroMutex, MutexType
<1>6. ZeroEvent \in EventType
  BY SyncAssumption DEF ZeroEvent, EventType
<1>7. TypeOK
  BY <1>1, <1>3, <1>5, <1>6, SyncAssumption DEF Init, TypeOK, Modes
<1>8. OneRuns
  BY <1>1, <1>4 DEF Init, OneRuns, Guest, Live, Gone
<1>9. Sound(threads, mutexes, events, nextTid, waitSerial)
  BY <1>1, <1>4, <1>5
     DEF Init, Sound, Tids, Owners, OwnerOK, Waiting, OnMutexOf, OnEventOf, Orders
<1> QED
  BY <1>7, <1>8, <1>9 DEF WInv

\* One thread changes, which does not run after it.
LEMMA OneThread ==
  ASSUME WInv, NEW s \in Slots, NEW u \in ThreadType,
         threads' = [threads EXCEPT ![s] = u], Mild(threads[s], u)
  PROVE  /\ threads' \in [Slots -> ThreadType] /\ threads'[s] = u
         /\ \A r \in Slots \ {s} : threads'[r] = threads[r]
         /\ \A r \in Slots : Mild(threads[r], threads'[r])
         /\ Sound(threads', mutexes, events, nextTid, waitSerial)
<1>1. /\ threads \in [Slots -> ThreadType]
      /\ nextTid \in Nat /\ waitSerial \in Nat
  BY DEF WInv, TypeOK
<1>2. threads' \in [Slots -> ThreadType] /\ threads'[s] = u
      /\ \A r \in Slots \ {s} : threads'[r] = threads[r]
  BY <1>1
<1>3. \A r \in Slots : Mild(threads[r], threads'[r])
  BY <1>2, MildSelf
<1>4. \A r \in Slots : Kept(threads[r], threads'[r])
  BY <1>3 DEF Mild
<1>5. Sound(threads, mutexes, events, nextTid, waitSerial) /\ waitSerial <= waitSerial
  BY <1>1 DEF WInv
<1>6. Sound(threads', mutexes, events, nextTid, waitSerial)
  BY <1>1, <1>2, <1>3, <1>4, <1>5, ThreadsStep
<1> QED
  BY <1>2, <1>3, <1>6

\* The next thread runs.
LEMMA SchedulePreserves ==
  ASSUME WInv, Schedule
  PROVE  WInv'
<1>1. PICK n \in 1..NThreads :
         /\ threads[After(n)].state = "RUNNABLE"
         /\ current' = After(n)
         /\ threads' = [threads EXCEPT ![After(n)].state = "RUNNING"]
  BY DEF Schedule, Runnable
<1>2. /\ mode = "switch" /\ mode' = "guest"
      /\ UNCHANGED <<nextTid, waitSerial, mutexes, events>>
  BY DEF Schedule
<1>3. After(n) \in Slots
  BY SyncAssumption DEF WInv, TypeOK, Slots, After
<1> DEFINE s == After(n)
           u == [threads[s] EXCEPT !.state = "RUNNING"]
<1>4. threads[s] \in ThreadType /\ "RUNNING" \in ThreadStates /\ threads' = [threads EXCEPT ![s] = u]
  BY <1>1, <1>3 DEF WInv, TypeOK, ThreadStates
<1>5. u \in ThreadType /\ u.state = "RUNNING" /\ u.tid = threads[s].tid
  BY <1>4 DEF ThreadType
<1>6. Mild(threads[s], u)
  BY <1>1, <1>5 DEF Mild, Kept, Live, Gone
<1> HIDE DEF s, u
<1>7. s \in Slots /\ current' = s
  BY <1>1, <1>3 DEF s
<1>8. TypeOK'
  BY <1>2, <1>4, <1>5, <1>6, <1>7, OneThread DEF WInv, TypeOK, Modes
<1>9. threads'[s] = u /\ \A r \in Slots \ {s} : threads'[r].state # "RUNNING"
  BY <1>2, <1>4, <1>5, <1>6, <1>7, OneThread DEF WInv, OneRuns
<1>10. OneRuns'
  BY <1>2, <1>5, <1>7, <1>9 DEF OneRuns, Guest, Live, Gone
<1>11. Sound(threads', mutexes, events, nextTid, waitSerial)
  BY <1>4, <1>5, <1>6, <1>7, OneThread
<1> QED
  BY <1>2, <1>8, <1>10, <1>11 DEF WInv

\* A deadline passes.
LEMMA DeadlinePreserves ==
  ASSUME WInv, NEW s \in Slots, DeadlinePasses(s)
  PROVE  WInv'
<1> DEFINE code == IF threads[s].state = "SLEEP" THEN "NO_ERROR" ELSE "SEM_TIMEOUT"
           u == Ready(threads[s], code)
<1>1. /\ mode \in {"guest", "switch"} /\ threads[s].state \in TimedStates
      /\ UNCHANGED <<schedVars, mutexes, events>>
      /\ threads \in [Slots -> ThreadType]
  BY DEF DeadlinePasses, WInv, TypeOK
<1>2. threads' = [threads EXCEPT ![s] = u]
  BY DEF DeadlinePasses
<1>3. threads[s] \in ThreadType /\ code \in Codes /\ Live(threads[s])
      /\ threads[s].state # "RUNNING"
  BY <1>1 DEF Codes, Live, Gone, TimedStates
<1>4. u \in ThreadType /\ u.state = "RUNNABLE" /\ Mild(threads[s], u)
  BY <1>3, ReadyFields
<1> HIDE DEF u
<1>5. /\ threads' \in [Slots -> ThreadType]
      /\ \A r \in Slots : Mild(threads[r], threads'[r])
      /\ threads'[s] = u /\ \A r \in Slots \ {s} : threads'[r] = threads[r]
  BY <1>2, <1>4, OneThread
<1>6. \A r \in Slots : threads'[r].state = "RUNNING" <=> threads[r].state = "RUNNING"
  BY <1>3, <1>4, <1>5
<1>7. UNCHANGED schedVars /\ UNCHANGED mutexes /\ UNCHANGED events
  BY <1>1
<1>8. /\ ThreadsOK' /\ OneRuns'
      /\ Sound(threads', mutexes, events, nextTid', waitSerial')
  BY <1>5, <1>6, <1>7, GoesOn
<1>9. TypeOK'
  BY <1>7, <1>8 DEF TypeOK, ThreadsOK, WInv
<1> QED
  BY <1>7, <1>8, <1>9 DEF WInv

\* DosSleep.
LEMMA SleepPreserves ==
  ASSUME WInv, NEW timeout \in Timeouts, Sleep(timeout)
  PROVE  WInv'
<1>1. Guest /\ UNCHANGED <<mutexes, events>>
  BY DEF Sleep
<1>2. CASE timeout = "zero"
  <2> DEFINE u == [Me EXCEPT !.state = "RUNNABLE", !.rc = "NO_ERROR"]
  <2>1. Me \in ThreadType /\ "RUNNABLE" \in ThreadStates /\ "NO_ERROR" \in Codes
    BY <1>1, MeRuns DEF ThreadStates, Codes
  <2>2. u \in ThreadType /\ u.tid = Me.tid /\ u.state = "RUNNABLE"
    BY <2>1 DEF ThreadType
  <2>3. Live(u) /\ Mild(Me, u)
    BY <1>1, <2>2, MeRuns DEF Mild, Kept, Live, Gone
  <2>4. SwitchTo([threads EXCEPT ![current] = u]) /\ UNCHANGED waitSerial
    <3>1. threads \in [Slots -> ThreadType] /\ current \in Slots
      BY DEF WInv, TypeOK
    <3> QED
      BY <1>2, <3>1 DEF Sleep, Me, Block
  <2>5. waitSerial' \in Nat /\ waitSerial <= waitSerial'
    BY <2>4 DEF WInv, TypeOK
  <2> HIDE DEF u
  <2> QED
    BY <1>1, <2>2, <2>3, <2>4, <2>5, Switched
<1>3. CASE timeout # "zero"
  <2> DEFINE u == Parked(Me, "SLEEP", NoHandle, timeout, waitSerial + 1)
  <2>1. SwitchTo([threads EXCEPT ![current] = u]) /\ waitSerial' = waitSerial + 1
    BY <1>3 DEF Sleep, Block, Me
  <2>2. waitSerial \in Nat /\ "SLEEP" \in ThreadStates
        /\ NoHandle \in [kind : {"none", "mutex", "event", "queue"}, slot : Nat, generation : Nat]
    BY DEF WInv, TypeOK, ThreadStates, NoHandle, Handle
  <2>3. u \in ThreadType /\ u.state = "SLEEP" /\ u.tid = Me.tid
    BY <1>1, <2>2, MeRuns, ParkedFields
  <2>4. Live(u) /\ Mild(Me, u)
    BY <1>1, <2>3, MeRuns DEF Mild, Kept, Live, Gone
  <2> HIDE DEF u
  <2> QED
    BY <1>1, <2>1, <2>2, <2>3, <2>4, Switched
<1> QED
  BY <1>2, <1>3

\* The slot of an ended or failed thread is emptied, and the call answered.
LEMMA SlotFreed ==
  ASSUME WInv, Guest, NEW s \in Slots, ~ Live(threads[s]), NEW code \in Codes,
         threads' = [threads EXCEPT ![s] = ZeroThread, ![current].rc = code],
         UNCHANGED schedVars, UNCHANGED <<mutexes, events>>
  PROVE  WInv'
<1>1. threads \in [Slots -> ThreadType] /\ current \in Slots /\ s # current
  BY MeRuns DEF WInv, TypeOK, Me
<1> DEFINE u == [threads[current] EXCEPT !.rc = code]
<1>2. u \in ThreadType /\ Mild(threads[current], u) /\ u.state = threads[current].state
  BY <1>1, ResultOnly
<1>3. /\ threads'[s] = ZeroThread /\ threads'[current] = u
      /\ \A r \in Slots \ {s, current} : threads'[r] = threads[r]
      /\ threads' = [r \in Slots |-> threads'[r]]
  BY <1>1
<1> HIDE DEF u
<1>4. /\ threads' \in [Slots -> ThreadType]
      /\ \A r \in Slots : Mild(threads[r], threads'[r])
  BY <1>1, <1>2, <1>3, ZeroFields, MildSelf
<1>5. \A r \in Slots : threads'[r].state = "RUNNING" <=> threads[r].state = "RUNNING"
  BY <1>2, <1>3, ZeroFields DEF Live, Gone
<1>6. /\ ThreadsOK' /\ OneRuns'
      /\ Sound(threads', mutexes, events, nextTid', waitSerial')
  BY <1>4, <1>5, GoesOn
<1>7. TypeOK'
  BY <1>6 DEF TypeOK, ThreadsOK, WInv
<1> QED
  BY <1>6, <1>7 DEF WInv

\* A new thread appears in a slot without one.
LEMMA ThreadBorn ==
  ASSUME WInv, Guest, NEW s \in Slots, ~ Live(threads[s]), NEW suspended \in BOOLEAN,
         threads' = [threads EXCEPT ![s] = NewThread(nextTid, suspended),
                                    ![current].rc = "NO_ERROR"],
         nextTid < MaxTid, nextTid' = nextTid + 1,
         UNCHANGED <<current, mode, waitSerial, mutexes, events>>
  PROVE  WInv'
<1>1. /\ threads \in [Slots -> ThreadType] /\ current \in Slots /\ s # current
      /\ nextTid \in 2..MaxTid /\ waitSerial \in Nat /\ MaxTid \in Nat
  BY MeRuns, SyncAssumption DEF WInv, TypeOK, Me
<1> DEFINE u == [threads[current] EXCEPT !.rc = "NO_ERROR"]
           b == NewThread(nextTid, suspended)
<1>2. u \in ThreadType /\ Mild(threads[current], u) /\ u.state = threads[current].state
  BY <1>1, ResultOnly DEF Codes
<1>3. /\ b \in ThreadType /\ b.tid = nextTid /\ b.state \in {"RUNNABLE", "SUSPENDED"}
      /\ Live(b)
  BY <1>1, NewFields
<1>4. /\ threads'[s] = b /\ threads'[current] = u
      /\ \A r \in Slots \ {s, current} : threads'[r] = threads[r]
      /\ threads' = [r \in Slots |-> threads'[r]]
  BY <1>1
<1> HIDE DEF u, b
<1>5. \A r \in Slots \ {s} : Mild(threads[r], threads'[r]) /\ Kept(threads[r], threads'[r])
  BY <1>2, <1>4, MildSelf DEF Mild
<1>6. threads' \in [Slots -> ThreadType]
  BY <1>1, <1>2, <1>3, <1>4
<1>7. TypeOK'
  BY <1>1, <1>6 DEF WInv, TypeOK
<1>8. OneRuns'
  BY <1>1, <1>2, <1>3, <1>4 DEF WInv, OneRuns, Guest, Live, Gone
<1>9. Tids(threads', nextTid + 1)
  <2>1. \A r \in Slots \ {s} : threads'[r].state # "FREE" =>
           threads[r].state # "FREE" /\ threads'[r].tid = threads[r].tid
    BY <1>5 DEF Kept
  <2>2. Tids(threads, nextTid)
    BY DEF WInv, Sound
  <2> QED
    BY <1>1, <1>3, <1>4, <2>1, <2>2 DEF Tids
<1>10. \A r \in Slots : Live(threads[r]) =>
          Live(threads'[r]) /\ threads'[r].tid = threads[r].tid
  <2>1. \A r \in Slots \ {s} : Live(threads[r]) => Live(threads'[r])
    BY <1>5 DEF Kept
  <2>2. \A r \in Slots : Live(threads[r]) => r \in Slots \ {s}
    OBVIOUS
  <2>3. \A r \in Slots \ {s} : Live(threads'[r]) => threads'[r].tid = threads[r].tid
    BY <1>5 DEF Kept, Live, Gone
  <2> QED
    BY <2>1, <2>2, <2>3
<1>11. Owners(threads', mutexes)
  <2>1. Owners(threads, mutexes)
    BY DEF WInv, Sound
  <2> QED
    BY <1>10, <2>1 DEF Owners, OwnerOK
<1>12. \A r \in Slots : \A tid : HasOther(threads, r, tid) => HasOther(threads', r, tid)
  <2>1. \A r \in Slots : threads'[r].state = "DEAD" => threads[r].state = "DEAD"
    BY <1>3, <1>4, <1>5 DEF Kept
  <2> QED
    BY <1>10, <2>1 DEF HasOther
<1>13. \A r \in Slots : threads'[r].state \in {"WAIT_MUTEX", "WAIT_EVENT", "WAIT_THREAD"} =>
          /\ threads'[r].state = threads[r].state /\ threads'[r].on = threads[r].on
          /\ threads'[r].order = threads[r].order /\ threads'[r].waitTid = threads[r].waitTid
          /\ threads'[r].tid = threads[r].tid
  <2>1. threads'[s].state \notin {"WAIT_MUTEX", "WAIT_EVENT", "WAIT_THREAD"}
    BY <1>3, <1>4
  <2> QED
    BY <1>5, <2>1 DEF Mild, Kept
<1>14. Waiting(threads', mutexes, events)
  <2>1. Waiting(threads, mutexes, events)
    BY DEF WInv, Sound
  <2> SUFFICES ASSUME NEW r \in Slots
               PROVE  /\ OnMutexOf(threads'[r], mutexes)
                      /\ OnEventOf(threads'[r], events)
                      /\ threads'[r].state = "WAIT_THREAD" =>
                            HasOther(threads', r, threads'[r].waitTid)
    BY DEF Waiting
  <2>2. OnMutexOf(threads[r], mutexes) => OnMutexOf(threads'[r], mutexes)
    BY <1>13 DEF OnMutexOf
  <2>3. OnEventOf(threads[r], events) => OnEventOf(threads'[r], events)
    BY <1>13 DEF OnEventOf
  <2> QED
    BY <1>12, <1>13, <2>1, <2>2, <2>3 DEF Waiting
<1>15. Orders(threads', waitSerial)
  <2>1. Orders(threads, waitSerial)
    BY DEF WInv, Sound
  <2>2. \A r \in Slots : threads'[r].state = "WAIT_MUTEX" =>
           threads[r].state = "WAIT_MUTEX" /\ threads[r].order = threads'[r].order
    BY <1>13
  <2>3. \A r \in Slots : threads'[r].order \in Nat
    BY <1>6 DEF ThreadType
  <2> QED
    BY <1>1, <2>1, <2>2, <2>3 DEF Orders
<1> QED
  BY <1>7, <1>8, <1>9, <1>11, <1>14, <1>15 DEF WInv, Sound

\* DosCreateThread.
LEMMA CreateThreadPreserves ==
  ASSUME WInv, NEW suspended \in BOOLEAN, CreateThread(suspended)
  PROVE  WInv'
<1>1. Guest /\ UNCHANGED <<mutexes, events>> /\ "ERROR" \in Codes
  BY DEF CreateThread, Codes
<1>2. CASE Answer("ERROR")
  BY <1>1, <1>2, Refused DEF Refuse
<1>3. CASE ~ Answer("ERROR")
  <2>1. PICK s \in Slots :
           /\ nextTid < MaxTid
           /\ ~ Live(threads[s])
           /\ \/ /\ threads' = [threads EXCEPT ![s] = ZeroThread, ![current].rc = "ERROR"]
                 /\ UNCHANGED schedVars
              \/ /\ threads' = [threads EXCEPT
                       ![s] = NewThread(nextTid, suspended),
                       ![current].rc = "NO_ERROR"]
                 /\ nextTid' = nextTid + 1
                 /\ UNCHANGED <<current, mode, waitSerial>>
    BY <1>3 DEF CreateThread
  <2>2. CASE /\ threads' = [threads EXCEPT ![s] = ZeroThread, ![current].rc = "ERROR"]
             /\ UNCHANGED schedVars
    BY <1>1, <2>1, <2>2, SlotFreed
  <2>3. CASE /\ threads' = [threads EXCEPT ![s] = NewThread(nextTid, suspended),
                                           ![current].rc = "NO_ERROR"]
             /\ nextTid' = nextTid + 1
             /\ UNCHANGED <<current, mode, waitSerial>>
    BY <1>1, <2>1, <2>3, ThreadBorn
  <2> QED
    BY <2>1, <2>2, <2>3
<1> QED
  BY <1>2, <1>3

\* DosWaitThread.
LEMMA WaitThreadPreserves ==
  ASSUME WInv, NEW tid \in 0..nextTid, NEW nowait \in BOOLEAN, WaitThread(tid, nowait)
  PROVE  WInv'
<1>1. Guest /\ UNCHANGED <<mutexes, events>> /\ "ERROR" \in Codes /\ "NO_ERROR" \in Codes
  BY DEF WaitThread, Codes
<1>2. CASE \E code \in Codes : Answer(code)
  BY <1>1, <1>2, Refused DEF Refuse
<1>3. ASSUME NEW s \in Slots, threads[s].state = "DEAD",
             threads' = [threads EXCEPT ![s] = ZeroThread, ![current].rc = "NO_ERROR"],
             UNCHANGED schedVars
      PROVE  WInv'
  BY <1>1, <1>3, SlotFreed DEF Live, Gone
<1>4. ASSUME HasOther(threads, current, tid),
             SwitchTo([threads EXCEPT ![current].state = "WAIT_THREAD",
                                      ![current].waitTid = tid,
                                      ![current].rc = "NO_ERROR"]),
             UNCHANGED waitSerial
      PROVE  WInv'
  <2> DEFINE u == [Me EXCEPT !.state = "WAIT_THREAD", !.waitTid = tid, !.rc = "NO_ERROR"]
  <2>1. Me \in ThreadType /\ "WAIT_THREAD" \in ThreadStates /\ tid \in Nat
    BY <1>1, MeRuns DEF ThreadStates, WInv, TypeOK
  <2>2. u \in ThreadType /\ u.tid = Me.tid /\ u.state = "WAIT_THREAD" /\ u.waitTid = tid
    BY <1>1, <2>1 DEF ThreadType
  <2>3. Live(u)
    BY <2>2 DEF Live, Gone
  <2>4. SwitchTo([threads EXCEPT ![current] = u])
    <3>1. threads \in [Slots -> ThreadType] /\ current \in Slots
      BY DEF WInv, TypeOK
    <3> QED
      BY <1>4, <3>1 DEF Me
  <2>5. waitSerial' \in Nat /\ waitSerial <= waitSerial'
    BY <1>4 DEF WInv, TypeOK
  <2> HIDE DEF u
  <2>6. Parks(threads, current, u, mutexes, events, waitSerial, waitSerial')
    BY <1>4, <2>2 DEF Parks, OnMutexOf, OnEventOf
  <2> QED
    BY <1>1, <2>2, <2>3, <2>4, <2>5, <2>6, Switched
<1>5. CASE /\ \/ tid = 0 /\ \A s \in Slots : threads[s].state # "DEAD"
              \/ tid # 0 /\ \E s \in SlotsOf(threads, tid) \ {current} : Live(threads[s])
           /\ tid = 0 => \E s \in Slots \ {current} : Live(threads[s])
           /\ SwitchTo([threads EXCEPT ![current].state = "WAIT_THREAD",
                                       ![current].waitTid = tid,
                                       ![current].rc = "NO_ERROR"])
           /\ UNCHANGED waitSerial
  <2>1. HasOther(threads, current, tid)
    BY <1>5 DEF HasOther, SlotsOf
  <2> QED
    BY <1>4, <1>5, <2>1
<1>6. \/ \E code \in Codes : Answer(code)
      \/ \E s \in Slots :
            /\ threads[s].state = "DEAD"
            /\ threads' = [threads EXCEPT ![s] = ZeroThread, ![current].rc = "NO_ERROR"]
            /\ UNCHANGED schedVars
      \/ /\ \/ tid = 0 /\ \A s \in Slots : threads[s].state # "DEAD"
            \/ tid # 0 /\ \E s \in SlotsOf(threads, tid) \ {current} : Live(threads[s])
         /\ tid = 0 => \E s \in Slots \ {current} : Live(threads[s])
         /\ SwitchTo([threads EXCEPT ![current].state = "WAIT_THREAD",
                                     ![current].waitTid = tid,
                                     ![current].rc = "NO_ERROR"])
         /\ UNCHANGED waitSerial
  BY <1>1 DEF WaitThread
<1> QED
  BY <1>2, <1>3, <1>5, <1>6

\* The end of the run.
LEMMA RunEnds ==
  ASSUME WInv, ExitProcess \/ ScheduleFails
  PROVE  WInv'
<1>1. /\ UNCHANGED <<threads, current, nextTid, waitSerial, mutexes, events>>
      /\ mode' \in {"exited", "deadlock"}
      /\ mode' = "deadlock" => mode = "switch"
  BY DEF ExitProcess, ScheduleFails
<1>2. TypeOK'
  BY <1>1 DEF WInv, TypeOK, Modes
<1>3. OneRuns'
  BY <1>1 DEF WInv, OneRuns, Guest
<1> QED
  BY <1>1, <1>2, <1>3 DEF WInv

-----------------------------------------------------------------------------
(***************************************************************************)
(* The hand-off of mutexes                                                 *)
(***************************************************************************)

\* Among numbers there is a least one.
LEMMA LeastOf ==
  ASSUME NEW S, S \subseteq Nat, S # {}
  PROVE  \E i \in S : \A j \in S : i <= j
<1>1. PICK i \in S : \A j \in S : <<j, i>> \notin OpToRel(<, Nat)
  BY NatLessThanWellFounded, WFMin
<1>2. \A j \in S : ~ (j < i)
  BY <1>1 DEF OpToRel
<1> QED
  BY <1>2

\* The first waiter waits, and nobody has waited longer.
LEMMA FirstWaiterIs ==
  ASSUME NEW T \in [Slots -> ThreadType], NEW state, NEW h, Waiters(T, state, h) # {}
  PROVE  LET f == FirstWaiter(T, state, h)
         IN  /\ f \in Slots /\ T[f].state = state /\ T[f].on = h
             /\ \A r \in Waiters(T, state, h) : T[f].order <= T[r].order
<1> DEFINE W == Waiters(T, state, h)
           S == {T[s].order : s \in W}
<1>1. W \subseteq Slots /\ \A s \in W : T[s].order \in Nat
  BY DEF Waiters, ThreadType
<1>2. S \subseteq Nat /\ S # {}
  BY <1>1
<1>3. \E i \in S : \A j \in S : i <= j
  <2> HIDE DEF S
  <2> QED
    BY <1>2, LeastOf
<1>4. \E s \in W : \A r \in W : T[s].order <= T[r].order
  BY <1>3
<1>5. FirstWaiter(T, state, h) \in W /\
      \A r \in W : T[FirstWaiter(T, state, h)].order <= T[r].order
  BY <1>4 DEF FirstWaiter
<1> QED
  BY <1>5 DEF Waiters, Waits

\* A mutex that is owned once.
LEMMA OwnedFields ==
  ASSUME NEW m \in MutexType, NEW tid \in Nat
  PROVE  LET n == [m EXCEPT !.owner = tid, !.count = 1, !.abandoned = FALSE]
         IN  /\ n \in MutexType
             /\ n.used <=> m.used
             /\ n.generation = m.generation
             /\ n.owner = tid /\ n.count = 1 /\ ~ n.abandoned
<1>1. 1 \in 0..MaxCount
  BY SyncAssumption
<1> QED
  BY <1>1 DEF MutexType

\* A mutex of slot i that nobody owns any more, when it is handed on: the
\* new owner was the first to wait, and the others wait on.
LEMMA Handed ==
  ASSUME TypeOK, Tids(threads, nextTid), NEW i \in MutexSlots, NEW m \in MutexType,
         m.owner = 0, m.count = 0, m.used, m.generation = mutexes[i].generation
  PROVE  LET h == MutexHandle(i)
             n == HandedMutex(threads, m, h)
             f == FirstWaiter(threads, "WAIT_MUTEX", h)
         IN  /\ n \in MutexType /\ n.used /\ n.generation = m.generation
             /\ n.owner = 0 <=> n.count = 0
             /\ n.abandoned => n.owner = 0
             /\ n.owner # 0 => /\ f \in Slots /\ threads[f].state = "WAIT_MUTEX"
                               /\ threads[f].on = h /\ threads[f].tid = n.owner
             /\ \A s \in Slots : Waits(threads[s], "WAIT_MUTEX", h) /\ s # f =>
                   n.owner \notin {0, threads[s].tid}
             /\ Waiters(threads, "WAIT_MUTEX", h) # {} =>
                   n.owner = threads[f].tid /\ n.owner # 0
<1> DEFINE h == MutexHandle(i)
           n == HandedMutex(threads, m, h)
           f == FirstWaiter(threads, "WAIT_MUTEX", h)
           W == Waiters(threads, "WAIT_MUTEX", h)
<1>1. threads \in [Slots -> ThreadType]
  BY DEF TypeOK
<1>2. CASE W = {}
  BY <1>2 DEF HandedMutex, Waiters
<1>3. CASE W # {}
  <2>1. f \in Slots /\ threads[f].state = "WAIT_MUTEX" /\ threads[f].on = h
    BY <1>1, <1>3, FirstWaiterIs
  <2>2. n = [m EXCEPT !.owner = threads[f].tid, !.count = 1, !.abandoned = FALSE]
    BY <1>3 DEF HandedMutex
  <2>3. threads[f].tid \in Nat /\ threads[f].tid # 0
    <3>1. threads[f].tid \in 1..nextTid - 1 /\ nextTid \in Nat
      BY <2>1 DEF Tids, TypeOK
    <3> QED
      BY <3>1
  <2>4. /\ n \in MutexType /\ n.used /\ n.generation = m.generation
        /\ n.owner = threads[f].tid /\ n.count = 1 /\ ~ n.abandoned
    <3> DEFINE x == [m EXCEPT !.owner = threads[f].tid, !.count = 1, !.abandoned = FALSE]
    <3>1. /\ x \in MutexType
          /\ x.used <=> m.used
          /\ x.generation = m.generation
          /\ x.owner = threads[f].tid /\ x.count = 1 /\ ~ x.abandoned
      BY <2>3, OwnedFields
    <3>2. n = x
      BY <2>2
    <3> HIDE DEF n, x
    <3> QED
      BY <3>1, <3>2
  <2>5. \A s \in Slots : Waits(threads[s], "WAIT_MUTEX", h) /\ s # f =>
           threads[f].tid # threads[s].tid
    <3> HIDE DEF f, h
    <3> QED
      BY <2>1 DEF Tids, Waits
  <2>6. W # {} /\ n.owner # 0
    BY <1>3, <2>3, <2>4
  <2> QED
    BY <2>1, <2>3, <2>4, <2>5, <2>6
<1> QED
  BY <1>2, <1>3

-----------------------------------------------------------------------------
(***************************************************************************)
(* The end of a thread                                                     *)
(***************************************************************************)

\* A mutex whose owner has ended.
LEMMA OrphanFields ==
  ASSUME NEW m \in MutexType
  PROVE  LET n == Orphan(m)
         IN  /\ n \in MutexType /\ n.owner = 0 /\ n.count = 0
             /\ n.used <=> m.used
             /\ n.generation = m.generation
<1>1. 0 \in 0..MaxCount /\ 0 \in Nat /\ TRUE \in BOOLEAN
  BY SyncAssumption
<1> QED
  BY <1>1 DEF Orphan, MutexType

\* What becomes of the thread that ends and of the others.
LEMMA OthersLeft ==
  ASSUME WInv, Guest
  PROVE  /\ ThreadsLeft \in [Slots -> ThreadType]
         /\ ThreadsLeft[current].state \in Gone
         /\ ThreadsLeft[current].state # "FREE" => ThreadsLeft[current].tid = Me.tid
         /\ ThreadsLeft[current].state = "DEAD" =>
               \A s \in Slots : ~ Awaits(threads[s], Me.tid)
         /\ \A s \in Slots \ {current} :
               /\ Mild(threads[s], ThreadsLeft[s])
               /\ ThreadsLeft[s].state # "RUNNING"
               /\ ThreadsLeft[s].state = "WAIT_MUTEX" => ~ IsHeir(s)
               /\ ThreadsLeft[s].state = "WAIT_THREAD" => ~ Awaits(threads[s], Me.tid)
<1>1. /\ threads \in [Slots -> ThreadType] /\ current \in Slots /\ Me \in ThreadType
      /\ \A s \in Slots \ {current} : threads[s].state # "RUNNING"
  BY MeRuns DEF WInv, TypeOK, OneRuns
<1>2. /\ ThreadsLeft[current] = ZeroThread \/ ThreadsLeft[current] = Dead(Me)
      /\ ThreadsLeft[current] # ZeroThread =>
            \A s \in Slots : ~ Awaits(threads[s], Me.tid)
  BY <1>1 DEF ThreadsLeft
<1>3. /\ ThreadsLeft[current] \in ThreadType /\ ThreadsLeft[current].state \in Gone
      /\ ThreadsLeft[current].state # "FREE" => ThreadsLeft[current].tid = Me.tid
      /\ ThreadsLeft[current].state = "DEAD" =>
            \A s \in Slots : ~ Awaits(threads[s], Me.tid)
  BY <1>1, <1>2, ZeroFields, DeadFields DEF Gone
<1>4. ASSUME NEW s \in Slots \ {current}
      PROVE  /\ ThreadsLeft[s] \in ThreadType
             /\ Mild(threads[s], ThreadsLeft[s])
             /\ ThreadsLeft[s].state # "RUNNING"
             /\ ThreadsLeft[s].state = "WAIT_MUTEX" => ~ IsHeir(s)
             /\ ThreadsLeft[s].state = "WAIT_THREAD" => ~ Awaits(threads[s], Me.tid)
  <2>1. threads[s] \in ThreadType /\ s \in Slots
    BY <1>1
  <2>2. CASE IsHeir(s)
    <3>1. ThreadsLeft[s] = Ready(threads[s], "SEM_OWNER_DIED")
      BY <2>1, <2>2 DEF ThreadsLeft
    <3>2. PICK i \in MutexSlots :
             /\ Waiters(threads, "WAIT_MUTEX", MutexHandle(i)) # {}
             /\ s = FirstWaiter(threads, "WAIT_MUTEX", MutexHandle(i))
      BY <2>2 DEF IsHeir
    <3>3. threads[s].state = "WAIT_MUTEX"
      BY <1>1, <3>2, FirstWaiterIs
    <3>4. Live(threads[s]) /\ "SEM_OWNER_DIED" \in Codes
      BY <3>3 DEF Live, Gone, Codes
    <3>5. LET u == Ready(threads[s], "SEM_OWNER_DIED")
          IN  u \in ThreadType /\ u.state = "RUNNABLE" /\ Mild(threads[s], u)
      BY <2>1, <3>4, ReadyFields
    <3> QED
      BY <3>1, <3>5
  <2>3. CASE ~ IsHeir(s) /\ Awaits(threads[s], Me.tid)
    <3>1. ThreadsLeft[s] = [threads[s] EXCEPT !.state = "RUNNABLE", !.waitTid = 0]
      BY <2>1, <2>3 DEF ThreadsLeft
    <3>2. threads[s].state = "WAIT_THREAD" /\ "RUNNABLE" \in ThreadStates
      BY <2>3 DEF Awaits, ThreadStates
    <3>3. LET u == [threads[s] EXCEPT !.state = "RUNNABLE", !.waitTid = 0]
          IN  u \in ThreadType /\ u.state = "RUNNABLE" /\ u.tid = threads[s].tid
      BY <2>1, <3>2 DEF ThreadType
    <3>4. Mild(threads[s], ThreadsLeft[s])
      BY <3>1, <3>2, <3>3 DEF Mild, Kept, Live, Gone
    <3> QED
      BY <3>1, <3>3, <3>4
  <2>4. CASE ~ IsHeir(s) /\ ~ Awaits(threads[s], Me.tid)
    <3>1. ThreadsLeft[s] = threads[s]
      BY <2>1, <2>4 DEF ThreadsLeft
    <3> QED
      BY <1>1, <2>1, <2>4, <3>1, MildSelf
  <2> QED
    BY <2>2, <2>3, <2>4
<1>5. ThreadsLeft \in [Slots -> ThreadType]
  <2>1. \A s \in Slots : ThreadsLeft[s] \in ThreadType
    BY <1>3, <1>4
  <2>2. ThreadsLeft = [s \in Slots |-> ThreadsLeft[s]]
    BY DEF ThreadsLeft
  <2> QED
    BY <2>1, <2>2
<1> QED
  BY <1>3, <1>4, <1>5

\* What becomes of its mutexes: each goes to its first waiter, if it has one.
LEMMA Left ==
  ASSUME WInv, Guest, NEW i \in MutexSlots
  PROVE  /\ MutexesLeft[i] \in MutexType
         /\ OwnerOK(ThreadsLeft, MutexesLeft[i])
         /\ mutexes[i].used => /\ MutexesLeft[i].used
                               /\ MutexesLeft[i].generation = mutexes[i].generation
         /\ \A s \in Slots :
               /\ ThreadsLeft[s].state = "WAIT_MUTEX"
               /\ threads[s].on = MutexHandle(i) /\ mutexes[i].used
               /\ mutexes[i].owner \notin {0, threads[s].tid}
               => MutexesLeft[i].owner \notin {0, threads[s].tid}
<1>1. /\ TypeOK /\ Tids(threads, nextTid) /\ OwnerOK(threads, mutexes[i])
      /\ mutexes[i] \in MutexType /\ mutexes \in [MutexSlots -> MutexType]
  BY DEF WInv, TypeOK, Sound, Owners
<1>2. \A s \in Slots \ {current} : Live(threads[s]) =>
         Live(ThreadsLeft[s]) /\ ThreadsLeft[s].tid = threads[s].tid
  BY OthersLeft DEF Mild, Kept, Live, Gone
<1>3. CASE ~ Orphaned(i)
  <2>1. MutexesLeft[i] = mutexes[i]
    BY <1>3 DEF MutexesLeft
  <2>2. OwnerOK(ThreadsLeft, mutexes[i])
    <3>1. mutexes[i].used => mutexes[i].owner # Me.tid
      BY <1>3 DEF Orphaned
    <3> QED
      BY <1>1, <1>2, <3>1 DEF OwnerOK, Me
  <2> QED
    BY <1>1, <2>1, <2>2
<1>4. CASE Orphaned(i)
  <2> DEFINE m == Orphan(mutexes[i])
             n == HandedMutex(threads, m, MutexHandle(i))
             f == FirstWaiter(threads, "WAIT_MUTEX", MutexHandle(i))
  <2>1. MutexesLeft[i] = n
    BY <1>4 DEF MutexesLeft
  <2>2. /\ m \in MutexType /\ m.owner = 0 /\ m.count = 0 /\ m.used
        /\ m.generation = mutexes[i].generation
    BY <1>1, <1>4, OrphanFields DEF Orphaned
  <2>3. /\ n \in MutexType /\ n.used /\ n.generation = mutexes[i].generation
        /\ n.owner = 0 <=> n.count = 0
        /\ n.abandoned => n.owner = 0
        /\ n.owner # 0 => /\ f \in Slots /\ threads[f].state = "WAIT_MUTEX"
                          /\ threads[f].on = MutexHandle(i) /\ threads[f].tid = n.owner
        /\ \A s \in Slots : Waits(threads[s], "WAIT_MUTEX", MutexHandle(i)) /\ s # f =>
              n.owner \notin {0, threads[s].tid}
    <3> HIDE DEF m
    <3> QED
      BY <1>1, <2>2, Handed
  <2> HIDE DEF m, n
  <2>4. OwnerOK(ThreadsLeft, n)
    <3>1. n.owner # 0 => /\ f \in Slots \ {current} /\ Live(threads[f])
                         /\ threads[f].tid = n.owner
      BY <2>3, MeRuns DEF Me, Live, Gone
    <3>2. n.owner # 0 => \E s \in Slots : Live(ThreadsLeft[s]) /\ ThreadsLeft[s].tid = n.owner
      BY <1>2, <3>1
    <3> QED
      BY <2>3, <3>2 DEF OwnerOK
  <2>5. ASSUME NEW s \in Slots, ThreadsLeft[s].state = "WAIT_MUTEX",
               threads[s].on = MutexHandle(i)
        PROVE  n.owner \notin {0, threads[s].tid}
    <3>1. s # current /\ threads[s].state = "WAIT_MUTEX" /\ ~ IsHeir(s)
      BY <2>5, OthersLeft DEF Mild, Gone
    <3>2. Waits(threads[s], "WAIT_MUTEX", MutexHandle(i))
      BY <2>5, <3>1 DEF Waits
    <3>3. Waiters(threads, "WAIT_MUTEX", MutexHandle(i)) # {}
      BY <3>2 DEF Waiters
    <3>4. s # f
      BY <1>4, <3>1, <3>3 DEF IsHeir
    <3> QED
      BY <2>3, <3>2, <3>4
  <2> QED
    BY <2>1, <2>3, <2>4, <2>5
<1> QED
  BY <1>3, <1>4

\* The end of a thread.
LEMMA ExitThreadPreserves ==
  ASSUME WInv, ExitThread
  PROVE  WInv'
<1>1. /\ Guest
      /\ threads' = ThreadsLeft /\ mutexes' = MutexesLeft
      /\ mode' = IF LastEnds THEN "exited" ELSE "switch"
      /\ UNCHANGED <<current, nextTid, waitSerial, events>>
  BY DEF ExitThread
<1>2. current \in Slots /\ threads \in [Slots -> ThreadType] /\ waitSerial \in Nat
  BY DEF WInv, TypeOK
<1>3. TypeOK'
  <2>1. MutexesLeft \in [MutexSlots -> MutexType]
    <3>1. MutexesLeft = [i \in MutexSlots |-> MutexesLeft[i]]
      BY DEF MutexesLeft
    <3> QED
      BY <1>1, <3>1, Left
  <2>2. ThreadsLeft \in [Slots -> ThreadType]
    BY <1>1, OthersLeft
  <2> QED
    BY <1>1, <2>1, <2>2 DEF WInv, TypeOK, Modes
<1>4. \A s \in Slots \ {current} : Mild(threads[s], threads'[s]) /\ Kept(threads[s], threads'[s])
  BY <1>1, OthersLeft DEF Mild
<1>5. OneRuns'
  <2>1. \A s \in Slots : threads'[s].state # "RUNNING"
    BY <1>1, OthersLeft DEF Gone
  <2>2. mode' # "exited" => \E s \in Slots : Live(threads'[s])
    BY <1>1, <1>4 DEF LastEnds, Kept
  <2> QED
    BY <1>1, <2>1, <2>2 DEF OneRuns, Guest
<1>6. Tids(threads', nextTid)
  <2>1. \A s \in Slots : threads'[s].state # "FREE" =>
           threads[s].state # "FREE" /\ threads'[s].tid = threads[s].tid
    BY <1>1, <1>4, OthersLeft, MeRuns DEF Kept, Me
  <2>2. Tids(threads, nextTid)
    BY DEF WInv, Sound
  <2> QED
    BY <2>1, <2>2 DEF Tids
<1>7. Owners(threads', mutexes')
  BY <1>1, Left DEF Owners
<1>8. \A s \in Slots : threads'[s].state \in {"WAIT_MUTEX", "WAIT_EVENT", "WAIT_THREAD"} =>
         /\ s # current
         /\ threads'[s].state = threads[s].state /\ threads'[s].on = threads[s].on
         /\ threads'[s].order = threads[s].order /\ threads'[s].waitTid = threads[s].waitTid
         /\ threads'[s].tid = threads[s].tid
  BY <1>1, <1>4, OthersLeft DEF Mild, Kept, Gone
<1>9. Waiting(threads', mutexes', events)
  <2> SUFFICES ASSUME NEW s \in Slots
               PROVE  /\ OnMutexOf(threads'[s], mutexes')
                      /\ OnEventOf(threads'[s], events)
                      /\ threads'[s].state = "WAIT_THREAD" =>
                            HasOther(threads', s, threads'[s].waitTid)
    BY DEF Waiting
  <2>1. /\ OnMutexOf(threads[s], mutexes) /\ OnEventOf(threads[s], events)
        /\ threads[s].state = "WAIT_THREAD" => HasOther(threads, s, threads[s].waitTid)
    BY DEF WInv, Sound, Waiting
  <2>2. ASSUME threads'[s].state = "WAIT_MUTEX"
        PROVE  OnMutexOf(threads'[s], mutexes')
    <3>1. PICK i \in MutexSlots : /\ threads[s].on = Handle("mutex", i, mutexes[i].generation)
                                  /\ mutexes[i].used
                                  /\ mutexes[i].owner \notin {0, threads[s].tid}
      BY <1>8, <2>1, <2>2 DEF OnMutexOf
    <3>2. /\ mutexes'[i].used /\ mutexes'[i].generation = mutexes[i].generation
          /\ mutexes'[i].owner \notin {0, threads[s].tid}
      BY <1>1, <2>2, <3>1, Left DEF MutexHandle
    <3> QED
      BY <1>8, <2>2, <3>1, <3>2 DEF OnMutexOf
  <2>3. OnEventOf(threads'[s], events)
    BY <1>8, <2>1 DEF OnEventOf
  <2>4. ASSUME threads'[s].state = "WAIT_THREAD"
        PROVE  HasOther(threads', s, threads'[s].waitTid)
    <3>1. threads[s].waitTid \notin {0, Me.tid} /\ HasOther(threads, s, threads[s].waitTid)
      BY <1>1, <1>8, <2>1, <2>4, OthersLeft DEF Awaits
    <3>2. PICK r \in Slots \ {s} : Live(threads[r]) /\ threads[r].tid = threads[s].waitTid
      BY <3>1 DEF HasOther
    <3>3. r # current
      BY <3>1, <3>2 DEF Me
    <3>4. Live(threads'[r]) /\ threads'[r].tid = threads[s].waitTid
      BY <1>4, <3>2, <3>3 DEF Kept, Live, Gone
    <3> QED
      BY <1>8, <2>4, <3>1, <3>4 DEF HasOther
  <2> QED
    BY <2>2, <2>3, <2>4 DEF OnMutexOf
<1>10. Orders(threads', waitSerial)
  <2>1. Orders(threads, waitSerial)
    BY DEF WInv, Sound
  <2>2. \A s \in Slots : threads'[s].order \in Nat
    BY <1>3 DEF TypeOK, ThreadType
  <2> QED
    BY <1>2, <1>8, <2>1, <2>2 DEF Orders
<1> QED
  BY <1>1, <1>3, <1>5, <1>6, <1>7, <1>9, <1>10 DEF WInv, Sound


-----------------------------------------------------------------------------
(***************************************************************************)
(* Mutex calls                                                             *)
(***************************************************************************)

\* What a good handle names.
LEMMA MutexOf ==
  ASSUME NEW h \in MutexHandles, IsMutex(h)
  PROVE  h.slot \in MutexSlots /\ mutexes[h.slot].used /\ h = MutexHandle(h.slot)
<1>1. PICK i \in MutexSlots, g \in 1..MaxGen : h = Handle("mutex", i, g)
  BY DEF MutexHandles
<1>2. h.slot = i /\ h.generation = g
  BY <1>1 DEF Handle
<1> QED
  BY <1>1, <1>2 DEF IsMutex, MutexHandle

\* A call that answers, and leaves mutex i as m.
LEMMA MutexAnswered ==
  ASSUME WInv, Guest, NEW code \in Codes, Answer(code), UNCHANGED events,
         NEW i \in MutexSlots, NEW m \in MutexType, mutexes' = [mutexes EXCEPT ![i] = m],
         OwnerOK(threads, m),
         \A s \in Slots : Waits(threads[s], "WAIT_MUTEX", MutexHandle(i)) /\ mutexes[i].used
            => /\ m.used /\ m.generation = mutexes[i].generation
               /\ m.owner \notin {0, threads[s].tid}
  PROVE  WInv'
<1>1. /\ ThreadsOK' /\ OneRuns'
      /\ Sound(threads', mutexes, events, nextTid', waitSerial')
      /\ \A s \in Slots : Mild(threads[s], threads'[s])
  BY Answered
<1>2. mutexes \in [MutexSlots -> MutexType] /\ events \in [EventSlots -> EventType]
  BY DEF WInv, TypeOK
<1>3. TypeOK'
  BY <1>1, <1>2, TypeOKSplit DEF TypeOK, ThreadsOK
<1>4. OwnerOK(threads', m)
  <2>1. \A s \in Slots : Live(threads[s]) =>
           Live(threads'[s]) /\ threads'[s].tid = threads[s].tid
    BY <1>1 DEF Mild, Kept, Live, Gone
  <2> QED
    BY <2>1 DEF OwnerOK
<1>5. \A s \in Slots : /\ threads'[s].state = "WAIT_MUTEX"
                       /\ threads'[s].on = Handle("mutex", i, mutexes[i].generation)
                       /\ mutexes[i].used
                       => /\ m.used /\ m.generation = mutexes[i].generation
                          /\ m.owner \notin {0, threads'[s].tid}
  BY <1>1 DEF Mild, Kept, Waits, MutexHandle
<1>6. Sound(threads', mutexes', events, nextTid', waitSerial')
  <2>1. Sound(threads', [mutexes EXCEPT ![i] = m], events, nextTid', waitSerial')
    BY <1>1, <1>2, <1>4, <1>5, OneMutex
  <2> QED
    BY <2>1
<1> QED
  BY <1>1, <1>3, <1>6 DEF WInv

\* What an existing mutex is like.
LEMMA MutexKnown ==
  ASSUME WInv, NEW i \in MutexSlots, mutexes[i].used
  PROVE  /\ mutexes[i] \in MutexType /\ OwnerOK(threads, mutexes[i])
         /\ \A s \in Slots : Waits(threads[s], "WAIT_MUTEX", MutexHandle(i)) =>
               mutexes[i].owner \notin {0, threads[s].tid}
<1>1. mutexes[i] \in MutexType /\ OwnerOK(threads, mutexes[i])
  BY DEF WInv, TypeOK, Sound, Owners
<1>2. \A s \in Slots : OnMutexOf(threads[s], mutexes)
  BY DEF WInv, Sound, Waiting
<1>3. \A j \in MutexSlots : MutexHandle(j).slot = j
  BY DEF MutexHandle, Handle
<1>4. \A s \in Slots : Waits(threads[s], "WAIT_MUTEX", MutexHandle(i)) =>
         mutexes[i].owner \notin {0, threads[s].tid}
  BY <1>2, <1>3 DEF OnMutexOf, Waits, MutexHandle
<1> QED
  BY <1>1, <1>4

\* A mutex counted on: its references, or its owner's requests.
LEMMA CountedFields ==
  ASSUME NEW m \in MutexType, NEW n \in 0..MaxCount
  PROVE  /\ LET x == [m EXCEPT !.refs = n]
            IN  /\ x \in MutexType
                /\ x.used <=> m.used
                /\ x.abandoned <=> m.abandoned
                /\ x.generation = m.generation /\ x.owner = m.owner /\ x.count = m.count
         /\ LET x == [m EXCEPT !.count = n]
            IN  /\ x \in MutexType
                /\ x.used <=> m.used
                /\ x.abandoned <=> m.abandoned
                /\ x.generation = m.generation /\ x.owner = m.owner /\ x.count = n
BY DEF MutexType

\* DosCreateMutexSem.
LEMMA CreateMutexPreserves ==
  ASSUME WInv, NEW name \in Names \cup {NoName}, NEW owned \in BOOLEAN,
         CreateMutex(name, owned)
  PROVE  WInv'
<1>1. Guest
  BY DEF CreateMutex
<1>2. CASE Refuse("ERROR")
  BY <1>1, <1>2, Refused DEF Codes
<1>3. CASE ~ Refuse("ERROR")
  <2> DEFINE new(i) == [used |-> TRUE, generation |-> mutexes[i].generation + 1, refs |-> 1,
                        owner |-> IF owned THEN Me.tid ELSE 0,
                        count |-> IF owned THEN 1 ELSE 0,
                        abandoned |-> FALSE, name |-> name]
  <2>1. /\ Answer("NO_ERROR") /\ UNCHANGED events
        /\ \E i \in MutexSlots : FirstFreeMutex(i) /\ mutexes' = [mutexes EXCEPT ![i] = new(i)]
    BY <1>3 DEF CreateMutex
  <2>2. PICK i \in MutexSlots : FirstFreeMutex(i) /\ mutexes' = [mutexes EXCEPT ![i] = new(i)]
    BY <2>1
  <2>3. ~ mutexes[i].used /\ mutexes[i].generation \in 0..MaxGen
        /\ mutexes[i].generation < MaxGen
    BY <2>2 DEF FirstFreeMutex, WInv, TypeOK, MutexType
  <2>4. mutexes[i].generation + 1 \in 0..MaxGen /\ {0, 1} \subseteq 0..MaxCount
    BY <2>3, SyncAssumption
  <2>5. new(i) \in MutexType
    BY <1>1, <2>4, MeRuns DEF MutexType
  <2>6. OwnerOK(threads, new(i))
    BY <1>1, MeRuns DEF OwnerOK, Me
  <2> HIDE DEF new
  <2> QED
    BY <1>1, <2>1, <2>2, <2>3, <2>5, <2>6, MutexAnswered DEF Codes
<1> QED
  BY <1>2, <1>3

\* DosOpenMutexSem.
LEMMA OpenMutexPreserves ==
  ASSUME WInv, Guest, NEW i \in MutexSlots, mutexes[i].used, OpenMutexSlot(i)
  PROVE  WInv'
<1>1. CASE Refuse("ERROR")
  BY <1>1, Refused DEF Codes
<1>2. CASE ~ Refuse("ERROR")
  <2> DEFINE m == [mutexes[i] EXCEPT !.refs = @ + 1]
  <2>1. /\ mutexes[i].refs # MaxCount /\ Answer("NO_ERROR") /\ UNCHANGED events
        /\ mutexes' = [mutexes EXCEPT ![i] = m]
    BY <1>2 DEF OpenMutexSlot
  <2>2. /\ mutexes[i] \in MutexType /\ OwnerOK(threads, mutexes[i])
        /\ \A s \in Slots : Waits(threads[s], "WAIT_MUTEX", MutexHandle(i)) =>
               mutexes[i].owner \notin {0, threads[s].tid}
    BY MutexKnown
  <2>3. mutexes[i].refs + 1 \in 0..MaxCount
    BY <2>1, <2>2, SyncAssumption DEF MutexType
  <2>4. /\ m \in MutexType
        /\ m.used <=> mutexes[i].used
        /\ m.abandoned <=> mutexes[i].abandoned
        /\ m.generation = mutexes[i].generation
        /\ m.owner = mutexes[i].owner /\ m.count = mutexes[i].count
    BY <2>2, <2>3, CountedFields
  <2> HIDE DEF m
  <2>5. OwnerOK(threads, m)
    BY <2>2, <2>4 DEF OwnerOK
  <2> QED
    BY <2>1, <2>2, <2>4, <2>5, MutexAnswered DEF Codes
<1> QED
  BY <1>1, <1>2

\* DosCloseMutexSem.
LEMMA CloseMutexPreserves ==
  ASSUME WInv, NEW h \in MutexHandles, CloseMutex(h)
  PROVE  WInv'
<1>1. Guest /\ IsMutex(h)
  BY DEF CloseMutex, OnMutex
<1> DEFINE i == h.slot
<1>2. i \in MutexSlots /\ mutexes[i].used
  BY <1>1, MutexOf
<1>3. CASE Refuse("ERROR")
  BY <1>1, <1>3, Refused DEF Codes
<1>4. CASE ~ Refuse("ERROR")
  <2> DEFINE m == ClosedMutex(mutexes[i])
  <2>1. /\ mutexes[i].refs > 1 \/ ~ MutexBusy(i)
        /\ Answer("NO_ERROR") /\ UNCHANGED events
        /\ mutexes' = [mutexes EXCEPT ![i] = m]
    BY <1>4 DEF CloseMutex
  <2> HIDE DEF i
  <2>2. /\ mutexes[i] \in MutexType /\ OwnerOK(threads, mutexes[i])
        /\ \A s \in Slots : Waits(threads[s], "WAIT_MUTEX", MutexHandle(i)) =>
               mutexes[i].owner \notin {0, threads[s].tid}
    BY <1>2, MutexKnown
  <2>3. CASE mutexes[i].refs > 1
    <3>1. mutexes[i].refs - 1 \in 0..MaxCount
      BY <2>2, <2>3, SyncAssumption DEF MutexType
    <3>2. m = [mutexes[i] EXCEPT !.refs = @ - 1]
      BY <2>3 DEF ClosedMutex
    <3> HIDE DEF m
    <3>3. /\ m \in MutexType
          /\ m.used <=> mutexes[i].used
          /\ m.abandoned <=> mutexes[i].abandoned
          /\ m.generation = mutexes[i].generation
          /\ m.owner = mutexes[i].owner /\ m.count = mutexes[i].count
      BY <2>2, <3>1, <3>2, CountedFields
    <3>4. OwnerOK(threads, m)
      BY <2>2, <3>3 DEF OwnerOK
    <3> QED
      BY <1>1, <1>2, <2>1, <2>2, <3>3, <3>4, MutexAnswered DEF Codes
  <2>4. CASE ~ (mutexes[i].refs > 1)
    <3>1. \A s \in Slots : ~ Waits(threads[s], "WAIT_MUTEX", MutexHandle(i))
      BY <2>1, <2>4 DEF MutexBusy, Waiters
    <3>2. m \in MutexType /\ ~ m.used
      <4>1. 0 \in 0..MaxCount
        BY SyncAssumption
      <4> QED
        BY <2>2, <2>4, <4>1 DEF ClosedMutex, MutexType
    <3> HIDE DEF m
    <3> QED
      BY <1>1, <1>2, <2>1, <3>1, <3>2, MutexAnswered DEF Codes, OwnerOK
  <2> QED
    BY <2>3, <2>4
<1> QED
  BY <1>3, <1>4

\* A handle has the type of what a thread waits for.
LEMMA HandleType ==
  (\A h \in MutexHandles : h \in [kind : {"none", "mutex", "event", "queue"}, slot : Nat,
                                  generation : Nat])
  /\ \A h \in EventHandles : h \in [kind : {"none", "mutex", "event", "queue"}, slot : Nat,
                                    generation : Nat]
BY SyncAssumption DEF MutexHandles, EventHandles, Handle, Slots, MutexSlots, EventSlots

\* DosRequestMutexSem.
LEMMA RequestMutexPreserves ==
  ASSUME WInv, NEW h \in MutexHandles, NEW timeout \in Timeouts, RequestMutex(h, timeout)
  PROVE  WInv'
<1>1. Guest /\ IsMutex(h)
  BY DEF RequestMutex, OnMutex
<1> DEFINE i == h.slot
<1>2. i \in MutexSlots /\ mutexes[i].used /\ h = MutexHandle(i)
  BY <1>1, MutexOf
<1>3. /\ mutexes[i] \in MutexType /\ OwnerOK(threads, mutexes[i])
      /\ \A s \in Slots : Waits(threads[s], "WAIT_MUTEX", MutexHandle(i)) =>
             mutexes[i].owner \notin {0, threads[s].tid}
  BY <1>2, MutexKnown
<1>4. CASE Refuse("ERROR") \/ Refuse("SEM_TIMEOUT")
  BY <1>1, <1>4, Refused DEF Codes
<1>5. CASE /\ mutexes[i].owner = Me.tid /\ mutexes[i].count # MaxCount
           /\ mutexes' = [mutexes EXCEPT ![i].count = @ + 1]
           /\ Answer("NO_ERROR") /\ UNCHANGED events
  <2> HIDE DEF i
  <2> DEFINE m == [mutexes[i] EXCEPT !.count = @ + 1]
  <2>1. mutexes[i].count + 1 \in 0..MaxCount
    BY <1>3, <1>5, SyncAssumption DEF MutexType
  <2>2. /\ m \in MutexType
        /\ m.used <=> mutexes[i].used
        /\ m.abandoned <=> mutexes[i].abandoned
        /\ m.generation = mutexes[i].generation
        /\ m.owner = mutexes[i].owner /\ m.count = mutexes[i].count + 1
    BY <1>3, <2>1, CountedFields
  <2>3. mutexes' = [mutexes EXCEPT ![i] = m]
    BY <1>5
  <2> HIDE DEF m
  <2>4. OwnerOK(threads, m)
    <3>1. m.owner # 0 /\ m.count # 0
      BY <1>1, <1>3, <1>5, <2>2, MeRuns DEF MutexType
    <3> QED
      BY <1>3, <2>2, <3>1 DEF OwnerOK
  <2> QED
    BY <1>1, <1>2, <1>3, <1>5, <2>2, <2>3, <2>4, MutexAnswered DEF Codes
<1>6. CASE /\ mutexes[i].owner = 0
           /\ mutexes' = [mutexes EXCEPT ![i].owner = Me.tid, ![i].count = 1,
                                         ![i].abandoned = FALSE]
           /\ Answer(IF mutexes[i].abandoned THEN "SEM_OWNER_DIED" ELSE "NO_ERROR")
           /\ UNCHANGED events
  <2> HIDE DEF i
  <2> DEFINE m == [mutexes[i] EXCEPT !.owner = Me.tid, !.count = 1, !.abandoned = FALSE]
             code == IF mutexes[i].abandoned THEN "SEM_OWNER_DIED" ELSE "NO_ERROR"
  <2>1. /\ m \in MutexType
        /\ m.used <=> mutexes[i].used
        /\ m.generation = mutexes[i].generation
        /\ m.owner = Me.tid /\ m.count = 1 /\ ~ m.abandoned
    <3> HIDE DEF Me
    <3> QED
      BY <1>1, <1>3, MeRuns, OwnedFields
  <2>2. mutexes' = [mutexes EXCEPT ![i] = m]
    BY <1>2, <1>6 DEF WInv, TypeOK
  <2>3. code \in Codes /\ Answer(code)
    BY <1>6 DEF Codes
  <2> HIDE DEF m, code
  <2>4. OwnerOK(threads, m)
    BY <1>1, <2>1, MeRuns DEF OwnerOK, Me
  <2>5. \A s \in Slots : ~ Waits(threads[s], "WAIT_MUTEX", MutexHandle(i))
    BY <1>3, <1>6
  <2> QED
    BY <1>1, <1>2, <1>6, <2>1, <2>2, <2>3, <2>4, <2>5, MutexAnswered
<1>7. CASE /\ mutexes[i].owner \notin {0, Me.tid}
           /\ Block("WAIT_MUTEX", h, timeout) /\ UNCHANGED <<mutexes, events>>
  <2> HIDE DEF i
  <2> DEFINE u == Parked(Me, "WAIT_MUTEX", h, timeout, waitSerial + 1)
  <2>1. SwitchTo([threads EXCEPT ![current] = u]) /\ waitSerial' = waitSerial + 1
    BY <1>7 DEF Block, Me
  <2>2. waitSerial \in Nat /\ "WAIT_MUTEX" \in ThreadStates
    BY DEF WInv, TypeOK, ThreadStates
  <2>3. /\ u \in ThreadType /\ u.state = "WAIT_MUTEX" /\ u.tid = Me.tid
        /\ u.on = h /\ u.order = waitSerial + 1
    BY <1>1, <2>2, MeRuns, ParkedFields, HandleType
  <2> HIDE DEF u
  <2>4. Live(u)
    BY <2>3 DEF Live, Gone
  <2>5. Parks(threads, current, u, mutexes, events, waitSerial, waitSerial')
    BY <1>2, <1>7, <2>1, <2>2, <2>3 DEF Parks, OnMutexOf, OnEventOf, MutexHandle
  <2> QED
    BY <1>1, <1>7, <2>1, <2>2, <2>3, <2>4, <2>5, Switched
<1> QED
  BY <1>4, <1>5, <1>6, <1>7 DEF RequestMutex

\* The threads when a mutex of slot i is handed on by the current one.
LEMMA WokenHeir ==
  ASSUME WInv, Guest, NEW i \in MutexSlots, NEW m
  PROVE  LET h == MutexHandle(i)
             U == HandedThreads(threads, m, h)
             V == [U EXCEPT ![current].rc = "NO_ERROR"]
         IN  /\ V \in [Slots -> ThreadType]
             /\ \A s \in Slots : Mild(threads[s], V[s])
             /\ \A s \in Slots : V[s].state = "RUNNING" <=> threads[s].state = "RUNNING"
             /\ \A s \in Slots : V[s].state = "WAIT_MUTEX" =>
                   threads[s].state = "WAIT_MUTEX"
                   /\ (Waits(threads[s], "WAIT_MUTEX", h) =>
                          s # FirstWaiter(threads, "WAIT_MUTEX", h))
<1> DEFINE h == MutexHandle(i)
           U == HandedThreads(threads, m, h)
           V == [U EXCEPT ![current].rc = "NO_ERROR"]
           f == FirstWaiter(threads, "WAIT_MUTEX", h)
           W == Waiters(threads, "WAIT_MUTEX", h)
           code == IF m.abandoned THEN "SEM_OWNER_DIED" ELSE "NO_ERROR"
<1>1. threads \in [Slots -> ThreadType] /\ current \in Slots
      /\ threads[current].state = "RUNNING" /\ "NO_ERROR" \in Codes /\ code \in Codes
  BY DEF WInv, TypeOK, OneRuns, Codes
<1>2. CASE W = {}
  <2>1. V = [threads EXCEPT ![current] = [threads[current] EXCEPT !.rc = "NO_ERROR"]]
    BY <1>1, <1>2 DEF HandedThreads
  <2>2. \A s \in Slots : ~ Waits(threads[s], "WAIT_MUTEX", h)
    BY <1>2 DEF Waiters
  <2> HIDE DEF V, h
  <2>3. \A s \in Slots : /\ V[s] \in ThreadType
                         /\ Mild(threads[s], V[s])
                         /\ V[s].state = threads[s].state
    <3> SUFFICES ASSUME NEW s \in Slots
                 PROVE  /\ V[s] \in ThreadType
                        /\ Mild(threads[s], V[s])
                        /\ V[s].state = threads[s].state
      OBVIOUS
    <3>1. CASE s = current
      BY <3>1, <1>1, <2>1, ResultOnly
    <3>2. CASE s # current
      BY <3>2, <1>1, <2>1, MildSelf
    <3> QED
      BY <3>1, <3>2
  <2>4. V \in [Slots -> ThreadType]
    BY <1>1, <2>1, <2>3
  <2> QED
    BY <2>2, <2>3, <2>4 DEF V, h
<1>3. CASE W # {}
  <2>1. f \in Slots /\ threads[f].state = "WAIT_MUTEX" /\ threads[f].on = h
    BY <1>1, <1>3, FirstWaiterIs
  <2>2. U = [threads EXCEPT ![f] = Ready(threads[f], code)]
    BY <1>1, <1>3, <2>1 DEF HandedThreads
  <2>3. f # current
    BY <1>1, <2>1
  <2> HIDE DEF U, f, h, code
  <2>4. V = [threads EXCEPT ![f] = Ready(threads[f], code),
                            ![current] = [threads[current] EXCEPT !.rc = "NO_ERROR"]]
    BY <1>1, <2>1, <2>2, <2>3
  <2> HIDE DEF V
  <2>5. \A s \in Slots : /\ V[s] \in ThreadType
                         /\ Mild(threads[s], V[s])
                         /\ s # f => V[s].state = threads[s].state
                         /\ s = f => V[s].state = "RUNNABLE"
    <3> SUFFICES ASSUME NEW s \in Slots
                 PROVE  /\ V[s] \in ThreadType
                        /\ Mild(threads[s], V[s])
                        /\ s # f => V[s].state = threads[s].state
                        /\ s = f => V[s].state = "RUNNABLE"
      OBVIOUS
    <3>1. CASE s = current
      BY <3>1, <1>1, <2>3, <2>4, ResultOnly
    <3>2. CASE s = f
      <4>1. V[s] = Ready(threads[s], code) /\ Live(threads[s])
        BY <3>2, <1>1, <2>1, <2>3, <2>4 DEF Live, Gone
      <4> QED
        BY <3>2, <1>1, <4>1, ReadyFields
    <3>3. CASE s \notin {current, f}
      BY <3>3, <1>1, <2>4, MildSelf
    <3> QED
      BY <3>1, <3>2, <3>3
  <2>6. V \in [Slots -> ThreadType]
    BY <1>1, <2>4, <2>5
  <2>7. \A s \in Slots : V[s].state = "RUNNING" <=> threads[s].state = "RUNNING"
    BY <2>1, <2>5
  <2>8. \A s \in Slots : V[s].state = "WAIT_MUTEX" =>
           threads[s].state = "WAIT_MUTEX" /\ s # f
    BY <2>5
  <2> QED
    BY <2>5, <2>6, <2>7, <2>8 DEF V, U, h, f
<1> QED
  BY <1>2, <1>3

\* DosReleaseMutexSem.
LEMMA ReleaseMutexPreserves ==
  ASSUME WInv, NEW h \in MutexHandles, ReleaseMutex(h)
  PROVE  WInv'
<1>1. Guest /\ IsMutex(h)
  BY DEF ReleaseMutex, OnMutex
<1> DEFINE i == h.slot
<1>2. i \in MutexSlots /\ mutexes[i].used /\ h = MutexHandle(i)
  BY <1>1, MutexOf
<1>3. /\ mutexes[i] \in MutexType /\ OwnerOK(threads, mutexes[i])
      /\ \A s \in Slots : Waits(threads[s], "WAIT_MUTEX", MutexHandle(i)) =>
             mutexes[i].owner \notin {0, threads[s].tid}
  BY <1>2, MutexKnown
<1>4. CASE Refuse("ERROR")
  BY <1>1, <1>4, Refused DEF Codes
<1>5. CASE /\ mutexes[i].owner = Me.tid /\ mutexes[i].count > 1
           /\ mutexes' = [mutexes EXCEPT ![i].count = @ - 1]
           /\ Answer("NO_ERROR") /\ UNCHANGED events
  <2> HIDE DEF i
  <2> DEFINE m == [mutexes[i] EXCEPT !.count = @ - 1]
  <2>1. mutexes[i].count - 1 \in 0..MaxCount /\ mutexes[i].count - 1 # 0
    BY <1>3, <1>5, SyncAssumption DEF MutexType
  <2>2. /\ m \in MutexType
        /\ m.used <=> mutexes[i].used
        /\ m.abandoned <=> mutexes[i].abandoned
        /\ m.generation = mutexes[i].generation
        /\ m.owner = mutexes[i].owner /\ m.count = mutexes[i].count - 1
    BY <1>3, <2>1, CountedFields
  <2>3. mutexes' = [mutexes EXCEPT ![i] = m]
    BY <1>5
  <2> HIDE DEF m
  <2>4. OwnerOK(threads, m)
    <3>1. m.owner # 0 /\ m.count # 0
      BY <1>1, <1>5, <2>1, <2>2, MeRuns
    <3> QED
      BY <1>3, <2>2, <3>1 DEF OwnerOK
  <2> QED
    BY <1>1, <1>2, <1>3, <1>5, <2>2, <2>3, <2>4, MutexAnswered DEF Codes
<1>6. ASSUME mutexes[i].owner = Me.tid, mutexes[i].count = 1,
             mutexes' = [mutexes EXCEPT ![i] = HandedMutex(threads,
                            [mutexes[i] EXCEPT !.owner = 0, !.count = 0], h)],
             threads' = [HandedThreads(threads,
                            [mutexes[i] EXCEPT !.owner = 0, !.count = 0], h)
                         EXCEPT ![current].rc = "NO_ERROR"],
             UNCHANGED <<schedVars, events>>
      PROVE  WInv'
  <2> HIDE DEF i
  <2> DEFINE m == [mutexes[i] EXCEPT !.owner = 0, !.count = 0]
             n == HandedMutex(threads, m, MutexHandle(i))
             f == FirstWaiter(threads, "WAIT_MUTEX", MutexHandle(i))
  <2>1. /\ m \in MutexType /\ m.owner = 0 /\ m.count = 0
        /\ m.used <=> mutexes[i].used
        /\ m.generation = mutexes[i].generation
    <3>1. 0 \in 0..MaxCount
      BY SyncAssumption
    <3> QED
      BY <1>3, <3>1 DEF MutexType
  <2>2. mutexes' = [mutexes EXCEPT ![i] = n]
    BY <1>2, <1>6
  <2>3. /\ threads' \in [Slots -> ThreadType]
        /\ \A s \in Slots : Mild(threads[s], threads'[s])
        /\ \A s \in Slots : threads'[s].state = "RUNNING" <=> threads[s].state = "RUNNING"
        /\ \A s \in Slots : threads'[s].state = "WAIT_MUTEX" =>
              threads[s].state = "WAIT_MUTEX"
              /\ (Waits(threads[s], "WAIT_MUTEX", MutexHandle(i)) => s # f)
    <3>1. threads' = [HandedThreads(threads, m, MutexHandle(i))
                         EXCEPT ![current].rc = "NO_ERROR"]
      BY <1>2, <1>6
    <3> HIDE DEF m
    <3> QED
      BY <1>1, <1>2, <3>1, WokenHeir
  <2> HIDE DEF m
  <2>4. /\ n \in MutexType /\ n.used /\ n.generation = mutexes[i].generation
        /\ n.owner = 0 <=> n.count = 0
        /\ n.abandoned => n.owner = 0
        /\ n.owner # 0 => /\ f \in Slots /\ threads[f].state = "WAIT_MUTEX"
                          /\ threads[f].tid = n.owner
        /\ \A s \in Slots : Waits(threads[s], "WAIT_MUTEX", MutexHandle(i)) /\ s # f =>
              n.owner \notin {0, threads[s].tid}
    <3>1. TypeOK /\ Tids(threads, nextTid)
      BY DEF WInv, Sound
    <3> QED
      BY <1>2, <2>1, <3>1, Handed
  <2> HIDE DEF n, f
  <2>5. /\ ThreadsOK' /\ OneRuns'
        /\ Sound(threads', mutexes, events, nextTid', waitSerial')
    BY <1>6, <2>3, GoesOn
  <2>6. OwnerOK(threads', n)
    <3>1. n.owner # 0 => Live(threads[f]) /\ Mild(threads[f], threads'[f]) /\ f \in Slots
      BY <2>3, <2>4 DEF Live, Gone
    <3>2. n.owner # 0 => Live(threads'[f]) /\ threads'[f].tid = n.owner /\ f \in Slots
      BY <2>4, <3>1 DEF Mild, Kept, Live, Gone
    <3> QED
      BY <2>4, <3>2 DEF OwnerOK
  <2>7. \A s \in Slots : /\ threads'[s].state = "WAIT_MUTEX"
                         /\ threads'[s].on = Handle("mutex", i, mutexes[i].generation)
                         /\ mutexes[i].used
                         => /\ n.used /\ n.generation = mutexes[i].generation
                            /\ n.owner \notin {0, threads'[s].tid}
    <3> SUFFICES ASSUME NEW s \in Slots, threads'[s].state = "WAIT_MUTEX",
                        threads'[s].on = Handle("mutex", i, mutexes[i].generation)
                 PROVE  n.owner \notin {0, threads'[s].tid}
      BY <2>4
    <3>1. Waits(threads[s], "WAIT_MUTEX", MutexHandle(i)) /\ threads'[s].tid = threads[s].tid
      BY <2>3 DEF Mild, Kept, Waits, MutexHandle
    <3> QED
      BY <2>3, <2>4, <3>1
  <2>8. mutexes \in [MutexSlots -> MutexType] /\ events \in [EventSlots -> EventType]
    BY DEF WInv, TypeOK
  <2>9. Sound(threads', [mutexes EXCEPT ![i] = n], events, nextTid', waitSerial')
    BY <1>2, <2>5, <2>6, <2>7, <2>8, OneMutex
  <2>10. TypeOK'
    BY <1>6, <2>2, <2>4, <2>5, <2>8, TypeOKSplit DEF TypeOK, ThreadsOK
  <2> QED
    BY <1>6, <2>2, <2>5, <2>9, <2>10 DEF WInv
<1> QED
  BY <1>4, <1>5, <1>6 DEF ReleaseMutex

-----------------------------------------------------------------------------
(***************************************************************************)
(* Event calls                                                             *)
(***************************************************************************)

\* The event of a handle.
LEMMA EventOf ==
  ASSUME NEW h \in EventHandles, IsEvent(h)
  PROVE  h.slot \in EventSlots /\ events[h.slot].used /\ h = EventHandle(h.slot)
<1>1. PICK i \in EventSlots, g \in 1..MaxGen : h = Handle("event", i, g)
  BY DEF EventHandles
<1>2. h.slot = i /\ h.generation = g
  BY <1>1 DEF Handle
<1> QED
  BY <1>1, <1>2 DEF IsEvent, EventHandle

\* Threads stay or are woken, and event i becomes e.
LEMMA EventChanged ==
  ASSUME WInv, ThreadsOK', OneRuns',
         Sound(threads', mutexes, events, nextTid', waitSerial'),
         UNCHANGED mutexes,
         NEW i \in EventSlots, NEW e \in EventType, events' = [events EXCEPT ![i] = e],
         \A s \in Slots : Waits(threads'[s], "WAIT_EVENT", EventHandle(i)) /\ events[i].used
            => e.used /\ e.generation = events[i].generation /\ e.posts = 0
  PROVE  WInv'
<1>1. mutexes \in [MutexSlots -> MutexType] /\ events \in [EventSlots -> EventType]
  BY DEF WInv, TypeOK
<1>2. TypeOK'
  BY <1>1, TypeOKSplit DEF TypeOK, ThreadsOK
<1>3. Sound(threads', mutexes, [events EXCEPT ![i] = e], nextTid', waitSerial')
  <2>1. \A s \in Slots : /\ threads'[s].state = "WAIT_EVENT"
                         /\ threads'[s].on = Handle("event", i, events[i].generation)
                         /\ events[i].used
                         => e.used /\ e.generation = events[i].generation /\ e.posts = 0
    BY DEF Waits, EventHandle
  <2> QED
    BY <1>1, <2>1, OneEvent
<1> QED
  BY <1>2, <1>3 DEF WInv

\* A call that answers, and leaves event i as e.
LEMMA EventAnswered ==
  ASSUME WInv, Guest, NEW code \in Codes, Answer(code), UNCHANGED mutexes,
         NEW i \in EventSlots, NEW e \in EventType, events' = [events EXCEPT ![i] = e],
         \A s \in Slots : Waits(threads[s], "WAIT_EVENT", EventHandle(i)) /\ events[i].used
            => e.used /\ e.generation = events[i].generation /\ e.posts = 0
  PROVE  WInv'
<1>1. /\ ThreadsOK' /\ OneRuns'
      /\ Sound(threads', mutexes, events, nextTid', waitSerial')
      /\ \A s \in Slots : Mild(threads[s], threads'[s])
  BY Answered
<1>2. \A s \in Slots : Waits(threads'[s], "WAIT_EVENT", EventHandle(i)) /\ events[i].used
         => e.used /\ e.generation = events[i].generation /\ e.posts = 0
  BY <1>1 DEF Mild, Waits
<1> QED
  BY <1>1, <1>2, EventChanged

\* What an existing event is like.
LEMMA EventKnown ==
  ASSUME WInv, NEW i \in EventSlots, events[i].used
  PROVE  /\ events[i] \in EventType
         /\ \A s \in Slots : Waits(threads[s], "WAIT_EVENT", EventHandle(i)) =>
               events[i].posts = 0
<1>1. events[i] \in EventType
  BY DEF WInv, TypeOK
<1>2. \A s \in Slots : OnEventOf(threads[s], events)
  BY DEF WInv, Sound, Waiting
<1>3. \A j \in EventSlots : EventHandle(j).slot = j
  BY DEF EventHandle, Handle
<1>4. \A s \in Slots : Waits(threads[s], "WAIT_EVENT", EventHandle(i)) =>
         events[i].posts = 0
  BY <1>2, <1>3 DEF OnEventOf, Waits, EventHandle
<1> QED
  BY <1>1, <1>4

\* A count that wraps.
LEMMA WrappedCount ==
  ASSUME NEW n \in 0..MaxCount
  PROVE  Wrapped(n + 1) \in 0..MaxCount
<1>1. n + 1 \in Nat /\ MaxCount + 1 \in Nat \ {0}
  BY SyncAssumption
<1>2. \A a \in Nat, b \in Nat \ {0} : a % b \in 0..b - 1
  OBVIOUS
<1>3. (n + 1) % (MaxCount + 1) \in 0..(MaxCount + 1) - 1
  BY <1>1, <1>2
<1> QED
  BY <1>3, SyncAssumption DEF Wrapped

\* An event with other references, and with other posts.
LEMMA RefsFields ==
  ASSUME NEW e \in EventType, NEW n \in 0..MaxCount
  PROVE  LET x == [e EXCEPT !.refs = n]
         IN  /\ x \in EventType
             /\ x.used <=> e.used
             /\ x.generation = e.generation /\ x.posts = e.posts
BY DEF EventType

\* An event with another post count.
LEMMA PostsFields ==
  ASSUME NEW e \in EventType, NEW n \in 0..MaxCount
  PROVE  LET x == [e EXCEPT !.posts = n]
         IN  /\ x \in EventType
             /\ x.used <=> e.used
             /\ x.generation = e.generation /\ x.posts = n
BY DEF EventType

\* DosCreateEventSem.
LEMMA CreateEventPreserves ==
  ASSUME WInv, NEW name \in Names \cup {NoName}, NEW posted \in BOOLEAN,
         CreateEvent(name, posted)
  PROVE  WInv'
<1>1. Guest
  BY DEF CreateEvent
<1>2. CASE Refuse("ERROR")
  BY <1>1, <1>2, Refused DEF Codes
<1>3. CASE ~ Refuse("ERROR")
  <2> DEFINE new(i) == [used |-> TRUE, generation |-> events[i].generation + 1, refs |-> 1,
                        posts |-> IF posted THEN 1 ELSE 0, name |-> name]
  <2>1. /\ Answer("NO_ERROR") /\ UNCHANGED mutexes
        /\ \E i \in EventSlots : FirstFreeEvent(i) /\ events' = [events EXCEPT ![i] = new(i)]
    BY <1>3 DEF CreateEvent
  <2>2. PICK i \in EventSlots : FirstFreeEvent(i) /\ events' = [events EXCEPT ![i] = new(i)]
    BY <2>1
  <2>3. ~ events[i].used /\ events[i].generation \in 0..MaxGen
        /\ events[i].generation < MaxGen
    BY <2>2 DEF FirstFreeEvent, WInv, TypeOK, EventType
  <2>4. events[i].generation + 1 \in 0..MaxGen /\ {0, 1} \subseteq 0..MaxCount
    BY <2>3, SyncAssumption
  <2>5. new(i) \in EventType
    BY <2>4 DEF EventType
  <2> HIDE DEF new
  <2> QED
    BY <1>1, <2>1, <2>2, <2>3, <2>5, EventAnswered DEF Codes
<1> QED
  BY <1>2, <1>3

\* DosOpenEventSem.
LEMMA OpenEventPreserves ==
  ASSUME WInv, Guest, NEW i \in EventSlots, events[i].used, OpenEventSlot(i)
  PROVE  WInv'
<1> DEFINE e == [events[i] EXCEPT !.refs = Wrapped(@ + 1)]
<1>1. Answer("NO_ERROR") /\ UNCHANGED mutexes /\ events' = [events EXCEPT ![i] = e]
  BY DEF OpenEventSlot
<1>2. /\ events[i] \in EventType
      /\ \A s \in Slots : Waits(threads[s], "WAIT_EVENT", EventHandle(i)) =>
            events[i].posts = 0
  BY EventKnown
<1>3. Wrapped(events[i].refs + 1) \in 0..MaxCount
  BY <1>2, WrappedCount DEF EventType
<1>4. /\ e \in EventType
      /\ e.used <=> events[i].used
      /\ e.generation = events[i].generation /\ e.posts = events[i].posts
  BY <1>2, <1>3, RefsFields
<1> HIDE DEF e
<1> QED
  BY <1>1, <1>2, <1>4, EventAnswered DEF Codes

\* DosCloseEventSem.
LEMMA CloseEventPreserves ==
  ASSUME WInv, NEW h \in EventHandles, CloseEvent(h)
  PROVE  WInv'
<1>1. Guest /\ IsEvent(h)
  BY DEF CloseEvent, OnEvent
<1> DEFINE i == h.slot
<1>2. i \in EventSlots /\ events[i].used
  BY <1>1, EventOf
<1>3. CASE Refuse("ERROR")
  BY <1>1, <1>3, Refused DEF Codes
<1>4. CASE ~ Refuse("ERROR")
  <2> DEFINE e == ClosedEvent(events[i])
  <2>1. /\ events[i].refs > 1 \/ ~ EventBusy(i)
        /\ Answer("NO_ERROR") /\ UNCHANGED mutexes
        /\ events' = [events EXCEPT ![i] = e]
    BY <1>4 DEF CloseEvent
  <2> HIDE DEF i
  <2>2. /\ events[i] \in EventType
        /\ \A s \in Slots : Waits(threads[s], "WAIT_EVENT", EventHandle(i)) =>
              events[i].posts = 0
    BY <1>2, EventKnown
  <2>3. CASE events[i].refs > 1
    <3>1. events[i].refs - 1 \in 0..MaxCount
      BY <2>2, <2>3, SyncAssumption DEF EventType
    <3>2. e = [events[i] EXCEPT !.refs = @ - 1]
      BY <2>3 DEF ClosedEvent
    <3> HIDE DEF e
    <3>3. /\ e \in EventType
          /\ e.used <=> events[i].used
          /\ e.generation = events[i].generation /\ e.posts = events[i].posts
      BY <2>2, <3>1, <3>2, RefsFields
    <3> QED
      BY <1>1, <1>2, <2>1, <2>2, <3>3, EventAnswered DEF Codes
  <2>4. CASE ~ (events[i].refs > 1)
    <3>1. \A s \in Slots : ~ Waits(threads[s], "WAIT_EVENT", EventHandle(i))
      BY <2>1, <2>4 DEF EventBusy, Waiters
    <3>2. e = [ZeroEvent EXCEPT !.generation = events[i].generation]
      BY <2>4 DEF ClosedEvent
    <3>3. 0 \in 0..MaxCount /\ events[i].generation \in 0..MaxGen
      BY <2>2, SyncAssumption DEF EventType
    <3> HIDE DEF e
    <3>4. e = [used |-> FALSE, generation |-> events[i].generation, refs |-> 0,
               posts |-> 0, name |-> NoName]
      BY <3>2 DEF ZeroEvent
    <3>5. e \in EventType
      BY <3>3, <3>4 DEF EventType
    <3> QED
      BY <1>1, <1>2, <2>1, <3>1, <3>5, EventAnswered DEF Codes
  <2> QED
    BY <2>3, <2>4
<1> QED
  BY <1>3, <1>4

\* DosResetEventSem.
LEMMA ResetEventPreserves ==
  ASSUME WInv, NEW h \in EventHandles, ResetEvent(h)
  PROVE  WInv'
<1>1. Guest /\ IsEvent(h)
  BY DEF ResetEvent, OnEvent
<1> DEFINE i == h.slot
           e == [events[i] EXCEPT !.posts = 0]
           code == IF events[i].posts = 0 THEN "ERROR" ELSE "NO_ERROR"
<1>2. i \in EventSlots /\ events[i].used
  BY <1>1, EventOf
<1>3. /\ Answer(code) /\ code \in Codes /\ UNCHANGED mutexes
      /\ events' = [events EXCEPT ![i] = e]
  BY DEF ResetEvent, Codes
<1> HIDE DEF i, code
<1>4. events[i] \in EventType /\ 0 \in 0..MaxCount
  BY <1>2, SyncAssumption DEF WInv, TypeOK
<1>5. /\ e \in EventType
      /\ e.used <=> events[i].used
      /\ e.generation = events[i].generation /\ e.posts = 0
  BY <1>4, PostsFields
<1> HIDE DEF e
<1> QED
  BY <1>1, <1>2, <1>3, <1>5, EventAnswered

\* DosPostEventSem.
LEMMA PostEventPreserves ==
  ASSUME WInv, NEW h \in EventHandles, PostEvent(h)
  PROVE  WInv'
<1>1. Guest /\ IsEvent(h)
  BY DEF PostEvent, OnEvent
<1> DEFINE i == h.slot
           e == [events[i] EXCEPT !.posts = Wrapped(@ + 1)]
           code == IF events[i].posts = 0 THEN "NO_ERROR" ELSE "ERROR"
<1>2. i \in EventSlots /\ events[i].used /\ h = EventHandle(i)
  BY <1>1, EventOf
<1>3. /\ code \in Codes /\ UNCHANGED <<schedVars, mutexes>>
      /\ events' = [events EXCEPT ![i] = e]
      /\ threads' = [EventAwakens(threads, h) EXCEPT ![current].rc = code]
  BY DEF PostEvent, Codes
<1> HIDE DEF i, code
<1>4. events[i] \in EventType /\ Wrapped(events[i].posts + 1) \in 0..MaxCount
  BY <1>2, WrappedCount DEF WInv, TypeOK, EventType
<1>5. e \in EventType
  BY <1>4, PostsFields
<1>6. threads \in [Slots -> ThreadType] /\ current \in Slots
      /\ threads[current].state = "RUNNING" /\ "NO_ERROR" \in Codes
  BY <1>1 DEF WInv, TypeOK, OneRuns, Codes
<1>7. \A s \in Slots :
         threads'[s] = IF s = current THEN [threads[s] EXCEPT !.rc = code]
                       ELSE IF Waits(threads[s], "WAIT_EVENT", h)
                       THEN Ready(threads[s], "NO_ERROR") ELSE threads[s]
  BY <1>3, <1>6 DEF EventAwakens, Waits
<1>8. \A s \in Slots :
         /\ threads'[s] \in ThreadType
         /\ Mild(threads[s], threads'[s])
         /\ threads'[s].state = "RUNNING" <=> threads[s].state = "RUNNING"
         /\ ~ Waits(threads'[s], "WAIT_EVENT", h)
  <2> SUFFICES ASSUME NEW s \in Slots
               PROVE  /\ threads'[s] \in ThreadType
                      /\ Mild(threads[s], threads'[s])
                      /\ threads'[s].state = "RUNNING" <=> threads[s].state = "RUNNING"
                      /\ ~ Waits(threads'[s], "WAIT_EVENT", h)
    OBVIOUS
  <2>1. CASE s = current
    <3>1. threads'[s] = [threads[s] EXCEPT !.rc = code]
      BY <1>7, <2>1
    <3>2. threads[s] \in ThreadType /\ code \in Codes /\ threads[s].state = "RUNNING"
      BY <1>3, <1>6, <2>1
    <3>3. /\ threads'[s] \in ThreadType
          /\ Mild(threads[s], threads'[s])
          /\ threads'[s].state = threads[s].state
      BY <3>1, <3>2, ResultOnly
    <3> QED
      BY <3>2, <3>3 DEF Waits
  <2>2. CASE s # current /\ Waits(threads[s], "WAIT_EVENT", h)
    <3>1. threads'[s] = Ready(threads[s], "NO_ERROR") /\ Live(threads[s])
          /\ threads[s].state = "WAIT_EVENT"
      BY <1>7, <2>2 DEF Waits, Live, Gone
    <3> QED
      BY <1>6, <3>1, ReadyFields DEF Waits
  <2>3. CASE s # current /\ ~ Waits(threads[s], "WAIT_EVENT", h)
    <3>1. threads'[s] = threads[s]
      BY <1>7, <2>3
    <3> QED
      BY <1>6, <2>3, <3>1, MildSelf
  <2> QED
    BY <2>1, <2>2, <2>3
<1>9. threads' \in [Slots -> ThreadType]
  <2>1. threads' = [s \in Slots |-> threads'[s]]
    BY <1>3 DEF EventAwakens
  <2> QED
    BY <1>8, <2>1
<1>10. /\ ThreadsOK' /\ OneRuns'
       /\ Sound(threads', mutexes, events, nextTid', waitSerial')
  BY <1>3, <1>8, <1>9, GoesOn
<1> HIDE DEF e
<1> QED
  BY <1>2, <1>3, <1>5, <1>8, <1>10, EventChanged

\* DosWaitEventSem.
LEMMA WaitEventPreserves ==
  ASSUME WInv, NEW h \in EventHandles, NEW timeout \in Timeouts, WaitEvent(h, timeout)
  PROVE  WInv'
<1>1. Guest /\ IsEvent(h)
  BY DEF WaitEvent, OnEvent
<1> DEFINE i == h.slot
           u == Parked(Me, "WAIT_EVENT", h, timeout, 0)
<1>2. i \in EventSlots /\ events[i].used /\ h = EventHandle(i)
  BY <1>1, EventOf
<1>3. CASE Refuse("NO_ERROR") \/ Refuse("SEM_TIMEOUT")
  BY <1>1, <1>3, Refused DEF Codes
<1>4. CASE /\ events[i].posts = 0
           /\ SwitchTo([threads EXCEPT ![current] = u])
           /\ UNCHANGED <<waitSerial, mutexes, events>>
  <2> HIDE DEF i
  <2>1. waitSerial \in Nat /\ "WAIT_EVENT" \in ThreadStates
    BY DEF WInv, TypeOK, ThreadStates
  <2>2. u \in ThreadType /\ u.state = "WAIT_EVENT" /\ u.tid = Me.tid /\ u.on = h
    BY <1>1, <2>1, MeRuns, ParkedFields, HandleType
  <2>3. SwitchTo([threads EXCEPT ![current] = u]) /\ UNCHANGED <<waitSerial, mutexes, events>>
    BY <1>4
  <2> HIDE DEF u
  <2>4. Live(u)
    BY <2>2 DEF Live, Gone
  <2>5. Parks(threads, current, u, mutexes, events, waitSerial, waitSerial')
    BY <1>2, <1>4, <2>2 DEF Parks, OnMutexOf, OnEventOf, EventHandle
  <2>6. waitSerial' \in Nat /\ waitSerial <= waitSerial'
    BY <2>1, <2>3
  <2> QED
    BY <1>1, <2>2, <2>3, <2>4, <2>5, <2>6, Switched
<1> QED
  BY <1>3, <1>4 DEF WaitEvent, Me

-----------------------------------------------------------------------------
(***************************************************************************)
(* The theorems                                                            *)
(***************************************************************************)

\* A call on a handle that names nothing.
LEMMA BadHandlePreserves ==
  ASSUME WInv, NEW h, BadHandle(h)
  PROVE  WInv'
BY Refused DEF BadHandle, Codes

\* All calls about threads.
LEMMA ThreadCallPreserves ==
  ASSUME WInv, ThreadCall
  PROVE  WInv'
<1>1. ASSUME NEW timeout \in Timeouts, Sleep(timeout) PROVE WInv'
  BY <1>1, SleepPreserves
<1>2. ASSUME NEW suspended \in BOOLEAN, CreateThread(suspended) PROVE WInv'
  BY <1>2, CreateThreadPreserves
<1>3. ASSUME NEW tid \in 0..nextTid, NEW nowait \in BOOLEAN, WaitThread(tid, nowait)
      PROVE  WInv'
  <2>1. tid \in Nat
    BY DEF WInv, TypeOK
  <2> QED
    BY <1>3, <2>1, WaitThreadPreserves
<1>4. ASSUME ExitThread PROVE WInv'
  BY <1>4, ExitThreadPreserves
<1>5. ASSUME ExitProcess PROVE WInv'
  BY <1>5, RunEnds DEF ExitProcess
<1> QED
  BY <1>1, <1>2, <1>3, <1>4, <1>5 DEF ThreadCall

\* All calls about mutexes.
LEMMA MutexCallPreserves ==
  ASSUME WInv, MutexCall
  PROVE  WInv'
<1>1. ASSUME NEW name \in Names \cup {NoName}, NEW owned \in BOOLEAN,
             CreateMutex(name, owned)
      PROVE  WInv'
  BY <1>1, CreateMutexPreserves
<1>2. ASSUME NEW name \in Names, OpenMutexNamed(name) PROVE WInv'
  <2>1. CASE Refuse("ERROR")
    BY <1>2, <2>1, Refused DEF OpenMutexNamed, Codes
  <2>2. CASE ~ Refuse("ERROR")
    <3>1. Guest /\ \E i \in MutexNamed(name) : OpenMutexSlot(i)
      BY <1>2, <2>2 DEF OpenMutexNamed
    <3> QED
      BY <3>1, OpenMutexPreserves DEF MutexNamed
  <2> QED
    BY <2>1, <2>2
<1>3. ASSUME NEW h \in MutexHandles, OpenMutex(h) PROVE WInv'
  BY <1>3, MutexOf, OpenMutexPreserves DEF OpenMutex, OnMutex
<1>4. ASSUME NEW h \in MutexHandles, CloseMutex(h) PROVE WInv'
  BY <1>4, CloseMutexPreserves
<1>5. ASSUME NEW h \in MutexHandles, NEW timeout \in Timeouts, RequestMutex(h, timeout)
      PROVE  WInv'
  BY <1>5, RequestMutexPreserves
<1>6. ASSUME NEW h \in MutexHandles, ReleaseMutex(h) PROVE WInv'
  BY <1>6, ReleaseMutexPreserves
<1>7. ASSUME NEW h \in MutexHandles, BadHandle(h) PROVE WInv'
  BY <1>7, BadHandlePreserves
<1> QED
  BY <1>1, <1>2, <1>3, <1>4, <1>5, <1>6, <1>7 DEF MutexCall

\* All calls about events.
LEMMA EventCallPreserves ==
  ASSUME WInv, EventCall
  PROVE  WInv'
<1>1. ASSUME NEW name \in Names \cup {NoName}, NEW posted \in BOOLEAN,
             CreateEvent(name, posted)
      PROVE  WInv'
  BY <1>1, CreateEventPreserves
<1>2. ASSUME NEW name \in Names, OpenEventNamed(name) PROVE WInv'
  <2>1. CASE Refuse("ERROR")
    BY <1>2, <2>1, Refused DEF OpenEventNamed, Codes
  <2>2. CASE ~ Refuse("ERROR")
    <3>1. Guest /\ \E i \in EventNamed(name) : OpenEventSlot(i)
      BY <1>2, <2>2 DEF OpenEventNamed
    <3> QED
      BY <3>1, OpenEventPreserves DEF EventNamed
  <2> QED
    BY <2>1, <2>2
<1>3. ASSUME NEW h \in EventHandles, OpenEvent(h) PROVE WInv'
  BY <1>3, EventOf, OpenEventPreserves DEF OpenEvent, OnEvent
<1>4. ASSUME NEW h \in EventHandles, CloseEvent(h) PROVE WInv'
  BY <1>4, CloseEventPreserves
<1>5. ASSUME NEW h \in EventHandles, ResetEvent(h) PROVE WInv'
  BY <1>5, ResetEventPreserves
<1>6. ASSUME NEW h \in EventHandles, PostEvent(h) PROVE WInv'
  BY <1>6, PostEventPreserves
<1>7. ASSUME NEW h \in EventHandles, NEW timeout \in Timeouts, WaitEvent(h, timeout)
      PROVE  WInv'
  BY <1>7, WaitEventPreserves
<1>8. ASSUME NEW h \in EventHandles, BadHandle(h) PROVE WInv'
  BY <1>8, BadHandlePreserves
<1> QED
  BY <1>1, <1>2, <1>3, <1>4, <1>5, <1>6, <1>7, <1>8 DEF EventCall

\* Nothing happens.
LEMMA StutterPreserves ==
  ASSUME WInv, UNCHANGED vars
  PROVE  WInv'
BY DEF vars, WInv, TypeOK, OneRuns, Guest, Sound

\* Every step keeps the invariant.
LEMMA NextPreserves ==
  ASSUME WInv, [Next]_vars
  PROVE  WInv'
<1>1. CASE ThreadCall
  BY <1>1, ThreadCallPreserves
<1>2. CASE MutexCall
  BY <1>2, MutexCallPreserves
<1>3. CASE EventCall
  BY <1>3, EventCallPreserves
<1>4. CASE Host
  <2>1. ASSUME NEW s \in Slots, DeadlinePasses(s) PROVE WInv'
    BY <2>1, DeadlinePreserves
  <2> QED
    BY <1>4, <2>1, SchedulePreserves, RunEnds DEF Host
<1>5. CASE UNCHANGED vars
  BY <1>5, StutterPreserves
<1> QED
  BY <1>1, <1>2, <1>3, <1>4, <1>5 DEF Next, Ended

\* The invariant holds from the start on.
THEOREM Invariant == Spec => []WInv
<1>1. Init => WInv
  BY InitSound
<1>2. WInv /\ [Next]_vars => WInv'
  BY NextPreserves
<1> QED
  BY <1>1, <1>2, PTL DEF Spec

\* What a guest calls, the tables of the host keep their types: no count of a
\* mutex, post count or generation leaves its width.
THEOREM TypeCorrect == Spec => []TypeOK
<1>1. WInv => TypeOK
  BY DEF WInv
<1> QED
  BY <1>1, Invariant, PTL

\* One virtual processor runs one guest thread, and while the run goes on there is
\* one that can be found (schedule_next_thread).
THEOREM ProcessorShared == Spec => []OneRuns
<1>1. WInv => OneRuns
  BY DEF WInv
<1> QED
  BY <1>1, Invariant, PTL

\* No id is shared in a state of the invariant.
LEMMA TidsOf == WInv => TidsUnique
  BY DEF WInv, Sound, Tids, TidsUnique, SlotsOf

\* Thread ids are given once, though the slots of dead threads are used again
\* (create_guest_thread, guest_wait_thread).
THEOREM TidsNeverShared == Spec => []TidsUnique
  BY TidsOf, Invariant, PTL

\* Owners live in a state of the invariant.
LEMMA OwnersOf == WInv => OwnerLives
  BY DEF WInv, Sound, Owners, OwnerOK, OwnerLives

\* A mutex is never left to a thread that has ended (mutex_owner_exit).
THEOREM OwnersLive == Spec => []OwnerLives
  BY OwnersOf, Invariant, PTL

\* Waits for mutexes are needed in a state of the invariant.
LEMMA MutexWaitersOf == WInv => MutexWaitersBlocked
<1> SUFFICES ASSUME WInv, NEW s \in Slots, threads[s].state = "WAIT_MUTEX"
             PROVE  /\ IsMutex(threads[s].on)
                    /\ mutexes[threads[s].on.slot].owner \notin {0, threads[s].tid}
  BY DEF MutexWaitersBlocked
<1>1. PICK i \in MutexSlots : /\ threads[s].on = Handle("mutex", i, mutexes[i].generation)
                              /\ mutexes[i].used /\ mutexes[i].owner \notin {0, threads[s].tid}
  BY DEF WInv, Sound, Waiting, OnMutexOf
<1>2. /\ threads[s].on.kind = "mutex" /\ threads[s].on.slot = i
      /\ threads[s].on.generation = mutexes[i].generation
  BY <1>1 DEF Handle
<1> QED
  BY <1>1, <1>2 DEF IsMutex

\* No wakeup for a mutex is lost: whoever waits for one waits for a thread that
\* owns it (mutex_handoff).
THEOREM MutexWaitsNeeded == Spec => []MutexWaitersBlocked
  BY MutexWaitersOf, Invariant, PTL

\* So are waits for events.
LEMMA EventWaitersOf == WInv => EventWaitersBlocked
<1> SUFFICES ASSUME WInv, NEW s \in Slots, threads[s].state = "WAIT_EVENT"
             PROVE  IsEvent(threads[s].on) /\ events[threads[s].on.slot].posts = 0
  BY DEF EventWaitersBlocked
<1>1. PICK i \in EventSlots : /\ threads[s].on = Handle("event", i, events[i].generation)
                              /\ events[i].used /\ events[i].posts = 0
  BY DEF WInv, Sound, Waiting, OnEventOf
<1>2. /\ threads[s].on.kind = "event" /\ threads[s].on.slot = i
      /\ threads[s].on.generation = events[i].generation
  BY <1>1 DEF Handle
<1> QED
  BY <1>1, <1>2 DEF IsEvent

\* No post of an event is lost: whoever waits for one waits for an event that
\* exists and is not posted (wake_event_waiters).
THEOREM EventWaitsNeeded == Spec => []EventWaitersBlocked
  BY EventWaitersOf, Invariant, PTL

\* So are waits for threads.
LEMMA ThreadWaitersOf == WInv => ThreadWaitersBlocked
  BY DEF WInv, Sound, Waiting, HasOther, ThreadWaitersBlocked

\* No end of a thread is lost: whoever waits for a thread waits for one that
\* lives (wake_thread_waiters).
THEOREM ThreadWaitsNeeded == Spec => []ThreadWaitersBlocked
  BY ThreadWaitersOf, Invariant, PTL

\* No wake-up of any kind is lost.
THEOREM WaitsNeeded == Spec => []WaitersBlocked
  BY MutexWaitsNeeded, EventWaitsNeeded, ThreadWaitsNeeded, PTL DEF WaitersBlocked

\* All of these, in any state of the invariant.
LEMMA SyncPromises ==
  WInv => TypeOK /\ OneRuns /\ TidsUnique /\ OwnerLives /\ WaitersBlocked
BY TidsOf, OwnersOf, MutexWaitersOf, EventWaitersOf, ThreadWaitersOf DEF WInv, WaitersBlocked

-----------------------------------------------------------------------------
(***************************************************************************)
(* Nobody overtakes                                                        *)
(***************************************************************************)

\* The mutexes that stay keep their owners.
OwnersKept ==
    \A i \in MutexSlots : SameMutex(i) =>
        mutexes'[i].owner = mutexes[i].owner /\ mutexes'[i].abandoned = mutexes[i].abandoned

\* Nobody is overtaken where no owner changes.
LEMMA NoNewOwner ==
  OwnersKept => FifoStep
BY DEF OwnersKept, FifoStep

\* Of the waiters of mutex i the first came before each of the others.
LEMMA FirstIsBefore ==
  ASSUME WInv, NEW i \in MutexSlots, NEW s \in Waiters(threads, "WAIT_MUTEX", MutexHandle(i)),
         s # FirstWaiter(threads, "WAIT_MUTEX", MutexHandle(i))
  PROVE  LET f == FirstWaiter(threads, "WAIT_MUTEX", MutexHandle(i))
         IN  /\ f \in Waiters(threads, "WAIT_MUTEX", MutexHandle(i))
             /\ threads[f].order < threads[s].order
<1> DEFINE h == MutexHandle(i)
           f == FirstWaiter(threads, "WAIT_MUTEX", h)
<1>1. threads \in [Slots -> ThreadType] /\ Orders(threads, waitSerial)
  BY DEF WInv, TypeOK, Sound
<1> HIDE DEF h
<1>2. /\ f \in Slots /\ threads[f].state = "WAIT_MUTEX" /\ threads[f].on = h
      /\ threads[f].order <= threads[s].order
  BY <1>1, FirstWaiterIs DEF h
<1>3. s \in Slots /\ threads[s].state = "WAIT_MUTEX" /\ s # f
  BY DEF Waiters, Waits, h
<1> HIDE DEF f
<1>4. threads[f].order # threads[s].order
  BY <1>1, <1>2, <1>3 DEF Orders
<1>5. threads[f].order \in Nat /\ threads[s].order \in Nat
  BY <1>1, <1>2, <1>3 DEF ThreadType
<1> QED
  BY <1>2, <1>4, <1>5 DEF Waiters, Waits, h, f

\* Mutex i is handed on, and its first waiter does not wait any more.
LEMMA HandedInOrder ==
  ASSUME WInv, NEW i \in MutexSlots, NEW m \in MutexType,
         m.owner = 0, m.count = 0, m.used, m.generation = mutexes[i].generation,
         mutexes'[i] = HandedMutex(threads, m, MutexHandle(i)),
         mutexes'[i].owner # 0,
         NEW s \in Waiters(threads, "WAIT_MUTEX", MutexHandle(i)),
         s # FirstWaiter(threads, "WAIT_MUTEX", MutexHandle(i))
  PROVE  \E r \in Waiters(threads, "WAIT_MUTEX", MutexHandle(i)) :
            /\ threads[r].tid = mutexes'[i].owner
            /\ threads[r].order < threads[s].order
<1> DEFINE f == FirstWaiter(threads, "WAIT_MUTEX", MutexHandle(i))
<1>1. TypeOK /\ Tids(threads, nextTid)
  BY DEF WInv, Sound
<1>2. threads[f].tid = mutexes'[i].owner
  BY <1>1, Handed
<1>3. f \in Waiters(threads, "WAIT_MUTEX", MutexHandle(i))
      /\ threads[f].order < threads[s].order
  BY FirstIsBefore
<1> QED
  BY <1>2, <1>3

\* A release hands the mutex to its first waiter.
LEMMA ReleaseInOrder ==
  ASSUME WInv, NEW h \in MutexHandles, ReleaseMutex(h)
  PROVE  FifoStep
<1>1. Guest /\ IsMutex(h)
  BY DEF ReleaseMutex, OnMutex
<1> DEFINE i == h.slot
<1>2. i \in MutexSlots /\ mutexes[i].used /\ h = MutexHandle(i)
  BY <1>1, MutexOf
<1>3. mutexes \in [MutexSlots -> MutexType]
  BY DEF WInv, TypeOK
<1>4. CASE \/ UNCHANGED mutexes
           \/ mutexes' = [mutexes EXCEPT ![i].count = @ - 1]
  <2> HIDE DEF i
  <2>1. OwnersKept
    BY <1>2, <1>3, <1>4 DEF OwnersKept, MutexType
  <2> QED
    BY <2>1, NoNewOwner
<1>5. ASSUME mutexes' = [mutexes EXCEPT ![i] = HandedMutex(threads,
                            [mutexes[i] EXCEPT !.owner = 0, !.count = 0], h)],
             threads' = [HandedThreads(threads,
                            [mutexes[i] EXCEPT !.owner = 0, !.count = 0], h)
                         EXCEPT ![current].rc = "NO_ERROR"]
      PROVE  FifoStep
  <2> HIDE DEF i
  <2> DEFINE m == [mutexes[i] EXCEPT !.owner = 0, !.count = 0]
             f == FirstWaiter(threads, "WAIT_MUTEX", MutexHandle(i))
  <2>1. /\ m \in MutexType /\ m.owner = 0 /\ m.count = 0 /\ m.used
        /\ m.generation = mutexes[i].generation
    <3>1. 0 \in 0..MaxCount /\ mutexes[i] \in MutexType
      BY <1>2, <1>3, SyncAssumption
    <3> QED
      BY <1>2, <3>1 DEF MutexType
  <2>2. mutexes'[i] = HandedMutex(threads, m, MutexHandle(i))
        /\ \A j \in MutexSlots \ {i} : mutexes'[j] = mutexes[j]
    BY <1>2, <1>3, <1>5
  <2>3. threads' = [HandedThreads(threads, m, MutexHandle(i))
                         EXCEPT ![current].rc = "NO_ERROR"]
    BY <1>2, <1>5
  <2> HIDE DEF m
  <2>4. \A s \in Slots : threads'[s].state = "WAIT_MUTEX"
                         /\ Waits(threads[s], "WAIT_MUTEX", MutexHandle(i)) => s # f
    BY <1>1, <1>2, <2>3, WokenHeir
  <2>5. ASSUME NEW s \in Waiters(threads, "WAIT_MUTEX", MutexHandle(i)),
               threads'[s].state = "WAIT_MUTEX", mutexes'[i].owner # 0
        PROVE  \E r \in Waiters(threads, "WAIT_MUTEX", MutexHandle(i)) :
                  /\ threads[r].tid = mutexes'[i].owner
                  /\ threads[r].order < threads[s].order
    <3>1. s # f
      BY <2>4, <2>5 DEF Waiters
    <3> QED
      BY <1>2, <2>1, <2>2, <2>5, <3>1, HandedInOrder
  <2> HIDE DEF f
  <2> QED
    BY <2>2, <2>5 DEF FifoStep
<1> QED
  BY <1>4, <1>5 DEF ReleaseMutex, Refuse

\* So does the end of an owner.
LEMMA ExitInOrder ==
  ASSUME WInv, ExitThread
  PROVE  FifoStep
<1>1. Guest /\ mutexes' = MutexesLeft /\ threads' = ThreadsLeft
  BY DEF ExitThread
<1>2. mutexes \in [MutexSlots -> MutexType] /\ current \in Slots
      /\ threads[current].state = "RUNNING"
  BY <1>1 DEF WInv, TypeOK, OneRuns
<1>3. ASSUME NEW i \in MutexSlots, ~ Orphaned(i)
      PROVE  mutexes'[i] = mutexes[i]
  BY <1>1, <1>3 DEF MutexesLeft
<1>4. ASSUME NEW i \in MutexSlots, Orphaned(i), mutexes'[i].owner # 0,
             NEW s \in Waiters(threads, "WAIT_MUTEX", MutexHandle(i)),
             threads'[s].state = "WAIT_MUTEX"
      PROVE  \E r \in Waiters(threads, "WAIT_MUTEX", MutexHandle(i)) :
                /\ threads[r].tid = mutexes'[i].owner
                /\ threads[r].order < threads[s].order
  <2> DEFINE m == Orphan(mutexes[i])
             f == FirstWaiter(threads, "WAIT_MUTEX", MutexHandle(i))
  <2>1. /\ m \in MutexType /\ m.owner = 0 /\ m.count = 0 /\ m.used
        /\ m.generation = mutexes[i].generation
    BY <1>2, <1>4, OrphanFields DEF Orphaned
  <2>2. mutexes'[i] = HandedMutex(threads, m, MutexHandle(i))
    BY <1>1, <1>4 DEF MutexesLeft
  <2>3. s \in Slots /\ s # current
    BY <1>2, <1>4 DEF Waiters, Waits
  <2>4. s # f
    <3>1. ~ IsHeir(s)
      BY <1>1, <1>4, <2>3, OthersLeft
    <3> QED
      BY <1>4, <3>1 DEF IsHeir
  <2> HIDE DEF m
  <2> QED
    BY <1>4, <2>1, <2>2, <2>4, HandedInOrder
<1> QED
  BY <1>3, <1>4 DEF FifoStep

\* A free mutex has no waiters.
LEMMA RequestInOrder ==
  ASSUME WInv, NEW h \in MutexHandles, NEW timeout \in Timeouts, RequestMutex(h, timeout)
  PROVE  FifoStep
<1>1. Guest /\ IsMutex(h)
  BY DEF RequestMutex, OnMutex
<1> DEFINE i == h.slot
<1>2. i \in MutexSlots /\ mutexes[i].used
  BY <1>1, MutexOf
<1>3. mutexes \in [MutexSlots -> MutexType]
  BY DEF WInv, TypeOK
<1>4. CASE \/ UNCHANGED mutexes
           \/ mutexes' = [mutexes EXCEPT ![i].count = @ + 1]
  <2> HIDE DEF i
  <2>1. OwnersKept
    BY <1>2, <1>3, <1>4 DEF OwnersKept, MutexType
  <2> QED
    BY <2>1, NoNewOwner
<1>5. CASE /\ mutexes[i].owner = 0
           /\ mutexes' = [mutexes EXCEPT ![i].owner = Me.tid, ![i].count = 1,
                                         ![i].abandoned = FALSE]
  <2> HIDE DEF i
  <2>1. \A s \in Slots : ~ Waits(threads[s], "WAIT_MUTEX", MutexHandle(i))
    BY <1>2, <1>5, MutexKnown
  <2>2. \A j \in MutexSlots \ {i} : mutexes'[j] = mutexes[j]
    BY <1>3, <1>5
  <2> QED
    BY <2>1, <2>2 DEF FifoStep, Waiters
<1> QED
  BY <1>4, <1>5 DEF RequestMutex, Refuse

\* No other call changes an owner.
LEMMA OthersKeep ==
  ASSUME WInv
  PROVE  /\ \A name, owned : CreateMutex(name, owned) => OwnersKept
         /\ \A i \in MutexSlots : OpenMutexSlot(i) => OwnersKept
         /\ \A h \in MutexHandles : CloseMutex(h) => OwnersKept
         /\ UNCHANGED mutexes => OwnersKept
<1>1. mutexes \in [MutexSlots -> MutexType]
  BY DEF WInv, TypeOK
<1>2. UNCHANGED mutexes => OwnersKept
  BY DEF OwnersKept
<1>3. ASSUME NEW name, NEW owned, CreateMutex(name, owned)
      PROVE  OwnersKept
  <2>1. CASE UNCHANGED mutexes
    BY <1>2, <2>1
  <2>2. CASE ~ UNCHANGED mutexes
    <3>1. PICK i \in MutexSlots :
            FirstFreeMutex(i) /\ \E m : mutexes' = [mutexes EXCEPT ![i] = m]
      BY <1>3, <2>2 DEF CreateMutex, Refuse
    <3>2. \A j \in MutexSlots : SameMutex(j) => mutexes'[j] = mutexes[j]
      BY <1>1, <3>1 DEF SameMutex, FirstFreeMutex
    <3> QED
      BY <3>2 DEF OwnersKept
  <2> QED
    BY <2>1, <2>2
<1>4. ASSUME NEW i \in MutexSlots, OpenMutexSlot(i)
      PROVE  OwnersKept
  <2>1. \A j \in MutexSlots : mutexes'[j].owner = mutexes[j].owner
                               /\ mutexes'[j].abandoned = mutexes[j].abandoned
    BY <1>1, <1>4 DEF OpenMutexSlot, Refuse, MutexType
  <2> QED
    BY <2>1 DEF OwnersKept
<1>5. ASSUME NEW h \in MutexHandles, CloseMutex(h)
      PROVE  OwnersKept
  <2> DEFINE i == h.slot
  <2>1. i \in MutexSlots /\ mutexes[i] \in MutexType
    BY <1>1, <1>5, MutexOf DEF CloseMutex, OnMutex
  <2>2. CASE UNCHANGED mutexes
    BY <1>2, <2>2
  <2>3. CASE mutexes' = [mutexes EXCEPT ![i] = ClosedMutex(@)]
    <3> HIDE DEF i
    <3>1. /\ ClosedMutex(mutexes[i]).owner = mutexes[i].owner
          /\ ClosedMutex(mutexes[i]).abandoned = mutexes[i].abandoned
      BY <2>1 DEF ClosedMutex, MutexType
    <3>2. \A j \in MutexSlots : mutexes'[j].owner = mutexes[j].owner
                               /\ mutexes'[j].abandoned = mutexes[j].abandoned
      BY <1>1, <2>1, <2>3, <3>1
    <3> QED
      BY <3>2 DEF OwnersKept
  <2> QED
    BY <1>5, <2>2, <2>3 DEF CloseMutex, Refuse
<1> QED
  BY <1>2, <1>3, <1>4, <1>5

\* Only requests, releases and ends of threads change owners.
OwnersStep ==
    \/ ExitThread
    \/ \E h \in MutexHandles : ReleaseMutex(h) \/ \E timeout \in Timeouts : RequestMutex(h, timeout)

\* Owners change in three kinds of steps.
LEMMA OwnersChange ==
  ASSUME WInv, [Next]_vars
  PROVE  OwnersKept \/ OwnersStep
<1>0. (UNCHANGED mutexes => OwnersKept) /\ (ExitThread => OwnersStep)
  BY DEF OwnersKept, OwnersStep
<1>1. CASE ThreadCall
  <2>1. ThreadCall => ExitThread \/ UNCHANGED mutexes
    BY DEF ThreadCall, Sleep, CreateThread, WaitThread, ExitProcess
  <2> QED
    BY <1>0, <1>1, <2>1
<1>2. CASE MutexCall
  <2>1. \A name : OpenMutexNamed(name) =>
           UNCHANGED mutexes \/ \E i \in MutexSlots : OpenMutexSlot(i)
    BY DEF OpenMutexNamed, MutexNamed, Refuse
  <2>2. \A h \in MutexHandles : OpenMutex(h) => \E i \in MutexSlots : OpenMutexSlot(i)
    BY MutexOf DEF OpenMutex, OnMutex
  <2>3. \A h : BadHandle(h) => UNCHANGED mutexes
    BY DEF BadHandle, Refuse
  <2> QED
    BY <1>2, <2>1, <2>2, <2>3, OthersKeep DEF MutexCall, OwnersStep
<1>3. CASE EventCall
  <2>1. EventCall => UNCHANGED mutexes
    BY DEF EventCall, CreateEvent, OpenEventNamed, OpenEvent, OpenEventSlot, CloseEvent,
           ResetEvent, PostEvent, WaitEvent, BadHandle, Refuse
  <2> QED
    BY <1>0, <1>3, <2>1
<1>4. CASE Host
  <2>1. Host => UNCHANGED mutexes
    BY DEF Host, Schedule, ScheduleFails, DeadlinePasses
  <2> QED
    BY <1>0, <1>4, <2>1
<1>5. CASE UNCHANGED vars
  BY <1>0, <1>5 DEF vars
<1> QED
  BY <1>1, <1>2, <1>3, <1>4, <1>5 DEF Next, Ended

\* No step lets anybody overtake.
LEMMA NextInOrder ==
  ASSUME WInv, [Next]_vars
  PROVE  FifoStep
BY OwnersChange, NoNewOwner, ExitInOrder, RequestInOrder, ReleaseInOrder DEF OwnersStep

\* Whoever comes to own a mutex, by a request, by its release or by the end of its
\* owner, leaves no thread waiting that waited before (mutex_handoff,
\* sync_first_waiter).
THEOREM ServedInOrder == Spec => Fifo
<1>1. WInv /\ [Next]_vars => [FifoStep]_vars
  BY NextInOrder
<1> QED
  BY <1>1, Invariant, PTL DEF Spec, Fifo

-----------------------------------------------------------------------------
(***************************************************************************)
(* Requests tell the truth                                                 *)
(***************************************************************************)

\* Nobody starts or stops waiting for a mutex, and nobody dies.
Steady ==
    \A s \in Slots :
        /\ threads[s].state = "WAIT_MUTEX" => threads'[s] = threads[s]
        /\ threads'[s].state = "WAIT_MUTEX" => threads[s].state = "WAIT_MUTEX"
        /\ Live(threads[s]) => Live(threads'[s])

\* The caller starts to wait for a mutex.
Asks(h, timeout) ==
    /\ RequestMutex(h, timeout)
    /\ mutexes[h.slot].owner \notin {0, Me.tid}
    /\ Block("WAIT_MUTEX", h, timeout)
    /\ UNCHANGED mutexes

\* Nothing is to be told where nobody stops waiting.
LEMMA StillWaits ==
  Steady => WaitTellsTruth
BY DEF Steady, WaitTellsTruth

\* A mutex is handed on by a call: only its first waiter leaves the wait.
LEMMA HeirWoken ==
  ASSUME WInv, Guest, NEW i \in MutexSlots, NEW m
  PROVE  LET h == MutexHandle(i)
             f == FirstWaiter(threads, "WAIT_MUTEX", h)
             V == [HandedThreads(threads, m, h) EXCEPT ![current].rc = "NO_ERROR"]
         IN  /\ \A s \in Slots :
                   threads[s].state = "WAIT_MUTEX" /\ V[s].state # "WAIT_MUTEX" =>
                      s = f /\ Waiters(threads, "WAIT_MUTEX", h) # {}
             /\ Waiters(threads, "WAIT_MUTEX", h) # {} =>
                   /\ f \in Slots /\ f # current /\ threads[f].on = h
                   /\ Live(V[f]) /\ V[f].tid = threads[f].tid
                   /\ V[f].rc = IF m.abandoned THEN "SEM_OWNER_DIED" ELSE "NO_ERROR"
<1> DEFINE h == MutexHandle(i)
           U == HandedThreads(threads, m, h)
           V == [U EXCEPT ![current].rc = "NO_ERROR"]
           f == FirstWaiter(threads, "WAIT_MUTEX", h)
           W == Waiters(threads, "WAIT_MUTEX", h)
           code == IF m.abandoned THEN "SEM_OWNER_DIED" ELSE "NO_ERROR"
<1>1. threads \in [Slots -> ThreadType] /\ current \in Slots
      /\ threads[current].state = "RUNNING" /\ code \in Codes
  BY DEF WInv, TypeOK, OneRuns, Codes
<1>2. CASE W = {}
  <2>1. V = [threads EXCEPT ![current].rc = "NO_ERROR"]
    BY <1>2 DEF HandedThreads
  <2>2. \A s \in Slots \ {current} : V[s] = threads[s]
    BY <1>1, <2>1
  <2> HIDE DEF V
  <2>3. \A s \in Slots : threads[s].state = "WAIT_MUTEX" => V[s].state = "WAIT_MUTEX"
    BY <1>1, <2>2
  <2> QED
    BY <1>2, <2>3 DEF V
<1>3. CASE W # {}
  <2>1. f \in Slots /\ threads[f].state = "WAIT_MUTEX" /\ threads[f].on = h
    BY <1>1, <1>3, FirstWaiterIs
  <2>2. U = [threads EXCEPT ![f] = Ready(threads[f], code)]
    BY <1>1, <1>3, <2>1 DEF HandedThreads
  <2>3. f # current
    BY <1>1, <2>1
  <2> HIDE DEF U, f, h, code
  <2>4. V[f] = Ready(threads[f], code)
        /\ \A s \in Slots \ {current, f} : V[s] = threads[s]
    BY <1>1, <2>1, <2>2, <2>3
  <2> HIDE DEF V
  <2>5. Live(V[f]) /\ V[f].tid = threads[f].tid /\ V[f].rc = code
    <3>1. LET u == Ready(threads[f], code)
          IN  u.state = "RUNNABLE" /\ u.tid = threads[f].tid /\ u.rc = code
      BY <1>1, <2>1, ReadyFields
    <3> QED
      BY <2>4, <3>1 DEF Live, Gone
  <2>6. \A s \in Slots : threads[s].state = "WAIT_MUTEX" /\ V[s].state # "WAIT_MUTEX" => s = f
    BY <1>1, <2>4
  <2> QED
    BY <1>3, <2>1, <2>3, <2>5, <2>6 DEF V, U, f, h, code
<1> QED
  BY <1>2, <1>3

\* A thread ends: only the heirs of its mutexes leave their waits.
LEMMA HeirLeft ==
  ASSUME WInv, Guest
  PROVE  /\ \A s \in Slots :
               threads[s].state = "WAIT_MUTEX" /\ ThreadsLeft[s].state # "WAIT_MUTEX" => IsHeir(s)
         /\ \A s \in Slots : IsHeir(s) =>
               /\ s # current /\ threads[s].state = "WAIT_MUTEX"
               /\ Live(ThreadsLeft[s]) /\ ThreadsLeft[s].tid = threads[s].tid
               /\ ThreadsLeft[s].rc = "SEM_OWNER_DIED"
<1>1. /\ threads \in [Slots -> ThreadType] /\ current \in Slots
      /\ threads[current].state = "RUNNING"
  BY DEF WInv, TypeOK, OneRuns
<1>2. ASSUME NEW s \in Slots, threads[s].state = "WAIT_MUTEX",
             ThreadsLeft[s].state # "WAIT_MUTEX"
      PROVE  IsHeir(s)
  BY <1>1, <1>2 DEF ThreadsLeft, Awaits
<1>3. ASSUME NEW s \in Slots, IsHeir(s)
      PROVE  /\ s # current /\ threads[s].state = "WAIT_MUTEX"
             /\ Live(ThreadsLeft[s]) /\ ThreadsLeft[s].tid = threads[s].tid
             /\ ThreadsLeft[s].rc = "SEM_OWNER_DIED"
  <2>1. PICK i \in MutexSlots :
           /\ Waiters(threads, "WAIT_MUTEX", MutexHandle(i)) # {}
           /\ s = FirstWaiter(threads, "WAIT_MUTEX", MutexHandle(i))
    BY <1>3 DEF IsHeir
  <2>2. threads[s].state = "WAIT_MUTEX"
    BY <1>1, <2>1, FirstWaiterIs
  <2>3. s # current /\ ThreadsLeft[s] = Ready(threads[s], "SEM_OWNER_DIED")
    BY <1>1, <1>3, <2>2 DEF ThreadsLeft
  <2>4. threads[s] \in ThreadType /\ "SEM_OWNER_DIED" \in Codes
    BY <1>1 DEF Codes
  <2>5. LET u == Ready(threads[s], "SEM_OWNER_DIED")
        IN  u.state = "RUNNABLE" /\ u.tid = threads[s].tid /\ u.rc = "SEM_OWNER_DIED"
    BY <2>4, ReadyFields
  <2> QED
    BY <2>2, <2>3, <2>5 DEF Live, Gone
<1> QED
  BY <1>2, <1>3

\* Whoever a mutex is handed to owns it once.
LEMMA HandedOnce ==
  ASSUME NEW T, NEW h, NEW m \in MutexType, Waiters(T, "WAIT_MUTEX", h) # {}
  PROVE  LET n == HandedMutex(T, m, h)
         IN  /\ n.owner = T[FirstWaiter(T, "WAIT_MUTEX", h)].tid
             /\ n.count = 1
BY DEF HandedMutex, MutexType

\* A release tells its heir the truth.
LEMMA ReleaseHonest ==
  ASSUME WInv, NEW h \in MutexHandles, ReleaseMutex(h)
  PROVE  WaitTellsTruth
<1>1. Guest /\ IsMutex(h)
  BY DEF ReleaseMutex, OnMutex
<1> DEFINE i == h.slot
<1>2. i \in MutexSlots /\ mutexes[i].used /\ h = MutexHandle(i)
  BY <1>1, MutexOf
<1>3. mutexes \in [MutexSlots -> MutexType] /\ threads \in [Slots -> ThreadType]
      /\ current \in Slots /\ threads[current].state = "RUNNING"
  BY <1>1 DEF WInv, TypeOK, OneRuns
<1>4. ASSUME NEW code, Answer(code)
      PROVE  WaitTellsTruth
  <2>1. Steady
    BY <1>3, <1>4 DEF Answer, Steady, Live, ThreadType
  <2> QED
    BY <2>1, StillWaits
<1>5. ASSUME mutexes' = [mutexes EXCEPT ![i] = HandedMutex(threads,
                            [mutexes[i] EXCEPT !.owner = 0, !.count = 0], h)],
             threads' = [HandedThreads(threads,
                            [mutexes[i] EXCEPT !.owner = 0, !.count = 0], h)
                         EXCEPT ![current].rc = "NO_ERROR"]
      PROVE  WaitTellsTruth
  <2> HIDE DEF i
  <2> DEFINE m == [mutexes[i] EXCEPT !.owner = 0, !.count = 0]
             g == MutexHandle(i)
             f == FirstWaiter(threads, "WAIT_MUTEX", g)
             W == Waiters(threads, "WAIT_MUTEX", g)
  <2>1. m \in MutexType
    <3>1. 0 \in 0..MaxCount /\ mutexes[i] \in MutexType
      BY <1>2, <1>3, SyncAssumption
    <3> QED
      BY <3>1 DEF MutexType
  <2>2. mutexes'[i] = HandedMutex(threads, m, g)
    BY <1>2, <1>3, <1>5
  <2>3. threads' = [HandedThreads(threads, m, g) EXCEPT ![current].rc = "NO_ERROR"]
    BY <1>2, <1>5
  <2> HIDE DEF m
  <2>4. /\ \A s \in Slots :
             threads[s].state = "WAIT_MUTEX" /\ threads'[s].state # "WAIT_MUTEX" =>
                s = f /\ W # {}
        /\ W # {} => threads[f].on = g
                     /\ threads'[f].rc = IF m.abandoned THEN "SEM_OWNER_DIED" ELSE "NO_ERROR"
    BY <1>1, <1>2, <2>3, HeirWoken
  <2>5. W # {} => mutexes'[i].owner = threads[f].tid /\ mutexes'[i].count = 1
    BY <2>1, <2>2, HandedOnce
  <2>6. g.slot = i
    BY DEF MutexHandle, Handle
  <2> HIDE DEF f, W, g
  <2> QED
    BY <2>4, <2>5, <2>6 DEF WaitTellsTruth
<1> QED
  BY <1>4, <1>5 DEF ReleaseMutex, Refuse

\* So does the end of an owner.
LEMMA ExitHonest ==
  ASSUME WInv, ExitThread
  PROVE  WaitTellsTruth
<1>1. Guest /\ mutexes' = MutexesLeft /\ threads' = ThreadsLeft
  BY DEF ExitThread
<1> SUFFICES ASSUME NEW s \in Slots, threads[s].state = "WAIT_MUTEX",
                    threads'[s].state # "WAIT_MUTEX"
             PROVE  /\ threads'[s].rc # "SEM_TIMEOUT"
                    /\ mutexes'[threads[s].on.slot].owner = threads[s].tid
                    /\ mutexes'[threads[s].on.slot].count = 1
  BY DEF WaitTellsTruth
<1>2. mutexes \in [MutexSlots -> MutexType] /\ threads \in [Slots -> ThreadType]
  BY DEF WInv, TypeOK
<1>3. IsHeir(s) /\ threads'[s].rc = "SEM_OWNER_DIED"
  BY <1>1, HeirLeft
<1>4. PICK i \in MutexSlots :
         /\ Orphaned(i)
         /\ Waiters(threads, "WAIT_MUTEX", MutexHandle(i)) # {}
         /\ s = FirstWaiter(threads, "WAIT_MUTEX", MutexHandle(i))
  BY <1>3 DEF IsHeir
<1>5. threads[s].on = MutexHandle(i)
  BY <1>2, <1>4, FirstWaiterIs
<1>6. threads[s].on.slot = i
  BY <1>5 DEF MutexHandle, Handle
<1>7. mutexes'[i] = HandedMutex(threads, Orphan(mutexes[i]), MutexHandle(i))
  BY <1>1, <1>4 DEF MutexesLeft
<1>8. Orphan(mutexes[i]) \in MutexType
  BY <1>2, OrphanFields
<1>9. mutexes'[i].owner = threads[s].tid /\ mutexes'[i].count = 1
  BY <1>4, <1>7, <1>8, HandedOnce
<1> QED
  BY <1>3, <1>6, <1>9

\* A deadline tells of itself.
LEMMA DeadlineHonest ==
  ASSUME WInv, NEW s \in Slots, DeadlinePasses(s)
  PROVE  WaitTellsTruth
<1>1. threads \in [Slots -> ThreadType] /\ UNCHANGED mutexes /\ threads[s].timed
  BY DEF WInv, TypeOK, DeadlinePasses
<1>2. \A r \in Slots \ {s} : threads'[r] = threads[r]
  BY <1>1 DEF DeadlinePasses
<1>3. threads[s].state = "WAIT_MUTEX" => threads'[s].rc = "SEM_TIMEOUT"
  <2> SUFFICES ASSUME threads[s].state = "WAIT_MUTEX"
               PROVE  threads'[s].rc = "SEM_TIMEOUT"
    OBVIOUS
  <2>1. threads'[s] = Ready(threads[s], "SEM_TIMEOUT")
    BY <1>1 DEF DeadlinePasses
  <2>2. threads[s] \in ThreadType /\ "SEM_TIMEOUT" \in Codes
    BY <1>1 DEF Codes
  <2> QED
    BY <2>1, <2>2, ReadyFields
<1> QED
  BY <1>1, <1>2, <1>3 DEF WaitTellsTruth

\* Calls that only answer.
LEMMA AnswerSteady ==
  ASSUME WInv, Guest, NEW code, Answer(code)
  PROVE  Steady
<1>1. /\ threads \in [Slots -> ThreadType] /\ current \in Slots
      /\ threads[current].state = "RUNNING"
  BY DEF WInv, TypeOK, OneRuns
<1>2. threads'[current].state = "RUNNING" /\ \A s \in Slots \ {current} : threads'[s] = threads[s]
  BY <1>1 DEF Answer, ThreadType
<1> QED
  BY <1>1, <1>2 DEF Steady, Live, Gone

\* Calls that park the caller, or yield.
LEMMA SwitchSteady ==
  ASSUME WInv, Guest, NEW u, Live(u), u.state # "WAIT_MUTEX",
         SwitchTo([threads EXCEPT ![current] = u])
  PROVE  Steady
<1>1. threads \in [Slots -> ThreadType] /\ current \in Slots
      /\ threads[current].state = "RUNNING"
  BY DEF WInv, TypeOK, OneRuns
<1>2. threads'[current] = u /\ \A s \in Slots \ {current} : threads'[s] = threads[s]
  BY <1>1 DEF SwitchTo
<1> QED
  BY <1>1, <1>2 DEF Steady

\* A slot in which no thread lives is filled or freed.
LEMMA SlotSteady ==
  ASSUME WInv, Guest, NEW s \in Slots, ~ Live(threads[s]), NEW u, NEW code,
         u.state # "WAIT_MUTEX",
         threads' = [threads EXCEPT ![s] = u, ![current].rc = code]
  PROVE  Steady
<1>1. /\ threads \in [Slots -> ThreadType] /\ current \in Slots
      /\ threads[s].state # "WAIT_MUTEX" /\ s # current
      /\ threads[current].state # "WAIT_MUTEX"
  BY MeRuns DEF WInv, TypeOK, Live, Gone, Me
<1>2. /\ threads'[current].state = threads[current].state
      /\ threads'[s] = u
      /\ \A r \in Slots \ {s, current} : threads'[r] = threads[r]
  BY <1>1 DEF ThreadType
<1> QED
  BY <1>1, <1>2 DEF Steady, Live

\* The calls about threads.
LEMMA ThreadCallSteady ==
  ASSUME WInv, ThreadCall
  PROVE  Steady \/ ExitThread
<1>1. ASSUME NEW timeout \in Timeouts, Sleep(timeout)
      PROVE  Steady
  <2>1. Guest /\ Me \in ThreadType
    BY <1>1, MeRuns DEF Sleep
  <2>2. \E u : /\ Live(u) /\ u.state # "WAIT_MUTEX"
               /\ SwitchTo([threads EXCEPT ![current] = u])
    <3>1. CASE SwitchTo([threads EXCEPT ![current].state = "RUNNABLE",
                                        ![current].rc = "NO_ERROR"])
      <4> DEFINE u == [Me EXCEPT !.state = "RUNNABLE", !.rc = "NO_ERROR"]
      <4>1. u.state = "RUNNABLE"
        BY <2>1 DEF ThreadType
      <4>2. [threads EXCEPT ![current].state = "RUNNABLE", ![current].rc = "NO_ERROR"]
               = [threads EXCEPT ![current] = u]
        BY DEF WInv, TypeOK, Me
      <4> HIDE DEF u
      <4> QED
        BY <3>1, <4>1, <4>2 DEF Live, Gone
    <3>2. CASE Block("SLEEP", NoHandle, timeout)
      <4> DEFINE u == Parked(Me, "SLEEP", NoHandle, timeout, waitSerial + 1)
      <4>1. u.state = "SLEEP"
        BY <2>1 DEF Parked, ThreadType
      <4>2. SwitchTo([threads EXCEPT ![current] = u])
        BY <3>2 DEF Block, Me
      <4> HIDE DEF u
      <4> QED
        BY <4>1, <4>2 DEF Live, Gone
    <3> QED
      BY <1>1, <3>1, <3>2 DEF Sleep
  <2> QED
    BY <2>1, <2>2, SwitchSteady
<1>2. ASSUME NEW suspended \in BOOLEAN, CreateThread(suspended)
      PROVE  Steady
  <2>1. Guest
    BY <1>2 DEF CreateThread
  <2>2. \/ Answer("ERROR")
        \/ \E s \in Slots : \E u, code :
              /\ ~ Live(threads[s]) /\ u.state # "WAIT_MUTEX"
              /\ threads' = [threads EXCEPT ![s] = u, ![current].rc = code]
    <3>1. nextTid \in Nat
      BY DEF WInv, TypeOK
    <3>2. ZeroThread.state # "WAIT_MUTEX" /\ NewThread(nextTid, suspended).state # "WAIT_MUTEX"
      BY <3>1, ZeroFields, NewFields
    <3> QED
      BY <1>2, <3>2 DEF CreateThread
  <2> QED
    BY <2>1, <2>2, AnswerSteady, SlotSteady
<1>3. ASSUME NEW tid \in 0..nextTid, NEW nowait \in BOOLEAN, WaitThread(tid, nowait)
      PROVE  Steady
  <2>1. Guest /\ Me \in ThreadType
    BY <1>3, MeRuns DEF WaitThread
  <2>2. \/ \E code : Answer(code)
        \/ \E s \in Slots : /\ ~ Live(threads[s])
                            /\ threads' = [threads EXCEPT ![s] = ZeroThread,
                                                          ![current].rc = "NO_ERROR"]
        \/ SwitchTo([threads EXCEPT ![current].state = "WAIT_THREAD",
                                    ![current].waitTid = tid,
                                    ![current].rc = "NO_ERROR"])
    BY <1>3 DEF WaitThread, Live, Gone
  <2>3. CASE SwitchTo([threads EXCEPT ![current].state = "WAIT_THREAD",
                                      ![current].waitTid = tid,
                                      ![current].rc = "NO_ERROR"])
    <3> DEFINE u == [Me EXCEPT !.state = "WAIT_THREAD", !.waitTid = tid, !.rc = "NO_ERROR"]
    <3>1. u.state = "WAIT_THREAD"
      BY <2>1 DEF ThreadType
    <3>2. [threads EXCEPT ![current].state = "WAIT_THREAD", ![current].waitTid = tid,
                          ![current].rc = "NO_ERROR"]
             = [threads EXCEPT ![current] = u]
      BY DEF WInv, TypeOK, Me
    <3> HIDE DEF u
    <3> QED
      BY <2>1, <2>3, <3>1, <3>2, SwitchSteady DEF Live, Gone
  <2>4. ZeroThread.state # "WAIT_MUTEX"
    BY ZeroFields
  <2> QED
    BY <2>1, <2>2, <2>3, <2>4, AnswerSteady, SlotSteady
<1>4. ExitProcess => Steady
  BY DEF ExitProcess, Steady
<1> QED
  BY <1>1, <1>2, <1>3, <1>4 DEF ThreadCall

\* A request parks its caller or answers.
LEMMA RequestSteady ==
  ASSUME WInv, NEW h \in MutexHandles, NEW timeout \in Timeouts, RequestMutex(h, timeout)
  PROVE  Steady \/ Asks(h, timeout)
<1>1. Guest
  BY DEF RequestMutex, OnMutex
<1>2. CASE \E code : Answer(code)
  BY <1>1, <1>2, AnswerSteady
<1> QED
  BY <1>2 DEF RequestMutex, Refuse, Asks

\* It parks nobody else.
LEMMA AskParks ==
  ASSUME WInv, NEW h \in MutexHandles, NEW timeout \in Timeouts, Asks(h, timeout)
  PROVE  /\ current \in Slots /\ threads[current].state = "RUNNING"
         /\ threads'[current] = Parked(Me, "WAIT_MUTEX", h, timeout, waitSerial + 1)
         /\ threads'[current].state = "WAIT_MUTEX"
         /\ \A s \in Slots \ {current} : threads'[s] = threads[s]
<1>1. Guest
  BY DEF Asks, RequestMutex, OnMutex
<1>2. /\ threads \in [Slots -> ThreadType] /\ current \in Slots /\ Me \in ThreadType
      /\ threads[current].state = "RUNNING"
  BY <1>1, MeRuns DEF WInv, TypeOK, Me
<1>3. /\ threads'[current] = Parked(Me, "WAIT_MUTEX", h, timeout, waitSerial + 1)
      /\ \A s \in Slots \ {current} : threads'[s] = threads[s]
  BY <1>2 DEF Asks, Block, SwitchTo, Me
<1>4. Parked(Me, "WAIT_MUTEX", h, timeout, waitSerial + 1).state = "WAIT_MUTEX"
  BY <1>2 DEF Parked, ThreadType
<1> QED
  BY <1>2, <1>3, <1>4

\* Whoever starts to wait ends nobody's wait.
LEMMA AskHonest ==
  ASSUME WInv, NEW h \in MutexHandles, NEW timeout \in Timeouts, Asks(h, timeout)
  PROVE  WaitTellsTruth
BY AskParks DEF WaitTellsTruth

\* The calls about mutexes.
LEMMA MutexCallSteady ==
  ASSUME WInv, MutexCall
  PROVE  \/ Steady
         \/ \E h \in MutexHandles : ReleaseMutex(h)
         \/ \E h \in MutexHandles, timeout \in Timeouts : Asks(h, timeout)
<1>1. MutexCall => \/ \E code : Guest /\ Answer(code)
                   \/ \E h \in MutexHandles, timeout \in Timeouts : RequestMutex(h, timeout)
                   \/ \E h \in MutexHandles : ReleaseMutex(h)
  BY DEF MutexCall, CreateMutex, OpenMutexNamed, OpenMutexSlot, OpenMutex, OnMutex, CloseMutex,
         BadHandle, Refuse
<1> QED
  BY <1>1, AnswerSteady, RequestSteady

\* The calls about events.
LEMMA EventCallSteady ==
  ASSUME WInv, EventCall
  PROVE  Steady
<1>1. ASSUME NEW code, Guest, Answer(code)
      PROVE  Steady
  BY <1>1, AnswerSteady
<1>2. ASSUME NEW name, NEW posted, CreateEvent(name, posted) \/ OpenEventNamed(name)
      PROVE  Steady
  BY <1>1, <1>2 DEF CreateEvent, OpenEventNamed, OpenEventSlot, Refuse
<1>3. ASSUME NEW h \in EventHandles,
             OpenEvent(h) \/ CloseEvent(h) \/ ResetEvent(h) \/ BadHandle(h)
      PROVE  Steady
  BY <1>1, <1>3 DEF OpenEvent, OnEvent, OpenEventSlot, CloseEvent, ResetEvent, BadHandle, Refuse
<1>4. ASSUME NEW h \in EventHandles, PostEvent(h)
      PROVE  Steady
  <2>1. /\ threads \in [Slots -> ThreadType] /\ current \in Slots /\ "NO_ERROR" \in Codes
        /\ threads[current].state = "RUNNING"
    BY <1>4, MeRuns DEF WInv, TypeOK, Codes, Me, PostEvent, OnEvent
  <2> DEFINE T == EventAwakens(threads, h)
  <2>2. ASSUME NEW s \in Slots
        PROVE  /\ threads[s].state = "WAIT_MUTEX" => T[s] = threads[s]
               /\ T[s].state = "WAIT_MUTEX" => threads[s].state = "WAIT_MUTEX"
               /\ Live(threads[s]) => Live(T[s])
               /\ T[s] \in ThreadType
    <3>1. CASE Waits(threads[s], "WAIT_EVENT", h)
      <4>1. T[s] = Ready(threads[s], "NO_ERROR") /\ threads[s].state = "WAIT_EVENT"
        BY <3>1 DEF EventAwakens, Waits
      <4>2. T[s] \in ThreadType /\ T[s].state = "RUNNABLE"
        BY <2>1, <4>1, ReadyFields
      <4> QED
        BY <4>1, <4>2 DEF Live, Gone
    <3>2. CASE ~ Waits(threads[s], "WAIT_EVENT", h)
      <4>1. T[s] = threads[s]
        BY <3>2 DEF EventAwakens
      <4> QED
        BY <2>1, <4>1
    <3> QED
      BY <3>1, <3>2
  <2>3. \E code : threads' = [T EXCEPT ![current].rc = code]
    BY <1>4 DEF PostEvent
  <2>4. T = [s \in Slots |-> T[s]]
    BY DEF EventAwakens
  <2> HIDE DEF T
  <2>5. /\ \A s \in Slots : threads'[s].state = T[s].state
        /\ \A s \in Slots \ {current} : threads'[s] = T[s]
    BY <2>1, <2>2, <2>3, <2>4 DEF ThreadType
  <2> QED
    BY <2>1, <2>2, <2>5 DEF Steady, Live
<1>5. ASSUME NEW h \in EventHandles, NEW timeout \in Timeouts, WaitEvent(h, timeout)
      PROVE  Steady
  <2>1. Guest /\ Me \in ThreadType
    BY <1>5, MeRuns DEF WaitEvent, OnEvent
  <2>2. CASE SwitchTo([threads EXCEPT ![current] = Parked(@, "WAIT_EVENT", h, timeout, 0)])
    <3> DEFINE u == Parked(Me, "WAIT_EVENT", h, timeout, 0)
    <3>1. u.state = "WAIT_EVENT"
      BY <2>1 DEF Parked, ThreadType
    <3>2. SwitchTo([threads EXCEPT ![current] = u])
      BY <2>2 DEF Me
    <3> HIDE DEF u
    <3> QED
      BY <2>1, <3>1, <3>2, SwitchSteady DEF Live, Gone
  <2> QED
    BY <1>1, <1>5, <2>1, <2>2 DEF WaitEvent, Refuse
<1> QED
  BY <1>2, <1>3, <1>4, <1>5 DEF EventCall

\* The scheduler.
LEMMA ScheduleSteady ==
  ASSUME WInv, Schedule \/ ScheduleFails
  PROVE  Steady
<1>1. CASE Schedule
  <2>1. \A n \in 1..NThreads : After(n) \in Slots
    BY SyncAssumption DEF WInv, TypeOK, Slots, After
  <2>2. PICK r \in Slots : /\ threads[r].state = "RUNNABLE"
                           /\ threads' = [threads EXCEPT ![r].state = "RUNNING"]
    BY <1>1, <2>1 DEF Schedule, Runnable
  <2>3. threads \in [Slots -> ThreadType]
    BY DEF WInv, TypeOK
  <2>4. threads'[r].state = "RUNNING" /\ \A s \in Slots \ {r} : threads'[s] = threads[s]
    BY <2>2, <2>3 DEF ThreadType
  <2> QED
    BY <2>2, <2>4 DEF Steady, Live, Gone
<1>2. CASE ScheduleFails
  BY <1>2 DEF ScheduleFails, Steady
<1> QED
  BY <1>1, <1>2

\* Waits for mutexes end, and threads do, in no other steps than these.
LEMMA NextSteady ==
  ASSUME WInv, [Next]_vars
  PROVE  \/ Steady
         \/ ExitThread
         \/ \E h \in MutexHandles : ReleaseMutex(h)
         \/ \E s \in Slots : DeadlinePasses(s)
         \/ \E h \in MutexHandles, timeout \in Timeouts : Asks(h, timeout)
<1>1. UNCHANGED vars => Steady
  BY DEF vars, Steady
<1> QED
  BY <1>1, ThreadCallSteady, MutexCallSteady, EventCallSteady, ScheduleSteady
     DEF Next, Host, Ended

\* Every wait ends with the truth.
LEMMA NextHonest ==
  ASSUME WInv, [Next]_vars
  PROVE  WaitTellsTruth
BY NextSteady, StillWaits, AskHonest, ExitHonest, ReleaseHonest, DeadlineHonest

\* A thread leaves the wait for a mutex as its owner, or after its finite timeout and
\* without it (mutex_handoff, wake_expired_waiters, mutex_owner_exit).
THEOREM RequestsHonest == Spec => RequestHonest
<1>1. WInv /\ [Next]_vars => [WaitTellsTruth]_vars
  BY NextHonest
<1> QED
  BY <1>1, Invariant, PTL DEF Spec, RequestHonest

-----------------------------------------------------------------------------
(***************************************************************************)
(* The end of an owner is told                                             *)
(***************************************************************************)

\* A mutex that keeps its owner, who lives on.
LEMMA KeptTold ==
  ASSUME WInv, NEW i \in MutexSlots, mutexes[i].used, ~ OwnerDiesIn(i),
         mutexes'[i].owner = mutexes[i].owner, mutexes'[i].abandoned = mutexes[i].abandoned
  PROVE  EndTold(i)
<1>1. mutexes[i].abandoned \in BOOLEAN
  BY DEF WInv, TypeOK, MutexType
<1>2. mutexes[i].abandoned => mutexes[i].owner = 0
  BY DEF WInv, Sound, Owners, OwnerOK
<1>3. CASE mutexes[i].owner = 0
  BY <1>1, <1>3 DEF EndTold
<1>4. CASE mutexes[i].owner # 0
  BY <1>1, <1>2, <1>4 DEF EndTold
<1> QED
  BY <1>3, <1>4

\* Nobody dies.
LEMMA NobodyDies ==
  ASSUME \A s \in Slots : Live(threads[s]) => Live(threads'[s])
  PROVE  \A i \in MutexSlots : ~ OwnerDiesIn(i)
BY DEF OwnerDiesIn

\* Nothing is told where owners and threads stay.
LEMMA OwnersKeptTold ==
  ASSUME WInv, OwnersKept, \A s \in Slots : Live(threads[s]) => Live(threads'[s])
  PROVE  DeathTold
BY KeptTold, NobodyDies DEF DeathTold, OwnersKept, SameMutex

\* A free mutex is taken: its new owner learns whether the last one died.
LEMMA RequestTold ==
  ASSUME WInv, NEW h \in MutexHandles, NEW timeout \in Timeouts, RequestMutex(h, timeout)
  PROVE  DeathTold
<1>1. Guest /\ IsMutex(h)
  BY DEF RequestMutex, OnMutex
<1> DEFINE i == h.slot
<1>2. i \in MutexSlots /\ mutexes[i].used
  BY <1>1, MutexOf
<1>3. mutexes \in [MutexSlots -> MutexType] /\ threads \in [Slots -> ThreadType]
  BY DEF WInv, TypeOK
<1>4. \A s \in Slots : Live(threads[s]) => Live(threads'[s])
  <2>1. Asks(h, timeout) => \A s \in Slots : Live(threads[s]) => Live(threads'[s])
    BY AskParks DEF Live, Gone
  <2> QED
    BY <2>1, RequestSteady DEF Steady
<1>5. CASE \/ UNCHANGED mutexes
           \/ mutexes' = [mutexes EXCEPT ![i].count = @ + 1]
  <2> HIDE DEF i
  <2>1. OwnersKept
    BY <1>2, <1>3, <1>5 DEF OwnersKept, MutexType
  <2> QED
    BY <1>4, <2>1, OwnersKeptTold
<1>6. CASE /\ mutexes[i].owner = 0
           /\ mutexes' = [mutexes EXCEPT ![i].owner = Me.tid, ![i].count = 1,
                                         ![i].abandoned = FALSE]
           /\ Answer(IF mutexes[i].abandoned THEN "SEM_OWNER_DIED" ELSE "NO_ERROR")
  <2> HIDE DEF i
  <2>1. /\ current \in Slots /\ Live(Me) /\ Me.tid # 0 /\ Me \in ThreadType
    BY <1>1, MeRuns
  <2>2. mutexes'[i].owner = Me.tid /\ \A j \in MutexSlots \ {i} : mutexes'[j] = mutexes[j]
    BY <1>2, <1>3, <1>6 DEF MutexType
  <2>3. /\ threads'[current].tid = Me.tid
        /\ threads'[current].rc = IF mutexes[i].abandoned THEN "SEM_OWNER_DIED" ELSE "NO_ERROR"
    BY <1>3, <1>6, <2>1 DEF Answer, Me, ThreadType
  <2>4. Live(threads'[current])
    BY <1>4, <2>1 DEF Me
  <2>5. mutexes[i].abandoned \in BOOLEAN /\ ~ OwnerDiesIn(i)
    BY <1>2, <1>3, <1>4, NobodyDies DEF MutexType
  <2>6. EndTold(i)
    <3>1. threads'[current].rc = "SEM_OWNER_DIED"
             <=> (mutexes[i].abandoned \/ OwnerDiesIn(i))
      BY <2>3, <2>5
    <3> QED
      BY <1>6, <2>1, <2>2, <2>3, <2>4, <3>1 DEF EndTold
  <2>7. \A j \in MutexSlots \ {i} : SameMutex(j) => EndTold(j)
    BY <1>4, <2>2, KeptTold, NobodyDies DEF SameMutex
  <2> QED
    BY <2>6, <2>7 DEF DeathTold
<1> QED
  BY <1>5, <1>6 DEF RequestMutex, Refuse

\* A mutex is handed on by its owner, who lives.
LEMMA ReleaseTold ==
  ASSUME WInv, NEW h \in MutexHandles, ReleaseMutex(h)
  PROVE  DeathTold
<1>1. Guest /\ IsMutex(h)
  BY DEF ReleaseMutex, OnMutex
<1> DEFINE i == h.slot
<1>2. i \in MutexSlots /\ mutexes[i].used /\ h = MutexHandle(i)
  BY <1>1, MutexOf
<1>3. /\ mutexes \in [MutexSlots -> MutexType] /\ threads \in [Slots -> ThreadType]
      /\ Tids(threads, nextTid) /\ TypeOK
  BY DEF WInv, TypeOK, Sound
<1>4. ASSUME NEW code, Answer(code),
             \/ UNCHANGED mutexes
             \/ mutexes' = [mutexes EXCEPT ![i].count = @ - 1]
      PROVE  DeathTold
  <2>1. OwnersKept
    <3> HIDE DEF i
    <3> QED
      BY <1>2, <1>3, <1>4 DEF OwnersKept, MutexType
  <2>2. Steady
    BY <1>1, <1>4, AnswerSteady
  <2> QED
    BY <2>1, <2>2, OwnersKeptTold DEF Steady
<1>5. ASSUME mutexes[i].owner = Me.tid,
             mutexes' = [mutexes EXCEPT ![i] = HandedMutex(threads,
                            [mutexes[i] EXCEPT !.owner = 0, !.count = 0], h)],
             threads' = [HandedThreads(threads,
                            [mutexes[i] EXCEPT !.owner = 0, !.count = 0], h)
                         EXCEPT ![current].rc = "NO_ERROR"]
      PROVE  DeathTold
  <2> HIDE DEF i
  <2> DEFINE m == [mutexes[i] EXCEPT !.owner = 0, !.count = 0]
             g == MutexHandle(i)
             f == FirstWaiter(threads, "WAIT_MUTEX", g)
             W == Waiters(threads, "WAIT_MUTEX", g)
  <2>1. ~ mutexes[i].abandoned
    <3>1. Me.tid # 0
      BY <1>1, MeRuns
    <3> QED
      BY <1>2, <1>5, <3>1 DEF WInv, Sound, Owners, OwnerOK
  <2>2. /\ m \in MutexType /\ m.owner = 0 /\ m.count = 0 /\ m.used
        /\ m.generation = mutexes[i].generation /\ m.abandoned = mutexes[i].abandoned
    <3>1. 0 \in 0..MaxCount /\ mutexes[i] \in MutexType
      BY <1>2, <1>3, SyncAssumption
    <3> QED
      BY <1>2, <3>1 DEF MutexType
  <2>3. mutexes'[i] = HandedMutex(threads, m, g)
        /\ \A j \in MutexSlots \ {i} : mutexes'[j] = mutexes[j]
    BY <1>2, <1>3, <1>5
  <2>4. threads' = [HandedThreads(threads, m, g) EXCEPT ![current].rc = "NO_ERROR"]
    BY <1>2, <1>5
  <2> HIDE DEF m
  <2>5. \A s \in Slots : Live(threads[s]) => Live(threads'[s])
    BY <1>1, <1>2, <2>4, WokenHeir DEF Mild, Kept
  <2>6. W # {} => /\ f \in Slots /\ f # current
                  /\ Live(threads'[f]) /\ threads'[f].tid = threads[f].tid
                  /\ threads'[f].rc = "NO_ERROR"
    BY ZenonT(30), <1>1, <1>2, <2>1, <2>2, <2>4, HeirWoken
  <2>7. W # {} => mutexes'[i].owner = threads[f].tid /\ mutexes'[i].owner # 0
                  /\ threads[f].state = "WAIT_MUTEX"
    BY <1>2, <1>3, <2>2, <2>3, Handed
  <2>8. EndTold(i)
    <3>1. ~ OwnerDiesIn(i)
      BY <1>2, <2>5, NobodyDies
    <3>2. CASE W = {}
      <4>1. mutexes'[i] = m
        BY <2>3, <3>2 DEF HandedMutex
      <4>2. m.abandoned = FALSE /\ mutexes[i].abandoned = FALSE
        BY <2>1, <2>2 DEF MutexType
      <4> QED
        BY <2>2, <3>1, <4>1, <4>2 DEF EndTold
    <3>3. CASE W # {}
      <4> HIDE DEF W, f, g
      <4>1. threads[f].tid # Me.tid
        <5>1. current \in Slots /\ Me.state = "RUNNING"
          BY <1>1, MeRuns
        <5> QED
          BY <1>3, <2>6, <2>7, <3>3, <5>1 DEF Tids, Me
      <4> QED
        BY <1>5, <2>1, <2>6, <2>7, <3>1, <3>3, <4>1 DEF EndTold
    <3> QED
      BY <3>2, <3>3
  <2>9. \A j \in MutexSlots \ {i} : SameMutex(j) => EndTold(j)
    BY <2>3, <2>5, KeptTold, NobodyDies DEF SameMutex
  <2> QED
    BY <2>8, <2>9 DEF DeathTold
<1> QED
  BY <1>4, <1>5 DEF ReleaseMutex, Refuse

\* The owner of mutexes ends.
LEMMA ExitTold ==
  ASSUME WInv, ExitThread
  PROVE  DeathTold
<1>1. Guest /\ mutexes' = MutexesLeft /\ threads' = ThreadsLeft
  BY DEF ExitThread
<1>2. /\ mutexes \in [MutexSlots -> MutexType] /\ threads \in [Slots -> ThreadType]
      /\ Tids(threads, nextTid) /\ TypeOK
  BY DEF WInv, TypeOK, Sound
<1>3. /\ current \in Slots /\ Live(Me) /\ Me.state = "RUNNING" /\ Me.tid # 0
  BY <1>1, MeRuns
<1>4. ~ Live(threads'[current])
      /\ \A s \in Slots \ {current} : Live(threads[s]) => Live(threads'[s])
  BY <1>1, OthersLeft DEF Live, Mild, Kept
<1>5. ASSUME NEW i \in MutexSlots, SameMutex(i), ~ Orphaned(i)
      PROVE  EndTold(i)
  <2>1. mutexes'[i] = mutexes[i]
    BY <1>1, <1>5 DEF MutexesLeft
  <2>2. ~ OwnerDiesIn(i)
    BY <1>4, <1>5 DEF OwnerDiesIn, Orphaned, SameMutex, Me
  <2> QED
    BY <1>5, <2>1, <2>2, KeptTold DEF SameMutex
<1>6. ASSUME NEW i \in MutexSlots, Orphaned(i)
      PROVE  EndTold(i)
  <2> DEFINE m == Orphan(mutexes[i])
             g == MutexHandle(i)
             f == FirstWaiter(threads, "WAIT_MUTEX", g)
             W == Waiters(threads, "WAIT_MUTEX", g)
  <2>1. mutexes[i].owner = Me.tid /\ mutexes[i].used /\ mutexes[i] \in MutexType
    BY <1>2, <1>6 DEF Orphaned
  <2>2. OwnerDiesIn(i)
    BY <1>3, <1>4, <2>1 DEF OwnerDiesIn, Me
  <2>3. /\ m \in MutexType /\ m.owner = 0 /\ m.count = 0 /\ m.used
        /\ m.generation = mutexes[i].generation
    BY <2>1, OrphanFields
  <2>4. m.abandoned = TRUE
    BY <2>1 DEF Orphan, MutexType
  <2>5. mutexes'[i] = HandedMutex(threads, m, g)
    BY <1>1, <1>6 DEF MutexesLeft
  <2> HIDE DEF m
  <2>6. CASE W = {}
    <3>1. mutexes'[i] = m
      BY <2>5, <2>6 DEF HandedMutex
    <3> QED
      BY <2>2, <2>3, <2>4, <3>1 DEF EndTold
  <2>7. CASE W # {}
    <3>1. f \in Slots /\ IsHeir(f)
      BY <1>2, <1>6, <2>7, FirstWaiterIs DEF IsHeir
    <3>2. mutexes'[i].owner = threads[f].tid /\ mutexes'[i].owner # 0
      BY <1>2, <2>3, <2>5, <2>7, Handed
    <3> HIDE DEF f, W, g
    <3>3. /\ f # current /\ threads[f].state = "WAIT_MUTEX"
          /\ Live(threads'[f]) /\ threads'[f].tid = threads[f].tid
          /\ threads'[f].rc = "SEM_OWNER_DIED"
      BY <1>1, <3>1, HeirLeft
    <3>4. threads[f].tid # Me.tid
      BY <1>2, <1>3, <3>1, <3>3 DEF Tids, Me
    <3> QED
      BY <2>1, <2>2, <3>1, <3>2, <3>3, <3>4 DEF EndTold
  <2> QED
    BY <2>6, <2>7
<1> QED
  BY <1>5, <1>6 DEF DeathTold

\* A wait that ends at its deadline ends no thread.
LEMMA DeadlineLives ==
  ASSUME WInv, NEW s \in Slots, DeadlinePasses(s)
  PROVE  \A r \in Slots : Live(threads[r]) => Live(threads'[r])
<1>1. threads \in [Slots -> ThreadType]
  BY DEF WInv, TypeOK
<1>2. PICK code \in Codes : threads' = [threads EXCEPT ![s] = Ready(threads[s], code)]
  BY DEF DeadlinePasses, Codes
<1>3. LET u == Ready(threads[s], code) IN u.state = "RUNNABLE"
  BY <1>1, ReadyFields
<1>4. threads'[s].state = "RUNNABLE" /\ \A r \in Slots \ {s} : threads'[r] = threads[r]
  BY <1>1, <1>2, <1>3
<1> QED
  BY <1>4 DEF Live, Gone

\* Every step reports the end of an owner, or none.
LEMMA NextTold ==
  ASSUME WInv, [Next]_vars
  PROVE  DeathTold
<1>1. CASE OwnersStep
  BY <1>1, ExitTold, ReleaseTold, RequestTold DEF OwnersStep
<1>2. CASE OwnersKept
  <2>1. CASE Steady
    BY <1>2, <2>1, OwnersKeptTold DEF Steady
  <2>2. ASSUME NEW s \in Slots, DeadlinePasses(s)
        PROVE  DeathTold
    BY <1>2, <2>2, OwnersKeptTold, DeadlineLives
  <2> QED
    BY <2>1, <2>2, NextSteady, ExitTold, ReleaseTold, RequestTold DEF Asks
<1> QED
  BY <1>1, <1>2, OwnersChange

\* The end of an owner is told to the next owner, waiting already or not, and to nobody
\* else (mutex_owner_exit, mutex_handoff, dispatch_mutex).
THEOREM OwnersDeathTold == Spec => OwnerDeathTold
<1>1. WInv /\ [Next]_vars => [DeathTold]_vars
  BY NextTold
<1> QED
  BY <1>1, Invariant, PTL DEF Spec, OwnerDeathTold

-----------------------------------------------------------------------------
(***************************************************************************)
(* Waits that end elsewhere                                                *)
(***************************************************************************)

\* What WhpProcess and WhpQueue add: threads parked there.
Elsewhere == {"WAIT_QUEUE", "WAIT_PROCESS"}

\* No thread is parked there, or leaves, or is changed while it is.
Aside ==
    \A s \in Slots :
        threads[s].state \in Elsewhere \/ threads'[s].state \in Elsewhere =>
            threads'[s] = threads[s]

\* The current thread changes, and at most one other slot.
LEMMA CurrentAside ==
  ASSUME WInv, Guest, threads' \in [Slots -> ThreadType],
         threads'[current].state \notin Elsewhere,
         \A s \in Slots \ {current} :
             \/ threads'[s] = threads[s]
             \/ threads[s].state \notin Elsewhere /\ threads'[s].state \notin Elsewhere
  PROVE  Aside
<1>1. threads[current].state = "RUNNING"
  BY DEF WInv, OneRuns
<1> QED
  BY <1>1 DEF Aside, Elsewhere

\* A call that answers leaves the others alone.
LEMMA AnswerAside ==
  ASSUME WInv, Guest, NEW code, Answer(code)
  PROVE  Aside
<1>1. threads \in [Slots -> ThreadType] /\ current \in Slots
      /\ threads[current].state = "RUNNING"
  BY DEF WInv, TypeOK, OneRuns
<1>2. threads' = [threads EXCEPT ![current].rc = code]
  BY DEF Answer
<1>3. threads'[current].state = "RUNNING"
      /\ \A s \in Slots \ {current} : threads'[s] = threads[s]
  BY <1>1, <1>2 DEF ThreadType
<1> QED
  BY <1>1, <1>3 DEF Aside, Elsewhere

\* So does one that parks its caller.
LEMMA SwitchAside ==
  ASSUME WInv, Guest, NEW u, u.state \notin Elsewhere,
         SwitchTo([threads EXCEPT ![current] = u])
  PROVE  Aside
<1>1. threads \in [Slots -> ThreadType] /\ current \in Slots
      /\ threads[current].state = "RUNNING"
  BY DEF WInv, TypeOK, OneRuns
<1>2. threads'[current] = u /\ \A s \in Slots \ {current} : threads'[s] = threads[s]
  BY <1>1 DEF SwitchTo
<1> QED
  BY <1>1, <1>2 DEF Aside, Elsewhere

\* And one that fills or frees the slot of a thread that has ended.
LEMMA SlotAside ==
  ASSUME WInv, Guest, NEW s \in Slots, ~ Live(threads[s]), NEW u, u.state \notin Elsewhere,
         NEW code, threads' = [threads EXCEPT ![s] = u, ![current].rc = code]
  PROVE  Aside
<1>1. /\ threads \in [Slots -> ThreadType] /\ current \in Slots
      /\ threads[s].state \in Gone /\ s # current /\ threads[current].state = "RUNNING"
  BY MeRuns DEF WInv, TypeOK, Live, Me
<1>2. /\ threads'[current].state = threads[current].state /\ threads'[s] = u
      /\ \A r \in Slots \ {s, current} : threads'[r] = threads[r]
  BY <1>1 DEF ThreadType
<1> QED
  BY <1>1, <1>2 DEF Aside, Elsewhere, Gone

\* The calls about threads.
LEMMA ThreadCallAside ==
  ASSUME WInv, ThreadCall
  PROVE  Aside
<1>1. ASSUME NEW timeout \in Timeouts, Sleep(timeout)
      PROVE  Aside
  <2>1. Guest /\ Me \in ThreadType
    BY <1>1, MeRuns DEF Sleep
  <2>2. CASE SwitchTo([threads EXCEPT ![current].state = "RUNNABLE",
                                      ![current].rc = "NO_ERROR"])
    <3> DEFINE u == [Me EXCEPT !.state = "RUNNABLE", !.rc = "NO_ERROR"]
    <3>1. u.state = "RUNNABLE"
      BY <2>1 DEF ThreadType
    <3>2. [threads EXCEPT ![current].state = "RUNNABLE", ![current].rc = "NO_ERROR"]
             = [threads EXCEPT ![current] = u]
      BY DEF WInv, TypeOK, Me
    <3> HIDE DEF u
    <3> QED
      BY <2>1, <2>2, <3>1, <3>2, SwitchAside DEF Elsewhere
  <2>3. CASE Block("SLEEP", NoHandle, timeout)
    <3> DEFINE u == Parked(Me, "SLEEP", NoHandle, timeout, waitSerial + 1)
    <3>1. u.state = "SLEEP"
      BY <2>1 DEF Parked, ThreadType
    <3>2. SwitchTo([threads EXCEPT ![current] = u])
      BY <2>3 DEF Block, Me
    <3> HIDE DEF u
    <3> QED
      BY <2>1, <3>1, <3>2, SwitchAside DEF Elsewhere
  <2> QED
    BY <1>1, <2>2, <2>3 DEF Sleep
<1>2. ASSUME NEW suspended \in BOOLEAN, CreateThread(suspended)
      PROVE  Aside
  <2>1. Guest /\ ZeroThread.state = "FREE" /\ nextTid \in Nat
    BY <1>2, ZeroFields DEF CreateThread, WInv, TypeOK
  <2>2. NewThread(nextTid, suspended).state \in {"RUNNABLE", "SUSPENDED"}
    BY <2>1, NewFields
  <2>3. \/ Answer("ERROR")
        \/ \E s \in Slots : \E u, code :
              /\ ~ Live(threads[s]) /\ u.state \in {"FREE", "RUNNABLE", "SUSPENDED"}
              /\ threads' = [threads EXCEPT ![s] = u, ![current].rc = code]
    BY <1>2, <2>1, <2>2 DEF CreateThread
  <2> QED
    BY <2>1, <2>3, AnswerAside, SlotAside DEF Elsewhere
<1>3. ASSUME NEW tid \in 0..nextTid, NEW nowait \in BOOLEAN, WaitThread(tid, nowait)
      PROVE  Aside
  <2>1. Guest /\ Me \in ThreadType /\ ZeroThread.state \notin Elsewhere
    BY <1>3, MeRuns, ZeroFields DEF WaitThread, Elsewhere
  <2>2. \/ \E code : Answer(code)
        \/ \E s \in Slots : /\ ~ Live(threads[s])
                            /\ threads' = [threads EXCEPT ![s] = ZeroThread,
                                                          ![current].rc = "NO_ERROR"]
        \/ SwitchTo([threads EXCEPT ![current].state = "WAIT_THREAD",
                                    ![current].waitTid = tid,
                                    ![current].rc = "NO_ERROR"])
    BY <1>3 DEF WaitThread, Live, Gone
  <2>3. CASE SwitchTo([threads EXCEPT ![current].state = "WAIT_THREAD",
                                      ![current].waitTid = tid,
                                      ![current].rc = "NO_ERROR"])
    <3> DEFINE u == [Me EXCEPT !.state = "WAIT_THREAD", !.waitTid = tid, !.rc = "NO_ERROR"]
    <3>1. u.state = "WAIT_THREAD"
      BY <2>1 DEF ThreadType
    <3>2. [threads EXCEPT ![current].state = "WAIT_THREAD", ![current].waitTid = tid,
                          ![current].rc = "NO_ERROR"]
             = [threads EXCEPT ![current] = u]
      BY DEF WInv, TypeOK, Me
    <3> HIDE DEF u
    <3> QED
      BY <2>1, <2>3, <3>1, <3>2, SwitchAside DEF Elsewhere
  <2> QED
    BY <2>1, <2>2, <2>3, AnswerAside, SlotAside
<1>4. ASSUME ExitThread
      PROVE  Aside
  <2>1. Guest /\ threads \in [Slots -> ThreadType] /\ threads' = ThreadsLeft
        /\ Me \in ThreadType /\ Me.state = "RUNNING" /\ "SEM_OWNER_DIED" \in Codes
    BY <1>4, MeRuns DEF ExitThread, WInv, TypeOK, Codes
  <2>2. ASSUME NEW s \in Slots,
               threads[s].state \in Elsewhere \/ threads'[s].state \in Elsewhere
        PROVE  threads'[s] = threads[s]
    <3>1. CASE s = current
      <4>1. threads'[s] \in {ZeroThread, Dead(Me)}
        BY <2>1, <3>1 DEF ThreadsLeft
      <4>2. threads'[s].state \notin Elsewhere /\ threads[s].state = "RUNNING"
        BY <2>1, <3>1, <4>1, ZeroFields, DeadFields DEF Elsewhere, Me
      <4> QED
        BY <2>2, <4>2 DEF Elsewhere
    <3>2. CASE s # current
      <4>1. IsHeir(s) => threads[s].state = "WAIT_MUTEX"
        <5> SUFFICES ASSUME NEW i \in MutexSlots,
                            Waiters(threads, "WAIT_MUTEX", MutexHandle(i)) # {},
                            s = FirstWaiter(threads, "WAIT_MUTEX", MutexHandle(i))
                     PROVE  threads[s].state = "WAIT_MUTEX"
          BY DEF IsHeir
        <5> QED
          BY <2>1, FirstWaiterIs
      <4>2. CASE IsHeir(s)
        <5>1. threads'[s] = Ready(threads[s], "SEM_OWNER_DIED")
          BY <2>1, <3>2, <4>2 DEF ThreadsLeft
        <5>2. threads'[s].state = "RUNNABLE"
          BY <2>1, <5>1, ReadyFields
        <5> QED
          BY <2>2, <4>1, <4>2, <5>2 DEF Elsewhere
      <4>3. CASE ~ IsHeir(s) /\ Awaits(threads[s], Me.tid)
        <5>1. threads'[s] = [threads[s] EXCEPT !.state = "RUNNABLE", !.waitTid = 0]
          BY <2>1, <3>2, <4>3 DEF ThreadsLeft
        <5>2. threads'[s].state = "RUNNABLE" /\ threads[s].state = "WAIT_THREAD"
          BY <2>1, <4>3, <5>1 DEF ThreadType, Awaits
        <5> QED
          BY <2>2, <5>2 DEF Elsewhere
      <4>4. CASE ~ IsHeir(s) /\ ~ Awaits(threads[s], Me.tid)
        BY <2>1, <3>2, <4>4 DEF ThreadsLeft
      <4> QED
        BY <4>2, <4>3, <4>4
    <3> QED
      BY <3>1, <3>2
  <2> QED
    BY <2>2 DEF Aside
<1>5. ExitProcess => Aside
  BY DEF ExitProcess, Aside
<1> QED
  BY <1>1, <1>2, <1>3, <1>4, <1>5 DEF ThreadCall

\* The calls about mutexes.
LEMMA MutexCallAside ==
  ASSUME WInv, MutexCall
  PROVE  Aside
<1>1. ASSUME NEW h \in MutexHandles, NEW timeout \in Timeouts, RequestMutex(h, timeout)
      PROVE  Aside
  <2>1. Guest /\ Me \in ThreadType
    BY <1>1, MeRuns DEF RequestMutex, OnMutex
  <2>2. CASE Block("WAIT_MUTEX", h, timeout)
    <3> DEFINE u == Parked(Me, "WAIT_MUTEX", h, timeout, waitSerial + 1)
    <3>1. u.state = "WAIT_MUTEX"
      BY <2>1 DEF Parked, ThreadType
    <3>2. SwitchTo([threads EXCEPT ![current] = u])
      BY <2>2 DEF Block, Me
    <3> HIDE DEF u
    <3> QED
      BY <2>1, <3>1, <3>2, SwitchAside DEF Elsewhere
  <2>3. CASE \E code : Answer(code)
    BY <2>1, <2>3, AnswerAside
  <2> QED
    BY <1>1, <2>2, <2>3 DEF RequestMutex, Refuse
<1>2. ASSUME NEW h \in MutexHandles, ReleaseMutex(h)
      PROVE  Aside
  <2>1. Guest /\ threads \in [Slots -> ThreadType] /\ current \in Slots
        /\ threads[current].state = "RUNNING" /\ "NO_ERROR" \in Codes /\ "SEM_OWNER_DIED" \in Codes
    BY <1>2, MeRuns DEF ReleaseMutex, OnMutex, WInv, TypeOK, Codes, Me
  <2>2. CASE \E code : Answer(code)
    BY <2>1, <2>2, AnswerAside
  <2>3. ASSUME NEW m, threads' = [HandedThreads(threads, m, h) EXCEPT ![current].rc = "NO_ERROR"]
        PROVE  Aside
    <3> DEFINE w == FirstWaiter(threads, "WAIT_MUTEX", h)
               code == IF m.abandoned THEN "SEM_OWNER_DIED" ELSE "NO_ERROR"
    <3>1. CASE Waiters(threads, "WAIT_MUTEX", h) = {}
      <4>1. Answer("NO_ERROR") \/ threads' = [threads EXCEPT ![current].rc = "NO_ERROR"]
        BY <2>3, <3>1 DEF HandedThreads
      <4>2. \A s \in Slots \ {current} : threads'[s] = threads[s]
        BY <2>1, <2>3, <3>1 DEF HandedThreads
      <4>3. threads'[current].state = "RUNNING"
        BY <2>1, <2>3, <3>1 DEF HandedThreads, ThreadType
      <4> QED
        BY <2>1, <4>2, <4>3 DEF Aside, Elsewhere
    <3>2. CASE Waiters(threads, "WAIT_MUTEX", h) # {}
      <4>1. w \in Slots /\ threads[w].state = "WAIT_MUTEX" /\ w # current
        BY <2>1, <3>2, FirstWaiterIs DEF Waiters, Waits
      <4>2. code \in Codes
        BY <2>1
      <4> DEFINE v == Ready(threads[w], code)
      <4>3. v \in ThreadType /\ v.state = "RUNNABLE"
        BY <2>1, <4>1, <4>2, ReadyFields
      <4>4. HandedThreads(threads, m, h) = [threads EXCEPT ![w] = v]
        BY <3>2 DEF HandedThreads
      <4> HIDE DEF w, v
      <4>5. threads'[w] = v /\ \A s \in Slots \ {current, w} : threads'[s] = threads[s]
        BY <2>1, <2>3, <4>1, <4>4
      <4>6. threads'[current].state = "RUNNING"
        BY <2>1, <2>3, <4>1, <4>4 DEF ThreadType
      <4> QED
        BY <2>1, <4>1, <4>3, <4>5, <4>6 DEF Aside, Elsewhere
    <3> QED
      BY <3>1, <3>2
  <2> QED
    BY <1>2, <2>2, <2>3 DEF ReleaseMutex, Refuse
<1>3. MutexCall => \/ \E code : Guest /\ Answer(code)
                   \/ \E h \in MutexHandles, timeout \in Timeouts : RequestMutex(h, timeout)
                   \/ \E h \in MutexHandles : ReleaseMutex(h)
  BY DEF MutexCall, CreateMutex, OpenMutexNamed, OpenMutexSlot, OpenMutex, OnMutex, CloseMutex,
         BadHandle, Refuse
<1> QED
  BY <1>1, <1>2, <1>3, AnswerAside

\* The calls about events.
LEMMA EventCallAside ==
  ASSUME WInv, EventCall
  PROVE  Aside
<1>1. ASSUME NEW code, Guest, Answer(code)
      PROVE  Aside
  BY <1>1, AnswerAside
<1>2. ASSUME NEW name, NEW posted, CreateEvent(name, posted) \/ OpenEventNamed(name)
      PROVE  Aside
  BY <1>1, <1>2 DEF CreateEvent, OpenEventNamed, OpenEventSlot, Refuse
<1>3. ASSUME NEW h \in EventHandles,
             OpenEvent(h) \/ CloseEvent(h) \/ ResetEvent(h) \/ BadHandle(h)
      PROVE  Aside
  BY <1>1, <1>3 DEF OpenEvent, OnEvent, OpenEventSlot, CloseEvent, ResetEvent, BadHandle, Refuse
<1>4. ASSUME NEW h \in EventHandles, PostEvent(h)
      PROVE  Aside
  <2>1. threads \in [Slots -> ThreadType] /\ current \in Slots /\ "NO_ERROR" \in Codes
        /\ Guest /\ threads[current].state = "RUNNING"
    BY <1>4, MeRuns DEF WInv, TypeOK, Codes, PostEvent, OnEvent, Me
  <2> DEFINE T == EventAwakens(threads, h)
  <2>2. ASSUME NEW s \in Slots
        PROVE  /\ T[s] \in ThreadType
               /\ T[s] = threads[s] \/ (threads[s].state = "WAIT_EVENT" /\ T[s].state = "RUNNABLE")
    <3>1. CASE Waits(threads[s], "WAIT_EVENT", h)
      <4>1. T[s] = Ready(threads[s], "NO_ERROR") /\ threads[s].state = "WAIT_EVENT"
        BY <3>1 DEF EventAwakens, Waits
      <4> QED
        BY <2>1, <4>1, ReadyFields
    <3>2. CASE ~ Waits(threads[s], "WAIT_EVENT", h)
      <4>1. T[s] = threads[s]
        BY <3>2 DEF EventAwakens
      <4> QED
        BY <2>1, <4>1
    <3> QED
      BY <3>1, <3>2
  <2>3. \E code : threads' = [T EXCEPT ![current].rc = code]
    BY <1>4 DEF PostEvent
  <2>4. T = [s \in Slots |-> T[s]]
    BY DEF EventAwakens
  <2> HIDE DEF T
  <2>5. /\ threads'[current].state = T[current].state
        /\ \A s \in Slots \ {current} : threads'[s] = T[s]
    BY <2>1, <2>2, <2>3, <2>4 DEF ThreadType
  <2> QED
    BY <2>1, <2>2, <2>5 DEF Aside, Elsewhere
<1>5. ASSUME NEW h \in EventHandles, NEW timeout \in Timeouts, WaitEvent(h, timeout)
      PROVE  Aside
  <2>1. Guest /\ Me \in ThreadType
    BY <1>5, MeRuns DEF WaitEvent, OnEvent
  <2>2. CASE SwitchTo([threads EXCEPT ![current] = Parked(@, "WAIT_EVENT", h, timeout, 0)])
    <3> DEFINE u == Parked(Me, "WAIT_EVENT", h, timeout, 0)
    <3>1. u.state = "WAIT_EVENT"
      BY <2>1 DEF Parked, ThreadType
    <3>2. SwitchTo([threads EXCEPT ![current] = u])
      BY <2>2 DEF Me
    <3> HIDE DEF u
    <3> QED
      BY <2>1, <3>1, <3>2, SwitchAside DEF Elsewhere
  <2> QED
    BY <1>1, <1>5, <2>1, <2>2 DEF WaitEvent, Refuse
<1> QED
  BY <1>2, <1>3, <1>4, <1>5 DEF EventCall

\* The scheduler and the deadlines.
LEMMA HostAside ==
  ASSUME WInv, Host
  PROVE  Aside
<1>1. threads \in [Slots -> ThreadType]
  BY DEF WInv, TypeOK
<1>2. CASE Schedule
  <2>1. \A n \in 1..NThreads : After(n) \in Slots
    BY SyncAssumption DEF WInv, TypeOK, Slots, After
  <2>2. PICK r \in Slots : /\ threads[r].state = "RUNNABLE"
                           /\ threads' = [threads EXCEPT ![r].state = "RUNNING"]
    BY <1>2, <2>1 DEF Schedule, Runnable
  <2>3. threads'[r].state = "RUNNING" /\ \A s \in Slots \ {r} : threads'[s] = threads[s]
    BY <1>1, <2>2 DEF ThreadType
  <2> QED
    BY <2>2, <2>3 DEF Aside, Elsewhere
<1>3. CASE ScheduleFails
  BY <1>3 DEF ScheduleFails, Aside
<1>4. ASSUME NEW s \in Slots, DeadlinePasses(s)
      PROVE  Aside
  <2> DEFINE code == IF threads[s].state = "SLEEP" THEN "NO_ERROR" ELSE "SEM_TIMEOUT"
  <2>1. threads' = [threads EXCEPT ![s] = Ready(threads[s], code)] /\ code \in Codes
        /\ threads[s].state \in TimedStates
    BY <1>4 DEF DeadlinePasses, Codes
  <2>2. Ready(threads[s], code).state = "RUNNABLE"
    BY <1>1, <2>1, ReadyFields
  <2> HIDE DEF code
  <2>3. threads'[s].state = "RUNNABLE" /\ \A r \in Slots \ {s} : threads'[r] = threads[r]
    BY <1>1, <2>1, <2>2
  <2> QED
    BY <2>1, <2>3 DEF Aside, Elsewhere, TimedStates
<1> QED
  BY <1>2, <1>3, <1>4 DEF Host

\* Threads parked by a queue or for a child are parked and woken there only.
LEMMA NextAside ==
  ASSUME WInv, [Next]_vars
  PROVE  Aside
<1>1. UNCHANGED vars => Aside
  BY DEF vars, Aside
<1> QED
  BY <1>1, ThreadCallAside, MutexCallAside, EventCallAside, HostAside DEF Next, Ended

=============================================================================
