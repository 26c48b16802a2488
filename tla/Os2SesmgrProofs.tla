-------------------------- MODULE Os2SesmgrProofs --------------------------
(***************************************************************************)
(* Proofs about Os2Sesmgr, for any number of processes and threads, any    *)
(* sizes of the tables and any process ids.                                *)
(*                                                                         *)
(* A session id is given out once, so it stands for one child: an entry    *)
(* and a record with the same id are about the same session, whatever was  *)
(* torn by the death of a process, and taking one out by its id takes the  *)
(* right one.                                                              *)
(***************************************************************************)
EXTENDS Os2Sesmgr, TLAPS

\* Where a thread can be in a call.
CallType == [at : {"idle", "launch", "lock", "reap", "store", "discard", "dispose",
                   "resume", "kill", "forget"},
             what : {"none", "child", "free", "stop"}, sid : 0..MaxSid,
             child : Procs \cup {0}, all : BOOLEAN, k : 0..LocalMax]

Typed == TypeOK /\ calls \in [Threads -> CallType]

Born(p) == procs[p].status # "none"

\* A process id names one process, as long as one can name it.
OnePid == \A p, q \in Procs : Exists(p) /\ Exists(q) /\ procs[p].pid = procs[q].pid => p = q

\* Only child sessions start suspended, and their parent was there before.
Families ==
    \A p \in Procs : /\ Born(p) => procs[p].pid \in OsPids
                     /\ procs[p].related => procs[p].parent \in Procs /\ Born(procs[p].parent)
                     /\ procs[p].status = "suspended" => procs[p].related

Starts(t) == calls[t].what \in {"child", "free"}

\* What a thread has in its hands at each step of a call.
Phase(t) ==
    /\ calls[t].at = "idle" => calls[t] = Idle
    /\ calls[t].at = "launch" => Starts(t) /\ calls[t].child = 0
    /\ calls[t].at \in {"lock", "reap"} => calls[t].what \in {"child", "stop"}
    /\ calls[t].at \in {"store", "resume", "discard", "dispose"} => calls[t].what = "child"
    /\ calls[t].at \in {"kill", "forget"} => calls[t].what = "stop"
    /\ calls[t].what = "child" /\ calls[t].at # "launch" => calls[t].child # 0
    /\ calls[t].what # "child" => calls[t].child = 0
    /\ Starts(t) => calls[t].sid \in 1..nextSid
    /\ calls[t].at # "idle" => procs[Self(t)].status \in {"running", "dying"}
    /\ calls[t].child # 0 => /\ Born(calls[t].child) /\ procs[calls[t].child].related
                             /\ procs[calls[t].child].parent = Self(t)
    /\ calls[t].at = "dispose" => procs[calls[t].child].status # "suspended"

Phases == \A t \in Threads : Phase(t)

\* A process's own table is changed by the thread that holds its lock.
Locks ==
    \A t \in Threads :
        /\ calls[t].at \in {"reap", "store", "kill", "forget"} => localLock[Self(t)] = t[2]
        /\ calls[t].at = "forget" =>
               /\ calls[t].k < LocalMax /\ owned[Self(t)][calls[t].k].proc # 0
               /\ procs[owned[Self(t)][calls[t].k].proc].status \in {"dying", "dead"}

\* The entries of a living process are its children, each with an id of its
\* own; a dead process has none.
Entries ==
    /\ \A p \in Procs : \A k \in LocalSlots :
          /\ owned[p][k].proc = 0 => owned[p][k] = NoEntry
          /\ owned[p][k].proc # 0 =>
                /\ owned[p][k].sid \in 1..nextSid
                /\ Alive(p) /\ Born(owned[p][k].proc)
                /\ procs[owned[p][k].proc].parent = p
    /\ \A p, q \in Procs : \A j, k \in LocalSlots :
          owned[p][j].proc # 0 /\ owned[q][k].proc # 0 /\ owned[p][j].sid = owned[q][k].sid
              => p = q /\ j = k

\* The id of a session that is being started is nowhere else.
Pending(t) == Starts(t) /\ calls[t].at \in {"launch", "lock", "reap", "store"}
FreshIds ==
    \A t \in Threads : Pending(t) =>
        /\ \A p \in Procs : \A k \in LocalSlots : owned[p][k].sid # calls[t].sid
        /\ \A i \in SharedSlots : records[i].used => records[i].sid # calls[t].sid
        /\ \A u \in Threads : Pending(u) /\ calls[u].sid = calls[t].sid => u = t

\* The ids in a record are of processes that were created, or torn off.
RealId(id) == id = NoId \/ (id.token \in Procs /\ Born(id.token) /\ id = Id(id.token))
RealRecords ==
    /\ \A i \in SharedSlots : records[i].used =>
          /\ records[i].sid <= nextSid
          /\ RealId(records[i].process) /\ RealId(records[i].owner)
    /\ \A i, j \in SharedSlots :
          records[i].used /\ records[j].used /\ records[i].sid # 0
             /\ records[i].sid = records[j].sid => i = j

\* Entry k of process p as it is in the registry.
AsRecord(p, k) == Record(owned[p][k].sid, Id(owned[p][k].proc), Id(p))

\* The records in the name of a living process, and those with the id of one
\* of its entries, are its entries.
Mirrored ==
    /\ \A i \in SharedSlots : \A p \in Procs :
          records[i].used /\ records[i].owner.token = p /\ Alive(p) =>
              \E k \in LocalSlots : owned[p][k].proc # 0 /\ records[i] = AsRecord(p, k)
    /\ \A i \in SharedSlots : \A p \in Procs : \A k \in LocalSlots :
          records[i].used /\ owned[p][k].proc # 0 /\ records[i].sid = owned[p][k].sid =>
              records[i] = AsRecord(p, k)

\* The living children in a process's own table are in the registry.
Known ==
    \A p \in Procs : \A k \in LocalSlots :
        owned[p][k].proc # 0 /\ Alive(owned[p][k].proc) =>
            \E i \in SharedSlots : records[i] = AsRecord(p, k)

\* A child session that runs is in its parent's own table.
Kept ==
    \A p \in Procs : procs[p].status = "running" /\ procs[p].related /\ Alive(procs[p].parent)
        => \E k \in LocalSlots : owned[procs[p].parent][k].proc = p

\* Thread t is going to end p: it has not yet passed its entry.
Stopping(t, p) ==
    /\ calls[t].what = "stop" /\ ~ calls[t].all /\ calls[t].at \in {"lock", "reap", "kill"}
    /\ \E k \in LocalSlots :
          /\ owned[Self(t)][k].sid = calls[t].sid /\ owned[Self(t)][k].proc = p
          /\ calls[t].at = "kill" => k >= calls[t].k

\* A suspended child is in the hands of a thread of its parent; and it has an
\* entry by the time it is to be resumed.
InHand ==
    /\ \A p \in Procs : procs[p].status = "suspended" /\ Alive(procs[p].parent) =>
          \E t \in Threads : Self(t) = procs[p].parent /\ (calls[t].child = p \/ Stopping(t, p))
    /\ \A t \in Threads : calls[t].at = "resume" /\ procs[calls[t].child].status = "suspended" =>
          \E k \in LocalSlots : /\ owned[Self(t)][k].sid = calls[t].sid
                                /\ owned[Self(t)][k].proc = calls[t].child

Inv == /\ Typed /\ OnePid /\ Families /\ Phases /\ Locks /\ Entries /\ FreshIds
       /\ RealRecords /\ Mirrored /\ Known /\ Kept /\ InHand

-----------------------------------------------------------------------------
(***************************************************************************)
(* Types                                                                   *)
(***************************************************************************)

\* A thread is one of a process, under a number that is not 0.
LEMMA ThreadOf == \A t \in Threads : Self(t) \in Procs /\ t[2] \in Nat \ {0} /\ t = <<t[1], t[2]>>
  BY SesmgrAssumption DEF Self, Procs

\* The bounds are numbers, and 0 is no process.
LEMMA Constants == LocalMax \in Nat /\ SharedMax \in Nat /\ MaxSid \in Nat /\ 0 \notin Procs
                   /\ 0 \in 0..MaxSid /\ 0 \in 0..LocalMax
  BY SesmgrAssumption DEF Procs

RecordType == [used : BOOLEAN, sid : 0..MaxSid, process : IdType, owner : IdType]
ProcType == [status : {"none", "suspended", "running", "dying", "dead"},
             pid : OsPids \cup {0}, parent : Procs \cup {0},
             related : BOOLEAN, grouped : BOOLEAN, lingers : BOOLEAN]
EntryType == [sid : 0..MaxSid, proc : Procs \cup {0}]

\* What the empty values and the ids are.
LEMMA EmptyTypes ==
  /\ Idle \in CallType /\ NoEntry \in EntryType /\ NoRecord \in RecordType
  /\ Unborn \in ProcType /\ NoId \in IdType
  BY Constants DEF Idle, CallType, NoEntry, EntryType, NoRecord, RecordType, NoId,
     IdType, Unborn, ProcType

\* A process's id is an id.
LEMMA IdIn == ASSUME TypeOK, NEW p \in Procs PROVE Id(p) \in IdType
  BY DEF TypeOK, Id, IdType

\* Fields of a typed process, entry, record and call.
LEMMA TypesOut ==
  ASSUME Typed
  PROVE  /\ procs \in [Procs -> ProcType] /\ owned \in [Procs -> [LocalSlots -> EntryType]]
         /\ records \in [SharedSlots -> RecordType] /\ calls \in [Threads -> CallType]
         /\ localLock \in [Procs -> Nat] /\ nextSid \in 0..MaxSid
  BY DEF Typed, TypeOK, ProcType, EntryType, RecordType

\* Taking records out leaves the registry typed.
LEMMA RegistryTypes ==
  ASSUME records \in [SharedSlots -> RecordType]
  PROVE  /\ Reaped(records) \in [SharedSlots -> RecordType]
         /\ \A sid \in 0..MaxSid : Removed(records, sid) \in [SharedSlots -> RecordType]
  BY EmptyTypes DEF Reaped, Removed

\* Moving to another step of a call.
LEMMA MovedType ==
  ASSUME NEW c \in CallType,
         NEW at \in {"idle", "launch", "lock", "reap", "store", "discard", "dispose",
                     "resume", "kill", "forget"}
  PROVE  [c EXCEPT !.at = at, !.k = 0] \in CallType
  BY Constants DEF CallType

\* The ids given out are 1, 2, 3 ...; the wrap is beyond the bound.
LEMMA SidIsNext ==
  ASSUME nextSid \in 0..MaxSid, nextSid < MaxSid
  PROVE  SidAfter(nextSid) = nextSid + 1 /\ nextSid + 1 \in 1..MaxSid
<1>1. \A a, b \in Nat : a < b => a % b = a
  OBVIOUS
<1>2. (nextSid + 1) % (MaxSid + 1) = nextSid + 1
  BY <1>1, Constants
<1> QED
  BY <1>2, Constants DEF SidAfter

\* Starting a session keeps the types.
LEMMA TypedStart ==
  ASSUME Typed, NEW t \in Threads, NEW isChild \in BOOLEAN, StartSession(t, isChild)
  PROVE  Typed'
<1> USE TypesOut
<1>1. nextSid' = nextSid + 1 /\ nextSid' \in 0..MaxSid
  BY SidIsNext, Constants DEF StartSession
<1>2. calls' \in [Threads -> CallType]
  BY <1>1, Constants DEF StartSession, Goto, Idle, CallType
<1>3. records' \in [SharedSlots -> RecordType]
  BY RegistryTypes DEF StartSession
<1>4. UNCHANGED <<procs, owned, localLock>>
  BY DEF StartSession
<1> QED
  BY <1>1, <1>2, <1>3, <1>4 DEF Typed, TypeOK, CallType, RecordType, ProcType, EntryType

\* Records that differ from typed ones in some fields.
LEMMA CallTypes ==
  /\ \A c \in CallType : \A k \in 0..LocalMax : [c EXCEPT !.k = k] \in CallType
  /\ \A c \in CallType : c.k + 1 \in 0..LocalMax => [c EXCEPT !.k = @ + 1] \in CallType
  /\ \A c \in CallType : \A p \in Procs : [c EXCEPT !.child = p] \in CallType
  /\ \A c \in CallType : [c EXCEPT !.at = "forget"] \in CallType
  /\ \A c \in CallType : c.k + 1 \in 0..LocalMax => [c EXCEPT !.at = "kill", !.k = @ + 1] \in CallType
  /\ \A sid \in 0..MaxSid : \A all \in BOOLEAN :
        [Idle EXCEPT !.at = "lock", !.what = "stop", !.sid = sid, !.all = all] \in CallType
  /\ \A sid \in 0..MaxSid :
        [Idle EXCEPT !.at = "lock", !.what = "stop", !.sid = sid] \in CallType
<1>1. \A c \in CallType : c.k + 1 \in 0..LocalMax => [c EXCEPT !.at = "kill", !.k = @ + 1] \in CallType
  BY DEF CallType
<1>2. \A sid \in 0..MaxSid : \A all \in BOOLEAN :
        [Idle EXCEPT !.at = "lock", !.what = "stop", !.sid = sid, !.all = all] \in CallType
  BY Constants DEF CallType, Idle
<1>3. \A sid \in 0..MaxSid :
        [Idle EXCEPT !.at = "lock", !.what = "stop", !.sid = sid] \in CallType
  BY Constants DEF CallType, Idle
<1>4. \A c \in CallType : \A k \in 0..LocalMax : [c EXCEPT !.k = k] \in CallType
  BY DEF CallType
<1>5. \A c \in CallType : c.k + 1 \in 0..LocalMax => [c EXCEPT !.k = @ + 1] \in CallType
  BY DEF CallType
<1>6. \A c \in CallType : \A p \in Procs : [c EXCEPT !.child = p] \in CallType
  BY DEF CallType
<1>7. \A c \in CallType : [c EXCEPT !.at = "forget"] \in CallType
  BY DEF CallType
<1> QED
  BY <1>1, <1>2, <1>3, <1>4, <1>5, <1>6, <1>7

\* One call, one entry or one process that is changed stays typed.
LEMMA CallSet ==
  ASSUME calls \in [Threads -> CallType], NEW t \in Threads, NEW c \in CallType, Goto(t, c)
  PROVE  calls' \in [Threads -> CallType]
  BY DEF Goto

\* One entry that is changed.
LEMMA EntrySet ==
  ASSUME owned \in [Procs -> [LocalSlots -> EntryType]], NEW p \in Procs, NEW k \in LocalSlots,
         NEW e \in EntryType, owned' = [owned EXCEPT ![p][k] = e]
  PROVE  owned' \in [Procs -> [LocalSlots -> EntryType]]
  OBVIOUS

\* One status that is changed.
LEMMA StatusSet ==
  ASSUME procs \in [Procs -> ProcType], NEW p \in Procs,
         NEW s \in {"suspended", "running", "dying", "dead"},
         procs' = [procs EXCEPT ![p].status = s]
  PROVE  procs' \in [Procs -> ProcType]
  BY DEF ProcType

\* What launch creates.
NewProc(t, pid, job) ==
    [Unborn EXCEPT !.status = StartStatus(calls[t].what = "child"), !.pid = pid,
                   !.parent = Self(t), !.related = (calls[t].what = "child"),
                   !.grouped = (calls[t].what = "child") /\ job]

\* The new process's fields: suspended and related if it is a child session.
LEMMA NewProcIs ==
  ASSUME NEW t \in Threads, NEW pid \in OsPids, NEW job \in BOOLEAN
  PROVE  LET n == NewProc(t, pid, job) IN
         /\ n \in ProcType /\ n.pid = pid /\ n.parent = Self(t)
         /\ n.lingers = FALSE
         /\ calls[t].what = "child" => n.status = "suspended" /\ n.related = TRUE
         /\ calls[t].what # "child" => n.status = "running" /\ n.related = FALSE
<1> DEFINE child == calls[t].what = "child"
           New(s, c, g) == [Unborn EXCEPT !.status = s, !.pid = pid, !.parent = Self(t),
                                          !.related = c, !.grouped = g]
<1>1. ASSUME NEW s \in {"suspended", "running"}, NEW c \in BOOLEAN, NEW g \in BOOLEAN
      PROVE  /\ New(s, c, g) \in ProcType /\ New(s, c, g).status = s
             /\ New(s, c, g).pid = pid /\ New(s, c, g).parent = Self(t)
             /\ New(s, c, g).related = c /\ New(s, c, g).lingers = Unborn.lingers
  BY ThreadOf, EmptyTypes DEF ProcType
<1>2. Unborn.lingers = FALSE
  BY Zenon DEF Unborn
<1>3. NewProc(t, pid, job) = New(StartStatus(child), child, child /\ job)
  BY Zenon DEF NewProc
<1>4. CASE calls[t].what = "child"
  <2>1. child = TRUE /\ (child /\ job) = job
    BY <1>4
  <2>2. NewProc(t, pid, job) = New("suspended", TRUE, job)
    BY <1>3, <2>1 DEF StartStatus
  <2> HIDE DEF New, child
  <2> QED
    BY ZenonT(30), <1>1, <1>2, <1>4, <2>2
<1>5. CASE calls[t].what # "child"
  <2>1. child = FALSE /\ (child /\ job) = FALSE
    BY <1>5
  <2>2. NewProc(t, pid, job) = New("running", FALSE, FALSE)
    BY <1>3, <2>1 DEF StartStatus
  <2> HIDE DEF New, child
  <2> QED
    BY <1>1, <1>2, <1>5, <2>2
<1> QED
  BY <1>4, <1>5

\* A launch fails, or it makes a process with a free id.
LEMMA LaunchDoes ==
  ASSUME NEW t \in Threads, Launch(t)
  PROVE  \/ procs' = procs /\ Goto(t, Idle)
         \/ \E p \in Procs, pid \in OsPids, job \in BOOLEAN :
               /\ procs[p].status = "none" /\ PidFree(pid)
               /\ procs' = [procs EXCEPT ![p] = NewProc(t, pid, job)]
               /\ Goto(t, IF calls[t].what = "child" THEN [Moved(t, "lock") EXCEPT !.child = p]
                          ELSE Idle)
  BY Zenon DEF Launch, NewProc

\* A process that leaves is still one.
LEMMA LeftType ==
  ASSUME procs \in [Procs -> ProcType], NEW p \in Procs, NEW lingers \in BOOLEAN
  PROVE  [procs EXCEPT ![p].status = "dead", ![p].lingers = lingers] \in [Procs -> ProcType]
<1> DEFINE left == [procs[p] EXCEPT !.status = "dead", !.lingers = lingers]
<1>1. left \in ProcType
  <2>1. procs[p] \in ProcType
    OBVIOUS
  <2> QED
    BY <2>1 DEF ProcType
<1>2. [procs EXCEPT ![p].status = "dead", ![p].lingers = lingers] = [procs EXCEPT ![p] = left]
  OBVIOUS
<1> HIDE DEF left
<1> QED
  BY <1>1, <1>2

\* A place of the local table below its end is one of its slots.
LEMMA PlaceIsSlot ==
  ASSUME Typed, NEW t \in Threads, calls[t].k < LocalMax
  PROVE  calls[t].k \in LocalSlots /\ calls[t].k + 1 \in 0..LocalMax
<1>1. calls[t].k \in 0..LocalMax
  BY TypesOut DEF CallType
<1> QED
  BY <1>1, Constants DEF LocalSlots

\* A thread that forgets an entry is at one that is used.
LEMMA ForgetsEntry ==
  ASSUME Typed, Locks, NEW t \in Threads, At(t, "forget")
  PROVE  /\ calls[t].k < LocalMax
         /\ calls[t].k \in LocalSlots /\ owned[Self(t)][calls[t].k].proc # 0
<1>1. calls[t].at = "forget"
  BY DEF At
<1>2. calls[t].k < LocalMax /\ owned[Self(t)][calls[t].k].proc # 0
  BY <1>1, Zenon DEF Locks
<1> QED
  BY <1>2, PlaceIsSlot

\* A process that ends in registry_remove was removing the record of an entry.
LEMMA EndsAtEntry ==
  ASSUME Typed, Locks, NEW t \in Threads, EndInRemove(t)
  PROVE  calls[t].k \in LocalSlots /\ owned[Self(t)][calls[t].k].proc # 0
<1>1. \/ At(t, "forget")
      \/ calls[t].k < LocalMax /\ owned[Self(t)][calls[t].k].proc # 0
  BY Zenon DEF EndInRemove
<1> QED
  BY <1>1, ForgetsEntry, PlaceIsSlot, Zenon

\* Every step keeps the types.
LEMMA TypedStep ==
  ASSUME Typed, Phases, Locks, [Next]_vars
  PROVE  Typed'
<1> USE TypesOut
<1>0. ASSUME (procs \in [Procs -> ProcType])', (owned \in [Procs -> [LocalSlots -> EntryType]])',
             (records \in [SharedSlots -> RecordType])', (calls \in [Threads -> CallType])',
             (localLock \in [Procs -> Nat])', (nextSid \in 0..MaxSid)'
      PROVE  Typed'
  BY <1>0 DEF Typed, TypeOK, CallType, RecordType, ProcType, EntryType
<1>1. CASE UNCHANGED vars
  BY <1>0, <1>1 DEF vars
<1>2. ASSUME NEW t \in Threads, NEW isChild \in BOOLEAN, StartSession(t, isChild)
      PROVE  Typed'
  BY <1>2, TypedStart
<1>3. ASSUME NEW t \in Threads, Launch(t)
      PROVE  Typed'
  <2> USE Constants, ThreadOf
  <2>1. calls' \in [Threads -> CallType]
    <3>1. calls[t] \in CallType /\ Moved(t, "lock") \in CallType
      BY MovedType DEF Moved
    <3>2. \A p \in Procs : [Moved(t, "lock") EXCEPT !.child = p] \in CallType
      BY <3>1, CallTypes
    <3>3. \E c \in CallType : Goto(t, c)
      BY <1>3, <3>2, EmptyTypes DEF Launch
    <3> QED
      BY <3>3, CallSet
  <2>2. procs' \in [Procs -> ProcType]
    <3>1. CASE procs' = procs
      BY <3>1
    <3>2. CASE ~ (procs' = procs)
      <4>1. PICK p \in Procs, pid \in OsPids, job \in BOOLEAN :
               procs' = [procs EXCEPT ![p] = NewProc(t, pid, job)]
        BY <1>3, <3>2, LaunchDoes
      <4>2. NewProc(t, pid, job) \in ProcType
        BY NewProcIs
      <4> QED
        BY <4>1, <4>2
    <3> QED
      BY <3>1, <3>2
  <2> QED
    BY <1>0, <1>3, <2>1, <2>2 DEF Launch
<1>4. ASSUME NEW t \in Threads, Lock(t)
      PROVE  Typed'
  BY <1>0, <1>4, MovedType, ThreadOf DEF Lock, Goto, Moved
<1>5. ASSUME NEW t \in Threads, Reap(t)
      PROVE  Typed'
  <2>1. calls' \in [Threads -> CallType]
    <3>1. CASE calls' = [calls EXCEPT ![t] = [calls[t] EXCEPT !.k = @ + 1]] /\ calls[t].k < LocalMax
      <4>1. calls[t].k + 1 \in 0..LocalMax
        BY <3>1, Constants DEF CallType
      <4>2. [calls[t] EXCEPT !.k = @ + 1] \in CallType
        BY <4>1, CallTypes
      <4> QED
        BY <3>1, <4>2, CallSet DEF Goto
    <3>2. CASE \E at \in {"store", "kill"} : calls' = [calls EXCEPT ![t] = Moved(t, at)]
      <4>1. calls[t] \in CallType /\ Moved(t, "store") \in CallType /\ Moved(t, "kill") \in CallType
        BY MovedType DEF Moved
      <4> QED
        BY <3>2, <4>1, CallSet DEF Goto
    <3> QED
      BY <1>5, <3>1, <3>2 DEF Reap, Goto
  <2>2. owned' \in [Procs -> [LocalSlots -> EntryType]]
    <3>1. CASE owned' = owned
      BY <3>1
    <3>2. CASE calls[t].k < LocalMax /\ owned' = [owned EXCEPT ![Self(t)][calls[t].k] = NoEntry]
      <4>1. calls[t].k \in LocalSlots
        BY <3>2, Constants DEF CallType, LocalSlots
      <4> QED
        BY <3>2, <4>1, ThreadOf, EmptyTypes, EntrySet
    <3> QED
      BY <1>5, <3>1, <3>2 DEF Reap
  <2>3. records' \in [SharedSlots -> RecordType]
    <3>1. CASE records' = records
      BY <3>1
    <3>2. CASE calls[t].k < LocalMax /\ records' = Removed(records, owned[Self(t)][calls[t].k].sid)
      <4>1. calls[t].k \in LocalSlots
        BY <3>2, Constants DEF CallType, LocalSlots
      <4>2. owned[Self(t)][calls[t].k].sid \in 0..MaxSid
        BY <4>1, ThreadOf DEF EntryType
      <4> QED
        BY <3>2, <4>2, RegistryTypes
    <3> QED
      BY <1>5, <3>1, <3>2 DEF Reap
  <2> QED
    BY <1>0, <1>5, <2>1, <2>2, <2>3 DEF Reap
<1>6. ASSUME NEW t \in Threads, Store(t)
      PROVE  Typed'
  <2>1. Reaped(records) \in [SharedSlots -> RecordType]
    BY RegistryTypes
  <2>2. calls' \in [Threads -> CallType]
    <3>1. calls[t] \in CallType /\ Moved(t, "resume") \in CallType /\ Moved(t, "discard") \in CallType
      BY MovedType DEF Moved
    <3> QED
      BY <1>6, <3>1, CallSet DEF Store
  <2>3. [sid |-> calls[t].sid, proc |-> calls[t].child] \in EntryType
    BY DEF CallType, EntryType
  <2>4. Id(calls[t].child) \in IdType /\ Id(Self(t)) \in IdType /\ calls[t].sid \in 0..MaxSid
    <3>1. calls[t].child \in Procs /\ calls[t].sid \in 0..MaxSid
      BY <1>6 DEF Store, At, Phases, Phase, CallType
    <3> QED
      BY <3>1, ThreadOf, IdIn DEF Typed
  <2>5. Record(calls[t].sid, Id(calls[t].child), Id(Self(t))) \in RecordType
    BY <2>4 DEF Record, RecordType
  <2>6. records' \in [SharedSlots -> RecordType]
    BY <1>6, <2>1, <2>5 DEF Store
  <2>7. owned' \in [Procs -> [LocalSlots -> EntryType]]
    <3>1. owned' = owned \/ \E k \in LocalSlots : owned' =
             [owned EXCEPT ![Self(t)][k] = [sid |-> calls[t].sid, proc |-> calls[t].child]]
      BY <1>6 DEF Store
    <3> QED
      BY <2>3, <3>1, ThreadOf, EntrySet
  <2> QED
    BY <1>0, <1>6, <2>2, <2>6, <2>7 DEF Store, Unlocked
<1>7. ASSUME NEW p \in Procs
      PROVE  Terminated(p) \in [Procs -> ProcType]
  BY ZenonT(30) DEF Terminated, ProcType
<1>8. ASSUME NEW t \in Threads, Discard(t) \/ Dispose(t)
      PROVE  Typed'
  <2>1. calls' \in [Threads -> CallType]
    <3>1. calls[t] \in CallType /\ Moved(t, "dispose") \in CallType
      BY MovedType DEF Moved
    <3> QED
      BY <1>8, <3>1, CallSet, EmptyTypes DEF Discard, Dispose
  <2>2. procs' \in [Procs -> ProcType]
    <3>1. At(t, "discard") => calls[t].child \in Procs
      BY DEF At, Phases, Phase, CallType
    <3> QED
      BY <1>7, <1>8, <3>1 DEF Discard, Dispose
  <2> QED
    BY <1>0, <1>8, <2>1, <2>2 DEF Discard, Dispose
<1>9. ASSUME NEW t \in Threads, Resume(t)
      PROVE  Typed'
  <2>1. calls' \in [Threads -> CallType]
    <3>1. calls[t].sid \in 0..MaxSid
      BY DEF CallType
    <3>2. [Idle EXCEPT !.at = "lock", !.what = "stop", !.sid = calls[t].sid] \in CallType
      BY <3>1, CallTypes
    <3>3. \E c \in CallType : Goto(t, c)
      BY <1>9, <3>2, EmptyTypes DEF Resume
    <3> QED
      BY <3>3, CallSet
  <2>2. procs' \in [Procs -> ProcType]
    <3>1. calls[t].child \in Procs
      BY <1>9 DEF Resume, At, Phases, Phase, CallType
    <3>2. procs' = procs \/ procs' = [procs EXCEPT ![calls[t].child].status = "running"]
      BY <1>9 DEF Resume
    <3> QED
      BY <3>1, <3>2, StatusSet
  <2> QED
    BY <1>0, <1>9, <2>1, <2>2 DEF Resume
<1>10. ASSUME NEW t \in Threads, NEW all \in BOOLEAN, NEW sid \in 0..MaxSid, StopSession(t, all, sid)
       PROVE  Typed'
  <2>1. calls' \in [Threads -> CallType]
    BY <1>10, Constants DEF StopSession, Goto, Idle, CallType
  <2> QED
    BY <1>0, <1>10, <2>1 DEF StopSession
<1>11. ASSUME NEW t \in Threads, Kill(t)
       PROVE  Typed'
  <2>1. calls' \in [Threads -> CallType]
    <3>1. calls[t].k < LocalMax => calls[t].k + 1 \in 0..LocalMax
      BY Constants DEF CallType
    <3>2. calls[t] \in CallType
      OBVIOUS
    <3>3. \E c \in CallType : Goto(t, c)
      BY <1>11, <3>1, <3>2, CallTypes, EmptyTypes DEF Kill
    <3> QED
      BY <3>3, CallSet
  <2>2. procs' \in [Procs -> ProcType]
    <3>1. CASE procs' = procs
      BY <3>1
    <3>2. CASE /\ calls[t].k < LocalMax /\ owned[Self(t)][calls[t].k].proc # 0
               /\ procs' = Terminated(owned[Self(t)][calls[t].k].proc)
      <4>1. calls[t].k \in LocalSlots
        BY <3>2, Constants DEF CallType, LocalSlots
      <4>2. owned[Self(t)][calls[t].k].proc \in Procs
        BY <3>2, <4>1, ThreadOf DEF EntryType
      <4> QED
        BY <1>7, <3>2, <4>2
    <3> QED
      BY <1>11, <3>1, <3>2 DEF Kill
  <2>3. localLock' \in [Procs -> Nat]
    BY <1>11 DEF Kill, Unlocked
  <2> QED
    BY <1>0, <1>11, <2>1, <2>2, <2>3 DEF Kill
<1>12. ASSUME NEW t \in Threads, Forget(t)
       PROVE  Typed'
  <2>1. calls[t].k < LocalMax /\ calls[t].k \in LocalSlots /\ calls[t].k + 1 \in 0..LocalMax
    BY <1>12, ForgetsEntry, PlaceIsSlot DEF Forget
  <2>2. calls' \in [Threads -> CallType]
    <3>1. calls[t] \in CallType
      OBVIOUS
    <3>2. \E c \in CallType : Goto(t, c)
      BY <1>12, <2>1, <3>1, CallTypes, EmptyTypes DEF Forget
    <3> QED
      BY <3>2, CallSet
  <2>3. records' \in [SharedSlots -> RecordType]
    <3>1. owned[Self(t)][calls[t].k].sid \in 0..MaxSid
      BY <2>1, ThreadOf DEF EntryType
    <3> QED
      BY <1>12, <3>1, RegistryTypes DEF Forget, Forgotten
  <2>4. owned' \in [Procs -> [LocalSlots -> EntryType]]
    BY <1>12, <2>1, ThreadOf, EmptyTypes, EntrySet DEF Forget
  <2>5. localLock' \in [Procs -> Nat]
    BY <1>12 DEF Forget, Unlocked
  <2> QED
    BY <1>0, <1>12, <2>2, <2>3, <2>4, <2>5 DEF Forget
<1>13. ASSUME NEW t \in Threads, SetTitle(t)
       PROVE  Typed'
  BY <1>0, <1>13, RegistryTypes DEF SetTitle
<1>14. ASSUME NEW p \in Procs, NEW lingers \in BOOLEAN, Leave(p, lingers),
              (records \in [SharedSlots -> RecordType])'
       PROVE  Typed'
  <2>1. procs' \in [Procs -> ProcType]
    BY <1>14, LeftType DEF Leave
  <2>2. owned' \in [Procs -> [LocalSlots -> EntryType]]
    BY <1>14, EmptyTypes DEF Leave
  <2>3. localLock' \in [Procs -> Nat] /\ calls' \in [Threads -> CallType]
    BY <1>14, EmptyTypes DEF Leave
  <2> QED
    BY <1>0, <1>14, <2>1, <2>2, <2>3 DEF Leave
<1>15. ASSUME NEW p \in Procs, End(p)
       PROVE  Typed'
  BY <1>14, <1>15 DEF End
<1>16. ASSUME NEW sid \in 0..MaxSid, NEW c \in IdType, NEW o \in IdType
       PROVE  Torn(sid, c, o) \subseteq RecordType
  <2>1. ASSUME NEW s \in 0..MaxSid, NEW a \in IdType, NEW b \in IdType
        PROVE  [used |-> TRUE, sid |-> s, process |-> a, owner |-> b] \in RecordType
    BY DEF RecordType
  <2>2. ASSUME NEW r \in Torn(sid, c, o)
        PROVE  r \in RecordType
    <3>1. PICK s \in {0, sid}, a \in {NoId, c}, b \in {NoId, o} :
             r = [used |-> TRUE, sid |-> s, process |-> a, owner |-> b]
      BY <2>2 DEF Torn
    <3>2. s \in 0..MaxSid /\ a \in IdType /\ b \in IdType
      BY EmptyTypes, Constants
    <3> QED
      BY <2>1, <3>1, <3>2
  <2> QED
    BY <2>2
<1>17. ASSUME NEW t \in Threads, EndInAdd(t)
       PROVE  Typed'
  <2>1. Id(calls[t].child) \in IdType /\ Id(Self(t)) \in IdType /\ calls[t].sid \in 0..MaxSid
    <3>1. calls[t].child \in Procs /\ calls[t].sid \in 0..MaxSid
      BY <1>17 DEF EndInAdd, At, Phases, Phase, CallType
    <3> QED
      BY <3>1, ThreadOf, IdIn DEF Typed
  <2>2. PICK i \in SharedSlots : \E r \in Torn(calls[t].sid, Id(calls[t].child), Id(Self(t))) :
               records' = [Reaped(records) EXCEPT ![i] = r]
    BY <1>17 DEF EndInAdd
  <2>3. records' \in [SharedSlots -> RecordType]
    BY <1>16, <2>1, <2>2, RegistryTypes
  <2> QED
    BY <1>14, <1>17, <2>3, ThreadOf DEF EndInAdd
<1>18. ASSUME NEW t \in Threads, EndInRemove(t)
       PROVE  Typed'
  <2>1. calls[t].k \in LocalSlots
    BY <1>18, EndsAtEntry
  <2>2. owned[Self(t)][calls[t].k].sid \in 0..MaxSid
    BY <2>1, ThreadOf DEF EntryType
  <2>3. PICK i \in SharedSlots :
           \E r \in Torn(owned[Self(t)][calls[t].k].sid, records[i].process, records[i].owner) :
               records' = [records EXCEPT ![i] = r]
    BY <1>18 DEF EndInRemove
  <2>4. records[i].process \in IdType /\ records[i].owner \in IdType
    BY DEF RecordType
  <2>5. records' \in [SharedSlots -> RecordType]
    BY <1>16, <2>2, <2>3, <2>4
  <2> QED
    BY <1>14, <1>18, <2>5, ThreadOf DEF EndInRemove
<1>19. \A t \in Threads : Calls(t) => Typed'
  <2>1. 1..MaxSid \subseteq 0..MaxSid
    BY Constants
  <2> QED
    BY <1>2, <1>10, <1>13, <2>1, Constants DEF Calls
<1>20. \A t \in Threads : GoesOn(t) => Typed'
  BY <1>3, <1>5, <1>6, <1>8, <1>9, <1>11, <1>12 DEF GoesOn
<1> QED
  BY <1>1, <1>4, <1>15, <1>17, <1>18, <1>19, <1>20 DEF Next

-----------------------------------------------------------------------------
(***************************************************************************)
(* What each step does, field by field                                     *)
(***************************************************************************)

\* The fields of an idle call, of an empty entry and of an empty record.
LEMMA EmptyFields ==
  /\ Idle.at = "idle" /\ Idle.what = "none" /\ Idle.sid = 0 /\ Idle.child = 0
  /\ Idle.all = FALSE /\ Idle.k = 0
  /\ NoEntry.sid = 0 /\ NoEntry.proc = 0
  /\ NoRecord.used = FALSE /\ NoId.pid = 0 /\ NoId.token = 0
  BY Zenon DEF Idle, NoEntry, NoRecord, NoId

\* Thread t moves, and no other does.
Turn(t) == \A u \in Threads : u # t => calls'[u] = calls[u]

\* Goto moves its thread and no other.
LEMMA GoesTo ==
  ASSUME Typed, NEW t \in Threads, NEW c, Goto(t, c)
  PROVE  Turn(t) /\ calls'[t] = c
  BY TypesOut DEF Goto, Turn

\* A call that moves on keeps all but its step and its place in the table.
LEMMA MovedFields ==
  ASSUME Typed, NEW t \in Threads, NEW at
  PROVE  LET c == Moved(t, at) IN
         /\ c.at = at /\ c.what = calls[t].what /\ c.sid = calls[t].sid
         /\ c.child = calls[t].child /\ c.all = calls[t].all /\ c.k = 0
  BY TypesOut DEF Moved, CallType

\* Nothing of the call of t changes but the step it is at.
Stays(t) == /\ calls'[t].what = calls[t].what /\ calls'[t].sid = calls[t].sid
            /\ calls'[t].child = calls[t].child /\ calls'[t].all = calls[t].all

\* DosStartSession begins with the next session id, on a reaped registry.
LEMMA StartDoes ==
  ASSUME Typed, NEW t \in Threads, NEW isChild \in BOOLEAN, StartSession(t, isChild)
  PROVE  /\ Turn(t) /\ calls[t].at = "idle" /\ calls'[t].at = "launch"
         /\ calls'[t].what \in {"child", "free"} /\ calls'[t].sid = nextSid'
         /\ calls'[t].child = 0 /\ procs[Self(t)].status = "running"
         /\ nextSid' = nextSid + 1 /\ nextSid' \in 1..MaxSid /\ records' = Reaped(records)
         /\ UNCHANGED <<procs, owned, localLock>>
<1>1. nextSid' = nextSid + 1 /\ nextSid' \in 1..MaxSid
  BY SidIsNext, TypesOut DEF StartSession
<1> DEFINE c == [Idle EXCEPT !.at = "launch", !.what = IF isChild THEN "child" ELSE "free",
                             !.sid = nextSid']
<1>2. Turn(t) /\ calls'[t] = c
  BY GoesTo DEF StartSession
<1>3. c.at = "launch" /\ c.what \in {"child", "free"} /\ c.sid = nextSid' /\ c.child = 0
  BY <1>1, Constants, EmptyTypes, EmptyFields DEF CallType
<1> QED
  BY <1>1, <1>2, <1>3 DEF StartSession, At

\* launch: the call goes on with the child, or it is over.
LEMMA LaunchCall ==
  ASSUME Typed, NEW t \in Threads, Launch(t)
  PROVE  /\ Turn(t) /\ calls[t].at = "launch" /\ procs[Self(t)].status = "running"
         /\ UNCHANGED <<owned, localLock, records, nextSid>>
         /\ \/ procs' = procs /\ calls'[t] = Idle
            \/ \E p \in Procs, pid \in OsPids, job \in BOOLEAN :
                  /\ procs[p].status = "none" /\ PidFree(pid)
                  /\ procs' = [procs EXCEPT ![p] = NewProc(t, pid, job)]
                  /\ calls[t].what # "child" => calls'[t] = Idle
                  /\ calls[t].what = "child" =>
                        /\ calls'[t].at = "lock" /\ calls'[t].what = "child"
                        /\ calls'[t].sid = calls[t].sid /\ calls'[t].child = p
<1>1. calls[t].at = "launch" /\ procs[Self(t)].status = "running"
      /\ UNCHANGED <<owned, localLock, records, nextSid>>
  BY DEF Launch, At
<1>2. CASE procs' = procs /\ Goto(t, Idle)
  BY <1>1, <1>2, GoesTo
<1>3. ASSUME NEW p \in Procs, NEW pid \in OsPids, NEW job \in BOOLEAN,
             procs[p].status = "none", PidFree(pid),
             procs' = [procs EXCEPT ![p] = NewProc(t, pid, job)],
             Goto(t, IF calls[t].what = "child" THEN [Moved(t, "lock") EXCEPT !.child = p]
                     ELSE Idle)
      PROVE  /\ Turn(t)
             /\ calls[t].what # "child" => calls'[t] = Idle
             /\ calls[t].what = "child" =>
                    /\ calls'[t].at = "lock" /\ calls'[t].what = "child"
                    /\ calls'[t].sid = calls[t].sid /\ calls'[t].child = p
  <2>1. Turn(t) /\ calls'[t] = IF calls[t].what = "child"
                               THEN [Moved(t, "lock") EXCEPT !.child = p] ELSE Idle
    BY <1>3, GoesTo
  <2>2. Moved(t, "lock") \in CallType
    BY TypesOut, MovedType DEF Moved
  <2>3. \A c \in CallType : LET d == [c EXCEPT !.child = p] IN
            d.at = c.at /\ d.what = c.what /\ d.sid = c.sid /\ d.child = p
    BY DEF CallType
  <2> QED
    BY <2>1, <2>2, <2>3, MovedFields
<1>4. ASSUME \E p \in Procs, pid \in OsPids, job \in BOOLEAN :
                /\ procs[p].status = "none" /\ PidFree(pid)
                /\ procs' = [procs EXCEPT ![p] = NewProc(t, pid, job)]
                /\ Goto(t, IF calls[t].what = "child" THEN [Moved(t, "lock") EXCEPT !.child = p]
                           ELSE Idle)
      PROVE  /\ Turn(t)
             /\ \E p \in Procs, pid \in OsPids, job \in BOOLEAN :
                   /\ procs[p].status = "none" /\ PidFree(pid)
                   /\ procs' = [procs EXCEPT ![p] = NewProc(t, pid, job)]
                   /\ calls[t].what # "child" => calls'[t] = Idle
                   /\ calls[t].what = "child" =>
                         /\ calls'[t].at = "lock" /\ calls'[t].what = "child"
                         /\ calls'[t].sid = calls[t].sid /\ calls'[t].child = p
  <2>1. PICK p \in Procs, pid \in OsPids, job \in BOOLEAN :
                /\ procs[p].status = "none" /\ PidFree(pid)
                /\ procs' = [procs EXCEPT ![p] = NewProc(t, pid, job)]
                /\ Goto(t, IF calls[t].what = "child" THEN [Moved(t, "lock") EXCEPT !.child = p]
                           ELSE Idle)
    BY <1>4
  <2> QED
    BY <1>3, <2>1, Zenon
<1>5. CASE procs' = procs /\ Goto(t, Idle)
  BY <1>2, <1>5
<1> QED
  BY <1>1, <1>4, <1>5, LaunchDoes, Zenon

\* local_lock: the lock was free.
LEMMA LockDoes ==
  ASSUME Typed, NEW t \in Threads, Lock(t)
  PROVE  /\ Turn(t) /\ Stays(t) /\ calls[t].at = "lock" /\ calls'[t].at = "reap"
         /\ calls'[t].k = 0 /\ procs[Self(t)].status = "running"
         /\ localLock[Self(t)] = 0 /\ localLock' = [localLock EXCEPT ![Self(t)] = t[2]]
         /\ UNCHANGED <<procs, owned, records, nextSid>>
  BY GoesTo, MovedFields DEF Lock, At, LockFree, Stays

\* Entry k of process p is taken out, and the record with its session id.
Clears(p, k) == /\ owned' = [owned EXCEPT ![p][k] = NoEntry]
                /\ records' = Removed(records, owned[p][k].sid)

\* reap_owned_locked: one entry is passed, taken out if its process is dead.
LEMMA ReapDoes ==
  ASSUME Typed, NEW t \in Threads, Reap(t)
  PROVE  /\ Turn(t) /\ Stays(t) /\ calls[t].at = "reap" /\ procs[Self(t)].status = "running"
         /\ UNCHANGED <<procs, localLock, nextSid>>
         /\ \/ /\ calls[t].k \in LocalSlots /\ calls'[t].at = "reap"
               /\ LET p == owned[Self(t)][calls[t].k].proc IN
                  \/ UNCHANGED <<records, owned>>
                  \/ p # 0 /\ ~ Alive(p) /\ Clears(Self(t), calls[t].k)
            \/ /\ calls'[t].k = 0 /\ UNCHANGED <<records, owned>>
               /\ calls'[t].at = IF calls[t].what = "child" THEN "store" ELSE "kill"
<1>1. calls[t].at = "reap" /\ procs[Self(t)].status = "running"
      /\ UNCHANGED <<procs, localLock, nextSid>>
  BY DEF Reap, At
<1>2. CASE calls[t].k < LocalMax /\ Goto(t, [calls[t] EXCEPT !.k = @ + 1])
  <2>1. Turn(t) /\ calls'[t] = [calls[t] EXCEPT !.k = @ + 1]
    BY <1>2, GoesTo
  <2>2. calls[t].k \in LocalSlots /\ Stays(t) /\ calls'[t].at = "reap"
    BY <1>1, <1>2, <2>1, TypesOut, Constants DEF CallType, LocalSlots, Stays
  <2> QED
    BY <1>1, <1>2, <2>1, <2>2, Constants DEF Reap, Clears, OwnedAlive
<1>3. CASE calls[t].k = LocalMax
           /\ Goto(t, Moved(t, IF calls[t].what = "child" THEN "store" ELSE "kill"))
           /\ UNCHANGED <<records, owned>>
  BY <1>1, <1>3, GoesTo, MovedFields DEF Stays
<1> QED
  BY <1>2, <1>3 DEF Reap

\* remember_owned: both tables get the child, or neither.
LEMMA StoreDoes ==
  ASSUME Typed, Phases, NEW t \in Threads, Store(t)
  PROVE  /\ Turn(t) /\ Stays(t) /\ calls[t].at = "store" /\ procs[Self(t)].status = "running"
         /\ calls[t].child \in Procs
         /\ UNCHANGED <<procs, nextSid>> /\ Unlocked(t)
         /\ \/ /\ calls'[t].at = "discard" /\ UNCHANGED owned
               /\ UNCHANGED records \/ records' = Reaped(records)
            \/ /\ calls'[t].at = "resume"
               /\ \E k \in LocalSlots, i \in SharedSlots :
                    /\ owned[Self(t)][k].proc = 0 /\ ~ Reaped(records)[i].used
                    /\ owned' = [owned EXCEPT ![Self(t)][k] =
                                    [sid |-> calls[t].sid, proc |-> calls[t].child]]
                    /\ records' = [Reaped(records) EXCEPT ![i] =
                           Record(calls[t].sid, Id(calls[t].child), Id(Self(t)))]
<1>1. calls[t].at = "store" /\ procs[Self(t)].status = "running"
      /\ UNCHANGED <<procs, nextSid>> /\ Unlocked(t)
  BY DEF Store, At
<1>2. calls[t].child \in Procs
  BY <1>1, TypesOut DEF Phases, Phase, CallType
<1>3. CASE UNCHANGED owned /\ Goto(t, Moved(t, "discard"))
           /\ (UNCHANGED records \/ records' = Reaped(records))
  BY <1>1, <1>2, <1>3, GoesTo, MovedFields DEF Stays
<1>4. ASSUME NEW k \in LocalSlots, NEW i \in SharedSlots,
             Lowest(k, FreeEntries(Self(t))), Lowest(i, FreeRecords(Reaped(records))),
             Goto(t, Moved(t, "resume"))
      PROVE  /\ Turn(t) /\ Stays(t) /\ calls'[t].at = "resume"
             /\ owned[Self(t)][k].proc = 0 /\ ~ Reaped(records)[i].used
  BY <1>4, GoesTo, MovedFields DEF Stays, Lowest, FreeEntries, FreeRecords
<1> QED
  BY <1>1, <1>2, <1>3, <1>4 DEF Store

\* A process that is alive is dying from here on.
Ends(p) == procs' = Terminated(p)

\* The child that could not be entered is ended.
LEMMA DiscardDoes ==
  ASSUME Typed, Phases, NEW t \in Threads, Discard(t)
  PROVE  /\ Turn(t) /\ Stays(t) /\ calls[t].at = "discard" /\ calls'[t].at = "dispose"
         /\ procs[Self(t)].status = "running" /\ calls[t].child \in Procs
         /\ Ends(calls[t].child)
         /\ UNCHANGED <<owned, localLock, records, nextSid>>
<1>1. calls[t].at = "discard" /\ procs[Self(t)].status = "running"
      /\ UNCHANGED <<owned, localLock, records, nextSid>>
      /\ Ends(calls[t].child) /\ Goto(t, Moved(t, "dispose"))
  BY DEF Discard, At, Ends
<1>2. calls[t].child \in Procs
  BY <1>1, TypesOut DEF Phases, Phase, CallType
<1> QED
  BY <1>1, <1>2, GoesTo, MovedFields DEF Stays

\* After which the call is over.
LEMMA DisposeDoes ==
  ASSUME Typed, NEW t \in Threads, Dispose(t)
  PROVE  /\ Turn(t) /\ calls[t].at = "dispose" /\ calls'[t] = Idle
         /\ UNCHANGED <<procs, owned, localLock, records, nextSid>>
  BY GoesTo DEF Dispose, At

\* The child runs, or its session is to be stopped.
LEMMA ResumeDoes ==
  ASSUME Typed, Phases, NEW t \in Threads, Resume(t)
  PROVE  /\ Turn(t) /\ calls[t].at = "resume" /\ procs[Self(t)].status = "running"
         /\ calls[t].child \in Procs /\ UNCHANGED <<owned, localLock, records, nextSid>>
         /\ \/ /\ calls'[t] = Idle
               /\ \/ procs' = procs /\ procs[calls[t].child].status # "suspended"
                  \/ /\ procs[calls[t].child].status = "suspended"
                     /\ procs' = [procs EXCEPT ![calls[t].child].status = "running"]
            \/ /\ procs' = procs
               /\ calls'[t].at = "lock" /\ calls'[t].what = "stop" /\ calls'[t].child = 0
               /\ calls'[t].sid = calls[t].sid /\ calls'[t].all = FALSE
<1>1. calls[t].at = "resume" /\ procs[Self(t)].status = "running"
      /\ UNCHANGED <<owned, localLock, records, nextSid>>
  BY DEF Resume, At
<1>2. calls[t].child \in Procs /\ calls[t].sid \in 0..MaxSid
  BY <1>1, TypesOut DEF Phases, Phase, CallType
<1>3. CASE Goto(t, Idle) /\ procs' = IF procs[calls[t].child].status = "suspended"
                      THEN [procs EXCEPT ![calls[t].child].status = "running"] ELSE procs
  BY <1>1, <1>2, <1>3, GoesTo
<1>4. CASE /\ procs' = procs
           /\ Goto(t, [Idle EXCEPT !.at = "lock", !.what = "stop", !.sid = calls[t].sid])
  <2> DEFINE c == [Idle EXCEPT !.at = "lock", !.what = "stop", !.sid = calls[t].sid]
  <2>1. c.at = "lock" /\ c.what = "stop" /\ c.child = 0 /\ c.sid = calls[t].sid /\ c.all = FALSE
    BY <1>2, EmptyTypes, EmptyFields DEF CallType
  <2> QED
    BY <1>1, <1>2, <1>4, <2>1, GoesTo
<1> QED
  BY <1>3, <1>4 DEF Resume

\* DosStopSession begins by taking the process's lock.
LEMMA StopDoes ==
  ASSUME Typed, NEW t \in Threads, NEW all \in BOOLEAN, NEW sid \in 0..MaxSid,
         StopSession(t, all, sid)
  PROVE  /\ Turn(t) /\ calls[t].at = "idle" /\ procs[Self(t)].status = "running"
         /\ calls'[t].at = "lock" /\ calls'[t].what = "stop" /\ calls'[t].child = 0
         /\ UNCHANGED <<procs, owned, localLock, records, nextSid>>
<1> DEFINE c == [Idle EXCEPT !.at = "lock", !.what = "stop", !.sid = sid, !.all = all]
<1>1. c.at = "lock" /\ c.what = "stop" /\ c.child = 0
  BY EmptyTypes, EmptyFields DEF CallType
<1> QED
  BY <1>1, GoesTo DEF StopSession, At

\* The entry the call of t is at, and whether the call is about it.
Slot(t) == owned[Self(t)][calls[t].k]
Chosen(t) == Slot(t).proc # 0 /\ (calls[t].all \/ Slot(t).sid = calls[t].sid)

\* The entry is passed, or its process ended; the call ends after the last, or
\* at one that cannot be ended.
LEMMA KillDoes ==
  ASSUME Typed, NEW t \in Threads, Kill(t)
  PROVE  /\ Turn(t) /\ calls[t].at = "kill" /\ procs[Self(t)].status = "running"
         /\ UNCHANGED <<owned, records, nextSid>>
         /\ \/ calls[t].k = LocalMax /\ calls'[t] = Idle /\ UNCHANGED procs /\ Unlocked(t)
            \/ /\ calls[t].k \in LocalSlots /\ ~ Chosen(t)
               /\ Stays(t) /\ calls'[t].at = "kill" /\ calls'[t].k = calls[t].k + 1
               /\ UNCHANGED <<procs, localLock>>
            \/ /\ calls[t].k \in LocalSlots /\ Chosen(t) /\ CanTerminate(Slot(t).proc)
               /\ Stays(t) /\ calls'[t].at = "forget" /\ calls'[t].k = calls[t].k
               /\ Slot(t).proc \in Procs /\ Ends(Slot(t).proc) /\ UNCHANGED localLock
            \/ /\ calls[t].k \in LocalSlots /\ Chosen(t) /\ ~ CanTerminate(Slot(t).proc)
               /\ calls'[t] = Idle /\ UNCHANGED procs /\ Unlocked(t)
<1>1. calls[t].at = "kill" /\ procs[Self(t)].status = "running"
      /\ UNCHANGED <<owned, records, nextSid>>
  BY DEF Kill, At
<1>2. calls[t] \in CallType
  BY TypesOut
<1>3. calls[t].k < LocalMax => calls[t].k \in LocalSlots
  BY <1>2, Constants DEF CallType, LocalSlots
<1>4. calls[t].k < LocalMax /\ Chosen(t) => Slot(t).proc \in Procs
  BY <1>3, TypesOut, ThreadOf DEF EntryType, Slot, Chosen
<1>5. \A c \in CallType : LET d == [c EXCEPT !.k = @ + 1] IN
         d.at = c.at /\ d.what = c.what /\ d.sid = c.sid /\ d.child = c.child
         /\ d.all = c.all /\ d.k = c.k + 1
  BY DEF CallType
<1>6. \A c \in CallType : LET d == [c EXCEPT !.at = "forget"] IN
         d.at = "forget" /\ d.what = c.what /\ d.sid = c.sid /\ d.child = c.child
         /\ d.all = c.all /\ d.k = c.k
  BY DEF CallType
<1>7. CASE calls[t].k = LocalMax /\ Goto(t, Idle) /\ UNCHANGED procs /\ Unlocked(t)
  BY <1>1, <1>7, GoesTo
<1>8. CASE /\ calls[t].k < LocalMax /\ ~ Chosen(t)
           /\ Goto(t, [calls[t] EXCEPT !.k = @ + 1]) /\ UNCHANGED <<procs, localLock>>
  <2>1. Turn(t) /\ calls'[t] = [calls[t] EXCEPT !.k = @ + 1]
    BY <1>8, GoesTo
  <2>2. Stays(t) /\ calls'[t].at = "kill" /\ calls'[t].k = calls[t].k + 1
    BY <1>1, <1>2, <1>5, <2>1 DEF Stays
  <2> QED
    BY <1>1, <1>3, <1>8, <2>1, <2>2
<1>9. CASE /\ calls[t].k < LocalMax /\ Chosen(t) /\ CanTerminate(Slot(t).proc)
           /\ Goto(t, [calls[t] EXCEPT !.at = "forget"]) /\ Ends(Slot(t).proc)
           /\ UNCHANGED localLock
  <2>1. Turn(t) /\ calls'[t] = [calls[t] EXCEPT !.at = "forget"]
    BY <1>9, GoesTo
  <2>2. Stays(t) /\ calls'[t].at = "forget" /\ calls'[t].k = calls[t].k
    BY <1>2, <1>6, <2>1 DEF Stays
  <2> QED
    BY <1>1, <1>3, <1>4, <1>9, <2>1, <2>2
<1>10. CASE /\ calls[t].k < LocalMax /\ Chosen(t) /\ ~ CanTerminate(Slot(t).proc)
            /\ Goto(t, Idle) /\ UNCHANGED procs /\ Unlocked(t)
  BY <1>1, <1>3, <1>10, GoesTo
<1> QED
  BY <1>7, <1>8, <1>9, <1>10 DEF Kill, Slot, Chosen, Ends

\* The entry and its record are taken out.
LEMMA ForgetDoes ==
  ASSUME Typed, Locks, NEW t \in Threads, Forget(t)
  PROVE  /\ Turn(t) /\ calls[t].at = "forget" /\ procs[Self(t)].status = "running"
         /\ calls[t].k \in LocalSlots /\ Clears(Self(t), calls[t].k)
         /\ UNCHANGED <<procs, nextSid>>
         /\ \/ /\ calls[t].all /\ Stays(t) /\ calls'[t].at = "kill"
               /\ calls'[t].k = calls[t].k + 1 /\ UNCHANGED localLock
            \/ ~ calls[t].all /\ calls'[t] = Idle /\ Unlocked(t)
<1>1. calls[t].at = "forget" /\ procs[Self(t)].status = "running"
      /\ UNCHANGED <<procs, nextSid>> /\ Clears(Self(t), calls[t].k)
  BY DEF Forget, At, Clears, Forgotten
<1>2. calls[t] \in CallType
  BY TypesOut
<1>3. calls[t].k \in LocalSlots
  BY <1>1, <1>2, Constants DEF Locks, CallType, LocalSlots
<1>4. \A c \in CallType : LET d == [c EXCEPT !.at = "kill", !.k = @ + 1] IN
         d.at = "kill" /\ d.what = c.what /\ d.sid = c.sid /\ d.child = c.child
         /\ d.all = c.all /\ d.k = c.k + 1
  BY DEF CallType
<1>5. CASE /\ calls[t].all /\ Goto(t, [calls[t] EXCEPT !.at = "kill", !.k = @ + 1])
           /\ UNCHANGED localLock
  <2>1. Turn(t) /\ calls'[t] = [calls[t] EXCEPT !.at = "kill", !.k = @ + 1]
    BY <1>5, GoesTo
  <2>2. Stays(t) /\ calls'[t].at = "kill" /\ calls'[t].k = calls[t].k + 1
    BY <1>2, <1>4, <2>1 DEF Stays
  <2> QED
    BY <1>1, <1>3, <1>5, <2>1, <2>2
<1>6. CASE ~ calls[t].all /\ Goto(t, Idle) /\ Unlocked(t)
  BY <1>1, <1>3, <1>6, GoesTo
<1> QED
  BY <1>5, <1>6 DEF Forget

-----------------------------------------------------------------------------
(***************************************************************************)
(* What a step does to the processes and the tables                        *)
(***************************************************************************)

\* A suspended process runs; process p ends, and its tables go with it.
Runs(p) == procs[p].status = "suspended" /\ procs' = [procs EXCEPT ![p].status = "running"]
Bears(t, p) == \E pid \in OsPids, job \in BOOLEAN :
                  /\ procs[p].status = "none" /\ PidFree(pid)
                  /\ procs' = [procs EXCEPT ![p] = NewProc(t, pid, job)]
Gone(p) == \E lingers \in BOOLEAN : Leave(p, lingers)

Stores(t, k, i) ==
    /\ owned[Self(t)][k].proc = 0 /\ ~ Reaped(records)[i].used
    /\ owned' = [owned EXCEPT ![Self(t)][k] = [sid |-> calls[t].sid, proc |-> calls[t].child]]
    /\ records' = [Reaped(records) EXCEPT ![i] =
                      Record(calls[t].sid, Id(calls[t].child), Id(Self(t)))]

\* Record i of recs is torn: some of it is that of session sid.
Tears(recs, i, sid, child, owner) ==
    \E r \in Torn(sid, child, owner) : records' = [recs EXCEPT ![i] = r]

\* A step with nothing but the calls and the locks, one that reaps the
\* registry, and so on.
Shape ==
    \/ UNCHANGED <<procs, owned, records>> /\ nextSid' = nextSid
    \/ UNCHANGED <<procs, owned>> /\ records' = Reaped(records)
       /\ nextSid' \in {nextSid, nextSid + 1}
    \/ UNCHANGED <<owned, records, nextSid>> /\ \E p \in Procs :
          \/ Ends(p)
          \/ Runs(p) /\ \E t \in Threads : calls[t].at = "resume" /\ calls[t].child = p
    \/ \E t \in Threads : \E p \in Procs : /\ UNCHANGED <<owned, records, nextSid>>
                                           /\ Bears(t, p) /\ procs[Self(t)].status = "running"
                                           /\ calls[t].what = "child" => calls'[t].child = p
    \/ \E p \in Procs : \E k \in LocalSlots :
          /\ UNCHANGED <<procs, nextSid>> /\ Clears(p, k) /\ owned[p][k].proc # 0
          /\ procs[owned[p][k].proc].status \in {"dying", "dead"}
    \/ \E t \in Threads : \E k \in LocalSlots : \E i \in SharedSlots :
          /\ UNCHANGED <<procs, nextSid>> /\ calls[t].at = "store"
          /\ procs[Self(t)].status = "running" /\ Turn(t) /\ calls'[t].at = "resume"
          /\ calls[t].child \in Procs /\ Stores(t, k, i)
    \/ \E p \in Procs :
          /\ Alive(p) /\ UNCHANGED nextSid /\ Gone(p)
          /\ \/ UNCHANGED records
             \/ \E t \in Threads : \E i \in SharedSlots :
                   /\ p = Self(t) /\ calls[t].at = "store"
                   /\ ~ Reaped(records)[i].used
                   /\ Tears(Reaped(records), i, calls[t].sid, Id(calls[t].child), Id(p))
             \/ \E k \in LocalSlots : \E i \in SharedSlots :
                   /\ owned[p][k].proc # 0 /\ records[i].used
                   /\ records[i].sid = owned[p][k].sid
                   /\ Tears(records, i, owned[p][k].sid, records[i].process, records[i].owner)

\* Leaving is leaving for good.
LEMMA GoneDoes ==
  ASSUME Typed, NEW p \in Procs, Gone(p)
  PROVE  /\ procs'[p].status = "dead" /\ procs'[p].pid = procs[p].pid
         /\ procs'[p].parent = procs[p].parent /\ procs'[p].related = procs[p].related
         /\ \A q \in Procs : q # p => procs'[q] = procs[q] /\ owned'[q] = owned[q]
                                      /\ localLock'[q] = localLock[q]
         /\ \A k \in LocalSlots : owned'[p][k] = NoEntry
         /\ \A t \in Threads : calls'[t] = IF Self(t) = p THEN Idle ELSE calls[t]
  BY TypesOut DEF Gone, Leave, ProcType

\* Every step has one of the shapes.
LEMMA Shapes ==
  ASSUME Typed, Phases, Locks, Entries, [Next]_vars
  PROVE  Shape
<1>1. CASE UNCHANGED vars
  BY <1>1 DEF vars, Shape
<1>2. ASSUME NEW t \in Threads, Calls(t)
      PROVE  Shape
  <2>1. 1..MaxSid \subseteq 0..MaxSid
    BY Constants
  <2>2. CASE \E isChild \in BOOLEAN : StartSession(t, isChild)
    BY <2>2, StartDoes DEF Shape
  <2>3. CASE StopSession(t, TRUE, 0) \/ \E sid \in 1..MaxSid : StopSession(t, FALSE, sid)
    BY <2>1, <2>3, Constants, StopDoes DEF Shape
  <2>4. CASE SetTitle(t)
    BY <2>4 DEF SetTitle, Shape
  <2> QED
    BY <1>2, <2>2, <2>3, <2>4 DEF Calls
<1>3. ASSUME NEW t \in Threads, Launch(t)
      PROVE  Shape
  BY <1>3, LaunchCall DEF Shape, Bears
<1>4. ASSUME NEW t \in Threads, Reap(t)
      PROVE  Shape
  <2>1. CASE UNCHANGED <<records, owned>>
    BY <1>4, <2>1, ReapDoes DEF Shape
  <2>2. CASE ~ UNCHANGED <<records, owned>>
    <3> DEFINE k == calls[t].k
               c == owned[Self(t)][k].proc
    <3>1. /\ k \in LocalSlots /\ c # 0 /\ ~ Alive(c) /\ Clears(Self(t), k)
          /\ UNCHANGED <<procs, nextSid>>
      BY <1>4, <2>2, ReapDoes
    <3>2. c \in Procs /\ procs[c].status = "dead"
      <4>1. owned[Self(t)][k] \in EntryType
        BY <3>1, ThreadOf, TypesOut
      <4>2. c \in Procs
        BY <3>1, <4>1 DEF EntryType
      <4>3. Born(c)
        BY <3>1, ThreadOf, Zenon DEF Entries
      <4>4. procs[c] \in ProcType
        BY <4>2, TypesOut
      <4> QED
        BY <3>1, <4>2, <4>3, <4>4 DEF ProcType, Alive, Born
    <3> QED
      BY <3>1, <3>2, ThreadOf DEF Shape
  <2> QED
    BY <2>1, <2>2
<1>5. ASSUME NEW t \in Threads, Store(t)
      PROVE  Shape
  <2>1. CASE calls'[t].at = "discard"
    <3>1. UNCHANGED <<procs, owned, nextSid>> /\ (UNCHANGED records \/ records' = Reaped(records))
      BY <1>5, <2>1, StoreDoes
    <3> QED
      BY <3>1 DEF Shape
  <2>2. CASE calls'[t].at # "discard"
    BY <1>5, <2>2, StoreDoes DEF Shape, Stores
  <2> QED
    BY <2>1, <2>2
<1>6. ASSUME NEW t \in Threads, Discard(t) \/ Dispose(t) \/ Resume(t) \/ Lock(t)
      PROVE  Shape
  <2>1. CASE procs' = procs
    BY <1>6, <2>1, DiscardDoes, DisposeDoes, ResumeDoes, LockDoes DEF Shape
  <2>2. CASE ~ (procs' = procs)
    BY <1>6, <2>2, DiscardDoes, DisposeDoes, ResumeDoes, LockDoes DEF Shape, Runs
  <2> QED
    BY <2>1, <2>2
<1>7. ASSUME NEW t \in Threads, Kill(t)
      PROVE  Shape
  <2>1. CASE procs' = procs
    BY <1>7, <2>1, KillDoes DEF Shape
  <2>2. CASE ~ (procs' = procs)
    BY <1>7, <2>2, KillDoes DEF Shape
  <2> QED
    BY <2>1, <2>2
<1>8. ASSUME NEW t \in Threads, Forget(t)
      PROVE  Shape
  <2>1. /\ calls[t].k \in LocalSlots /\ Clears(Self(t), calls[t].k)
        /\ UNCHANGED <<procs, nextSid>> /\ calls[t].at = "forget"
    BY <1>8, ForgetDoes
  <2> QED
    BY <2>1, ThreadOf DEF Shape, Locks
<1>9. ASSUME NEW p \in Procs, End(p)
      PROVE  Shape
  BY <1>9 DEF End, Gone, Leave, Shape
<1>10. ASSUME NEW t \in Threads, EndInAdd(t)
       PROVE  Shape
  <2>1. PICK i \in SharedSlots : /\ Lowest(i, FreeRecords(Reaped(records)))
                                 /\ Tears(Reaped(records), i, calls[t].sid,
                                          Id(calls[t].child), Id(Self(t)))
    BY <1>10 DEF EndInAdd, Tears
  <2>2. ~ Reaped(records)[i].used
    BY <2>1 DEF Lowest, FreeRecords
  <2>3. /\ calls[t].at = "store" /\ Alive(Self(t)) /\ UNCHANGED nextSid /\ Gone(Self(t))
    BY <1>10 DEF EndInAdd, At, Alive, Gone, Leave
  <2> QED
    BY <2>1, <2>2, <2>3, ThreadOf DEF Shape
<1>11. ASSUME NEW t \in Threads, EndInRemove(t)
       PROVE  Shape
  <2> DEFINE p == Self(t)
             k == calls[t].k
  <2>1. k \in LocalSlots /\ owned[p][k].proc # 0
    BY <1>11, EndsAtEntry
  <2>2. Alive(p) /\ UNCHANGED nextSid /\ Gone(p)
    BY <1>11 DEF EndInRemove, At, Alive, Gone, Leave
  <2>3. PICK i \in SharedSlots :
           /\ Lowest(i, OfSid(records, owned[p][k].sid))
           /\ Tears(records, i, owned[p][k].sid, records[i].process, records[i].owner)
    BY <1>11 DEF EndInRemove, Tears
  <2>4. records[i].used /\ records[i].sid = owned[p][k].sid
    BY <2>3 DEF Lowest, OfSid
  <2> QED
    BY <2>1, <2>2, <2>3, <2>4, ThreadOf DEF Shape
<1> QED
  BY <1>1, <1>2, <1>3, <1>4, <1>5, <1>6, <1>7, <1>8, <1>9, <1>10, <1>11 DEF Next, GoesOn

\* What a process was born with, it keeps, and it does not live again.
Lineage ==
    \A p \in Procs : Born(p) =>
        /\ Born(p)' /\ procs'[p].pid = procs[p].pid
        /\ procs'[p].parent = procs[p].parent /\ procs'[p].related = procs[p].related
        /\ Id(p)' = Id(p)
        /\ Alive(p)' => Alive(p)
        /\ procs'[p].status = "suspended" => procs[p].status = "suspended"
        /\ procs[p].status \in {"dying", "dead"} => procs'[p].status \in {"dying", "dead"}

\* A status that changes is all that changes.
LEMMA StatusDoes ==
  ASSUME Typed, NEW p \in Procs, NEW s \in {"suspended", "running", "dying", "dead"},
         procs' = [procs EXCEPT ![p].status = s]
  PROVE  /\ procs'[p].status = s /\ procs'[p].pid = procs[p].pid
         /\ procs'[p].parent = procs[p].parent /\ procs'[p].related = procs[p].related
         /\ \A q \in Procs : q # p => procs'[q] = procs[q]
  BY TypesOut DEF ProcType

\* What is alive is dying then, and nothing else has changed.
LEMMA EndsDoes ==
  ASSUME Typed, NEW p \in Procs, Ends(p)
  PROVE  /\ Alive(p) => procs'[p].status = "dying"
         /\ ~ Alive(p) => procs'[p].status = procs[p].status
         /\ procs'[p].pid = procs[p].pid
         /\ procs'[p].parent = procs[p].parent /\ procs'[p].related = procs[p].related
         /\ \A q \in Procs : q # p => procs'[q] = procs[q]
  BY StatusDoes DEF Ends, Terminated

\* The process that is made is new, with an id that was free.
LEMMA BearsDoes ==
  ASSUME Typed, NEW t \in Threads, NEW p \in Procs, Bears(t, p)
  PROVE  /\ ~ Born(p) /\ procs'[p].parent = Self(t) /\ procs'[p].pid \in OsPids
         /\ PidFree(procs'[p].pid) /\ procs'[p].lingers = FALSE
         /\ calls[t].what = "child" => procs'[p].status = "suspended" /\ procs'[p].related = TRUE
         /\ calls[t].what # "child" => procs'[p].status = "running" /\ procs'[p].related = FALSE
         /\ \A q \in Procs : q # p => procs'[q] = procs[q]
<1>1. PICK pid \in OsPids, job \in BOOLEAN :
         /\ procs[p].status = "none" /\ PidFree(pid)
         /\ procs' = [procs EXCEPT ![p] = NewProc(t, pid, job)]
  BY DEF Bears
<1> DEFINE n == NewProc(t, pid, job)
<1>2. /\ n.pid = pid /\ n.parent = Self(t) /\ n.lingers = FALSE
      /\ calls[t].what = "child" => n.status = "suspended" /\ n.related = TRUE
      /\ calls[t].what # "child" => n.status = "running" /\ n.related = FALSE
  <2>1. /\ NewProc(t, pid, job).pid = pid /\ NewProc(t, pid, job).parent = Self(t)
        /\ NewProc(t, pid, job).lingers = FALSE
    BY NewProcIs, ZenonT(30)
  <2>2. calls[t].what = "child" =>
            NewProc(t, pid, job).status = "suspended" /\ NewProc(t, pid, job).related = TRUE
    BY NewProcIs, ZenonT(30)
  <2>3. calls[t].what # "child" =>
            NewProc(t, pid, job).status = "running" /\ NewProc(t, pid, job).related = FALSE
    BY NewProcIs, ZenonT(30)
  <2> QED
    BY <2>1, <2>2, <2>3
<1> HIDE DEF n
<1>3. procs'[p] = n /\ \A q \in Procs : q # p => procs'[q] = procs[q]
  BY <1>1, TypesOut DEF n
<1> QED
  BY <1>1, <1>2, <1>3 DEF Born

\* Only a launch makes a process.
LEMMA LineageStep ==
  ASSUME Typed, Shape
  PROVE  /\ Lineage
         /\ \A p \in Procs : ~ Born(p) /\ Born(p)' =>
               \E t \in Threads : /\ Bears(t, p) /\ UNCHANGED <<owned, records, nextSid>>
                                  /\ procs[Self(t)].status = "running"
                                  /\ calls[t].what = "child" => calls'[t].child = p
<1> USE DEF Lineage, Born, Alive, Id
<1>1. CASE procs' = procs
  BY <1>1
<1>2. ASSUME NEW p \in Procs, Ends(p) \/ Runs(p)
      PROVE  Lineage /\ \A q \in Procs : Born(q)' => Born(q)
  BY <1>2, EndsDoes, StatusDoes DEF Runs
<1>3. ASSUME NEW p \in Procs, Alive(p), Gone(p)
      PROVE  Lineage /\ \A q \in Procs : Born(q)' => Born(q)
  BY <1>3, GoneDoes
<1>4. ASSUME NEW t \in Threads, NEW p \in Procs, Bears(t, p), UNCHANGED <<owned, records, nextSid>>
      PROVE  Lineage /\ \A q \in Procs : ~ Born(q) /\ Born(q)' => q = p
  BY <1>4, BearsDoes
<1> HIDE DEF Lineage, Born, Id
<1> QED
  BY <1>1, <1>2, <1>3, <1>4 DEF Shape

\* A process that runs goes on, or it leaves.
LEMMA RunsOn ==
  ASSUME Typed, Shape, NEW p \in Procs, procs[p].status \in {"running", "dying"}
  PROVE  procs'[p].status \in {"running", "dying"} \/ Gone(p)
<1>1. CASE procs' = procs
  BY <1>1
<1>2. ASSUME NEW q \in Procs, Ends(q) \/ Runs(q)
      PROVE  procs'[p].status \in {"running", "dying"}
  BY <1>2, EndsDoes, StatusDoes DEF Runs, Alive
<1>3. ASSUME NEW q \in Procs, Gone(q)
      PROVE  procs'[p].status \in {"running", "dying"} \/ Gone(p)
  BY <1>3, GoneDoes
<1>4. ASSUME NEW t \in Threads, NEW q \in Procs, Bears(t, q)
      PROVE  procs'[p].status \in {"running", "dying"}
  BY <1>4, BearsDoes DEF Born
<1> QED
  BY <1>1, <1>2, <1>3, <1>4 DEF Shape

\* The ids given out are those up to nextSid.
LEMMA SidsGrow ==
  ASSUME Typed, Shape
  PROVE  nextSid' \in {nextSid, nextSid + 1} /\ nextSid \in Nat
<1>1. nextSid \in Nat
  BY TypesOut
<1>2. ASSUME NEW p \in Procs, Gone(p) PROVE nextSid' = nextSid
  BY <1>2 DEF Gone, Leave
<1> QED
  BY <1>1, <1>2 DEF Shape

\* A thread that does not move has in its hands what it had.
LEMMA PhaseKept ==
  ASSUME Typed, Shape, NEW u \in Threads, Phase(u), calls'[u] = calls[u],
         ~ Gone(Self(u)) \/ calls[u].at = "idle"
  PROVE  Phase(u)'
<1> DEFINE c == calls[u].child
<1>1. calls[u] \in CallType /\ Self(u) \in Procs
  BY TypesOut, ThreadOf
<1>2. c # 0 => c \in Procs
  BY <1>1 DEF CallType
<1>3. Starts(u) => calls[u].sid \in 1..nextSid'
  BY <1>1, SidsGrow DEF Phase, CallType
<1>4. calls[u].at # "idle" => procs'[Self(u)].status \in {"running", "dying"}
  BY <1>1, RunsOn DEF Phase
<1>5. c # 0 => /\ Born(c)' /\ procs'[c].related = procs[c].related
               /\ procs'[c].parent = procs[c].parent
               /\ procs'[c].status = "suspended" => procs[c].status = "suspended"
  BY <1>2, LineageStep DEF Phase, Lineage
<1>6. calls[u].at = "dispose" => c # 0
  BY DEF Phase
<1> QED
  BY <1>3, <1>4, <1>5, <1>6 DEF Phase, Starts, Born

\* The threads of a process that leaves are idle.
LEMMA PhaseOfNone ==
  ASSUME NEW u \in Threads, calls'[u] = Idle
  PROVE  Phase(u)'
  BY EmptyFields DEF Phase, Starts

\* What is in the hands of the thread that moves.
LEMMA PhaseMoves ==
  ASSUME Typed, Phases, Locks, Shape, NEW t \in Threads,
         \/ Calls(t) \/ Lock(t) \/ GoesOn(t)
  PROVE  Phase(t)' /\ (Turn(t) \/ UNCHANGED calls)
<1>0. Self(t) \in Procs /\ calls[t] \in CallType /\ Phase(t)
  BY ThreadOf, TypesOut DEF Phases
<1> DEFINE c == calls[t].child
           On(at) == /\ Stays(t) /\ calls'[t].at = at
                     /\ procs[Self(t)].status = "running" /\ nextSid' = nextSid
                     /\ procs'[Self(t)].status \in {"running", "dying"}
<1>1. c # 0 => c \in Procs
  BY <1>0 DEF CallType
<1>2. c # 0 => /\ procs'[c].status # "none" /\ procs'[c].related = procs[c].related
               /\ procs'[c].parent = procs[c].parent
               /\ procs'[c].status = "suspended" => procs[c].status = "suspended"
  <2>1. c # 0 => Born(c)
    BY <1>0 DEF Phase
  <2> QED
    BY <1>1, <2>1, LineageStep DEF Lineage, Born
<1>3. procs[Self(t)].status \in {"running", "dying"} =>
         procs'[Self(t)].status \in {"running", "dying"} \/ Gone(Self(t))
  BY <1>0, RunsOn
<1>4. ~ Gone(Self(t)) => (procs[Self(t)].status = "running" =>
                            procs'[Self(t)].status \in {"running", "dying"})
  BY <1>3
<1>5. procs' = procs => (procs[Self(t)].status = "running" =>
                            procs'[Self(t)].status \in {"running", "dying"})
  OBVIOUS
<1>6. ASSUME NEW isChild \in BOOLEAN, StartSession(t, isChild)
      PROVE  Phase(t)' /\ Turn(t)
  BY <1>0, <1>5, <1>6, StartDoes DEF Phase, Starts
<1>7. ASSUME NEW all \in BOOLEAN, NEW sid \in 0..MaxSid, StopSession(t, all, sid)
      PROVE  Phase(t)' /\ Turn(t)
  BY <1>0, <1>5, <1>7, StopDoes DEF Phase, Starts
<1>8. ASSUME SetTitle(t)
      PROVE  Phase(t)' /\ UNCHANGED calls
  BY <1>0, <1>8 DEF Phase, Starts, Born, SetTitle, At
<1>9. ASSUME Launch(t)
      PROVE  Phase(t)' /\ Turn(t)
  <2>1. CASE calls'[t] = Idle
    BY <1>9, <2>1, LaunchCall, PhaseOfNone
  <2>2. ASSUME NEW p \in Procs, Bears(t, p), calls[t].what = "child",
               calls'[t].at = "lock", calls'[t].what = "child", calls'[t].sid = calls[t].sid,
               calls'[t].child = p
        PROVE  Phase(t)'
    <3>1. Self(t) # p /\ procs'[Self(t)] = procs[Self(t)] /\ procs'[p].status = "suspended"
          /\ procs'[p].parent = Self(t) /\ procs'[p].related = TRUE
      BY <1>0, <1>9, <2>2, BearsDoes, LaunchCall DEF Born
    <3>2. nextSid' = nextSid /\ procs[Self(t)].status = "running"
      BY <1>9, LaunchCall
    <3>3. calls[t].sid \in 1..nextSid
      BY <1>0, <2>2 DEF Phase, Starts
    <3>4. p # 0
      BY Constants
    <3>5. calls'[t].sid \in 1..nextSid' /\ Born(p)'
      BY <2>2, <3>1, <3>2, <3>3 DEF Born
    <3> QED
      BY <2>2, <3>1, <3>2, <3>4, <3>5 DEF Phase, Starts
  <2> QED
    BY <1>9, <2>1, <2>2, LaunchCall DEF Bears
<1>10. ASSUME NEW at \in {"reap", "store", "resume", "discard", "kill", "forget"}, On(at),
              at \in {"store", "resume", "discard"} => calls[t].what = "child",
              at \in {"kill", "forget"} => calls[t].what = "stop",
              calls[t].what \in {"child", "stop"}, calls[t].at \notin {"idle", "launch"}
       PROVE  Phase(t)'
  BY <1>0, <1>2, <1>10 DEF Phase, Starts, Stays, Born
<1>11. ASSUME Lock(t)
       PROVE  Phase(t)' /\ Turn(t)
  BY <1>0, <1>5, <1>10, <1>11, LockDoes DEF Phase
<1>12. ASSUME Reap(t)
       PROVE  Phase(t)' /\ Turn(t)
  BY <1>0, <1>5, <1>10, <1>12, ReapDoes DEF Phase
<1>13. ASSUME Store(t)
       PROVE  Phase(t)' /\ Turn(t)
  BY <1>0, <1>5, <1>10, <1>13, StoreDoes DEF Phase
<1>14. ASSUME Discard(t)
       PROVE  Phase(t)' /\ Turn(t)
  <2>1. /\ Turn(t) /\ Stays(t) /\ calls[t].at = "discard" /\ calls'[t].at = "dispose"
        /\ procs[Self(t)].status = "running" /\ c \in Procs /\ Ends(c) /\ nextSid' = nextSid
    BY <1>14, DiscardDoes
  <2>2. procs'[c].status # "suspended" /\ procs'[Self(t)].status \in {"running", "dying"}
    BY <1>0, <2>1, EndsDoes DEF Alive
  <2> QED
    BY <1>0, <1>2, <2>1, <2>2 DEF Phase, Starts, Stays, Born
<1>15. ASSUME Dispose(t)
       PROVE  Phase(t)' /\ Turn(t)
  BY <1>15, DisposeDoes, PhaseOfNone
<1>16. ASSUME Resume(t)
       PROVE  Phase(t)' /\ Turn(t)
  <2>1. CASE calls'[t] = Idle
    BY <1>16, <2>1, ResumeDoes, PhaseOfNone
  <2>2. CASE ~ (calls'[t] = Idle)
    BY <1>0, <1>5, <1>16, <2>2, ResumeDoes DEF Phase, Starts
  <2> QED
    BY <2>1, <2>2
<1>17. ASSUME Kill(t)
       PROVE  Phase(t)' /\ Turn(t)
  <2>1. CASE calls'[t] = Idle
    BY <1>17, <2>1, KillDoes, PhaseOfNone
  <2>2. CASE ~ (calls'[t] = Idle)
    <3>1. procs'[Self(t)].status \in {"running", "dying"}
      <4>1. CASE procs' = procs
        BY <1>5, <1>17, <4>1, KillDoes
      <4>2. CASE ~ (procs' = procs)
        BY <1>0, <1>17, <4>2, KillDoes, EndsDoes DEF Alive
      <4> QED
        BY <4>1, <4>2
    <3> QED
      BY <1>0, <1>10, <1>17, <2>2, <3>1, KillDoes DEF Phase
  <2> QED
    BY <2>1, <2>2
<1>18. ASSUME Forget(t)
       PROVE  Phase(t)' /\ Turn(t)
  <2>1. CASE calls'[t] = Idle
    BY <1>18, <2>1, ForgetDoes, PhaseOfNone
  <2>2. CASE ~ (calls'[t] = Idle)
    BY <1>0, <1>5, <1>10, <1>18, <2>2, ForgetDoes DEF Phase
  <2> QED
    BY <2>1, <2>2
<1>19. Calls(t) => Phase(t)' /\ (Turn(t) \/ UNCHANGED calls)
  <2>1. 1..MaxSid \subseteq 0..MaxSid
    BY Constants
  <2> QED
    BY <1>6, <1>7, <1>8, <2>1, Constants DEF Calls
<1> QED
  BY <1>9, <1>11, <1>12, <1>13, <1>14, <1>15, <1>16, <1>17, <1>18, <1>19 DEF GoesOn

\* Steps are turns of one thread, or ends of a process.
LEMMA Turns ==
  ASSUME [Next]_vars
  PROVE  \/ UNCHANGED vars
         \/ \E t \in Threads : Calls(t) \/ Lock(t) \/ GoesOn(t)
         \/ \E p \in Procs : Alive(p) /\ Gone(p)
<1>1. ASSUME NEW t \in Threads, EndInAdd(t) \/ EndInRemove(t)
      PROVE  Alive(Self(t)) /\ Gone(Self(t))
  BY <1>1 DEF EndInAdd, EndInRemove, At, Alive, Gone
<1>2. ASSUME NEW p \in Procs, End(p)
      PROVE  Alive(p) /\ Gone(p)
  BY <1>2 DEF End, Gone
<1> QED
  BY <1>1, <1>2, ThreadOf DEF Next

\* A turn of a thread that is not at an end of a process leaves it alive.
LEMMA NoneGone ==
  ASSUME Typed, Phases, Locks, NEW t \in Threads, Calls(t) \/ Lock(t) \/ GoesOn(t)
  PROVE  \A p \in Procs : procs[p].status # "dead" => procs'[p].status # "dead"
<1>1. procs' = procs \/ (\E p \in Procs : Ends(p) \/ Runs(p)) \/ (\E p \in Procs : Bears(t, p))
  <2>1. ASSUME NEW isChild \in BOOLEAN, StartSession(t, isChild) PROVE procs' = procs
    BY <2>1 DEF StartSession
  <2>2. ASSUME NEW all \in BOOLEAN, NEW sid, StopSession(t, all, sid) PROVE procs' = procs
    BY <2>2 DEF StopSession
  <2>3. Calls(t) \/ Lock(t) \/ Reap(t) \/ Store(t) \/ Dispose(t) \/ Forget(t) => procs' = procs
    BY <2>1, <2>2 DEF Calls, SetTitle, Lock, Reap, Store, Dispose, Forget
  <2>4. Launch(t) => procs' = procs \/ \E p \in Procs : Bears(t, p)
    BY LaunchCall DEF Bears
  <2>5. Discard(t) \/ Resume(t) \/ Kill(t) => procs' = procs \/ \E p \in Procs : Ends(p) \/ Runs(p)
    BY DiscardDoes, ResumeDoes, KillDoes DEF Runs
  <2> QED
    BY <2>3, <2>4, <2>5 DEF GoesOn
<1>2. ASSUME NEW p \in Procs, Ends(p) \/ Runs(p)
      PROVE  \A q \in Procs : procs[q].status # "dead" => procs'[q].status # "dead"
  BY <1>2, EndsDoes, StatusDoes DEF Runs
<1>3. ASSUME NEW p \in Procs, Bears(t, p)
      PROVE  \A q \in Procs : procs[q].status # "dead" => procs'[q].status # "dead"
  BY <1>3, BearsDoes
<1> QED
  BY <1>1, <1>2, <1>3

\* Every thread has what it needs at each step of its call.
LEMMA PhasesStep ==
  ASSUME Typed, Phases, Locks, Entries, [Next]_vars
  PROVE  Phases'
<1>1. Shape
  BY Shapes
<1>2. CASE UNCHANGED vars
  BY <1>2 DEF vars, Phases, Phase, Starts, Born
<1>3. ASSUME NEW t \in Threads, Calls(t) \/ Lock(t) \/ GoesOn(t)
      PROVE  Phases'
  <2>1. ASSUME NEW u \in Threads, u # t \/ UNCHANGED calls
        PROVE  Phase(u)'
    <3>1. calls'[u] = calls[u]
      BY <1>1, <1>3, <2>1, PhaseMoves DEF Turn
    <3>2. Gone(Self(u)) => procs'[Self(u)].status = "dead"
      BY ThreadOf, GoneDoes
    <3>3. calls[u].at # "idle" => procs'[Self(u)].status # "dead"
      BY <1>3, NoneGone, ThreadOf DEF Phases, Phase
    <3> QED
      BY <1>1, <3>1, <3>2, <3>3, PhaseKept DEF Phases
  <2>2. Phase(t)'
    BY <1>1, <1>3, PhaseMoves
  <2> QED
    BY <2>1, <2>2 DEF Phases
<1>4. ASSUME NEW p \in Procs, Alive(p), Gone(p)
      PROVE  Phases'
  <2>1. ASSUME NEW u \in Threads, Self(u) = p
        PROVE  Phase(u)'
    BY <1>4, <2>1, GoneDoes, PhaseOfNone
  <2>2. ASSUME NEW u \in Threads, Self(u) # p
        PROVE  Phase(u)'
    <3>1. calls'[u] = calls[u] /\ procs'[Self(u)] = procs[Self(u)]
      BY <1>4, <2>2, GoneDoes, ThreadOf
    <3>2. Gone(Self(u)) => procs'[Self(u)].status = "dead"
      BY ThreadOf, GoneDoes
    <3>3. calls[u].at # "idle" => procs[Self(u)].status # "dead"
      BY DEF Phases, Phase
    <3> QED
      BY <1>1, <3>1, <3>2, <3>3, PhaseKept DEF Phases
  <2> QED
    BY <2>1, <2>2 DEF Phases
<1> QED
  BY <1>2, <1>3, <1>4, Turns

\* What a thread changes, it changes in its own process's table, and under
\* its lock.
LEMMA OwnTable ==
  ASSUME Typed, Phases, Locks, NEW t \in Threads, Calls(t) \/ Lock(t) \/ GoesOn(t)
  PROVE  /\ \A q \in Procs : q # Self(t) => owned'[q] = owned[q] /\ localLock'[q] = localLock[q]
         /\ owned' = owned \/ localLock[Self(t)] = t[2]
         /\ localLock' = localLock \/ localLock[Self(t)] \in {0, t[2]}
         /\ calls[t].at \in {"launch", "lock", "reap", "store", "kill", "resume", "discard",
                             "dispose", "forget", "idle"}
<1> DEFINE Goal == /\ \A q \in Procs : q # Self(t) =>
                          owned'[q] = owned[q] /\ localLock'[q] = localLock[q]
                   /\ owned' = owned \/ localLock[Self(t)] = t[2]
                   /\ localLock' = localLock \/ localLock[Self(t)] \in {0, t[2]}
<1>1. calls[t] \in CallType /\ Self(t) \in Procs
  BY TypesOut, ThreadOf
<1>2. CASE owned' = owned /\ localLock' = localLock
  BY <1>1, <1>2 DEF CallType
<1>3. ASSUME NEW isChild \in BOOLEAN, StartSession(t, isChild)
      PROVE  owned' = owned /\ localLock' = localLock
  BY <1>3 DEF StartSession
<1>4. ASSUME NEW all \in BOOLEAN, NEW sid, StopSession(t, all, sid)
      PROVE  owned' = owned /\ localLock' = localLock
  BY <1>4 DEF StopSession
<1>5. CASE Calls(t) \/ Launch(t) \/ Discard(t) \/ Dispose(t) \/ Resume(t)
  BY <1>2, <1>3, <1>4, <1>5 DEF Calls, SetTitle, Launch, Discard, Dispose, Resume
<1>6. CASE Lock(t)
  BY <1>1, <1>6, TypesOut, LockDoes DEF CallType
<1>7. CASE Reap(t)
  BY <1>1, <1>7, TypesOut, ReapDoes DEF CallType, Clears, Locks
<1>8. CASE Store(t)
  BY <1>1, <1>8, TypesOut, StoreDoes DEF CallType, Unlocked, Locks
<1>9. CASE Kill(t)
  BY <1>1, <1>9, TypesOut, KillDoes DEF CallType, Unlocked, Locks
<1>10. CASE Forget(t)
  BY ZenonT(30), <1>1, <1>10, TypesOut, ForgetDoes DEF CallType, Unlocked, Locks, Clears
<1> QED
  BY <1>5, <1>6, <1>7, <1>8, <1>9, <1>10 DEF GoesOn

LockOf(t) ==
    /\ calls[t].at \in {"reap", "store", "kill", "forget"} => localLock[Self(t)] = t[2]
    /\ calls[t].at = "forget" =>
           /\ calls[t].k < LocalMax /\ owned[Self(t)][calls[t].k].proc # 0
           /\ procs[owned[Self(t)][calls[t].k].proc].status \in {"dying", "dead"}

\* The lock is kept while it is needed, by the thread that moves.
LEMMA LockMoves ==
  ASSUME Typed, Phases, Locks, Entries, Shape, NEW t \in Threads,
         Calls(t) \/ Lock(t) \/ GoesOn(t)
  PROVE  LockOf(t)'
<1>1. calls[t] \in CallType /\ Self(t) \in Procs
  BY TypesOut, ThreadOf
<1>2. CASE calls'[t] = Idle
  BY <1>2, EmptyFields DEF LockOf
<1>3. CASE calls'[t].at \in {"launch", "lock", "resume", "discard", "dispose"}
  BY <1>3 DEF LockOf
<1>4. CASE UNCHANGED vars
  BY <1>4 DEF vars, LockOf, Locks
<1>5. CASE Calls(t)
  <2>1. 1..MaxSid \subseteq 0..MaxSid
    BY Constants
  <2>2. CASE SetTitle(t)
    BY <2>2, EmptyFields DEF SetTitle, At, LockOf
  <2> QED
    BY <1>3, <1>5, <2>1, <2>2, StartDoes, StopDoes, Constants DEF Calls
<1>6. CASE Launch(t)
  BY <1>2, <1>3, <1>6, LaunchCall
<1>7. CASE Lock(t)
  BY <1>1, <1>7, LockDoes, TypesOut DEF LockOf
<1>8. CASE Reap(t)
  BY <1>1, <1>8, ReapDoes DEF LockOf, Locks
<1>9. CASE Store(t)
  BY <1>3, <1>9, StoreDoes
<1>10. CASE Discard(t) \/ Dispose(t) \/ Resume(t)
  BY <1>2, <1>3, <1>10, DiscardDoes, DisposeDoes, ResumeDoes
<1>11. CASE Kill(t)
  <2>1. CASE calls'[t].at = "kill"
    BY <1>2, <1>11, <2>1, KillDoes DEF LockOf, Locks
  <2>2. CASE calls'[t].at = "forget"
    <3>1. /\ calls[t].k \in LocalSlots /\ Chosen(t) /\ calls'[t].k = calls[t].k
          /\ Slot(t).proc \in Procs /\ Ends(Slot(t).proc) /\ UNCHANGED <<owned, localLock>>
          /\ calls[t].at = "kill"
      BY <1>11, <2>2, KillDoes, EmptyFields
    <3>2. Born(Slot(t).proc)
      BY <1>1, <3>1 DEF Entries, Slot, Chosen
    <3>3. procs'[Slot(t).proc].status \in {"dying", "dead"}
      BY <3>1, <3>2, EndsDoes, TypesOut DEF Alive, Born, ProcType
    <3>4. localLock[Self(t)] = t[2]
      BY <3>1 DEF Locks
    <3>5. calls[t].k < LocalMax
      BY <3>1, Constants DEF LocalSlots
    <3> QED
      BY <2>2, <3>1, <3>3, <3>4, <3>5 DEF LockOf, Slot, Chosen
  <2> QED
    BY <1>2, <1>11, <2>1, <2>2, KillDoes
<1>12. CASE Forget(t)
  BY <1>2, <1>12, ForgetDoes DEF LockOf, Locks
<1> QED
  BY <1>5, <1>6, <1>7, <1>8, <1>9, <1>10, <1>11, <1>12 DEF GoesOn

\* Two threads of a process have different numbers.
LEMMA ThreadsDiffer == \A t, u \in Threads : t # u /\ Self(t) = Self(u) => t[2] # u[2]
  BY ThreadOf DEF Self

\* A process's own table is in one hand.
LEMMA LocksStep ==
  ASSUME Typed, Phases, Locks, Entries, [Next]_vars
  PROVE  Locks'
<1>1. Shape
  BY Shapes
<1>2. Lineage
  BY <1>1, LineageStep
<1>3. ASSUME NEW u \in Threads, calls'[u] = calls[u], owned'[Self(u)] = owned[Self(u)],
             localLock'[Self(u)] = localLock[Self(u)]
      PROVE  LockOf(u)'
  <2> DEFINE c == owned[Self(u)][calls[u].k].proc
  <2>1. CASE calls[u].at # "forget"
    BY <1>3, <2>1 DEF LockOf, Locks
  <2>2. CASE calls[u].at = "forget"
    <3>1. calls[u].k \in LocalSlots /\ c # 0 /\ procs[c].status \in {"dying", "dead"}
      BY <2>2, TypesOut, Constants DEF Locks, CallType, LocalSlots
    <3>2. c \in Procs
      BY <3>1, TypesOut, ThreadOf DEF EntryType
    <3>3. procs'[c].status \in {"dying", "dead"}
      BY <1>2, <3>1, <3>2 DEF Lineage, Born
    <3> QED
      BY <1>3, <2>2, <3>1, <3>3 DEF LockOf, Locks
  <2> QED
    BY <2>1, <2>2
<1>4. CASE UNCHANGED vars
  BY <1>4 DEF vars, Locks
<1>5. ASSUME NEW t \in Threads, Calls(t) \/ Lock(t) \/ GoesOn(t)
      PROVE  Locks'
  <2>1. LockOf(t)'
    BY <1>1, <1>5, LockMoves
  <2>2. ASSUME NEW u \in Threads, u # t
        PROVE  LockOf(u)'
    <3>1. calls'[u] = calls[u]
      BY <1>1, <1>5, <2>2, PhaseMoves DEF Turn
    <3>2. CASE Self(u) # Self(t)
      BY <1>3, <1>5, <3>1, <3>2, OwnTable, ThreadOf
    <3>3. CASE Self(u) = Self(t) /\ localLock[Self(t)] \in {0, t[2]}
      <4>1. calls[u].at \notin {"reap", "store", "kill", "forget"}
        BY <2>2, <3>3, ThreadsDiffer, ThreadOf DEF Locks
      <4> QED
        BY <3>1, <4>1 DEF LockOf
    <3>4. CASE owned' = owned /\ localLock' = localLock
      BY <1>3, <3>1, <3>4
    <3> QED
      BY <1>5, <3>2, <3>3, <3>4, OwnTable
  <2> QED
    BY <2>1, <2>2 DEF Locks, LockOf
<1>6. ASSUME NEW p \in Procs, Gone(p)
      PROVE  Locks'
  <2>1. ASSUME NEW u \in Threads, Self(u) = p
        PROVE  LockOf(u)'
    BY <1>6, <2>1, GoneDoes, EmptyFields DEF LockOf
  <2>2. ASSUME NEW u \in Threads, Self(u) # p
        PROVE  LockOf(u)'
    BY <1>3, <1>6, <2>2, GoneDoes, ThreadOf
  <2> QED
    BY <2>1, <2>2 DEF Locks, LockOf
<1> QED
  BY <1>4, <1>5, <1>6, Turns

-----------------------------------------------------------------------------
(***************************************************************************)
(* Processes                                                               *)
(***************************************************************************)

\* A thread's child is the one it had, or one that was just made.
LEMMA HandsStep ==
  ASSUME Typed, Phases, Locks, Entries, [Next]_vars, NEW u \in Threads
  PROVE  \/ calls'[u].child \in {calls[u].child, 0}
         \/ calls'[u].child \in Procs /\ ~ Born(calls'[u].child)
<1>1. Shape
  BY Shapes
<1>2. CASE UNCHANGED vars
  BY <1>2 DEF vars
<1>3. ASSUME NEW p \in Procs, Gone(p)
      PROVE  calls'[u].child \in {calls[u].child, 0}
  BY <1>3, GoneDoes, EmptyFields
<1>4. ASSUME NEW t \in Threads, Calls(t) \/ Lock(t) \/ GoesOn(t)
      PROVE  \/ calls'[u].child \in {calls[u].child, 0}
             \/ calls'[u].child \in Procs /\ ~ Born(calls'[u].child)
  <2>1. CASE calls'[u] = calls[u]
    BY <2>1
  <2>2. CASE calls'[u] # calls[u]
    <3>1. u = t /\ UNCHANGED calls => FALSE
      BY <2>2
    <3>2. u = t
      BY <1>1, <1>4, <2>2, PhaseMoves DEF Turn
    <3>3. CASE Calls(t)
      <4>1. 1..MaxSid \subseteq 0..MaxSid
        BY Constants
      <4> QED
        BY <3>1, <3>2, <3>3, <4>1, StartDoes, StopDoes, Constants DEF Calls, SetTitle
    <3>4. CASE Launch(t)
      BY <3>2, <3>4, LaunchCall, EmptyFields DEF Born
    <3>5. CASE Lock(t) \/ Reap(t) \/ Store(t) \/ Discard(t) \/ Dispose(t)
      BY <3>2, <3>5, LockDoes, ReapDoes, StoreDoes, DiscardDoes, DisposeDoes, EmptyFields
      DEF Stays
    <3>6. CASE Resume(t) \/ Kill(t) \/ Forget(t)
      BY <3>2, <3>6, ResumeDoes, KillDoes, ForgetDoes, EmptyFields DEF Stays
    <3> QED
      BY <1>4, <3>3, <3>4, <3>5, <3>6 DEF GoesOn
  <2> QED
    BY <2>1, <2>2
<1> QED
  BY <1>2, <1>3, <1>4, Turns

\* An entry is the one that was there, an empty one or one that is stored.
LEMMA EntriesMove ==
  ASSUME Typed, Shape, NEW p \in Procs, NEW k \in LocalSlots
  PROVE  \/ owned'[p][k] = owned[p][k]
         \/ owned'[p][k] = NoEntry
         \/ /\ owned[p][k].proc = 0
            /\ \E t \in Threads : \E i \in SharedSlots :
                  /\ p = Self(t) /\ calls[t].at = "store" /\ procs[p].status = "running"
                  /\ UNCHANGED <<procs, nextSid>>
                  /\ calls[t].child \in Procs /\ Stores(t, k, i)
                  /\ owned'[p][k] = [sid |-> calls[t].sid, proc |-> calls[t].child]
<1>1. CASE owned' = owned
  BY <1>1
<1>2. ASSUME NEW q \in Procs, NEW l \in LocalSlots, Clears(q, l)
      PROVE  owned'[p][k] \in {owned[p][k], NoEntry}
  BY <1>2, TypesOut DEF Clears
<1>3. ASSUME NEW t \in Threads, NEW l \in LocalSlots, NEW i \in SharedSlots,
             calls[t].at = "store", procs[Self(t)].status = "running",
             UNCHANGED <<procs, nextSid>>, calls[t].child \in Procs, Stores(t, l, i)
      PROVE  \/ owned'[p][k] = owned[p][k]
             \/ /\ owned[p][k].proc = 0 /\ p = Self(t) /\ l = k
                /\ owned'[p][k] = [sid |-> calls[t].sid, proc |-> calls[t].child]
  BY <1>3, TypesOut, ThreadOf DEF Stores
<1>4. ASSUME NEW q \in Procs, Gone(q)
      PROVE  owned'[p][k] \in {owned[p][k], NoEntry}
  BY <1>4, GoneDoes
<1> QED
  BY <1>1, <1>2, <1>3, <1>4 DEF Shape

\* No process comes back, and none is held that was let go.
LEMMA ExistsStep ==
  ASSUME Typed, Phases, Locks, Entries, [Next]_vars, NEW p \in Procs, Exists(p)', Born(p)
  PROVE  Exists(p)
<1>1. Shape
  BY Shapes
<1>2. Alive(p)' => Alive(p)
  BY <1>1, LineageStep DEF Lineage
<1>3. ASSUME Held(p)'
      PROVE  Held(p)
  <2>1. CASE \E q \in Procs, k \in LocalSlots : owned'[q][k].proc = p
    <3>1. PICK q \in Procs, k \in LocalSlots : owned'[q][k].proc = p
      BY <2>1
    <3>2. owned'[q][k].proc # 0
      BY <3>1, Constants
    <3>3. \/ owned'[q][k] = owned[q][k]
          \/ \E t \in Threads :
                owned'[q][k] = [sid |-> calls[t].sid, proc |-> calls[t].child]
      BY <1>1, <3>2, EntriesMove, EmptyFields
    <3>4. owned[q][k].proc = p \/ \E t \in Threads : calls[t].child = p
      <4>1. CASE owned'[q][k] = owned[q][k]
        BY <3>1, <4>1
      <4>2. ASSUME NEW t \in Threads,
                   owned'[q][k] = [sid |-> calls[t].sid, proc |-> calls[t].child]
            PROVE  calls[t].child = p
        <5>1. [sid |-> calls[t].sid, proc |-> calls[t].child].proc = calls[t].child
          OBVIOUS
        <5> QED
          BY <3>1, <4>2, <5>1
      <4> QED
        BY <3>3, <4>1, <4>2
    <3> QED
      BY <3>4 DEF Held
  <2>2. CASE \E t \in Threads : calls'[t].child = p
    BY <2>2, HandsStep, Constants DEF Held
  <2> QED
    BY <1>3, <2>1, <2>2 DEF Held
<1>4. ~ Alive(p) => procs[p].status = "dead"
  BY TypesOut DEF Born, Alive, ProcType
<1> QED
  BY <1>2, <1>3, <1>4 DEF Exists

\* What exists was made.
LEMMA ExistingBorn == ASSUME NEW p \in Procs, Exists(p) PROVE Born(p)
  BY DEF Exists, Alive, Born

\* A process id is given to one process at a time.
LEMMA OnePidStep ==
  ASSUME Typed, Phases, Locks, Entries, OnePid, [Next]_vars
  PROVE  OnePid'
<1>1. Shape
  BY Shapes
<1>2. Lineage
  BY <1>1, LineageStep
<1>3. ASSUME NEW p \in Procs, NEW q \in Procs, Exists(p)', Exists(q)', ~ Born(p), p # q
      PROVE  procs'[p].pid # procs'[q].pid
  <2>1. Born(p)' /\ Born(q)'
    BY <1>3 DEF Exists, Alive, Born
  <2>2. PICK t \in Threads : Bears(t, p)
    BY <1>1, <1>3, <2>1, LineageStep
  <2>3. procs'[q] = procs[q]
    BY <1>3, <2>2, BearsDoes
  <2>4. Born(q)
    BY <2>1, <2>3 DEF Born
  <2>5. Exists(q)
    BY <1>3, <2>4, ExistsStep
  <2>6. PidFree(procs'[p].pid)
    BY <2>2, BearsDoes
  <2> QED
    BY <2>3, <2>5, <2>6 DEF PidFree
<1>4. ASSUME NEW p \in Procs, NEW q \in Procs, Exists(p)', Exists(q)', Born(p), Born(q),
             procs'[p].pid = procs'[q].pid
      PROVE  p = q
  BY <1>2, <1>4, ExistsStep DEF OnePid, Lineage
<1> QED
  BY <1>3, <1>4 DEF OnePid

\* Children have parents.
LEMMA FamiliesStep ==
  ASSUME Typed, Families, Shape
  PROVE  Families'
<1>1. Lineage
  BY LineageStep
<1>2. ASSUME NEW p \in Procs, Born(p)
      PROVE  /\ procs'[p].pid \in OsPids
             /\ procs'[p].related => /\ procs'[p].parent \in Procs
                                     /\ procs'[procs'[p].parent].status # "none"
             /\ procs'[p].status = "suspended" => procs'[p].related
  BY <1>1, <1>2 DEF Families, Lineage, Born
<1>3. ASSUME NEW p \in Procs, ~ Born(p), Born(p)'
      PROVE  /\ procs'[p].pid \in OsPids
             /\ procs'[p].related => /\ procs'[p].parent \in Procs
                                     /\ procs'[procs'[p].parent].status # "none"
             /\ procs'[p].status = "suspended" => procs'[p].related
  <2>1. PICK t \in Threads : Bears(t, p) /\ procs[Self(t)].status = "running"
    BY <1>3, LineageStep
  <2>2. Self(t) \in Procs /\ Born(Self(t))
    BY <2>1, ThreadOf DEF Born
  <2>3. procs'[Self(t)].status # "none"
    BY <1>1, <2>2 DEF Lineage, Born
  <2> QED
    BY <2>1, <2>2, <2>3, BearsDoes
<1>4. ASSUME NEW p \in Procs, ~ Born(p), ~ Born(p)'
      PROVE  procs'[p] = procs[p]
  <2>1. CASE procs' = procs
    BY <2>1
  <2>2. ASSUME NEW q \in Procs, Ends(q) \/ Runs(q)
        PROVE  procs'[p] = procs[p]
    <3>1. Runs(q) => Born(q)
      BY DEF Runs, Born
    <3>2. CASE q # p
      BY <2>2, <3>2, EndsDoes, StatusDoes DEF Runs
    <3>3. CASE q = p
      BY <1>4, <2>2, <3>1, <3>3 DEF Ends, Terminated, Alive, Born
    <3> QED
      BY <3>2, <3>3
  <2>3. ASSUME NEW q \in Procs, Alive(q), Gone(q)
        PROVE  procs'[p] = procs[p]
    BY <1>4, <2>3, GoneDoes DEF Alive, Born
  <2>4. ASSUME NEW t \in Threads, NEW q \in Procs, Bears(t, q)
        PROVE  procs'[p] = procs[p]
    <3>1. procs'[q].status # "none"
      BY <2>4, BearsDoes
    <3> QED
      BY <1>4, <2>4, <3>1, BearsDoes DEF Born
  <2> QED
    BY <2>1, <2>2, <2>3, <2>4 DEF Shape
<1>5. ASSUME NEW p \in Procs, ~ Born(p), ~ Born(p)'
      PROVE  procs'[p].related => /\ procs'[p].parent \in Procs
                                  /\ procs'[procs'[p].parent].status # "none"
  BY <1>1, <1>4, <1>5 DEF Families, Lineage, Born
<1> QED
  BY <1>2, <1>3, <1>4, <1>5 DEF Families, Born

-----------------------------------------------------------------------------
(***************************************************************************)
(* The processes' own tables                                               *)
(***************************************************************************)

\* A process that lives goes on, or it leaves.
LEMMA LivesOn ==
  ASSUME Typed, Shape, NEW p \in Procs, Alive(p)
  PROVE  Alive(p)' \/ Gone(p)
<1>1. CASE procs' = procs
  BY <1>1 DEF Alive
<1>2. ASSUME NEW q \in Procs, Ends(q) \/ Runs(q)
      PROVE  Alive(p)'
  BY <1>2, EndsDoes, StatusDoes DEF Runs, Alive
<1>3. ASSUME NEW q \in Procs, Gone(q)
      PROVE  Alive(p)' \/ Gone(p)
  BY <1>3, GoneDoes DEF Alive
<1>4. ASSUME NEW t \in Threads, NEW q \in Procs, Bears(t, q)
      PROVE  Alive(p)'
  BY <1>4, BearsDoes DEF Born, Alive
<1> QED
  BY <1>1, <1>2, <1>3, <1>4 DEF Shape

\* What a thread at "store" has in its hands.
LEMMA StoreHas ==
  ASSUME Typed, Phases, NEW t \in Threads, calls[t].at = "store"
  PROVE  LET c == calls[t].child IN
         /\ c \in Procs /\ Born(c) /\ procs[c].parent = Self(t) /\ procs[c].related
         /\ calls[t].sid \in 1..nextSid /\ Pending(t)
<1>1. calls[t] \in CallType /\ Phase(t)
  BY TypesOut DEF Phases
<1>2. calls[t].what = "child" /\ calls[t].child # 0
  BY <1>1 DEF Phase
<1> QED
  BY <1>1, <1>2 DEF Phase, CallType, Starts, Pending

\* The entries are a living process's children, whatever the step.
LEMMA EntriesStep ==
  ASSUME Typed, Phases, Entries, FreshIds, Shape
  PROVE  Entries'
<1>1. Lineage /\ nextSid' \in {nextSid, nextSid + 1} /\ nextSid \in Nat
  BY LineageStep, SidsGrow
<1>2. ASSUME NEW p \in Procs, NEW k \in LocalSlots
      PROVE  /\ owned'[p][k].proc = 0 => owned'[p][k] = NoEntry
             /\ owned'[p][k].proc # 0 =>
                   /\ owned'[p][k].sid \in 1..nextSid'
                   /\ Alive(p)' /\ procs'[owned'[p][k].proc].status # "none"
                   /\ procs'[owned'[p][k].proc].parent = p
  <2>1. CASE owned'[p][k] = NoEntry
    BY <2>1, EmptyFields
  <2>2. CASE owned'[p][k] = owned[p][k] /\ owned[p][k].proc = 0
    BY <2>2 DEF Entries
  <2>3. CASE owned'[p][k] = owned[p][k] /\ owned[p][k].proc # 0 /\ owned'[p][k] # NoEntry
    <3>1. owned[p][k].proc \in Procs
      BY <2>3, TypesOut DEF EntryType
    <3>2. /\ owned[p][k].sid \in 1..nextSid /\ Alive(p) /\ Born(owned[p][k].proc)
          /\ procs[owned[p][k].proc].parent = p
      BY <2>3 DEF Entries
    <3>3. Alive(p)'
      BY <2>3, <3>2, LivesOn, GoneDoes
    <3> QED
      BY <1>1, <2>3, <3>1, <3>2, <3>3 DEF Lineage, Born
  <2>4. ASSUME NEW t \in Threads, p = Self(t), calls[t].at = "store",
               procs[p].status = "running", UNCHANGED <<procs, nextSid>>,
               owned'[p][k] = [sid |-> calls[t].sid, proc |-> calls[t].child]
        PROVE  /\ owned'[p][k].proc # 0
               /\ owned'[p][k].sid \in 1..nextSid'
               /\ Alive(p)' /\ procs'[owned'[p][k].proc].status # "none"
               /\ procs'[owned'[p][k].proc].parent = p
    <3>1. owned'[p][k].sid = calls[t].sid /\ owned'[p][k].proc = calls[t].child
      BY <2>4
    <3> QED
      BY <2>4, <3>1, StoreHas, Constants DEF Alive, Born
  <2> QED
    BY <2>1, <2>2, <2>3, <2>4, EntriesMove
<1>3. ASSUME NEW p \in Procs, NEW q \in Procs, NEW j \in LocalSlots, NEW k \in LocalSlots,
             owned'[p][j].proc # 0, owned'[q][k].proc # 0, owned'[p][j].sid = owned'[q][k].sid
      PROVE  p = q /\ j = k
  <2>1. CASE owned'[p][j] = owned[p][j] /\ owned'[q][k] = owned[q][k]
    BY <1>3, <2>1 DEF Entries
  <2>2. ASSUME NEW t \in Threads, NEW l \in LocalSlots, NEW i \in SharedSlots,
               calls[t].at = "store", Stores(t, l, i)
        PROVE  p = q /\ j = k
    <3> DEFINE e == [sid |-> calls[t].sid, proc |-> calls[t].child]
    <3>1. \A r \in Procs : \A m \in LocalSlots :
             owned'[r][m] = IF r = Self(t) /\ m = l THEN e ELSE owned[r][m]
      BY <2>2, TypesOut, ThreadOf DEF Stores
    <3>2. e.sid = calls[t].sid
      OBVIOUS
    <3>3. \A r \in Procs : \A m \in LocalSlots : owned[r][m].sid # e.sid
      BY <2>2, <3>2, StoreHas DEF FreshIds
    <3> HIDE DEF e
    <3>4. CASE (p = Self(t) /\ j = l) /\ ~ (q = Self(t) /\ k = l)
      BY <1>3, <3>1, <3>3, <3>4
    <3>5. CASE ~ (p = Self(t) /\ j = l) /\ (q = Self(t) /\ k = l)
      BY <1>3, <3>1, <3>3, <3>5
    <3>6. CASE ~ (p = Self(t) /\ j = l) /\ ~ (q = Self(t) /\ k = l)
      BY <1>3, <3>1, <3>6 DEF Entries
    <3> QED
      BY <3>4, <3>5, <3>6
  <2>3. CASE \E t \in Threads : \E l \in LocalSlots : \E i \in SharedSlots :
                calls[t].at = "store" /\ Stores(t, l, i)
    BY <2>2, <2>3
  <2> QED
    BY <1>3, <2>1, <2>3, EntriesMove, EmptyFields
<1> QED
  BY <1>2, <1>3 DEF Entries, Born

-----------------------------------------------------------------------------
(***************************************************************************)
(* The registry                                                            *)
(***************************************************************************)

\* Reaping takes out the records of which an end is dead, and no other.
LEMMA ReapedIs ==
  ASSUME NEW i \in SharedSlots
  PROVE  /\ Reaped(records)[i] \in {records[i], NoRecord}
         /\ Reaped(records)[i].used => Reaped(records)[i] = records[i]
         /\ IdentityAlive(records[i].process) /\ IdentityAlive(records[i].owner)
              => Reaped(records)[i] = records[i]
  BY EmptyFields DEF Reaped

\* Removing takes out a record with the session id, and no other.
LEMMA RemovedIs ==
  ASSUME NEW i \in SharedSlots, NEW sid
  PROVE  /\ Removed(records, sid)[i] \in {records[i], NoRecord}
         /\ Removed(records, sid)[i].used => Removed(records, sid)[i] = records[i]
         /\ records[i].sid # sid => Removed(records, sid)[i] = records[i]
  BY EmptyFields DEF Removed, Lowest, OfSid

\* An id is of one session: removing by it takes the session's record out.
LEMMA RemovedOne ==
  ASSUME RealRecords, NEW i \in SharedSlots, NEW sid, sid # 0, records[i].sid = sid
  PROVE  ~ Removed(records, sid)[i].used
<1>1. CASE ~ records[i].used
  BY <1>1, RemovedIs, EmptyFields
<1>2. CASE records[i].used
  <2>1. \A j \in OfSid(records, sid) : j = i
    BY <1>2 DEF OfSid, RealRecords
  <2>2. i \in OfSid(records, sid) /\ i <= i
    BY <1>2, Constants DEF OfSid, SharedSlots
  <2> QED
    BY <2>1, <2>2, EmptyFields DEF Removed, Lowest
<1> QED
  BY <1>1, <1>2

\* The record that a thread writes, whole or torn.
Adds(t, i) ==
    /\ calls[t].at = "store" /\ ~ Reaped(records)[i].used
    /\ \A j \in SharedSlots : j # i => records'[j] = Reaped(records)[j]
    /\ records'[i].sid \in {0, calls[t].sid}
    /\ records'[i].process \in {NoId, Id(calls[t].child)}
    /\ records'[i].owner \in {NoId, Id(Self(t))}
    /\ \/ /\ UNCHANGED procs /\ Turn(t) /\ calls'[t].at = "resume"
          /\ \E k \in LocalSlots : Stores(t, k, i)
          /\ records'[i] = Record(calls[t].sid, Id(calls[t].child), Id(Self(t)))
       \/ Gone(Self(t))

\* The record that a process leaves torn when it takes it out.
Leaves(p, k, i) ==
    /\ Gone(p) /\ owned[p][k].proc # 0 /\ records[i].used /\ records[i].sid = owned[p][k].sid
    /\ \A j \in SharedSlots : j # i => records'[j] = records[j]
    /\ records'[i].sid \in {0, records[i].sid}
    /\ records'[i].process \in {NoId, records[i].process}
    /\ records'[i].owner \in {NoId, records[i].owner}

\* What is torn is some of what was there.
LEMMA TearsDoes ==
  ASSUME NEW recs \in [SharedSlots -> RecordType], NEW i \in SharedSlots, NEW sid, NEW child,
         NEW owner, Tears(recs, i, sid, child, owner)
  PROVE  /\ \A j \in SharedSlots : j # i => records'[j] = recs[j]
         /\ records'[i].sid \in {0, sid} /\ records'[i].process \in {NoId, child}
         /\ records'[i].owner \in {NoId, owner}
<1>1. PICK r \in Torn(sid, child, owner) : records' = [recs EXCEPT ![i] = r]
  BY DEF Tears
<1>2. PICK s \in {0, sid}, c \in {NoId, child}, o \in {NoId, owner} :
         r = [used |-> TRUE, sid |-> s, process |-> c, owner |-> o]
  BY <1>1 DEF Torn
<1>3. r.sid = s /\ r.process = c /\ r.owner = o
  BY <1>2
<1>4. records'[i] = r /\ \A j \in SharedSlots : j # i => records'[j] = recs[j]
  BY <1>1
<1> QED
  BY <1>3, <1>4

\* A step takes records out, adds one or tears one.
LEMMA RecordsMove ==
  ASSUME Typed, Shape
  PROVE  \/ \A i \in SharedSlots : records'[i] = records[i] \/ ~ records'[i].used
         \/ \E t \in Threads : \E i \in SharedSlots : Adds(t, i)
         \/ \E p \in Procs : \E k \in LocalSlots : \E i \in SharedSlots : Leaves(p, k, i)
<1>1. CASE records' = records
  BY <1>1
<1>2. CASE records' = Reaped(records)
  BY <1>2, ReapedIs, EmptyFields
<1>3. ASSUME NEW p \in Procs, NEW k \in LocalSlots, Clears(p, k)
      PROVE  \A i \in SharedSlots : records'[i] = records[i] \/ ~ records'[i].used
  BY <1>3, RemovedIs, EmptyFields DEF Clears
<1>4. ASSUME NEW t \in Threads, NEW k \in LocalSlots, NEW i \in SharedSlots, UNCHANGED procs,
             calls[t].at = "store", Turn(t), calls'[t].at = "resume", Stores(t, k, i)
      PROVE  Adds(t, i)
  <2> DEFINE r == Record(calls[t].sid, Id(calls[t].child), Id(Self(t)))
  <2>1. r.sid = calls[t].sid /\ r.process = Id(calls[t].child) /\ r.owner = Id(Self(t))
    BY DEF Record
  <2> HIDE DEF r
  <2>2. Reaped(records) \in [SharedSlots -> RecordType]
    BY RegistryTypes, TypesOut
  <2>3. records' = [Reaped(records) EXCEPT ![i] = r] /\ ~ Reaped(records)[i].used
    BY <1>4 DEF Stores, r
  <2>4. records'[i] = r /\ \A j \in SharedSlots : j # i => records'[j] = Reaped(records)[j]
    BY <2>2, <2>3
  <2> QED
    BY <1>4, <2>1, <2>3, <2>4 DEF Adds, r
<1>5. ASSUME NEW t \in Threads, NEW i \in SharedSlots, Gone(Self(t)),
             calls[t].at = "store", ~ Reaped(records)[i].used,
             Tears(Reaped(records), i, calls[t].sid, Id(calls[t].child), Id(Self(t)))
      PROVE  Adds(t, i)
  BY <1>5, TearsDoes, RegistryTypes, TypesOut DEF Adds
<1>6. ASSUME NEW p \in Procs, NEW k \in LocalSlots, NEW i \in SharedSlots, Gone(p),
             owned[p][k].proc # 0, records[i].used, records[i].sid = owned[p][k].sid,
             Tears(records, i, owned[p][k].sid, records[i].process, records[i].owner)
      PROVE  Leaves(p, k, i)
  BY <1>6, TearsDoes, TypesOut DEF Leaves
<1> QED
  BY <1>1, <1>2, <1>3, <1>4, <1>5, <1>6 DEF Shape

\* An id that was of a process stays its id.
LEMMA RealIdStays ==
  ASSUME Typed, Shape
  PROVE  /\ \A id : RealId(id) => RealId(id)'
         /\ \A p \in Procs : Born(p) => RealId(Id(p)) /\ Id(p).token = p
<1>1. Lineage
  BY LineageStep
<1>2. \A p \in Procs : Born(p) => RealId(Id(p)) /\ Id(p).token = p
  BY DEF RealId, Id
<1>3. ASSUME NEW id, RealId(id)
      PROVE  RealId(id)'
  BY <1>1, <1>3 DEF RealId, Lineage
<1> QED
  BY <1>2, <1>3

\* The registry's ids are real, and a session id is of one record.
LEMMA RealRecordsStep ==
  ASSUME Typed, Phases, FreshIds, RealRecords, Shape
  PROVE  RealRecords'
<1>1. /\ nextSid' \in {nextSid, nextSid + 1} /\ nextSid \in Nat /\ NoId = NoId'
      /\ \A i \in SharedSlots : records[i].sid \in Nat
  BY SidsGrow, TypesOut DEF RecordType
<1>2. RealId(NoId)'
  BY DEF RealId
<1>3. ASSUME NEW i \in SharedSlots, records'[i] = records[i]
      PROVE  records'[i].used => /\ records'[i].sid <= nextSid'
                                 /\ RealId(records[i].process)' /\ RealId(records[i].owner)'
  BY <1>1, <1>3, RealIdStays DEF RealRecords
<1> DEFINE Real(i) == records'[i].used =>
              /\ records'[i].sid <= nextSid'
              /\ \E id : id = records'[i].process /\ RealId(id)'
              /\ \E id : id = records'[i].owner /\ RealId(id)'
           Alone(i, j) == records'[i].used /\ records'[j].used /\ records'[i].sid # 0
                            /\ records'[i].sid = records'[j].sid => i = j
<1>4. CASE \A i \in SharedSlots : records'[i] = records[i] \/ ~ records'[i].used
  <2>1. \A i \in SharedSlots : Real(i)
    BY <1>3, <1>4
  <2>2. \A i, j \in SharedSlots : Alone(i, j)
    BY <1>4 DEF RealRecords
  <2> QED
    BY <2>1, <2>2 DEF RealRecords
<1>5. ASSUME NEW t \in Threads, NEW i \in SharedSlots, Adds(t, i)
      PROVE  RealRecords'
  <2>1. /\ calls[t].child \in Procs /\ Born(calls[t].child) /\ Born(Self(t))
        /\ calls[t].sid \in 1..nextSid /\ Pending(t) /\ Self(t) \in Procs
    BY <1>5, StoreHas, ThreadOf DEF Adds, Phases, Phase, Born
  <2>2. RealId(Id(calls[t].child)) /\ RealId(Id(Self(t)))
    BY <2>1, RealIdStays
  <2>3. \A j \in SharedSlots : j # i /\ records'[j].used =>
           records'[j] = records[j] /\ records'[j].sid # calls[t].sid
    BY <1>5, <2>1, ReapedIs DEF Adds, FreshIds
  <2>4. Real(i)
    <3>1. records'[i].sid <= nextSid'
      BY <1>1, <1>5, <2>1 DEF Adds
    <3>2. /\ records'[i].process \in {NoId, Id(calls[t].child)}
          /\ records'[i].owner \in {NoId, Id(Self(t))}
      BY <1>5 DEF Adds
    <3>3. \A id : RealId(id) => RealId(id)'
      BY RealIdStays
    <3> QED
      BY <1>2, <2>2, <3>1, <3>2, <3>3
  <2>5. \A j \in SharedSlots : Real(j)
    BY <1>3, <2>3, <2>4
  <2>6. \A j, k \in SharedSlots : Alone(j, k)
    <3>1. records'[i].sid \in {0, calls[t].sid}
      BY <1>5 DEF Adds
    <3> QED
      BY <2>3, <3>1 DEF RealRecords
  <2> QED
    BY <2>5, <2>6 DEF RealRecords
<1>6. ASSUME NEW p \in Procs, NEW k \in LocalSlots, NEW i \in SharedSlots, Leaves(p, k, i)
      PROVE  RealRecords'
  <2>1. Real(i)
    <3>1. records'[i].sid <= nextSid'
      BY <1>1, <1>6 DEF Leaves, RealRecords
    <3>2. /\ records'[i].process \in {NoId, records[i].process}
          /\ records'[i].owner \in {NoId, records[i].owner}
          /\ RealId(records[i].process) /\ RealId(records[i].owner)
      BY <1>6 DEF Leaves, RealRecords
    <3>3. \A id : RealId(id) => RealId(id)'
      BY RealIdStays
    <3> QED
      BY <1>2, <3>1, <3>2, <3>3
  <2>2. \A j \in SharedSlots : Real(j)
    BY <1>3, <1>6, <2>1 DEF Leaves
  <2>3. \A j, l \in SharedSlots : Alone(j, l)
    BY <1>6 DEF Leaves, RealRecords
  <2> QED
    BY <2>2, <2>3 DEF RealRecords
<1> QED
  BY <1>4, <1>5, <1>6, RecordsMove

\* An entry goes when it is taken out, or with its process.
LEMMA EntryLost ==
  ASSUME Typed, Shape, NEW p \in Procs, NEW k \in LocalSlots, owned[p][k].proc # 0,
         owned'[p][k] # owned[p][k]
  PROVE  /\ owned'[p][k] = NoEntry
         /\ \/ /\ UNCHANGED <<procs, nextSid>> /\ Clears(p, k)
               /\ procs[owned[p][k].proc].status \in {"dying", "dead"}
            \/ Gone(p)
<1>1. CASE owned' = owned
  BY <1>1
<1>2. ASSUME NEW q \in Procs, NEW l \in LocalSlots, Clears(q, l), UNCHANGED <<procs, nextSid>>,
             procs[owned[q][l].proc].status \in {"dying", "dead"}
      PROVE  owned'[p][k] = NoEntry /\ Clears(p, k)
             /\ procs[owned[p][k].proc].status \in {"dying", "dead"}
  <2>1. q = p /\ l = k
    BY <1>2, TypesOut DEF Clears
  <2> QED
    BY <1>2, <2>1, TypesOut DEF Clears
<1>3. ASSUME NEW t \in Threads, NEW l \in LocalSlots, NEW i \in SharedSlots, Stores(t, l, i)
      PROVE  FALSE
  BY <1>3, TypesOut, ThreadOf DEF Stores
<1>4. ASSUME NEW q \in Procs, Gone(q)
      PROVE  owned'[p][k] = NoEntry /\ Gone(p)
  BY <1>4, GoneDoes
<1> QED
  BY <1>1, <1>2, <1>3, <1>4 DEF Shape

\* The record of an entry that stays is the same.
LEMMA AsRecordStays ==
  ASSUME Typed, Entries, Shape, NEW p \in Procs, NEW k \in LocalSlots, owned[p][k].proc # 0,
         owned'[p][k] = owned[p][k]
  PROVE  AsRecord(p, k)' = AsRecord(p, k) /\ owned[p][k].proc \in Procs
         /\ Born(owned[p][k].proc) /\ Alive(p) /\ Born(p) /\ owned[p][k].sid \in 1..nextSid
<1>1. owned[p][k].proc \in Procs
  BY TypesOut DEF EntryType
<1>2. Born(owned[p][k].proc) /\ Alive(p) /\ Born(p) /\ owned[p][k].sid \in 1..nextSid
  BY DEF Entries, Alive, Born
<1>3. Lineage
  BY LineageStep
<1>4. Id(p)' = Id(p) /\ procs'[owned[p][k].proc].pid = procs[owned[p][k].proc].pid
  BY <1>1, <1>2, <1>3 DEF Lineage
<1> QED
  BY <1>1, <1>2, <1>4 DEF AsRecord, Record, Id

\* The fields of an entry's record.
LEMMA AsRecordFields ==
  \A p \in Procs : \A k \in LocalSlots :
     LET r == AsRecord(p, k) IN
     /\ r.used = TRUE /\ r.sid = owned[p][k].sid /\ r.process = Id(owned[p][k].proc)
     /\ r.owner = Id(p) /\ r.process.token = owned[p][k].proc /\ r.owner.token = p
  BY ZenonT(30) DEF AsRecord, Record, Id

\* The record that is stored is that of the entry that is stored with it.
LEMMA StoredAlike ==
  ASSUME Typed, Phases, NEW t \in Threads, NEW k \in LocalSlots, NEW i \in SharedSlots,
         calls[t].at = "store", UNCHANGED procs, Stores(t, k, i)
  PROVE  /\ owned'[Self(t)][k].proc = calls[t].child /\ owned'[Self(t)][k].sid = calls[t].sid
         /\ calls[t].child \in Procs
         /\ records'[i] = AsRecord(Self(t), k)'
         /\ \A j \in SharedSlots : j # i => records'[j] = Reaped(records)[j]
<1> DEFINE e == [sid |-> calls[t].sid, proc |-> calls[t].child]
<1>1. e.sid = calls[t].sid /\ e.proc = calls[t].child
  OBVIOUS
<1> HIDE DEF e
<1>2. owned'[Self(t)][k] = e
  BY TypesOut, ThreadOf DEF Stores, e
<1>3. Reaped(records) \in [SharedSlots -> RecordType]
  BY RegistryTypes, TypesOut
<1>4. /\ records'[i] = Record(calls[t].sid, Id(calls[t].child), Id(Self(t)))
      /\ \A j \in SharedSlots : j # i => records'[j] = Reaped(records)[j]
  BY <1>3 DEF Stores
<1> QED
  BY <1>1, <1>2, <1>4, StoreHas DEF AsRecord, Record, Id

\* The registry has nothing in a living process's name but its children.
LEMMA MirroredStep ==
  ASSUME Typed, Phases, Entries, FreshIds, RealRecords, Mirrored, Shape
  PROVE  Mirrored'
<1>1. Lineage
  BY LineageStep
<1>2. ASSUME NEW i \in SharedSlots, NEW p \in Procs, records'[i].used,
             records'[i].owner.token = p, Alive(p)'
      PROVE  \E k \in LocalSlots : owned'[p][k].proc # 0 /\ records'[i] = AsRecord(p, k)'
  <2>1. CASE records'[i] = records[i]
    <3>1. Born(p)
      BY <1>2, <2>1, EmptyFields, Constants DEF RealRecords, RealId
    <3>2. Alive(p)
      BY <1>1, <1>2, <3>1 DEF Lineage
    <3>3. PICK k \in LocalSlots : owned[p][k].proc # 0 /\ records[i] = AsRecord(p, k)
      BY <1>2, <2>1, <3>2 DEF Mirrored
    <3>4. CASE owned'[p][k] = owned[p][k]
      BY <2>1, <3>3, <3>4, AsRecordStays
    <3>5. CASE owned'[p][k] # owned[p][k]
      <4>1. ~ Gone(p)
        BY <1>2, GoneDoes DEF Alive
      <4>2. records' = Removed(records, owned[p][k].sid)
        BY <3>3, <3>5, <4>1, EntryLost DEF Clears
      <4>3. records[i].sid = owned[p][k].sid /\ owned[p][k].sid # 0
        BY <3>3, AsRecordFields DEF Entries
      <4> QED
        BY <1>2, <4>2, <4>3, RemovedOne
    <3> QED
      BY <3>4, <3>5
  <2>2. ASSUME NEW t \in Threads, Adds(t, i)
        PROVE  \E k \in LocalSlots : owned'[p][k].proc # 0 /\ records'[i] = AsRecord(p, k)'
    <3>1. records'[i].owner \in {NoId, Id(Self(t))}
      BY <2>2 DEF Adds
    <3>2. p = Self(t)
      BY <1>2, <3>1, EmptyFields, Constants DEF Id
    <3>3. ~ Gone(Self(t))
      BY <1>2, <3>2, GoneDoes DEF Alive
    <3>4. PICK k \in LocalSlots : Stores(t, k, i)
      BY <2>2, <3>3 DEF Adds
    <3> QED
      BY <2>2, <3>2, <3>3, <3>4, StoredAlike, Constants DEF Adds
  <2>3. ASSUME NEW q \in Procs, NEW k \in LocalSlots, Leaves(q, k, i)
        PROVE  FALSE
    <3>1. records[i] = AsRecord(q, k)
      BY <2>3 DEF Leaves, Mirrored
    <3>2. records'[i].owner \in {NoId, Id(q)}
      BY <2>3, <3>1, AsRecordFields DEF Leaves
    <3>3. p = q
      BY <1>2, <3>2, EmptyFields, Constants DEF Id
    <3> QED
      BY <1>2, <2>3, <3>3, GoneDoes DEF Leaves, Alive
  <2>4. \/ records'[i] = records[i]
        \/ \E t \in Threads : Adds(t, i)
        \/ \E q \in Procs : \E k \in LocalSlots : Leaves(q, k, i)
    <3>1. ASSUME NEW t \in Threads, NEW j \in SharedSlots, Adds(t, j), j # i
          PROVE  records'[i] = records[i]
      BY <1>2, <3>1, ReapedIs DEF Adds
    <3>2. ASSUME NEW q \in Procs, NEW k \in LocalSlots, NEW j \in SharedSlots, Leaves(q, k, j),
                 j # i
          PROVE  records'[i] = records[i]
      BY <3>2 DEF Leaves
    <3> QED
      BY <1>2, <3>1, <3>2, RecordsMove
  <2> QED
    BY <2>1, <2>2, <2>3, <2>4
<1>3. ASSUME NEW i \in SharedSlots, NEW p \in Procs, NEW k \in LocalSlots, records'[i].used,
             owned'[p][k].proc # 0, records'[i].sid = owned'[p][k].sid
      PROVE  records'[i] = AsRecord(p, k)'
  <2>1. CASE owned'[p][k] = owned[p][k]
    <3>1. /\ AsRecord(p, k)' = AsRecord(p, k) /\ owned[p][k].sid \in 1..nextSid
          /\ owned[p][k].proc # 0
      BY <1>3, <2>1, AsRecordStays
    <3>2. CASE records'[i] = records[i]
      BY <1>3, <2>1, <3>1, <3>2 DEF Mirrored
    <3>3. ASSUME NEW t \in Threads, Adds(t, i)
          PROVE  FALSE
      <4>1. records'[i].sid \in {0, calls[t].sid} /\ owned[p][k].sid # calls[t].sid
        BY <3>3, StoreHas DEF Adds, FreshIds
      <4> QED
        BY <1>3, <2>1, <3>1, <4>1
    <3>4. ASSUME NEW q \in Procs, NEW l \in LocalSlots, Leaves(q, l, i)
          PROVE  FALSE
      <4>1. records'[i].sid \in {0, owned[q][l].sid} /\ owned[q][l].proc # 0 /\ Gone(q)
        BY <3>4 DEF Leaves
      <4>2. p = q /\ k = l
        BY <1>3, <2>1, <3>1, <4>1 DEF Entries
      <4> QED
        BY <1>3, <4>1, <4>2, GoneDoes, EmptyFields
    <3>5. ASSUME NEW t \in Threads, NEW j \in SharedSlots, Adds(t, j), j # i
          PROVE  records'[i] = records[i]
      BY <1>3, <3>5, ReapedIs DEF Adds
    <3>6. ASSUME NEW q \in Procs, NEW l \in LocalSlots, NEW j \in SharedSlots, Leaves(q, l, j),
                 j # i
          PROVE  records'[i] = records[i]
      BY <3>6 DEF Leaves
    <3> QED
      BY <1>3, <3>2, <3>3, <3>4, <3>5, <3>6, RecordsMove
  <2>2. ASSUME NEW t \in Threads, NEW j \in SharedSlots, p = Self(t), calls[t].at = "store",
               UNCHANGED <<procs, nextSid>>, Stores(t, k, j)
        PROVE  records'[i] = AsRecord(p, k)'
    <3>1. CASE i = j
      BY <2>2, <3>1, StoredAlike
    <3>2. CASE i # j
      <4>1. records'[i] = records[i] /\ records[i].sid = calls[t].sid /\ records[i].used
        BY <1>3, <2>2, <3>2, StoredAlike, ReapedIs
      <4> QED
        BY <2>2, <4>1, StoreHas DEF FreshIds
    <3> QED
      BY <3>1, <3>2
  <2> QED
    BY <1>3, <2>1, <2>2, EntriesMove, EmptyFields
<1> QED
  BY <1>2, <1>3 DEF Mirrored

\* The record of a living session of a living process is left alone.
LEMMA RecordKept ==
  ASSUME Typed, Shape, NEW i \in SharedSlots, records[i].used,
         IdentityAlive(records[i].process), IdentityAlive(records[i].owner),
         \A q \in Procs : \A l \in LocalSlots :
            owned[q][l].proc # 0 /\ owned[q][l].sid = records[i].sid =>
               owned'[q][l] = owned[q][l]
  PROVE  records'[i] = records[i]
<1>1. Reaped(records)[i] = records[i]
  BY ReapedIs
<1>2. ASSUME NEW p \in Procs, NEW k \in LocalSlots, Clears(p, k), owned[p][k].proc # 0
      PROVE  records'[i] = records[i]
  <2>1. owned'[p][k] # owned[p][k]
    BY <1>2, TypesOut, EmptyFields DEF Clears
  <2>2. records[i].sid # owned[p][k].sid
    BY <1>2, <2>1
  <2> QED
    BY <1>2, <2>2, RemovedIs DEF Clears
<1>3. ASSUME NEW t \in Threads, NEW k \in LocalSlots, NEW j \in SharedSlots, Stores(t, k, j)
      PROVE  records'[i] = records[i]
  BY <1>1, <1>3, RegistryTypes, TypesOut DEF Stores
<1>4. ASSUME NEW j \in SharedSlots, ~ Reaped(records)[j].used, NEW sid, NEW c, NEW o,
             Tears(Reaped(records), j, sid, c, o)
      PROVE  records'[i] = records[i]
  BY <1>1, <1>4, RegistryTypes, TypesOut DEF Tears
<1>5. ASSUME NEW p \in Procs, NEW k \in LocalSlots, NEW j \in SharedSlots, Gone(p),
             owned[p][k].proc # 0, records[j].sid = owned[p][k].sid, NEW c, NEW o,
             Tears(records, j, owned[p][k].sid, c, o)
      PROVE  records'[i] = records[i]
  <2>1. j # i
    BY <1>5, GoneDoes, EmptyFields
  <2> QED
    BY <1>5, <2>1, TypesOut DEF Tears
<1> QED
  BY <1>1, <1>2, <1>3, <1>4, <1>5 DEF Shape

\* A living process is found by its id.
LEMMA AliveFound == ASSUME NEW p \in Procs, Alive(p) PROVE IdentityAlive(Id(p))
  BY DEF IdentityAlive, Exists

\* A living child in a process's table is in the registry.
LEMMA KnownStep ==
  ASSUME Typed, Phases, Entries, Known, Shape
  PROVE  Known'
<1> SUFFICES ASSUME NEW p \in Procs, NEW k \in LocalSlots, owned'[p][k].proc # 0,
                    Alive(owned[p][k].proc)'
             PROVE  \E i \in SharedSlots : records'[i] = AsRecord(p, k)'
  BY DEF Known
<1>1. CASE owned'[p][k] = owned[p][k]
  <2> DEFINE c == owned[p][k].proc
  <2>1. /\ AsRecord(p, k)' = AsRecord(p, k) /\ c \in Procs /\ Born(c) /\ Alive(p) /\ c # 0
    BY <1>1, AsRecordStays
  <2>2. Alive(c)
    BY <1>1, <2>1, LineageStep DEF Lineage, Alive
  <2>3. PICK i \in SharedSlots : records[i] = AsRecord(p, k)
    BY <2>1, <2>2 DEF Known
  <2>4. /\ records[i].used /\ records[i].sid = owned[p][k].sid
        /\ IdentityAlive(records[i].process) /\ IdentityAlive(records[i].owner)
    BY <2>1, <2>2, <2>3, AsRecordFields, AliveFound
  <2>5. \A q \in Procs : \A l \in LocalSlots :
           owned[q][l].proc # 0 /\ owned[q][l].sid = records[i].sid =>
               owned'[q][l] = owned[q][l]
    BY <1>1, <2>1, <2>4 DEF Entries
  <2> QED
    BY <2>1, <2>3, <2>4, <2>5, RecordKept
<1>2. ASSUME NEW t \in Threads, NEW j \in SharedSlots, p = Self(t), calls[t].at = "store",
             UNCHANGED <<procs, nextSid>>, Stores(t, k, j)
      PROVE  records'[j] = AsRecord(p, k)'
  BY <1>2, StoredAlike
<1> QED
  BY <1>1, <1>2, EntriesMove, EmptyFields

-----------------------------------------------------------------------------
(***************************************************************************)
(* Session ids                                                             *)
(***************************************************************************)

\* The call of a thread either is the one it was or begins.
LEMMA PendingStep ==
  ASSUME Typed, Phases, Locks, Entries, [Next]_vars, NEW u \in Threads, Pending(u)'
  PROVE  \/ Pending(u) /\ calls'[u].sid = calls[u].sid
         \/ /\ calls'[u].sid = nextSid + 1 /\ Turn(u) /\ UNCHANGED owned
            /\ records' = Reaped(records)
<1>1. Shape
  BY Shapes
<1>2. CASE calls'[u] = calls[u]
  BY <1>2 DEF Pending, Starts
<1>3. calls'[u] # Idle
  BY EmptyFields DEF Pending, Starts
<1>4. ASSUME NEW p \in Procs, Gone(p)
      PROVE  calls'[u] = calls[u]
  BY <1>3, <1>4, GoneDoes
<1>5. ASSUME NEW t \in Threads, Calls(t) \/ Lock(t) \/ GoesOn(t), calls'[u] # calls[u]
      PROVE  u = t
  BY <1>1, <1>5, PhaseMoves DEF Turn
<1>6. ASSUME calls'[u] # calls[u], Calls(u) \/ Lock(u) \/ GoesOn(u)
      PROVE  \/ Pending(u) /\ calls'[u].sid = calls[u].sid
             \/ /\ calls'[u].sid = nextSid + 1 /\ Turn(u) /\ UNCHANGED owned
                /\ records' = Reaped(records)
  <2>1. Phase(u) /\ calls'[u].what \in {"child", "free"}
        /\ calls'[u].at \in {"launch", "lock", "reap", "store"}
    BY DEF Phases, Pending, Starts
  <2>2. CASE Calls(u)
    <3>1. 1..MaxSid \subseteq 0..MaxSid
      BY Constants
    <3>2. ~ SetTitle(u)
      BY <1>6 DEF SetTitle
    <3>3. ASSUME NEW all \in BOOLEAN, NEW sid \in 0..MaxSid PROVE ~ StopSession(u, all, sid)
      BY <2>1, StopDoes
    <3> QED
      BY <2>2, <3>1, <3>2, <3>3, StartDoes, Constants DEF Calls
  <2>3. CASE Launch(u)
    BY <1>3, <2>3, LaunchCall DEF Pending, Starts
  <2>4. CASE Lock(u) \/ Reap(u)
    BY <2>1, <2>4, LockDoes, ReapDoes DEF Pending, Starts, Stays
  <2>5. CASE Store(u) \/ Discard(u) \/ Dispose(u)
    BY <1>3, <2>1, <2>5, StoreDoes, DiscardDoes, DisposeDoes
  <2>6. CASE Resume(u) \/ Kill(u) \/ Forget(u)
    <3>1. calls[u].at \in {"kill", "forget"} => calls[u].what = "stop"
      BY <2>1 DEF Phase
    <3> QED
      BY <1>3, <2>1, <2>6, <3>1, ResumeDoes, KillDoes, ForgetDoes DEF Stays
  <2> QED
    BY <1>6, <2>2, <2>3, <2>4, <2>5, <2>6 DEF GoesOn
<1> QED
  BY <1>2, <1>4, <1>5, <1>6, Turns DEF vars

\* The id of a session that is being started is nobody else's.
LEMMA FreshIdsStep ==
  ASSUME Typed, Phases, Locks, Entries, FreshIds, RealRecords, [Next]_vars
  PROVE  FreshIds'
<1>1. Shape /\ nextSid \in Nat
  BY Shapes, TypesOut
<1>2. ASSUME NEW u \in Threads, Pending(u) PROVE calls[u].sid \in 1..nextSid
  BY <1>2 DEF Pending, Phases, Phase
<1>3. ASSUME NEW u \in Threads, Pending(u)', Pending(u), calls'[u].sid = calls[u].sid
      PROVE  /\ \A p \in Procs : \A k \in LocalSlots : owned'[p][k].sid # calls'[u].sid
             /\ \A i \in SharedSlots : records'[i].used => records'[i].sid # calls'[u].sid
  <2> DEFINE s == calls[u].sid
  <2>1. s # 0
    BY <1>2, <1>3
  <2>2. ASSUME NEW t \in Threads, calls[t].at = "store",
               (calls'[t].at = "resume") \/ Gone(Self(t))
        PROVE  calls[t].sid # s
    <3>1. Pending(t)
      BY <2>2, StoreHas
    <3>2. t # u
      BY <1>3, <2>2, GoneDoes, ThreadOf, EmptyFields DEF Pending, Starts
    <3> QED
      BY <1>3, <3>1, <3>2 DEF FreshIds
  <2>3. ASSUME NEW p \in Procs, NEW k \in LocalSlots
        PROVE  owned'[p][k].sid # s
    <3>1. CASE owned'[p][k] = owned[p][k]
      BY <1>3, <3>1 DEF FreshIds
    <3>2. CASE owned'[p][k] = NoEntry
      BY <2>1, <3>2, EmptyFields
    <3>3. CASE owned'[p][k] # owned[p][k] /\ owned'[p][k] # NoEntry
      <4>1. \E t \in Threads : \E l \in LocalSlots : \E i \in SharedSlots :
               /\ UNCHANGED <<procs, nextSid>> /\ calls[t].at = "store"
               /\ calls'[t].at = "resume" /\ Stores(t, l, i)
        <5>1. ASSUME NEW q \in Procs, NEW l \in LocalSlots, Clears(q, l)
              PROVE  owned'[p][k] \in {owned[p][k], NoEntry}
          BY <5>1, TypesOut DEF Clears
        <5>2. ASSUME NEW q \in Procs, Gone(q)
              PROVE  owned'[p][k] \in {owned[p][k], NoEntry}
          BY <5>2, GoneDoes
        <5> QED
          BY <1>1, <3>3, <5>1, <5>2 DEF Shape
      <4>2. PICK t \in Threads, l \in LocalSlots, i \in SharedSlots :
               /\ UNCHANGED <<procs, nextSid>> /\ calls[t].at = "store"
               /\ calls'[t].at = "resume" /\ Stores(t, l, i)
        BY <4>1
      <4>3. p = Self(t) /\ k = l
        BY <3>3, <4>2, TypesOut, ThreadOf DEF Stores
      <4> QED
        BY <2>2, <4>2, <4>3, StoredAlike
    <3> QED
      BY <3>1, <3>2, <3>3
  <2>4. ASSUME NEW i \in SharedSlots, records'[i].used
        PROVE  records'[i].sid # s
    <3>1. CASE records'[i] = records[i]
      BY <1>3, <2>4, <3>1 DEF FreshIds
    <3>2. ASSUME NEW t \in Threads, NEW j \in SharedSlots, Adds(t, j)
          PROVE  records'[i].sid # s
      <4>1. calls[t].sid # s
        BY <2>2, <3>2 DEF Adds
      <4>2. CASE i = j
        BY <2>1, <3>2, <4>1, <4>2 DEF Adds
      <4>3. CASE i # j
        BY <2>4, <3>1, <3>2, <4>3, ReapedIs DEF Adds
      <4> QED
        BY <4>2, <4>3
    <3>3. ASSUME NEW q \in Procs, NEW k \in LocalSlots, NEW j \in SharedSlots, Leaves(q, k, j)
          PROVE  records'[i].sid # s
      <4>1. CASE i = j
        <5>1. records'[i].sid \in {0, records[i].sid} /\ records[i].used
          BY <3>3, <4>1 DEF Leaves
        <5> QED
          BY <1>3, <2>1, <5>1 DEF FreshIds
      <4>2. CASE i # j
        BY <3>1, <3>3, <4>2 DEF Leaves
      <4> QED
        BY <4>1, <4>2
    <3> QED
      BY <1>1, <2>4, <3>1, <3>2, <3>3, RecordsMove
  <2> QED
    BY <1>3, <2>3, <2>4
<1>4. ASSUME NEW u \in Threads, calls'[u].sid = nextSid + 1, UNCHANGED owned,
             records' = Reaped(records)
      PROVE  /\ \A p \in Procs : \A k \in LocalSlots : owned'[p][k].sid # calls'[u].sid
             /\ \A i \in SharedSlots : records'[i].used => records'[i].sid # calls'[u].sid
  <2>1. \A p \in Procs : \A k \in LocalSlots : owned[p][k].sid # nextSid + 1
    <3>1. \A p \in Procs : \A k \in LocalSlots : owned[p][k].sid \in 1..nextSid \/ owned[p][k].sid = 0
      BY EmptyFields DEF Entries
    <3> QED
      BY <1>1, <3>1
  <2>2. \A i \in SharedSlots : records[i].used => records[i].sid # nextSid + 1
    BY <1>1 DEF RealRecords
  <2> QED
    BY <1>4, <2>1, <2>2, ReapedIs
<1>5. ASSUME NEW t \in Threads, NEW u \in Threads, Pending(t)', Pending(u)',
             calls'[u].sid = calls'[t].sid
      PROVE  u = t
  <2>1. CASE Pending(t) /\ calls'[t].sid = calls[t].sid /\ Pending(u) /\ calls'[u].sid = calls[u].sid
    BY <1>5, <2>1 DEF FreshIds
  <2>2. CASE calls'[t].sid = nextSid + 1 /\ Turn(t) /\ u # t
    <3>1. calls'[u] = calls[u]
      BY <2>2 DEF Turn
    <3>2. Pending(u)
      BY <1>5, <3>1 DEF Pending, Starts
    <3> QED
      BY <1>1, <1>2, <1>5, <2>2, <3>1, <3>2
  <2>3. CASE calls'[u].sid = nextSid + 1 /\ Turn(u) /\ u # t
    <3>1. calls'[t] = calls[t]
      BY <2>3 DEF Turn
    <3>2. Pending(t)
      BY <1>5, <3>1 DEF Pending, Starts
    <3>3. calls[t].sid \in 1..nextSid
      BY <1>2, <3>2
    <3>4. calls[t].sid = nextSid + 1
      BY <1>5, <2>3, <3>1
    <3> QED
      BY <1>1, <3>3, <3>4
  <2> QED
    BY <1>5, <2>1, <2>2, <2>3, PendingStep
<1>6. ASSUME NEW u \in Threads, Pending(u)'
      PROVE  /\ \A p \in Procs : \A k \in LocalSlots : owned'[p][k].sid # calls'[u].sid
             /\ \A i \in SharedSlots : records'[i].used => records'[i].sid # calls'[u].sid
  BY <1>3, <1>4, <1>6, PendingStep
<1> QED
  BY <1>5, <1>6 DEF FreshIds

-----------------------------------------------------------------------------
(***************************************************************************)
(* The children                                                            *)
(***************************************************************************)

\* The entry of a process that is not on its way out stays.
LEMMA EntryStays ==
  ASSUME Typed, Shape, NEW p \in Procs, NEW k \in LocalSlots, NEW c \in Procs,
         owned[p][k].proc = c, procs[c].status \notin {"dying", "dead"}, ~ Gone(p)
  PROVE  owned'[p][k] = owned[p][k]
  BY EntryLost, Constants

\* A child that runs is in its parent's own table.
LEMMA KeptStep ==
  ASSUME Typed, Families, Phases, Kept, InHand, Shape
  PROVE  Kept'
<1> SUFFICES ASSUME NEW p \in Procs, procs'[p].status = "running", procs'[p].related,
                    Alive(procs[p].parent)'
             PROVE  \E k \in LocalSlots : owned'[procs'[p].parent][k].proc = p
  BY DEF Kept
<1>1. Lineage
  BY LineageStep
<1>2. Born(p)
  BY LineageStep, BearsDoes DEF Born
<1> DEFINE q == procs[p].parent
<1>3. /\ q \in Procs /\ Born(q) /\ procs'[p].parent = q /\ procs[p].related
      /\ Alive(q) /\ procs'[q].status \in {"suspended", "running", "dying"}
  BY <1>1, <1>2 DEF Lineage, Families, Alive
<1>4. ~ Gone(q)
  BY <1>3, GoneDoes
<1> HIDE DEF q
<1>5. CASE procs[p].status = "running"
  <2>1. PICK k \in LocalSlots : owned[q][k].proc = p
    BY <1>3, <1>5 DEF Kept, q
  <2> QED
    BY <1>3, <1>4, <1>5, <2>1, EntryStays
<1>6. ASSUME NEW t \in Threads, calls[t].at = "resume", calls[t].child = p,
             procs[p].status = "suspended", UNCHANGED owned
      PROVE  \E k \in LocalSlots : owned'[q][k].proc = p
  <2>1. Self(t) = q
    BY <1>6, Constants DEF Phases, Phase, q
  <2> QED
    BY <1>6, <2>1 DEF InHand
<1>7. CASE procs[p].status # "running"
  <2>1. procs' # procs
    BY <1>7
  <2>2. ASSUME NEW r \in Procs, Ends(r)
        PROVE  FALSE
    BY <1>7, <2>2, EndsDoes DEF Alive
  <2>3. ASSUME NEW r \in Procs, Runs(r), r # p
        PROVE  FALSE
    BY <1>7, <2>3, StatusDoes DEF Runs
  <2>4. ASSUME NEW r \in Procs, Gone(r)
        PROVE  FALSE
    BY <1>7, <2>4, GoneDoes
  <2>5. ASSUME NEW t \in Threads, NEW r \in Procs, Bears(t, r)
        PROVE  FALSE
    BY <1>2, <1>7, <2>5, BearsDoes
  <2>6. Runs(p) => procs[p].status = "suspended"
    BY DEF Runs
  <2>7. UNCHANGED owned /\ \E t \in Threads : calls[t].at = "resume" /\ calls[t].child = p
        /\ procs[p].status = "suspended"
    BY <2>1, <2>2, <2>3, <2>4, <2>5, <2>6 DEF Shape
  <2> QED
    BY <1>3, <1>6, <2>7
<1> QED
  BY <1>5, <1>7

\* A thread comes to the resuming with the child's entry.
LEMMA ResumeFrom ==
  ASSUME Typed, Phases, Locks, Entries, [Next]_vars, NEW u \in Threads,
         calls'[u].at = "resume", calls'[u] # calls[u]
  PROVE  \E k \in LocalSlots : /\ owned'[Self(u)][k].sid = calls'[u].sid
                               /\ owned'[Self(u)][k].proc = calls'[u].child
<1>1. Shape
  BY Shapes
<1>2. calls'[u] # Idle
  BY EmptyFields
<1>3. ASSUME NEW p \in Procs, Gone(p)
      PROVE  FALSE
  BY <1>2, <1>3, GoneDoes
<1>4. ASSUME NEW t \in Threads, Calls(t) \/ Lock(t) \/ GoesOn(t)
      PROVE  u = t
  BY <1>1, <1>4, PhaseMoves DEF Turn
<1>5. CASE Calls(u)
  <2>1. 1..MaxSid \subseteq 0..MaxSid
    BY Constants
  <2>2. ~ SetTitle(u)
    BY DEF SetTitle
  <2> QED
    BY <1>5, <2>1, <2>2, StartDoes, StopDoes, Constants DEF Calls
<1>6. CASE Launch(u) \/ Lock(u) \/ Reap(u) \/ Discard(u) \/ Dispose(u)
  BY <1>2, <1>6, LaunchCall, LockDoes, ReapDoes, DiscardDoes, DisposeDoes
<1>7. CASE Resume(u) \/ Kill(u) \/ Forget(u)
  BY <1>2, <1>7, ResumeDoes, KillDoes, ForgetDoes
<1>8. CASE Store(u)
  <2>1. PICK k \in LocalSlots, i \in SharedSlots : Stores(u, k, i)
    BY <1>8, StoreDoes DEF Stores
  <2>2. /\ owned'[Self(u)][k].proc = calls[u].child /\ owned'[Self(u)][k].sid = calls[u].sid
    BY <1>8, <2>1, StoreDoes, StoredAlike
  <2> QED
    BY <1>8, <2>2, StoreDoes DEF Stays
<1> QED
  BY <1>3, <1>4, <1>5, <1>6, <1>7, <1>8, Turns DEF vars, GoesOn

\* The thread that has a suspended child in its hands keeps it there.
LEMMA HandMoves ==
  ASSUME Typed, Phases, Locks, Entries, InHand, Shape, NEW w \in Threads,
         Calls(w) \/ Lock(w) \/ GoesOn(w), NEW p \in Procs,
         procs[p].status = "suspended", procs'[p].status = "suspended",
         procs[p].parent = Self(w), ~ Gone(Self(w)), calls'[w] # calls[w],
         calls[w].child = p \/ Stopping(w, p)
  PROVE  calls'[w].child = p \/ Stopping(w, p)'
<1>1. calls[w] \in CallType /\ Self(w) \in Procs /\ Phase(w) /\ p # 0
  BY TypesOut, ThreadOf, Constants DEF Phases
<1>2. CASE calls[w].child = p
  <2>1. calls[w].what = "child" /\ calls[w].at \notin {"idle", "launch", "kill", "forget"}
    BY <1>1, <1>2, EmptyFields DEF Phase
  <2>2. ~ Calls(w)
    <3>1. 1..MaxSid \subseteq 0..MaxSid
      BY Constants
    <3> QED
      BY <2>1, <3>1, StartDoes, StopDoes, Constants DEF Calls, SetTitle, At
  <2>3. CASE Lock(w) \/ Reap(w) \/ Store(w) \/ Discard(w)
    BY <1>2, <2>3, LockDoes, ReapDoes, StoreDoes, DiscardDoes DEF Stays
  <2>4. ~ Dispose(w) /\ ~ Launch(w) /\ ~ Kill(w) /\ ~ Forget(w)
    BY <1>1, <1>2, <2>1, DisposeDoes, LaunchCall, KillDoes, ForgetDoes DEF Phase
  <2>5. CASE Resume(w)
    <3>1. calls[w].at = "resume" /\ UNCHANGED owned
      BY <2>5, ResumeDoes
    <3>2. procs' = [procs EXCEPT ![p].status = "running"] => procs'[p].status = "running"
      BY StatusDoes
    <3>3. /\ calls'[w].at = "lock" /\ calls'[w].what = "stop"
          /\ calls'[w].sid = calls[w].sid /\ calls'[w].all = FALSE
      BY <1>2, <2>5, <3>2, ResumeDoes
    <3>4. PICK k \in LocalSlots : /\ owned[Self(w)][k].sid = calls[w].sid
                                  /\ owned[Self(w)][k].proc = p
      BY <1>2, <3>1 DEF InHand
    <3> QED
      BY <3>1, <3>3, <3>4 DEF Stopping
  <2> QED
    BY <2>2, <2>3, <2>4, <2>5 DEF GoesOn
<1>3. CASE Stopping(w, p)
  <2>1. /\ calls[w].what = "stop" /\ ~ calls[w].all /\ calls[w].at \in {"lock", "reap", "kill"}
    BY <1>3 DEF Stopping
  <2>2. PICK k \in LocalSlots :
           /\ owned[Self(w)][k].sid = calls[w].sid /\ owned[Self(w)][k].proc = p
           /\ calls[w].at = "kill" => k >= calls[w].k
    BY <1>3 DEF Stopping
  <2>3. owned'[Self(w)][k] = owned[Self(w)][k]
    BY <1>1, <2>2, EntryStays
  <2>4. ~ Calls(w)
    <3>1. 1..MaxSid \subseteq 0..MaxSid
      BY Constants
    <3> QED
      BY <2>1, <3>1, StartDoes, StopDoes, Constants DEF Calls, SetTitle, At
  <2>5. ~ Launch(w) /\ ~ Store(w) /\ ~ Discard(w) /\ ~ Dispose(w) /\ ~ Resume(w) /\ ~ Forget(w)
    <3>1. ~ Launch(w) /\ ~ Store(w)
      BY <2>1, LaunchCall, StoreDoes
    <3>2. ~ Discard(w) /\ ~ Dispose(w)
      BY <2>1, DiscardDoes, DisposeDoes
    <3>3. ~ Resume(w) /\ ~ Forget(w)
      BY <2>1, ResumeDoes, ForgetDoes
    <3> QED
      BY <3>1, <3>2, <3>3
  <2>6. CASE Lock(w)
    BY <2>1, <2>2, <2>3, <2>6, LockDoes DEF Stopping, Stays
  <2>7. CASE Reap(w)
    <3>1. Stays(w) /\ (calls'[w].at = "reap" \/ (calls'[w].at = "kill" /\ calls'[w].k = 0))
      BY <2>1, <2>7, ReapDoes
    <3>2. k >= 0
      BY Constants DEF LocalSlots
    <3> QED
      BY <2>1, <2>2, <2>3, <3>1, <3>2 DEF Stopping, Stays
  <2>8. CASE Kill(w)
    <3>1. k \in 0..LocalMax - 1 /\ k >= calls[w].k /\ calls[w].k \in 0..LocalMax
      BY <1>1, <2>2, <2>8, KillDoes DEF LocalSlots, CallType
    <3>2. calls[w].k \in LocalSlots
      BY <3>1, Constants DEF LocalSlots
    <3>3. Chosen(w) => k = calls[w].k
      BY <1>1, <2>1, <2>2, <3>2 DEF Chosen, Slot, Entries
    <3>4. k = calls[w].k => Chosen(w) /\ Slot(w).proc = p
      BY <1>1, <2>2 DEF Chosen, Slot
    <3>5. CanTerminate(p) /\ ~ Ends(p)
      BY EndsDoes DEF CanTerminate, Alive
    <3>6. /\ Stays(w) /\ calls'[w].at = "kill" /\ calls'[w].k = calls[w].k + 1 /\ ~ Chosen(w)
      BY <2>8, <3>1, <3>2, <3>3, <3>4, <3>5, Constants, KillDoes
    <3>7. k >= calls[w].k + 1
      BY <3>1, <3>4, <3>6, Constants
    <3> QED
      BY <2>1, <2>2, <2>3, <3>6, <3>7 DEF Stopping, Stays
  <2> QED
    BY <2>4, <2>5, <2>6, <2>7, <2>8 DEF GoesOn
<1> QED
  BY <1>2, <1>3

\* A suspended child stays in its parent's hands.
LEMMA InHandStep ==
  ASSUME Typed, Families, Phases, Locks, Entries, InHand, [Next]_vars
  PROVE  InHand'
<1>1. Shape /\ Lineage
  BY Shapes, LineageStep
<1>2. ASSUME NEW p \in Procs, procs'[p].status = "suspended", Alive(procs[p].parent)'
      PROVE  \E t \in Threads : /\ Self(t) = procs'[p].parent
                                /\ calls'[t].child = p \/ Stopping(t, p)'
  <2>1. CASE ~ Born(p)
    <3>1. PICK t \in Threads : Bears(t, p) /\ (calls[t].what = "child" => calls'[t].child = p)
      BY <1>1, <1>2, <2>1, LineageStep DEF Born
    <3> QED
      BY <1>2, <3>1, BearsDoes
  <2>2. CASE Born(p)
    <3> DEFINE q == procs[p].parent
    <3>1. procs[p].status = "suspended" /\ procs'[p].parent = q
      BY <1>1, <1>2, <2>2 DEF Lineage
    <3>2. q \in Procs /\ Born(q)
      BY <3>1 DEF Families
    <3>3. procs'[q].status \in {"suspended", "running", "dying"}
      BY <1>2, <3>1 DEF Alive
    <3>4. Alive(q) /\ ~ Gone(q)
      BY <1>1, <3>2, <3>3, GoneDoes DEF Lineage, Alive
    <3>5. PICK w \in Threads : Self(w) = q /\ (calls[w].child = p \/ Stopping(w, p))
      BY <3>1, <3>4 DEF InHand
    <3> HIDE DEF q
    <3>6. CASE calls'[w] = calls[w]
      <4>1. CASE calls[w].child = p
        BY <3>1, <3>5, <3>6, <4>1
      <4>2. CASE Stopping(w, p)
        <5>1. \A k \in LocalSlots : owned[q][k].proc = p => owned'[q][k] = owned[q][k]
          BY <1>1, <3>1, <3>2, <3>4, EntryStays
        <5> QED
          BY <3>1, <3>5, <3>6, <4>2, <5>1 DEF Stopping
      <4> QED
        BY <3>5, <4>1, <4>2
    <3>7. CASE calls'[w] # calls[w]
      <4>1. ASSUME NEW r \in Procs, Gone(r)
            PROVE  FALSE
        BY <3>4, <3>5, <3>7, <4>1, GoneDoes
      <4>2. ASSUME NEW t \in Threads, Calls(t) \/ Lock(t) \/ GoesOn(t)
            PROVE  t = w
        BY <1>1, <3>7, <4>2, PhaseMoves DEF Turn
      <4>3. Calls(w) \/ Lock(w) \/ GoesOn(w)
        BY <3>7, <4>1, <4>2, Turns DEF vars
      <4>4. calls'[w].child = p \/ Stopping(w, p)'
        BY <1>1, <1>2, <3>1, <3>4, <3>5, <3>7, <4>3, HandMoves DEF q
      <4> QED
        BY <3>1, <3>5, <4>4
    <3> QED
      BY <3>6, <3>7
  <2> QED
    BY <2>1, <2>2
<1>3. ASSUME NEW u \in Threads, calls'[u].at = "resume",
             procs'[calls'[u].child].status = "suspended"
      PROVE  \E k \in LocalSlots : /\ owned'[Self(u)][k].sid = calls'[u].sid
                                   /\ owned'[Self(u)][k].proc = calls'[u].child
  <2>1. CASE calls'[u] = calls[u]
    <3> DEFINE c == calls[u].child
    <3>1. c \in Procs /\ Born(c)
      BY <1>3, <2>1, TypesOut DEF Phases, Phase, CallType
    <3>2. procs[c].status = "suspended"
      BY <1>1, <1>3, <2>1, <3>1 DEF Lineage
    <3>3. PICK k \in LocalSlots : /\ owned[Self(u)][k].sid = calls[u].sid
                                  /\ owned[Self(u)][k].proc = c
      BY <1>3, <2>1, <3>2 DEF InHand
    <3>4. ~ Gone(Self(u))
      BY <1>3, GoneDoes, ThreadOf, EmptyFields
    <3>5. owned'[Self(u)][k] = owned[Self(u)][k]
      BY <1>1, <3>1, <3>2, <3>3, <3>4, EntryStays, ThreadOf
    <3> QED
      BY <2>1, <3>3, <3>5
  <2>2. CASE calls'[u] # calls[u]
    BY <1>3, <2>2, ResumeFrom
  <2> QED
    BY <2>1, <2>2
<1> QED
  BY <1>2, <1>3 DEF InHand

-----------------------------------------------------------------------------
(***************************************************************************)
(* The theorems                                                            *)
(***************************************************************************)

\* The first process alone has everything in order.
LEMMA InitInv == ASSUME Init PROVE Inv
<1>1. PICK pid \in OsPids :
         procs = [p \in Procs |-> IF p = 1 THEN [Unborn EXCEPT !.status = "running", !.pid = pid]
                                  ELSE Unborn]
  BY DEF Init
<1>2. /\ owned = [p \in Procs |-> [k \in LocalSlots |-> NoEntry]]
      /\ localLock = [p \in Procs |-> 0] /\ records = [i \in SharedSlots |-> NoRecord]
      /\ nextSid = 0 /\ calls = [t \in Threads |-> Idle]
  BY DEF Init
<1> DEFINE first == [Unborn EXCEPT !.status = "running", !.pid = pid]
<1>3. /\ first \in ProcType /\ first.status = "running" /\ first.pid = pid
      /\ first.related = Unborn.related
  BY EmptyTypes DEF ProcType
<1>4. Unborn.status = "none" /\ Unborn.related = FALSE
  BY Zenon DEF Unborn
<1> HIDE DEF first
<1>5. procs = [p \in Procs |-> IF p = 1 THEN first ELSE Unborn]
  BY <1>1 DEF first
<1>6. \A p \in Procs : /\ procs[p].status \in {"running", "none"} /\ ~ procs[p].related
                       /\ p = 1 => procs[p].pid = pid
                       /\ p # 1 => procs[p].status = "none"
  BY <1>3, <1>4, <1>5
<1>7. /\ \A t \in Threads : calls[t] = Idle
      /\ \A p \in Procs : \A k \in LocalSlots : owned[p][k] = NoEntry
      /\ \A i \in SharedSlots : ~ records[i].used
  BY <1>2, EmptyFields
<1>8. Typed
  <2>1. /\ procs \in [Procs -> ProcType] /\ owned \in [Procs -> [LocalSlots -> EntryType]]
        /\ records \in [SharedSlots -> RecordType] /\ calls \in [Threads -> CallType]
        /\ localLock \in [Procs -> Nat] /\ nextSid \in 0..MaxSid
    BY <1>2, <1>3, <1>5, EmptyTypes, Constants
  <2> QED
    BY <2>1 DEF Typed, TypeOK, CallType, RecordType, ProcType, EntryType
<1>9. OnePid
  BY <1>6, ExistingBorn DEF OnePid, Born
<1>10. Families
  BY <1>6 DEF Families, Born
<1>11. Phases /\ Locks
  BY <1>7, EmptyFields DEF Phases, Phase, Starts, Locks
<1>12. Entries /\ Known
  BY <1>7, EmptyFields DEF Entries, Known
<1>13. FreshIds
  BY <1>7, EmptyFields DEF FreshIds, Pending, Starts
<1>14. RealRecords /\ Mirrored
  BY <1>7, EmptyFields DEF RealRecords, Mirrored
<1>15. Kept /\ InHand
  BY <1>6, <1>7, EmptyFields DEF Kept, InHand
<1> QED
  BY <1>8, <1>9, <1>10, <1>11, <1>12, <1>13, <1>14, <1>15 DEF Inv

\* The inductive invariant: it holds at first and every step keeps it.
THEOREM SesmgrInvariance == Spec => []Inv
<1>1. Init => Inv
  BY InitInv
<1>2. Inv /\ [Next]_vars => Inv'
  <2> SUFFICES ASSUME Inv, [Next]_vars
               PROVE  Inv'
    OBVIOUS
  <2> USE DEF Inv
  <2>1. Shape
    BY Shapes
  <2>2. Typed' /\ Phases' /\ Locks'
    BY TypedStep, PhasesStep, LocksStep
  <2>3. OnePid' /\ Families'
    BY <2>1, OnePidStep, FamiliesStep
  <2>4. Entries' /\ FreshIds'
    BY <2>1, EntriesStep, FreshIdsStep
  <2>5. RealRecords' /\ Mirrored' /\ Known'
    BY <2>1, RealRecordsStep, MirroredStep, KnownStep
  <2>6. Kept' /\ InHand'
    BY <2>1, KeptStep, InHandStep
  <2> QED
    BY <2>2, <2>3, <2>4, <2>5, <2>6
<1> QED
  BY <1>1, <1>2, PTL DEF Spec

\* The two tables of a process that runs agree.
LEMMA TablesAgreeOf == ASSUME Inv PROVE TablesAgree
<1> SUFFICES ASSUME NEW p \in Procs, procs[p].status = "running"
             PROVE  Living(OwnSessions(p)) = Living(KnownSessions(p))
  BY DEF TablesAgree
<1>1. ASSUME NEW x \in Living(OwnSessions(p))
      PROVE  x \in Living(KnownSessions(p))
  <2>1. PICK k \in LocalSlots : x = <<owned[p][k].sid, owned[p][k].proc>>
    BY <1>1 DEF Living, OwnSessions
  <2>2. owned[p][k].proc # 0 /\ Alive(owned[p][k].proc)
    BY <1>1, <2>1 DEF Living
  <2>3. PICK i \in SharedSlots : records[i] = AsRecord(p, k)
    BY <2>2 DEF Inv, Known
  <2>4. /\ records[i].used /\ records[i].owner = Id(p)
        /\ x = <<records[i].sid, records[i].process.token>>
    BY <2>1, <2>3, AsRecordFields
  <2> QED
    BY <1>1, <2>4 DEF Living, KnownSessions
<1>2. ASSUME NEW x \in Living(KnownSessions(p))
      PROVE  x \in Living(OwnSessions(p))
  <2>1. PICK i \in SharedSlots : /\ records[i].used /\ records[i].owner = Id(p)
                                 /\ x = <<records[i].sid, records[i].process.token>>
    BY <1>2 DEF Living, KnownSessions
  <2>2. records[i].owner.token = p /\ Alive(p)
    BY <2>1 DEF Id, Alive
  <2>3. PICK k \in LocalSlots : records[i] = AsRecord(p, k)
    BY <2>1, <2>2 DEF Inv, Mirrored
  <2>4. x = <<owned[p][k].sid, owned[p][k].proc>>
    BY <2>1, <2>3, AsRecordFields
  <2> QED
    BY <1>2, <2>4 DEF Living, OwnSessions
<1> QED
  BY <1>1, <1>2

\* A session id is of one record of a living session.
LEMMA SidsUniqueOf == ASSUME Inv PROVE SidsUnique
<1>1. ASSUME NEW i \in SharedSlots, records[i].used, records[i].owner # NoId,
             Alive(records[i].owner.token)
      PROVE  records[i].sid # 0
  <2>1. records[i].owner.token \in Procs
    BY <1>1 DEF Inv, RealRecords, RealId
  <2>2. PICK k \in LocalSlots : /\ owned[records[i].owner.token][k].proc # 0
                                /\ records[i] = AsRecord(records[i].owner.token, k)
    BY <1>1, <2>1 DEF Inv, Mirrored
  <2> QED
    BY <2>1, <2>2, AsRecordFields DEF Inv, Entries
<1> QED
  BY <1>1 DEF SidsUnique, Inv, RealRecords

\* The variables have their types; the table of a process and the registry
\* agree, whoever died while it wrote, and a session id names one session
\* (remember_owned, DosStopSession, registry_reap_locked, registry_allocate_id).
THEOREM Tables == Spec => []TablesSound
<1>1. Inv => TablesSound
  BY TablesAgreeOf, SidsUniqueOf DEF TablesSound, Inv, Typed
<1> QED
  BY <1>1, SesmgrInvariance, PTL

\* A child session is in the registry before it runs, and none is left
\* suspended that no thread will resume or end (DosStartSession).
THEOREM Children == Spec => []ChildrenKept
<1>1. ASSUME Inv PROVE Published
  <2> SUFFICES ASSUME NEW p \in Procs, procs[p].status = "running", procs[p].related,
                      Alive(procs[p].parent)
               PROVE  \E i \in SharedSlots : /\ records[i].used /\ records[i].sid # 0
                                             /\ records[i].process = Id(p)
                                             /\ records[i].owner = Id(procs[p].parent)
    BY DEF Published
  <2>1. procs[p].parent \in Procs /\ Alive(p) /\ p # 0
    BY <1>1, Constants DEF Inv, Families, Alive
  <2>2. PICK k \in LocalSlots : owned[procs[p].parent][k].proc = p
    BY <1>1 DEF Inv, Kept
  <2>3. PICK i \in SharedSlots : records[i] = AsRecord(procs[p].parent, k)
    BY <1>1, <2>1, <2>2 DEF Inv, Known
  <2>4. owned[procs[p].parent][k].sid # 0
    BY <1>1, <2>1, <2>2 DEF Inv, Entries
  <2> QED
    BY <2>1, <2>2, <2>3, <2>4, AsRecordFields
<1>2. ASSUME Inv PROVE NoneForgotten
  <2> SUFFICES ASSUME NEW p \in Procs, procs[p].status = "suspended",
                      procs[procs[p].parent].status = "running"
               PROVE  \E t \in Threads :
                         /\ Self(t) = procs[p].parent
                         /\ \/ calls[t].child = p
                            \/ /\ calls[t].what = "stop"
                               /\ \E k \in LocalSlots :
                                     /\ owned[Self(t)][k].proc = p
                                     /\ calls[t].all \/ owned[Self(t)][k].sid = calls[t].sid
    BY DEF NoneForgotten
  <2>1. PICK t \in Threads : Self(t) = procs[p].parent /\ (calls[t].child = p \/ Stopping(t, p))
    BY <1>2 DEF Inv, InHand, Alive
  <2> QED
    BY <2>1 DEF Stopping
<1>3. Inv => ChildrenKept
  BY <1>1, <1>2 DEF ChildrenKept
<1> QED
  BY <1>3, SesmgrInvariance, PTL

\* DosSmSetTitle reaches the records of the caller and of those it started,
\* although it compares no more than process ids: those of the dead are
\* reaped first, and a process id is of one process at a time.
THEOREM Titles == Spec => []TitleOwn
<1>1. ASSUME Inv PROVE TitleOwn
  <2> SUFFICES ASSUME NEW p \in Procs, procs[p].status = "running", NEW sid \in 0..MaxSid,
                      NEW i \in Retitled(p, sid)
               PROVE  Id(p) \in {records[i].process, records[i].owner}
    BY DEF TitleOwn
  <2>1. /\ i \in SharedSlots /\ Reaped(records)[i].used /\ MaySetTitle(Reaped(records)[i], p)
    BY DEF Retitled, Addressed
  <2>2. Reaped(records)[i] = records[i]
        /\ IdentityAlive(records[i].process) /\ IdentityAlive(records[i].owner)
    BY <2>1, EmptyFields DEF Reaped
  <2>3. \A id : IdentityAlive(id) /\ id.pid = procs[p].pid => id = Id(p)
    <3>1. Exists(p)
      BY DEF Exists, Alive
    <3> QED
      BY <1>1, <3>1 DEF IdentityAlive, Inv, OnePid, Id
  <2> QED
    BY <2>1, <2>2, <2>3 DEF MaySetTitle
<1>2. Inv => TitleOwn
  BY <1>1
<1> QED
  BY <1>2, SesmgrInvariance, PTL

=============================================================================
