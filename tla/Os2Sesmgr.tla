------------------------------ MODULE Os2Sesmgr ------------------------------
(***************************************************************************)
(* The session manager (common/sesmgr/os2_sesmgr.c on its Win32 backend):  *)
(* every OS/2 process keeps a table of the child sessions it started,      *)
(* under a lock of its own; all of them share a registry in memory, under  *)
(* a named mutex.  DosStartSession starts a child suspended, enters it in  *)
(* both, and lets it run; DosStopSession ends children and takes them out. *)
(* Nothing tells a process that another one has ended: entries of the dead *)
(* are reaped by whoever takes the lock next.                              *)
(*                                                                         *)
(* What is done under the registry mutex is one step: nobody sees the      *)
(* registry in between but after the death of the process that holds the   *)
(* mutex, which leaves the record it was writing torn, and the mutex to    *)
(* the next ("abandoned").  A process is its number here, and its number   *)
(* is its creation time; process ids are used again.                       *)
(*                                                                         *)
(* Left out: programs, titles' text, environments, windows, consoles, and  *)
(* processes one may not open (they count as living).                      *)
(***************************************************************************)
EXTENDS Integers, FiniteSets

CONSTANTS
    MaxProcs,   \* bound: processes created
    Threads,    \* the threads that call: <<process, number>>
    OsPids,     \* the process ids of the system; 0 is none
    LocalMax,   \* OS2_SESMGR_LOCAL_MAX
    SharedMax,  \* OS2_SESMGR_SHARED_MAX
    MaxSid      \* bound: session ids given out

ASSUME SesmgrAssumption ==
    /\ MaxProcs \in Nat \ {0} /\ LocalMax \in Nat /\ SharedMax \in Nat /\ MaxSid \in Nat
    /\ Threads \subseteq (1..MaxProcs) \X (Nat \ {0})
    /\ 0 \notin OsPids /\ OsPids # {}

VARIABLES
    procs,      \* the processes
    owned,      \* session->owned of each process
    localLock,  \* the thread that holds each process's local lock, or 0
    records,    \* registry->sessions
    nextSid,    \* registry->next_session_id
    calls       \* where each thread is in a call

vars == <<procs, owned, localLock, records, nextSid, calls>>

Procs == 1..MaxProcs
LocalSlots == 0..LocalMax - 1
SharedSlots == 0..SharedMax - 1

(***************************************************************************)
(* Processes.                                                              *)
(*   status   "dying" from TerminateProcess on until it has ended          *)
(*   related  the child session of parent                                  *)
(*   grouped  it is in a job object                                        *)
(*   lingers  it ended with exit code 259, STILL_ACTIVE                    *)
(***************************************************************************)
Unborn == [status |-> "none", pid |-> 0, parent |-> 0, related |-> FALSE,
           grouped |-> FALSE, lingers |-> FALSE]

Alive(p) == procs[p].status \in {"suspended", "running", "dying"}

NoEntry == [sid |-> 0, proc |-> 0]
NoId == [pid |-> 0, token |-> 0]
Id(p) == [pid |-> procs[p].pid, token |-> p]
NoRecord == [used |-> FALSE, sid |-> 0, process |-> NoId, owner |-> NoId]
Idle == [at |-> "idle", what |-> "none", sid |-> 0, child |-> 0, all |-> FALSE, k |-> 0]

\* A process object, and its id, exist until it has ended and nobody has a
\* handle to it.
Held(p) == \/ \E q \in Procs, k \in LocalSlots : owned[q][k].proc = p
           \/ \E t \in Threads : calls[t].child = p
Exists(p) == Alive(p) \/ (procs[p].status = "dead" /\ Held(p))
PidFree(pid) == \A p \in Procs : Exists(p) => procs[p].pid # pid

\* identity_alive: the process with this id was created at the same time and
\* its exit code is STILL_ACTIVE.

\* Mutant of IdentityAlive: any process with the id will do.
PidAlive(id) ==
    \E p \in Procs : /\ Exists(p) /\ (Alive(p) \/ procs[p].lingers)
                     /\ procs[p].pid = id.pid

IdentityAlive(id) ==
    \E p \in Procs : /\ Exists(p) /\ (Alive(p) \/ procs[p].lingers)
                     /\ Id(p) = id

\* owned_process_alive
OwnedAlive(p) == Alive(p) \/ procs[p].lingers

(***************************************************************************)
(* The registry.                                                           *)
(***************************************************************************)
\* registry_reap_locked
Reaped(recs) == [i \in SharedSlots |->
    IF recs[i].used /\ ~ (IdentityAlive(recs[i].process) /\ IdentityAlive(recs[i].owner))
    THEN NoRecord ELSE recs[i]]

\* registry_remove: the first record with the session id.
OfSid(recs, sid) == {i \in SharedSlots : recs[i].used /\ recs[i].sid = sid}
Lowest(i, S) == i \in S /\ \A j \in S : i <= j
Removed(recs, sid) == [i \in SharedSlots |->
    IF Lowest(i, OfSid(recs, sid)) THEN NoRecord ELSE recs[i]]

FreeRecords(recs) == {i \in SharedSlots : ~ recs[i].used}

\* registry_add's record
Record(sid, child, owner) == [used |-> TRUE, sid |-> sid, process |-> child, owner |-> owner]

(***************************************************************************)
(* Threads.                                                                *)
(***************************************************************************)
Self(t) == t[1]
At(t, where) == calls[t].at = where /\ procs[Self(t)].status = "running"
Goto(t, c) == calls' = [calls EXCEPT ![t] = c]
Moved(t, where) == [calls[t] EXCEPT !.at = where, !.k = 0]
Unlocked(t) == localLock' = [localLock EXCEPT ![Self(t)] = 0]

(***************************************************************************)
(* DosStartSession.                                                        *)
(***************************************************************************)
\* registry_allocate_id: 0 is no session id.
SidAfter(sid) == IF (sid + 1) % (MaxSid + 1) = 0 THEN 1 ELSE sid + 1

StartSession(t, isChild) ==
    /\ At(t, "idle")
    /\ nextSid < MaxSid  \* bound
    /\ records' = Reaped(records)
    /\ nextSid' = SidAfter(nextSid)
    /\ Goto(t, [Idle EXCEPT !.at = "launch", !.what = IF isChild THEN "child" ELSE "free",
                            !.sid = nextSid'])
    /\ UNCHANGED <<procs, owned, localLock>>

\* Mutant of StartStatus: children run at once.
StartRunning(isChild) == "running"

StartStatus(isChild) == IF isChild THEN "suspended" ELSE "running"

\* launch: it may fail.  Children start suspended, in a job if there is one.
Launch(t) ==
    LET child == calls[t].what = "child" IN
    /\ At(t, "launch")
    /\ \/ /\ Goto(t, Idle) /\ UNCHANGED procs
       \/ \E p \in Procs, pid \in OsPids, job \in BOOLEAN :
             /\ procs[p].status = "none" /\ \A q \in Procs : q < p => procs[q].status # "none"
             /\ PidFree(pid)
             /\ procs' = [procs EXCEPT ![p] =
                   [Unborn EXCEPT !.status = StartStatus(child),
                                  !.pid = pid, !.parent = Self(t), !.related = child,
                                  !.grouped = child /\ job]]
             /\ Goto(t, IF child THEN [Moved(t, "lock") EXCEPT !.child = p] ELSE Idle)
    /\ UNCHANGED <<owned, localLock, records, nextSid>>

\* local_lock, in remember_owned and DosStopSession.
LockFree(p) == localLock[p] = 0

Lock(t) ==
    /\ At(t, "lock") /\ LockFree(Self(t))
    /\ localLock' = [localLock EXCEPT ![Self(t)] = t[2]]
    /\ Goto(t, Moved(t, "reap"))
    /\ UNCHANGED <<procs, owned, records, nextSid>>

\* reap_owned_locked, one entry a step.
Reap(t) ==
    LET p == Self(t)
        k == calls[t].k
        e == owned[p][k]
    IN
    /\ At(t, "reap")
    /\ \/ /\ k < LocalMax
          /\ IF e.proc # 0 /\ ~ OwnedAlive(e.proc)
             THEN /\ records' = Removed(records, e.sid)
                  /\ owned' = [owned EXCEPT ![p][k] = NoEntry]
             ELSE UNCHANGED <<records, owned>>
          /\ Goto(t, [calls[t] EXCEPT !.k = @ + 1])
       \/ /\ k = LocalMax
          /\ Goto(t, Moved(t, IF calls[t].what = "child" THEN "store" ELSE "kill"))
          /\ UNCHANGED <<records, owned>>
    /\ UNCHANGED <<procs, localLock, nextSid>>

FreeEntries(p) == {k \in LocalSlots : owned[p][k].proc = 0}

\* The rest of remember_owned, and registry_add in it.  Any of its calls may
\* fail; then the child is discarded.
Store(t) ==
    LET p == Self(t)
        c == calls[t]
        recs == Reaped(records)
        free == FreeRecords(recs)
    IN
    /\ At(t, "store")
    /\ \/ \E k \in LocalSlots, i \in SharedSlots :
             /\ Lowest(k, FreeEntries(p)) /\ Lowest(i, free)
             /\ owned' = [owned EXCEPT ![p][k] = [sid |-> c.sid, proc |-> c.child]]
             /\ records' = [recs EXCEPT ![i] = Record(c.sid, Id(c.child), Id(p))]
             /\ Goto(t, Moved(t, "resume"))
       \/ /\ \/ UNCHANGED records
             \/ FreeEntries(p) # {} /\ free = {} /\ records' = recs
          /\ Goto(t, Moved(t, "discard"))
          /\ UNCHANGED owned
    /\ Unlocked(t)
    /\ UNCHANGED <<procs, nextSid>>

\* terminate: with a job it succeeds, otherwise only while the process lives.
\* A job takes the child's own children along; here those may end anywhere.
CanTerminate(p) == procs[p].grouped \/ Alive(p)

Terminated(p) == IF Alive(p) THEN [procs EXCEPT ![p].status = "dying"] ELSE procs

Discard(t) ==
    /\ At(t, "discard")
    /\ procs' = Terminated(calls[t].child)
    /\ Goto(t, Moved(t, "dispose"))
    /\ UNCHANGED <<owned, localLock, records, nextSid>>

\* It is waited for at most 5 seconds, then the handles are closed.
Dispose(t) ==
    /\ At(t, "dispose")
    /\ Goto(t, Idle)
    /\ UNCHANGED <<procs, owned, localLock, records, nextSid>>

\* resume and close_thread; when it fails the session is stopped.
Resume(t) ==
    LET p == calls[t].child IN
    /\ At(t, "resume")
    /\ \/ /\ procs' = IF procs[p].status = "suspended"
                      THEN [procs EXCEPT ![p].status = "running"] ELSE procs
          /\ Goto(t, Idle)
       \/ /\ Goto(t, [Idle EXCEPT !.at = "lock", !.what = "stop", !.sid = calls[t].sid])
          /\ UNCHANGED procs
    /\ UNCHANGED <<owned, localLock, records, nextSid>>

(***************************************************************************)
(* DosStopSession, of one session or all of the process's own.             *)
(***************************************************************************)
StopSession(t, all, sid) ==
    /\ At(t, "idle")
    /\ Goto(t, [Idle EXCEPT !.at = "lock", !.what = "stop", !.sid = sid, !.all = all])
    /\ UNCHANGED <<procs, owned, localLock, records, nextSid>>

\* One entry a step: terminated if chosen.  When that fails the call ends.
Kill(t) ==
    LET p == Self(t)
        c == calls[t]
        e == owned[p][c.k]
        chosen == e.proc # 0 /\ (c.all \/ e.sid = c.sid)
    IN
    /\ At(t, "kill")
    /\ \/ /\ c.k = LocalMax
          /\ Unlocked(t) /\ Goto(t, Idle) /\ UNCHANGED procs
       \/ /\ c.k < LocalMax /\ ~ chosen
          /\ Goto(t, [c EXCEPT !.k = @ + 1])
          /\ UNCHANGED <<procs, localLock>>
       \/ /\ c.k < LocalMax /\ chosen /\ CanTerminate(e.proc)
          /\ procs' = Terminated(e.proc)
          /\ Goto(t, [c EXCEPT !.at = "forget"])
          /\ UNCHANGED localLock
       \/ /\ c.k < LocalMax /\ chosen /\ ~ CanTerminate(e.proc)
          /\ Unlocked(t) /\ Goto(t, Idle) /\ UNCHANGED procs
    /\ UNCHANGED <<owned, records, nextSid>>

\* Waited for at most 5 seconds, then taken out of both tables.  The registry
\* is there and its lock is granted, as they were when the session began.
\* Mutant of Forgotten: the record stays.
ForgottenLocally(recs, sid) == recs

Forgotten(recs, sid) == Removed(recs, sid)

Forget(t) ==
    LET p == Self(t)
        c == calls[t]
    IN
    /\ At(t, "forget")
    /\ records' = Forgotten(records, owned[p][c.k].sid)
    /\ owned' = [owned EXCEPT ![p][c.k] = NoEntry]
    /\ IF c.all THEN Goto(t, [c EXCEPT !.at = "kill", !.k = @ + 1]) /\ UNCHANGED localLock
                ELSE Goto(t, Idle) /\ Unlocked(t)
    /\ UNCHANGED <<procs, nextSid>>

(***************************************************************************)
(* DosSmSetTitle.  O2HostQuerySessions does no more to the registry.       *)
(***************************************************************************)
\* Session 0 is the caller's own.  Process ids are compared, no more: the
\* records of earlier processes with them have just been reaped.
Addressed(recs, p, sid) ==
    {i \in SharedSlots : /\ recs[i].used
                         /\ IF sid = 0 THEN recs[i].process.pid = procs[p].pid
                                       ELSE recs[i].sid = sid}

MaySetTitle(r, p) == procs[p].pid \in {r.process.pid, r.owner.pid}

\* The record whose title process p sets when it names session sid.
Retitled(p, sid) ==
    LET found == Addressed(Reaped(records), p, sid) IN
    {i \in found : Lowest(i, found) /\ MaySetTitle(Reaped(records)[i], p)}

SetTitle(t) ==
    /\ At(t, "idle")
    /\ records' = Reaped(records)
    /\ UNCHANGED <<procs, owned, localLock, nextSid, calls>>

(***************************************************************************)
(* Processes end; their handles are closed and their threads are gone.     *)
(* DllMain's os2_sesmgr_session_destroy does no more than that.            *)
(***************************************************************************)
Leave(p, lingers) ==
    /\ procs' = [procs EXCEPT ![p].status = "dead", ![p].lingers = lingers]
    /\ owned' = [owned EXCEPT ![p] = [k \in LocalSlots |-> NoEntry]]
    /\ localLock' = [localLock EXCEPT ![p] = 0]
    /\ calls' = [t \in Threads |-> IF Self(t) = p THEN Idle ELSE calls[t]]
    /\ UNCHANGED nextSid

End(p) ==
    /\ Alive(p)
    /\ \E lingers \in BOOLEAN : (lingers => procs[p].status = "running") /\ Leave(p, lingers)
    /\ UNCHANGED records

\* A process is ended while it writes a record: any part of it is there.
Torn(sid, child, owner) ==
    {[used |-> TRUE, sid |-> s, process |-> c, owner |-> o] :
        s \in {0, sid}, c \in {NoId, child}, o \in {NoId, owner}}

EndInAdd(t) ==
    LET p == Self(t) IN
    /\ At(t, "store")
    /\ \E i \in SharedSlots : \E r \in Torn(calls[t].sid, Id(calls[t].child), Id(p)) :
          /\ FreeEntries(p) # {}
          /\ Lowest(i, FreeRecords(Reaped(records)))
          /\ records' = [Reaped(records) EXCEPT ![i] = r]
    /\ Leave(p, FALSE)

EndInRemove(t) ==
    LET p == Self(t)
        e == owned[p][calls[t].k]
    IN
    /\ \/ At(t, "forget")
       \/ At(t, "reap") /\ calls[t].k < LocalMax /\ e.proc # 0 /\ ~ OwnedAlive(e.proc)
    /\ \E i \in SharedSlots :
          /\ Lowest(i, OfSid(records, e.sid))
          /\ \E r \in Torn(e.sid, records[i].process, records[i].owner) :
                records' = [records EXCEPT ![i] = r]
    /\ Leave(p, FALSE)

(***************************************************************************)
(* The specification.                                                      *)
(***************************************************************************)
Init ==
    /\ \E pid \in OsPids :
          procs = [p \in Procs |-> IF p = 1 THEN [Unborn EXCEPT !.status = "running", !.pid = pid]
                                   ELSE Unborn]
    /\ owned = [p \in Procs |-> [k \in LocalSlots |-> NoEntry]]
    /\ localLock = [p \in Procs |-> 0]
    /\ records = [i \in SharedSlots |-> NoRecord]
    /\ nextSid = 0
    /\ calls = [t \in Threads |-> Idle]

GoesOn(t) == Launch(t) \/ Reap(t) \/ Store(t) \/ Discard(t) \/ Dispose(t)
             \/ Resume(t) \/ Kill(t) \/ Forget(t)

Calls(t) ==
    \/ \E isChild \in BOOLEAN : StartSession(t, isChild)
    \/ StopSession(t, TRUE, 0)
    \/ \E sid \in 1..MaxSid : StopSession(t, FALSE, sid)
    \/ SetTitle(t)

Next ==
    \/ \E t \in Threads : Calls(t) \/ Lock(t) \/ GoesOn(t) \/ EndInAdd(t) \/ EndInRemove(t)
    \/ \E p \in Procs : End(p)

Spec == Init /\ [][Next]_vars

(***************************************************************************)
(* Properties.                                                             *)
(***************************************************************************)
IdType == [pid : OsPids \cup {0}, token : Procs \cup {0}]

\* The variables have their types.
TypeOK ==
    /\ procs \in [Procs -> [status : {"none", "suspended", "running", "dying", "dead"},
                            pid : OsPids \cup {0}, parent : Procs \cup {0},
                            related : BOOLEAN, grouped : BOOLEAN, lingers : BOOLEAN]]
    /\ owned \in [Procs -> [LocalSlots -> [sid : 0..MaxSid, proc : Procs \cup {0}]]]
    /\ localLock \in [Procs -> Nat]
    /\ records \in [SharedSlots -> [used : BOOLEAN, sid : 0..MaxSid, process : IdType,
                                    owner : IdType]]
    /\ nextSid \in 0..MaxSid
    /\ \A t \in Threads : calls[t].sid \in 0..MaxSid /\ calls[t].child \in Procs \cup {0}
                          /\ calls[t].k \in 0..LocalMax

\* The two tables agree: while nobody works on a process's own table, its
\* living children are in the registry under the same session ids, and
\* nothing else living is there in its name, whatever processes were ended
\* while they wrote (remember_owned, DosStopSession, registry_reap_locked).
OwnSessions(p) == {<<e.sid, e.proc>> : e \in {owned[p][k] : k \in LocalSlots}}
KnownSessions(p) == {<<r.sid, r.process.token>> : r \in {s \in {records[i] : i \in SharedSlots} :
                                                          s.used /\ s.owner = Id(p)}}
Living(S) == {x \in S : x[2] # 0 /\ Alive(x[2])}
TablesAgree ==
    \A p \in Procs : procs[p].status = "running" /\ localLock[p] = 0 =>
        Living(OwnSessions(p)) = Living(KnownSessions(p))

\* "a child can call DOSSMSETTITLE immediately at startup without racing its
\* parent's registration" (CHANGES-CMD32-PSKILL-R1.txt): a child session that
\* runs is in the registry as long as its parent lives.
Published ==
    \A p \in Procs :
        procs[p].status = "running" /\ procs[p].related /\ Alive(procs[p].parent) =>
            \E i \in SharedSlots : /\ records[i].used /\ records[i].sid # 0
                                   /\ records[i].process = Id(p)
                                   /\ records[i].owner = Id(procs[p].parent)

\* No child stays suspended that nobody will resume or end: a thread of its
\* parent is starting it, or stopping it (DosStartSession).
NoneForgotten ==
    \A p \in Procs :
        procs[p].status = "suspended" /\ procs[procs[p].parent].status = "running" =>
            \E t \in Threads :
                /\ Self(t) = procs[p].parent
                /\ \/ calls[t].child = p
                   \/ /\ calls[t].what = "stop"
                      /\ \E k \in LocalSlots : /\ owned[Self(t)][k].proc = p
                                               /\ calls[t].all \/ owned[Self(t)][k].sid = calls[t].sid

\* A child session is accounted for from its creation on: known to the others
\* when it runs, and in the hands of its parent until then.
ChildrenKept == Published /\ NoneForgotten

\* Session ids name one session: no two records of living sessions share one.
SidsUnique ==
    \A i, j \in SharedSlots :
        LET Real(r) == r.used /\ r.owner # NoId /\ Alive(r.owner.token) IN
        Real(records[i]) /\ Real(records[j]) /\ records[i].sid = records[j].sid => i = j

\* The registry agrees with the tables of the processes, and its ids are ids.
TablesSound == TypeOK /\ TablesAgree /\ SidsUnique

\* A title is set by the session itself or by the process that started it,
\* not by a later process that was given the same process id
\* (os2_sesmgr_DosSmSetTitle compares process ids only).
TitleOwn ==
    \A p \in Procs : procs[p].status = "running" =>
        \A sid \in 0..MaxSid : \A i \in Retitled(p, sid) :
            Id(p) \in {records[i].process, records[i].owner}

=============================================================================
