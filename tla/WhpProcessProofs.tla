-------------------------- MODULE WhpProcessProofs --------------------------
(***************************************************************************)
(* Proofs about WhpProcess, for any number of threads, children and        *)
(* processes, and whatever the threads do between two polls.               *)
(*                                                                         *)
(* A parked DosExecPgm keeps the number of an entry, and a poll or a scan  *)
(* keeps what it has read while children run on.  The invariant says what  *)
(* of this stays true: an entry is its waiting thread's own, what a        *)
(* process was it stays, and the part of the table already scanned has no  *)
(* child to wait for.                                                      *)
(***************************************************************************)
EXTENDS WhpProcess, WhpSyncProofs, FiniteSetTheorems

ChildType == [pid : Pids \cup {0}, mode : {"sync", "async"}, owner : 0..MaxTid - 1,
              launching : BOOLEAN]
ProcType == [born : BOOLEAN, ready : BOOLEAN, normal : BOOLEAN, ended : BOOLEAN]
RequestType == [kind : {"none", "exec", "wait"}, slot : Nat, pid : Pids \cup {0}]
ScanType == [what : {"none", "exec", "call", "poll"}, thread : Slots, at : 0..NChildren,
             exists : BOOLEAN, pid : Pids \cup {0}, nowait : BOOLEAN, ready : BOOLEAN,
             ended : BOOLEAN]

Typed == /\ children \in [ChildSlots -> ChildType]
         /\ procs \in [Pids -> ProcType]
         /\ requests \in [Slots -> RequestType]
         /\ scan \in ScanType

\* A process enters its guest, leaves it, and ends, after it was created.
Lives ==
    \A p \in Pids : /\ procs[p].ready => procs[p].born
                    /\ procs[p].normal => procs[p].ready
                    /\ procs[p].ended => procs[p].born

\* An entry is of a process that was created; no other entry is; it has
\* an owner while DosExecPgm starts it, and was entered when that is over.
Entries ==
    /\ \A i \in ChildSlots : children[i].pid # 0 =>
          LET c == children[i]
          IN  /\ procs[c.pid].born
              /\ c.launching => c.owner # 0
              /\ ~ c.launching => procs[c.pid].ready
    /\ \A i, j \in ChildSlots : children[i].pid # 0 /\ children[i].pid = children[j].pid => i = j

\* The entry a parked DosExecPgm has the number of is its own, and no other
\* thread has that number.
OwnEntry ==
    /\ \A s \in Slots : Polling(s, "exec") =>
          /\ requests[s].slot \in ChildSlots
          /\ children[requests[s].slot].pid # 0
          /\ children[requests[s].slot].owner = threads[s].tid
    /\ \A s, r \in Slots : Polling(s, "exec") /\ Polling(r, "exec") /\ s # r =>
          requests[s].slot # requests[r].slot

\* What a poll or a scan goes by is so, or was when it was read and has not
\* been undone.
Going ==
    /\ scan.what = "none" => scan = NoScan
    /\ scan.what = "exec" =>
          /\ Polling(scan.thread, "exec")
          /\ scan.ended => procs[children[requests[scan.thread].slot].pid].ended
    /\ scan.what = "poll" => Polling(scan.thread, "wait")
    /\ scan.what = "call" => Guest /\ scan.thread = current
    /\ scan.what \in {"call", "poll"} /\ ~ scan.exists =>
          \A i \in ChildSlots : i < scan.at => ~ Eligible(children[i], scan.pid)

PInv == WInv /\ Typed /\ Lives /\ Entries /\ OwnEntry /\ Going
-----------------------------------------------------------------------------
(***************************************************************************)
(* Fields                                                                  *)
(***************************************************************************)

\* The bounds are numbers, and slot 0 exists.
LEMMA Bounds ==
  /\ NChildren \in Nat /\ MaxPid \in Nat /\ NThreads \in Nat \ {0} /\ 0 \in Slots
  /\ MaxTid \in Nat /\ MaxTid > 1 /\ 0 \notin Pids /\ 0 \in 0..NChildren
BY SyncAssumption, WhpProcessAssumption DEF Slots, Pids

\* The empty values.
LEMMA EmptyFields ==
  /\ NoChild \in ChildType /\ NoChild.pid = 0
  /\ NotBorn \in ProcType /\ ~ NotBorn.born /\ ~ NotBorn.ready /\ ~ NotBorn.normal
  /\ ~ NotBorn.ended
  /\ NoRequest \in RequestType /\ NoRequest.kind = "none"
  /\ NoScan \in ScanType /\ NoScan.what = "none" /\ ~ NoScan.exists
BY Bounds DEF NoChild, ChildType, NotBorn, ProcType, NoRequest, RequestType, NoScan, ScanType

\* What happens to a process.
LEMMA ProcFields ==
  ASSUME NEW r \in ProcType
  PROVE  /\ LET u == [r EXCEPT !.ready = TRUE]
            IN  u \in ProcType /\ u.ready /\ u.born = r.born /\ u.normal = r.normal /\ u.ended = r.ended
         /\ LET u == [r EXCEPT !.normal = TRUE]
            IN  u \in ProcType /\ u.normal /\ u.born = r.born /\ u.ready = r.ready /\ u.ended = r.ended
         /\ LET u == [r EXCEPT !.ended = TRUE]
            IN  u \in ProcType /\ u.ended /\ u.born = r.born /\ u.ready = r.ready /\ u.normal = r.normal
         /\ LET u == [r EXCEPT !.born = TRUE]
            IN  u \in ProcType /\ u.born /\ u.ready = r.ready /\ u.normal = r.normal /\ u.ended = r.ended
BY DEF ProcType

\* A new entry, and one whose guest was entered.
LEMMA EntryFields ==
  /\ \A p \in Pids : \A kind \in {"sync", "async"} : \A tid \in 0..MaxTid - 1 :
        [pid |-> p, mode |-> kind, owner |-> tid, launching |-> TRUE] \in ChildType
  /\ \A c \in ChildType :
        /\ Settled(c) \in ChildType /\ Settled(c).pid = c.pid /\ Settled(c).mode = c.mode
        /\ ~ Settled(c).launching
        /\ c.mode = "async" => Settled(c).owner = 0
        /\ c.mode = "sync" => Settled(c).owner = c.owner
<1>1. 0 \in 0..MaxTid - 1
  BY Bounds
<1>2. \A p \in Pids : \A kind \in {"sync", "async"} : \A tid \in 0..MaxTid - 1 :
        [pid |-> p, mode |-> kind, owner |-> tid, launching |-> TRUE] \in ChildType
  BY DEF ChildType
<1>3. ASSUME NEW c \in ChildType
      PROVE  /\ Settled(c) \in ChildType /\ Settled(c).pid = c.pid /\ Settled(c).mode = c.mode
             /\ ~ Settled(c).launching
             /\ c.mode = "async" => Settled(c).owner = 0
             /\ c.mode = "sync" => Settled(c).owner = c.owner
  <2>1. CASE c.mode = "async"
    <3>1. Settled(c) = [c EXCEPT !.launching = FALSE, !.owner = 0]
      BY <2>1 DEF Settled
    <3> QED
      BY <1>1, <2>1, <3>1 DEF ChildType
  <2>2. CASE c.mode = "sync"
    <3>1. Settled(c) = [c EXCEPT !.launching = FALSE, !.owner = c.owner]
      BY <2>2 DEF Settled
    <3> QED
      BY <2>2, <3>1 DEF ChildType
  <2> QED
    BY <2>1, <2>2 DEF ChildType
<1> QED
  BY <1>2, <1>3

\* What the host keeps of a poll of DosExecPgm.
LEMMA ExecScanFields ==
  ASSUME NEW s \in Slots, NEW ready \in BOOLEAN, NEW ended \in BOOLEAN
  PROVE  LET u == [NoScan EXCEPT !.what = "exec", !.thread = s, !.ready = ready, !.ended = ended]
         IN  u \in ScanType /\ u.what = "exec" /\ u.thread = s /\ u.ended = ended
BY Bounds DEF NoScan, ScanType

\* One for DosWaitChild.
LEMMA PollScanFields ==
  ASSUME NEW s \in Slots, NEW pid \in Pids \cup {0}
  PROVE  LET u == [NoScan EXCEPT !.what = "poll", !.thread = s, !.pid = pid]
         IN  u \in ScanType /\ u.what = "poll" /\ u.thread = s /\ u.at = 0
BY Bounds DEF NoScan, ScanType

\* The next entry.
LEMMA NextScanFields ==
  ASSUME NEW c \in ScanType, c.at < NChildren
  PROVE  /\ LET u == [c EXCEPT !.at = @ + 1]
            IN  /\ u \in ScanType /\ u.what = c.what /\ u.thread = c.thread /\ u.pid = c.pid
                /\ u.at = c.at + 1 /\ u.exists = c.exists
         /\ LET u == [c EXCEPT !.at = @ + 1, !.exists = TRUE]
            IN  u \in ScanType /\ u.what = c.what /\ u.thread = c.thread /\ u.exists
<1>1. c.at + 1 \in 0..NChildren
  BY Bounds DEF ScanType
<1> QED
  BY <1>1 DEF ScanType

-----------------------------------------------------------------------------
(***************************************************************************)
(* The thread that waits                                                   *)
(***************************************************************************)

Others(s) == \A r \in Slots \ {s} : threads'[r] = threads[r]

\* A thread parked for a child is woken.
LEMMA ThreadWoken ==
  ASSUME WInv, NEW s \in Slots, NEW code \in Codes, threads[s].state = "WAIT_PROCESS",
         threads' = [threads EXCEPT ![s] = Ready(@, code)],
         UNCHANGED <<schedVars, mutexes, events>>
  PROVE  WInv' /\ threads'[s].state = "RUNNABLE" /\ Others(s)
<1> DEFINE u == Ready(threads[s], code)
<1>1. threads[s] \in ThreadType /\ Live(threads[s]) /\ threads[s].state # "RUNNING"
  BY DEF WInv, TypeOK, Live, Gone
<1>2. u \in ThreadType /\ u.state = "RUNNABLE" /\ Mild(threads[s], u)
  BY <1>1, ReadyFields
<1>3. threads' = [threads EXCEPT ![s] = u]
  OBVIOUS
<1> HIDE DEF u
<1>4. /\ threads' \in [Slots -> ThreadType]
      /\ \A r \in Slots : Mild(threads[r], threads'[r])
      /\ threads'[s] = u /\ \A r \in Slots \ {s} : threads'[r] = threads[r]
  BY <1>2, <1>3, OneThread
<1>5. \A r \in Slots : threads'[r].state = "RUNNING" <=> threads[r].state = "RUNNING"
  BY <1>1, <1>2, <1>4
<1>6. UNCHANGED schedVars /\ UNCHANGED mutexes /\ UNCHANGED events
  OBVIOUS
<1>7. /\ ThreadsOK' /\ OneRuns'
      /\ Sound(threads', mutexes, events, nextTid', waitSerial')
  BY <1>4, <1>5, <1>6, GoesOn
<1>8. TypeOK'
  BY <1>6, <1>7 DEF TypeOK, ThreadsOK, WInv
<1> QED
  BY <1>2, <1>4, <1>6, <1>7, <1>8 DEF WInv, Others

\* The current thread is parked for a child.
LEMMA ThreadParked ==
  ASSUME WInv, Guest, Block("WAIT_PROCESS", NoHandle, "finite"), UNCHANGED <<mutexes, events>>
  PROVE  /\ WInv' /\ Others(current) /\ current \in Slots
         /\ threads'[current].state = "WAIT_PROCESS" /\ threads'[current].tid = Me.tid
<1> DEFINE u == Parked(Me, "WAIT_PROCESS", NoHandle, "finite", waitSerial + 1)
<1>1. /\ Me \in ThreadType /\ waitSerial \in Nat /\ current \in Slots
      /\ threads \in [Slots -> ThreadType]
  BY MeRuns DEF WInv, TypeOK
<1>2. /\ "WAIT_PROCESS" \in ThreadStates /\ "finite" \in Timeouts
      /\ NoHandle \in [kind : {"none", "mutex", "event", "queue"}, slot : Nat, generation : Nat]
  BY DEF ThreadStates, Timeouts, NoHandle, Handle
<1>3. /\ u \in ThreadType /\ u.state = "WAIT_PROCESS" /\ u.tid = Me.tid
  BY <1>1, <1>2, ParkedFields
<1>4. SwitchTo([threads EXCEPT ![current] = u]) /\ waitSerial' = waitSerial + 1
  BY DEF Block, Me
<1> HIDE DEF u
<1>5. Live(u) /\ Parks(threads, current, u, mutexes, events, waitSerial, waitSerial')
  BY <1>3 DEF Live, Gone, Parks, OnMutexOf, OnEventOf
<1>6. WInv'
  <2>1. waitSerial' \in Nat /\ waitSerial <= waitSerial'
    BY <1>1, <1>4
  <2>2. u.state # "RUNNING" /\ UNCHANGED <<mutexes, events>>
    BY <1>3
  <2> QED
    BY <1>3, <1>4, <1>5, <2>1, <2>2, Switched
<1>7. threads'[current] = u /\ Others(current)
  BY <1>1, <1>4 DEF SwitchTo, Others
<1> QED
  BY <1>1, <1>3, <1>6, <1>7

\* The current thread gets the result of a call.
LEMMA ThreadAnswered ==
  ASSUME WInv, Guest, NEW code \in Codes,
         threads' = [threads EXCEPT ![current] = [@ EXCEPT !.rc = code]],
         UNCHANGED <<schedVars, mutexes, events>>
  PROVE  WInv' /\ Aside /\ threads'[current].state = "RUNNING" /\ Others(current)
<1>1. Refuse(code)
  BY DEF Refuse, Answer
<1>2. threads \in [Slots -> ThreadType] /\ current \in Slots
  BY DEF WInv, TypeOK
<1>3. Others(current)
  BY <1>2 DEF Others
<1>4. WInv' /\ Aside
  BY <1>1, Refused, AnswerAside DEF Refuse
<1>5. threads'[current].state = "RUNNING"
  BY <1>1, Answered DEF Refuse, WInv, TypeOK, OneRuns
<1> QED
  BY <1>3, <1>4, <1>5

-----------------------------------------------------------------------------
(***************************************************************************)
(* Each step keeps the invariant                                           *)
(***************************************************************************)

\* The start is in order.
LEMMA InitPInv == PInit => PInv
<1> SUFFICES ASSUME PInit PROVE PInv
  OBVIOUS
<1>1. WInv /\ \A s \in Slots : threads[s].state # "WAIT_PROCESS"
  <2>1. Init => \A s \in Slots : threads[s].state \in {"RUNNING", "FREE"}
    BY ZeroFields DEF Init, ZeroThread
  <2> QED
    BY <2>1, InitSound DEF PInit
<1>2. Typed
  BY EmptyFields DEF PInit, Typed
<1>3. Lives /\ Entries
  BY EmptyFields DEF PInit, Lives, Entries
<1>4. OwnEntry /\ Going
  BY <1>1, EmptyFields DEF PInit, OwnEntry, Going, Polling
<1> QED
  BY <1>1, <1>2, <1>3, <1>4 DEF PInv

\* A process goes on: nothing it has done is undone.
LEMMA ProcessGoesOn ==
  ASSUME PInv, UNCHANGED <<vars, children, requests, scan>>, procs' \in [Pids -> ProcType],
         \A p \in Pids : /\ procs[p].born => procs'[p].born
                         /\ procs[p].ready => procs'[p].ready
                         /\ procs[p].ended => procs'[p].ended,
         Lives'
  PROVE  PInv'
<1>1. UNCHANGED vars /\ UNCHANGED children /\ UNCHANGED requests /\ UNCHANGED scan
      /\ UNCHANGED threads /\ UNCHANGED mode /\ UNCHANGED current
  BY DEF vars
<1>2. WInv'
  BY <1>1, StutterPreserves DEF PInv
<1>3. Typed'
  BY <1>1 DEF PInv, Typed
<1>4. \A i \in ChildSlots : children[i].pid # 0 => children[i].pid \in Pids
  BY DEF PInv, Typed, ChildType
<1>5. Entries'
  BY <1>1, <1>4 DEF PInv, Entries
<1>6. OwnEntry'
  BY <1>1 DEF PInv, OwnEntry, Polling
<1>7. scan.what = "exec" => LET i == requests[scan.thread].slot
                            IN i \in ChildSlots /\ children[i].pid \in Pids
  BY <1>4 DEF PInv, Typed, ScanType, OwnEntry, Going
<1>8. Going'
  BY <1>1, <1>7 DEF PInv, Going, Polling, Guest, Eligible
<1> QED
  BY <1>2, <1>3, <1>5, <1>6, <1>8 DEF PInv

\* The child's side.
LEMMA ChildStepKeeps ==
  ASSUME PInv, NEW p \in Pids, ChildStep(p)
  PROVE  PInv'
<1>1. procs \in [Pids -> ProcType] /\ UNCHANGED <<vars, children, requests, scan>>
  BY DEF PInv, Typed, ChildStep, EnterGuest, LeaveGuest, ChildEnds
<1>2. \E u \in ProcType :
         /\ procs' = [procs EXCEPT ![p] = u]
         /\ procs[p].born => u.born
         /\ procs[p].ready => u.ready
         /\ procs[p].ended => u.ended
         /\ u.ready => u.born
         /\ u.normal => u.ready
         /\ u.ended => u.born
  <2>1. procs[p] \in ProcType
    BY <1>1
  <2>2. CASE EnterGuest(p)
    <3>1. procs' = [procs EXCEPT ![p] = [procs[p] EXCEPT !.ready = TRUE]]
      BY <2>2 DEF EnterGuest
    <3> QED
      BY ZenonT(30), <2>1, <2>2, <3>1, ProcFields DEF EnterGuest, PInv, Lives
  <2>3. CASE LeaveGuest(p)
    <3>1. procs' = [procs EXCEPT ![p] = [procs[p] EXCEPT !.normal = TRUE]]
      BY <2>3 DEF LeaveGuest
    <3> QED
      BY ZenonT(30), <2>1, <2>3, <3>1, ProcFields DEF LeaveGuest, PInv, Lives
  <2>4. CASE ChildEnds(p)
    <3>1. procs' = [procs EXCEPT ![p] = [procs[p] EXCEPT !.ended = TRUE]]
      BY <2>4 DEF ChildEnds
    <3> QED
      BY <2>1, <2>4, <3>1, ProcFields DEF ChildEnds, PInv, Lives
  <2> QED
    BY <2>2, <2>3, <2>4 DEF ChildStep
<1>3. procs' \in [Pids -> ProcType]
      /\ \A q \in Pids : /\ procs[q].born => procs'[q].born
                         /\ procs[q].ready => procs'[q].ready
                         /\ procs[q].ended => procs'[q].ended
  BY <1>1, <1>2
<1>4. Lives'
  BY <1>1, <1>2 DEF PInv, Lives
<1> QED
  BY <1>1, <1>3, <1>4, ProcessGoesOn

\* Steps of the threads that have nothing to do with children.
LEMMA ThreadsGoOn ==
  ASSUME PInv, HostFree, WInv', Aside, UNCHANGED pVars
  PROVE  PInv'
<1>1. UNCHANGED children /\ UNCHANGED procs /\ UNCHANGED requests /\ UNCHANGED scan
      /\ scan = NoScan
  BY DEF pVars, HostFree
<1>2. Typed' /\ Lives' /\ Entries'
  BY <1>1 DEF PInv, Typed, Lives, Entries
<1>3. \A s \in Slots : Polling(s, "exec")' => Polling(s, "exec") /\ threads'[s] = threads[s]
  BY <1>1 DEF Polling, Aside, Elsewhere
<1>4. OwnEntry'
  BY <1>1, <1>3 DEF PInv, OwnEntry
<1>5. Going'
  BY <1>1, EmptyFields DEF Going
<1> QED
  BY <1>2, <1>4, <1>5 DEF PInv

\* DosExecPgm starts a child, or refuses.
LEMMA ExecPgmKeeps ==
  ASSUME PInv, NEW kind \in {"sync", "async"}, ExecPgm(kind)
  PROVE  PInv'
<1>1. HostFree /\ Guest /\ WInv
  BY DEF ExecPgm, PInv
<1>2. CASE Refuse("ERROR") /\ UNCHANGED pVars
  <2>1. WInv' /\ Aside
    BY <1>1, <1>2, Refused, AnswerAside DEF Refuse, Codes
  <2> QED
    BY <1>1, <1>2, <2>1, ThreadsGoOn
<1>3. ASSUME NEW i \in ChildSlots, NEW p \in Pids,
             FirstFreeChild(i), Created(p),
             children' = [children EXCEPT ![i] =
                 [pid |-> p, mode |-> kind, owner |-> Me.tid, launching |-> TRUE]],
             procs' = [procs EXCEPT ![p].born = TRUE],
             requests' = [requests EXCEPT ![current] = [kind |-> "exec", slot |-> i, pid |-> 0]],
             Block("WAIT_PROCESS", NoHandle, "finite"), UNCHANGED <<scan, mutexes, events>>
      PROVE  PInv'
  <2>1. /\ WInv' /\ Others(current) /\ current \in Slots
        /\ threads'[current].state = "WAIT_PROCESS" /\ threads'[current].tid = Me.tid
    BY <1>1, <1>3, ThreadParked
  <2>2. Me.tid # 0 /\ Me.tid \in 0..MaxTid - 1
    <3>1. threads[current].state = "RUNNING" /\ nextTid \in 2..MaxTid /\ MaxTid \in Nat
      BY <1>1, Bounds DEF WInv, TypeOK, OneRuns
    <3>2. Me.tid \in 1..nextTid - 1
      BY <1>1, <2>1, <3>1 DEF WInv, Sound, Tids, Me
    <3> QED
      BY <3>1, <3>2
  <2> DEFINE c == [pid |-> p, mode |-> kind, owner |-> Me.tid, launching |-> TRUE]
             r == [kind |-> "exec", slot |-> i, pid |-> 0]
             q == [procs[p] EXCEPT !.born = TRUE]
  <2>3. c \in ChildType /\ c.pid = p /\ c.owner = Me.tid /\ c.launching
    BY <2>2, EntryFields
  <2>4. r \in RequestType /\ r.kind = "exec" /\ r.slot = i
    BY DEF RequestType, ChildSlots
  <2>5. procs[p] \in ProcType /\ ~ procs[p].born
    BY <1>3 DEF PInv, Typed, Created
  <2>6. q \in ProcType /\ q.born /\ q.ready = procs[p].ready /\ q.normal = procs[p].normal
        /\ q.ended = procs[p].ended
    BY <2>5, ProcFields
  <2>7. /\ children' = [children EXCEPT ![i] = c] /\ procs' = [procs EXCEPT ![p] = q]
        /\ requests' = [requests EXCEPT ![current] = r] /\ scan' = NoScan
    BY <1>1, <1>3 DEF HostFree
  <2> HIDE DEF c, r, q
  <2>8. /\ children \in [ChildSlots -> ChildType] /\ procs \in [Pids -> ProcType]
        /\ requests \in [Slots -> RequestType] /\ 0 \notin Pids
    BY Bounds DEF PInv, Typed
  <2>9. /\ children'[i] = c /\ \A j \in ChildSlots \ {i} : children'[j] = children[j]
        /\ procs'[p] = q /\ \A o \in Pids \ {p} : procs'[o] = procs[o]
        /\ requests'[current] = r /\ \A s \in Slots \ {current} : requests'[s] = requests[s]
    BY <2>1, <2>7, <2>8
  <2>10. Typed'
    BY <2>3, <2>4, <2>6, <2>7, <2>8, EmptyFields DEF Typed
  <2>11. Lives'
    BY <2>6, <2>9 DEF PInv, Lives
  <2>12. \A j \in ChildSlots : children[j].pid # p /\ children[j].pid \in Pids \cup {0}
    BY <2>5, <2>8 DEF PInv, Entries, ChildType
  <2>13. Entries'
    BY <2>2, <2>3, <2>6, <2>8, <2>9, <2>12 DEF PInv, Entries
  <2>14. children[i].pid = 0
    BY <1>3 DEF FirstFreeChild
  <2>15. \A s \in Slots \ {current} :
            Polling(s, "exec")' => Polling(s, "exec") /\ requests'[s] = requests[s]
                                   /\ threads'[s] = threads[s] /\ requests[s].slot # i
    BY <2>1, <2>9, <2>14 DEF Polling, Others, PInv, OwnEntry
  <2>16. OwnEntry'
    BY <2>1, <2>2, <2>3, <2>4, <2>8, <2>9, <2>15 DEF PInv, OwnEntry
  <2>17. Going'
    BY <2>7, EmptyFields DEF Going
  <2> QED
    BY <2>1, <2>10, <2>11, <2>13, <2>16, <2>17 DEF PInv
<1> QED
  BY <1>2, <1>3 DEF ExecPgm

\* An entry is taken out, or changed while its thread waits on or returns;
\* everyone else's stays as it is.
LEMMA EntryChanges ==
  ASSUME PInv, WInv', NEW s \in Slots, Polling(s, "exec"), NEW c \in ChildType,
         LET i == requests[s].slot
         IN  /\ children' = [children EXCEPT ![i] = c]
             /\ \/ c.pid = 0 /\ threads'[s].state = "RUNNABLE"
                \/ /\ c.pid = children[i].pid /\ ~ c.launching /\ procs[c.pid].ready
                   /\ threads'[s].state = "RUNNABLE" \/ c.owner = children[i].owner,
         Others(s), threads'[s].state = "RUNNABLE" \/ threads'[s] = threads[s],
         UNCHANGED <<procs, requests>>, scan' = NoScan
  PROVE  PInv'
<1> DEFINE i == requests[s].slot
<1>1. /\ i \in ChildSlots /\ children[i].pid # 0 /\ children[i].owner = threads[s].tid
      /\ children \in [ChildSlots -> ChildType]
  BY DEF PInv, OwnEntry, Typed
<1>2. children'[i] = c /\ \A j \in ChildSlots \ {i} : children'[j] = children[j]
  BY <1>1
<1>3. Typed'
  BY <1>1, EmptyFields DEF PInv, Typed
<1>4. Lives'
  BY DEF PInv, Lives
<1>5. Entries'
  <2>1. c.pid # 0 => procs[c.pid].born
    BY <1>1 DEF PInv, Entries
  <2> QED
    BY <1>1, <1>2, <2>1 DEF PInv, Entries
<1>6. \A r \in Slots \ {s} : Polling(r, "exec")' =>
          Polling(r, "exec") /\ threads'[r] = threads[r] /\ requests[r].slot # i
  BY DEF PInv, OwnEntry, Polling, Others
<1>7. Polling(s, "exec")' => threads'[s] = threads[s] /\ children'[i].pid # 0
                             /\ children'[i].owner = children[i].owner
  BY <1>1, <1>2 DEF Polling
<1>8. OwnEntry'
  BY <1>1, <1>2, <1>6, <1>7 DEF PInv, OwnEntry
<1>9. Going'
  BY EmptyFields DEF Going
<1> QED
  BY <1>3, <1>4, <1>5, <1>8, <1>9 DEF PInv

\* A poll of DosExecPgm asks for the process, which may fail.
LEMMA PollExecKeeps ==
  ASSUME PInv, NEW s \in Slots, PollExec(s)
  PROVE  PInv'
<1> DEFINE i == requests[s].slot
           p == children[i].pid
<1>1. Polling(s, "exec") /\ HostFree /\ WInv
  BY DEF PollExec, PInv
<1>2. i \in ChildSlots /\ children[i].pid # 0 /\ p \in Pids
  BY <1>1 DEF PInv, OwnEntry, Typed, ChildType
<1>3. CASE /\ scan' = [NoScan EXCEPT !.what = "exec", !.thread = s,
                                     !.ready = procs[p].ready, !.ended = procs[p].ended]
           /\ UNCHANGED <<vars, children, procs, requests>>
  <2>1. procs[p].ready \in BOOLEAN /\ procs[p].ended \in BOOLEAN
    BY <1>2 DEF PInv, Typed, ProcType
  <2>2. scan' \in ScanType /\ scan'.what = "exec" /\ scan'.thread = s
        /\ scan'.ended = procs[p].ended
    BY ZenonT(30), <1>3, <2>1, ExecScanFields
  <2>3. UNCHANGED vars /\ UNCHANGED children /\ UNCHANGED procs /\ UNCHANGED requests
        /\ UNCHANGED threads
    BY <1>3 DEF vars
  <2>4. WInv' /\ Typed' /\ Lives' /\ Entries'
    BY <2>2, <2>3, StutterPreserves DEF PInv, Typed, Lives, Entries
  <2>5. OwnEntry'
    BY <2>3 DEF PInv, OwnEntry, Polling
  <2>6. Going'
    BY <1>1, <2>2, <2>3 DEF Going, Polling
  <2> QED
    BY <2>4, <2>5, <2>6 DEF PInv
<1>4. CASE /\ children' = [children EXCEPT ![i] = NoChild]
           /\ threads' = [threads EXCEPT ![s] = Ready(@, "ERROR")]
           /\ UNCHANGED <<schedVars, mutexes, events, procs, requests, scan>>
  <2>1. WInv' /\ threads'[s].state = "RUNNABLE" /\ Others(s)
    BY <1>1, <1>4, ThreadWoken DEF Polling, Codes
  <2> QED
    BY <1>1, <1>4, <2>1, EmptyFields, EntryChanges DEF HostFree
<1> QED
  BY <1>3, <1>4 DEF PollExec

\* What JudgeExec finds: the thread still polls, its entry is its own, and
\* what was seen of the process is so.
LEMMA Judged ==
  ASSUME PInv, scan.what = "exec"
  PROVE  LET s == scan.thread
             i == requests[s].slot
             c == children[i]
         IN  /\ s \in Slots /\ Polling(s, "exec") /\ i \in ChildSlots
             /\ c \in ChildType /\ c.pid \in Pids /\ c.owner = threads[s].tid
             /\ Seen(c.pid).ready = procs[c.pid].ready
             /\ Seen(c.pid).ended => procs[c.pid].ended
BY DEF PInv, Typed, ScanType, Going, OwnEntry, ChildType, Seen

\* DosExecPgm returns, or waits on.
LEMMA JudgeExecKeeps ==
  ASSUME PInv, JudgeExec
  PROVE  PInv'
<1> DEFINE s == scan.thread
           i == requests[s].slot
           c == children[i]
<1>1. /\ scan.what = "exec" /\ scan' = NoScan
      /\ UNCHANGED schedVars /\ UNCHANGED mutexes /\ UNCHANGED events
      /\ UNCHANGED procs /\ UNCHANGED requests
  BY DEF JudgeExec
<1>2. /\ s \in Slots /\ Polling(s, "exec") /\ i \in ChildSlots /\ c \in ChildType
      /\ c.pid \in Pids /\ Seen(c.pid).ready = procs[c.pid].ready
  BY <1>1, Judged
<1>3. \/ threads' = threads
      \/ \E code \in Codes : threads' = [threads EXCEPT ![s] = Ready(@, code)]
  BY DEF JudgeExec, Codes
<1>4. /\ WInv' /\ Others(s)
      /\ threads'[s].state = "RUNNABLE" \/ threads'[s] = threads[s]
  <2>1. CASE threads' = threads
    <3>1. UNCHANGED vars
      BY <1>1, <2>1 DEF vars, schedVars
    <3> QED
      BY <2>1, <3>1, StutterPreserves DEF PInv, Others
  <2>2. ASSUME NEW code \in Codes, threads' = [threads EXCEPT ![s] = Ready(@, code)]
        PROVE  WInv' /\ Others(s) /\ threads'[s].state = "RUNNABLE"
    BY <1>1, <1>2, <2>2, ThreadWoken DEF PInv, Polling
  <2> QED
    BY <1>3, <2>1, <2>2
<1>5. ASSUME NEW code \in Codes, threads' = [threads EXCEPT ![s] = Ready(@, code)]
      PROVE  threads'[s].state = "RUNNABLE"
  BY <1>1, <1>2, <1>5, ThreadWoken DEF PInv, Polling
<1>6. CASE children' = [children EXCEPT ![i] = Settled(@)] /\ procs[c.pid].ready
           /\ (c.mode = "async" => threads'[s].state = "RUNNABLE")
  <2>1. /\ Settled(c) \in ChildType /\ Settled(c).pid = c.pid /\ ~ Settled(c).launching
        /\ c.mode = "sync" => Settled(c).owner = c.owner
    BY <1>2, EntryFields
  <2>2. children' = [children EXCEPT ![i] = Settled(c)]
    BY <1>6
  <2>3. threads'[s].state = "RUNNABLE" \/ Settled(c).owner = c.owner
    BY <1>2, <1>6, <2>1 DEF ChildType
  <2> QED
    BY <1>1, <1>2, <1>4, <1>6, <2>1, <2>2, <2>3, EntryChanges
<1>7. CASE children' = [children EXCEPT ![i] = NoChild] /\ threads'[s].state = "RUNNABLE"
  BY <1>1, <1>2, <1>4, <1>7, EmptyFields, EntryChanges
<1>8. CASE children' = children /\ threads' = threads
  <2>1. Typed' /\ Lives' /\ Entries'
    BY <1>1, <1>8, EmptyFields DEF PInv, Typed, Lives, Entries
  <2>2. OwnEntry'
    BY <1>1, <1>8 DEF PInv, OwnEntry, Polling
  <2>3. Going'
    BY <1>1, EmptyFields DEF Going
  <2> QED
    BY <1>4, <2>1, <2>2, <2>3 DEF PInv
<1>9. \/ /\ children' = [children EXCEPT ![i] = Settled(@)] /\ Seen(c.pid).ready
         /\ c.mode = "async" => threads' = [threads EXCEPT ![s] = Ready(@, "NO_ERROR")]
      \/ /\ children' = [children EXCEPT ![i] = NoChild]
         /\ \E code \in Codes : threads' = [threads EXCEPT ![s] = Ready(@, code)]
      \/ children' = children /\ threads' = threads
  BY DEF JudgeExec, Codes
<1> QED
  BY <1>2, <1>5, <1>6, <1>7, <1>8, <1>9 DEF Codes

\* A scan of the table begins, by a call or by a poll.
LEMMA ScanBegins ==
  ASSUME PInv, UNCHANGED <<vars, children, procs, requests>>, scan' \in ScanType,
         scan'.at = 0,
         \/ scan'.what = "call" /\ Guest /\ scan'.thread = current
         \/ scan'.what = "poll" /\ Polling(scan'.thread, "wait")
  PROVE  PInv'
<1>1. UNCHANGED vars /\ UNCHANGED children /\ UNCHANGED procs /\ UNCHANGED requests
      /\ UNCHANGED threads /\ UNCHANGED mode /\ UNCHANGED current
  BY DEF vars
<1>2. WInv' /\ Typed' /\ Lives' /\ Entries'
  BY <1>1, StutterPreserves DEF PInv, Typed, Lives, Entries
<1>3. OwnEntry'
  BY <1>1 DEF PInv, OwnEntry, Polling
<1>4. \A i \in ChildSlots : ~ (i < 0)
  BY DEF ChildSlots
<1>5. Going'
  BY <1>1, <1>4 DEF Going, Polling, Guest
<1> QED
  BY <1>2, <1>3, <1>5 DEF PInv

\* DosWaitChild starts a scan.
LEMMA WaitChildKeeps ==
  ASSUME PInv, NEW pid \in Pids \cup {0}, NEW nowait \in BOOLEAN, WaitChild(pid, nowait)
  PROVE  PInv'
<1>1. Guest /\ current \in Slots /\ UNCHANGED <<vars, children, procs, requests>>
  BY DEF WaitChild, PInv, WInv, TypeOK
<1>2. scan' \in ScanType /\ scan'.what = "call" /\ scan'.thread = current /\ scan'.at = 0
  <2> DEFINE u == [NoScan EXCEPT !.what = "call", !.thread = current, !.pid = pid,
                                 !.nowait = nowait]
  <2>1. scan' = u
    BY DEF WaitChild
  <2>2. u \in ScanType /\ u.what = "call" /\ u.thread = current /\ u.at = 0
    BY <1>1, Bounds DEF NoScan, ScanType
  <2> HIDE DEF u
  <2> QED
    BY <2>1, <2>2
<1> QED
  BY <1>1, <1>2, ScanBegins

\* So does a poll of a parked one.
LEMMA PollWaitKeeps ==
  ASSUME PInv, NEW s \in Slots, PollWait(s)
  PROVE  PInv'
<1>1. /\ Polling(s, "wait") /\ UNCHANGED <<vars, children, procs, requests>>
      /\ requests[s].pid \in Pids \cup {0}
  BY DEF PollWait, PInv, Typed, RequestType
<1>2. scan' \in ScanType /\ scan'.what = "poll" /\ scan'.thread = s /\ scan'.at = 0
  <2>1. scan' = [NoScan EXCEPT !.what = "poll", !.thread = s, !.pid = requests[s].pid]
    BY DEF PollWait
  <2> QED
    BY <1>1, <2>1, PollScanFields
<1> QED
  BY <1>1, <1>2, ScanBegins

\* The thread a scan is made for gets its result.
LEMMA ScanReturns ==
  ASSUME PInv, Scanning, NEW code \in Codes, Returns(code),
         UNCHANGED <<schedVars, mutexes, events>>
  PROVE  /\ WInv' /\ Others(scan.thread)
         /\ threads'[scan.thread].state # "WAIT_PROCESS"
<1>1. scan.thread \in Slots /\ threads \in [Slots -> ThreadType] /\ WInv
  BY DEF PInv, Typed, ScanType, WInv, TypeOK
<1>2. CASE scan.what = "call"
  <2>1. Guest /\ scan.thread = current
    BY <1>2 DEF PInv, Going
  <2>2. threads' = [threads EXCEPT ![current] = [@ EXCEPT !.rc = code]]
    BY <1>2, <2>1 DEF Returns
  <2> QED
    BY <1>1, <2>1, <2>2, ThreadAnswered
<1>3. CASE scan.what = "poll"
  <2>1. threads[scan.thread].state = "WAIT_PROCESS"
    BY <1>3 DEF PInv, Going, Polling
  <2>2. threads' = [threads EXCEPT ![scan.thread] = Ready(@, code)]
    BY <1>3 DEF Returns
  <2> QED
    BY <1>1, <2>1, <2>2, ThreadWoken
<1> QED
  BY <1>2, <1>3 DEF Scanning

\* A scan ends: its thread waits no more, or as before, and an entry that no
\* DosExecPgm waits on may be gone.
LEMMA ScanIsOver ==
  ASSUME PInv, WInv', UNCHANGED procs, scan' = NoScan, requests' \in [Slots -> RequestType],
         \A s \in Slots : Polling(s, "exec")' =>
             Polling(s, "exec") /\ requests'[s] = requests[s] /\ threads'[s] = threads[s],
         \/ children' = children
         \/ \E i \in ChildSlots :
               children[i].owner = 0 /\ children' = [children EXCEPT ![i] = NoChild]
  PROVE  PInv'
<1>1. children \in [ChildSlots -> ChildType]
  BY DEF PInv, Typed
<1>2. children' \in [ChildSlots -> ChildType]
      /\ \A j \in ChildSlots : \/ children'[j] = children[j]
                               \/ children[j].owner = 0 /\ children'[j].pid = 0
  BY <1>1, EmptyFields
<1>3. Typed' /\ Lives'
  BY <1>2, EmptyFields DEF PInv, Typed, Lives
<1>4. Entries'
  BY <1>2 DEF PInv, Entries
<1>5. \A s \in Slots : Polling(s, "exec") => threads[s].tid # 0
  <2> SUFFICES ASSUME NEW s \in Slots, Polling(s, "exec") PROVE threads[s].tid # 0
    OBVIOUS
  <2>1. threads[s].state # "FREE" /\ nextTid \in Nat
    BY DEF Polling, PInv, WInv, TypeOK
  <2>2. threads[s].tid \in 1..nextTid - 1
    BY <2>1 DEF PInv, WInv, Sound, Tids
  <2> QED
    BY <2>1, <2>2
<1>6. OwnEntry'
  BY <1>2, <1>5 DEF PInv, OwnEntry
<1>7. Going'
  BY EmptyFields DEF Going
<1> QED
  BY <1>3, <1>4, <1>6, <1>7 DEF PInv

\* A child that can be collected is owned by nobody.
LEMMA ScanChildKeeps ==
  ASSUME PInv, ScanChild
  PROVE  PInv'
<1> DEFINE i == scan.at
           c == children[i]
<1>1. /\ Scanning /\ i \in ChildSlots /\ scan \in ScanType /\ i < NChildren
      /\ UNCHANGED schedVars /\ UNCHANGED mutexes /\ UNCHANGED events /\ UNCHANGED procs
      /\ UNCHANGED requests /\ UNCHANGED <<schedVars, mutexes, events>>
  BY Bounds DEF ScanChild, PInv, Typed, ScanType, ChildSlots
<1>2. CASE /\ UNCHANGED <<threads, children>>
           /\ \/ ~ Eligible(c, scan.pid) /\ scan' = [scan EXCEPT !.at = @ + 1]
              \/ scan' = [scan EXCEPT !.at = @ + 1, !.exists = TRUE]
  <2>1. UNCHANGED vars /\ UNCHANGED children /\ UNCHANGED threads /\ UNCHANGED mode
        /\ UNCHANGED current
    BY <1>1, <1>2 DEF vars, schedVars
  <2>2. /\ scan' \in ScanType /\ scan'.what = scan.what /\ scan'.thread = scan.thread
        /\ \/ /\ ~ Eligible(c, scan.pid) /\ scan'.pid = scan.pid
              /\ scan'.at = i + 1 /\ scan'.exists = scan.exists
           \/ scan'.exists
    <3>1. CASE ~ Eligible(c, scan.pid) /\ scan' = [scan EXCEPT !.at = @ + 1]
      BY <1>1, <3>1, NextScanFields
    <3>2. CASE scan' = [scan EXCEPT !.at = @ + 1, !.exists = TRUE]
      BY <1>1, <3>2, NextScanFields
    <3> QED
      BY <1>2, <3>1, <3>2
  <2>3. WInv' /\ Typed' /\ Lives' /\ Entries'
    BY <1>1, <2>1, <2>2, StutterPreserves DEF PInv, Typed, Lives, Entries
  <2>4. OwnEntry'
    BY <1>1, <2>1 DEF PInv, OwnEntry, Polling
  <2>5. i \in Nat /\ \A j \in ChildSlots : j < i + 1 => j < i \/ j = i
    BY <1>1 DEF ChildSlots
  <2>6. scan'.what \in {"call", "poll"}
    BY <1>1, <2>2 DEF Scanning
  <2>7. Going'
    BY <1>1, <2>1, <2>2, <2>5, <2>6 DEF PInv, Going, Polling, Guest, Eligible
  <2> QED
    BY <2>3, <2>4, <2>7 DEF PInv
<1>3. ASSUME NEW code \in Codes, Returns(code), scan' = NoScan,
             \/ children' = children
             \/ c.owner = 0 /\ children' = [children EXCEPT ![i] = NoChild]
      PROVE  PInv'
  <2>1. WInv' /\ Others(scan.thread) /\ threads'[scan.thread].state # "WAIT_PROCESS"
    BY <1>1, <1>3, ScanReturns
  <2>2. \A s \in Slots : Polling(s, "exec")' =>
            Polling(s, "exec") /\ requests'[s] = requests[s] /\ threads'[s] = threads[s]
    BY <1>1, <2>1 DEF Polling, Others
  <2>3. requests' \in [Slots -> RequestType]
    BY <1>1 DEF PInv, Typed
  <2> QED
    BY <1>1, <1>3, <2>1, <2>2, <2>3, ScanIsOver
<1> QED
  BY <1>2, <1>3 DEF ScanChild, Eligible, Collected, Codes

\* The end of the table.
LEMMA ScanEndsKeeps ==
  ASSUME PInv, ScanEnds
  PROVE  PInv'
<1>1. /\ Scanning /\ scan' = NoScan /\ scan \in ScanType
      /\ UNCHANGED children /\ UNCHANGED mutexes /\ UNCHANGED events /\ UNCHANGED procs
  BY DEF ScanEnds, PInv, Typed
<1>2. CASE Returns("ERROR") /\ UNCHANGED <<schedVars, requests>>
  <2>1. WInv' /\ Others(scan.thread) /\ threads'[scan.thread].state # "WAIT_PROCESS"
    BY <1>1, <1>2, ScanReturns DEF Codes
  <2>2. \A s \in Slots : Polling(s, "exec")' =>
            Polling(s, "exec") /\ requests'[s] = requests[s] /\ threads'[s] = threads[s]
    BY <1>2, <2>1 DEF Polling, Others
  <2>3. requests' \in [Slots -> RequestType]
    BY <1>2 DEF PInv, Typed
  <2> QED
    BY <1>1, <2>1, <2>2, <2>3, ScanIsOver
<1>3. CASE /\ scan.what = "call" /\ Block("WAIT_PROCESS", NoHandle, "finite")
           /\ requests' = [requests EXCEPT ![scan.thread] =
                              [kind |-> "wait", slot |-> 0, pid |-> scan.pid]]
  <2>1. Guest /\ scan.thread = current /\ WInv
    BY <1>3 DEF PInv, Going
  <2>2. WInv' /\ Others(current) /\ current \in Slots
    BY <1>1, <1>3, <2>1, ThreadParked
  <2>3. [kind |-> "wait", slot |-> 0, pid |-> scan.pid] \in RequestType
    BY <1>1 DEF RequestType, ScanType
  <2>4. /\ requests' \in [Slots -> RequestType] /\ requests'[current].kind = "wait"
        /\ \A s \in Slots \ {current} : requests'[s] = requests[s]
    BY <1>3, <2>1, <2>2, <2>3 DEF PInv, Typed
  <2>5. \A s \in Slots : Polling(s, "exec")' =>
            Polling(s, "exec") /\ requests'[s] = requests[s] /\ threads'[s] = threads[s]
    BY <2>2, <2>4 DEF Polling, Others
  <2> QED
    BY <1>1, <2>2, <2>4, <2>5, ScanIsOver
<1>4. CASE UNCHANGED <<threads, schedVars, requests>>
  <2>1. UNCHANGED vars /\ UNCHANGED threads /\ UNCHANGED requests
    BY <1>1, <1>4 DEF vars, schedVars
  <2>2. WInv'
    BY <2>1, StutterPreserves DEF PInv
  <2>3. \A s \in Slots : Polling(s, "exec")' =>
            Polling(s, "exec") /\ requests'[s] = requests[s] /\ threads'[s] = threads[s]
    BY <2>1 DEF Polling
  <2>4. requests' \in [Slots -> RequestType]
    BY <2>1 DEF PInv, Typed
  <2> QED
    BY <1>1, <2>2, <2>3, <2>4, ScanIsOver
<1> QED
  BY <1>2, <1>3, <1>4 DEF ScanEnds

\* Every step keeps the invariant.
LEMMA PNextKeeps == PInv /\ [PNext]_allVars => PInv'
<1> SUFFICES ASSUME PInv, [PNext]_allVars PROVE PInv'
  OBVIOUS
<1>1. CASE HostFree /\ Next /\ UNCHANGED pVars
  <2>1. WInv' /\ Aside
    BY <1>1, NextPreserves, NextAside DEF PInv
  <2> QED
    BY <1>1, <2>1, ThreadsGoOn
<1>2. CASE UNCHANGED allVars
  <2>1. UNCHANGED vars /\ UNCHANGED children /\ UNCHANGED procs /\ UNCHANGED requests
        /\ UNCHANGED scan /\ UNCHANGED threads /\ UNCHANGED mode /\ UNCHANGED current
    BY <1>2 DEF allVars, pVars, vars
  <2> QED
    BY <2>1, StutterPreserves
       DEF PInv, Typed, Lives, Entries, OwnEntry, Going, Polling, Guest, Eligible
<1> QED
  BY <1>1, <1>2, ChildStepKeeps, ExecPgmKeeps, PollExecKeeps, WaitChildKeeps, PollWaitKeeps,
     JudgeExecKeeps, ScanChildKeeps, ScanEndsKeeps
     DEF PNext, ProcessCall, Poll, HostGoesOn

-----------------------------------------------------------------------------
(***************************************************************************)
(* The properties                                                          *)
(***************************************************************************)

\* The inductive invariant holds whatever threads, children and polls do.
THEOREM PInvariance == PSpec => []PInv
<1> QED
  BY InitPInv, PNextKeeps, PTL DEF PSpec

\* The table of children is sound: the entry a DosExecPgm waits on is its own
\* until it returns, and no process is tracked twice (dispatch_process,
\* process_poll_wait).
THEOREM TableKept == PSpec => []TableSound
<1>1. PInv => TableSound
  <2> SUFFICES ASSUME PInv PROVE TableSound
    OBVIOUS
  <2>1. PTypeOK
    BY DEF PInv, Typed, PTypeOK, ChildType, ProcType, RequestType, ScanType
  <2> QED
    BY <2>1 DEF PInv, Entries, OwnEntry, TableSound, ExecKeepsEntry
<1> QED
  BY <1>1, PInvariance, PTL

\* What the scheduler and the semaphores promise, they promise beside polls
\* and waits for children too: ids are not shared, owners live, and whoever
\* waits for a semaphore or a thread cannot have it yet.
THEOREM SyncKept == PSpec => [](TypeOK /\ OneRuns /\ TidsUnique /\ OwnerLives /\ WaitersBlocked)
<1> QED
  BY SyncPromises, PInvariance, PTL DEF PInv

-----------------------------------------------------------------------------
(***************************************************************************)
(* Reports are true, and made once                                         *)
(***************************************************************************)

TrueAndOnce == (\A m \in told' : TrueFor(m)) /\ ToldOnceStep

\* What a report holds, and what the result of a child can be.
LEMMA Report ==
  \A s, p, what : /\ Tell(s, p, what).to = threads[s].tid /\ Tell(s, p, what).pid = p
                  /\ Tell(s, p, what).what = what
BY DEF Tell

\* How an ended child is reported.
LEMMA OutcomeOf ==
  \A p : /\ Outcome(p) \in {"finished", "aborted"}
         /\ Outcome(p) = "finished" <=> procs[p].normal
BY DEF Outcome

\* Nothing is said, and no child leaves the table.
LEMMA Silent ==
  ASSUME told' = {}, Tracked \subseteq Tracked'
  PROVE  TrueAndOnce
BY FS_EmptySet DEF TrueAndOnce, ToldOnceStep

\* One thing is said.
LEMMA Spoken ==
  ASSUME NEW m, told' = {m}, TrueFor(m),
         m.what \in {"finished", "aborted", "failed"} => m.pid \in Tracked \ Tracked',
         Tracked \ Tracked' \subseteq {m.pid}
  PROVE  TrueAndOnce
<1>1. Cardinality(told') = 1
  BY FS_Singleton
<1> QED
  BY <1>1 DEF TrueAndOnce, ToldOnceStep

\* Who leaves the table.
LEMMA Leaves ==
  ASSUME PInv, NEW i \in ChildSlots, children[i].pid # 0,
         children' = [children EXCEPT ![i] = NoChild]
  PROVE  Tracked \ Tracked' = {children[i].pid}
<1>1. children \in [ChildSlots -> ChildType]
  BY DEF PInv, Typed
<1>2. children'[i].pid = 0 /\ \A j \in ChildSlots \ {i} : children'[j] = children[j]
  BY <1>1, EmptyFields
<1>3. \A j \in ChildSlots \ {i} : children[j].pid # children[i].pid
  BY DEF PInv, Entries
<1> QED
  BY <1>2, <1>3 DEF Tracked

\* The table names the same processes.
LEMMA Stay ==
  ASSUME \A j \in ChildSlots : children'[j].pid = children[j].pid
  PROVE  Tracked' = Tracked
BY DEF Tracked

\* DosExecPgm adds a child and says nothing yet.
LEMMA ExecPgmSilent ==
  ASSUME PInv, NEW kind \in {"sync", "async"}, ExecPgm(kind)
  PROVE  TrueAndOnce
<1>1. told' = {} /\ children \in [ChildSlots -> ChildType]
  BY DEF ExecPgm, PInv, Typed
<1>2. \A j \in ChildSlots : children[j].pid # 0 => children'[j] = children[j]
  <2>1. CASE UNCHANGED pVars
    BY <2>1 DEF pVars
  <2>2. ASSUME NEW i \in ChildSlots, FirstFreeChild(i), NEW c,
               children' = [children EXCEPT ![i] = c]
        PROVE  \A j \in ChildSlots : children[j].pid # 0 => children'[j] = children[j]
    BY <1>1, <2>2 DEF FirstFreeChild
  <2> QED
    BY <2>1, <2>2 DEF ExecPgm
<1>3. Tracked \subseteq Tracked'
  BY <1>2 DEF Tracked
<1> QED
  BY <1>1, <1>3, Silent

\* A poll that cannot ask gives the child up.
LEMMA PollExecTrue ==
  ASSUME PInv, NEW s \in Slots, PollExec(s)
  PROVE  TrueAndOnce
<1> DEFINE i == requests[s].slot
           p == children[i].pid
           m == Tell(s, p, "unknown")
<1>1. Polling(s, "exec") /\ i \in ChildSlots /\ p # 0
  BY DEF PollExec, PInv, OwnEntry
<1>2. CASE told' = {} /\ UNCHANGED children
  BY <1>2, Silent, Stay
<1>3. CASE children' = [children EXCEPT ![i] = NoChild] /\ told' = {m}
  <2>1. m.pid = p /\ m.what = "unknown"
    BY Report
  <2> HIDE DEF m
  <2>2. TrueFor(m)
    BY <2>1 DEF TrueFor
  <2> QED
    BY <1>1, <1>3, <2>1, <2>2, Leaves, Spoken
<1> QED
  BY <1>2, <1>3 DEF PollExec

\* What DosExecPgm returns.
LEMMA JudgeExecTrue ==
  ASSUME PInv, JudgeExec
  PROVE  TrueAndOnce
<1> DEFINE s == scan.thread
           i == requests[s].slot
           c == children[i]
           p == c.pid
<1>1. /\ s \in Slots /\ i \in ChildSlots /\ c \in ChildType /\ p \in Pids
      /\ c.owner = threads[s].tid /\ Seen(p).ready = procs[p].ready
      /\ Seen(p).ended => procs[p].ended
  BY Judged DEF JudgeExec
<1>2. /\ p # 0 /\ UNCHANGED procs /\ children \in [ChildSlots -> ChildType]
  BY <1>1, Bounds DEF JudgeExec, PInv, Typed
<1>3. ASSUME children' = [children EXCEPT ![i] = Settled(@)]
      PROVE  Tracked' = Tracked
  <2>1. \A j \in ChildSlots : children'[j].pid = children[j].pid
    BY <1>1, <1>2, <1>3, EntryFields
  <2> QED
    BY <2>1, Stay
<1>4. ASSUME children' = [children EXCEPT ![i] = NoChild]
      PROVE  Tracked \ Tracked' = {p}
  BY <1>1, <1>2, <1>4, Leaves
<1>5. CASE told' = {} /\ (children' = [children EXCEPT ![i] = Settled(@)] \/ children' = children)
  BY <1>3, <1>5, Silent, Stay
<1>6. ASSUME NEW what \in {"started", "unknown"}, what = "started" => procs[p].ready,
             children' = [children EXCEPT ![i] = Settled(@)], told' = {Tell(s, p, what)}
      PROVE  TrueAndOnce
  <2> DEFINE m == Tell(s, p, what)
  <2>1. m.pid = p /\ m.what = what
    BY Report
  <2> HIDE DEF m
  <2>2. TrueFor(m)
    BY <1>2, <1>6, <2>1 DEF TrueFor
  <2>3. told' = {m} /\ Tracked' = Tracked
    BY <1>3, <1>6 DEF m
  <2> QED
    BY <1>6, <2>1, <2>2, <2>3, Spoken
<1>7. ASSUME procs[p].ready, procs[p].ended, c.mode = "sync",
             children' = [children EXCEPT ![i] = NoChild], told' = {Tell(s, p, Outcome(p))}
      PROVE  TrueAndOnce
  <2> DEFINE m == Tell(s, p, Outcome(p))
  <2>1. m.pid = p /\ m.what = Outcome(p) /\ m.to = threads[s].tid
    BY Report
  <2> HIDE DEF m
  <2>2. TrueFor(m)
    BY <1>1, <1>2, <1>7, <2>1, OutcomeOf DEF TrueFor
  <2>3. told' = {m} /\ Tracked \ Tracked' = {p}
    BY <1>4, <1>7 DEF m
  <2> QED
    BY <2>1, <2>2, <2>3, Spoken
<1>8. ASSUME ~ procs[p].ready, procs[p].ended,
             children' = [children EXCEPT ![i] = NoChild], told' = {Tell(s, p, "failed")}
      PROVE  TrueAndOnce
  <2> DEFINE m == Tell(s, p, "failed")
  <2>1. m.pid = p /\ m.what = "failed"
    BY Report
  <2> HIDE DEF m
  <2>2. TrueFor(m)
    BY <1>2, <1>8, <2>1 DEF TrueFor
  <2>3. told' = {m} /\ Tracked \ Tracked' = {p}
    BY <1>4, <1>8 DEF m
  <2> QED
    BY <2>1, <2>2, <2>3, Spoken
<1> QED
  BY <1>1, <1>5, <1>6, <1>7, <1>8 DEF JudgeExec

\* What DosWaitChild finds in an entry.
LEMMA ScanChildTrue ==
  ASSUME PInv, ScanChild
  PROVE  TrueAndOnce
<1> DEFINE s == scan.thread
           i == scan.at
           c == children[i]
           p == c.pid
<1>1. /\ i \in ChildSlots /\ children \in [ChildSlots -> ChildType] /\ UNCHANGED procs
  BY Bounds DEF ScanChild, PInv, Typed, ScanType, ChildSlots
<1>2. CASE told' = {} /\ UNCHANGED children
  BY <1>2, Silent, Stay
<1>3. ASSUME Eligible(c, scan.pid), procs[p].ended, children' = Collected(i),
             told' = {Tell(s, p, Outcome(p))}
      PROVE  TrueAndOnce
  <2> DEFINE m == Tell(s, p, Outcome(p))
  <2>1. m.pid = p /\ m.what = Outcome(p)
    BY Report
  <2>2. p # 0 /\ c.mode = "async" /\ c.owner = 0 /\ procs[p].ready
    BY <1>1, <1>3 DEF Eligible, PInv, Entries
  <2> HIDE DEF m
  <2>3. TrueFor(m)
    BY <1>1, <1>3, <2>1, <2>2, OutcomeOf DEF TrueFor
  <2>4. told' = {m} /\ Tracked \ Tracked' = {p}
    BY <1>1, <1>3, <2>2, Leaves DEF m, Collected
  <2> QED
    BY <2>1, <2>3, <2>4, Spoken
<1>4. ASSUME UNCHANGED children, told' = {Tell(s, p, "unknown")}
      PROVE  TrueAndOnce
  <2> DEFINE m == Tell(s, p, "unknown")
  <2>1. m.what = "unknown"
    BY Report
  <2> HIDE DEF m
  <2>2. TrueFor(m) /\ told' = {m} /\ Tracked' = Tracked
    BY <1>4, <2>1, Stay DEF TrueFor, m
  <2> QED
    BY <2>1, <2>2, Spoken
<1> QED
  BY <1>2, <1>3, <1>4 DEF ScanChild

\* What DosWaitChild says of the whole table.
LEMMA ScanEndsTrue ==
  ASSUME PInv, ScanEnds
  PROVE  TrueAndOnce
<1>1. UNCHANGED children /\ Tracked' = Tracked /\ Scanning /\ scan.at = NChildren
  BY Stay DEF ScanEnds
<1>2. CASE told' = {}
  BY <1>1, <1>2, Silent
<1>3. ASSUME ~ scan.exists, told' = {Tell(scan.thread, scan.pid, "none")}
      PROVE  TrueAndOnce
  <2> DEFINE m == Tell(scan.thread, scan.pid, "none")
  <2>1. m.what = "none" /\ m.pid = scan.pid
    BY Report
  <2>2. told' = {m}
    BY <1>3
  <2> HIDE DEF m
  <2>3. \A j \in ChildSlots : ~ Eligible(children[j], scan.pid)
    BY <1>1, <1>3, Bounds DEF PInv, Going, Scanning, ChildSlots
  <2>4. \A j \in ChildSlots : children[j].pid # 0 /\ children[j].mode = "async"
                              /\ children[j].owner = 0 => scan.pid \notin {0, children[j].pid}
    BY <2>3 DEF PInv, Entries, Eligible
  <2>5. TrueFor(m)
    BY <2>1, <2>4 DEF TrueFor
  <2> QED
    BY <1>1, <2>1, <2>2, <2>5, Spoken
<1>4. ASSUME told' = {Tell(scan.thread, scan.pid, "running")}
      PROVE  TrueAndOnce
  <2> DEFINE m == Tell(scan.thread, scan.pid, "running")
  <2>1. m.what = "running"
    BY Report
  <2>2. told' = {m}
    BY <1>4
  <2> HIDE DEF m
  <2>3. TrueFor(m)
    BY <2>1 DEF TrueFor
  <2> QED
    BY <1>1, <2>1, <2>2, <2>3, Spoken
<1> QED
  BY <1>2, <1>3, <1>4 DEF ScanEnds

\* Every step that says something says so truly, and once.
LEMMA PNextTrue ==
  ASSUME PInv, [PNext]_allVars
  PROVE  TrueAndOnce \/ UNCHANGED allVars
<1>1. told' = {} /\ UNCHANGED children => TrueAndOnce
  BY Silent, Stay
<1>2. HostFree /\ Next /\ UNCHANGED pVars /\ told' = {} => TrueAndOnce
  BY <1>1 DEF pVars
<1>3. ASSUME NEW p \in Pids, ChildStep(p)
      PROVE  TrueAndOnce
  BY <1>1, <1>3 DEF ChildStep, EnterGuest, LeaveGuest, ChildEnds
<1>4. ASSUME NEW pid, NEW nowait, WaitChild(pid, nowait)
      PROVE  TrueAndOnce
  BY <1>1, <1>4 DEF WaitChild
<1>5. ASSUME NEW s \in Slots, PollWait(s)
      PROVE  TrueAndOnce
  BY <1>1, <1>5 DEF PollWait
<1> QED
  BY <1>2, <1>3, <1>4, <1>5, ExecPgmSilent, PollExecTrue, JudgeExecTrue, ScanChildTrue,
     ScanEndsTrue DEF PNext, ProcessCall, Poll, HostGoesOn

\* What callers are told of a child is so, is told to the one it concerns,
\* and the end of a child is told once (process_poll_wait, process_collect).
THEOREM ReportsTrue == PSpec => Told
<1>1. PInv /\ [PNext]_allVars => [(\A m \in told' : TrueFor(m)) /\ ToldOnceStep]_allVars
  BY PNextTrue DEF TrueAndOnce
<1> QED
  BY <1>1, PInvariance, PTL DEF PSpec, Told

=============================================================================
