----------------------------- MODULE WhpProcess -----------------------------
(***************************************************************************)
(* DosExecPgm and DosWaitChild of the WHP host (whp/src/v2_process.h).     *)
(* Each guest program has a host process of its own; parent and child      *)
(* share a packet in which the child tells that its guest was entered      *)
(* (ready) and that it ended by itself (normal_exit).  The parent looks at *)
(* packet and process every 10 ms, while children run on: what it reads    *)
(* one after the other may change in between.                              *)
(*                                                                         *)
(* A poll or a DosWaitChild is one call of the host, so nothing else of    *)
(* the host happens between its reads.  Exit codes, names and parameter    *)
(* blocks are left out.                                                    *)
(***************************************************************************)
EXTENDS WhpSync

CONSTANTS
    NChildren,  \* MAX_CHILDREN
    MaxPid      \* bound: processes created

ASSUME WhpProcessAssumption == NChildren \in Nat /\ MaxPid \in Nat

VARIABLES
    children,  \* the table of children
    procs,     \* each process and its packet
    requests,  \* queue_args of the threads that wait for children
    scan,      \* where the host is in a poll or in DosWaitChild
    told       \* history: what callers learned in this step

pVars == <<children, procs, requests, scan>>
allVars == <<vars, pVars, told>>

ChildSlots == 0..NChildren - 1
Pids == 1..MaxPid

NoChild == [pid |-> 0, mode |-> "sync", owner |-> 0, launching |-> FALSE]
NotBorn == [born |-> FALSE, ready |-> FALSE, normal |-> FALSE, ended |-> FALSE]
NoRequest == [kind |-> "none", slot |-> 0, pid |-> 0]
NoScan == [what |-> "none", thread |-> 0, at |-> 0, exists |-> FALSE, pid |-> 0,
           nowait |-> FALSE, ready |-> FALSE, ended |-> FALSE]

HostFree == scan = NoScan
Polling(s, kind) == threads[s].state = "WAIT_PROCESS" /\ requests[s].kind = kind

Tell(s, pid, what) == [to |-> threads[s].tid, pid |-> pid, what |-> what]

\* The result of an ended child, of process_collect.
Outcome(p) == IF procs[p].normal THEN "finished" ELSE "aborted"

(***************************************************************************)
(* The child's side.                                                       *)
(***************************************************************************)
\* main, just before run_guest
EnterGuest(p) ==
    /\ procs[p].born /\ ~ procs[p].ended /\ ~ procs[p].ready
    /\ procs' = [procs EXCEPT ![p].ready = TRUE]
    /\ UNCHANGED <<vars, children, requests, scan>> /\ told' = {}

\* main, cleanup after the guest has called DosExit
LeaveGuest(p) ==
    /\ procs[p].ready /\ ~ procs[p].ended /\ ~ procs[p].normal
    /\ procs' = [procs EXCEPT ![p].normal = TRUE]
    /\ UNCHANGED <<vars, children, requests, scan>> /\ told' = {}

\* The process ends, or is ended, at any place.
ChildEnds(p) ==
    /\ procs[p].born /\ ~ procs[p].ended
    /\ procs' = [procs EXCEPT ![p].ended = TRUE]
    /\ UNCHANGED <<vars, children, requests, scan>> /\ told' = {}

(***************************************************************************)
(* DosExecPgm.                                                             *)
(***************************************************************************)
FirstFreeChild(i) ==
    children[i].pid = 0 /\ \A j \in ChildSlots : j < i => children[j].pid # 0

\* The handle of a tracked process keeps its pid from being given again; the
\* model gives none again after the handle is closed either.
Created(p) == ~ procs[p].born /\ \A q \in Pids : q < p => procs[q].born

\* Errors of the arguments, the program file and process_launch refuse the
\* call, a full table too.
ExecPgm(kind) ==
    /\ HostFree /\ Guest
    /\ \/ Refuse("ERROR") /\ UNCHANGED pVars
       \/ \E i \in ChildSlots, p \in Pids :
             /\ FirstFreeChild(i) /\ Created(p)
             /\ children' = [children EXCEPT ![i] =
                   [pid |-> p, mode |-> kind, owner |-> Me.tid, launching |-> TRUE]]
             /\ procs' = [procs EXCEPT ![p].born = TRUE]
             /\ requests' = [requests EXCEPT ![current] =
                   [kind |-> "exec", slot |-> i, pid |-> 0]]
             /\ Block("WAIT_PROCESS", NoHandle, "finite")
             /\ UNCHANGED <<scan, mutexes, events>>
    /\ told' = {}

\* process_poll_wait for DosExecPgm: first the process is asked whether it
\* has ended; asking may fail.
PollExec(s) ==
    LET i == requests[s].slot
        p == children[i].pid
    IN
    /\ HostFree /\ mode \in {"guest", "switch"} /\ Polling(s, "exec")
    /\ \/ /\ scan' = [NoScan EXCEPT !.what = "exec", !.thread = s,
                                    !.ready = procs[p].ready, !.ended = procs[p].ended]
          /\ told' = {}
          /\ UNCHANGED <<vars, children, procs, requests>>
       \/ /\ children' = [children EXCEPT ![i] = NoChild]
          /\ threads' = [threads EXCEPT ![s] = Ready(@, "ERROR")]
          /\ told' = {Tell(s, p, "unknown")}
          /\ UNCHANGED <<schedVars, mutexes, events, procs, requests, scan>>

\* Mutant of Seen: the packet is looked at before the process.
SeenLate(p) == [ready |-> scan.ready, ended |-> procs[p].ended]

\* Another: only the packet is looked at.
SeenPacket(p) == [ready |-> procs[p].ready, ended |-> FALSE]

\* What a poll goes by: the process as it was first, the packet as it is.
Seen(p) == [ready |-> procs[p].ready, ended |-> scan.ended]

\* Mutant of Settled: a synchronous child is given up as well.
SettledFree(c) == [c EXCEPT !.launching = FALSE, !.owner = 0]

\* The child's entry once its guest was entered.
Settled(c) == [c EXCEPT !.launching = FALSE, !.owner = IF c.mode = "async" THEN 0 ELSE @]

\* Then the packet is read, and the two are judged.
JudgeExec ==
    LET s == scan.thread
        i == requests[s].slot
        c == children[i]
        seen == Seen(c.pid)
        Done(code, what) == /\ threads' = [threads EXCEPT ![s] = Ready(@, code)]
                            /\ told' = {Tell(s, c.pid, what)}
        NotYet == threads' = threads /\ told' = {}
        Entered == children' = [children EXCEPT ![i] = Settled(@)]
        Released == children' = [children EXCEPT ![i] = NoChild]
    IN
    /\ scan.what = "exec"
    /\ scan' = NoScan
    /\ \/ seen.ready /\ c.mode = "async" /\ Entered /\ Done("NO_ERROR", "started")
       \/ /\ seen.ready /\ c.mode = "sync" /\ seen.ended
          /\ \/ Released /\ Done("NO_ERROR", Outcome(c.pid))
             \/ Entered /\ Done("ERROR", "unknown")
       \/ seen.ready /\ c.mode = "sync" /\ ~ seen.ended /\ Entered /\ NotYet
       \/ ~ seen.ready /\ seen.ended /\ Released /\ Done("ERROR", "failed")
       \/ ~ seen.ready /\ ~ seen.ended /\ NotYet /\ UNCHANGED children
    /\ UNCHANGED <<schedVars, mutexes, events, procs, requests>>

(***************************************************************************)
(* DosWaitChild, the call and its polls.                                   *)
(***************************************************************************)
WaitChild(pid, nowait) ==
    /\ HostFree /\ Guest
    /\ nowait \/ waitSerial < MaxSerial  \* bound
    /\ scan' = [NoScan EXCEPT !.what = "call", !.thread = current, !.pid = pid,
                              !.nowait = nowait]
    /\ UNCHANGED <<vars, children, procs, requests>> /\ told' = {}

PollWait(s) ==
    /\ HostFree /\ mode \in {"guest", "switch"} /\ Polling(s, "wait")
    /\ scan' = [NoScan EXCEPT !.what = "poll", !.thread = s, !.pid = requests[s].pid]
    /\ UNCHANGED <<vars, children, procs, requests>> /\ told' = {}

\* A started asynchronous child no DosExecPgm is busy with.
Eligible(c, pid) ==
    /\ c.pid # 0 /\ c.mode = "async" /\ ~ c.launching /\ c.owner = 0
    /\ pid \in {0, c.pid}

Scanning == scan.what \in {"call", "poll"}

\* The call returns, or the parked thread is woken.
Returns(code) ==
    threads' = [threads EXCEPT ![scan.thread] =
        IF scan.what = "call" THEN [@ EXCEPT !.rc = code] ELSE Ready(@, code)]

Collected(i) == [children EXCEPT ![i] = NoChild]

\* One entry of the table: skipped, still running, or collected.  Asking for
\* the process or its exit code may fail.
ScanChild ==
    LET c == children[scan.at]
        s == scan.thread
    IN
    /\ Scanning /\ scan.at < NChildren
    /\ \/ /\ ~ Eligible(c, scan.pid)
          /\ scan' = [scan EXCEPT !.at = @ + 1]
          /\ told' = {} /\ UNCHANGED <<threads, children>>
       \/ /\ Eligible(c, scan.pid) /\ ~ procs[c.pid].ended
          /\ scan' = [scan EXCEPT !.at = @ + 1, !.exists = TRUE]
          /\ told' = {} /\ UNCHANGED <<threads, children>>
       \/ /\ Eligible(c, scan.pid) /\ procs[c.pid].ended
          /\ children' = Collected(scan.at)
          /\ Returns("NO_ERROR") /\ told' = {Tell(s, c.pid, Outcome(c.pid))}
          /\ scan' = NoScan
       \/ /\ Eligible(c, scan.pid)
          /\ Returns("ERROR") /\ told' = {Tell(s, c.pid, "unknown")}
          /\ scan' = NoScan /\ UNCHANGED children
    /\ UNCHANGED <<schedVars, mutexes, events, procs, requests>>

\* No child has ended: an error when there is none to wait for or the call
\* must not wait.
ScanEnds ==
    LET s == scan.thread IN
    /\ Scanning /\ scan.at = NChildren
    /\ \/ /\ ~ scan.exists
          /\ Returns("ERROR") /\ told' = {Tell(s, scan.pid, "none")}
          /\ UNCHANGED <<schedVars, requests>>
       \/ /\ scan.exists /\ scan.nowait
          /\ Returns("ERROR") /\ told' = {Tell(s, scan.pid, "running")}
          /\ UNCHANGED <<schedVars, requests>>
       \/ /\ scan.exists /\ ~ scan.nowait /\ scan.what = "call"
          /\ Block("WAIT_PROCESS", NoHandle, "finite")
          /\ requests' = [requests EXCEPT ![s] = [kind |-> "wait", slot |-> 0, pid |-> scan.pid]]
          /\ told' = {}
       \/ /\ scan.exists /\ scan.what = "poll"
          /\ told' = {} /\ UNCHANGED <<threads, schedVars, requests>>
    /\ scan' = NoScan
    /\ UNCHANGED <<children, mutexes, events, procs>>

(***************************************************************************)
(* The specification.                                                      *)
(***************************************************************************)
PInit ==
    /\ Init
    /\ children = [i \in ChildSlots |-> NoChild]
    /\ procs = [p \in Pids |-> NotBorn]
    /\ requests = [s \in Slots |-> NoRequest]
    /\ scan = NoScan
    /\ told = {}

ChildStep(p) == EnterGuest(p) \/ LeaveGuest(p) \/ ChildEnds(p)

ProcessCall ==
    \/ \E kind \in {"sync", "async"} : ExecPgm(kind)
    \/ \E pid \in Pids \cup {0}, nowait \in BOOLEAN : WaitChild(pid, nowait)

Poll == \E s \in Slots : PollExec(s) \/ PollWait(s)

HostGoesOn == JudgeExec \/ ScanChild \/ ScanEnds

PNext == \/ \E p \in Pids : ChildStep(p)
         \/ ProcessCall
         \/ Poll
         \/ HostGoesOn
         \/ HostFree /\ Next /\ UNCHANGED pVars /\ told' = {}

PSpec == PInit /\ [][PNext]_allVars

(***************************************************************************)
(* Properties.                                                             *)
(***************************************************************************)
\* The variables of the children have their types, and the scan stays
\* within the table.
PTypeOK ==
    /\ children \in [ChildSlots -> [pid : Pids \cup {0}, mode : {"sync", "async"},
                                    owner : 0..MaxTid - 1, launching : BOOLEAN]]
    /\ procs \in [Pids -> [born : BOOLEAN, ready : BOOLEAN, normal : BOOLEAN,
                           ended : BOOLEAN]]
    /\ requests \in [Slots -> [kind : {"none", "exec", "wait"}, slot : Nat,
                               pid : Pids \cup {0}]]
    /\ scan.what \in {"none", "exec", "call", "poll"}
    /\ scan.thread \in Slots /\ scan.at \in 0..NChildren

\* The entry a DosExecPgm waits on is its own until it returns: other threads
\* start and collect children meanwhile, and the entry is found by its
\* number.  No process is tracked twice (dispatch_process, process_poll_wait).
ExecKeepsEntry ==
    /\ \A s \in Slots : Polling(s, "exec") =>
          LET c == children[requests[s].slot] IN c.pid # 0 /\ c.owner = threads[s].tid
    /\ \A s, r \in Slots : Polling(s, "exec") /\ Polling(r, "exec") /\ s # r =>
          requests[s].slot # requests[r].slot
    /\ \A i, j \in ChildSlots : children[i].pid # 0 /\ children[i].pid = children[j].pid => i = j

\* The table is sound, and nobody's place in it is taken.
TableSound == PTypeOK /\ ExecKeepsEntry

\* What callers are told is so: a child reported as started was entered, one
\* reported as failed never was and never will be, one reported as finished
\* or aborted ended that way; only DosExecPgm tells of synchronous children,
\* to the thread that asked, and "no such child" means there is none
\* ("Failure before guest entry is an execution error; host/runtime failure
\* after entry is reported as abnormal termination", README-M2-PROCESS-R2).
TrueFor(m) ==
    CASE m.what = "started" -> procs'[m.pid].ready
      [] m.what = "failed" -> procs'[m.pid].ended /\ ~ procs'[m.pid].ready
      [] m.what \in {"finished", "aborted"} ->
            /\ procs'[m.pid].ended /\ procs'[m.pid].ready
            /\ procs'[m.pid].normal <=> m.what = "finished"
            /\ \E i \in ChildSlots :
                  /\ children[i].pid = m.pid
                  /\ children[i].owner = IF children[i].mode = "sync" THEN m.to ELSE 0
      [] m.what = "none" ->
            \A i \in ChildSlots : children[i].pid # 0 /\ children[i].mode = "async"
                                  /\ children[i].owner = 0 => m.pid \notin {0, children[i].pid}
      [] OTHER -> TRUE
Tracked == {children[i].pid : i \in ChildSlots} \ {0}

\* "results are collected once" (README-M2-PROCESS-R2): the end of a child is told
\* to one caller, and in that step the child leaves the table; no child
\* leaves it untold.
ToldOnceStep ==
    /\ \A m \in told' : m.what \in {"finished", "aborted", "failed"} => m.pid \in Tracked \ Tracked'
    /\ \A p \in Tracked \ Tracked' : \E m \in told' : m.pid = p
    /\ Cardinality(told') <= 1

\* Every report is true, and made once.
Told == [][(\A m \in told' : TrueFor(m)) /\ ToldOnceStep]_allVars

(***************************************************************************)
(* Liveness, for guests that make calls and children that end: the host    *)
(* polls every parked thread at each call and while it sleeps.             *)
(***************************************************************************)
PFairSpec ==
    /\ PSpec
    /\ WF_allVars(HostGoesOn)
    /\ \A s \in Slots : SF_allVars(PollExec(s) \/ PollWait(s))
    /\ \A p \in Pids : WF_allVars(ChildEnds(p))

\* DosExecPgm returns when its child ends, before its guest is entered or
\* after; DosWaitChild for one child returns when that child has ended, also
\* when another thread has collected it.
Awaited(s) == Polling(s, "exec") \/ (Polling(s, "wait") /\ requests[s].pid # 0)
ChildCallReturns == \A s \in Slots : []<> (~ Awaited(s) \/ Over)

=============================================================================
