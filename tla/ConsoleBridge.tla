--------------------------- MODULE ConsoleBridge ---------------------------
(***************************************************************************)
(* The console bridge of OS2SS, the OS/2 personality server                *)
(* (subsystem/os2ss/os2ss.c), with the launchers that serve it             *)
(* (subsystem/launcher/os2le4claunch.c).                                   *)
(*                                                                         *)
(* OS2SS owns no console.  A console action (write, read, exit) asked by   *)
(* the API thread is handed to the launcher that is connected to           *)
(* \OS2SS\Le4cConsolePort, which performs it and acknowledges it.  Three   *)
(* kinds of threads meet here:                                             *)
(*   - the dispatcher, the API thread inside Le4cDispatchConsoleAction;    *)
(*   - the listener, the thread of ConsoleListener;                        *)
(*   - the launchers, processes that may die at any time.                  *)
(* Every section under gConsoleLock is one step; what happens between two  *)
(* such sections can interleave with the other threads.                    *)
(*                                                                         *)
(* LPC is external.  A launcher's NtRequestWaitReplyPort leaves at most    *)
(* one request of that launcher outstanding, and the closing of its port   *)
(* is delivered after it; requests of different launchers come in any      *)
(* order.                                                                  *)
(***************************************************************************)
EXTENDS Integers

CONSTANTS
    Launchers,    \* launcher processes; each runs once
    None,         \* a NULL handle
    MaxSeq,       \* largest sequence number (2^32 - 1 in the code)
    MaxBytes,     \* LE4C_CONSOLE_MAX_BYTES
    MaxAttempts   \* connection attempts of a launcher (20 in the code)

ASSUME ConsoleAssumption ==
    /\ None \notin Launchers
    /\ MaxSeq \in Nat \ {0}
    /\ MaxBytes \in Nat
    /\ MaxAttempts \in Nat \ {0}

VARIABLES
    commPort,     \* gConsoleCommPort: the launcher bound, or None
    waitPending,  \* gConsoleWaitPending and the sender of gConsoleWaitMessage
    queued,       \* gConsoleActionQueued and the action kept for the next Wait
    nextSeq,      \* gConsoleNextSequence
    awaitingAck,  \* gConsoleAwaitingAck
    awaitSeq,     \* gConsoleAwaitSequence
    ackStatus,    \* gConsoleAckStatus
    ackBytes,     \* gConsoleAckBytes
    ackLength,    \* gConsoleAckDataLength
    ackEvent      \* gConsoleAckEvent, an auto-reset event

VARIABLES
    lpc,          \* where the listener is
    binding,      \* the launcher whose connection it has just completed
    reply         \* ReplyMsg when HaveReply, with its addressee

VARIABLES
    dpc,          \* where the dispatcher is
    action,       \* its Operation, Sequence and Length
    replyTo,      \* the sender of the Wait it answers itself
    status,       \* the NTSTATUS it returns
    bytes         \* the byte count it returns

VARIABLES
    pc,           \* where each launcher is
    request,      \* the LPC request each launcher has outstanding
    closed,       \* launchers whose LPC_PORT_CLOSED the listener has not read
    hand,         \* the action each launcher is performing or acknowledging
    attempts      \* failed connection attempts

VARIABLES
    times,        \* history: how often the present action was performed
    moved         \* history: bytes it wrote to or read from a console

bridgeVars == <<commPort, waitPending, queued, nextSeq, awaitingAck, awaitSeq,
                ackStatus, ackBytes, ackLength, ackEvent>>
listenerVars == <<lpc, binding, reply>>
dispatcherVars == <<dpc, action, replyTo, status, bytes>>
launcherVars == <<pc, request, closed, hand, attempts>>
historyVars == <<times, moved>>
vars == <<bridgeVars, listenerVars, dispatcherVars, launcherVars, historyVars>>

-----------------------------------------------------------------------------
(***************************************************************************)
(* Messages                                                                *)
(***************************************************************************)
Ops == {"Write", "Read", "Exit"}

\* An action or a reply.  "Wait" is the Wait request returned with
\* STATUS_DEVICE_BUSY, "AckReply" the answer to an Ack.
Message == [op : Ops \cup {"none", "Wait", "AckReply"},
            seq : 0..MaxSeq, len : 0..MaxBytes]
NoMessage == [op |-> "none", seq |-> 0, len |-> 0]

Statuses == {"initial", "success", "unsuccessful", "disconnected",
             "mismatch", "not_implemented"}

Request == [op : {"none", "Connect", "Wait", "Ack"}, seq : 0..MaxSeq,
            status : Statuses, bytes : 0..MaxBytes, len : 0..MaxBytes]
PlainRequest(op) ==
    [op |-> op, seq |-> 0, status |-> "success", bytes |-> 0, len |-> 0]
NoRequest == PlainRequest("none")

\* Mutant of SeqAfter: zero is not skipped.
SeqAfterZero(s) == (s + 1) % (MaxSeq + 1)

\* gConsoleNextSequence++ wraps and skips zero.
SeqAfter(s) == IF s = MaxSeq THEN 1 ELSE s + 1

\* The launcher's end of an accepted connection exists.
Connected(l) ==
    pc[l] \in {"attached", "ready", "waiting", "acting", "acking", "leaving"}

Init ==
    /\ commPort = None /\ waitPending = None /\ queued = NoMessage
    /\ nextSeq = 1 /\ awaitingAck = FALSE /\ awaitSeq = 0
    /\ ackStatus = "success" /\ ackBytes = 0 /\ ackLength = 0
    /\ ackEvent = FALSE
    /\ lpc = "receive" /\ binding = None
    /\ reply = [to |-> None, msg |-> NoMessage]
    /\ dpc = "idle" /\ action = NoMessage /\ replyTo = None
    /\ status = "success" /\ bytes = 0
    /\ pc = [l \in Launchers |-> "start"]
    /\ request = [l \in Launchers |-> NoRequest]
    /\ closed = {}
    /\ hand = [l \in Launchers |-> NoMessage]
    /\ attempts = [l \in Launchers |-> 0]
    /\ times = 0 /\ moved = 0

-----------------------------------------------------------------------------
(***************************************************************************)
(* The dispatcher: Le4cDispatchConsoleAction, called by the API thread.    *)
(***************************************************************************)

\* Mutant of ResetAckEvent: a signal left over is kept.
KeepAckEvent == UNCHANGED ackEvent

ResetAckEvent == ackEvent' = FALSE

\* The call, up to the NtResetEvent made before the lock is taken.
DispatchCall(op, len) ==
    /\ dpc = "idle"
    /\ dpc' = "enter"
    /\ action' = [op |-> op, seq |-> 0, len |-> len]
    /\ bytes' = 0
    /\ ResetAckEvent
    /\ times' = 0 /\ moved' = 0
    /\ UNCHANGED <<commPort, waitPending, queued, nextSeq, awaitingAck,
                   awaitSeq, ackStatus, ackBytes, ackLength, listenerVars,
                   replyTo, status, launcherVars>>

\* First section, early return: no launcher, or an action is in flight.
DispatchRefuse ==
    /\ dpc = "enter"
    /\ commPort = None \/ queued # NoMessage \/ awaitingAck
    /\ dpc' = "done"
    /\ status' = "disconnected"
    /\ UNCHANGED <<bridgeVars, listenerVars, action, replyTo, bytes,
                   launcherVars, historyVars>>

\* First section: take a sequence number, then answer the pending Wait or
\* keep the action for the next one.
DispatchEnter ==
    /\ dpc = "enter"
    /\ commPort # None /\ queued = NoMessage /\ ~awaitingAck
    /\ action' = [action EXCEPT !.seq = nextSeq]
    /\ nextSeq' = SeqAfter(nextSeq)
    /\ awaitingAck' = TRUE
    /\ awaitSeq' = nextSeq
    /\ ackStatus' = "initial" /\ ackBytes' = 0 /\ ackLength' = 0
    /\ \/ /\ waitPending # None
          /\ replyTo' = waitPending
          /\ waitPending' = None
          /\ dpc' = "reply"
          /\ UNCHANGED queued
       \/ /\ waitPending = None
          /\ queued' = action'
          /\ dpc' = "wait"
          /\ UNCHANGED <<replyTo, waitPending>>
    /\ UNCHANGED <<commPort, ackEvent, listenerVars, status, bytes,
                   launcherVars, historyVars>>

\* NtReplyPort outside the lock: it reaches the launcher if that launcher
\* still waits for it.
DispatchReply ==
    /\ dpc = "reply"
    /\ \/ /\ pc[replyTo] = "waiting"
          /\ pc' = [pc EXCEPT ![replyTo] = "acting"]
          /\ hand' = [hand EXCEPT ![replyTo] = action]
          /\ dpc' = "wait"
          /\ UNCHANGED status
       \/ /\ pc[replyTo] # "waiting"
          /\ dpc' = "giveup"
          /\ status' = "mismatch"
          /\ UNCHANGED <<pc, hand>>
    /\ UNCHANGED <<bridgeVars, listenerVars, action, replyTo, bytes, request,
                   closed, attempts, historyVars>>

\* Second section when NtReplyPort failed.
DispatchGiveUp ==
    /\ dpc = "giveup"
    /\ awaitingAck' = FALSE
    /\ dpc' = "done"
    /\ UNCHANGED <<commPort, waitPending, queued, nextSeq, awaitSeq, ackStatus,
                   ackBytes, ackLength, ackEvent, listenerVars, action,
                   replyTo, status, bytes, launcherVars, historyVars>>

\* NtWaitForSingleObject on the auto-reset event; there is no timeout.
DispatchWake ==
    /\ dpc = "wait" /\ ackEvent
    /\ ackEvent' = FALSE
    /\ dpc' = "collect"
    /\ UNCHANGED <<commPort, waitPending, queued, nextSeq, awaitingAck,
                   awaitSeq, ackStatus, ackBytes, ackLength, listenerVars,
                   action, replyTo, status, bytes, launcherVars, historyVars>>

\* Second section: read the outcome.  A successful read goes on to copy the
\* acknowledged data.
DispatchCollect ==
    /\ dpc = "collect"
    /\ status' = ackStatus
    /\ bytes' = ackBytes
    /\ awaitingAck' = FALSE
    /\ dpc' = IF action.op = "Read" /\ ackStatus = "success"
              THEN "copy" ELSE "done"
    /\ UNCHANGED <<commPort, waitPending, queued, nextSeq, awaitSeq, ackStatus,
                   ackBytes, ackLength, ackEvent, listenerVars, action,
                   replyTo, launcherVars, historyVars>>

\* Os2Le4cConsoleRead takes the lock again to copy gConsoleAckData.
Least(a, b) == IF a < b THEN a ELSE b
ReadCopy ==
    /\ dpc = "copy"
    /\ bytes' = Least(Least(bytes, ackLength), action.len)
    /\ dpc' = "done"
    /\ UNCHANGED <<bridgeVars, listenerVars, action, replyTo, status,
                   launcherVars, historyVars>>

\* The caller takes the result.
DispatchReturn ==
    /\ dpc = "done"
    /\ dpc' = "idle"
    /\ UNCHANGED <<bridgeVars, listenerVars, action, replyTo, status, bytes,
                   launcherVars, historyVars>>

-----------------------------------------------------------------------------
(***************************************************************************)
(* The listener: one iteration of ConsoleListener per message.             *)
(***************************************************************************)
Listening == lpc = "receive" /\ reply.to = None

Answer(l, m) == reply' = [to |-> l, msg |-> m]

\* The reply of the previous iteration goes out first.  One that nobody
\* waits for makes NtReplyWaitReceivePort fail; the loop goes on.
AfterReply(l, m) ==
    CASE m.op = "AckReply" ->
            IF hand[l].op = "Exit" THEN "leaving" ELSE "ready"
      [] OTHER -> "acting"

ListenerReply ==
    LET l == reply.to
        m == reply.msg
        heard == pc[l] = (IF m.op = "AckReply" THEN "acking" ELSE "waiting")
    IN  /\ l # None
        /\ reply' = [to |-> None, msg |-> NoMessage]
        /\ IF heard
           THEN /\ pc' = [pc EXCEPT ![l] = AfterReply(l, m)]
                /\ hand' = [hand EXCEPT ![l] =
                               IF m.op = "AckReply" THEN NoMessage ELSE m]
           ELSE UNCHANGED <<pc, hand>>
        /\ UNCHANGED <<bridgeVars, lpc, binding, dispatcherVars, request,
                       closed, attempts, historyVars>>

Take(l) == request' = [request EXCEPT ![l] = NoRequest]

\* Mutant of PortFree: a second launcher is accepted beside the first.
PortFreeAlways == TRUE

PortFree == commPort = None

\* Mutant of Complete: the outcome is stored but the event is not set.
CompleteSilently(st, n, len) ==
    /\ ackStatus' = st /\ ackBytes' = n /\ ackLength' = len
    /\ UNCHANGED ackEvent

\* Store the outcome of the action awaited and wake the dispatcher.
Complete(st, n, len) ==
    /\ ackStatus' = st /\ ackBytes' = n /\ ackLength' = len
    /\ ackEvent' = TRUE

\* Mutants of DropLauncher: it forgets one of its assignments.
DropAllButPort == waitPending' = None /\ queued' = NoMessage /\ UNCHANGED commPort
DropAllButQueue == commPort' = None /\ waitPending' = None /\ UNCHANGED queued

\* The bridge without a launcher.
DropLauncher == commPort' = None /\ waitPending' = None /\ queued' = NoMessage

\* LPC_CONNECTION_REQUEST, accepted: the launcher is released by
\* NtCompleteConnectPort before gConsoleCommPort is stored.
ListenerAccept(l) ==
    /\ Listening /\ request[l].op = "Connect"
    /\ PortFree
    /\ pc[l] = "connecting"
    /\ Take(l)
    /\ pc' = [pc EXCEPT ![l] = "attached"]
    /\ lpc' = "bind" /\ binding' = l
    /\ UNCHANGED <<bridgeVars, reply, dispatcherVars, closed, hand, attempts,
                   historyVars>>

ListenerBind ==
    /\ lpc = "bind"
    /\ commPort' = binding
    /\ lpc' = "receive" /\ binding' = None
    /\ UNCHANGED <<waitPending, queued, nextSeq, awaitingAck, awaitSeq,
                   ackStatus, ackBytes, ackLength, ackEvent, reply,
                   dispatcherVars, launcherVars, historyVars>>

\* LPC_CONNECTION_REQUEST, refused: another launcher is bound, or the sender
\* is gone and NtAcceptConnectPort fails.  A refused launcher retries.
ListenerRefuse(l) ==
    /\ Listening /\ request[l].op = "Connect"
    /\ ~PortFree \/ pc[l] # "connecting"
    /\ Take(l)
    /\ IF pc[l] = "connecting"
       THEN /\ attempts' = [attempts EXCEPT ![l] = @ + 1]
            /\ pc' = [pc EXCEPT ![l] =
                         IF attempts[l] + 1 < MaxAttempts THEN "start" ELSE "gone"]
       ELSE UNCHANGED <<attempts, pc>>
    /\ UNCHANGED <<bridgeVars, listenerVars, dispatcherVars, closed, hand,
                   historyVars>>

\* LPC_PORT_CLOSED or LPC_CLIENT_DIED: whatever launcher is bound is dropped.
ListenerClosed(l) ==
    /\ Listening /\ l \in closed
    /\ request[l] = NoRequest
    /\ closed' = closed \ {l}
    /\ DropLauncher
    /\ IF awaitingAck
       THEN Complete("disconnected", 0, 0)
       ELSE UNCHANGED <<ackStatus, ackBytes, ackLength, ackEvent>>
    /\ UNCHANGED <<nextSeq, awaitingAck, awaitSeq, listenerVars,
                   dispatcherVars, pc, request, hand, attempts, historyVars>>

\* Le4cConsoleWait.
ListenerWait(l) ==
    /\ Listening /\ request[l].op = "Wait"
    /\ Take(l)
    /\ \/ /\ queued # NoMessage
          /\ Answer(l, queued)
          /\ queued' = NoMessage
          /\ UNCHANGED waitPending
       \/ /\ queued = NoMessage /\ waitPending = None
          /\ waitPending' = l
          /\ UNCHANGED <<queued, reply>>
       \/ /\ queued = NoMessage /\ waitPending # None
          /\ Answer(l, [op |-> "Wait", seq |-> 0, len |-> 0])
          /\ UNCHANGED <<queued, waitPending>>
    /\ UNCHANGED <<commPort, nextSeq, awaitingAck, awaitSeq, ackStatus,
                   ackBytes, ackLength, ackEvent, lpc, binding,
                   dispatcherVars, pc, closed, hand, attempts, historyVars>>

\* Le4cConsoleAck: it counts if it names the sequence awaited.
ListenerAck(l) ==
    /\ Listening /\ request[l].op = "Ack"
    /\ Take(l)
    /\ IF awaitingAck /\ request[l].seq = awaitSeq
       THEN Complete(request[l].status, request[l].bytes, request[l].len)
       ELSE UNCHANGED <<ackStatus, ackBytes, ackLength, ackEvent>>
    /\ Answer(l, [op |-> "AckReply", seq |-> request[l].seq, len |-> 0])
    /\ UNCHANGED <<commPort, waitPending, queued, nextSeq, awaitingAck,
                   awaitSeq, lpc, binding, dispatcherVars, pc, closed, hand,
                   attempts, historyVars>>

-----------------------------------------------------------------------------
(***************************************************************************)
(* The launchers.                                                          *)
(***************************************************************************)

\* ConnectConsoleBridge, one attempt of ConnectConsoleBridgeWithRetry.
LauncherConnect(l) ==
    /\ pc[l] = "start"
    /\ pc' = [pc EXCEPT ![l] = "connecting"]
    /\ request' = [request EXCEPT ![l] = PlainRequest("Connect")]
    /\ UNCHANGED <<bridgeVars, listenerVars, dispatcherVars, closed, hand,
                   attempts, historyVars>>

\* The vessel is created and SmExecPgm has succeeded; the loop begins.
LauncherBegin(l) ==
    /\ pc[l] = "attached"
    /\ pc' = [pc EXCEPT ![l] = "ready"]
    /\ UNCHANGED <<bridgeVars, listenerVars, dispatcherVars, request, closed,
                   hand, attempts, historyVars>>

\* The top of ConsoleBridgeLoop.
LauncherWait(l) ==
    /\ pc[l] = "ready"
    /\ pc' = [pc EXCEPT ![l] = "waiting"]
    /\ request' = [request EXCEPT ![l] = PlainRequest("Wait")]
    /\ UNCHANGED <<bridgeVars, listenerVars, dispatcherVars, closed, hand,
                   attempts, historyVars>>

\* The acknowledgement SendConsoleAck sends for the action in hand.
Acknowledge(l, st, n, data) ==
    /\ pc' = [pc EXCEPT ![l] = "acking"]
    /\ request' = [request EXCEPT ![l] =
          [op |-> "Ack", seq |-> hand[l].seq, status |-> st, bytes |-> n,
           len |-> data]]
    /\ UNCHANGED <<bridgeVars, listenerVars, dispatcherVars, closed, hand,
                   attempts>>

Performed(n) == times' = times + 1 /\ moved' = moved + n

AllWritten(n, len) == n = len

\* WriteConsoleA writes n bytes; all of them, without an error, is success.
LauncherWrite(l) ==
    /\ pc[l] = "acting" /\ hand[l].op = "Write"
    /\ \E n \in 0..hand[l].len :
          /\ Performed(n)
          /\ \/ AllWritten(n, hand[l].len) /\ Acknowledge(l, "success", n, 0)
             \/ Acknowledge(l, "unsuccessful", n, 0)

\* ReadConsoleA returns n bytes once the user has typed a line, or fails.
LauncherRead(l) ==
    /\ pc[l] = "acting" /\ hand[l].op = "Read"
    /\ \/ \E n \in 0..hand[l].len :
             Performed(n) /\ Acknowledge(l, "success", n, n)
       \/ Performed(0) /\ Acknowledge(l, "unsuccessful", 0, 0)

\* Le4cConsoleExit; or any other reply, one with STATUS_DEVICE_BUSY for
\* instance, which is acknowledged as not implemented.
LauncherExit(l) ==
    /\ pc[l] = "acting" /\ hand[l].op \notin {"Write", "Read"}
    /\ IF hand[l].op = "Exit"
       THEN Performed(0) /\ Acknowledge(l, "success", 0, 0)
       ELSE UNCHANGED historyVars /\ Acknowledge(l, "not_implemented", 0, 0)

\* The process ends; a connection it holds is closed by the kernel.
Gone(l) ==
    /\ pc' = [pc EXCEPT ![l] = "gone"]
    /\ hand' = [hand EXCEPT ![l] = NoMessage]
    /\ closed' = IF Connected(l) THEN closed \cup {l} ELSE closed

\* A step between the connection and the loop failed.
LauncherAbort(l) ==
    /\ pc[l] = "attached"
    /\ Gone(l)
    /\ UNCHANGED <<bridgeVars, listenerVars, dispatcherVars, request, attempts,
                   historyVars>>

\* After the loop the launcher waits for its vessel, without a timeout, and
\* then terminates.  The vessel is outside this module: it may end at once or
\* never.  Os2ss, where the vessels are, adds the guard (its Terminate).
LauncherTerminate(l) ==
    /\ pc[l] = "leaving"
    /\ Gone(l)
    /\ UNCHANGED <<bridgeVars, listenerVars, dispatcherVars, request, attempts,
                   historyVars>>

\* The launcher is killed.  Its outstanding request may die with it.
LauncherCrash(l) ==
    /\ pc[l] # "gone"
    /\ Gone(l)
    /\ request' \in {request, [request EXCEPT ![l] = NoRequest]}
    /\ UNCHANGED <<bridgeVars, listenerVars, dispatcherVars, attempts,
                   historyVars>>

-----------------------------------------------------------------------------
Calls == {[op |-> "Exit", len |-> 0]}
         \cup [op : {"Write", "Read"}, len : 1..MaxBytes]

DispatcherStep == \/ DispatchRefuse \/ DispatchEnter \/ DispatchReply
                  \/ DispatchGiveUp \/ DispatchWake \/ DispatchCollect
                  \/ ReadCopy

ListenerStep ==
    \/ ListenerReply \/ ListenerBind
    \/ \E l \in Launchers : \/ ListenerAccept(l) \/ ListenerRefuse(l)
                            \/ ListenerClosed(l) \/ ListenerWait(l)
                            \/ ListenerAck(l)

\* What a launcher does by itself once it is connected; reading waits for
\* the user.
Serve(l) == LauncherWait(l) \/ LauncherWrite(l) \/ LauncherExit(l)

Start(l) == LauncherBegin(l) \/ LauncherAbort(l)

LauncherStep(l) == \/ LauncherConnect(l) \/ Start(l)
                   \/ Serve(l) \/ LauncherRead(l)
                   \/ LauncherTerminate(l) \/ LauncherCrash(l)

Next ==
    \/ \E c \in Calls : DispatchCall(c.op, c.len)
    \/ DispatcherStep
    \/ DispatchReturn
    \/ ListenerStep
    \/ \E l \in Launchers : LauncherStep(l)

Spec == Init /\ [][Next]_vars

\* The threads of OS2SS run for ever and a launcher in its loop keeps going;
\* nobody is obliged to start a launcher, to call, to type or to crash.  Nor is
\* a launcher that has left its loop obliged to end: its vessel may live on.
Fairness ==
    /\ WF_vars(DispatcherStep) /\ WF_vars(DispatchReturn)
    /\ WF_vars(ListenerReply) /\ WF_vars(ListenerBind)
    /\ \A l \in Launchers :
          /\ WF_vars(ListenerAccept(l)) /\ WF_vars(ListenerRefuse(l))
          /\ WF_vars(ListenerClosed(l)) /\ WF_vars(ListenerWait(l))
          /\ WF_vars(ListenerAck(l))
          /\ WF_vars(Start(l)) /\ WF_vars(Serve(l))

FairSpec == Spec /\ Fairness

-----------------------------------------------------------------------------
(***************************************************************************)
(* Properties                                                              *)
(***************************************************************************)

BridgeTypes ==
    /\ commPort \in Launchers \cup {None}
    /\ waitPending \in Launchers \cup {None}
    /\ queued \in Message
    /\ nextSeq \in 1..MaxSeq /\ awaitSeq \in 0..MaxSeq
    /\ awaitingAck \in BOOLEAN /\ ackEvent \in BOOLEAN
    /\ ackStatus \in Statuses
    /\ ackBytes \in 0..MaxBytes /\ ackLength \in 0..MaxBytes

ThreadTypes ==
    /\ lpc \in {"receive", "bind"}
    /\ binding \in Launchers \cup {None}
    /\ reply \in [to : Launchers \cup {None}, msg : Message]
    /\ dpc \in {"idle", "enter", "reply", "giveup", "wait", "collect", "copy",
                "done"}
    /\ action \in Message
    /\ replyTo \in Launchers \cup {None}
    /\ status \in Statuses
    /\ bytes \in 0..MaxBytes

LauncherTypes ==
    /\ pc \in [Launchers -> {"start", "connecting", "attached", "ready",
                             "waiting", "acting", "acking", "leaving", "gone"}]
    /\ request \in [Launchers -> Request]
    /\ closed \in SUBSET Launchers
    /\ hand \in [Launchers -> Message]
    /\ attempts \in [Launchers -> Nat]

\* Every variable stays in its range: gConsoleNextSequence never becomes
\* zero, and no byte count passes LE4C_CONSOLE_MAX_BYTES.
TypeOK ==
    /\ BridgeTypes /\ ThreadTypes /\ LauncherTypes
    /\ times \in Nat /\ moved \in Nat

\* The listener drops whatever launcher is bound on any LPC_PORT_CLOSED,
\* without looking whose it is.  That is right because a close notice not yet
\* read always belongs to the launcher bound or being bound, and because no
\* second launcher is ever connected beside it.
ClosedIsCurrent ==
    /\ \A l \in closed : l \in {commPort, binding}
    /\ \A l \in Launchers : Connected(l) => l \in {commPort, binding}

\* The launcher that owns a pending Wait is the one bound, and the answer to
\* a second Wait, STATUS_DEVICE_BUSY, is never sent: the launcher would take
\* it for an action (it does not look at Status).
OneWaiter ==
    /\ waitPending # None => waitPending = commPort /\ queued = NoMessage
    /\ reply.msg.op # "Wait"

\* Notices of the end of a launcher, and its Waits, are taken for the bound
\* launcher's, whoever sent them; and they are (ConsoleListener).
BoundOnly == ClosedIsCurrent /\ OneWaiter

\* A launcher asked to perform an action, or acknowledging one, does so for
\* the dispatch that is now waiting: an action given up is never performed
\* later and an acknowledgement never arrives late.
NoStaleAction ==
    \A l \in Launchers :
        /\ pc[l] = "acting" => /\ hand[l] = action /\ times = 0
                               /\ dpc = "wait" /\ awaitSeq = action.seq
        /\ request[l].op = "Ack" => /\ request[l].seq = awaitSeq
                                    /\ awaitingAck /\ dpc = "wait"

\* The dispatcher waits without a timeout, and no wake-up is lost: if the
\* event is not yet set, then the action is kept for the bound launcher, on its
\* way to it, in its hands or in its acknowledgement, or the close of its port
\* will set it.  (That the launcher asks for the action kept is a matter of
\* liveness: see Stranded.)
NoLostWakeup ==
    dpc = "wait" /\ ~ackEvent =>
        /\ awaitingAck
        /\ commPort # None
        /\ \/ commPort \in closed
           \/ queued = action
           \/ reply.to = commPort /\ reply.msg = action
           \/ pc[commPort] = "acting" /\ hand[commPort] = action
           \/ request[commPort].op = "Ack" /\ request[commPort].seq = awaitSeq

\* The event a dispatch waits on is reset before the lock is taken, so a
\* signal left over from an earlier dispatch must not wake it: when it wakes,
\* its own outcome has been stored.
WakesWithAnswer == dpc = "collect" => ackStatus # "initial"

\* An action is performed at most once; a success means that it was performed
\* and reports exactly the bytes moved, and a failure never reports more than
\* were moved.
HonestReport ==
    dpc = "done" =>
        /\ times <= 1
        /\ bytes <= moved
        /\ status = "success" =>
              /\ times = 1 /\ bytes = moved
              /\ action.op = "Write" => bytes = action.len

\* A caller goes on when its action was answered, and reports what was done.
AnsweredInTruth == WakesWithAnswer /\ HonestReport

\* The bridge implements the at-most-once console service of ConsoleService.
Service == INSTANCE ConsoleService WITH
    Calls <- Calls,
    phase <- IF dpc \in {"idle", "done"} THEN dpc ELSE "busy",
    call <- [op |-> action.op, len |-> action.len],
    success <- dpc \in {"idle", "done"} /\ status = "success",
    count <- IF dpc \in {"idle", "done"} THEN bytes ELSE 0
ServiceSpec == Service!Spec

\* The action is kept for a launcher that has performed an Exit and will not
\* ask for another: the dispatcher waits for the launcher, which waits for its
\* vessel (NtWaitForSingleObject on ChildWaitHandle, os2le4claunch.c).
Stranded ==
    /\ dpc = "wait" /\ queued = action
    /\ commPort # None /\ pc[commPort] = "leaving"

\* A write or an exit handed to the bridge returns, also when launchers die on
\* it, unless it is stranded and stays so: nothing but a launcher that for ever
\* waits for its vessel can hold a call.
DispatchReturns ==
    (dpc # "idle" /\ action.op # "Read") ~> (dpc = "idle" \/ []Stranded)

\* The port of a dead launcher is freed, so that another launcher can attach
\* to the console service.
PortIsFreed ==
    \A l \in Launchers : (commPort = l /\ pc[l] = "gone") ~> (commPort # l)

=============================================================================
