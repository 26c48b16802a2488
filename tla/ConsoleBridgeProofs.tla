------------------------ MODULE ConsoleBridgeProofs ------------------------
(***************************************************************************)
(* Proofs about ConsoleBridge, for any number of launchers, any width of   *)
(* the sequence number and any length of a console action.                 *)
(*                                                                         *)
(* The safety properties are not inductive.  What they rest on is where    *)
(* the one outstanding action can be: kept in gConsoleAction, in the       *)
(* listener's reply, in the hands of the bound launcher or in its          *)
(* acknowledgement, and in only one of these places at a time.             *)
(***************************************************************************)
EXTENDS ConsoleBridge, TLAPS

\* At most one connection: the launcher bound or, while the listener is
\* between NtCompleteConnectPort and the store, the one being bound.
Connection ==
    /\ lpc = "bind" => /\ binding # None /\ commPort = None /\ reply.to = None
                       /\ pc[binding] \in {"attached", "ready", "waiting", "gone"}
    /\ lpc = "receive" => binding = None
    /\ \A l \in Launchers :
          /\ Connected(l) \/ l \in closed => l = commPort \/ l = binding
          /\ l \in closed => pc[l] = "gone"
          /\ l = commPort \/ l = binding => Connected(l) \/ l \in closed

\* What a launcher's outstanding request, its pending Wait and the reply on
\* its way to it say about where the launcher is.
Exchange ==
    /\ \A l \in Launchers :
          /\ request[l].op = "Wait" =>
                /\ pc[l] = "waiting" \/ l \in closed
                /\ waitPending # l /\ reply.to # l
          /\ request[l].op = "Ack" =>
                /\ pc[l] = "acking" \/ l \in closed
                /\ waitPending # l /\ reply.to # l
    /\ waitPending # None =>
          /\ waitPending = commPort /\ queued = NoMessage /\ reply.to = None
          /\ pc[waitPending] \in {"waiting", "gone"}
    /\ reply.to = None => reply.msg = NoMessage
    /\ reply.to # None =>
          /\ reply.to = commPort /\ lpc = "receive"
          /\ reply.msg.op \in Ops \cup {"AckReply"}
          /\ pc[reply.to] \in {"gone", IF reply.msg.op = "AckReply"
                                       THEN "acking" ELSE "waiting"}

\* An acknowledgement, or the outcome stored from it, that a report may be
\* made from.
Truthful(st, n, len) ==
    /\ st # "initial"
    /\ n <= moved
    /\ st = "success" =>
          /\ times = 1 /\ n = moved
          /\ action.op = "Write" => n = action.len
          /\ action.op = "Read" => len = n /\ n <= action.len

\* The dispatcher waits for an action performed n times.
Pending(n) == /\ dpc = "wait" /\ ~ackEvent /\ ackStatus = "initial"
              /\ times = n /\ commPort # None

NobodyActs == \A l \in Launchers : pc[l] # "acting" /\ request[l].op # "Ack"

\* The outstanding action is in at most one place, unchanged.
OnePlace ==
    /\ queued # NoMessage => /\ queued = action /\ Pending(0)
                             /\ reply.msg.op \notin Ops /\ NobodyActs
    /\ reply.msg.op \in Ops => reply.msg = action /\ Pending(0) /\ NobodyActs
    /\ \A l \in Launchers :
          /\ pc[l] = "acting" => hand[l] = action /\ Pending(0)
          /\ request[l].op = "Ack" =>
                /\ Pending(1) /\ request[l].seq = awaitSeq
                /\ Truthful(request[l].status, request[l].bytes, request[l].len)

\* What the dispatcher may rely on at each of its steps.
Dispatching ==
    /\ awaitingAck <=> dpc \in {"reply", "giveup", "wait", "collect"}
    /\ awaitingAck => awaitSeq = action.seq
    /\ dpc # "idle" => action.op \in Ops
    /\ times \in {0, 1} /\ (times = 0 => moved = 0)
    /\ dpc = "enter" => ~ackEvent /\ times = 0 /\ bytes = 0
    /\ dpc = "reply" =>
          /\ times = 0 /\ bytes = 0
          /\ replyTo # None
          /\ pc[replyTo] = "gone" \/
                /\ pc[replyTo] = "waiting" /\ replyTo = commPort
                /\ request[replyTo].op \notin {"Wait", "Ack"} /\ waitPending = None
                /\ reply.to = None
                /\ ~ackEvent /\ ackStatus = "initial"
    /\ dpc = "giveup" => status = "mismatch" /\ times = 0 /\ bytes = 0
    /\ dpc = "wait" /\ ackEvent => Truthful(ackStatus, ackBytes, ackLength)
    /\ dpc = "collect" => Truthful(ackStatus, ackBytes, ackLength)
    /\ dpc = "copy" => /\ status = "success" /\ action.op = "Read"
                       /\ Truthful(status, bytes, ackLength)
    /\ dpc = "done" => /\ bytes <= moved
                       /\ status = "success" =>
                             /\ times = 1 /\ bytes = moved
                             /\ action.op = "Write" => bytes = action.len

\* A dispatcher that waits will be woken.
WakeUp ==
    dpc = "wait" /\ ~ackEvent =>
        /\ commPort # None
        /\ \/ commPort \in closed
           \/ queued = action
           \/ reply.to = commPort /\ reply.msg = action
           \/ pc[commPort] = "acting"
           \/ request[commPort].op = "Ack"

Kept == Connection /\ Exchange /\ OnePlace /\ Dispatching /\ WakeUp

IInv == TypeOK /\ Kept

-----------------------------------------------------------------------------
(***************************************************************************)
(* Types                                                                   *)
(***************************************************************************)
USE DEF vars, bridgeVars, listenerVars, dispatcherVars, launcherVars,
        historyVars

\* A sequence number stays one: it wraps to 1.
LEMMA SeqAfterType == \A s \in 1..MaxSeq : SeqAfter(s) \in 1..MaxSeq
  BY ConsoleAssumption DEF SeqAfter

\* Messages and requests are built from, and taken apart into, typed fields.
LEMMA EmptyTypes == NoMessage \in Message /\ NoRequest \in Request
  BY ConsoleAssumption
  DEF Message, NoMessage, Request, NoRequest, PlainRequest, Statuses

LEMMA MessageIn ==
  \A op \in Ops \cup {"Wait", "AckReply"}, s \in 0..MaxSeq, n \in 0..MaxBytes :
      [op |-> op, seq |-> s, len |-> n] \in Message
  BY DEF Message

LEMMA MessageOut ==
  ASSUME NEW m \in Message
  PROVE  /\ m.seq \in 0..MaxSeq /\ m.len \in 0..MaxBytes
         /\ \A s \in 0..MaxSeq : [m EXCEPT !.seq = s] \in Message
  BY DEF Message

LEMMA PlainRequestIn == \A op \in {"Connect", "Wait"} : PlainRequest(op) \in Request
  BY ConsoleAssumption DEF Request, PlainRequest, Statuses

LEMMA AckIn ==
  \A s \in 0..MaxSeq, st \in Statuses, n, d \in 0..MaxBytes :
      [op |-> "Ack", seq |-> s, status |-> st, bytes |-> n, len |-> d] \in Request
  BY DEF Request

LEMMA RequestOut ==
  ASSUME NEW r \in Request
  PROVE  /\ r.seq \in 0..MaxSeq /\ r.status \in Statuses
         /\ r.bytes \in 0..MaxBytes /\ r.len \in 0..MaxBytes
  BY DEF Request

LEMMA TypeInit == Init => TypeOK
<1> SUFFICES ASSUME Init
             PROVE  TypeOK
  OBVIOUS
<1>1. 1 \in 1..MaxSeq /\ 0 \in 0..MaxSeq /\ 0 \in 0..MaxBytes
  BY ConsoleAssumption
<1>2. BridgeTypes
  BY <1>1, EmptyTypes DEF Init, BridgeTypes, Statuses
<1>3. ThreadTypes
  BY ConsoleAssumption, EmptyTypes DEF Init, ThreadTypes, Statuses
<1>4. LauncherTypes
  BY EmptyTypes DEF Init, LauncherTypes
<1> QED
  BY <1>2, <1>3, <1>4 DEF Init, TypeOK

\* The acknowledgement a launcher sends is well typed.
LEMMA AcknowledgeType ==
  ASSUME TypeOK, NEW l \in Launchers, NEW st \in Statuses,
         NEW n \in 0..MaxBytes, NEW d \in 0..MaxBytes,
         Acknowledge(l, st, n, d)
  PROVE  BridgeTypes' /\ ThreadTypes' /\ LauncherTypes'
<1>1. BridgeTypes' /\ ThreadTypes'
  BY DEF TypeOK, BridgeTypes, ThreadTypes, Acknowledge
<1>2. LauncherTypes'
  BY MessageOut, AckIn DEF TypeOK, LauncherTypes, Acknowledge
<1> QED
  BY <1>1, <1>2

\* The dispatcher keeps the types.
LEMMA TypeDispatcher ==
  ASSUME TypeOK,
         (\E c \in Calls : DispatchCall(c.op, c.len)) \/ DispatcherStep \/ DispatchReturn
  PROVE  TypeOK'
<1> USE DEF TypeOK, BridgeTypes, ThreadTypes, LauncherTypes
<1>1. CASE \E c \in Calls : DispatchCall(c.op, c.len)
  <2>1. PICK c \in Calls : DispatchCall(c.op, c.len)
    BY <1>1
  <2>2. /\ 0 \in 0..MaxSeq /\ 0 \in 0..MaxBytes
        /\ c.op \in Ops /\ c.len \in 0..MaxBytes
    BY ConsoleAssumption DEF Calls, Ops
  <2>3. [op |-> c.op, seq |-> 0, len |-> c.len] \in Message
    BY <2>2, MessageIn
  <2> QED
    BY <2>1, <2>2, <2>3 DEF DispatchCall, ResetAckEvent
<1>2. CASE DispatchRefuse
  BY <1>2 DEF DispatchRefuse, Statuses
<1>3. CASE DispatchEnter
  BY <1>3, ConsoleAssumption, SeqAfterType, MessageOut DEF DispatchEnter, Statuses
<1>4. CASE DispatchReply
  BY <1>4 DEF DispatchReply, Statuses
<1>5. CASE DispatchGiveUp
  BY <1>5 DEF DispatchGiveUp
<1>6. CASE DispatchWake
  BY <1>6 DEF DispatchWake
<1>7. CASE DispatchCollect
  BY <1>7 DEF DispatchCollect
<1>8. CASE ReadCopy
  BY <1>8, ConsoleAssumption, MessageOut DEF ReadCopy, Least
<1>9. CASE DispatchReturn
  BY <1>9 DEF DispatchReturn
<1> QED
  BY <1>1, <1>2, <1>3, <1>4, <1>5, <1>6, <1>7, <1>8, <1>9 DEF DispatcherStep

\* The listener keeps the types.
LEMMA TypeListener ==
  ASSUME TypeOK, ListenerStep
  PROVE  TypeOK'
<1> USE DEF TypeOK, BridgeTypes, ThreadTypes, LauncherTypes, Take, Answer
<1>1. CASE ListenerReply
  BY <1>1, EmptyTypes DEF ListenerReply, AfterReply
<1>2. CASE ListenerBind
  BY <1>2 DEF ListenerBind
<1>3. ASSUME NEW l \in Launchers, ListenerAccept(l)
      PROVE  TypeOK'
  BY <1>3, EmptyTypes DEF ListenerAccept
<1>4. ASSUME NEW l \in Launchers, ListenerRefuse(l)
      PROVE  TypeOK'
  BY <1>4, EmptyTypes DEF ListenerRefuse
<1>5. ASSUME NEW l \in Launchers, ListenerClosed(l)
      PROVE  TypeOK'
  <2>1. 0 \in 0..MaxBytes /\ "disconnected" \in Statuses
    BY ConsoleAssumption DEF Statuses
  <2> QED
    BY <1>5, <2>1, EmptyTypes DEF ListenerClosed, DropLauncher, Complete
<1>6. ASSUME NEW l \in Launchers, ListenerWait(l)
      PROVE  TypeOK'
  BY <1>6, ConsoleAssumption, EmptyTypes, MessageIn DEF ListenerWait
<1>7. ASSUME NEW l \in Launchers, ListenerAck(l)
      PROVE  TypeOK'
  <2>1. /\ request[l].seq \in 0..MaxSeq /\ request[l].status \in Statuses
        /\ request[l].bytes \in 0..MaxBytes /\ request[l].len \in 0..MaxBytes
    BY RequestOut
  <2>2. [op |-> "AckReply", seq |-> request[l].seq, len |-> 0] \in Message
    BY <2>1, ConsoleAssumption, MessageIn
  <2> QED
    BY ZenonT(30), <1>7, <2>1, <2>2, EmptyTypes DEF ListenerAck, Complete
<1> QED
  BY <1>1, <1>2, <1>3, <1>4, <1>5, <1>6, <1>7 DEF ListenerStep

\* The launchers keep the types.
LEMMA TypeLauncher ==
  ASSUME TypeOK, NEW l \in Launchers, LauncherStep(l)
  PROVE  TypeOK'
<1> USE DEF TypeOK, BridgeTypes, ThreadTypes, LauncherTypes, Gone
<1>1. CASE LauncherConnect(l)
  BY <1>1, PlainRequestIn DEF LauncherConnect
<1>2. CASE LauncherBegin(l)
  BY <1>2 DEF LauncherBegin
<1>3. CASE LauncherAbort(l)
  BY <1>3, EmptyTypes DEF LauncherAbort
<1>4. CASE LauncherWait(l)
  BY <1>4, PlainRequestIn DEF LauncherWait
<1>5. CASE LauncherWrite(l)
  <2>1. PICK n \in 0..hand[l].len :
           /\ Performed(n)
           /\ Acknowledge(l, "success", n, 0) \/ Acknowledge(l, "unsuccessful", n, 0)
    BY <1>5 DEF LauncherWrite
  <2>2. n \in 0..MaxBytes /\ 0 \in 0..MaxBytes /\ {"success", "unsuccessful"} \subseteq Statuses
    BY ConsoleAssumption, MessageOut DEF Statuses
  <2> QED
    BY <2>1, <2>2, AcknowledgeType DEF Performed
<1>6. CASE LauncherExit(l)
  <2>1. 0 \in 0..MaxBytes /\ {"success", "not_implemented"} \subseteq Statuses
    BY ConsoleAssumption DEF Statuses
  <2> QED
    BY <1>6, <2>1, AcknowledgeType DEF LauncherExit, Performed
<1>7. CASE LauncherRead(l)
  <2>1. PICK n \in 0..hand[l].len, st \in {"success", "unsuccessful"} :
           Performed(n) /\ Acknowledge(l, st, n, n)
    BY <1>7, MessageOut DEF LauncherRead
  <2>2. n \in 0..MaxBytes /\ st \in Statuses
    BY ConsoleAssumption, MessageOut DEF Statuses
  <2> QED
    BY <2>1, <2>2, AcknowledgeType DEF Performed
<1>8. CASE LauncherTerminate(l)
  BY <1>8, EmptyTypes DEF LauncherTerminate
<1>9. CASE LauncherCrash(l)
  BY <1>9, EmptyTypes DEF LauncherCrash
<1> QED
  BY <1>1, <1>2, <1>3, <1>4, <1>5, <1>6, <1>7, <1>8, <1>9
  DEF LauncherStep, Start, Serve

\* Type correctness of the console bridge.
THEOREM TypeCorrect == Spec => []TypeOK
<1>1. TypeOK /\ [Next]_vars => TypeOK'
  <2> SUFFICES ASSUME TypeOK, [Next]_vars
               PROVE  TypeOK'
    OBVIOUS
  <2>1. CASE UNCHANGED vars
    BY <2>1 DEF TypeOK, BridgeTypes, ThreadTypes, LauncherTypes
  <2> QED
    BY <2>1, TypeDispatcher, TypeListener, TypeLauncher DEF Next
<1> QED
  BY <1>1, TypeInit, PTL DEF Spec

-----------------------------------------------------------------------------
(***************************************************************************)
(* The inductive invariant                                                 *)
(***************************************************************************)

\* Nothing is outstanding at the start.
LEMMA InvInit == Init => IInv
<1> SUFFICES ASSUME Init
             PROVE  Kept
  BY TypeInit DEF IInv
<1> QED
  BY ConsoleAssumption
  DEF Init, Kept, Connection, Connected, Exchange, OnePlace, NobodyActs,
      Dispatching, WakeUp, NoMessage, NoRequest, PlainRequest, Ops

\* A new dispatch finds the event reset and nothing of an earlier one left.
LEMMA DispatchCallKeeps ==
  ASSUME IInv, NEW c \in Calls, DispatchCall(c.op, c.len)
  PROVE  Kept'
<1> USE ConsoleAssumption DEF IInv, Kept, DispatchCall, Calls, Ops, ResetAckEvent
<1>1. Connection'
  BY DEF Connection, Connected
<1>2. Exchange'
  BY DEF Exchange
<1>3. OnePlace'
  BY DEF OnePlace, Pending, NobodyActs, Truthful
<1>4. Dispatching'
  BY DEF Dispatching, Truthful
<1>5. WakeUp'
  BY DEF WakeUp
<1> QED
  BY <1>1, <1>2, <1>3, <1>4, <1>5

\* A refused dispatch leaves the bridge as it was.
LEMMA DispatchRefuseKeeps ==
  ASSUME IInv, DispatchRefuse
  PROVE  Kept'
<1> USE ConsoleAssumption DEF IInv, Kept, DispatchRefuse
<1>1. Connection'
  BY DEF Connection, Connected
<1>2. Exchange'
  BY DEF Exchange
<1>3. OnePlace'
  BY DEF OnePlace, Pending, NobodyActs, Truthful
<1>4. Dispatching'
  BY DEF Dispatching, Truthful
<1>5. WakeUp'
  BY DEF WakeUp
<1> QED
  BY <1>1, <1>2, <1>3, <1>4, <1>5

\* The action gets its sequence number and its one place: it answers the
\* pending Wait or is kept.
LEMMA DispatchEnterKeeps ==
  ASSUME IInv, DispatchEnter
  PROVE  Kept'
<1> USE ConsoleAssumption DEF IInv, Kept, DispatchEnter, NoMessage, Ops
<1>1. Connection'
  BY DEF Connection, Connected
<1>2. Exchange'
  BY DEF Exchange
<1>3. OnePlace'
  BY DEF OnePlace, Pending, NobodyActs, Truthful, Dispatching
<1>4. Dispatching'
  BY SMTT(30) DEF TypeOK, BridgeTypes, ThreadTypes, LauncherTypes, Connection, Connected, Exchange, OnePlace, Pending, NobodyActs, Truthful, Dispatching, WakeUp
<1>5. WakeUp'
  BY DEF WakeUp
<1> QED
  BY <1>1, <1>2, <1>3, <1>4, <1>5

\* The reply puts the action in the hands of the launcher that still waits.
LEMMA DispatchReplyKeeps ==
  ASSUME IInv, DispatchReply
  PROVE  Kept'
<1> USE ConsoleAssumption DEF IInv, Kept, DispatchReply
<1>1. Connection'
  BY DEF TypeOK, BridgeTypes, ThreadTypes, LauncherTypes, Connection, Connected, Dispatching, Truthful
<1>2. Exchange'
  BY DEF TypeOK, BridgeTypes, ThreadTypes, LauncherTypes, Exchange, Dispatching, Truthful
<1>3. OnePlace'
  BY DEF TypeOK, BridgeTypes, ThreadTypes, LauncherTypes, OnePlace, Pending, NobodyActs, Truthful, Dispatching
<1>4. Dispatching'
  BY DEF Dispatching, Truthful
<1>5. WakeUp'
  BY DEF TypeOK, BridgeTypes, ThreadTypes, LauncherTypes, Dispatching, Truthful, WakeUp
<1> QED
  BY <1>1, <1>2, <1>3, <1>4, <1>5

\* An action given up is in no place.
LEMMA DispatchGiveUpKeeps ==
  ASSUME IInv, DispatchGiveUp
  PROVE  Kept'
<1> USE ConsoleAssumption DEF IInv, Kept, DispatchGiveUp
<1>1. Connection'
  BY DEF Connection, Connected
<1>2. Exchange'
  BY DEF Exchange
<1>3. OnePlace'
  BY DEF OnePlace, Pending, NobodyActs, Truthful
<1>4. Dispatching'
  BY DEF Dispatching, Truthful
<1>5. WakeUp'
  BY DEF WakeUp
<1> QED
  BY <1>1, <1>2, <1>3, <1>4, <1>5

\* The dispatcher wakes with a stored outcome.
LEMMA DispatchWakeKeeps ==
  ASSUME IInv, DispatchWake
  PROVE  Kept'
<1> USE ConsoleAssumption DEF IInv, Kept, DispatchWake
<1>1. Connection'
  BY DEF Connection, Connected
<1>2. Exchange'
  BY DEF Exchange
<1>3. OnePlace'
  BY DEF OnePlace, Pending, NobodyActs, Truthful
<1>4. Dispatching'
  BY DEF Dispatching, Truthful
<1>5. WakeUp'
  BY DEF WakeUp
<1> QED
  BY <1>1, <1>2, <1>3, <1>4, <1>5

\* What it collects is what was stored.
LEMMA DispatchCollectKeeps ==
  ASSUME IInv, DispatchCollect
  PROVE  Kept'
<1> USE ConsoleAssumption DEF IInv, Kept, DispatchCollect
<1>1. Connection'
  BY DEF Connection, Connected
<1>2. Exchange'
  BY DEF Exchange
<1>3. OnePlace'
  BY DEF OnePlace, Pending, NobodyActs, Truthful
<1>4. Dispatching'
  BY DEF Dispatching, Truthful
<1>5. WakeUp'
  BY DEF WakeUp
<1> QED
  BY <1>1, <1>2, <1>3, <1>4, <1>5

\* The copy does not change the count of a successful read.
LEMMA ReadCopyKeeps ==
  ASSUME IInv, ReadCopy
  PROVE  Kept'
<1> USE ConsoleAssumption DEF IInv, Kept, ReadCopy, Least
<1>1. Connection'
  BY DEF Connection, Connected
<1>2. Exchange'
  BY DEF Exchange
<1>3. OnePlace'
  BY DEF OnePlace, Pending, NobodyActs, Truthful
<1>4. Dispatching'
  BY DEF TypeOK, BridgeTypes, ThreadTypes, LauncherTypes, Dispatching, Truthful
<1>5. WakeUp'
  BY DEF WakeUp
<1> QED
  BY <1>1, <1>2, <1>3, <1>4, <1>5

\* The caller takes the result.
LEMMA DispatchReturnKeeps ==
  ASSUME IInv, DispatchReturn
  PROVE  Kept'
<1> USE ConsoleAssumption DEF IInv, Kept, DispatchReturn
<1>1. Connection'
  BY DEF Connection, Connected
<1>2. Exchange'
  BY DEF Exchange
<1>3. OnePlace'
  BY DEF OnePlace, Pending, NobodyActs, Truthful
<1>4. Dispatching'
  BY DEF Dispatching, Truthful
<1>5. WakeUp'
  BY DEF WakeUp
<1> QED
  BY <1>1, <1>2, <1>3, <1>4, <1>5

\* A reply moves the action from the listener to the launcher.
LEMMA ListenerReplyKeeps ==
  ASSUME IInv, ListenerReply
  PROVE  Kept'
<1> USE ConsoleAssumption DEF IInv, Kept, ListenerReply, AfterReply, NoMessage, Ops
<1>1. Connection'
  BY DEF TypeOK, BridgeTypes, ThreadTypes, LauncherTypes, Connection, Connected
<1>2. Exchange'
  BY DEF TypeOK, BridgeTypes, ThreadTypes, LauncherTypes, Exchange
<1>3. OnePlace'
  BY DEF TypeOK, BridgeTypes, ThreadTypes, LauncherTypes, Exchange, OnePlace, Pending, NobodyActs, Truthful
<1>4. Dispatching'
  BY DEF TypeOK, BridgeTypes, ThreadTypes, LauncherTypes, Dispatching, Truthful
<1>5. WakeUp'
  BY SMTT(30) DEF TypeOK, BridgeTypes, ThreadTypes, LauncherTypes, Connection, Connected, Exchange, OnePlace, Pending, NobodyActs, Truthful, Dispatching, WakeUp
<1> QED
  BY <1>1, <1>2, <1>3, <1>4, <1>5

\* Storing the port makes the launcher being bound the one bound.
LEMMA ListenerBindKeeps ==
  ASSUME IInv, ListenerBind
  PROVE  Kept'
<1> USE ConsoleAssumption DEF IInv, Kept, ListenerBind
<1>1. Connection'
  BY DEF Connection, Connected
<1>2. Exchange'
  BY DEF Connection, Connected, Exchange
<1>3. OnePlace'
  BY DEF Connection, Connected, OnePlace, Pending, NobodyActs, Truthful
<1>4. Dispatching'
  BY DEF Connection, Connected, Dispatching, Truthful
<1>5. WakeUp'
  BY DEF Connection, Connected, WakeUp
<1> QED
  BY <1>1, <1>2, <1>3, <1>4, <1>5

\* A launcher is accepted only when no other is connected.
LEMMA ListenerAcceptKeeps ==
  ASSUME IInv, NEW l \in Launchers, ListenerAccept(l)
  PROVE  Kept'
<1> USE ConsoleAssumption DEF IInv, Kept, ListenerAccept, Listening, PortFree, Take, NoRequest, PlainRequest
<1>1. Connection'
  BY DEF TypeOK, BridgeTypes, ThreadTypes, LauncherTypes, Connection, Connected
<1>2. Exchange'
  BY DEF Exchange
<1>3. OnePlace'
  BY DEF OnePlace, Pending, NobodyActs, Truthful
<1>4. Dispatching'
  BY DEF Dispatching, Truthful
<1>5. WakeUp'
  BY DEF WakeUp
<1> QED
  BY <1>1, <1>2, <1>3, <1>4, <1>5

\* A refused launcher touches nothing of the bridge.
LEMMA ListenerRefuseKeeps ==
  ASSUME IInv, NEW l \in Launchers, ListenerRefuse(l)
  PROVE  Kept'
<1> USE ConsoleAssumption DEF IInv, Kept, ListenerRefuse, Listening, PortFree, Take, NoRequest, PlainRequest
<1>1. Connection'
  BY DEF TypeOK, BridgeTypes, ThreadTypes, LauncherTypes, Connection, Connected
<1>2. Exchange'
  BY DEF TypeOK, BridgeTypes, ThreadTypes, LauncherTypes, Exchange
<1>3. OnePlace'
  BY DEF TypeOK, BridgeTypes, ThreadTypes, LauncherTypes, OnePlace, Pending, NobodyActs, Truthful
<1>4. Dispatching'
  BY DEF TypeOK, BridgeTypes, ThreadTypes, LauncherTypes, Dispatching, Truthful
<1>5. WakeUp'
  BY DEF TypeOK, BridgeTypes, ThreadTypes, LauncherTypes, WakeUp
<1> QED
  BY <1>1, <1>2, <1>3, <1>4, <1>5

\* A close notice takes the action with it and sets the event.
LEMMA ListenerClosedKeeps ==
  ASSUME IInv, NEW l \in Launchers, ListenerClosed(l)
  PROVE  Kept'
<1> USE ConsoleAssumption DEF IInv, Kept, ListenerClosed, Listening, Complete, DropLauncher, NoRequest, PlainRequest, NoMessage, Ops
<1>1. Connection'
  BY DEF Connection, Connected
<1>2. Exchange'
  BY DEF Exchange
<1>3. OnePlace'
  BY DEF Connection, Connected, Exchange, OnePlace, Pending, NobodyActs, Truthful
<1>4. Dispatching'
  BY DEF TypeOK, BridgeTypes, ThreadTypes, LauncherTypes, Connection, Connected, Dispatching, Truthful
<1>5. WakeUp'
  BY DEF Dispatching, Truthful, WakeUp
<1> QED
  BY <1>1, <1>2, <1>3, <1>4, <1>5

\* A Wait fetches the action that was kept, or becomes the pending one.
LEMMA ListenerWaitKeeps ==
  ASSUME IInv, NEW l \in Launchers, ListenerWait(l)
  PROVE  Kept'
<1> USE ConsoleAssumption DEF IInv, Kept, ListenerWait, Listening, Take, Answer, NoRequest, PlainRequest, NoMessage, Ops
<1>1. Connection'
  BY DEF Connection, Connected
<1>2. Exchange'
  BY SMTT(30) DEF TypeOK, BridgeTypes, ThreadTypes, LauncherTypes, Connection, Connected, Exchange, OnePlace, Pending, NobodyActs, Truthful, Dispatching, WakeUp
<1>3. OnePlace'
  BY DEF OnePlace, Pending, NobodyActs, Truthful
<1>4. Dispatching'
  BY DEF Connection, Connected, Exchange, Dispatching, Truthful
<1>5. WakeUp'
  BY DEF Connection, Connected, Exchange, WakeUp
<1> QED
  BY <1>1, <1>2, <1>3, <1>4, <1>5

\* An acknowledgement is the end of its action and sets the event.
LEMMA ListenerAckKeeps ==
  ASSUME IInv, NEW l \in Launchers, ListenerAck(l)
  PROVE  Kept'
<1> USE ConsoleAssumption DEF IInv, Kept, ListenerAck, Listening, Complete, Take, Answer, NoRequest, PlainRequest, NoMessage, Ops
<1>1. Connection'
  BY DEF Connection, Connected
<1>2. Exchange'
  BY DEF TypeOK, BridgeTypes, ThreadTypes, LauncherTypes, Connection, Connected, Exchange
<1>3. OnePlace'
  BY SMTT(30) DEF TypeOK, BridgeTypes, ThreadTypes, LauncherTypes, Connection, Connected, Exchange, OnePlace, Pending, NobodyActs, Truthful, Dispatching, WakeUp
<1>4. Dispatching'
  BY DEF OnePlace, Pending, NobodyActs, Truthful, Dispatching
<1>5. WakeUp'
  BY SMTT(30) DEF TypeOK, BridgeTypes, ThreadTypes, LauncherTypes, Connection, Connected, Exchange, OnePlace, Pending, NobodyActs, Truthful, Dispatching, WakeUp
<1> QED
  BY <1>1, <1>2, <1>3, <1>4, <1>5

\* A launcher that asks to be connected is not connected yet.
LEMMA LauncherConnectKeeps ==
  ASSUME IInv, NEW l \in Launchers, LauncherConnect(l)
  PROVE  Kept'
<1> USE ConsoleAssumption DEF IInv, Kept, LauncherConnect, PlainRequest
<1>1. Connection'
  BY DEF Connection, Connected
<1>2. Exchange'
  BY DEF Exchange
<1>3. OnePlace'
  BY DEF OnePlace, Pending, NobodyActs, Truthful
<1>4. Dispatching'
  BY DEF Dispatching, Truthful
<1>5. WakeUp'
  BY DEF Connection, Connected, WakeUp
<1> QED
  BY <1>1, <1>2, <1>3, <1>4, <1>5

\* A launcher that is connected begins to serve.
LEMMA LauncherBeginKeeps ==
  ASSUME IInv, NEW l \in Launchers, LauncherBegin(l)
  PROVE  Kept'
<1> USE ConsoleAssumption DEF IInv, Kept, LauncherBegin
<1>1. Connection'
  BY DEF Connection, Connected
<1>2. Exchange'
  BY DEF Exchange
<1>3. OnePlace'
  BY DEF OnePlace, Pending, NobodyActs, Truthful
<1>4. Dispatching'
  BY DEF Dispatching, Truthful
<1>5. WakeUp'
  BY DEF WakeUp
<1> QED
  BY <1>1, <1>2, <1>3, <1>4, <1>5

\* A connected launcher that ends leaves a close notice behind.
LEMMA LauncherAbortKeeps ==
  ASSUME IInv, NEW l \in Launchers, LauncherAbort(l)
  PROVE  Kept'
<1> USE ConsoleAssumption DEF IInv, Kept, LauncherAbort, Gone
<1>1. Connection'
  BY DEF TypeOK, BridgeTypes, ThreadTypes, LauncherTypes, Connection, Connected
<1>2. Exchange'
  BY DEF Exchange
<1>3. OnePlace'
  BY DEF OnePlace, Pending, NobodyActs, Truthful
<1>4. Dispatching'
  BY DEF Dispatching, Truthful
<1>5. WakeUp'
  BY DEF WakeUp
<1> QED
  BY <1>1, <1>2, <1>3, <1>4, <1>5

\* A launcher that waits has nothing in hand.
LEMMA LauncherWaitKeeps ==
  ASSUME IInv, NEW l \in Launchers, LauncherWait(l)
  PROVE  Kept'
<1> USE ConsoleAssumption DEF IInv, Kept, LauncherWait, PlainRequest
<1>1. Connection'
  BY DEF Connection, Connected
<1>2. Exchange'
  BY DEF TypeOK, BridgeTypes, ThreadTypes, LauncherTypes, Exchange
<1>3. OnePlace'
  BY DEF OnePlace, Pending, NobodyActs, Truthful
<1>4. Dispatching'
  BY DEF Dispatching, Truthful
<1>5. WakeUp'
  BY DEF Exchange, WakeUp
<1> QED
  BY <1>1, <1>2, <1>3, <1>4, <1>5

\* A write performs the action once and acknowledges it truthfully.
LEMMA LauncherWriteKeeps ==
  ASSUME IInv, NEW l \in Launchers, LauncherWrite(l)
  PROVE  Kept'
<1> USE ConsoleAssumption DEF IInv, Kept, LauncherWrite, AllWritten, Acknowledge, Performed, Ops
<1>1. Connection'
  BY DEF TypeOK, BridgeTypes, ThreadTypes, LauncherTypes, Connection, Connected
<1>2. Exchange'
  BY DEF TypeOK, BridgeTypes, ThreadTypes, LauncherTypes, Exchange
<1>3. OnePlace'
  BY SMTT(60) DEF TypeOK, BridgeTypes, ThreadTypes, LauncherTypes, Connection, Connected, Exchange, OnePlace, Pending, NobodyActs, Truthful, Dispatching, WakeUp
<1>4. Dispatching'
  BY DEF OnePlace, Pending, NobodyActs, Truthful, Dispatching
<1>5. WakeUp'
  BY DEF TypeOK, BridgeTypes, ThreadTypes, LauncherTypes, WakeUp
<1> QED
  BY <1>1, <1>2, <1>3, <1>4, <1>5

\* So does an exit.
LEMMA LauncherExitKeeps ==
  ASSUME IInv, NEW l \in Launchers, LauncherExit(l)
  PROVE  Kept'
<1> USE ConsoleAssumption DEF IInv, Kept, LauncherExit, Acknowledge, Performed, Ops
<1>1. Connection'
  BY DEF TypeOK, BridgeTypes, ThreadTypes, LauncherTypes, Connection, Connected
<1>2. Exchange'
  BY DEF TypeOK, BridgeTypes, ThreadTypes, LauncherTypes, Exchange
<1>3. OnePlace'
  BY SMTT(30) DEF TypeOK, BridgeTypes, ThreadTypes, LauncherTypes, Connection, Connected, Exchange, OnePlace, Pending, NobodyActs, Truthful, Dispatching, WakeUp
<1>4. Dispatching'
  BY DEF OnePlace, Pending, NobodyActs, Truthful, Dispatching
<1>5. WakeUp'
  BY DEF TypeOK, BridgeTypes, ThreadTypes, LauncherTypes, WakeUp
<1> QED
  BY <1>1, <1>2, <1>3, <1>4, <1>5

\* So does a read.
LEMMA LauncherReadKeeps ==
  ASSUME IInv, NEW l \in Launchers, LauncherRead(l)
  PROVE  Kept'
<1> USE ConsoleAssumption DEF IInv, Kept, LauncherRead, Acknowledge, Performed, Ops
<1>1. Connection'
  BY DEF TypeOK, BridgeTypes, ThreadTypes, LauncherTypes, Connection, Connected
<1>2. Exchange'
  BY DEF TypeOK, BridgeTypes, ThreadTypes, LauncherTypes, Exchange
<1>3. OnePlace'
  BY SMTT(30) DEF TypeOK, BridgeTypes, ThreadTypes, LauncherTypes, Connection, Connected, Exchange, OnePlace, Pending, NobodyActs, Truthful, Dispatching, WakeUp
<1>4. Dispatching'
  BY DEF OnePlace, Pending, NobodyActs, Truthful, Dispatching
<1>5. WakeUp'
  BY DEF TypeOK, BridgeTypes, ThreadTypes, LauncherTypes, WakeUp
<1> QED
  BY <1>1, <1>2, <1>3, <1>4, <1>5

\* A launcher that leaves gives up its port.
LEMMA LauncherTerminateKeeps ==
  ASSUME IInv, NEW l \in Launchers, LauncherTerminate(l)
  PROVE  Kept'
<1> USE ConsoleAssumption DEF IInv, Kept, LauncherTerminate, Gone
<1>1. Connection'
  BY DEF TypeOK, BridgeTypes, ThreadTypes, LauncherTypes, Connection, Connected
<1>2. Exchange'
  BY DEF Exchange
<1>3. OnePlace'
  BY DEF OnePlace, Pending, NobodyActs, Truthful
<1>4. Dispatching'
  BY DEF Dispatching, Truthful
<1>5. WakeUp'
  BY DEF WakeUp
<1> QED
  BY <1>1, <1>2, <1>3, <1>4, <1>5

\* A launcher that dies may take the action with it, but not silently: the
\* close notice that follows will wake the dispatcher.
LEMMA LauncherCrashKeeps ==
  ASSUME IInv, NEW l \in Launchers, LauncherCrash(l)
  PROVE  Kept'
<1> USE ConsoleAssumption DEF IInv, Kept, LauncherCrash, Gone, NoRequest, PlainRequest
<1>1. Connection'
  BY DEF TypeOK, BridgeTypes, ThreadTypes, LauncherTypes, Connection, Connected
<1>2. Exchange'
  BY DEF TypeOK, BridgeTypes, ThreadTypes, LauncherTypes, Connection, Connected, Exchange
<1>3. OnePlace'
  BY DEF TypeOK, BridgeTypes, ThreadTypes, LauncherTypes, OnePlace, Pending, NobodyActs, Truthful
<1>4. Dispatching'
  BY DEF TypeOK, BridgeTypes, ThreadTypes, LauncherTypes, Dispatching, Truthful
<1>5. WakeUp'
  BY DEF TypeOK, BridgeTypes, ThreadTypes, LauncherTypes, Connection, Connected, WakeUp
<1> QED
  BY <1>1, <1>2, <1>3, <1>4, <1>5

\* A dispatcher step, a listener step and a launcher step each keep it.
LEMMA InvStep == IInv /\ [Next]_vars => IInv'
<1> SUFFICES ASSUME IInv, [Next]_vars
             PROVE  IInv'
  OBVIOUS
<1>1. TypeOK
  BY DEF IInv
<1>2. CASE UNCHANGED vars
  <2>1. TypeOK'
    BY <1>1, <1>2 DEF TypeOK, BridgeTypes, ThreadTypes, LauncherTypes
  <2>2. Connection' /\ Exchange'
    BY <1>2 DEF IInv, Kept, Connection, Connected, Exchange
  <2>3. OnePlace'
    BY <1>2 DEF IInv, Kept, OnePlace, Pending, NobodyActs, Truthful
  <2>4. Dispatching' /\ WakeUp'
    BY <1>2 DEF IInv, Kept, Dispatching, Truthful, WakeUp
  <2> QED
    BY <2>1, <2>2, <2>3, <2>4 DEF IInv, Kept
<1>3. ASSUME NEW c \in Calls, DispatchCall(c.op, c.len)
      PROVE  IInv'
  BY <1>1, <1>3, TypeDispatcher, DispatchCallKeeps DEF IInv
<1>4. CASE DispatcherStep \/ DispatchReturn
  <2>1. TypeOK'
    BY <1>1, <1>4, TypeDispatcher
  <2>2. Kept'
    BY <1>4, DispatchRefuseKeeps, DispatchEnterKeeps, DispatchReplyKeeps,
       DispatchGiveUpKeeps, DispatchWakeKeeps, DispatchCollectKeeps,
       ReadCopyKeeps, DispatchReturnKeeps
    DEF DispatcherStep
  <2> QED
    BY <2>1, <2>2 DEF IInv
<1>5. CASE ListenerStep
  <2>1. TypeOK'
    BY <1>1, <1>5, TypeListener
  <2>2. Kept'
    BY <1>5, ListenerReplyKeeps, ListenerBindKeeps, ListenerAcceptKeeps,
       ListenerRefuseKeeps, ListenerClosedKeeps, ListenerWaitKeeps,
       ListenerAckKeeps
    DEF ListenerStep
  <2> QED
    BY <2>1, <2>2 DEF IInv
<1>6. ASSUME NEW l \in Launchers, LauncherStep(l)
      PROVE  IInv'
  <2>1. TypeOK'
    BY <1>1, <1>6, TypeLauncher
  <2>2. Kept'
    BY <1>6, LauncherConnectKeeps, LauncherBeginKeeps, LauncherAbortKeeps,
       LauncherWaitKeeps, LauncherWriteKeeps, LauncherExitKeeps,
       LauncherReadKeeps, LauncherTerminateKeeps, LauncherCrashKeeps
    DEF LauncherStep, Start, Serve
  <2> QED
    BY <2>1, <2>2 DEF IInv
<1> QED
  BY <1>2, <1>3, <1>4, <1>5, <1>6 DEF Next

\* The inductive invariant holds in every state of the console bridge.
THEOREM Invariance == Spec => []IInv
  BY InvInit, InvStep, PTL DEF Spec

-----------------------------------------------------------------------------
(***************************************************************************)
(* The properties                                                          *)
(***************************************************************************)

\* A close notice always belongs to the launcher bound or being bound, and no
\* second launcher is connected beside it.
THEOREM ClosedCurrent == Spec => []ClosedIsCurrent
<1>1. IInv => ClosedIsCurrent
  BY DEF IInv, TypeOK, LauncherTypes, Kept, Connection, Connected, ClosedIsCurrent
<1> QED
  BY <1>1, Invariance, PTL

\* A pending Wait is the bound launcher's, and STATUS_DEVICE_BUSY is never
\* sent.
THEOREM WaiterIsBound == Spec => []OneWaiter
<1>1. IInv => OneWaiter
  BY DEF IInv, Kept, Exchange, OneWaiter, NoMessage, Ops
<1> QED
  BY <1>1, Invariance, PTL

\* What the listener takes for the bound launcher's is the bound launcher's.
THEOREM BoundServed == Spec => []BoundOnly
  BY ClosedCurrent, WaiterIsBound, PTL DEF BoundOnly

\* No launcher performs or acknowledges an action other than the one that is
\* waited for.
THEOREM ActionIsCurrent == Spec => []NoStaleAction
<1>1. IInv => NoStaleAction
  BY DEF IInv, Kept, OnePlace, Pending, Dispatching, NoStaleAction
<1> QED
  BY <1>1, Invariance, PTL

\* A dispatcher that waits without a timeout is going to be woken.
THEOREM WakeupIsComing == Spec => []NoLostWakeup
<1>1. IInv => NoLostWakeup
  BY DEF IInv, TypeOK, BridgeTypes, Kept, OnePlace, Dispatching, WakeUp, NoLostWakeup
<1> QED
  BY <1>1, Invariance, PTL

\* A dispatcher that wakes finds the outcome of its own action.
THEOREM WakesAnswered == Spec => []WakesWithAnswer
<1>1. IInv => WakesWithAnswer
  BY DEF IInv, Kept, Dispatching, Truthful, WakesWithAnswer
<1> QED
  BY <1>1, Invariance, PTL

\* An action is performed at most once and what is reported of it is true.
THEOREM ReportIsHonest == Spec => []HonestReport
<1>1. IInv => HonestReport
  BY DEF IInv, Kept, Dispatching, HonestReport
<1> QED
  BY <1>1, Invariance, PTL

\* The two together: what the API thread wakes with is an answer, and what it
\* returns to the vessel is what the launcher did.
THEOREM AnswersTrue == Spec => []AnsweredInTruth
  BY WakesAnswered, ReportIsHonest, PTL DEF AnsweredInTruth

-----------------------------------------------------------------------------
(***************************************************************************)
(* Refinement                                                              *)
(***************************************************************************)

\* What the service sees of a dispatcher step: a refusal and a give-up fail,
\* what was collected succeeds if it says so, and the rest is inside the call.
LEMMA DispatcherMaps ==
  ASSUME IInv, DispatcherStep
  PROVE  Service!Fail \/ Service!Succeed \/ UNCHANGED Service!vars
<1> USE DEF Service!vars, IInv, Kept, TypeOK, ThreadTypes, BridgeTypes
<1>1. CASE DispatchRefuse
  BY <1>1 DEF Dispatching, DispatchRefuse, Service!Fail
<1>2. CASE DispatchEnter
  BY <1>2 DEF DispatchEnter, Message
<1>3. CASE DispatchReply
  BY <1>3 DEF DispatchReply
<1>4. CASE DispatchGiveUp
  BY <1>4 DEF Dispatching, DispatchGiveUp, Service!Fail
<1>5. CASE DispatchWake
  BY <1>5 DEF DispatchWake
<1>6. CASE DispatchCollect
  <2>1. Truthful(ackStatus, ackBytes, ackLength)
    BY <1>6 DEF DispatchCollect, Dispatching
  <2>2. CASE action.op = "Read" /\ ackStatus = "success"
    BY <1>6, <2>2 DEF DispatchCollect
  <2>3. CASE ackStatus # "success"
    BY <1>6, <2>1, <2>3 DEF DispatchCollect, Truthful, Service!Fail
  <2>4. CASE action.op # "Read" /\ ackStatus = "success"
    BY <1>6, <2>1, <2>4 DEF DispatchCollect, Truthful, Service!Succeed
  <2> QED
    BY <2>2, <2>3, <2>4
<1>7. CASE ReadCopy
  BY <1>7 DEF Dispatching, Truthful, ReadCopy, Least, Service!Succeed
<1> QED
  BY <1>1, <1>2, <1>3, <1>4, <1>5, <1>6, <1>7 DEF DispatcherStep

\* The listener works inside the call.
LEMMA ListenerMaps ==
  ASSUME ListenerStep
  PROVE  UNCHANGED Service!vars
  BY DEF ListenerStep, ListenerReply, ListenerBind, ListenerAccept,
     ListenerRefuse, ListenerClosed, ListenerWait, ListenerAck, Service!vars

\* A launcher performs the action, which was not performed before, or does
\* something that the service does not see.
LEMMA LauncherMaps ==
  ASSUME IInv, NEW l \in Launchers, LauncherStep(l)
  PROVE  Service!Perform \/ UNCHANGED Service!vars
<1> USE DEF Service!vars
<1>1. CASE pc[l] = "acting" /\ (LauncherWrite(l) \/ LauncherRead(l) \/ LauncherExit(l))
  <2>1. hand[l] = action /\ Pending(0)
    BY <1>1 DEF IInv, Kept, OnePlace
  <2>2. action.len \in Nat
    BY DEF IInv, TypeOK, ThreadTypes, Message
  <2>3. moved = 0
    BY <2>1 DEF IInv, Kept, Dispatching, Pending
  <2> QED
    BY <1>1, <2>1, <2>2, <2>3
    DEF LauncherWrite, LauncherRead, LauncherExit, Performed, Acknowledge,
        Pending, Service!Perform
<1>2. CASE ~(LauncherWrite(l) \/ LauncherRead(l) \/ LauncherExit(l))
  BY <1>2
  DEF LauncherStep, Start, Serve, LauncherConnect, LauncherBegin,
      LauncherAbort, LauncherWait, LauncherTerminate, LauncherCrash
<1> QED
  BY <1>1, <1>2 DEF LauncherWrite, LauncherRead, LauncherExit

\* Every step of the bridge is a step of the service, or none.
LEMMA ServiceStep == IInv /\ [Next]_vars => [Service!Next]_(Service!vars)
<1> SUFFICES ASSUME IInv, [Next]_vars
             PROVE  Service!Next \/ UNCHANGED Service!vars
  OBVIOUS
<1>1. CASE UNCHANGED vars
  BY <1>1 DEF Service!vars
<1>2. ASSUME NEW c \in Calls, DispatchCall(c.op, c.len)
      PROVE  Service!Next
  BY <1>2 DEF Calls, DispatchCall, Service!Ask, Service!Next
<1>3. CASE DispatcherStep
  BY <1>3, DispatcherMaps DEF Service!Next
<1>4. CASE DispatchReturn
  BY <1>4 DEF DispatchReturn, Service!Return, Service!Next
<1>5. CASE ListenerStep
  BY <1>5, ListenerMaps
<1>6. ASSUME NEW l \in Launchers, LauncherStep(l)
      PROVE  Service!Next \/ UNCHANGED Service!vars
  BY <1>6, LauncherMaps DEF Service!Next
<1> QED
  BY <1>1, <1>2, <1>3, <1>4, <1>5, <1>6 DEF Next

\* The service starts idle.
LEMMA ServiceStart == Init => Service!Init
  BY DEF Init, NoMessage, Service!Init

\* The bridge implements the at-most-once service for any number of launchers.
THEOREM Implements == Spec => ServiceSpec
  BY ServiceStart, ServiceStep, Invariance, PTL DEF Spec, ServiceSpec, Service!Spec

=============================================================================
