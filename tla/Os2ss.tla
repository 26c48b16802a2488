------------------------------- MODULE Os2ss -------------------------------
(***************************************************************************)
(* The OS2SS personality server as a whole: the console bridge of          *)
(* ConsoleBridge, the API and SB listeners (subsystem/os2ss/os2ss.c),      *)
(* the API handlers (api.c), the process records (process.c), and the      *)
(* vessels, OS2BOOT processes that run one OS/2 program each               *)
(* (subsystem/os2boot/os2boot.c).                                          *)
(*                                                                         *)
(* The launcher l creates the vessel l, asks SMSS to have it resumed, and  *)
(* then serves the bridge.  The vessel connects to \OS2SS\ApiPort and      *)
(* makes DOSCALLS requests; one API thread serves all of them, and blocks  *)
(* in the bridge while a console action is performed.                      *)
(*                                                                         *)
(* SMSS is external: it forwards SmExecPgm to the SB port and answers the  *)
(* launcher with what the SB listener returned.                            *)
(***************************************************************************)
EXTENDS ConsoleBridge

CONSTANTS
    MaxWrite,         \* OS2_R5_MAX_WRITE, the longest DosWrite
    MaxCalls,         \* bound: DOSCALLS requests a vessel makes
    LaunchersMayDie,  \* launchers may be killed
    ServerMayDie      \* OS2SS may terminate

ASSUME Os2ssAssumption ==
    /\ MaxWrite \in Nat /\ MaxCalls \in Nat
    /\ MaxBytes > 0
    /\ LaunchersMayDie \in BOOLEAN /\ ServerMayDie \in BOOLEAN

VARIABLES
    stage,     \* how far entry() of OS2SS has come
    up,        \* the OS2SS process exists
    sb,        \* the SmExecPgm request of each launcher, seen by SbListener
    record,    \* the process record of each vessel: its State
    vessel,    \* where each vessel is
    call,      \* the API request each vessel has outstanding
    result,    \* what its last call returned: rc and actual, with what it
               \* asked for and (history) the bytes the console moved
    calls,     \* calls it made (bounded by MaxCalls)
    vclosed    \* vessels whose LPC_PORT_CLOSED the API listener has not read

VARIABLES
    apc,       \* where the API thread is
    client,    \* the vessel it serves
    total,     \* Total of Os2Le4cConsoleWrite
    outcome    \* the NTSTATUS of the console call, success or not

VARIABLES
    shown,     \* history: bytes moved for the present call
    asked      \* history: vessels that have called DosExit

serverVars == <<stage, up, sb, record>>
vesselVars == <<vessel, call, result, calls, vclosed>>
apiVars == <<apc, client, total, outcome>>
os2Vars == <<serverVars, vesselVars, apiVars, shown, asked>>
allVars == <<vars, os2Vars>>

ApiOps == {"none", "Connect", "Write", "Read", "Exit", "Query"}
ApiRequest(op, len) == [op |-> op, len |-> len]
NoCall == ApiRequest("none", 0)

NoResult == [rc |-> "none", op |-> "none", len |-> 0, actual |-> 0, moved |-> 0]

\* entry(): 1 the API thread runs, 2 gConsoleLock and gConsoleAckEvent exist,
\* 3 the console port and its listener exist, 4 SmConnectToSm has succeeded.
LockExists == stage >= 2

ConsoleUp == up /\ stage >= 3
Registered == up /\ stage = 4

OsInit ==
    /\ Init
    /\ stage = 0 /\ up = TRUE
    /\ sb = [l \in Launchers |-> "none"]
    /\ record = [l \in Launchers |-> "absent"]
    /\ vessel = [l \in Launchers |-> "none"]
    /\ call = [l \in Launchers |-> NoCall]
    /\ result = [l \in Launchers |-> NoResult]
    /\ calls = [l \in Launchers |-> 0]
    /\ vclosed = {}
    /\ apc = "receive" /\ client = None /\ total = 0 /\ outcome = "success"
    /\ shown = 0 /\ asked = {}

-----------------------------------------------------------------------------
(***************************************************************************)
(* The server's start and end                                              *)
(***************************************************************************)
Startup ==
    /\ up /\ stage < 4
    /\ stage' = stage + 1
    /\ UNCHANGED <<vars, up, sb, record, vesselVars, apiVars, shown, asked>>

ServerDies ==
    /\ ServerMayDie /\ Registered
    /\ up' = FALSE
    /\ UNCHANGED <<vars, stage, sb, record, vesselVars, apiVars, shown, asked>>

(***************************************************************************)
(* Launching a vessel                                                      *)
(***************************************************************************)

\* \OS2SS\Le4cConsolePort does not exist (any more): retry.
LauncherNoPort(l) ==
    /\ pc[l] \in {"start", "connecting"} /\ ~ConsoleUp
    /\ attempts' = [attempts EXCEPT ![l] = @ + 1]
    /\ pc' = [pc EXCEPT ![l] =
                 IF attempts[l] + 1 < MaxAttempts THEN "start" ELSE "gone"]
    /\ UNCHANGED <<bridgeVars, listenerVars, dispatcherVars, historyVars,
                   request, closed, hand, os2Vars>>

\* RtlCreateUserProcess creates OS2BOOT suspended; SmExecPgm is called.
LauncherSpawn(l) ==
    /\ pc[l] = "attached" /\ vessel[l] = "none"
    /\ vessel' = [vessel EXCEPT ![l] = "suspended"]
    /\ sb' = [sb EXCEPT ![l] = "asked"]
    /\ UNCHANGED <<vars, stage, up, record, call, result, calls, vclosed, apiVars,
                   shown, asked>>

\* LogCreateSession: find or create the record ...
SbRecord(l) ==
    /\ sb[l] = "asked" /\ Registered
    /\ sb' = [sb EXCEPT ![l] = "recorded"]
    /\ record' = [record EXCEPT ![l] = IF @ = "absent" THEN "Created" ELSE @]
    /\ UNCHANGED <<vars, stage, up, vesselVars, apiVars, shown, asked>>

\* ... or fail, as NtResumeThread may; SMSS also fails if OS2SS has not
\* registered or has died.
SbFail(l) ==
    /\ sb[l] \in {"asked", "recorded"}
    /\ sb' = [sb EXCEPT ![l] = "failed"]
    /\ UNCHANGED <<vars, stage, up, record, vesselVars, apiVars, shown, asked>>

\* Mutant of Recorded: the vessel may be resumed before it has a record.
RecordedOrAsked(l) == sb[l] \in {"asked", "recorded"}

Recorded(l) == sb[l] = "recorded"

\* ... then NtResumeThread, and the reply.
SbResume(l) ==
    /\ Recorded(l) /\ up
    /\ sb' = [sb EXCEPT ![l] = "ok"]
    /\ vessel' = [vessel EXCEPT ![l] = IF @ = "suspended" THEN "running" ELSE @]
    /\ UNCHANGED <<vars, stage, up, record, call, result, calls, vclosed, apiVars,
                   shown, asked>>

\* SmExecPgm returned success: enter ConsoleBridgeLoop.
Begin(l) == sb[l] = "ok" /\ LauncherBegin(l) /\ UNCHANGED os2Vars

\* A failure before or in SmExecPgm: the launcher ends, and leaves a vessel
\* it has created suspended.
Abort(l) ==
    /\ vessel[l] = "none" \/ sb[l] = "failed"
    /\ LauncherAbort(l)
    /\ UNCHANGED os2Vars

\* NtWaitForSingleObject(ChildWaitHandle), then NtTerminateProcess.
Terminate(l) == vessel[l] = "dead" /\ LauncherTerminate(l) /\ UNCHANGED os2Vars

\* The port is gone: NtRequestWaitReplyPort fails and the loop returns.
LauncherLost(l) ==
    /\ ~up /\ pc[l] \in {"waiting", "acking"}
    /\ pc' = [pc EXCEPT ![l] = "leaving"]
    /\ UNCHANGED <<bridgeVars, listenerVars, dispatcherVars, historyVars,
                   request, closed, hand, attempts, os2Vars>>

-----------------------------------------------------------------------------
(***************************************************************************)
(* The API listener and the handlers it calls                              *)
(***************************************************************************)
Serving == apc = "receive" /\ up

ClearCall(v) == call' = [call EXCEPT ![v] = NoCall]

\* LPC_CONNECTION_REQUEST: accepted if the sender has a record that is not
\* bound and is still alive.
ApiConnect(v) ==
    /\ Serving /\ call[v].op = "Connect"
    /\ ClearCall(v)
    /\ IF record[v] = "Created" /\ vessel[v] = "connecting"
       THEN /\ record' = [record EXCEPT ![v] = "ApiConnected"]
            /\ vessel' = [vessel EXCEPT ![v] = "bound"]
       ELSE /\ UNCHANGED record
            /\ vessel' = [vessel EXCEPT ![v] = "dead"]   \* FailAndExit
    /\ UNCHANGED <<vars, stage, up, sb, result, calls, vclosed, apiVars, shown,
                   asked>>

\* Mutant of MayUnbind: another thread unbinds as soon as the vessel is gone.
UnbindAtOnce(v) == up

\* The notice comes after the last request, to the thread that served it.
MayUnbind(v) == Serving /\ call[v] = NoCall

\* UnbindR5ApiPort.
ApiClosed(v) ==
    /\ MayUnbind(v) /\ v \in vclosed
    /\ vclosed' = vclosed \ {v}
    /\ record' = [record EXCEPT ![v] = "Created"]
    /\ UNCHANGED <<vars, stage, up, sb, vessel, call, result, calls, apiVars,
                   shown, asked>>

\* Mutant of FirstTotal: Total is not initialised.
FirstTotalKept == total

FirstTotal == 0

\* Os2DispatchApi: a handler that needs the console enters the bridge.
ApiTake(v) ==
    /\ Serving /\ call[v].op \in {"Write", "Read", "Exit", "Query"}
    /\ client' = v /\ total' = FirstTotal /\ outcome' = "success" /\ shown' = 0
    /\ LET len == Least(call[v].len, MaxBytes)
       IN  CASE call[v].op = "Write" -> apc' = "write" /\ UNCHANGED vars
             [] call[v].op = "Read" /\ len > 0 ->
                    apc' = "console" /\ DispatchCall("Read", len)
             [] call[v].op = "Exit" ->
                    apc' = "console" /\ DispatchCall("Exit", 0)
             [] OTHER -> apc' = "reply" /\ UNCHANGED vars
    /\ asked' = IF call[v].op = "Exit" THEN asked \cup {v} ELSE asked
    /\ UNCHANGED <<serverVars, vesselVars>>

\* The loop of Os2Le4cConsoleWrite: the next chunk, if any is left.
ApiChunk ==
    /\ apc = "write" /\ up
    /\ IF total < call[client].len
       THEN /\ DispatchCall("Write", Least(call[client].len - total, MaxBytes))
            /\ apc' = "console"
       ELSE apc' = "reply" /\ UNCHANGED vars
    /\ UNCHANGED <<serverVars, vesselVars, client, total, outcome, shown, asked>>

\* Mutant of ChunkWritten: a failed or short chunk does not end the loop.
ChunkTried == action.op = "Write"

ChunkWritten == action.op = "Write" /\ status = "success" /\ bytes = action.len

\* The bridge returns to Os2Le4cConsoleWrite, Os2SrvDosRead or Os2SrvDosExit.
ApiBack ==
    /\ apc = "console" /\ up
    /\ DispatchReturn
    /\ total' = total + bytes
    /\ shown' = shown + moved
    /\ outcome' = IF action.op = "Exit" THEN "success" ELSE status
    /\ apc' = IF ChunkWritten THEN "write" ELSE "reply"
    /\ UNCHANGED <<serverVars, vesselVars, client, asked>>

\* A gateway call returns rc to the program; pcbActual is set on success.
Returned(v, rc, actual) ==
    result' = [result EXCEPT ![v] =
        [rc |-> rc, op |-> call[v].op, len |-> call[v].len,
         actual |-> IF rc = "NO_ERROR" THEN actual ELSE 0, moved |-> shown]]

\* The reply goes out with the next NtReplyWaitReceivePort; a vessel that is
\* gone does not get it.  DosWrite and DosRead fail if the console did, and
\* DosWrite if it is short.
ApiReply ==
    LET v == client
        short == call[v].op = "Write" /\ total # call[v].len
    IN  /\ apc = "reply" /\ up
        /\ apc' = "receive" /\ client' = None
        /\ ClearCall(v)
        /\ IF vessel[v] = "calling"
           THEN /\ Returned(v, IF outcome # "success" \/ short
                             THEN "GEN_FAILURE" ELSE "NO_ERROR", total)
                /\ vessel' = [vessel EXCEPT ![v] =
                      IF call[v].op = "Exit" THEN "exiting" ELSE "bound"]
           ELSE UNCHANGED <<result, vessel>>
        /\ UNCHANGED <<vars, serverVars, calls, vclosed, total, outcome, shown,
                       asked>>

-----------------------------------------------------------------------------
(***************************************************************************)
(* The vessels                                                             *)
(***************************************************************************)

\* ConnectPersonality.
VesselConnect(v) ==
    /\ vessel[v] = "running"
    /\ vessel' = [vessel EXCEPT ![v] = "connecting"]
    /\ call' = [call EXCEPT ![v] = ApiRequest("Connect", 0)]
    /\ UNCHANGED <<vars, serverVars, result, calls, vclosed, apiVars, shown,
                   asked>>

\* A DOSCALLS gateway call that needs the server.
VesselCall(v) ==
    /\ vessel[v] = "bound" /\ calls[v] < MaxCalls /\ up
    /\ \E op \in {"Write", "Read", "Exit", "Query"}, len \in 0..MaxWrite :
          /\ op \in {"Exit", "Query"} => len = 0
          /\ call' = [call EXCEPT ![v] = ApiRequest(op, len)]
    /\ vessel' = [vessel EXCEPT ![v] = "calling"]
    /\ calls' = [calls EXCEPT ![v] = @ + 1]
    /\ UNCHANGED <<vars, serverVars, result, vclosed, apiVars, shown, asked>>

\* NtRequestWaitReplyPort fails: RequestMessage returns GEN_FAILURE, and the
\* caller then returns Message.ReturnCode, which is still zero, with *Actual
\* zero; ClientDosExit returns what RequestMessage did.
VesselTransportFails(v) ==
    /\ vessel[v] = "calling" /\ ~up
    /\ vessel' = [vessel EXCEPT ![v] = "bound"]
    /\ Returned(v, IF call[v].op = "Exit" THEN "GEN_FAILURE" ELSE "NO_ERROR", 0)
    /\ UNCHANGED <<vars, serverVars, call, calls, vclosed, apiVars, shown,
                   asked>>

\* The process ends; its API port is closed by the kernel and its request
\* may die with it.
VesselEnds(v) ==
    /\ vessel' = [vessel EXCEPT ![v] = "dead"]
    /\ vclosed' = IF vessel[v] \in {"bound", "calling", "exiting"}
                  THEN vclosed \cup {v} ELSE vclosed
    /\ UNCHANGED <<vars, serverVars, result, calls, apiVars, shown, asked>>

\* ClientDosExit after NO_ERROR.
VesselTerminate(v) ==
    /\ vessel[v] = "exiting"
    /\ VesselEnds(v)
    /\ UNCHANGED call

\* FailAndExit, a fault, or a kill; not while it is suspended.
VesselDie(v) ==
    /\ vessel[v] \in {"running", "connecting", "bound", "calling"}
    /\ VesselEnds(v)
    /\ call' \in IF v = client THEN {call}
                 ELSE {call, [call EXCEPT ![v] = NoCall]}

-----------------------------------------------------------------------------
BridgeServer == up /\ (DispatcherStep \/ ListenerStep) /\ UNCHANGED os2Vars

Bridge(l) ==
    /\ \/ LauncherConnect(l) /\ ConsoleUp
       \/ Serve(l)
       \/ LauncherRead(l)
       \/ LaunchersMayDie /\ LauncherCrash(l)
    /\ UNCHANGED os2Vars

ApiStep ==
    \/ ApiChunk \/ ApiBack \/ ApiReply
    \/ \E v \in Launchers : ApiConnect(v) \/ ApiClosed(v) \/ ApiTake(v)

SbStep(l) == SbRecord(l) \/ SbFail(l) \/ SbResume(l)

StartVessel(l) == \/ LauncherSpawn(l) \/ Begin(l) \/ Abort(l)

VesselStep(v) == \/ VesselConnect(v) \/ VesselCall(v)
                 \/ VesselTransportFails(v) \/ VesselTerminate(v)
                 \/ VesselDie(v)

OsNext ==
    \/ Startup \/ ServerDies
    \/ BridgeServer
    \/ ApiStep
    \/ \E l \in Launchers :
          \/ Bridge(l) \/ LauncherNoPort(l) \/ LauncherLost(l)
          \/ StartVessel(l) \/ Terminate(l)
          \/ SbStep(l)
          \/ VesselStep(l)

OsSpec == OsInit /\ [][OsNext]_allVars

\* The server's threads run, a launcher serves the bridge, and a vessel that
\* is released from DosExit, or whose server is gone, goes on.
OsFairness ==
    /\ WF_allVars(up /\ DispatcherStep /\ UNCHANGED os2Vars)
    /\ WF_allVars(ApiChunk \/ ApiBack \/ ApiReply)
    /\ \A l \in Launchers :
          /\ WF_allVars(ApiConnect(l) \/ ApiTake(l)) /\ WF_allVars(ApiClosed(l))
          /\ WF_allVars(up /\ ListenerReply /\ UNCHANGED os2Vars)
          /\ WF_allVars(up /\ ListenerBind /\ UNCHANGED os2Vars)
          /\ WF_allVars(up /\ ListenerRefuse(l) /\ UNCHANGED os2Vars)
          /\ WF_allVars(up /\ ListenerClosed(l) /\ UNCHANGED os2Vars)
          /\ WF_allVars(up /\ ListenerWait(l) /\ UNCHANGED os2Vars)
          /\ WF_allVars(up /\ ListenerAck(l) /\ UNCHANGED os2Vars)
          /\ WF_allVars(Begin(l)) /\ WF_allVars(Serve(l) /\ UNCHANGED os2Vars)
          /\ WF_allVars(VesselTransportFails(l))
          /\ WF_allVars(VesselTerminate(l))

OsFairSpec == OsSpec /\ OsFairness

-----------------------------------------------------------------------------
(***************************************************************************)
(* Properties                                                              *)
(***************************************************************************)

\* Every variable of the composition stays in its range; Total never passes
\* the length of the DosWrite it serves.
OsTypeOK ==
    /\ stage \in 0..4 /\ up \in BOOLEAN
    /\ sb \in [Launchers -> {"none", "asked", "recorded", "failed", "ok"}]
    /\ record \in [Launchers -> {"absent", "Created", "ApiConnected"}]
    /\ vessel \in [Launchers -> {"none", "suspended", "running", "connecting",
                                 "bound", "calling", "exiting", "dead"}]
    /\ call \in [Launchers -> [op : ApiOps, len : 0..MaxWrite]]
    /\ result \in [Launchers ->
                      [rc : {"none", "NO_ERROR", "GEN_FAILURE"}, op : ApiOps,
                       len : 0..MaxWrite, actual : 0..MaxWrite,
                       moved : 0..MaxWrite]]
    /\ calls \in [Launchers -> 0..MaxCalls]
    /\ vclosed \in SUBSET Launchers
    /\ apc \in {"receive", "write", "console", "reply"}
    /\ client \in Launchers \cup {None}
    /\ total \in 0..MaxWrite /\ outcome \in Statuses
    /\ shown \in 0..MaxWrite /\ asked \in SUBSET Launchers

\* A DosWrite or DosRead that returns NO_ERROR tells the truth: the consoles
\* moved exactly the bytes reported, and for a DosWrite all those asked for,
\* however many chunks it took and whichever launchers came and went.
WriteAcknowledged ==
    \A v \in Launchers :
        result[v].rc = "NO_ERROR" /\ result[v].op \in {"Write", "Read"} =>
            /\ result[v].actual = result[v].moved
            /\ result[v].op = "Write" => result[v].actual = result[v].len

\* While a call is served, even while its handler is blocked in the bridge
\* and its vessel dies, the record stays bound: the section the handler reads
\* from and copies to is not unmapped under it.
ViewStaysMapped == client # None => record[client] = "ApiConnected"

\* A vessel is resumed only after its record exists, and has one connection:
\* \OS2SS\ApiPort never refuses a live vessel as unknown or already bound.
NeverRefused ==
    \A v \in Launchers :
        vessel[v] = "connecting" /\ call[v].op = "Connect" =>
            record[v] = "Created"

\* The API thread is started before gConsoleLock and gConsoleAckEvent are
\* initialised, and the console thread uses both; still no thread uses them
\* before they exist.
LockBeforeUse ==
    dpc # "idle" \/ lpc # "receive" \/ commPort # None => LockExists

\* Start-up is in order: neither a vessel nor a thread of the server runs ahead
\* of what it needs (entry, SbHandler).
StartUpOrdered == NeverRefused /\ LockBeforeUse

\* A launcher leaves its loop, and the console service, only because its own
\* vessel called DosExit, as long as nobody kills launchers or the server.
ExitEndsOwnBridge == up => \A l \in Launchers : pc[l] = "leaving" => l \in asked

\* A launcher that was not killed outlives the vessel it created.
LauncherOutlivesVessel ==
    \A l \in Launchers : pc[l] = "gone" => vessel[l] \in {"none", "dead"}

\* A call returns, or fails if the server dies, unless the console waits for
\* the user to type a line: nothing else blocks the API thread for ever.
CallReturns ==
    \A v \in Launchers :
        vessel[v] = "calling" ~>
            (vessel[v] # "calling" \/ (dpc = "wait" /\ action.op = "Read"))

=============================================================================
