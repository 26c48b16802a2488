---------------------------- MODULE Os2ssProofs ----------------------------
(***************************************************************************)
(* Proofs about Os2ss, the composition of the server, its launchers and    *)
(* its vessels, for any number of them, any length of a DosWrite and       *)
(* whatever dies.                                                          *)
(*                                                                         *)
(* The bridge alone was proved for any caller; here it is called by the    *)
(* API thread, and what that thread reports rests on one fact of every     *)
(* state: the loop has counted exactly the bytes the consoles have moved   *)
(* for the call it serves, and the vessel it serves stays bound until it   *)
(* has answered, even after that vessel has died.                          *)
(***************************************************************************)
EXTENDS Os2ss, ConsoleBridgeProofs

ConsoleOps == {"Write", "Read", "Exit", "Query"}

\* Only a server that has registered is asked to make records, or dies.
Started ==
    /\ ~up => stage = 4
    /\ \A v \in Launchers : sb[v] \in {"recorded", "ok"} => stage = 4

\* A vessel's state, its SmExecPgm request and its process record agree; it
\* is bound from the time it is accepted until its close notice is read,
\* which comes after its death.
Lives ==
    \A v \in Launchers :
        /\ vessel[v] = "none" => sb[v] = "none" /\ record[v] = "absent"
        /\ vessel[v] = "suspended" => sb[v] \in {"asked", "recorded", "failed"}
        /\ vessel[v] \notin {"none", "suspended"} => sb[v] = "ok"
        /\ sb[v] \in {"recorded", "ok"} => record[v] # "absent"
        /\ vessel[v] \in {"suspended", "running", "connecting"} =>
               record[v] # "ApiConnected"
        /\ vessel[v] \in {"bound", "calling", "exiting"} =>
               record[v] = "ApiConnected"
        /\ v \in vclosed => vessel[v] = "dead"

\* A vessel makes one request at a time, console requests only when bound.
Asking ==
    \A v \in Launchers :
        /\ call[v].op \in ConsoleOps => record[v] = "ApiConnected"
        /\ call[v].op = "Connect" => vessel[v] \in {"connecting", "dead"}
        /\ call[v].op \in {"Exit", "Query"} => call[v].len = 0
        /\ call[v].op = "none" => call[v] = NoCall
        /\ vessel[v] = "calling" => call[v].op \in ConsoleOps
        /\ vessel[v] \in {"none", "suspended", "running"} => call[v] = NoCall
        /\ up /\ vessel[v] \in {"bound", "exiting"} => call[v] = NoCall

\* The API thread serves a request that is still there, of a vessel that
\* waits for the answer or is dead.
ServesOne ==
    /\ client # None <=> apc # "receive"
    /\ client # None => call[client].op \in ConsoleOps
    /\ client # None /\ up => vessel[client] \in {"calling", "dead"}

\* A launcher never moves more bytes than it was asked to.
Moves == dpc # "idle" => moved <= action.len

\* The bridge is busy exactly while the API thread waits for it, and then
\* with a part of the call that is served; the parts done add up.
Waits ==
    /\ apc = "console" <=> dpc # "idle"
    /\ apc = "console" =>
          /\ action.op = call[client].op
          /\ total = shown /\ total + action.len <= call[client].len
    /\ apc = "write" => /\ call[client].op = "Write"
                        /\ total = shown /\ total <= call[client].len
    /\ apc = "reply" /\ outcome = "success"
            /\ call[client].op \in {"Write", "Read"} => total = shown

\* Without the console port nobody has got further than asking for it.
NotYet ==
    stage < 3 => /\ lpc = "receive" /\ reply.to = None
                 /\ commPort = None /\ closed = {}
                 /\ \A l \in Launchers : /\ pc[l] \in {"start", "gone"}
                                         /\ request[l] = NoRequest

Book == OsTypeOK /\ Started /\ Lives /\ Asking /\ ServesOne

\* What holds while the server exists.  When it is gone, launchers go their
\* way and the bridge is no more.
InService == IInv /\ Moves /\ Waits /\ NotYet

OsIInv == Book /\ (up => InService)

USE DEF allVars, os2Vars, serverVars, vesselVars, apiVars

-----------------------------------------------------------------------------
(***************************************************************************)
(* The server's own records                                                *)
(***************************************************************************)

\* The start is in order.
LEMMA BookInit == OsInit => Book
<1> SUFFICES ASSUME OsInit
             PROVE  Book
  OBVIOUS
<1>1. NoCall \in [op : ApiOps, len : 0..MaxWrite]
  BY Os2ssAssumption DEF NoCall, ApiRequest, ApiOps
<1>2. NoResult \in [rc : {"none", "NO_ERROR", "GEN_FAILURE"}, op : ApiOps,
                    len : 0..MaxWrite, actual : 0..MaxWrite, moved : 0..MaxWrite]
  BY Os2ssAssumption DEF NoResult, ApiOps
<1>3. OsTypeOK
  BY <1>1, <1>2, Os2ssAssumption DEF OsInit, OsTypeOK, Statuses
<1>4. Started /\ Lives /\ ServesOne
  BY DEF OsInit, Started, Lives, ServesOne
<1>5. Asking
  BY DEF OsInit, Asking, NoCall, ApiRequest, ConsoleOps
<1> QED
  BY <1>3, <1>4, <1>5 DEF Book

\* A bridge step does not touch them.
LEMMA BookBridge == Book /\ UNCHANGED os2Vars => Book'
  BY DEF Book, OsTypeOK, Started, Lives, Asking, ServesOne

\* The ports and records of the server are made in order.
LEMMA BookStartup == Book /\ Startup => Book'
<1> SUFFICES ASSUME Book, Startup
             PROVE  Book'
  OBVIOUS
<1> USE DEF Book, Startup
<1>1. OsTypeOK'
  BY DEF OsTypeOK
<1>2. Started' /\ Lives' /\ Asking' /\ ServesOne'
  BY DEF OsTypeOK, Started, Lives, Asking, ServesOne
<1> QED
  BY <1>1, <1>2

\* The death of a registered server.
LEMMA BookServerDies == Book /\ ServerDies => Book'
<1> SUFFICES ASSUME Book, ServerDies
             PROVE  Book'
  OBVIOUS
<1> USE DEF Book, ServerDies, Registered
<1>1. OsTypeOK'
  BY DEF OsTypeOK
<1>2. Started' /\ Lives' /\ Asking' /\ ServesOne'
  BY DEF Started, Lives, Asking, ServesOne
<1> QED
  BY <1>1, <1>2

\* The launcher's and the SB listener's steps.
LEMMA BookSpawn ==
  ASSUME Book, NEW l \in Launchers, LauncherSpawn(l)
  PROVE  Book'
<1> USE DEF Book, LauncherSpawn
<1>1. OsTypeOK'
  BY DEF OsTypeOK
<1>2. Started' /\ Lives'
  BY DEF OsTypeOK, Started, Lives
<1>3. Asking' /\ ServesOne'
  BY DEF OsTypeOK, Lives, Asking, ServesOne
<1> QED
  BY <1>1, <1>2, <1>3

\* SmExecPgm, from the request to the record and the answer.
LEMMA BookSb ==
  ASSUME Book, NEW l \in Launchers, SbStep(l)
  PROVE  Book'
<1> USE DEF Book
<1>1. CASE SbRecord(l)
  <2> USE DEF SbRecord, Registered
  <2>1. OsTypeOK'
    BY <1>1 DEF OsTypeOK
  <2>2. Started' /\ Lives'
    BY <1>1 DEF OsTypeOK, Started, Lives
  <2>3. Asking' /\ ServesOne'
    BY <1>1 DEF OsTypeOK, Lives, Asking, ServesOne
  <2> QED
    BY <2>1, <2>2, <2>3
<1>2. CASE SbFail(l)
  <2> USE DEF SbFail
  <2>1. OsTypeOK'
    BY <1>2 DEF OsTypeOK
  <2>2. Started' /\ Lives'
    BY <1>2 DEF OsTypeOK, Started, Lives
  <2>3. Asking' /\ ServesOne'
    BY <1>2 DEF Asking, ServesOne
  <2> QED
    BY <2>1, <2>2, <2>3
<1>3. CASE SbResume(l)
  <2> USE DEF SbResume, Recorded
  <2>1. OsTypeOK'
    BY <1>3 DEF OsTypeOK
  <2>2. Started' /\ Lives'
    BY <1>3 DEF OsTypeOK, Started, Lives
  <2>3. Asking' /\ ServesOne'
    BY <1>3 DEF OsTypeOK, Lives, Asking, ServesOne
  <2> QED
    BY <2>1, <2>2, <2>3
<1> QED
  BY <1>1, <1>2, <1>3 DEF SbStep

\* The vessels' steps.
LEMMA BookVesselConnect ==
  ASSUME Book, NEW v \in Launchers, VesselConnect(v)
  PROVE  Book'
<1> USE DEF Book, VesselConnect
<1>1. ApiRequest("Connect", 0) \in [op : ApiOps, len : 0..MaxWrite]
  BY Os2ssAssumption DEF ApiRequest, ApiOps
<1>2. OsTypeOK'
  BY <1>1 DEF OsTypeOK
<1>3. Started' /\ Lives'
  BY DEF OsTypeOK, Started, Lives
<1>4. Asking' /\ ServesOne'
  BY DEF OsTypeOK, Lives, Asking, ServesOne, ApiRequest, NoCall, ConsoleOps
<1> QED
  BY <1>2, <1>3, <1>4

\* A bound vessel makes one console call.
LEMMA BookVesselCall ==
  ASSUME Book, NEW v \in Launchers, VesselCall(v)
  PROVE  Book'
<1> USE DEF Book
<1>1. PICK op \in {"Write", "Read", "Exit", "Query"}, len \in 0..MaxWrite :
          /\ op \in {"Exit", "Query"} => len = 0
          /\ call' = [call EXCEPT ![v] = ApiRequest(op, len)]
  BY DEF VesselCall
<1>2. ApiRequest(op, len) \in [op : ApiOps, len : 0..MaxWrite]
  BY DEF ApiRequest, ApiOps
<1>3. OsTypeOK'
  BY <1>1, <1>2, Os2ssAssumption DEF OsTypeOK, VesselCall
<1>4. Started' /\ Lives'
  BY DEF OsTypeOK, Started, Lives, VesselCall
<1>5. Asking' /\ ServesOne'
  BY <1>1 DEF OsTypeOK, Lives, Asking, ServesOne, ApiRequest, NoCall, ConsoleOps, VesselCall
<1> QED
  BY <1>3, <1>4, <1>5

\* What a call returns is well typed.
LEMMA ReturnedType ==
  ASSUME OsTypeOK, NEW v \in Launchers, NEW rc \in {"NO_ERROR", "GEN_FAILURE"},
         NEW n \in 0..MaxWrite, Returned(v, rc, n)
  PROVE  result' \in [Launchers ->
                      [rc : {"none", "NO_ERROR", "GEN_FAILURE"}, op : ApiOps,
                       len : 0..MaxWrite, actual : 0..MaxWrite,
                       moved : 0..MaxWrite]]
  BY Os2ssAssumption DEF OsTypeOK, Returned

\* The transport's failure is the call's result.
LEMMA BookVesselTransportFails ==
  ASSUME Book, NEW v \in Launchers, VesselTransportFails(v)
  PROVE  Book'
<1> USE DEF Book, VesselTransportFails
<1>1. OsTypeOK'
  BY ReturnedType, Os2ssAssumption DEF OsTypeOK
<1>2. Started' /\ Lives'
  BY DEF OsTypeOK, Started, Lives
<1>3. Asking' /\ ServesOne'
  BY DEF OsTypeOK, Lives, Asking, ServesOne, ConsoleOps
<1> QED
  BY <1>1, <1>2, <1>3

\* A vessel ends; if it is served, its request stays.
LEMMA BookVesselEnds ==
  ASSUME Book, NEW v \in Launchers, VesselTerminate(v) \/ VesselDie(v)
  PROVE  Book'
<1> USE DEF Book, VesselEnds
<1>1. NoCall \in [op : ApiOps, len : 0..MaxWrite]
  BY Os2ssAssumption DEF NoCall, ApiRequest, ApiOps
<1>2. /\ call' = call \/ (v # client /\ call' = [call EXCEPT ![v] = NoCall])
      /\ vessel[v] \notin {"none", "suspended", "dead"}
      /\ VesselEnds(v)
  BY DEF VesselTerminate, VesselDie
<1>3. OsTypeOK'
  BY <1>1, <1>2 DEF OsTypeOK
<1>4. Started' /\ Lives'
  BY <1>2 DEF OsTypeOK, Started, Lives
<1>5. Asking'
  BY <1>2 DEF OsTypeOK, Lives, Asking, NoCall, ApiRequest, ConsoleOps
<1>6. ServesOne'
  BY <1>2 DEF OsTypeOK, ServesOne
<1> QED
  BY <1>3, <1>4, <1>5, <1>6

\* The API listener's steps.  A connection is accepted only from a vessel
\* with a record; the record is kept until the vessel is dead and nothing of
\* it is left to serve.
LEMMA BookApiConnect ==
  ASSUME Book, NEW v \in Launchers, ApiConnect(v)
  PROVE  Book'
<1> USE DEF Book, ApiConnect, ClearCall, Serving
<1>1. NoCall \in [op : ApiOps, len : 0..MaxWrite]
  BY Os2ssAssumption DEF NoCall, ApiRequest, ApiOps
<1>2. OsTypeOK'
  BY <1>1 DEF OsTypeOK
<1>3. vessel[v] \in {"connecting", "dead"}
  BY DEF Asking
<1>4. Started' /\ Lives'
  BY <1>3 DEF OsTypeOK, Started, Lives
<1>5. Asking' /\ ServesOne'
  BY <1>3 DEF OsTypeOK, Lives, Asking, ServesOne, NoCall, ApiRequest, ConsoleOps
<1> QED
  BY <1>2, <1>4, <1>5

\* A close notice unbinds the vessel that died.
LEMMA BookApiClosed ==
  ASSUME Book, NEW v \in Launchers, ApiClosed(v)
  PROVE  Book'
<1> USE DEF Book, ApiClosed, MayUnbind, Serving
<1>1. OsTypeOK'
  BY DEF OsTypeOK
<1>2. Started' /\ Lives'
  BY DEF OsTypeOK, Started, Lives
<1>3. Asking' /\ ServesOne'
  BY DEF OsTypeOK, Lives, Asking, ServesOne, NoCall, ApiRequest, ConsoleOps
<1> QED
  BY <1>1, <1>2, <1>3

\* The API thread takes a request of a bound vessel.
LEMMA BookApiTake ==
  ASSUME Book, NEW v \in Launchers, ApiTake(v)
  PROVE  Book'
<1> USE DEF Book
<1>1. /\ Serving /\ call[v].op \in {"Write", "Read", "Exit", "Query"}
      /\ client' = v /\ total' = 0 /\ outcome' = "success" /\ shown' = 0
      /\ apc' \in {"write", "console", "reply"}
      /\ asked' \in SUBSET Launchers
      /\ UNCHANGED <<serverVars, vesselVars>>
  BY DEF ApiTake, FirstTotal, OsTypeOK
<1>2. OsTypeOK'
  BY <1>1, Os2ssAssumption DEF OsTypeOK, Statuses
<1>3. Started' /\ Lives'
  BY <1>1 DEF Started, Lives
<1>4. record[v] = "ApiConnected" /\ up
  BY <1>1 DEF Serving, Asking, ConsoleOps
<1>5. vessel[v] \in {"calling", "dead"}
  BY <1>1, <1>4 DEF OsTypeOK, Lives, Asking, NoCall, ApiRequest
<1>6. Asking' /\ ServesOne'
  BY <1>1, <1>5, ConsoleAssumption DEF Asking, ServesOne, ConsoleOps
<1> QED
  BY <1>2, <1>3, <1>6

\* The answer is the result, or nothing if the vessel is dead.
LEMMA BookApiReply ==
  ASSUME Book, ApiReply
  PROVE  Book'
<1> USE DEF Book, ApiReply, ClearCall
<1>1. NoCall \in [op : ApiOps, len : 0..MaxWrite]
  BY Os2ssAssumption DEF NoCall, ApiRequest, ApiOps
<1>2. client \in Launchers
  BY DEF OsTypeOK, ServesOne
<1>3. result' \in [Launchers ->
                      [rc : {"none", "NO_ERROR", "GEN_FAILURE"}, op : ApiOps,
                       len : 0..MaxWrite, actual : 0..MaxWrite,
                       moved : 0..MaxWrite]]
  BY <1>2, ReturnedType DEF OsTypeOK
<1>4. OsTypeOK'
  BY <1>1, <1>2, <1>3 DEF OsTypeOK
<1>5. Started' /\ Lives'
  BY <1>2 DEF OsTypeOK, Started, Lives
<1>6. Asking' /\ ServesOne'
  BY <1>2, ConsoleAssumption DEF OsTypeOK, Lives, Asking, ServesOne, NoCall, ApiRequest, ConsoleOps
<1> QED
  BY <1>4, <1>5, <1>6

\* The loop of DosWrite never counts more bytes than were asked for.
LEMMA BookApiChunk ==
  ASSUME Book, ApiChunk
  PROVE  Book'
<1> USE DEF Book
<1>1. /\ apc = "write" /\ apc' \in {"console", "reply"}
      /\ UNCHANGED <<serverVars, vesselVars, client, total, outcome, shown, asked>>
  BY DEF ApiChunk
<1>2. OsTypeOK'
  BY <1>1 DEF OsTypeOK
<1>3. Started' /\ Lives' /\ Asking'
  BY <1>1 DEF Started, Lives, Asking
<1>4. ServesOne'
  BY <1>1 DEF ServesOne
<1> QED
  BY <1>2, <1>3, <1>4

\* What the bridge returned fits in what is left of the call.
LEMMA BackFits ==
  ASSUME OsIInv, ApiBack
  PROVE  /\ up /\ client \in Launchers
         /\ bytes \in 0..action.len /\ moved \in 0..action.len
         /\ total = shown /\ total + action.len <= call[client].len
         /\ action.len \in Nat /\ total \in Nat /\ call[client].len \in 0..MaxWrite
         /\ action.op = call[client].op
         /\ status = "success" => bytes = moved
<1>1. up /\ apc = "console" /\ dpc = "done"
  BY DEF ApiBack, DispatchReturn
<1>2. IInv /\ Moves /\ Waits
  BY <1>1 DEF OsIInv, InService
<1>3. client \in Launchers
  BY <1>1 DEF OsIInv, Book, OsTypeOK, ServesOne
<1>4. /\ action.len \in Nat /\ bytes \in Nat /\ moved \in Nat
      /\ total \in Nat /\ call[client].len \in 0..MaxWrite
  BY <1>2, <1>3 DEF IInv, TypeOK, ThreadTypes, Message, OsIInv, Book, OsTypeOK
<1>5. bytes <= moved /\ moved <= action.len /\ (status = "success" => bytes = moved)
  BY <1>1, <1>2 DEF IInv, Kept, Dispatching, Moves
<1>6. total = shown /\ total + action.len <= call[client].len /\ action.op = call[client].op
  BY <1>1, <1>2 DEF Waits
<1> QED
  BY <1>1, <1>3, <1>4, <1>5, <1>6

\* The console's answer is added to the call's.
LEMMA BookApiBack ==
  ASSUME OsIInv, ApiBack
  PROVE  Book'
<1> USE DEF Book
<1>1. Book
  BY DEF OsIInv
<1>2. /\ apc = "console" /\ apc' \in {"write", "reply"}
      /\ total' = total + bytes /\ shown' = shown + moved
      /\ outcome' \in Statuses
      /\ UNCHANGED <<serverVars, vesselVars, client, asked>>
  <2>1. IInv
    BY DEF OsIInv, InService, ApiBack
  <2> QED
    BY <2>1 DEF ApiBack, IInv, TypeOK, ThreadTypes, Statuses
<1>3. total' \in 0..MaxWrite /\ shown' \in 0..MaxWrite
  BY <1>2, BackFits, Os2ssAssumption
<1>4. OsTypeOK'
  BY <1>1, <1>2, <1>3 DEF OsTypeOK
<1>5. Started' /\ Lives' /\ Asking'
  BY <1>1, <1>2 DEF Started, Lives, Asking
<1>6. ServesOne'
  BY <1>1, <1>2 DEF ServesOne
<1> QED
  BY <1>4, <1>5, <1>6

\* Every step keeps the book.
LEMMA BookStep == OsIInv /\ [OsNext]_allVars => Book'
<1> SUFFICES ASSUME OsIInv, [OsNext]_allVars
             PROVE  Book'
  OBVIOUS
<1>1. Book
  BY DEF OsIInv
<1>2. CASE UNCHANGED os2Vars
  BY <1>1, <1>2, BookBridge
<1>3. CASE Startup \/ ServerDies
  BY <1>1, <1>3, BookStartup, BookServerDies
<1>4. CASE ApiStep
  BY <1>1, <1>4, BookApiChunk, BookApiBack, BookApiReply, BookApiConnect,
     BookApiClosed, BookApiTake
  DEF ApiStep
<1>5. ASSUME NEW l \in Launchers, StartVessel(l) \/ SbStep(l) \/ VesselStep(l)
      PROVE  Book'
  <2>1. CASE StartVessel(l)
    BY <1>1, <1>2, <2>1, BookSpawn DEF StartVessel, Begin, Abort
  <2>2. CASE SbStep(l)
    BY <1>1, <2>2, BookSb
  <2>3. CASE VesselStep(l)
    BY <1>1, <2>3, BookVesselConnect, BookVesselCall, BookVesselTransportFails,
       BookVesselEnds
    DEF VesselStep
  <2> QED
    BY <1>5, <2>1, <2>2, <2>3
<1>6. BridgeServer => UNCHANGED os2Vars
  BY DEF BridgeServer
<1>7. \A l \in Launchers :
         Bridge(l) \/ LauncherNoPort(l) \/ LauncherLost(l) \/ Terminate(l) =>
             UNCHANGED os2Vars
  BY DEF Bridge, LauncherNoPort, LauncherLost, Terminate
<1> QED
  BY <1>2, <1>3, <1>4, <1>5, <1>6, <1>7 DEF OsNext

-----------------------------------------------------------------------------
(***************************************************************************)
(* The bridge in its place                                                 *)
(***************************************************************************)

\* Nothing is served at the start.
LEMMA ServiceInit == OsInit => InService
<1> SUFFICES ASSUME OsInit
             PROVE  InService
  OBVIOUS
<1>1. IInv
  BY InvInit DEF OsInit
<1>2. Moves /\ Waits
  BY DEF OsInit, Init, Moves, Waits
<1>3. NotYet
  BY DEF OsInit, Init, NotYet
<1> QED
  BY <1>1, <1>2, <1>3 DEF InService

\* The API thread makes calls that the bridge was made for: never an empty
\* one, nor one longer than LE4C_CONSOLE_MAX_BYTES.
LEMMA TakeCalls ==
  ASSUME Book, NEW v \in Launchers, ApiTake(v)
  PROVE  \/ UNCHANGED vars /\ apc' \in {"write", "reply"}
         \/ /\ apc' = "console"
            /\ \E c \in Calls : /\ DispatchCall(c.op, c.len)
                                /\ c.op = call[v].op /\ c.len <= call[v].len
<1> DEFINE len == Least(call[v].len, MaxBytes)
<1>1. call[v].len \in Nat /\ MaxBytes \in Nat
  BY ConsoleAssumption, Os2ssAssumption DEF Book, OsTypeOK
<1>2. len \in 0..MaxBytes /\ len <= call[v].len
  BY <1>1 DEF Least
<1> HIDE DEF len
<1>3. CASE call[v].op = "Write"
  BY <1>3 DEF ApiTake
<1>4. CASE call[v].op = "Read" /\ len > 0
  <2>1. apc' = "console" /\ DispatchCall("Read", len)
    BY <1>4 DEF ApiTake, len
  <2>2. [op |-> "Read", len |-> len] \in Calls
    BY <1>2, <1>4 DEF Calls
  <2> QED
    BY <1>2, <1>4, <2>1, <2>2
<1>5. CASE call[v].op = "Read" /\ ~ (len > 0)
  BY <1>5 DEF ApiTake, len
<1>6. CASE call[v].op = "Exit"
  <2>1. apc' = "console" /\ DispatchCall("Exit", 0)
    BY <1>6 DEF ApiTake
  <2>2. [op |-> "Exit", len |-> 0] \in Calls
    BY DEF Calls
  <2> QED
    BY <1>1, <1>6, <2>1, <2>2
<1>7. CASE call[v].op = "Query"
  BY <1>7 DEF ApiTake
<1> QED
  BY <1>3, <1>4, <1>5, <1>6, <1>7 DEF ApiTake

\* The next part of a write is a call of the bridge, within what is left.
LEMMA ChunkCalls ==
  ASSUME OsIInv, ApiChunk
  PROVE  \/ UNCHANGED vars /\ apc' = "reply"
         \/ /\ apc' = "console"
            /\ \E c \in Calls : /\ DispatchCall(c.op, c.len) /\ c.op = "Write"
                                /\ total + c.len <= call[client].len
<1>1. client \in Launchers /\ total \in Nat /\ call[client].len \in Nat
  BY Os2ssAssumption DEF OsIInv, Book, OsTypeOK, ServesOne, ApiChunk
<1>2. CASE total < call[client].len
  <2> DEFINE len == Least(call[client].len - total, MaxBytes)
  <2>1. len \in 1..MaxBytes /\ total + len <= call[client].len
    BY <1>1, <1>2, ConsoleAssumption, Os2ssAssumption DEF Least
  <2>2. apc' = "console" /\ DispatchCall("Write", len)
    BY <1>2 DEF ApiChunk
  <2> HIDE DEF len
  <2>3. [op |-> "Write", len |-> len] \in Calls
    BY <2>1 DEF Calls
  <2> QED
    BY <2>1, <2>2, <2>3
<1>3. CASE ~ (total < call[client].len)
  BY <1>3 DEF ApiChunk
<1> QED
  BY <1>2, <1>3

\* Every step of the composition is a step of the bridge that was proved, or
\* leaves it alone, except the attempts to connect before there is a port.
LEMMA BridgeStep ==
  ASSUME OsIInv, up, OsNext
  PROVE  [Next]_vars \/ \E l \in Launchers : LauncherNoPort(l)
<1>1. CASE Startup \/ ServerDies
  BY <1>1 DEF Startup, ServerDies
<1>2. CASE BridgeServer
  BY <1>2 DEF BridgeServer, Next
<1>3. CASE ApiStep
  <2>1. CASE ApiChunk
    BY <2>1, ChunkCalls DEF Next
  <2>2. CASE ApiBack
    BY <2>2 DEF ApiBack, Next
  <2>3. CASE ApiReply
    BY <2>3 DEF ApiReply
  <2>4. ASSUME NEW v \in Launchers, ApiConnect(v) \/ ApiClosed(v)
        PROVE  UNCHANGED vars
    BY <2>4 DEF ApiConnect, ApiClosed
  <2>5. ASSUME NEW v \in Launchers, ApiTake(v)
        PROVE  [Next]_vars
    BY <2>5, TakeCalls DEF Next, OsIInv
  <2> QED
    BY <1>3, <2>1, <2>2, <2>3, <2>4, <2>5 DEF ApiStep
<1>4. ASSUME NEW l \in Launchers, Bridge(l) \/ Terminate(l) \/ StartVessel(l)
      PROVE  [Next]_vars
  <2>1. CASE Bridge(l) \/ Terminate(l)
    BY <2>1 DEF Bridge, Terminate, Next, LauncherStep
  <2>2. CASE StartVessel(l)
    BY <2>2 DEF StartVessel, LauncherSpawn, Begin, Abort, Next, LauncherStep, Start
  <2> QED
    BY <1>4, <2>1, <2>2
<1>5. ASSUME NEW l \in Launchers, SbStep(l) \/ VesselStep(l)
      PROVE  UNCHANGED vars
  BY <1>5 DEF SbStep, SbRecord, SbFail, SbResume, VesselStep, VesselConnect,
     VesselCall, VesselTransportFails, VesselTerminate, VesselDie, VesselEnds
<1>6. \A l \in Launchers : ~ LauncherLost(l)
  BY DEF LauncherLost
<1> QED
  BY <1>1, <1>2, <1>3, <1>4, <1>5, <1>6 DEF OsNext

\* An attempt to connect before there is a port leaves the bridge as it was.
LEMMA NoPortKeeps ==
  ASSUME OsIInv, up, NEW l \in Launchers, LauncherNoPort(l)
  PROVE  IInv' /\ NotYet' /\ UNCHANGED <<dpc, action, moved>>
<1> USE DEF bridgeVars, listenerVars, dispatcherVars, historyVars
<1>1. IInv /\ NotYet /\ stage < 3
  BY DEF OsIInv, InService, LauncherNoPort, ConsoleUp, Book, OsTypeOK
<1>2. /\ pc[l] = "start" /\ pc' \in {[pc EXCEPT ![l] = "start"], [pc EXCEPT ![l] = "gone"]}
      /\ attempts' = [attempts EXCEPT ![l] = @ + 1]
      /\ UNCHANGED <<bridgeVars, listenerVars, dispatcherVars, historyVars,
                     request, closed, hand, stage>>
  BY <1>1 DEF LauncherNoPort, NotYet
<1>3. \A k \in Launchers : /\ pc'[k] = pc[k] \/ (k = l /\ pc'[k] = "gone")
                           /\ pc[k] \in {"start", "gone"}
  BY <1>1, <1>2 DEF IInv, TypeOK, LauncherTypes, NotYet
<1>4. TypeOK'
  BY <1>1, <1>2 DEF IInv, TypeOK, BridgeTypes, ThreadTypes, LauncherTypes
<1>5. Connection' /\ Exchange'
  BY <1>1, <1>2, <1>3, ConsoleAssumption
  DEF IInv, Kept, TypeOK, BridgeTypes, ThreadTypes, Connection, Connected, Exchange
<1>6. OnePlace' /\ WakeUp'
  BY <1>1, <1>2, <1>3, ConsoleAssumption
  DEF IInv, Kept, OnePlace, Pending, NobodyActs, Truthful, WakeUp, NotYet, TypeOK, BridgeTypes
<1>7. Dispatching'
  BY <1>1, <1>2, <1>3, ConsoleAssumption
  DEF IInv, Kept, Dispatching, Truthful, TypeOK, BridgeTypes, ThreadTypes
<1>8. NotYet'
  BY <1>1, <1>2, <1>3 DEF NotYet
<1> QED
  BY <1>2, <1>4, <1>5, <1>6, <1>7, <1>8 DEF IInv, Kept

\* The bridge keeps what it was proved to keep.
LEMMA BridgeInPlace == OsIInv /\ up /\ [OsNext]_allVars => IInv'
  BY BridgeStep, NoPortKeeps, InvStep DEF OsIInv, InService

\* Between the call and the return, the action stays what was asked for.
LEMMA BusyStays ==
  ASSUME IInv, DispatcherStep \/ ListenerStep \/ \E l \in Launchers : LauncherStep(l)
  PROVE  /\ dpc' = "idle" <=> dpc = "idle"
         /\ action'.op = action.op /\ action'.len = action.len
<1> USE DEF bridgeVars, listenerVars, dispatcherVars, launcherVars, historyVars
<1>1. CASE DispatcherStep
  BY <1>1
  DEF IInv, TypeOK, ThreadTypes, Message, DispatcherStep, DispatchRefuse,
      DispatchEnter, DispatchReply, DispatchGiveUp, DispatchWake, DispatchCollect,
      ReadCopy
<1>2. CASE ListenerStep
  BY <1>2 DEF ListenerStep, ListenerReply, ListenerBind, ListenerAccept,
     ListenerRefuse, ListenerClosed, ListenerWait, ListenerAck
<1>3. CASE \E l \in Launchers : LauncherStep(l)
  BY <1>3 DEF LauncherStep, LauncherConnect, Start, LauncherBegin, LauncherAbort,
     Serve, LauncherWait, LauncherWrite, LauncherExit, LauncherRead,
     LauncherTerminate, LauncherCrash, Acknowledge
<1> QED
  BY <1>1, <1>2, <1>3

\* What is performed is the action, and it was not performed before.
LEMMA MovesStep == IInv /\ Moves /\ [Next]_vars => Moves'
<1> SUFFICES ASSUME IInv, Moves, [Next]_vars
             PROVE  Moves'
  OBVIOUS
<1> USE DEF bridgeVars, listenerVars, dispatcherVars, launcherVars, historyVars
<1>1. CASE UNCHANGED vars
  BY <1>1 DEF vars, Moves
<1>2. ASSUME NEW c \in Calls, DispatchCall(c.op, c.len)
      PROVE  Moves'
  BY <1>2, ConsoleAssumption DEF Calls, DispatchCall, Moves
<1>3. CASE DispatchReturn
  BY <1>3 DEF DispatchReturn, Moves
<1>4. CASE DispatcherStep
  <2>1. moved' = moved
    BY <1>4 DEF DispatcherStep, DispatchRefuse, DispatchEnter, DispatchReply,
       DispatchGiveUp, DispatchWake, DispatchCollect, ReadCopy
  <2> QED
    BY <1>4, <2>1, BusyStays DEF Moves
<1>5. CASE ListenerStep
  <2>1. moved' = moved
    BY <1>5 DEF ListenerStep, ListenerReply, ListenerBind, ListenerAccept,
       ListenerRefuse, ListenerClosed, ListenerWait, ListenerAck
  <2> QED
    BY <1>5, <2>1, BusyStays DEF Moves
<1>6. ASSUME NEW l \in Launchers, LauncherStep(l)
      PROVE  Moves'
  <2>1. CASE moved' = moved
    BY <1>6, <2>1, BusyStays DEF Moves
  <2>2. ASSUME pc[l] = "acting", NEW n \in Nat, n <= hand[l].len, moved' = moved + n
        PROVE  Moves'
    <3>1. hand[l] = action /\ moved = 0
      BY <2>2 DEF IInv, Kept, OnePlace, Pending, Dispatching
    <3> QED
      BY <1>6, <2>2, <3>1, BusyStays DEF Moves
  <2>3. hand[l].len \in 0..MaxBytes
    BY DEF IInv, TypeOK, LauncherTypes, Message
  <2>4. CASE LauncherWrite(l)
    BY <2>2, <2>3, <2>4, ConsoleAssumption DEF LauncherWrite, Performed
  <2>5. CASE LauncherRead(l)
    <3>1. \/ \E n \in 0..hand[l].len : moved' = moved + n
          \/ moved' = moved + 0
      BY <2>5 DEF LauncherRead, Performed
    <3> QED
      BY <2>2, <2>3, <2>5, <3>1, ConsoleAssumption DEF LauncherRead
  <2>6. CASE LauncherExit(l)
    <3>1. moved' = moved
      BY <2>6 DEF LauncherExit, Performed, IInv, TypeOK
    <3> QED
      BY <2>1, <3>1
  <2>7. CASE LauncherConnect(l) \/ Start(l) \/ LauncherWait(l)
             \/ LauncherTerminate(l) \/ LauncherCrash(l)
    BY <2>1, <2>7 DEF LauncherConnect, Start, LauncherBegin, LauncherAbort,
       LauncherWait, LauncherTerminate, LauncherCrash
  <2> QED
    BY <1>6, <2>4, <2>5, <2>6, <2>7 DEF LauncherStep, Serve
<1> QED
  BY <1>1, <1>2, <1>3, <1>4, <1>5, <1>6 DEF Next

\* The call being served is the same until it is answered: its vessel waits,
\* or is dead.
LEMMA ServedCallKept ==
  ASSUME Book, up, client # None, NEW v \in Launchers,
         LauncherSpawn(v) \/ SbStep(v) \/ VesselStep(v) \/ ApiConnect(v) \/ ApiClosed(v)
  PROVE  call'[client] = call[client]
<1>1. client \in Launchers /\ vessel[client] \in {"calling", "dead"} /\ apc # "receive"
  BY DEF Book, OsTypeOK, ServesOne
<1>2. CASE LauncherSpawn(v) \/ SbStep(v)
  BY <1>2 DEF LauncherSpawn, SbStep, SbRecord, SbFail, SbResume
<1>3. CASE ApiConnect(v) \/ ApiClosed(v)
  BY <1>1, <1>3 DEF ApiConnect, ApiClosed, MayUnbind, Serving
<1>4. CASE VesselConnect(v) \/ VesselCall(v) \/ VesselTransportFails(v)
  BY <1>1, <1>4 DEF VesselConnect, VesselCall, VesselTransportFails, Book, OsTypeOK
<1>5. CASE VesselTerminate(v) \/ VesselDie(v)
  BY <1>1, <1>5 DEF VesselTerminate, VesselDie, Book, OsTypeOK
<1> QED
  BY <1>2, <1>3, <1>4, <1>5 DEF VesselStep

\* The API thread's account of the call it serves.
LEMMA WaitsStep == OsIInv /\ up /\ [OsNext]_allVars => Waits'
<1> SUFFICES ASSUME OsIInv, up, [OsNext]_allVars
             PROVE  Waits'
  OBVIOUS
<1>1. Book /\ IInv /\ Waits
  BY DEF OsIInv, InService
<1>2. apc # "receive" => client \in Launchers /\ client # None
  BY <1>1 DEF Book, OsTypeOK, ServesOne
<1>3. ASSUME UNCHANGED <<apc, client, total, outcome, shown>>,
             apc # "receive" => call'[client] = call[client],
             dpc' = "idle" <=> dpc = "idle",
             action'.op = action.op, action'.len = action.len
      PROVE  Waits'
  BY <1>1, <1>3 DEF Waits
<1>4. CASE BridgeServer \/ \E l \in Launchers : Bridge(l) \/ Terminate(l) \/ Begin(l) \/ Abort(l)
  <2>1. UNCHANGED os2Vars
    BY <1>4 DEF BridgeServer, Bridge, Terminate, Begin, Abort
  <2>2. DispatcherStep \/ ListenerStep \/ \E l \in Launchers : LauncherStep(l)
    BY <1>4 DEF BridgeServer, Bridge, Terminate, Begin, Abort, LauncherStep, Start
  <2> QED
    BY <1>1, <1>3, <2>1, <2>2, BusyStays
<1>5. CASE Startup \/ ServerDies \/ UNCHANGED allVars
  BY <1>3, <1>5 DEF Startup, ServerDies, vars, dispatcherVars
<1>6. ASSUME NEW l \in Launchers, LauncherNoPort(l)
      PROVE  Waits'
  BY <1>3, <1>6 DEF LauncherNoPort, dispatcherVars
<1>7. ASSUME NEW v \in Launchers,
             LauncherSpawn(v) \/ SbStep(v) \/ VesselStep(v) \/ ApiConnect(v) \/ ApiClosed(v)
      PROVE  Waits'
  <2>1. UNCHANGED <<vars, apc, client, total, outcome, shown>>
    BY <1>7 DEF LauncherSpawn, SbStep, SbRecord, SbFail, SbResume, VesselStep,
       VesselConnect, VesselCall, VesselTransportFails, VesselTerminate, VesselDie,
       VesselEnds, ApiConnect, ApiClosed
  <2>2. apc # "receive" => call'[client] = call[client]
    BY <1>1, <1>2, <1>7, ServedCallKept
  <2> QED
    BY <1>3, <2>1, <2>2 DEF vars, dispatcherVars
<1>8. ASSUME NEW v \in Launchers, ApiTake(v)
      PROVE  Waits'
  <2>1. /\ apc = "receive" /\ call[v].op \in ConsoleOps
        /\ client' = v /\ total' = 0 /\ shown' = 0 /\ call' = call
    BY <1>8 DEF ApiTake, Serving, FirstTotal, ConsoleOps
  <2>2. dpc = "idle"
    BY <1>1, <2>1 DEF Waits
  <2>3. call[v].len \in 0..MaxWrite
    BY <1>1 DEF Book, OsTypeOK
  <2>4. CASE apc' = "console"
    <3>1. PICK c \in Calls : /\ DispatchCall(c.op, c.len)
                             /\ c.op = call[v].op /\ c.len <= call[v].len
      BY <1>1, <1>8, <2>4, TakeCalls
    <3>2. dpc' = "enter" /\ action'.op = c.op /\ action'.len = c.len /\ c.len \in Nat
      BY <3>1, ConsoleAssumption DEF DispatchCall, Calls
    <3> QED
      BY <2>1, <2>4, <3>1, <3>2 DEF Waits
  <2>5. CASE apc' # "console"
    <3>1. UNCHANGED vars /\ apc' \in {"write", "reply"}
      BY <1>1, <1>8, <2>5, TakeCalls
    <3>2. apc' = "write" => call[v].op = "Write"
      BY <1>8 DEF ApiTake
    <3> QED
      BY <2>1, <2>2, <2>3, <3>1, <3>2, Os2ssAssumption DEF Waits, vars, dispatcherVars
  <2> QED
    BY <2>4, <2>5
<1>9. CASE ApiChunk
  <2>1. /\ apc = "write" /\ UNCHANGED <<client, total, outcome, shown, call>>
    BY <1>9 DEF ApiChunk
  <2>2. dpc = "idle" /\ total = shown /\ call[client].op = "Write"
    BY <1>1, <2>1 DEF Waits
  <2>3. CASE apc' = "console"
    <3>1. PICK c \in Calls : /\ DispatchCall(c.op, c.len) /\ c.op = "Write"
                             /\ total + c.len <= call[client].len
      BY <1>9, <2>3, ChunkCalls
    <3>2. dpc' = "enter" /\ action'.op = c.op /\ action'.len = c.len
      BY <3>1 DEF DispatchCall
    <3> QED
      BY <2>1, <2>2, <2>3, <3>1, <3>2 DEF Waits
  <2>4. CASE apc' # "console"
    <3>1. UNCHANGED vars /\ apc' = "reply"
      BY <1>9, <2>4, ChunkCalls
    <3> QED
      BY <2>1, <2>2, <3>1 DEF Waits, vars, dispatcherVars
  <2> QED
    BY <2>3, <2>4
<1>10. CASE ApiBack
  <2>1. /\ apc = "console" /\ dpc' = "idle" /\ action' = action
        /\ total' = total + bytes /\ shown' = shown + moved
        /\ outcome' = IF action.op = "Exit" THEN "success" ELSE status
        /\ apc' = IF ChunkWritten THEN "write" ELSE "reply"
        /\ UNCHANGED <<client, call>>
    BY <1>10 DEF ApiBack, DispatchReturn
  <2>2. /\ bytes \in 0..action.len /\ moved \in 0..action.len
        /\ total = shown /\ total + action.len <= call[client].len
        /\ action.len \in Nat /\ total \in Nat /\ call[client].len \in 0..MaxWrite
        /\ action.op = call[client].op
        /\ status = "success" => bytes = moved
    BY <1>10, BackFits
  <2>3. CASE ChunkWritten
    <3>1. action.op = "Write" /\ status = "success"
      BY <2>3 DEF ChunkWritten
    <3>2. total' = shown' /\ total' <= call[client].len
      BY <2>1, <2>2, <3>1, Os2ssAssumption
    <3> QED
      BY <2>1, <2>2, <2>3, <3>1, <3>2 DEF Waits
  <2>4. CASE ~ ChunkWritten
    <3>1. outcome' = "success" /\ call[client].op \in {"Write", "Read"} => total' = shown'
      BY <2>1, <2>2
    <3> QED
      BY <2>1, <2>4, <3>1 DEF Waits
  <2> QED
    BY <2>3, <2>4
<1>11. CASE ApiReply
  <2>1. apc = "reply" /\ apc' = "receive" /\ UNCHANGED vars
    BY <1>11 DEF ApiReply
  <2> QED
    BY <1>1, <2>1 DEF Waits, vars, dispatcherVars
<1>12. \A l \in Launchers : ~ LauncherLost(l)
  BY DEF LauncherLost
<1> QED
  BY <1>4, <1>5, <1>6, <1>7, <1>8, <1>9, <1>10, <1>11, <1>12
  DEF OsNext, ApiStep, StartVessel

\* Without a port nobody connects.
LEMMA NotYetStep == OsIInv /\ up /\ [OsNext]_allVars => NotYet'
<1> SUFFICES ASSUME OsIInv, up, [OsNext]_allVars, stage' < 3
             PROVE  NotYet'
  BY DEF NotYet
<1>1. Book /\ IInv /\ Waits /\ NotYet
  BY DEF OsIInv, InService
<1>2. stage < 3 /\ ~ (stage >= 3)
  <2>1. stage \in 0..4 /\ (stage' = stage \/ stage' = stage + 1)
    BY <1>1 DEF Book, OsTypeOK, OsNext, Startup, ServerDies, BridgeServer, ApiStep,
       ApiChunk, ApiBack, ApiReply, ApiConnect, ApiClosed, ApiTake, Bridge,
       LauncherNoPort, LauncherLost, StartVessel, LauncherSpawn, Begin, Abort,
       Terminate, SbStep, SbRecord, SbFail, SbResume, VesselStep, VesselConnect,
       VesselCall, VesselTransportFails, VesselTerminate, VesselDie, VesselEnds
  <2> QED
    BY <2>1
<1>3. /\ lpc = "receive" /\ reply.to = None /\ commPort = None /\ closed = {}
      /\ \A l \in Launchers : pc[l] \in {"start", "gone"} /\ request[l] = NoRequest
  BY <1>1, <1>2 DEF NotYet
<1>4. apc = "receive" /\ dpc = "idle"
  BY <1>1, <1>2 DEF Book, OsTypeOK, ServesOne, Asking, Lives, Started, Waits
<1>5. CASE UNCHANGED vars
  BY <1>3, <1>5 DEF NotYet, vars, bridgeVars, listenerVars, launcherVars
<1>6. CASE BridgeServer
  <2> USE DEF bridgeVars, listenerVars, dispatcherVars, launcherVars, historyVars
  <2>1. ~ DispatcherStep
    BY <1>4 DEF DispatcherStep, DispatchRefuse, DispatchEnter, DispatchReply,
       DispatchGiveUp, DispatchWake, DispatchCollect, ReadCopy
  <2>2. ~ ListenerStep
    <3>1. \A l \in Launchers : request[l].op = "none" /\ l \notin closed
      BY <1>3 DEF NoRequest, PlainRequest
    <3>2. \A l \in Launchers :
             ~ (ListenerAccept(l) \/ ListenerRefuse(l) \/ ListenerClosed(l)
                \/ ListenerWait(l) \/ ListenerAck(l))
      BY <3>1 DEF ListenerAccept, ListenerRefuse, ListenerClosed, ListenerWait, ListenerAck
    <3>3. ~ListenerReply /\ ~ListenerBind
      BY <1>3 DEF ListenerReply, ListenerBind
    <3> QED
      BY <3>2, <3>3 DEF ListenerStep
  <2> QED
    BY <1>6, <2>1, <2>2 DEF BridgeServer
<1>7. ASSUME NEW l \in Launchers, LauncherNoPort(l)
      PROVE  NotYet'
  BY <1>7, NoPortKeeps
<1>8. ASSUME NEW l \in Launchers, Bridge(l) \/ Terminate(l) \/ Begin(l) \/ Abort(l)
      PROVE  NotYet'
  <2>1. LauncherCrash(l)
    BY <1>2, <1>3, <1>8 DEF Bridge, LauncherConnect, ConsoleUp, Serve, LauncherWait,
       LauncherWrite, LauncherExit, LauncherRead, Terminate, LauncherTerminate,
       Begin, LauncherBegin, Abort, LauncherAbort
  <2>2. /\ pc' = [pc EXCEPT ![l] = "gone"] /\ closed' = closed
        /\ request' = request \/ request' = [request EXCEPT ![l] = NoRequest]
        /\ UNCHANGED <<bridgeVars, listenerVars>>
    BY <1>3, <2>1 DEF LauncherCrash, Gone, Connected
  <2> QED
    BY <1>1, <1>3, <2>2
    DEF NotYet, bridgeVars, listenerVars, IInv, TypeOK, LauncherTypes
<1>9. CASE ApiStep
  <2>1. ASSUME NEW v \in Launchers, ApiTake(v)
        PROVE  FALSE
    BY <1>1, <1>2, <2>1 DEF ApiTake, Book, OsTypeOK, Asking, Lives, Started, ConsoleOps
  <2> QED
    BY <1>4, <1>5, <1>9, <2>1 DEF ApiStep, ApiChunk, ApiBack, ApiReply, ApiConnect, ApiClosed
<1>10. ASSUME NEW l \in Launchers, LauncherSpawn(l) \/ SbStep(l) \/ VesselStep(l)
       PROVE  UNCHANGED vars
  BY <1>10 DEF LauncherSpawn, SbStep, SbRecord, SbFail, SbResume, VesselStep,
     VesselConnect, VesselCall, VesselTransportFails, VesselTerminate, VesselDie, VesselEnds
<1>11. Startup \/ ServerDies => UNCHANGED vars
  BY DEF Startup, ServerDies
<1>12. \A l \in Launchers : ~ LauncherLost(l)
  BY DEF LauncherLost
<1> QED
  BY <1>5, <1>6, <1>7, <1>8, <1>9, <1>10, <1>11, <1>12 DEF OsNext, StartVessel

\* Once the server is gone it does not come back.
LEMMA UpOnlyBefore == [OsNext]_allVars => (up' => up)
  BY DEF OsNext, Startup, ServerDies, BridgeServer, ApiStep,
       ApiChunk, ApiBack, ApiReply, ApiConnect, ApiClosed, ApiTake, Bridge,
       LauncherNoPort, LauncherLost, StartVessel, LauncherSpawn, Begin, Abort,
       Terminate, SbStep, SbRecord, SbFail, SbResume, VesselStep, VesselConnect,
       VesselCall, VesselTransportFails, VesselTerminate, VesselDie, VesselEnds

\* The books and, while the server exists, the bridge are kept by every step.
LEMMA OsInvStep == OsIInv /\ [OsNext]_allVars => OsIInv'
<1> SUFFICES ASSUME OsIInv, [OsNext]_allVars
             PROVE  OsIInv'
  OBVIOUS
<1>1. Book'
  BY BookStep
<1>2. ASSUME up'
      PROVE  InService'
  <2>1. up
    BY <1>2, UpOnlyBefore
  <2>2. IInv' /\ Waits' /\ NotYet'
    BY <2>1, BridgeInPlace, WaitsStep, NotYetStep
  <2>3. Moves'
    BY <2>1, BridgeStep, MovesStep, NoPortKeeps DEF OsIInv, InService, Moves, allVars
  <2> QED
    BY <2>2, <2>3 DEF InService
<1> QED
  BY <1>1, <1>2 DEF OsIInv

\* The inductive invariant holds in every state of the server.
THEOREM OsInvariance == OsSpec => []OsIInv
<1>1. OsInit => OsIInv
  BY BookInit, ServiceInit DEF OsIInv
<1> QED
  BY <1>1, OsInvStep, PTL DEF OsSpec

-----------------------------------------------------------------------------
(***************************************************************************)
(* The properties                                                          *)
(***************************************************************************)

\* Types: Total of the DosWrite loop never passes the length it was given
\* (Os2Le4cConsoleWrite), nor does what a call returns.
THEOREM OsTypes == OsSpec => []OsTypeOK
<1>1. OsIInv => OsTypeOK
  BY DEF OsIInv, Book
<1> QED
  BY <1>1, OsInvariance, PTL

\* The section a handler reads from or copies to stays mapped while it runs
\* (Os2DispatchApi, UnbindR5ApiPort), whatever dies.
THEOREM ViewMapped == OsSpec => []ViewStaysMapped
<1>1. OsIInv => ViewStaysMapped
  BY DEF OsIInv, Book, OsTypeOK, ServesOne, Asking, ViewStaysMapped
<1> QED
  BY <1>1, OsInvariance, PTL

\* Nothing runs ahead of the start-up it needs: no live vessel is refused by
\* \OS2SS\ApiPort, and gConsoleLock exists before a thread takes it (entry).
THEOREM StartOrdered == OsSpec => []StartUpOrdered
<1>1. OsIInv => NeverRefused
  BY DEF OsIInv, Book, OsTypeOK, Lives, NeverRefused
<1>2. OsIInv => LockBeforeUse
  <2> SUFFICES ASSUME OsIInv, dpc # "idle" \/ lpc # "receive" \/ commPort # None
               PROVE  stage >= 2
    BY DEF LockBeforeUse, LockExists
  <2>1. stage \in 0..4
    BY DEF OsIInv, Book, OsTypeOK
  <2>2. CASE ~up
    BY <2>2 DEF OsIInv, Book, Started
  <2>3. CASE up /\ dpc # "idle"
    <3>1. client \in Launchers /\ call[client].op \in ConsoleOps
      BY <2>3 DEF OsIInv, InService, Waits, Book, ServesOne, OsTypeOK
    <3>2. sb[client] = "ok"
      BY <3>1 DEF OsIInv, Book, OsTypeOK, Asking, Lives
    <3> QED
      BY <3>1, <3>2 DEF OsIInv, Book, Started
  <2>4. CASE up /\ dpc = "idle"
    BY <2>1, <2>4 DEF OsIInv, InService, NotYet
  <2> QED
    BY <2>2, <2>3, <2>4
<1> QED
  BY <1>1, <1>2, OsInvariance, PTL DEF StartUpOrdered

\* The properties proved of the bridge for any caller hold of the bridge as
\* the server uses it, as long as the server exists.
THEOREM BridgeKept ==
  OsSpec => [](up => BoundOnly /\ NoStaleAction /\ NoLostWakeup /\ AnsweredInTruth)
<1>1. IInv => BoundOnly /\ NoStaleAction /\ NoLostWakeup /\ AnsweredInTruth
  <2>1. IInv => BoundOnly
    BY DEF IInv, TypeOK, LauncherTypes, Kept, Connection, Connected, ClosedIsCurrent,
       BoundOnly, Exchange, OneWaiter, NoMessage, Ops
  <2>2. IInv => NoStaleAction
    BY DEF IInv, Kept, OnePlace, Pending, Dispatching, NoStaleAction
  <2>3. IInv => NoLostWakeup
    BY DEF IInv, TypeOK, BridgeTypes, Kept, OnePlace, Dispatching, WakeUp, NoLostWakeup
  <2>4. IInv => AnsweredInTruth
    BY DEF IInv, Kept, Dispatching, Truthful, AnsweredInTruth, WakesWithAnswer, HonestReport
  <2> QED
    BY <2>1, <2>2, <2>3, <2>4
<1>2. OsIInv => (up => BoundOnly /\ NoStaleAction /\ NoLostWakeup /\ AnsweredInTruth)
  BY <1>1 DEF OsIInv, InService
<1> QED
  BY <1>2, OsInvariance, PTL

\* A call that returns while the server exists has told the truth.
LEMMA AcknowledgedStep ==
  ASSUME OsIInv, up, WriteAcknowledged, [OsNext]_allVars
  PROVE  WriteAcknowledged'
<1>1. CASE UNCHANGED result
  BY <1>1 DEF WriteAcknowledged
<1>2. CASE ApiReply
  <2>1. apc = "reply" /\ client \in Launchers
    BY <1>2 DEF ApiReply, OsIInv, Book, OsTypeOK, ServesOne
  <2>2. CASE vessel[client] # "calling"
    BY <1>1, <1>2, <2>2 DEF ApiReply
  <2>3. ASSUME NEW rc, rc = "NO_ERROR" =>
                  /\ outcome = "success"
                  /\ ~ (call[client].op = "Write" /\ total # call[client].len),
               Returned(client, rc, total)
        PROVE  WriteAcknowledged'
    <3>1. /\ \A v \in Launchers : v # client => result'[v] = result[v]
          /\ result'[client] = [rc |-> rc, op |-> call[client].op, len |-> call[client].len,
                  actual |-> IF rc = "NO_ERROR" THEN total ELSE 0, moved |-> shown]
      BY <2>1, <2>3 DEF Returned, OsIInv, Book, OsTypeOK
    <3>2. rc = "NO_ERROR" /\ call[client].op \in {"Write", "Read"} => total = shown
      BY <2>1, <2>3 DEF OsIInv, InService, Waits
    <3> QED
      BY <2>1, <2>3, <3>1, <3>2 DEF WriteAcknowledged
  <2> QED
    BY <1>2, <2>2, <2>3 DEF ApiReply
<1>3. \A v \in Launchers : ~ VesselTransportFails(v)
  BY DEF VesselTransportFails
<1> QED
  BY <1>1, <1>2, <1>3 DEF OsNext, Startup, ServerDies, BridgeServer, ApiStep,
       ApiChunk, ApiBack, ApiConnect, ApiClosed, ApiTake, Bridge,
       LauncherNoPort, LauncherLost, StartVessel, LauncherSpawn, Begin, Abort,
       Terminate, SbStep, SbRecord, SbFail, SbResume, VesselStep, VesselConnect,
       VesselCall, VesselTerminate, VesselDie, VesselEnds

\* As long as the server exists, a DosWrite or DosRead that returned NO_ERROR
\* has moved exactly the bytes it reports (Os2SrvDosWrite, Os2SrvDosRead).
THEOREM AcknowledgedWhileUp == OsSpec => [](up => WriteAcknowledged)
<1>1. OsInit => WriteAcknowledged
  BY DEF OsInit, WriteAcknowledged, NoResult
<1>2. OsIInv /\ (up => WriteAcknowledged) /\ [OsNext]_allVars => (up => WriteAcknowledged)'
  BY AcknowledgedStep, UpOnlyBefore
<1> QED
  BY <1>1, <1>2, OsInvariance, PTL DEF OsSpec

\* The server that does not die.
LEMMA StaysUp == ~ServerMayDie /\ OsSpec => []up
<1> SUFFICES ASSUME ~ServerMayDie
             PROVE  OsSpec => []up
  OBVIOUS
<1>1. OsInit => up
  BY DEF OsInit
<1>2. up /\ [OsNext]_allVars => up'
  BY DEF OsNext, Startup, ServerDies, BridgeServer, ApiStep,
       ApiChunk, ApiBack, ApiReply, ApiConnect, ApiClosed, ApiTake, Bridge,
       LauncherNoPort, LauncherLost, StartVessel, LauncherSpawn, Begin, Abort,
       Terminate, SbStep, SbRecord, SbFail, SbResume, VesselStep, VesselConnect,
       VesselCall, VesselTransportFails, VesselTerminate, VesselDie, VesselEnds
<1> QED
  BY <1>1, <1>2, PTL DEF OsSpec

\* When the server does not die, they always tell the truth, whichever
\* launchers and vessels are killed in between.
THEOREM Acknowledged == ~ServerMayDie /\ OsSpec => []WriteAcknowledged
<1> SUFFICES ASSUME ~ServerMayDie
             PROVE  OsSpec => []WriteAcknowledged
  OBVIOUS
<1>1. OsSpec => []up
  BY StaysUp
<1> QED
  BY <1>1, AcknowledgedWhileUp, PTL

-----------------------------------------------------------------------------
(***************************************************************************)
(* Who leaves the console                                                  *)
(***************************************************************************)
Stays == {"attached", "ready", "waiting", "acting", "acking"}

\* A launcher is as far as its SmExecPgm request lets it be, and stays in its
\* loop until its vessel has called DosExit.
InLoop ==
    \A l \in Launchers :
        /\ pc[l] = "leaving" => l \in asked
        /\ pc[l] \in {"acting", "acking"} /\ hand[l].op = "Exit" => l \in asked
        /\ sb[l] = "ok" /\ l \notin asked => pc[l] \in Stays
        /\ sb[l] \in {"asked", "recorded"} => pc[l] = "attached"
        /\ sb[l] \in {"none", "failed"} =>
               pc[l] \in {"start", "connecting", "attached", "gone"}

\* DosExit is called once.
AsksOnce ==
    \A v \in asked :
        \/ client = v /\ call[v].op = "Exit"
        \/ vessel[v] \in {"exiting", "dead"} /\ call[v] = NoCall

\* An exit on its way is that of the vessel served, and finds its launcher
\* connected; there is no other launcher it could reach.
OwnExit ==
    dpc \notin {"idle", "done"} /\ action.op = "Exit" =>
        /\ client \in asked
        /\ times = 0 => /\ pc[client] \in Stays
                        /\ ~ (pc[client] = "acking" /\ hand[client].op = "Exit")

Exits == InLoop /\ AsksOnce /\ OwnExit

\* Nobody exits at the start.
LEMMA ExitsInit == OsInit => Exits
  BY DEF OsInit, Init, Exits, InLoop, AsksOnce, OwnExit

\* The steps that leave the bridge alone.
LEMMA ExitsAside ==
  ASSUME OsIInv, up, Exits, UNCHANGED vars,
         \/ Startup \/ ServerDies \/ ApiReply
         \/ \E v \in Launchers : \/ LauncherSpawn(v) \/ SbStep(v) \/ VesselStep(v)
                                 \/ ApiConnect(v) \/ ApiClosed(v)
  PROVE  Exits'
<1> USE DEF Exits
<1>1. Book /\ Waits /\ UNCHANGED <<pc, hand, dpc, action, times>> /\ asked' = asked
  BY DEF OsIInv, InService, vars, launcherVars, dispatcherVars, historyVars, Startup,
     ServerDies, ApiReply, LauncherSpawn, SbStep, SbRecord, SbFail, SbResume, VesselStep,
     VesselConnect, VesselCall, VesselTransportFails, VesselTerminate, VesselDie,
     VesselEnds, ApiConnect, ApiClosed
<1>2. asked \subseteq Launchers
  BY <1>1 DEF Book, OsTypeOK
<1>3. CASE Startup \/ ServerDies
  BY <1>1, <1>3 DEF Startup, ServerDies, InLoop, AsksOnce, OwnExit
<1>4. CASE ApiReply
  <2>1. /\ client \in Launchers /\ vessel[client] \in {"calling", "dead"}
        /\ call[client].op \in ConsoleOps /\ dpc = "idle"
    BY <1>1, <1>4 DEF ApiReply, Book, OsTypeOK, ServesOne, Waits
  <2>2. /\ call' = [call EXCEPT ![client] = NoCall] /\ sb' = sb
        /\ IF vessel[client] = "calling"
           THEN vessel' = [vessel EXCEPT ![client] =
                              IF call[client].op = "Exit" THEN "exiting" ELSE "bound"]
           ELSE vessel' = vessel
    BY <1>4 DEF ApiReply, ClearCall
  <2>3. client \in asked => call[client].op = "Exit"
    BY <2>1 DEF AsksOnce, NoCall, ApiRequest, ConsoleOps
  <2>4. AsksOnce'
    BY <1>1, <1>2, <2>1, <2>2, <2>3 DEF AsksOnce, Book, OsTypeOK
  <2> QED
    BY <1>1, <2>1, <2>2, <2>4 DEF InLoop, OwnExit
<1>5. ASSUME NEW v \in Launchers, LauncherSpawn(v)
      PROVE  Exits'
  BY <1>1, <1>2, <1>5
  DEF LauncherSpawn, InLoop, AsksOnce, OwnExit, Book, OsTypeOK, Lives, ServesOne
<1>6. ASSUME NEW v \in Launchers, SbStep(v)
      PROVE  Exits'
  <2>1. InLoop'
    BY ZenonT(30), <1>1, <1>6 DEF SbStep, SbRecord, SbFail, SbResume, Recorded, InLoop, Stays, Book, OsTypeOK
  <2>2. UNCHANGED <<client, call>> /\ (vessel' = vessel \/
           vessel' = [vessel EXCEPT ![v] = IF @ = "suspended" THEN "running" ELSE @])
    BY <1>6 DEF SbStep, SbRecord, SbFail, SbResume
  <2>3. AsksOnce'
    BY <1>1, <1>2, <2>2 DEF AsksOnce, Book, OsTypeOK
  <2>4. OwnExit'
    BY <1>1, <2>2 DEF OwnExit
  <2> QED
    BY <2>1, <2>3, <2>4
<1>7. ASSUME NEW v \in Launchers, VesselStep(v) \/ ApiConnect(v) \/ ApiClosed(v)
      PROVE  Exits'
  <2>1. UNCHANGED <<sb, client>>
    BY <1>7 DEF VesselStep, VesselConnect, VesselCall, VesselTransportFails,
       VesselTerminate, VesselDie, VesselEnds, ApiConnect, ApiClosed
  <2>2. InLoop' /\ OwnExit'
    BY <1>1, <2>1 DEF InLoop, OwnExit
  <2>3. v \in asked => \/ client = v /\ vessel[v] \in {"calling", "dead"} /\ call[v].op = "Exit"
                       \/ vessel[v] \in {"exiting", "dead"} /\ call[v] = NoCall
    BY <1>1, ConsoleAssumption DEF AsksOnce, Book, ServesOne
  <2>4. CASE VesselConnect(v) \/ VesselCall(v)
    <3>1. v \notin asked
      BY <2>3, <2>4 DEF VesselConnect, VesselCall
    <3> QED
      BY <1>1, <1>2, <2>1, <2>2, <2>4, <3>1
      DEF VesselConnect, VesselCall, AsksOnce, Book, OsTypeOK
  <2>5. CASE VesselTerminate(v) \/ VesselDie(v)
    <3>1. /\ vessel' = [vessel EXCEPT ![v] = "dead"]
          /\ call' = call \/ (v # client /\ call' = [call EXCEPT ![v] = NoCall])
      BY <2>5 DEF VesselTerminate, VesselDie, VesselEnds
    <3>2. AsksOnce'
      BY <1>1, <1>2, <2>1, <2>3, <3>1 DEF AsksOnce, Book, OsTypeOK
    <3> QED
      BY <2>2, <3>2
  <2>6. CASE ApiConnect(v)
    <3>1. v \notin asked /\ call[v].op = "Connect"
      BY <2>3, <2>6 DEF ApiConnect, NoCall, ApiRequest
    <3> QED
      BY <1>1, <1>2, <2>1, <2>2, <2>6, <3>1 DEF ApiConnect, ClearCall, AsksOnce, Book, OsTypeOK
  <2>7. CASE ApiClosed(v)
    BY <1>1, <2>1, <2>2, <2>7 DEF ApiClosed, AsksOnce
  <2>8. ~ VesselTransportFails(v)
    BY DEF VesselTransportFails
  <2> QED
    BY <1>7, <2>4, <2>5, <2>6, <2>7, <2>8 DEF VesselStep
<1> QED
  BY <1>3, <1>4, <1>5, <1>6, <1>7

\* The API thread's calls and returns.
LEMMA ExitsCall ==
  ASSUME OsIInv, up, Exits, ApiChunk \/ ApiBack \/ \E v \in Launchers : ApiTake(v)
  PROVE  Exits'
<1> USE DEF Exits
<1>1. Book /\ Waits /\ IInv
  BY DEF OsIInv, InService
<1>2. CASE ApiBack
  BY <1>2 DEF ApiBack, DispatchReturn, InLoop, AsksOnce, OwnExit, launcherVars
<1>3. CASE ApiChunk
  <2>1. UNCHANGED <<sb, asked, client, call, vessel>> /\ apc = "write" /\ dpc = "idle"
    BY <1>1, <1>3 DEF ApiChunk, Waits
  <2>2. UNCHANGED <<pc, hand>> /\ (dpc' = "idle" \/ action'.op = "Write")
    BY <1>3, <2>1, ChunkCalls DEF DispatchCall, vars, launcherVars, dispatcherVars
  <2> QED
    BY <2>1, <2>2 DEF InLoop, AsksOnce, OwnExit
<1>4. ASSUME NEW v \in Launchers, ApiTake(v)
      PROVE  Exits'
  <2>1. /\ UNCHANGED <<sb, call, vessel>> /\ client' = v /\ apc = "receive" /\ client = None
        /\ asked' = IF call[v].op = "Exit" THEN asked \cup {v} ELSE asked
        /\ call[v].op \in ConsoleOps
    BY <1>1, <1>4 DEF ApiTake, Serving, Book, ServesOne, ConsoleOps
  <2>2. v \notin asked /\ \A u \in asked : vessel[u] \in {"exiting", "dead"} /\ call[u] = NoCall
    BY <1>1, <2>1, ConsoleAssumption
    DEF AsksOnce, ConsoleOps, NoCall, ApiRequest, Book, OsTypeOK
  <2>3. AsksOnce'
    BY <2>1, <2>2 DEF AsksOnce
  <2>4. dpc = "idle"
    BY <1>1, <2>1 DEF Waits
  <2>5. /\ UNCHANGED <<pc, hand>>
        /\ dpc' = "idle" \/ action'.op = call[v].op
    BY <1>1, <1>4, <2>4, TakeCalls DEF DispatchCall, vars, launcherVars, dispatcherVars
  <2>6. InLoop'
    BY <2>1, <2>5 DEF InLoop
  <2>7. sb[v] = "ok"
    BY <1>1, <2>1 DEF Book, Asking, Lives, OsTypeOK
  <2>8. pc[v] \in Stays /\ ~ (pc[v] \in {"acting", "acking"} /\ hand[v].op = "Exit")
    BY <2>2, <2>7 DEF InLoop
  <2>9. OwnExit'
    BY <2>1, <2>5, <2>8 DEF OwnExit
  <2> QED
    BY <2>3, <2>6, <2>9
<1> QED
  BY <1>2, <1>3, <1>4

\* An exit that has not been performed is for the one launcher connected.
LEMMA ExitReachesOwn ==
  ASSUME OsIInv, up, Exits, NEW l \in Launchers, Connected(l),
         dpc \notin {"idle", "done"}, action.op = "Exit", times = 0
  PROVE  l = client /\ l \in asked
<1>1. IInv /\ client \in Launchers
  BY DEF OsIInv, InService, Exits, OwnExit, Book, OsTypeOK
<1>2. Connected(client)
  BY DEF Exits, OwnExit, Stays, Connected
<1>3. l \in {commPort, binding} /\ client \in {commPort, binding}
  BY <1>1, <1>2 DEF IInv, Kept, Connection
<1>4. commPort = None \/ binding = None
  BY <1>1 DEF IInv, TypeOK, ThreadTypes, Kept, Connection
<1>5. l = client
  BY <1>1, <1>3, <1>4, ConsoleAssumption
<1> QED
  BY <1>5 DEF Exits, OwnExit

\* The server's steps in the bridge.
LEMMA ExitsServer ==
  ASSUME OsIInv, up, Exits, BridgeServer
  PROVE  Exits'
<1> USE DEF Exits
<1>1. Book /\ IInv /\ UNCHANGED <<sb, asked, client, call, vessel>>
  BY DEF OsIInv, InService, BridgeServer
<1>2. AsksOnce'
  BY <1>1 DEF AsksOnce
<1>3. ASSUME UNCHANGED <<pc, hand, times>>, dpc' \notin {"idle", "done"} => dpc \notin {"idle", "done"},
             action'.op = action.op
      PROVE  Exits'
  BY <1>1, <1>2, <1>3 DEF InLoop, OwnExit
<1>4. CASE DispatchReply
  <2> DEFINE l == replyTo
  <2>1. /\ l \in Launchers /\ times = 0 /\ dpc = "reply" /\ action.op \in Ops
        /\ UNCHANGED <<times, action>>
    BY <1>1, <1>4 DEF DispatchReply, IInv, TypeOK, ThreadTypes, Kept, Dispatching, historyVars
  <2>2. CASE pc[l] # "waiting"
    BY <1>3, <1>4, <2>1, <2>2 DEF DispatchReply, historyVars
  <2>3. CASE pc[l] = "waiting"
    <3>1. pc' = [pc EXCEPT ![l] = "acting"] /\ hand' = [hand EXCEPT ![l] = action] /\ dpc' = "wait"
      BY <1>4, <2>3 DEF DispatchReply
    <3>2. Connected(l)
      BY <2>3 DEF Connected
    <3>3. action.op = "Exit" => l = client /\ l \in asked
      BY <2>1, <3>2, ExitReachesOwn
    <3>4. InLoop'
      BY <1>1, <2>1, <2>3, <3>1, <3>3 DEF InLoop, Stays, IInv, TypeOK, LauncherTypes
    <3>5. OwnExit'
      BY <1>1, <2>1, <3>1, <3>3 DEF OwnExit, Stays, IInv, TypeOK, LauncherTypes
    <3> QED
      BY <1>2, <3>4, <3>5
  <2> QED
    BY <2>2, <2>3
<1>5. CASE DispatchRefuse \/ DispatchEnter \/ DispatchGiveUp \/ DispatchWake
           \/ DispatchCollect \/ ReadCopy
  <2>1. UNCHANGED <<pc, hand, times>> /\ dpc \notin {"idle", "done"}
    BY <1>5 DEF DispatchRefuse, DispatchEnter, DispatchGiveUp, DispatchWake,
       DispatchCollect, ReadCopy, launcherVars, historyVars
  <2> QED
    BY <1>1, <1>3, <1>5, <2>1, BusyStays DEF DispatcherStep
<1>6. CASE ListenerReply
  <2> DEFINE l == reply.to
             m == reply.msg
  <2>1. /\ l \in Launchers /\ UNCHANGED <<dpc, action, times>>
    BY <1>1, <1>6 DEF ListenerReply, dispatcherVars, historyVars, IInv, TypeOK, ThreadTypes
  <2>2. CASE UNCHANGED <<pc, hand>>
    BY <1>3, <2>1, <2>2
  <2>3. CASE m.op = "AckReply" /\ pc[l] = "acking"
    <3>1. /\ pc' = [pc EXCEPT ![l] = IF hand[l].op = "Exit" THEN "leaving" ELSE "ready"]
          /\ hand' = [hand EXCEPT ![l] = NoMessage]
      BY <1>6, <2>3 DEF ListenerReply, AfterReply
    <3>2. InLoop'
      BY <1>1, <2>1, <2>3, <3>1 DEF InLoop, Stays, IInv, TypeOK, LauncherTypes
    <3>3. OwnExit'
      BY <1>1, <2>1, <2>3, <3>1 DEF OwnExit, Stays, IInv, TypeOK, LauncherTypes
    <3> QED
      BY <1>2, <3>2, <3>3
  <2>4. CASE m.op # "AckReply" /\ pc[l] = "waiting"
    <3>1. pc' = [pc EXCEPT ![l] = "acting"] /\ hand' = [hand EXCEPT ![l] = m]
      BY <1>6, <2>4 DEF ListenerReply, AfterReply
    <3>2. m = action /\ dpc = "wait" /\ times = 0
      <4>1. m.op \in Ops
        BY <1>1, <2>1, <2>4, ConsoleAssumption DEF IInv, Kept, Exchange
      <4> QED
        BY <1>1, <4>1 DEF IInv, Kept, OnePlace, Pending
    <3>3. Connected(l)
      BY <2>4 DEF Connected
    <3>4. action.op = "Exit" => l = client /\ l \in asked
      BY <2>1, <3>2, <3>3, ExitReachesOwn
    <3>5. InLoop'
      BY <1>1, <2>1, <2>4, <3>1, <3>2, <3>4 DEF InLoop, Stays, IInv, TypeOK, LauncherTypes
    <3>6. OwnExit'
      BY <1>1, <2>1, <3>1, <3>2, <3>4 DEF OwnExit, Stays, IInv, TypeOK, LauncherTypes
    <3> QED
      BY <1>2, <3>5, <3>6
  <2> QED
    BY <1>6, <2>2, <2>3, <2>4 DEF ListenerReply
<1>7. ASSUME NEW l \in Launchers, ListenerAccept(l) \/ ListenerRefuse(l)
      PROVE  Exits'
  <2>1. /\ UNCHANGED <<hand, dpc, action, times>>
        /\ \/ pc' = pc
           \/ /\ pc[l] = "connecting"
              /\ \/ ListenerAccept(l) /\ pc' = [pc EXCEPT ![l] = "attached"]
                 \/ \E w \in {"start", "gone"} : pc' = [pc EXCEPT ![l] = w]
    BY <1>7 DEF ListenerAccept, ListenerRefuse, dispatcherVars, historyVars
  <2>2. InLoop'
    BY <1>1, <2>1 DEF InLoop, Stays, IInv, TypeOK, LauncherTypes
  <2>3. OwnExit'
    BY <1>1, <2>1 DEF OwnExit, Stays, Book, OsTypeOK, IInv, TypeOK, LauncherTypes
  <2> QED
    BY <1>2, <2>2, <2>3
<1>8. ASSUME NEW l \in Launchers, ListenerClosed(l) \/ ListenerWait(l) \/ ListenerAck(l)
      PROVE  Exits'
  BY <1>3, <1>8 DEF ListenerClosed, ListenerWait, ListenerAck, dispatcherVars, historyVars
<1>9. CASE ListenerBind
  BY <1>3, <1>9 DEF ListenerBind, dispatcherVars, launcherVars, historyVars
<1> QED
  BY <1>4, <1>5, <1>6, <1>7, <1>8, <1>9 DEF BridgeServer, DispatcherStep, ListenerStep

\* The launchers' steps, as long as nobody kills them.
LEMMA ExitsLauncher ==
  ASSUME OsIInv, up, ~LaunchersMayDie, Exits, NEW l \in Launchers,
         Bridge(l) \/ Begin(l) \/ Abort(l) \/ Terminate(l) \/ LauncherNoPort(l)
  PROVE  Exits'
<1> USE DEF Exits
<1>1. /\ Book /\ IInv /\ UNCHANGED <<sb, asked, client, call, vessel>>
      /\ UNCHANGED <<dpc, action>>
  BY DEF OsIInv, InService, Bridge, Begin, Abort, Terminate, LauncherNoPort,
     LauncherConnect, Serve, LauncherWait, LauncherWrite, LauncherExit, LauncherRead,
     LauncherBegin, LauncherAbort, LauncherTerminate, Acknowledge, dispatcherVars
<1>2. AsksOnce'
  BY <1>1 DEF AsksOnce
<1>3. CASE LauncherConnect(l) \/ LauncherWait(l) \/ Begin(l)
  <2>1. /\ hand' = hand /\ times' = times
        /\ \/ pc[l] = "start" /\ pc' = [pc EXCEPT ![l] = "connecting"]
           \/ pc[l] = "ready" /\ pc' = [pc EXCEPT ![l] = "waiting"]
           \/ pc[l] = "attached" /\ sb[l] = "ok" /\ pc' = [pc EXCEPT ![l] = "ready"]
    BY <1>3 DEF LauncherConnect, LauncherWait, Begin, LauncherBegin, historyVars
  <2>2. InLoop'
    BY <1>1, <2>1 DEF InLoop, Stays, IInv, TypeOK, LauncherTypes
  <2>3. OwnExit'
    BY <1>1, <2>1 DEF OwnExit, Stays, Book, OsTypeOK, IInv, TypeOK, LauncherTypes
  <2> QED
    BY <1>2, <2>2, <2>3
<1>4. CASE LauncherWrite(l) \/ LauncherRead(l) \/ LauncherExit(l)
  <2>1. pc[l] = "acting" /\ hand[l] = action /\ times = 0 /\ action.op \in Ops
    BY <1>1, <1>4
    DEF LauncherWrite, LauncherRead, LauncherExit, IInv, Kept, OnePlace, Pending, Dispatching
  <2>2. pc' = [pc EXCEPT ![l] = "acking"] /\ hand' = hand /\ times' = 1
    BY <1>4, <2>1 DEF LauncherWrite, LauncherRead, LauncherExit, Acknowledge, Performed, Ops
  <2>3. InLoop' /\ OwnExit'
    BY <1>1, <2>1, <2>2 DEF InLoop, OwnExit, Stays, IInv, TypeOK, LauncherTypes
  <2> QED
    BY <1>2, <2>3
<1>5. CASE Abort(l) \/ Terminate(l)
  <2>1. /\ pc' = [pc EXCEPT ![l] = "gone"] /\ hand' = [hand EXCEPT ![l] = NoMessage]
        /\ times' = times
        /\ \/ pc[l] = "attached" /\ (vessel[l] = "none" \/ sb[l] = "failed")
           \/ pc[l] = "leaving"
    BY <1>5 DEF Abort, LauncherAbort, Terminate, LauncherTerminate, Gone, historyVars
  <2>2. InLoop'
    BY <1>1, <2>1 DEF InLoop, Stays, IInv, TypeOK, LauncherTypes, Book, Lives
  <2>3. ASSUME dpc \notin {"idle", "done"}, action.op = "Exit", times = 0
        PROVE  client # l /\ client \in Launchers
    <3>1. client \in Launchers
      BY <1>1, <2>3 DEF OwnExit, Book, OsTypeOK
    <3>2. sb[client] = "ok"
      BY <1>1, <3>1, ConsoleAssumption DEF Book, OsTypeOK, ServesOne, Asking, Lives
    <3>3. vessel[client] # "none"
      BY <1>1, <3>1, <3>2 DEF Book, Lives
    <3> QED
      BY <2>1, <2>3, <3>1, <3>2, <3>3 DEF OwnExit, Stays
  <2>4. OwnExit'
    BY <1>1, <2>1, <2>3 DEF OwnExit, IInv, TypeOK, LauncherTypes
  <2> QED
    BY <1>2, <2>2, <2>4
<1>6. CASE LauncherNoPort(l)
  <2>1. /\ UNCHANGED <<hand, times>>
        /\ pc[l] \in {"start", "connecting"}
        /\ \E w \in {"start", "gone"} : pc' = [pc EXCEPT ![l] = w]
    BY <1>6 DEF LauncherNoPort, historyVars
  <2>2. InLoop'
    BY <1>1, <2>1 DEF InLoop, Stays, IInv, TypeOK, LauncherTypes
  <2>3. OwnExit'
    BY <1>1, <2>1 DEF OwnExit, Stays, Book, OsTypeOK, IInv, TypeOK, LauncherTypes
  <2> QED
    BY <1>2, <2>2, <2>3
<1> QED
  BY <1>3, <1>4, <1>5, <1>6 DEF Bridge, Serve

\* When launchers are not killed, one leaves the console only because its own
\* vessel has called DosExit (Le4cConsoleExit), as long as the server exists.
THEOREM ExitIsOwn == ~LaunchersMayDie /\ OsSpec => []ExitEndsOwnBridge
<1> SUFFICES ASSUME ~LaunchersMayDie
             PROVE  OsSpec => []ExitEndsOwnBridge
  OBVIOUS
<1>1. OsInit => Exits
  BY ExitsInit
<1>2. OsIInv /\ up /\ Exits /\ [OsNext]_allVars => Exits'
  <2> SUFFICES ASSUME OsIInv, up, Exits, [OsNext]_allVars
               PROVE  Exits'
    OBVIOUS
  <2>1. CASE UNCHANGED allVars
    BY <2>1 DEF Exits, InLoop, AsksOnce, OwnExit, vars, launcherVars, dispatcherVars,
       historyVars
  <2>2. CASE Startup \/ ServerDies
    BY <2>2, ExitsAside DEF Startup, ServerDies
  <2>3. CASE BridgeServer
    BY <2>3, ExitsServer
  <2>4. CASE ApiStep
    BY <2>4, ExitsCall, ExitsAside DEF ApiStep, ApiReply, ApiConnect, ApiClosed
  <2>5. ASSUME NEW l \in Launchers, SbStep(l) \/ VesselStep(l) \/ LauncherSpawn(l)
        PROVE  Exits'
    <3>1. UNCHANGED vars
      BY <2>5 DEF LauncherSpawn, SbStep, SbRecord, SbFail, SbResume, VesselStep,
         VesselConnect, VesselCall, VesselTransportFails, VesselTerminate, VesselDie, VesselEnds
    <3> QED
      BY <2>5, <3>1, ExitsAside
  <2>6. ASSUME NEW l \in Launchers,
               Bridge(l) \/ Begin(l) \/ Abort(l) \/ Terminate(l) \/ LauncherNoPort(l)
        PROVE  Exits'
    BY <2>6, ExitsLauncher
  <2>7. \A l \in Launchers : ~ LauncherLost(l)
    BY DEF LauncherLost
  <2> QED
    BY <2>1, <2>2, <2>3, <2>4, <2>5, <2>6, <2>7 DEF OsNext, StartVessel
<1>3. OsIInv /\ (up => Exits) /\ [OsNext]_allVars => (up => Exits)'
  BY <1>2, UpOnlyBefore
<1>4. (up => Exits) => ExitEndsOwnBridge
  BY DEF Exits, InLoop, ExitEndsOwnBridge
<1> QED
  BY <1>1, <1>3, <1>4, OsInvariance, PTL DEF OsSpec

-----------------------------------------------------------------------------
(***************************************************************************)
(* The console service, whatever dies                                      *)
(***************************************************************************)

\* After the server's death a launcher still performs the action it has in
\* hand, and it is the only one.
Aftermath ==
    /\ pc = [l \in Launchers |-> pc[l]] /\ hand \in [Launchers -> Message]
    /\ action \in Message
    /\ \A l \in Launchers :
          pc[l] = "acting" =>
              /\ hand[l] = action /\ dpc = "wait" /\ times = 0 /\ moved = 0
              /\ \A k \in Launchers : pc[k] = "acting" => k = l

\* The state the server dies in is one of the aftermath.
LEMMA AftermathBegins == IInv => Aftermath
<1> SUFFICES ASSUME IInv
             PROVE  Aftermath
  OBVIOUS
<1>1. pc = [l \in Launchers |-> pc[l]] /\ hand \in [Launchers -> Message] /\ action \in Message
  BY DEF IInv, TypeOK, ThreadTypes, LauncherTypes
<1>2. \A l \in Launchers :
          pc[l] = "acting" => hand[l] = action /\ dpc = "wait" /\ times = 0 /\ moved = 0
  BY DEF IInv, Kept, OnePlace, Pending, Dispatching
<1>3. \A l \in Launchers : pc[l] = "acting" => l = commPort
  <2>1. \A l \in Launchers : pc[l] = "acting" => l = commPort \/ (lpc = "bind" /\ l = binding)
    BY ConsoleAssumption DEF IInv, TypeOK, ThreadTypes, Kept, Connection, Connected
  <2> QED
    BY <2>1 DEF IInv, Kept, Connection
<1> QED
  BY <1>1, <1>2, <1>3 DEF Aftermath

\* A launcher's steps after the server's death.
LEMMA AftermathLauncher ==
  ASSUME Aftermath, NEW l \in Launchers,
         \/ Bridge(l) \/ Begin(l) \/ Abort(l) \/ Terminate(l)
         \/ LauncherNoPort(l) \/ LauncherLost(l)
  PROVE  Aftermath' /\ (Service!Perform \/ UNCHANGED Service!vars)
<1> USE DEF Aftermath
<1>1. UNCHANGED dispatcherVars
  BY DEF Bridge, Begin, Abort, Terminate, LauncherNoPort, LauncherLost, LauncherConnect,
     Serve, LauncherWait, LauncherWrite, LauncherExit, LauncherRead, LauncherBegin,
     LauncherAbort, LauncherTerminate, LauncherCrash, Acknowledge
<1>2. CASE pc[l] = "acting" /\ (LauncherWrite(l) \/ LauncherRead(l) \/ LauncherExit(l))
  <2>1. hand[l] = action /\ dpc = "wait" /\ times = 0 /\ moved = 0 /\ action.len \in Nat
    BY <1>2, ConsoleAssumption DEF Message
  <2>2. pc' = [pc EXCEPT ![l] = "acking"] /\ hand' = hand
    BY <1>2 DEF LauncherWrite, LauncherRead, LauncherExit, Acknowledge
  <2>3. Aftermath'
    BY <1>1, <1>2, <2>2 DEF dispatcherVars
  <2>4. \/ UNCHANGED <<times, moved>>
        \/ times' = 1 /\ \E n \in 0..action.len : moved' = n
    BY <1>2, <2>1 DEF LauncherWrite, LauncherRead, LauncherExit, Performed, historyVars
  <2>5. Service!Perform \/ UNCHANGED Service!vars
    BY <1>1, <2>1, <2>4 DEF dispatcherVars, Service!Perform, Service!vars
  <2> QED
    BY <2>3, <2>5
<1>3. CASE ~ (LauncherWrite(l) \/ LauncherRead(l) \/ LauncherExit(l))
  <2>1. /\ UNCHANGED historyVars
        /\ \E w \in {"start", "connecting", "ready", "waiting", "leaving", "gone"} :
               pc' = [pc EXCEPT ![l] = w]
        /\ hand' = hand \/ hand' = [hand EXCEPT ![l] = NoMessage]
    BY <1>3 DEF Bridge, Begin, Abort, Terminate, LauncherNoPort, LauncherLost,
       LauncherConnect, Serve, LauncherWait, LauncherBegin, LauncherAbort,
       LauncherTerminate, LauncherCrash, Gone
  <2>2. Aftermath'
    BY <1>1, <2>1, EmptyTypes DEF dispatcherVars, historyVars
  <2> QED
    BY <1>1, <2>1, <2>2 DEF dispatcherVars, historyVars, Service!vars
<1> QED
  BY <1>2, <1>3 DEF LauncherWrite, LauncherRead, LauncherExit

\* The API thread of the whole server has the at-most-once console service of
\* ConsoleService, whichever launchers and vessels are killed and even if the
\* server itself dies: an action given to a launcher then is not done twice.
THEOREM OsImplements == OsSpec => ServiceSpec
<1>1. OsInit => Service!Init /\ Aftermath
  BY ServiceStart, InvInit, AftermathBegins DEF OsInit
<1>2. OsIInv /\ Aftermath /\ [OsNext]_allVars =>
          Aftermath' /\ [Service!Next]_(Service!vars)
  <2> SUFFICES ASSUME OsIInv, Aftermath, [OsNext]_allVars
               PROVE  Aftermath' /\ (Service!Next \/ UNCHANGED Service!vars)
    OBVIOUS
  <2>1. ASSUME UNCHANGED vars
        PROVE  Aftermath' /\ UNCHANGED Service!vars
    BY <2>1 DEF Aftermath, vars, launcherVars, dispatcherVars, historyVars, Service!vars
  <2>2. CASE up /\ OsNext /\ ~ \E l \in Launchers : LauncherNoPort(l)
    <3>1. [Next]_vars /\ IInv
      BY <2>2, BridgeStep DEF OsIInv, InService
    <3>2. IInv'
      BY <3>1, InvStep
    <3>3. [Service!Next]_(Service!vars)
      BY <3>1, ServiceStep
    <3>4. Aftermath'
      <4>1. (IInv => Aftermath)'
        BY AftermathBegins, PTL
      <4> QED
        BY <3>2, <4>1
    <3> QED
      BY <3>3, <3>4
  <2>3. ASSUME NEW l \in Launchers,
               \/ Bridge(l) \/ Begin(l) \/ Abort(l) \/ Terminate(l)
               \/ LauncherNoPort(l) \/ LauncherLost(l)
        PROVE  Aftermath' /\ (Service!Next \/ UNCHANGED Service!vars)
    BY <2>3, AftermathLauncher DEF Service!Next
  <2>4. CASE ~up /\ OsNext
    <3>1. ~ (BridgeServer \/ ApiStep)
      BY <2>4 DEF BridgeServer, ApiStep, ApiChunk, ApiBack, ApiReply, ApiConnect,
         ApiClosed, ApiTake, MayUnbind, Serving
    <3>2. ASSUME NEW l \in Launchers, LauncherSpawn(l) \/ SbStep(l) \/ VesselStep(l)
          PROVE  UNCHANGED vars
      BY <3>2 DEF LauncherSpawn, SbStep, SbRecord, SbFail, SbResume, VesselStep,
         VesselConnect, VesselCall, VesselTransportFails, VesselTerminate, VesselDie,
         VesselEnds
    <3>3. Startup \/ ServerDies => UNCHANGED vars
      BY DEF Startup, ServerDies
    <3> QED
      BY <2>1, <2>3, <2>4, <3>1, <3>2, <3>3 DEF OsNext, StartVessel
  <2> QED
    BY <2>1, <2>2, <2>3, <2>4
<1> QED
  BY <1>1, <1>2, OsInvariance, PTL DEF OsSpec, ServiceSpec, Service!Spec

=============================================================================
