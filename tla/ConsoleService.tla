--------------------------- MODULE ConsoleService ---------------------------
(***************************************************************************)
(* What OS2SS promises about one console action, as api.c relies on it: an *)
(* at-most-once remote call.  Whatever launchers come and go, an action is *)
(* performed at most once, only while it is being asked for; a success     *)
(* says that it was performed and how many bytes it moved; a failure never *)
(* reports bytes that were not moved.                                      *)
(***************************************************************************)
EXTENDS Integers

CONSTANTS Calls      \* the actions that can be asked for, [op, len]

VARIABLES
    phase,           \* "idle", "busy" or "done"
    call,            \* the action asked for
    times, moved,    \* how often it was performed, and the bytes it moved
    success, count   \* the outcome

vars == <<phase, call, times, moved, success, count>>

Init ==
    /\ phase = "idle"
    /\ call = [op |-> "none", len |-> 0]
    /\ times = 0 /\ moved = 0
    /\ success = TRUE /\ count = 0

Ask ==
    /\ phase = "idle"
    /\ phase' = "busy"
    /\ call' \in Calls
    /\ times' = 0 /\ moved' = 0
    /\ success' = FALSE /\ count' = 0

Perform ==
    /\ phase = "busy" /\ times = 0
    /\ times' = 1
    /\ moved' \in 0..call.len
    /\ UNCHANGED <<phase, call, success, count>>

Succeed ==
    /\ phase = "busy" /\ times = 1
    /\ call.op = "Write" => moved = call.len
    /\ phase' = "done"
    /\ success' = TRUE /\ count' = moved
    /\ UNCHANGED <<call, times, moved>>

Fail ==
    /\ phase = "busy"
    /\ phase' = "done"
    /\ success' = FALSE /\ count' \in 0..moved
    /\ UNCHANGED <<call, times, moved>>

Return ==
    /\ phase = "done"
    /\ phase' = "idle"
    /\ UNCHANGED <<call, times, moved, success, count>>

Next == Ask \/ Perform \/ Succeed \/ Fail \/ Return

Spec == Init /\ [][Next]_vars

=============================================================================
