----------------------------- MODULE MCOs2Queue -----------------------------
(* Threads and process of Os2Queue for TLC. *)
EXTENDS Os2Queue, TLC

CONSTANTS a1, a2, b1, p, q, n, m

\* Two threads of one process and one of another.
TwoProcesses == (a1 :> p) @@ (a2 :> p) @@ (b1 :> q)

\* The session of one process, as in QUECALLS.DLL.
OneProcess == (a1 :> p) @@ (a2 :> p) @@ (b1 :> p)

\* Interchangeable: the two threads of p, and the names.
QueueSymmetry == Permutations({a1, a2}) \cup Permutations(Names)

=============================================================================
