-------------------------- MODULE MCConsoleBridge --------------------------
(***************************************************************************)
(* The console bridge for TLC: launchers are interchangeable.              *)
(***************************************************************************)
EXTENDS ConsoleBridge, TLC

LauncherSymmetry == Permutations(Launchers)

=============================================================================
