------------------------------ MODULE MCOs2ss ------------------------------
(***************************************************************************)
(* OS2SS for TLC: launchers, with their vessels, are interchangeable.      *)
(***************************************************************************)
EXTENDS Os2ss, TLC

LauncherSymmetry == Permutations(Launchers)

=============================================================================
