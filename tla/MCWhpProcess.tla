---------------------------- MODULE MCWhpProcess ----------------------------
(* Instances of WhpProcess for TLC. *)
EXTENDS WhpProcess
=============================================================================
