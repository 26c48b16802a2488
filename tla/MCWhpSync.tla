---------------------------- MODULE MCWhpSync ----------------------------
(* Instances of WhpSync for TLC. *)
EXTENDS WhpSync
=============================================================================
