---------------------------- MODULE MCWhpQueue ----------------------------
(* Instances of WhpQueue for TLC. *)
EXTENDS WhpQueue
=============================================================================
