---------------------------- MODULE MCOs2Sesmgr ----------------------------
(* Instances of Os2Sesmgr for TLC. *)
EXTENDS Os2Sesmgr, TLC

\* Process ids are only compared.
PidSymmetry == Permutations(OsPids)

\* Two threads of the first process, one of the second.
TwoAndOne == {<<1, 1>>, <<1, 2>>, <<2, 1>>}
=============================================================================
