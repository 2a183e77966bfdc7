------------------------------ MODULE MCFibre -------------------------------
(***************************************************************************)
(* Instances of Fibre for TLC: which services the fibres and the main loop *)
(* use in each, besides what interrupt handlers do.                        *)
(***************************************************************************)
EXTENDS Fibre, TLC

AllCalls == {"run", "kill", "atomic", "timeout"}
Timed == {"timeout", "run"}
Runs == {"run"}

Normally == {"YIELDED", "WAITING"}

FibreSymmetry == Permutations(Fibres)
=============================================================================
