------------------------------- MODULE MCProc -------------------------------
(* The instances of Proc that TLC checks. *)
EXTENDS Proc, TLC

Symm == Permutations(CPU)
=============================================================================
