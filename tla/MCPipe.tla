------------------------------- MODULE MCPipe -------------------------------
(* The instances of Pipe that TLC checks. *)
EXTENDS Pipe, TLC

Symm == Permutations(Reader) \cup Permutations(Writer) \cup Permutations(Byte)
=============================================================================
