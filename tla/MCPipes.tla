------------------------------ MODULE MCPipes ------------------------------
(***************************************************************************)
(* Pipes for TLC: three processes, one slot (so that it is used again),    *)
(* two descriptors each, a ring of four bytes.                             *)
(***************************************************************************)
EXTENDS Pipes, TLC

CONSTANTS p1, p2, p3

MCProc == {p1, p2, p3}
Two == {p1, p2}
OnePipe == {0}
Symmetry == Permutations(MCProc)
=============================================================================
