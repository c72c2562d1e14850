----------------------------- MODULE MCMemory ------------------------------
(* Memory for TLC: twenty-one pages, of which the first, the kernel image,  *)
(* the staged file system, one page table and a firmware region are not     *)
(* to be used; one block of order two, five of order zero or one.           *)
EXTENDS Memory

MCRegions == << [free |-> TRUE, start |-> 0, pages |-> 6],
                [free |-> FALSE, start |-> 6, pages |-> 1],
                [free |-> TRUE, start |-> 7, pages |-> 14] >>
MCWindows == << <<2, 3>>, <<18, 21>> >>
MCHoles == <<9>>
=============================================================================
