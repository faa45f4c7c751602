------------------------------ MODULE MCFdTable ------------------------------
(* FdTable with interchangeable threads and descriptors.                   *)
EXTENDS FdTable, TLC

Symmetry == Permutations(Thread) \cup Permutations(Fd)
=============================================================================
