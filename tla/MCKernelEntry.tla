--------------------------- MODULE MCKernelEntry ---------------------------
(***************************************************************************)
(* KernelEntry for TLC: tasks are interchangeable, and so are values.      *)
(***************************************************************************)
EXTENDS KernelEntry, TLC

Symmetry == Permutations(Task) \cup Permutations(Value)
=============================================================================
