----------------------------- MODULE MCPageTable -----------------------------
(***************************************************************************)
(* Two intermediate levels of two entries each: one half of the root for   *)
(* the user, one for the kernel.                                           *)
(***************************************************************************)
EXTENDS PageTable, TLC

MCIndex == {0, 1}
MCKernelIndex == {1}
MCUserPage == {<<0, 0, 0>>, <<0, 0, 1>>, <<0, 1, 0>>}
MCImagePage == {<<1, 1, 1>>}
MCStackPage == {<<1, 0, 0>>, <<1, 1, 0>>}

\* The user spaces are interchangeable.
Symmetry == Permutations(Users)
==============================================================================
