---------------------------- MODULE MCFsHandles -----------------------------
(* FsHandles with interchangeable File objects, handles and objects.       *)
EXTENDS FsHandles, TLC

Symmetry == Permutations(Slots) \cup Permutations(Handles) \cup Permutations(Objects)
=============================================================================
