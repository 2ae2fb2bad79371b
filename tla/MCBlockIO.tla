------------------------------ MODULE MCBlockIO ------------------------------
(* BlockIO for TLC. *)
EXTENDS BlockIO, TLC

(* Request addresses are interchangeable. *)
PtrSymmetry == Permutations(Ptrs)

=============================================================================
