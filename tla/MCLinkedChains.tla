--------------------------- MODULE MCLinkedChains ---------------------------
(* LinkedChains for TLC. *)
EXTENDS LinkedChains

Symmetric == Permutations(Elements)

=============================================================================
