--------------------------- MODULE MCRequestFlow -----------------------------
(* Small instances of RequestFlow for TLC. *)
EXTENDS RequestFlow, TLC

Symmetry == Permutations(Handlers)
=============================================================================
