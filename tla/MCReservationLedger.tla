------------------------ MODULE MCReservationLedger -------------------------
(* Small instances of ReservationLedger for TLC. *)
EXTENDS ReservationLedger, TLC

Symmetry == Permutations(Holders) \union Permutations(Reusable)
              \union Permutations(RequestIds \ Reusable)
              \union Permutations(Sources) \union Permutations(Sweepers)
=============================================================================
