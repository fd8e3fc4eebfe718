---------------------------- MODULE MCAdmitBucket ----------------------------
(* Small instances of AdmitBucket for TLC. *)
EXTENDS AdmitBucket, TLC

Symmetry == Permutations(Conns)
=============================================================================
