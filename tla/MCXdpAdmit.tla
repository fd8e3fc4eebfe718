----------------------------- MODULE MCXdpAdmit ------------------------------
(* Small instances of XdpAdmit for TLC. *)
EXTENDS XdpAdmit, TLC

Symmetry == Permutations(Cpus)
=============================================================================
