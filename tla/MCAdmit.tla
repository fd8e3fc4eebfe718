------------------------------- MODULE MCAdmit -------------------------------
(***************************************************************************)
(* Small instances of both admission buckets.  They share no variable, so  *)
(* a behaviour looks at the one that gates it: the userspace bucket, or    *)
(* the bucket in the kernel map.                                           *)
(***************************************************************************)
EXTENDS AdmitBucket, XdpAdmit, TLC

VARIABLE gate

admitVars == <<gate, vars, xdpVars>>

AdmitInit == gate \in {"userspace", "kernel"} /\ Init /\ XdpInit

AdmitNext ==
  \/ gate = "userspace" /\ Next /\ UNCHANGED <<gate, xdpVars>>
  \/ gate = "kernel" /\ XdpNext /\ UNCHANGED <<gate, vars>>

AdmitSpec == AdmitInit /\ [][AdmitNext]_admitVars

Symmetry == Permutations(Conns) \union Permutations(Cpus)
=============================================================================
