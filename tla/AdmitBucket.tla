----------------------------- MODULE AdmitBucket -----------------------------
(***************************************************************************)
(* The userspace admission bucket (demiurge-dataplane, AdmitBucket) at the *)
(* grain of its atomic operations, with the connections that take a token  *)
(* in handle_conn and give it back when their AdmitGuard is dropped, and   *)
(* the control plane that reseeds it when the pool ratio moves.            *)
(*                                                                         *)
(* compare_exchange_weak may fail although the value matches, so every     *)
(* exchange has a spurious way back to its load.                           *)
(***************************************************************************)
EXTENDS Integers, FiniteSets

CONSTANTS
  Conns,       \* connections, one at a time per worker thread
  Reseeders,   \* threads that call reseed
  Seeds,       \* capacities reseed is called with, zero included
  BaseBurst,   \* capacity the bucket is created with
  MaxShed,     \* bound: connections stop arriving after this many sheds
  MaxReseeds   \* bound on calls of reseed

ASSUME BucketAssumption ==
  /\ IsFiniteSet(Conns) /\ IsFiniteSet(Reseeders)
  /\ BaseBurst \in Nat /\ MaxShed \in Nat /\ MaxReseeds \in Nat
  /\ Seeds \subseteq Nat
  /\ \E most \in Seeds : \A seed \in Seeds : seed <= most   \* u64

VARIABLES
  tokens, capacity, shed_total,
  pc,       \* where each connection is in try_admit and release
  cur,      \* the value of tokens each connection loaded last
  cap,      \* the value of capacity each connection loaded last
  seeding,  \* capacity a reseeder has stored and not yet put into tokens, or 0
  reseeds   \* calls of reseed so far

vars == <<tokens, capacity, shed_total, pc, cur, cap, seeding, reseeds>>

(* Mutant: no clamp of a zero capacity. *)
Unclamped(n) == n

AtLeastOne(n) == IF n < 1 THEN 1 ELSE n

Lesser(a, b) == IF a < b THEN a ELSE b

(* A connection is admitted from the exchange that took its token to the   *)
(* exchange that gives it back.                                            *)
HoldingStates == {"held", "release_load", "release_cap", "release_cas"}

Held == {c \in Conns : pc[c] \in HoldingStates}

TypeOK ==
  /\ tokens \in Nat /\ capacity \in Nat \ {0} /\ shed_total \in Nat
  /\ pc \in [Conns -> {"idle", "admit_load", "admit_cas"} \union HoldingStates]
  /\ cur \in [Conns -> Nat]
  /\ cap \in [Conns -> Nat]
  /\ seeding \in [Reseeders -> Nat]
  /\ reseeds \in Nat
  /\ \A c \in Conns : pc[c] = "admit_cas" => cur[c] # 0

Init ==
  /\ capacity = AtLeastOne(BaseBurst)
  /\ tokens = capacity
  /\ shed_total = 0
  /\ pc = [c \in Conns |-> "idle"]
  /\ cur = [c \in Conns |-> 0]
  /\ cap = [c \in Conns |-> 0]
  /\ seeding = [r \in Reseeders |-> 0]
  /\ reseeds = 0

----------------------------------------------------------------------------
(* try_admit *)

Arrive(c) ==
  /\ pc[c] = "idle"
  /\ shed_total < MaxShed
  /\ pc' = [pc EXCEPT ![c] = "admit_load"]
  /\ UNCHANGED <<tokens, capacity, shed_total, cur, cap, seeding, reseeds>>

AdmitLoad(c) ==
  /\ pc[c] = "admit_load"
  /\ tokens # 0
  /\ cur' = [cur EXCEPT ![c] = tokens]
  /\ pc' = [pc EXCEPT ![c] = "admit_cas"]
  /\ UNCHANGED <<tokens, capacity, shed_total, cap, seeding, reseeds>>

Shed(c) ==
  /\ pc[c] = "admit_load"
  /\ tokens = 0
  /\ shed_total' = shed_total + 1
  /\ pc' = [pc EXCEPT ![c] = "idle"]
  /\ UNCHANGED <<tokens, capacity, cur, cap, seeding, reseeds>>

AdmitCas(c) ==
  /\ pc[c] = "admit_cas"
  /\ tokens = cur[c]
  /\ tokens' = cur[c] - 1
  /\ pc' = [pc EXCEPT ![c] = "held"]
  /\ cur' = [cur EXCEPT ![c] = 0]
  /\ UNCHANGED <<capacity, shed_total, cap, seeding, reseeds>>

AdmitCasFails(c) ==
  /\ pc[c] = "admit_cas"
  /\ pc' = [pc EXCEPT ![c] = "admit_load"]
  /\ cur' = [cur EXCEPT ![c] = 0]
  /\ UNCHANGED <<tokens, capacity, shed_total, cap, seeding, reseeds>>

----------------------------------------------------------------------------
(* release(1), from the drop of the connection's AdmitGuard *)

Finish(c) ==
  /\ pc[c] = "held"
  /\ pc' = [pc EXCEPT ![c] = "release_load"]
  /\ UNCHANGED <<tokens, capacity, shed_total, cur, cap, seeding, reseeds>>

ReleaseLoad(c) ==
  /\ pc[c] = "release_load"
  /\ cur' = [cur EXCEPT ![c] = tokens]
  /\ pc' = [pc EXCEPT ![c] = "release_cap"]
  /\ UNCHANGED <<tokens, capacity, shed_total, cap, seeding, reseeds>>

ReleaseLoadCap(c) ==
  /\ pc[c] = "release_cap"
  /\ cap' = [cap EXCEPT ![c] = capacity]
  /\ pc' = [pc EXCEPT ![c] = "release_cas"]
  /\ UNCHANGED <<tokens, capacity, shed_total, cur, seeding, reseeds>>

(* Mutant: a plain store instead of the exchange. *)
ReleaseStore(c) ==
  /\ pc[c] = "release_cas"
  /\ tokens' = Lesser(cur[c] + 1, cap[c])
  /\ pc' = [pc EXCEPT ![c] = "idle"]
  /\ cur' = [cur EXCEPT ![c] = 0]
  /\ cap' = [cap EXCEPT ![c] = 0]
  /\ UNCHANGED <<capacity, shed_total, seeding, reseeds>>

ReleaseCas(c) ==
  /\ pc[c] = "release_cas"
  /\ tokens = cur[c]
  /\ tokens' = Lesser(cur[c] + 1, cap[c])
  /\ pc' = [pc EXCEPT ![c] = "idle"]
  /\ cur' = [cur EXCEPT ![c] = 0]
  /\ cap' = [cap EXCEPT ![c] = 0]
  /\ UNCHANGED <<capacity, shed_total, seeding, reseeds>>

ReleaseCasFails(c) ==
  /\ pc[c] = "release_cas"
  /\ pc' = [pc EXCEPT ![c] = "release_load"]
  /\ cur' = [cur EXCEPT ![c] = 0]
  /\ cap' = [cap EXCEPT ![c] = 0]
  /\ UNCHANGED <<tokens, capacity, shed_total, seeding, reseeds>>

----------------------------------------------------------------------------
(* reseed: two separate stores *)

ReseedCapacity(r, seed) ==
  /\ seeding[r] = 0
  /\ reseeds < MaxReseeds
  /\ capacity' = AtLeastOne(seed)
  /\ seeding' = [seeding EXCEPT ![r] = AtLeastOne(seed)]
  /\ reseeds' = reseeds + 1
  /\ UNCHANGED <<tokens, shed_total, pc, cur, cap>>

ReseedTokens(r) ==
  /\ seeding[r] # 0
  /\ tokens' = seeding[r]
  /\ seeding' = [seeding EXCEPT ![r] = 0]
  /\ UNCHANGED <<capacity, shed_total, pc, cur, cap, reseeds>>

Next ==
  \/ \E c \in Conns :
       \/ Arrive(c) \/ AdmitLoad(c) \/ Shed(c) \/ AdmitCas(c) \/ AdmitCasFails(c)
       \/ Finish(c) \/ ReleaseLoad(c) \/ ReleaseLoadCap(c)
       \/ ReleaseCas(c) \/ ReleaseCasFails(c)
  \/ \E r \in Reseeders : ReseedTokens(r) \/ \E seed \in Seeds : ReseedCapacity(r, seed)

Spec == Init /\ [][Next]_vars

----------------------------------------------------------------------------
(* Until the first reseed, no token is lost or made up by any interleaving  *)
(* of loads and exchanges: the tokens left and the connections admitted    *)
(* always add up to the capacity, so at most `capacity` are admitted.      *)
Conservation ==
  reseeds = 0 => tokens + Cardinality(Held) = capacity

(* Until the first reseed, try_admit sheds only when every token is out: a  *)
(* release that is half done has not been forgotten.                       *)
NoEarlyShed ==
  [][reseeds = 0 /\ shed_total' # shed_total
       => Cardinality(Held) = capacity]_vars

(* The bucket never wedges shut, reseeds included: if it is empty, some    *)
(* admitted connection is going to put a token back.                       *)
NotWedged == tokens = 0 => Held # {}

(* What a reseed costs: it hands out a full bucket on top of the tokens    *)
(* still held, so each one can raise the number of admitted connections by *)
(* one capacity, and nothing else can.                                     *)
OverAdmitBound ==
  \E most \in {AtLeastOne(seed) : seed \in Seeds} :
    /\ \A seed \in Seeds : AtLeastOne(seed) <= most
    /\ tokens + Cardinality(Held) <= AtLeastOne(BaseBurst) + reseeds * most

(* admission.rs: "Return tokens up to capacity (e.g. after request         *)
(* completes)".  Outside a reseed the bucket holds at most its capacity.   *)
ReleaseUpToCapacity ==
  (\A r \in Reseeders : seeding[r] = 0) => tokens <= capacity
=============================================================================
