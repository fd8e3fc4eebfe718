------------------------------- MODULE XdpAdmit ------------------------------
(***************************************************************************)
(* The kernel admission bucket (bpf/admit_shed.bpf.c): xdp_admit_shed runs *)
(* on several CPUs at once over one shared map value, each access of which *)
(* is a step of its own, while userspace (xdp_linux.rs) may reseed the map *)
(* value word by word under the running program.                           *)
(*                                                                         *)
(* Only packets that demi_gated_syn selects are modelled; all others pass  *)
(* without touching the map.                                               *)
(***************************************************************************)
EXTENDS Integers, FiniteSets

CONSTANTS
  Cpus,          \* CPUs that run the program
  Capacity,      \* XdpAdmitConfig.capacity
  RefillPerSec,  \* XdpAdmitConfig.refill_per_sec, 0 to disable refill
  Second,        \* clock ticks per second (1000000000 in the code)
  MapSeeds,         \* capacities reseed is called with, zero included
  MaxTime,       \* bound on the clock
  MaxSyns,       \* bound on the gated packets that arrive
  MaxMapReseeds     \* bound on calls of reseed

ASSUME XdpAssumption ==
  /\ IsFiniteSet(Cpus)
  /\ Capacity \in Nat /\ RefillPerSec \in Nat /\ Second \in Nat \ {0}
  /\ MapSeeds \subseteq Nat
  /\ MaxTime \in Nat /\ MaxSyns \in Nat /\ MaxMapReseeds \in Nat

VARIABLES
  map_tokens, map_capacity, map_last_refill,  \* the shared map value
  xdp_pass_total, xdp_shed_total,         \* the per-CPU statistics, summed
  cpu,      \* per CPU: where the program is, and its locals
  now,      \* bpf_ktime_get_ns, which is userspace's CLOCK_MONOTONIC
  writer,   \* where userspace is in reseed, with the value it writes
  map_reseeds   \* calls of reseed so far

xdpVars == <<map_tokens, map_capacity, map_last_refill, xdp_pass_total, xdp_shed_total, cpu, now,
          writer, map_reseeds>>

Clamped(n) == IF n < 1 THEN 1 ELSE n

Smaller(a, b) == IF a < b THEN a ELSE b

(* 1e9 / rate, at least 1. *)
NsPerToken == Clamped(Second \div RefillPerSec)

(* seen: last_refill_ns, later the capacity; credit: `accrued`, then `add`. *)
Frame == [at : {"idle", "refill", "clock", "cas", "capacity", "room", "add", "take",
                "compensate"},
          seen : Nat, credit : Nat]

At(label) == [at |-> label, seen |-> 0, credit |-> 0]

XdpTypeOK ==
  /\ map_tokens \in Int /\ map_capacity \in Nat \ {0} /\ map_last_refill \in Nat
  /\ xdp_pass_total \in Nat /\ xdp_shed_total \in Nat /\ now \in Nat /\ map_reseeds \in Nat
  /\ cpu \in [Cpus -> Frame]
  /\ writer \in [at : {"idle", "tokens", "capacity", "last"}, cap : Nat, stamp : Nat]

(* seed_admit_state, before the program is attached. *)
XdpInit ==
  /\ map_capacity = Clamped(Capacity)
  /\ map_tokens = map_capacity
  /\ map_last_refill = 0
  /\ xdp_pass_total = 0 /\ xdp_shed_total = 0 /\ now = 0 /\ map_reseeds = 0
  /\ cpu = [c \in Cpus |-> At("idle")]
  /\ writer = [at |-> "idle", cap |-> 0, stamp |-> 0]

Tick ==
  /\ now < MaxTime
  /\ now' = now + 1
  /\ UNCHANGED <<map_tokens, map_capacity, map_last_refill, xdp_pass_total, xdp_shed_total, cpu,
                 writer, map_reseeds>>

----------------------------------------------------------------------------
(* A step of the program on CPU c, from one label to the frame of the next. *)
Step(c, label, frame) ==
  /\ cpu[c].at = label
  /\ cpu' = [cpu EXCEPT ![c] = frame]
  /\ UNCHANGED <<map_capacity, now, writer, map_reseeds>>

(* admit_or_shed *)
Syn(c) ==
  /\ xdp_pass_total + xdp_shed_total + Cardinality({d \in Cpus : cpu[d].at # "idle"}) < MaxSyns
  /\ Step(c, "idle", At(IF RefillPerSec = 0 THEN "take" ELSE "refill"))
  /\ UNCHANGED <<map_tokens, map_last_refill, xdp_pass_total, xdp_shed_total>>

Admit(c) ==
  /\ Step(c, "take", At("idle"))
  /\ map_tokens > 0
  /\ map_tokens' = map_tokens - 1
  /\ xdp_pass_total' = xdp_pass_total + 1
  /\ UNCHANGED <<map_last_refill, xdp_shed_total>>

(* Mutant: the shed path does not put its token back. *)
TakeForgets(c) ==
  /\ Step(c, "take", At("idle"))
  /\ map_tokens <= 0
  /\ map_tokens' = map_tokens - 1
  /\ UNCHANGED <<map_last_refill, xdp_pass_total, xdp_shed_total>>

TakeFromEmpty(c) ==
  /\ Step(c, "take", At("compensate"))
  /\ map_tokens <= 0
  /\ map_tokens' = map_tokens - 1
  /\ UNCHANGED <<map_last_refill, xdp_pass_total, xdp_shed_total>>

Compensate(c) ==
  /\ Step(c, "compensate", At("idle"))
  /\ map_tokens' = map_tokens + 1
  /\ xdp_shed_total' = xdp_shed_total + 1
  /\ UNCHANGED <<map_last_refill, xdp_pass_total>>

----------------------------------------------------------------------------
(* demi_maybe_refill, one step for each word it reads or writes. *)

RefillLast(c) ==
  /\ Step(c, "refill", [At("clock") EXCEPT !.seen = map_last_refill])
  /\ UNCHANGED <<map_tokens, map_last_refill, xdp_pass_total, xdp_shed_total>>

Accrued(last) == IF now <= last THEN 0 ELSE (now - last) \div NsPerToken

Accrue(c) ==
  /\ Step(c, "clock",
       IF Accrued(cpu[c].seen) = 0 THEN At("take")
       ELSE [cpu[c] EXCEPT !.at = "cas", !.credit = Accrued(cpu[c].seen)])
  /\ UNCHANGED <<map_tokens, map_last_refill, xdp_pass_total, xdp_shed_total>>

(* Mutant: last_refill_ns is stored without comparing. *)
RefillStore(c) ==
  /\ Step(c, "cas", [At("capacity") EXCEPT !.credit = cpu[c].credit])
  /\ map_last_refill' = cpu[c].seen + cpu[c].credit * NsPerToken
  /\ UNCHANGED <<map_tokens, xdp_pass_total, xdp_shed_total>>

RefillCas(c) ==
  /\ Step(c, "cas", [At("capacity") EXCEPT !.credit = cpu[c].credit])
  /\ map_last_refill = cpu[c].seen
  /\ map_last_refill' = cpu[c].seen + cpu[c].credit * NsPerToken
  /\ UNCHANGED <<map_tokens, xdp_pass_total, xdp_shed_total>>

RefillCasLost(c) ==
  /\ Step(c, "cas", At("take"))
  /\ map_last_refill # cpu[c].seen
  /\ UNCHANGED <<map_tokens, map_last_refill, xdp_pass_total, xdp_shed_total>>

RefillCapacity(c) ==
  /\ Step(c, "capacity", [cpu[c] EXCEPT !.at = "room", !.seen = map_capacity])
  /\ UNCHANGED <<map_tokens, map_last_refill, xdp_pass_total, xdp_shed_total>>

RefillRoom(c) ==
  /\ LET room == cpu[c].seen - map_tokens IN
     Step(c, "room",
       IF room <= 0 THEN At("take")
       ELSE [At("add") EXCEPT !.credit = Smaller(cpu[c].credit, room)])
  /\ UNCHANGED <<map_tokens, map_last_refill, xdp_pass_total, xdp_shed_total>>

RefillAdd(c) ==
  /\ Step(c, "add", At("take"))
  /\ map_tokens' = map_tokens + cpu[c].credit
  /\ UNCHANGED <<map_last_refill, xdp_pass_total, xdp_shed_total>>

----------------------------------------------------------------------------
(* reseed_admit_state: read the clock, then write the value word by word.  *)
(* The words it preserves, refill_per_sec and listen_port, never change.   *)

Reseed(cap) ==
  /\ writer.at = "idle"
  /\ map_reseeds < MaxMapReseeds
  /\ writer' = [at |-> "tokens", cap |-> Clamped(cap), stamp |-> now]
  /\ map_reseeds' = map_reseeds + 1
  /\ UNCHANGED <<map_tokens, map_capacity, map_last_refill, xdp_pass_total, xdp_shed_total, cpu, now>>

WriteTokens ==
  /\ writer.at = "tokens"
  /\ map_tokens' = writer.cap
  /\ writer' = [writer EXCEPT !.at = "capacity"]
  /\ UNCHANGED <<map_capacity, map_last_refill, xdp_pass_total, xdp_shed_total, cpu, now, map_reseeds>>

WriteCapacity ==
  /\ writer.at = "capacity"
  /\ map_capacity' = writer.cap
  /\ writer' = [writer EXCEPT !.at = "last"]
  /\ UNCHANGED <<map_tokens, map_last_refill, xdp_pass_total, xdp_shed_total, cpu, now, map_reseeds>>

WriteLast ==
  /\ writer.at = "last"
  /\ map_last_refill' = writer.stamp
  /\ writer' = [at |-> "idle", cap |-> 0, stamp |-> 0]
  /\ UNCHANGED <<map_tokens, map_capacity, xdp_pass_total, xdp_shed_total, cpu, now, map_reseeds>>

XdpNext ==
  \/ Tick
  \/ \E c \in Cpus :
       \/ Syn(c) \/ Admit(c) \/ TakeFromEmpty(c) \/ Compensate(c)
       \/ RefillLast(c) \/ Accrue(c) \/ RefillCas(c) \/ RefillCasLost(c)
       \/ RefillCapacity(c) \/ RefillRoom(c) \/ RefillAdd(c)
  \/ \E cap \in MapSeeds : Reseed(cap)
  \/ WriteTokens \/ WriteCapacity \/ WriteLast

XdpSpec == XdpInit /\ [][XdpNext]_xdpVars

----------------------------------------------------------------------------
(* The rate limit: whatever CPUs race in refill and take, the SYNs let     *)
(* through never exceed one burst plus the whole tokens of the time that   *)
(* has been credited.  No time is credited before it has passed, not even  *)
(* when a reseed writes the time it read earlier, so refill never stalls.  *)
RateLimit ==
  /\ map_reseeds = 0 =>
       xdp_pass_total * NsPerToken <= Clamped(Capacity) * NsPerToken + map_last_refill
  /\ map_last_refill <= now

(* The dip below zero is bounded by the CPUs that still have to compensate *)
(* (so the signed counter cannot wrap), also while userspace overwrites it.*)
DipBound ==
  map_tokens >= 0 - Cardinality({c \in Cpus : cpu[c].at = "compensate"})

(* admit_shed.bpf.c: the racy clamp makes the refill "never over-fill past *)
(* capacity plus one in-flight quantum".  A quantum's credit is clamped to *)
(* the room, which is at most the capacity and the other CPUs' dips.       *)
OverfillOneQuantum ==
  map_reseeds = 0 => map_tokens <= 2 * map_capacity + (Cardinality(Cpus) - 1)
=============================================================================
