------------------------------ MODULE CostModel ------------------------------
(***************************************************************************)
(* The cost surface of placement (demiurge-cost).  A cost is kept as its   *)
(* logarithm, as in the code, in tenths: Ln is a table of ten times the    *)
(* natural logarithm.  A broken number (not finite, or out of its range)   *)
(* is 0 here.                                                              *)
(***************************************************************************)
EXTENDS Integers, Sequences

CONSTANTS
  MaxBarriers,  \* MAX_SERVICE_BARRIERS
  LnTable       \* ten times the logarithms of 1, 2, 3 ...

LnMax == 7098  \* of f64::MAX
LnTop == 1000  \* above that of any count, and of any time in seconds

(* The queue, memory and transfer barriers have room, and seconds and      *)
(* counts are far below f64::MAX.                                          *)
ASSUME CostAssumption ==
  /\ MaxBarriers \in Nat /\ MaxBarriers >= 3
  /\ LnTable \in Seq(Nat) /\ Len(LnTable) >= 10 /\ LnTable[1] = 0
  /\ \A i, j \in 1..Len(LnTable) : i <= j => LnTable[i] <= LnTable[j]
  /\ \A i \in 1..Len(LnTable) : LnTable[i] <= LnTop

Lesser(a, b) == IF a < b THEN a ELSE b
Greater(a, b) == IF a > b THEN a ELSE b

(* A number beyond the table has the logarithm of its last. *)
Ln(n) == LnTable[Lesser(n, Len(LnTable))]

(* The sum of a sequence, from the left. *)
Sums(s) == LET sum[k \in 0..Len(s)] == IF k = 0 THEN 0 ELSE sum[k - 1] + s[k] IN sum
Sum(s) == Sums(s)[Len(s)]

(* TimeCore::clamped over a core that was scaled: the product of a broken  *)
(* core may be infinite.                                                   *)
TimeCore(ln) == Lesser(ln, LnMax)

(* BarrierFactor::clamped and Discount::clamped: a broken penalty is the   *)
(* largest, a broken reward is none.                                       *)
BarrierFactor(x) == IF x >= 1 THEN Ln(x) ELSE LnMax
Discount(ln) == IF ln <= 0 THEN ln ELSE 0

append_barriers_fail_expensive(buf, extras) ==
  LET all == buf \o extras IN
    IF Len(all) <= MaxBarriers THEN all ELSE SubSeq(all, 1, MaxBarriers - 1) \o <<LnMax>>

compose(core, barriers, discounts) == core + Sum(barriers) + Sum(discounts)

queue_ln(inflight) == Ln(1 + inflight)

service_cost(core, inflight, extras, discounts) ==
  compose(TimeCore(core), append_barriers_fail_expensive(<<queue_ln(inflight)>>, extras), discounts)

(* warmth_discount: strength in halves, WARMTH_MAX_DISCOUNT 0.85. *)
warmth_discount(strength) ==
  IF strength <= 0 THEN <<>> ELSE <<Discount(IF strength = 1 THEN -6 ELSE -19)>>

(* pool_core_scale: the capacity share in tenths, of which 0.05 .. 0.95    *)
(* leaves 1 .. 9.                                                          *)
pool_core_scale(pi, prefill) ==
  LET p == Greater(1, Lesser(pi, 9)) IN IF prefill THEN Ln(10 - p) - Ln(p) ELSE Ln(p) - Ln(10 - p)

(* phi_barrier of the fleet's reserved tenths of the capacity, soft-capped *)
(* at 0.999: finite however full the pool is.                              *)
phi_barrier(reserved, capacity) ==
  IF capacity = 0 THEN BarrierFactor(0) ELSE IF reserved >= 10 THEN 69 ELSE Ln(10) - Ln(10 - reserved)

----------------------------------------------------------------------------
(* Topology distance and predicted transfer, in microseconds. *)

rdma_distance(a, b) ==
  IF a.node = b.node THEN 0
  ELSE IF a.cluster # b.cluster THEN 10
  ELSE IF a.rack = b.rack THEN 1 ELSE 2

base_latency_us(d) == CASE d = 0 -> 5 [] d = 1 -> 15 [] d = 2 -> 40 [] OTHER -> 500

(* The link moves 25000 bytes in a microsecond; sizes are in such units. *)
rdma_transfer_us(units, d) == base_latency_us(d) + units

(* The penalty of a decode candidate away from its prefill, as a logarithm: *)
(* the predicted seconds, and never below one.                              *)
rdma_penalty(units, a, b) ==
  LET s == rdma_transfer_us(units, rdma_distance(a, b)) \div 1000000 IN Ln(Greater(1, s))

ROUTING_TRANSFER_PENALTY == 1
=============================================================================
