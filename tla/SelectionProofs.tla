-------------------------- MODULE SelectionProofs ---------------------------
(***************************************************************************)
(* Proofs about Selection and the costs of CostModel, for any pools, any   *)
(* number of requests and any logarithm table: what a scan chooses while   *)
(* others change what it reads, what the averages show, and what a sample  *)
(* of the pairing monitor shows.                                           *)
(***************************************************************************)
EXTENDS Selection, FiniteSetTheorems, TLAPS

LEMMA LeastNat ==
  ASSUME NEW T, T \subseteq Nat, T # {}
  PROVE  \E x \in T : \A y \in T : x <= y
<1> DEFINE R == OpToRel(<, Nat)
<1>1. IsWellFoundedOn(R, Nat)
  BY NatLessThanWellFounded, Zenon
<1>2. \A y, x \in Nat : y < x => <<y, x>> \in R
  BY Zenon DEF OpToRel
<1> HIDE DEF R
<1>3. PICK x \in T : \A y \in T : ~(<<y, x>> \in R)
  BY <1>1, WFMin, Zenon
<1>4. ASSUME NEW y \in T PROVE x <= y
  <2>1. ~(y < x)
    BY <1>2, <1>3, Zenon
  <2> QED
    BY <2>1
<1> QED
  BY <1>4, Zenon

----------------------------------------------------------------------------
(* Logarithms, sums and averages. *)

LEMMA TopIsInt == LnTop \in Nat
  BY DEF LnTop

(* A logarithm is in the table and grows with its number. *)
LEMMA LnBounds ==
  ASSUME NEW n \in Nat, n >= 1
  PROVE  Ln(n) \in Nat /\ Ln(n) <= LnTop
<1> DEFINE i == Lesser(n, Len(LnTable))
<1>1. Len(LnTable) \in Nat /\ Len(LnTable) >= 10
  BY CostAssumption
<1>2. i \in 1..Len(LnTable)
  BY <1>1 DEF Lesser
<1> HIDE DEF i
<1>3. LnTable[i] \in Nat /\ LnTable[i] <= LnTop
  BY <1>2, CostAssumption, SMTT(30)
<1> QED
  BY <1>3, Zenon DEF Ln, i

LEMMA LnGrows ==
  ASSUME NEW m \in Nat, NEW n \in Nat, 1 <= m, m <= n
  PROVE  Ln(m) <= Ln(n)
<1>1. /\ Lesser(m, Len(LnTable)) \in 1..Len(LnTable)
      /\ Lesser(n, Len(LnTable)) \in 1..Len(LnTable)
      /\ Lesser(m, Len(LnTable)) <= Lesser(n, Len(LnTable))
  BY CostAssumption, SMTT(30) DEF Lesser
<1> QED
  BY <1>1, CostAssumption, Zenon DEF Ln

(* A capacity share moves a cost by a bounded factor, an even one not at all. *)
LEMMA ScaleBounds ==
  ASSUME NEW pi \in Nat, NEW prefill
  PROVE  LET scale == pool_core_scale(pi, prefill)
         IN  scale \in Int /\ -LnTop <= scale /\ scale <= LnTop
<1> DEFINE p == Greater(1, Lesser(pi, 9))
<1>1. p \in Nat /\ 1 <= p /\ 10 - p \in Nat /\ 1 <= 10 - p
  BY DEF Greater, Lesser
<1> DEFINE a == Ln(p)
<1> DEFINE b == Ln(10 - p)
<1>3. pool_core_scale(pi, prefill) = b - a \/ pool_core_scale(pi, prefill) = a - b
  BY Zenon DEF pool_core_scale
<1> HIDE DEF p
<1>2. a \in Nat /\ b \in Nat /\ a <= LnTop /\ b <= LnTop
  BY <1>1, LnBounds, Zenon
<1> HIDE DEF a, b
<1> QED
  BY <1>2, <1>3, TopIsInt

LEMMA ScaleEven ==
  ASSUME NEW prefill
  PROVE  pool_core_scale(5, prefill) = 0
<1>1. Greater(1, Lesser(5, 9)) = 5 /\ 10 - 5 = 5
  BY DEF Greater, Lesser
<1> DEFINE a == Ln(5)
<1>2. a \in Nat
  BY LnBounds
<1>3. pool_core_scale(5, prefill) = a - a
  BY <1>1, Zenon DEF pool_core_scale
<1> HIDE DEF a
<1> QED
  BY <1>2, <1>3

(* A function that adds up a sequence from the left gives its sum. *)
LEMMA SumIs ==
  ASSUME NEW s \in Seq(Int), NEW g \in [0..Len(s) -> Int], g[0] = 0,
         \A k \in 1..Len(s) : g[k] = g[k - 1] + s[k]
  PROVE  Sum(s) = g[Len(s)]
<1> DEFINE Steps(f) == f = [k \in 0..Len(s) |-> IF k = 0 THEN 0 ELSE f[k - 1] + s[k]]
<1>1. Steps(g)
  <2>1. \A k \in 0..Len(s) : g[k] = IF k = 0 THEN 0 ELSE g[k - 1] + s[k]
    OBVIOUS
  <2> QED
    BY <2>1, Zenon
<1>2. Sums(s) = CHOOSE f : Steps(f)
  BY Zenon DEF Sums
<1> HIDE DEF Steps
<1>3. Steps(Sums(s))
  BY <1>1, <1>2, Zenon
<1> DEFINE h == Sums(s)
<1>4. h[0] = 0 /\ \A k \in 1..Len(s) : h[k] = h[k - 1] + s[k]
  <2>1. h = [k \in 0..Len(s) |-> IF k = 0 THEN 0 ELSE h[k - 1] + s[k]]
    BY <1>3, Zenon DEF Steps
  <2> HIDE DEF h
  <2>2. Len(s) \in Nat
    OBVIOUS
  <2>3. \A k \in 0..Len(s) : h[k] = IF k = 0 THEN 0 ELSE h[k - 1] + s[k]
    BY <2>1, Zenon
  <2> QED
    BY <2>2, <2>3
<1> DEFINE bad == {k \in 0..Len(s) : h[k] # g[k]}
<1> HIDE DEF h
<1>5. bad = {}
  <2> SUFFICES ASSUME bad # {} PROVE FALSE
    BY Zenon
  <2>1. PICK k \in bad : \A i \in bad : k <= i
    BY LeastNat, bad \subseteq Nat, Zenon
  <2>2. k # 0
    BY <1>4, Zenon
  <2>3. k - 1 \in 0..Len(s) /\ k - 1 \notin bad
    <3>1. k \in 0..Len(s) /\ Len(s) \in Nat
      OBVIOUS
    <3> HIDE DEF bad
    <3>2. k - 1 \in 0..Len(s) /\ ~(k <= k - 1)
      BY <2>2, <3>1
    <3> QED
      BY <2>1, <3>2, Zenon
  <2> QED
    BY <1>4, <2>1, <2>2, <2>3, SMTT(30)
<1> QED
  BY <1>5, SMTT(30) DEF Sum, h

LEMMA SumNone == Sum(<<>>) = 0
<1>1. <<>> \in Seq(Int) /\ Len(<<>>) = 0
  OBVIOUS
<1> DEFINE g == [k \in 0..0 |-> 0]
<1>2. g \in [0..0 -> Int] /\ g[0] = 0
  OBVIOUS
<1> HIDE DEF g
<1>3. Sum(<<>>) = g[Len(<<>>)]
  <2>1. \A k \in 1..Len(<<>>) : g[k] = g[k - 1] + <<>>[k]
    BY <1>1
  <2>2. g \in [0..Len(<<>>) -> Int]
    BY <1>1, <1>2, Zenon
  <2> QED
    BY <1>1, <1>2, <2>1, <2>2, SumIs, Zenon
<1> QED
  BY <1>1, <1>2, <1>3, Zenon

LEMMA SumOne ==
  ASSUME NEW a \in Int
  PROVE  Sum(<<a>>) = a
<1> DEFINE g == [k \in 0..1 |-> IF k = 0 THEN 0 ELSE a]
<1>1. <<a>> \in Seq(Int) /\ Len(<<a>>) = 1
  OBVIOUS
<1>2. \A k \in 1..1 : g[k] = g[k - 1] + <<a>>[k]
  OBVIOUS
<1>3. g \in [0..1 -> Int] /\ g[0] = 0 /\ g[1] = a
  OBVIOUS
<1> HIDE DEF g
<1>4. Sum(<<a>>) = g[Len(<<a>>)]
  BY <1>1, <1>2, <1>3, SumIs, Zenon
<1> QED
  BY <1>1, <1>3, <1>4, Zenon

(* A function that takes the walls in one after the other is the average. *)
Averaging(g, s) ==
  /\ g \in [0..Len(s) -> Nat] /\ g[0] = 0
  /\ \A k \in 1..Len(s) : g[k] = Ewma(g[k - 1], s[k])

LEMMA AverageIs ==
  ASSUME NEW s \in Seq(Nat), NEW g, Averaging(g, s)
  PROVE  Average(s) = g[Len(s)]
<1> DEFINE Steps(f) == f = [k \in 0..Len(s) |-> IF k = 0 THEN 0 ELSE Ewma(f[k - 1], s[k])]
<1>1. Steps(g)
  <2>1. \A k \in 0..Len(s) : g[k] = IF k = 0 THEN 0 ELSE Ewma(g[k - 1], s[k])
    BY DEF Averaging
  <2> QED
    BY <2>1, Zenon DEF Averaging
<1>2. Averages(s) = CHOOSE f : Steps(f)
  BY Zenon DEF Averages
<1> HIDE DEF Steps
<1>3. Steps(Averages(s))
  BY <1>1, <1>2, Zenon
<1>4. /\ Averages(s)[0] = 0
      /\ \A k \in 1..Len(s) : Averages(s)[k] = Ewma(Averages(s)[k - 1], s[k])
  <2> DEFINE h == Averages(s)
  <2>1. h = [k \in 0..Len(s) |-> IF k = 0 THEN 0 ELSE Ewma(h[k - 1], s[k])]
    BY <1>3, Zenon DEF Steps
  <2>2. Len(s) \in Nat
    OBVIOUS
  <2> HIDE DEF h
  <2>3. \A k \in 0..Len(s) : h[k] = IF k = 0 THEN 0 ELSE Ewma(h[k - 1], s[k])
    BY <2>1, Zenon
  <2>4. 0 \in 0..Len(s) /\ \A k \in 1..Len(s) : k \in 0..Len(s) /\ k # 0
    BY <2>2
  <2> QED
    BY <2>3, <2>4, Zenon DEF h
<1> DEFINE bad == {k \in 0..Len(s) : Averages(s)[k] # g[k]}
<1>5. bad = {}
  <2> SUFFICES ASSUME bad # {} PROVE FALSE
    BY Zenon
  <2>1. PICK k \in bad : \A i \in bad : k <= i
    BY LeastNat, bad \subseteq Nat, Zenon
  <2>2. k # 0
    BY <1>4, Zenon DEF Averaging
  <2>3. k - 1 \in 0..Len(s) /\ k - 1 \notin bad
    <3>1. k \in 0..Len(s) /\ Len(s) \in Nat
      OBVIOUS
    <3> HIDE DEF bad
    <3>2. k - 1 \in 0..Len(s) /\ ~(k <= k - 1)
      BY <2>2, <3>1
    <3> QED
      BY <2>1, <3>2, Zenon
  <2> QED
    BY <1>4, <2>1, <2>2, <2>3, SMTT(30) DEF Averaging
<1> QED
  BY <1>5 DEF Average

----------------------------------------------------------------------------
(* Costs.  At most two barriers besides the queue and one reward come to a *)
(* candidate, each bounded, so that broken and usable claims lie on two    *)
(* sides of Floor.                                                         *)

Few(e) == e \in Seq(Nat) /\ Len(e) <= 2
Small(e) == e \in Seq(Nat) /\ Len(e) <= 2 /\ \A i \in 1..Len(e) : e[i] <= LnTop
Reward(d) == d = <<>> \/ \E a \in Int : -19 <= a /\ a <= 0 /\ d = <<a>>
Floor == LnMax - LnTop - 19

LEMMA FewSum ==
  ASSUME NEW e, Few(e), NEW q \in Int
  PROVE  /\ Sum(e) \in Nat /\ (Small(e) => Sum(e) <= 2 * LnTop)
         /\ Sum(<<q>> \o e) = q + Sum(e)
         /\ Len(<<q>> \o e) \in Nat /\ Len(<<q>> \o e) <= 3
<1> DEFINE n == Len(e)
<1> DEFINE g == [k \in 0..n |-> IF k = 0 THEN 0 ELSE IF k = 1 THEN e[1] ELSE e[1] + e[2]]
<1> DEFINE s == <<q>> \o e
<1> DEFINE h == [k \in 0..n + 1 |-> IF k = 0 THEN 0 ELSE q + g[k - 1]]
<1>1. e \in Seq(Int) /\ n \in Nat /\ n <= 2
  BY DEF Few
<1>2. \A i \in 1..n : e[i] \in Nat
  BY SMTT(30) DEF Few
<1>3. s \in Seq(Int) /\ Len(s) = n + 1 /\ s[1] = q
  BY <1>1
<1>4. \A i \in 1..n : s[i + 1] = e[i]
  BY <1>1
<1> HIDE DEF n, s
<1>5. g \in [0..n -> Nat] /\ g[0] = 0
  BY <1>1, <1>2, SMTT(30)
<1>6. \A k \in 1..n : g[k] = g[k - 1] + e[k]
  BY <1>1, <1>2, SMTT(30)
<1>7. ASSUME Small(e) PROVE g[n] <= 2 * LnTop
  <2>1. n = 0 \/ n = 1 \/ n = 2
    BY <1>1
  <2>2. \A i \in 1..n : e[i] <= LnTop
    BY <1>7, Zenon DEF Small, n
  <2> QED
    BY <1>2, <2>1, <2>2, TopIsInt, SMTT(30)
<1> HIDE DEF g
<1>8. h \in [0..n + 1 -> Int] /\ h[0] = 0 /\ h[n + 1] = q + g[n]
  <2>1. \A k \in 0..n + 1 : k # 0 => k - 1 \in 0..n
    BY <1>1
  <2>2. \A k \in 0..n + 1 : (IF k = 0 THEN 0 ELSE q + g[k - 1]) \in Int
    BY <1>5, <2>1
  <2>3. 0 \in 0..n + 1 /\ n + 1 \in 0..n + 1 /\ n + 1 # 0 /\ (n + 1) - 1 = n
    BY <1>1
  <2> QED
    BY <2>2, <2>3, Zenon
<1>9. \A k \in 1..n + 1 : h[k] = h[k - 1] + s[k]
  <2> SUFFICES ASSUME NEW k \in 1..n + 1 PROVE h[k] = h[k - 1] + s[k]
    BY Zenon
  <2>1. CASE k = 1
    BY <1>1, <1>3, <1>5, <2>1
  <2>2. CASE k # 1
    <3>1. k - 1 \in 1..n /\ k - 1 \in 0..n /\ k - 2 \in 0..n
      BY <1>1, <2>2
    <3>2. h[k] = q + g[k - 1] /\ h[k - 1] = q + g[(k - 1) - 1]
      BY <1>1, <2>2
    <3>3. g[k - 1] = g[(k - 1) - 1] + e[k - 1]
      BY <1>6, <3>1, Zenon
    <3>4. s[k] = e[k - 1]
      <4>1. (k - 1) + 1 = k
        BY <1>1
      <4>2. s[(k - 1) + 1] = e[k - 1]
        BY <1>4, <3>1, Zenon
      <4> QED
        BY <4>1, <4>2, Zenon
    <3>5. g[(k - 1) - 1] \in Int /\ e[k - 1] \in Int
      BY <1>1, <1>2, <1>5, <3>1, SMTT(30)
    <3>6. q + (g[(k - 1) - 1] + e[k - 1]) = (q + g[(k - 1) - 1]) + e[k - 1]
      BY <3>5
    <3> QED
      BY <3>2, <3>3, <3>4, <3>6, Zenon
  <2> QED
    BY <2>1, <2>2, Zenon
<1> HIDE DEF h
<1>10. Sum(e) = g[n]
  <2>1. g \in [0..n -> Int]
    BY <1>5
  <2> QED
    BY <1>1, <1>5, <1>6, <2>1, SumIs, Zenon DEF n
<1>11. Sum(s) = h[n + 1]
  BY <1>3, <1>8, <1>9, SumIs, Zenon
<1> QED
  BY <1>1, <1>3, <1>5, <1>7, <1>8, <1>10, <1>11, SMTT(30) DEF s

LEMMA SmallFew ==
  ASSUME NEW e, Small(e)
  PROVE  Few(e)
  BY Zenon DEF Small, Few

LEMMA RewardSum ==
  ASSUME NEW d, Reward(d)
  PROVE  Sum(d) \in Int /\ -19 <= Sum(d) /\ Sum(d) <= 0
<1>1. CASE d = <<>>
  BY <1>1, SumNone
<1>2. CASE \E a \in Int : -19 <= a /\ a <= 0 /\ d = <<a>>
  BY <1>2, SumOne, Zenon
<1> QED
  BY <1>1, <1>2, Zenon DEF Reward

(* The barriers have room, so that service_cost adds up all of them. *)
LEMMA ServiceIs ==
  ASSUME NEW core \in Int, NEW n \in Nat, NEW e, Few(e), NEW d, Reward(d)
  PROVE  service_cost(core, n, e, d) = TimeCore(core) + Ln(1 + n) + Sum(e) + Sum(d)
<1> DEFINE q == Ln(1 + n)
<1>1. q \in Nat /\ q \in Int
  BY LnBounds
<1>2. append_barriers_fail_expensive(<<queue_ln(n)>>, e) = <<q>> \o e
  <2>1. queue_ln(n) = q
    BY Zenon DEF queue_ln
  <2> HIDE DEF q
  <2>2. Len(<<q>> \o e) \in Nat /\ Len(<<q>> \o e) <= 3
    BY <1>1, FewSum, Zenon
  <2>3. Len(<<q>> \o e) <= MaxBarriers
    BY <2>2, CostAssumption
  <2> QED
    BY <2>1, <2>3, Zenon DEF append_barriers_fail_expensive
<1>3. service_cost(core, n, e, d) = TimeCore(core) + Sum(<<q>> \o e) + Sum(d)
  BY <1>2, Zenon DEF service_cost, compose
<1>4. Sum(<<q>> \o e) = q + Sum(e) /\ Sum(e) \in Nat
  BY <1>1, FewSum, Zenon
<1>5. TimeCore(core) \in Int /\ Sum(d) \in Int
  BY RewardSum DEF TimeCore, Lesser, LnMax
<1> HIDE DEF q
<1>6. TimeCore(core) + (q + Sum(e)) + Sum(d) = TimeCore(core) + q + Sum(e) + Sum(d)
  BY <1>1, <1>4, <1>5
<1> QED
  BY <1>3, <1>4, <1>6, Zenon DEF q

(* What a candidate's cost is made of. *)
Loads == setup \in Setups /\ inflight \in [Backends -> Nat] /\ ewma \in [Backends -> Nat]
Extras(j, b) == IF j.for = "place" THEN PhiExtra \o transfer_penalty(j.pf, b) ELSE <<>>
Warmths(j, b) == IF j.for \in {"prefill", "place"} THEN warmth_discount(pool_hit_strength(b)) ELSE <<>>
Scaled(b) == effective_ln_base(b) + pool_core_scale(setup.pi, b.pool = "pf")

LEMMA SetupIs ==
  ASSUME setup \in Setups
  PROVE  /\ setup.claim \in [Backends -> Nat] /\ setup.warm \in [Backends -> {Absent, 0, 1, 2}]
         /\ setup.pi \in Nat /\ setup.reserved \in Nat /\ setup.kvUnits \in Nat
  BY SelectionAssumption, Zenon

LEMMA RewardIs ==
  ASSUME setup \in Setups, NEW b \in Backends
  PROVE  Reward(warmth_discount(pool_hit_strength(b)))
<1>1. warmth_discount(pool_hit_strength(b)) \in {<<>>, <<-6>>, <<-19>>}
  BY DEF warmth_discount, Discount
<1> QED
  BY <1>1 DEF Reward

LEMMA PhiIs ==
  ASSUME setup \in Setups
  PROVE  PhiExtra = <<>> \/ \E a \in Nat : a <= LnTop /\ PhiExtra = <<a>>
<1> DEFINE phi == phi_barrier(setup.reserved, 1)
<1>1. setup.reserved \in Nat
  BY SetupIs, Zenon
<1>2. phi \in Nat /\ phi <= LnTop
  <2>1. CASE setup.reserved >= 10
    BY <2>1 DEF phi_barrier, LnTop
  <2>2. CASE ~(setup.reserved >= 10)
    <3> DEFINE a == Ln(10)
    <3> DEFINE c == Ln(10 - setup.reserved)
    <3>1. 10 - setup.reserved \in Nat /\ 1 <= 10 - setup.reserved /\ 10 - setup.reserved <= 10
      BY <1>1, <2>2
    <3>2. phi = a - c
      BY <2>2 DEF phi_barrier
    <3>3. a \in Nat /\ a <= LnTop /\ c \in Nat /\ c <= a
      BY <3>1, LnBounds, LnGrows
    <3> HIDE DEF a, c, phi
    <3> QED
      BY <3>2, <3>3, TopIsInt
  <2> QED
    BY <2>1, <2>2, Zenon
<1>3. PhiExtra = IF phi > 0 THEN <<phi>> ELSE <<>>
  BY Zenon DEF PhiExtra
<1> HIDE DEF phi
<1> QED
  BY <1>2, <1>3, Zenon

LEMMA TransferIs ==
  ASSUME setup \in Setups, NEW pf, NEW b
  PROVE  transfer_penalty(pf, b) = <<>> \/ \E a \in Nat : a <= LnTop /\ transfer_penalty(pf, b) = <<a>>
<1> DEFINE d == rdma_distance(setup.topology[pf.label], setup.topology[b.label])
<1> DEFINE s == rdma_transfer_us(setup.kvUnits, d) \div 1000000
<1>1. base_latency_us(d) \in Nat
  <2> HIDE DEF d
  <2> QED
    BY DEF base_latency_us
<1>2. s \in Nat
  <2>1. rdma_transfer_us(setup.kvUnits, d) \in Nat
    <3> HIDE DEF d
    <3> QED
      BY <1>1, SetupIs DEF rdma_transfer_us
  <2> DEFINE us == rdma_transfer_us(setup.kvUnits, d)
  <2> HIDE DEF us
  <2>2. us \in Nat => us \div 1000000 \in Nat
    OBVIOUS
  <2> QED
    BY <2>1, <2>2 DEF us
<1>3. rdma_penalty(setup.kvUnits, setup.topology[pf.label], setup.topology[b.label]) = Ln(Greater(1, s))
  BY DEF rdma_penalty
<1> HIDE DEF s
<1>4. Greater(1, s) \in Nat /\ Greater(1, s) >= 1
  BY <1>2 DEF Greater
<1>5. Ln(Greater(1, s)) \in Nat /\ Ln(Greater(1, s)) <= LnTop
  BY <1>4, LnBounds, Zenon
<1>6. ROUTING_TRANSFER_PENALTY \in Nat /\ ROUTING_TRANSFER_PENALTY <= LnTop
  BY DEF ROUTING_TRANSFER_PENALTY, LnTop
<1>7. transfer_penalty(pf, b) \in {<<>>, <<Ln(Greater(1, s))>>, <<ROUTING_TRANSFER_PENALTY>>}
  BY <1>3, Zenon DEF transfer_penalty
<1> QED
  BY <1>5, <1>6, <1>7, Zenon

LEMMA ExtrasSmall ==
  ASSUME setup \in Setups, NEW j, NEW b
  PROVE  Small(Extras(j, b))
<1> DEFINE x == PhiExtra
<1> DEFINE y == transfer_penalty(j.pf, b)
<1>1. x = <<>> \/ \E a \in Nat : a <= LnTop /\ x = <<a>>
  BY PhiIs, Zenon
<1>2. y = <<>> \/ \E a \in Nat : a <= LnTop /\ y = <<a>>
  BY TransferIs, Zenon
<1>3. Extras(j, b) = x \o y \/ Extras(j, b) = <<>>
  BY Zenon DEF Extras
<1> HIDE DEF x, y
<1>4. Small(x \o y)
  <2>1. Small(x) /\ Small(y) /\ Len(x) <= 1 /\ Len(y) <= 1
    <3>1. ASSUME NEW z, z = <<>> \/ \E a \in Nat : a <= LnTop /\ z = <<a>>
          PROVE  Small(z) /\ Len(z) <= 1
      <4>1. CASE z = <<>>
        <5>1. Len(z) = 0 /\ z \in Seq(Nat)
          BY <4>1
        <5> QED
          BY <5>1 DEF Small
      <4>2. CASE \E a \in Nat : a <= LnTop /\ z = <<a>>
        <5>1. PICK a \in Nat : a <= LnTop /\ z = <<a>>
          BY <4>2, Zenon
        <5>2. Len(z) = 1 /\ z \in Seq(Nat) /\ z[1] = a
          BY <5>1
        <5> QED
          BY <5>1, <5>2 DEF Small
      <4> QED
        BY <3>1, <4>1, <4>2, Zenon
    <3> QED
      BY <1>1, <1>2, <3>1, Zenon
  <2>2. x \in Seq(Nat) /\ y \in Seq(Nat) /\ Len(x) \in Nat /\ Len(y) \in Nat
    BY <2>1 DEF Small
  <2>3. x \o y \in Seq(Nat) /\ Len(x \o y) = Len(x) + Len(y)
    BY <2>2
  <2>4. ASSUME NEW i \in 1..Len(x \o y) PROVE (x \o y)[i] <= LnTop
    <3>1. CASE i <= Len(x)
      <4>1. (x \o y)[i] = x[i] /\ i \in 1..Len(x)
        BY <2>2, <2>3, <3>1
      <4> QED
        BY <2>1, <4>1, Zenon DEF Small
    <3>2. CASE ~(i <= Len(x))
      <4>1. (x \o y)[i] = y[i - Len(x)] /\ i - Len(x) \in 1..Len(y)
        BY <2>2, <2>3, <3>2
      <4> QED
        BY <2>1, <4>1, Zenon DEF Small
    <3> QED
      BY <3>1, <3>2, Zenon
  <2>5. Len(x \o y) <= 2
    BY <2>1, <2>2, <2>3
  <2> QED
    BY <2>3, <2>4, <2>5, Zenon DEF Small
<1>5. Small(<<>>)
  BY DEF Small
<1> QED
  BY <1>3, <1>4, <1>5, Zenon

LEMMA WarmthsReward ==
  ASSUME setup \in Setups, NEW j, NEW b \in Backends
  PROVE  Reward(Warmths(j, b))
  BY RewardIs, Zenon DEF Warmths, Reward

LEMMA BaseIs ==
  ASSUME Loads, NEW b \in Backends
  PROVE  /\ broken(b) => effective_ln_base(b) = LnMax
         /\ ~broken(b) => /\ effective_ln_base(b) \in Nat /\ effective_ln_base(b) <= LnTop
                          /\ setup.claim[b] \in Nat /\ setup.claim[b] >= 1
<1>1. setup.claim[b] \in Nat /\ ewma[b] \in Nat
  BY SetupIs, Zenon DEF Loads
<1>2. ASSUME ~broken(b) PROVE setup.claim[b] >= 1 /\ Ln(effective_base_seconds(b)) \in Nat /\ Ln(effective_base_seconds(b)) <= LnTop
  <2>1. setup.claim[b] >= 1
    BY <1>1, <1>2 DEF broken
  <2>2. effective_base_seconds(b) \in Nat /\ effective_base_seconds(b) >= 1
    BY <1>1, <2>1 DEF effective_base_seconds, Greater
  <2> QED
    BY <2>1, <2>2, LnBounds, Zenon
<1> QED
  BY <1>1, <1>2, Zenon DEF effective_ln_base

(* The two forms a cost that is read takes. *)
LEMMA ReadIs ==
  ASSUME Loads, NEW j, NEW b \in Backends
  PROVE  LET q == Ln(1 + inflight[b]) IN
         \/ /\ Extras(j, b) = <<>> /\ Warmths(j, b) = <<>>
            /\ Read(j, b) = Scaled(b) + q
         \/ Read(j, b) = TimeCore(Scaled(b)) + q + Sum(Extras(j, b)) + Sum(Warmths(j, b))
<1> DEFINE q == Ln(1 + inflight[b])
<1> DEFINE w == warmth_discount(pool_hit_strength(b))
<1>1. setup \in Setups /\ inflight[b] \in Nat /\ setup.pi \in Nat
  BY SetupIs, Zenon DEF Loads
<1>2. Scaled(b) \in Int
  <2>1. effective_ln_base(b) \in Int
    BY BaseIs DEF LnMax
  <2>2. pool_core_scale(setup.pi, b.pool = "pf") \in Int
    BY <1>1, ScaleBounds, Zenon
  <2> QED
    BY <2>1, <2>2 DEF Scaled
<1>3. selection_ln(b, setup.pi, b.pool = "pf") = Scaled(b) + q
  BY Zenon DEF selection_ln, Scaled, queue_ln
<1>4. ASSUME NEW e, Small(e)
      PROVE  \/ e = <<>> /\ w = <<>> /\ cost_with_isolation_pi(b, e, setup.pi) = Scaled(b) + q
             \/ cost_with_isolation_pi(b, e, setup.pi) = TimeCore(Scaled(b)) + q + Sum(e) + Sum(w)
  <2>1. service_cost(Scaled(b), inflight[b], e, w) = TimeCore(Scaled(b)) + q + Sum(e) + Sum(w)
    BY <1>1, <1>2, <1>4, RewardIs, ServiceIs, SmallFew
  <2>2. CASE e = <<>> /\ w = <<>>
    BY <1>3, <2>2, Zenon DEF cost_with_isolation_pi
  <2>3. CASE ~(e = <<>> /\ w = <<>>)
    BY <2>1, <2>3, Zenon DEF cost_with_isolation_pi, Scaled
  <2> QED
    BY <2>2, <2>3, Zenon
<1>5. CASE j.for = "prefill"
  <2>1. Extras(j, b) = <<>> /\ Warmths(j, b) = w
    BY <1>5, Zenon DEF Extras, Warmths
  <2>2. Read(j, b) = cost_with_isolation_pi(b, <<>>, setup.pi)
    BY <1>5, Zenon DEF Read
  <2>3. Small(<<>>)
    BY DEF Small
  <2> HIDE DEF w, q
  <2> QED
    BY <1>4, <2>1, <2>2, <2>3, Zenon DEF q
<1>6. CASE j.for = "place"
  <2>1. Extras(j, b) = PhiExtra \o transfer_penalty(j.pf, b) /\ Warmths(j, b) = w
    BY <1>6, Zenon DEF Extras, Warmths
  <2>2. Read(j, b) = cost_with_isolation_pi(b, PhiExtra \o transfer_penalty(j.pf, b), setup.pi)
    BY <1>6, Zenon DEF Read
  <2>3. Small(Extras(j, b))
    BY <1>1, ExtrasSmall, Zenon
  <2> HIDE DEF w, q
  <2> QED
    BY <1>4, <2>1, <2>2, <2>3, Zenon DEF q
<1>7. CASE j.for \notin {"prefill", "place"}
  <2>1. Extras(j, b) = <<>> /\ Warmths(j, b) = <<>>
    BY <1>7, Zenon DEF Extras, Warmths
  <2>2. Read(j, b) = selection_ln(b, setup.pi, b.pool = "pf")
    BY <1>7, Zenon DEF Read, cost_with_barriers_pi
  <2> QED
    BY <1>3, <2>1, <2>2, Zenon
<1> QED
  BY <1>5, <1>6, <1>7, Zenon

LEMMA TopMax == LnTop = 1000 /\ LnMax = 7098
  BY DEF LnTop, LnMax

LEMMA CoreIs ==
  ASSUME NEW core \in Int, core <= 2 * LnTop
  PROVE  TimeCore(core) = core
  BY TopMax DEF TimeCore, Lesser

(* A broken claim costs Floor or more, a usable one less, and a usable one *)
(* costs the same whichever way it is computed.                            *)
LEMMA ReadSplits ==
  ASSUME Loads, NEW j, NEW b \in Backends
  PROVE  /\ Read(j, b) \in Int
         /\ broken(b) => Read(j, b) >= Floor
         /\ ~broken(b) => /\ Read(j, b) < Floor
                          /\ Read(j, b) = TimeCore(Scaled(b)) + Ln(1 + inflight[b]) + Sum(Extras(j, b)) + Sum(Warmths(j, b))
<1> DEFINE base == effective_ln_base(b)
<1> DEFINE scale == pool_core_scale(setup.pi, b.pool = "pf")
<1> DEFINE core == TimeCore(Scaled(b))
<1> DEFINE q == Ln(1 + inflight[b])
<1> DEFINE e == Sum(Extras(j, b))
<1> DEFINE d == Sum(Warmths(j, b))
<1> DEFINE r == Read(j, b)
<1>1. setup \in Setups /\ inflight[b] \in Nat /\ setup.pi \in Nat
  BY SetupIs, Zenon DEF Loads
<1>2. e \in Nat /\ e <= 2 * LnTop
  <2>1. Small(Extras(j, b))
    BY <1>1, ExtrasSmall, Zenon
  <2> QED
    BY <2>1, FewSum, SmallFew, 0 \in Int, Zenon
<1>3. d \in Int /\ -19 <= d /\ d <= 0
  BY <1>1, WarmthsReward, RewardSum, Zenon
<1>4. q \in Nat /\ q <= LnTop
  BY <1>1, LnBounds
<1>5. scale \in Int /\ -LnTop <= scale /\ scale <= LnTop
  BY <1>1, ScaleBounds, Zenon
<1>6. /\ broken(b) => base = LnMax
      /\ ~broken(b) => base \in Nat /\ base <= LnTop
  BY BaseIs, Zenon
<1>7. (Extras(j, b) = <<>> /\ Warmths(j, b) = <<>> /\ r = Scaled(b) + q) \/ r = core + q + e + d
  BY ReadIs, Zenon
<1>8. (Extras(j, b) = <<>> /\ Warmths(j, b) = <<>>) => e = 0 /\ d = 0
  BY SumNone, Zenon
<1>9. Scaled(b) = base + scale
  BY Zenon DEF Scaled
<1> HIDE DEF base, scale, e, d, q, r
<1>10. CASE broken(b)
  <2>1. Scaled(b) \in Int /\ Scaled(b) >= LnMax - LnTop
    BY <1>5, <1>6, <1>9, <1>10, TopMax
  <2>2. core \in Int /\ core >= LnMax - LnTop
    BY <2>1, TopMax DEF TimeCore, Lesser
  <2> HIDE DEF core
  <2>3. r \in Int /\ r >= Floor
    BY <1>2, <1>3, <1>4, <1>7, <2>1, <2>2, TopMax DEF Floor
  <2> QED
    BY <1>10, <2>3, Zenon DEF r
<1>11. CASE ~broken(b)
  <2>1. Scaled(b) \in Int /\ Scaled(b) <= 2 * LnTop
    BY <1>5, <1>6, <1>9, <1>11, TopMax
  <2>2. core = Scaled(b)
    BY <2>1, CoreIs, Zenon
  <2> HIDE DEF core
  <2>3. r = core + q + e + d
    BY <1>4, <1>7, <1>8, <2>1, <2>2
  <2>4. r \in Int /\ r < Floor
    BY <1>2, <1>3, <1>4, <2>1, <2>2, <2>3, TopMax DEF Floor
  <2> QED
    BY <1>11, <2>3, <2>4, Zenon DEF r, core, q, e, d
<1> QED
  BY <1>10, <1>11, Zenon

(* The true cost of a usable candidate is the one a scan reads. *)
LEMMA TrueSplits ==
  ASSUME Loads, NEW j, NEW b \in Backends, ewma[b] = Average(told[b])
  PROVE  /\ TrueCost(j, b) \in Int
         /\ broken(b) => TrueCost(j, b) >= Floor
         /\ ~broken(b) => TrueCost(j, b) = Read(j, b)
<1> DEFINE core == TimeCore(Scaled(b))
<1> DEFINE q == Ln(1 + inflight[b])
<1> DEFINE e == Sum(Extras(j, b))
<1> DEFINE d == Sum(Warmths(j, b))
<1>1. TrueCost(j, b) = core + q + e + d
  BY Zenon DEF TrueCost, Scaled, Extras, Warmths, effective_ln_base, effective_base_seconds
<1>2. ~broken(b) => TrueCost(j, b) = Read(j, b)
  BY <1>1, ReadSplits, Zenon
<1>3. ASSUME broken(b) PROVE TrueCost(j, b) \in Int /\ TrueCost(j, b) >= Floor
  <2>1. setup \in Setups /\ inflight[b] \in Nat /\ setup.pi \in Nat
    BY SetupIs, Zenon DEF Loads
  <2>2. e \in Nat
    <3>1. Small(Extras(j, b))
      BY <2>1, ExtrasSmall, Zenon
    <3> QED
      BY <3>1, FewSum, SmallFew, 0 \in Int, Zenon
  <2>3. d \in Int /\ -19 <= d
    BY <2>1, WarmthsReward, RewardSum, Zenon
  <2>4. q \in Nat
    BY <2>1, LnBounds
  <2> DEFINE scale == pool_core_scale(setup.pi, b.pool = "pf")
  <2>5. scale \in Int /\ -LnTop <= scale
    BY <2>1, ScaleBounds, Zenon
  <2>6. Scaled(b) = LnMax + scale
    BY <1>3, BaseIs, Zenon DEF Scaled
  <2> HIDE DEF e, d, q, scale
  <2>7. Scaled(b) \in Int /\ Scaled(b) >= LnMax - LnTop
    BY <2>5, <2>6, TopMax
  <2>8. core \in Int /\ core >= LnMax - LnTop
    BY <2>7, TopMax DEF TimeCore, Lesser
  <2> HIDE DEF core
  <2> QED
    BY <1>1, <2>2, <2>3, <2>4, <2>8, TopMax DEF Floor
<1> QED
  BY <1>2, <1>3, ReadSplits, Zenon

----------------------------------------------------------------------------
(* Least elements. *)

LEMMA LeastInt ==
  ASSUME NEW T, T \subseteq Int, T # {}, NEW c \in Int, \A x \in T : c <= x
  PROVE  \E x \in T : \A y \in T : x <= y
<1> DEFINE N == {x - c : x \in T}
<1>1. N \subseteq Nat /\ N # {}
  <2>1. ASSUME NEW x \in T PROVE x - c \in Nat
    <3>1. x \in Int /\ c <= x
      BY Zenon
    <3> QED
      BY <3>1
  <2> QED
    BY <2>1, Zenon
<1>2. PICK n \in N : \A m \in N : n <= m
  BY <1>1, LeastNat, Zenon
<1>3. PICK x \in T : n = x - c
  BY <1>2, Zenon
<1>4. ASSUME NEW y \in T PROVE x <= y
  <2>1. n <= y - c
    BY <1>2, Zenon
  <2>2. x \in Int /\ y \in Int
    BY Zenon
  <2> QED
    BY <1>3, <2>1, <2>2
<1> QED
  BY <1>4, Zenon

(* The first of the cheapest of a sequence. *)
First(s, cost, i) ==
  /\ i \in DOMAIN s
  /\ \A k \in DOMAIN s : cost[s[i]] < cost[s[k]] \/ (cost[s[i]] = cost[s[k]] /\ i <= k)

LEMMA FirstMinIs ==
  ASSUME NEW S, NEW s \in Seq(S), NEW cost, \A k \in DOMAIN s : cost[s[k]] \in Int,
         NEW i, First(s, cost, i)
  PROVE  FirstMin(s, cost) = s[i]
<1> DEFINE m == CHOOSE n \in DOMAIN s : \A k \in DOMAIN s : cost[s[n]] < cost[s[k]] \/ (cost[s[n]] = cost[s[k]] /\ n <= k)
<1>1. First(s, cost, m)
  BY Zenon DEF First
<1>2. FirstMin(s, cost) = s[m]
  BY Zenon DEF FirstMin
<1> HIDE DEF m
<1>3. m \in DOMAIN s /\ i \in DOMAIN s /\ DOMAIN s \subseteq Int
  BY <1>1 DEF First
<1>4. /\ cost[s[m]] < cost[s[i]] \/ (cost[s[m]] = cost[s[i]] /\ m <= i)
      /\ cost[s[i]] < cost[s[m]] \/ (cost[s[i]] = cost[s[m]] /\ i <= m)
  BY <1>1, <1>3, Zenon DEF First
<1>5. cost[s[m]] \in Int /\ cost[s[i]] \in Int /\ m \in Int /\ i \in Int
  BY <1>3, Zenon
<1>6. m = i
  BY <1>4, <1>5
<1> QED
  BY <1>2, <1>6, Zenon

LEMMA FirstMinLeast ==
  ASSUME NEW S, NEW s \in Seq(S), s # <<>>, NEW cost, NEW c \in Int,
         \A k \in DOMAIN s : cost[s[k]] \in Int /\ c <= cost[s[k]]
  PROVE  /\ FirstMin(s, cost) \in Range(s)
         /\ \A b \in Range(s) : cost[FirstMin(s, cost)] <= cost[b]
<1> DEFINE T == {cost[s[k]] : k \in DOMAIN s}
<1>1. T \subseteq Int /\ T # {} /\ \A x \in T : c <= x
  OBVIOUS
<1>2. PICK x \in T : \A y \in T : x <= y
  BY <1>1, LeastInt, Zenon
<1> DEFINE I == {k \in DOMAIN s : cost[s[k]] = x}
<1>3. I \subseteq Nat /\ I # {}
  BY <1>2
<1>4. PICK i \in I : \A k \in I : i <= k
  BY <1>3, LeastNat, Zenon
<1>5. i \in DOMAIN s /\ cost[s[i]] = x
  BY <1>4, Zenon
<1>6. ASSUME NEW k \in DOMAIN s PROVE cost[s[i]] < cost[s[k]] \/ (cost[s[i]] = cost[s[k]] /\ i <= k)
  <2>1. cost[s[k]] \in Int /\ x \in Int /\ x <= cost[s[k]]
    BY <1>1, <1>2, Zenon
  <2>2. CASE cost[s[k]] = x
    BY <1>4, <1>5, <2>2, Zenon
  <2>3. CASE cost[s[k]] # x
    BY <1>5, <2>1, <2>3, SMTT(30)
  <2> QED
    BY <2>2, <2>3, Zenon
<1>7. FirstMin(s, cost) = s[i]
  <2>1. First(s, cost, i)
    BY <1>5, <1>6, Zenon DEF First
  <2> QED
    BY <2>1, FirstMinIs, Zenon
<1>8. ASSUME NEW b \in Range(s) PROVE cost[s[i]] <= cost[b]
  <2>1. PICK k \in DOMAIN s : b = s[k]
    BY Zenon DEF Range
  <2> QED
    BY <1>2, <1>5, <2>1, Zenon
<1> QED
  BY <1>5, <1>7, <1>8, Zenon DEF Range

LEMMA PoolIs ==
  ASSUME NEW p
  PROVE  Pool(p) \in Seq(Backends) /\ Range(Pool(p)) \subseteq Backends
<1>1. PrefillPool \in Seq(STRING) /\ DecodePool \in Seq(STRING)
  BY SelectionAssumption, Zenon
<1>2. \A i \in DOMAIN PrefillPool : [pool |-> "pf", label |-> PrefillPool[i]] \in Backends
  BY Zenon DEF Backends, Range
<1>3. \A i \in DOMAIN DecodePool : [pool |-> "dc", label |-> DecodePool[i]] \in Backends
  BY Zenon DEF Backends, Range
<1>4. CASE p = "pf"
  <2>1. Pool(p) = [i \in DOMAIN PrefillPool |-> [pool |-> "pf", label |-> PrefillPool[i]]]
    BY <1>4, Zenon DEF Pool
  <2>2. Pool(p) \in Seq(Backends)
    <3>1. DOMAIN PrefillPool = 1..Len(PrefillPool) /\ Len(PrefillPool) \in Nat
      BY <1>1
    <3>2. Pool(p) \in [1..Len(PrefillPool) -> Backends]
      BY <1>2, <2>1, <3>1, Zenon
    <3> QED
      BY <3>1, <3>2
  <2> QED
    BY <2>2 DEF Range
<1>5. CASE p # "pf"
  <2>1. Pool(p) = [i \in DOMAIN DecodePool |-> [pool |-> "dc", label |-> DecodePool[i]]]
    BY <1>5, Zenon DEF Pool
  <2>2. Pool(p) \in Seq(Backends)
    <3>1. DOMAIN DecodePool = 1..Len(DecodePool) /\ Len(DecodePool) \in Nat
      BY <1>1
    <3>2. Pool(p) \in [1..Len(DecodePool) -> Backends]
      BY <1>3, <2>1, <3>1, Zenon
    <3> QED
      BY <3>1, <3>2
  <2> QED
    BY <2>2 DEF Range
<1> QED
  BY <1>4, <1>5, Zenon

----------------------------------------------------------------------------
(* Pairing. *)

(* What a backend costs at an even share, without transfer. *)
Plain(b) == effective_ln_base(b) + Ln(1 + inflight[b]) + Sum(warmth_discount(pool_hit_strength(b)))

LEMMA PlainIs ==
  ASSUME Loads, NEW b \in Backends, NEW e, Few(e)
  PROVE  /\ Plain(b) \in Int /\ Plain(b) >= -19
         /\ cost_with_isolation_pi(b, e, 5) = Plain(b) + Sum(e)
<1> DEFINE base == effective_ln_base(b)
<1> DEFINE q == Ln(1 + inflight[b])
<1> DEFINE w == warmth_discount(pool_hit_strength(b))
<1> DEFINE core == base + pool_core_scale(5, b.pool = "pf")
<1>1. setup \in Setups /\ inflight[b] \in Nat
  BY Zenon DEF Loads
<1>2. base \in Nat /\ base <= LnMax
  BY BaseIs, TopMax
<1>3. q \in Nat
  BY <1>1, LnBounds
<1>4. Reward(w)
  BY <1>1, RewardIs, Zenon
<1>5. Sum(w) \in Int /\ -19 <= Sum(w)
  BY <1>4, RewardSum, Zenon
<1>6. core = base
  BY <1>2, ScaleEven
<1>7. TimeCore(base) = base
  BY <1>2, TopMax DEF TimeCore, Lesser
<1>8. Sum(e) \in Nat
  BY FewSum, 0 \in Int, Zenon
<1>9. Plain(b) = base + q + Sum(w)
  BY Zenon DEF Plain
<1>10. service_cost(core, inflight[b], e, w) = base + q + Sum(e) + Sum(w)
  BY <1>1, <1>2, <1>4, <1>6, <1>7, ServiceIs
<1>11. cost_with_isolation_pi(b, e, 5) = IF e = <<>> /\ w = <<>> THEN core + q ELSE service_cost(core, inflight[b], e, w)
  BY Zenon DEF cost_with_isolation_pi, selection_ln, queue_ln
<1>12. e = <<>> /\ w = <<>> => Sum(e) = 0 /\ Sum(w) = 0
  BY SumNone, Zenon
<1> HIDE DEF base, q, w, core
<1>13. cost_with_isolation_pi(b, e, 5) = base + q + Sum(e) + Sum(w)
  BY <1>2, <1>3, <1>6, <1>10, <1>11, <1>12
<1> QED
  BY <1>2, <1>3, <1>5, <1>8, <1>9, <1>13

Penalty == ROUTING_TRANSFER_PENALTY

LEMMA PairCosts ==
  ASSUME Loads, NEW b \in Backends, NEW pf
  PROVE  /\ prefill_ln(b) = Plain(b)
         /\ decode_ln(b, pf) = Plain(b) + IF pf.label = b.label THEN 0 ELSE Penalty
<1>1. Few(<<>>) /\ Few(<<Penalty>>) /\ Sum(<<>>) = 0 /\ Sum(<<Penalty>>) = Penalty
  <2>1. Penalty \in Nat
    BY DEF Penalty, ROUTING_TRANSFER_PENALTY
  <2> QED
    BY <2>1, SumNone, SumOne DEF Few
<1>2. Plain(b) \in Int
  BY <1>1, PlainIs, Zenon
<1>3. prefill_ln(b) = Plain(b)
  BY <1>1, <1>2, PlainIs DEF prefill_ln
<1>4. append_barriers_fail_expensive(<<>>, <<>>) = <<>>
  BY CostAssumption DEF append_barriers_fail_expensive
<1>5. append_barriers_fail_expensive(<<>>, <<Penalty>>) = <<Penalty>>
  BY CostAssumption DEF append_barriers_fail_expensive
<1>6. CASE pf.label = b.label
  <2>1. decode_ln(b, pf) = cost_with_isolation_pi(b, <<>>, 5)
    BY <1>4, <1>6, Zenon DEF decode_ln
  <2> QED
    BY <1>1, <1>2, <1>3, <1>6, <2>1, PlainIs, Zenon
<1>7. CASE pf.label # b.label
  <2>1. decode_ln(b, pf) = cost_with_isolation_pi(b, <<Penalty>>, 5)
    BY <1>5, <1>7, Zenon DEF decode_ln, Penalty
  <2> QED
    BY <1>1, <1>2, <1>3, <1>7, <2>1, PlainIs, Zenon
<1> QED
  BY <1>6, <1>7, Zenon

LEMMA PairInt ==
  ASSUME Loads
  PROVE  \A b \in Backends : prefill_ln(b) \in Int /\ \A p : decode_ln(b, p) \in Int
<1> SUFFICES ASSUME NEW b \in Backends, NEW p PROVE prefill_ln(b) \in Int /\ decode_ln(b, p) \in Int
  BY Zenon
<1> DEFINE far == IF p.label = b.label THEN 0 ELSE Penalty
<1>1. Plain(b) \in Int
  <2>1. Few(<<>>)
    BY DEF Few
  <2> QED
    BY <2>1, PlainIs, Zenon
<1>2. far \in Int
  BY DEF Penalty, ROUTING_TRANSFER_PENALTY
<1>3. prefill_ln(b) = Plain(b) /\ decode_ln(b, p) = Plain(b) + far
  BY PairCosts, Zenon
<1> HIDE DEF far
<1> QED
  BY <1>1, <1>2, <1>3

(* The cost of a pair, and the choices of the greedy scan. *)
Joint(p, d) == prefill_ln(p) + decode_ln(d, p)
BestPf(p) == p \in Range(Pool("pf")) /\ \A q \in Range(Pool("pf")) : prefill_ln(p) <= prefill_ln(q)
BestDc(p, d) == d \in Range(Pool("dc")) /\ \A q \in Range(Pool("dc")) : decode_ln(d, p) <= decode_ln(q, p)

(* The greedy pair costs at most the transfer penalty more than any other: *)
(* that pair's decode backend is one of those the greedy choice had, at a  *)
(* penalty more at most.                                                   *)
LEMMA GreedyNear ==
  ASSUME Loads, NEW pf, NEW dc, BestPf(pf), BestDc(pf, dc),
         NEW p \in Range(Pool("pf")), NEW d \in Range(Pool("dc"))
  PROVE  Joint(pf, dc) \in Int /\ Joint(p, d) \in Int /\ Joint(pf, dc) <= Joint(p, d) + Penalty
<1> DEFINE far(a, b) == IF a.label = b.label THEN 0 ELSE Penalty
<1>1. Penalty \in Nat
  BY DEF Penalty, ROUTING_TRANSFER_PENALTY
<1>2. \A a, b : far(a, b) \in Nat /\ far(a, b) <= Penalty
  BY <1>1
<1>3. pf \in Backends /\ dc \in Backends /\ p \in Backends /\ d \in Backends
  BY PoolIs, Zenon DEF BestPf, BestDc
<1>4. \A a : \A b \in Backends : Plain(b) \in Int /\ prefill_ln(b) = Plain(b) /\ decode_ln(b, a) = Plain(b) + far(a, b)
  <2>1. Few(<<>>)
    BY DEF Few
  <2> QED
    BY <2>1, PlainIs, PairCosts, Zenon
<1> HIDE DEF far
<1> DEFINE a == Plain(pf)
           b == Plain(dc)
           c == Plain(p)
           e == Plain(d)
           u == far(pf, dc)
           v == far(pf, d)
           w == far(p, d)
<1>5. Joint(pf, dc) = a + (b + u) /\ Joint(p, d) = c + (e + w)
  BY <1>3, <1>4, Zenon DEF Joint
<1>6. a <= c /\ b + u <= e + v
  <2>1. prefill_ln(pf) <= prefill_ln(p) /\ decode_ln(dc, pf) <= decode_ln(d, pf)
    BY Zenon DEF BestPf, BestDc
  <2> QED
    BY <1>3, <1>4, <2>1, Zenon
<1>7. /\ a \in Int /\ b \in Int /\ c \in Int /\ e \in Int /\ u \in Nat /\ v \in Nat /\ w \in Nat
      /\ v <= Penalty
  BY <1>2, <1>3, <1>4, Zenon
<1> HIDE DEF a, b, c, e, u, v, w
<1> QED
  BY <1>1, <1>5, <1>6, <1>7

----------------------------------------------------------------------------
(* The inductive invariant.  Of the candidates a scan has seen, its best   *)
(* is broken only if all are, and it is the first of the cheapest as long  *)
(* as nothing disturbed the scan; the cost it carries is on the side of    *)
(* Floor its best is on.  An inflight count is the number of requests that *)
(* are proxied to the backend, and an average has taken in every wall.     *)

JobFields == {"at", "for", "pool", "next", "best", "seen", "pf", "wall", "calm"}

ScanOk(j) ==
  /\ j.next \in 2..Len(Pool(j.pool)) + 1
  /\ \E i \in 1..j.next - 1 :
       /\ j.best = Pool(j.pool)[i]
       /\ j.calm => \A k \in 1..j.next - 1 :
            \/ Read(j, Pool(j.pool)[i]) < Read(j, Pool(j.pool)[k])
            \/ Read(j, Pool(j.pool)[i]) = Read(j, Pool(j.pool)[k]) /\ i <= k
  /\ broken(j.best) => \A k \in 1..j.next - 1 : broken(Pool(j.pool)[k])
  /\ j.at = "weigh" =>
       /\ j.next <= Len(Pool(j.pool)) /\ j.seen \in Int
       /\ broken(j.best) <=> j.seen >= Floor
       /\ j.calm => j.seen = Read(j, j.best)
  /\ j.at = "chosen" => j.next = Len(Pool(j.pool)) + 1

JobOk(j) ==
  /\ j = [f \in JobFields |-> j[f]]
  /\ Scanning(j) => ScanOk(j)
  /\ j.at = "proxy" => j.best \in Backends
  /\ j.at \in {"prefilling", "noting", "exchange"} => j.pf \in Backends
  /\ j.at \in {"noting", "exchange"} => j.wall \in Nat
  /\ j.at = "exchange" => j.seen \in Nat

Proxied(b) == {t \in Requests : job[t].at = "proxy" /\ job[t].best = b}
Counted == \A b \in Backends : inflight[b] = Cardinality(Proxied(b))
Told(b) == told[b] \in Seq(Nat) /\ \E g : Averaging(g, told[b]) /\ g[Len(told[b])] = ewma[b]
Jobs == job = [t \in Requests |-> job[t]] /\ \A t \in Requests : JobOk(job[t])

SelectionInv ==
  /\ Loads /\ Counted /\ Jobs
  /\ told = [b \in Backends |-> told[b]] /\ \A b \in Backends : Told(b)

(* Costs and claims change only with what they are made of. *)
LEMMA BrokenSame ==
  ASSUME setup' = setup
  PROVE  \A b : broken(b)' = broken(b)
  BY Zenon DEF broken

LEMMA ReadSame ==
  ASSUME setup' = setup, inflight' = inflight, ewma' = ewma
  PROVE  \A j, b : Read(j, b)' = Read(j, b)
<1>1. \A b : effective_ln_base(b)' = effective_ln_base(b)
  BY Zenon DEF effective_ln_base, effective_base_seconds, broken
<1>2. \A b, pi, p : selection_ln(b, pi, p)' = selection_ln(b, pi, p)
  BY <1>1, Zenon DEF selection_ln
<1>3. \A b : pool_hit_strength(b)' = pool_hit_strength(b)
  BY Zenon DEF pool_hit_strength
<1>4. \A b, e, pi : cost_with_isolation_pi(b, e, pi)' = cost_with_isolation_pi(b, e, pi)
  BY <1>1, <1>2, <1>3, ZenonT(60) DEF cost_with_isolation_pi
<1>5. \A b, e, pi : cost_with_barriers_pi(b, e, pi)' = cost_with_barriers_pi(b, e, pi)
  BY <1>1, <1>2, ZenonT(60) DEF cost_with_barriers_pi
<1>6. \A p, b : transfer_penalty(p, b)' = transfer_penalty(p, b)
  BY Zenon DEF transfer_penalty
<1>7. PhiExtra' = PhiExtra
  BY Zenon DEF PhiExtra
<1> QED
  BY <1>4, <1>5, <1>6, <1>7, Zenon DEF Read

LEMMA JobSame ==
  ASSUME setup' = setup, inflight' = inflight, ewma' = ewma, NEW j, JobOk(j)
  PROVE  JobOk(j)'
<1>1. \A b : broken(b)' = broken(b)
  BY BrokenSame, Zenon
<1>2. \A i, b : Read(i, b)' = Read(i, b)
  BY ReadSame, Zenon
<1>3. ScanOk(j) => ScanOk(j)'
  BY <1>1, <1>2, Zenon DEF ScanOk
<1> QED
  BY <1>3, Zenon DEF JobOk

(* A scan that is disturbed is only no longer calm. *)
LEMMA Disturbed ==
  ASSUME setup' = setup, NEW j, JobOk(j)
  PROVE  JobOk([j EXCEPT !.calm = @ /\ ~Scanning(j)])'
<1> DEFINE d == [j EXCEPT !.calm = @ /\ ~Scanning(j)]
<1>1. j = [f \in JobFields |-> j[f]]
  BY Zenon DEF JobOk
<1>2. /\ d = [f \in JobFields |-> d[f]]
      /\ \A f \in JobFields \ {"calm"} : d[f] = j[f]
      /\ d.calm <=> j.calm /\ ~Scanning(j)
  BY <1>1, Zenon DEF JobFields
<1> HIDE DEF d
<1>3. d.at = j.at /\ d.pool = j.pool /\ d.next = j.next /\ d.best = j.best /\ d.seen = j.seen /\ d.pf = j.pf /\ d.wall = j.wall
  BY <1>2, Zenon DEF JobFields
<1>4. Scanning(d) = Scanning(j)
  BY <1>3, Zenon DEF Scanning
<1>5. ASSUME Scanning(j) PROVE ScanOk(d)'
  <2>1. ScanOk(j) /\ ~d.calm
    BY <1>2, <1>5, Zenon DEF JobOk
  <2> QED
    BY <1>3, <2>1, BrokenSame, Zenon DEF ScanOk
<1>6. JobOk(d)'
  BY <1>2, <1>3, <1>4, <1>5, Zenon DEF JobOk
<1> QED
  BY <1>6, Zenon DEF d

(* A scan begins with its first candidate as the best. *)
LEMMA FreshOk ==
  ASSUME NEW j, j = [f \in JobFields |-> j[f]], j.at = "read", j.next = 2,
         Pool(j.pool) # <<>>, j.best = Pool(j.pool)[1]
  PROVE  JobOk(j) /\ JobOk(j)'
<1>1. Len(Pool(j.pool)) \in Nat /\ Len(Pool(j.pool)) >= 1
  BY PoolIs
<1>2. j.next \in 2..Len(Pool(j.pool)) + 1
  BY <1>1
<1>3. \A k \in 1..j.next - 1 : k = 1
  OBVIOUS
<1>4. 1 \in 1..j.next - 1 /\ 1 <= 1
  OBVIOUS
<1>5. ScanOk(j)
  BY <1>2, <1>3, <1>4, Zenon DEF ScanOk
<1>6. ScanOk(j)'
  BY <1>2, <1>3, <1>4, Zenon DEF ScanOk
<1> QED
  BY <1>5, <1>6, Zenon DEF JobOk

LEMMA IdleOk == JobOk(Idle) /\ JobOk(Idle)' /\ Idle = [f \in JobFields |-> Idle[f]] /\ Idle.at = "idle"
<1>1. Idle = [f \in JobFields |-> Idle[f]] /\ Idle.at = "idle"
  BY Zenon DEF Idle, JobFields
<1>2. ~Scanning(Idle)
  BY <1>1, Zenon DEF Scanning
<1> QED
  BY <1>1, <1>2, Zenon DEF JobOk

LEMMA StartedOk ==
  ASSUME NEW j, j = [f \in JobFields |-> j[f]], NEW for, NEW pool
  PROVE  /\ JobOk(Started(j, for, pool)) /\ JobOk(Started(j, for, pool))'
         /\ Started(j, for, pool).at # "proxy"
<1>1. CASE Pool(pool) = <<>>
  <2>1. Started(j, for, pool) = Idle
    BY <1>1, Zenon DEF Started
  <2> QED
    BY <2>1, IdleOk, Zenon
<1>2. CASE Pool(pool) # <<>>
  <2> DEFINE x == [j EXCEPT !.at = "read", !.for = for, !.pool = pool, !.next = 2, !.best = Pool(pool)[1], !.calm = TRUE]
  <2>1. Started(j, for, pool) = x
    BY <1>2, Zenon DEF Started, Scan
  <2>2. x = [f \in JobFields |-> x[f]] /\ x.at = "read" /\ x.next = 2 /\ x.pool = pool /\ x.best = Pool(pool)[1]
    BY ZenonT(60) DEF JobFields
  <2> HIDE DEF x
  <2> QED
    BY <1>2, <2>1, <2>2, FreshOk, Zenon
<1> QED
  BY <1>1, <1>2, Zenon

LEMMA PlaceOk ==
  ASSUME NEW j, j = [f \in JobFields |-> j[f]], NEW x, x = Place(j)
  PROVE  JobOk(x) /\ JobOk(x)' /\ x.at # "proxy"
<1>1. \E for, pool : x = Started(j, for, pool)
  BY Zenon DEF Place
<1> QED
  BY <1>1, StartedOk, Zenon

(* A step of one request that neither takes nor frees a backend. *)
LEMMA QuietStep ==
  ASSUME SelectionInv, NEW t \in Requests, NEW j, JobOk(j), job[t].at # "proxy", j.at # "proxy",
         job' = [u \in Requests |-> IF u = t THEN j ELSE job[u]],
         UNCHANGED <<setup, inflight, ewma, told>>
  PROVE  SelectionInv'
<1>1. Loads'
  BY Zenon DEF SelectionInv, Loads
<1>2. ASSUME NEW u \in Requests PROVE JobOk(job[u])'
  <2>1. JobOk(job[u])
    BY Zenon DEF SelectionInv, Jobs
  <2>2. JobOk(job'[u])
    BY <2>1, Zenon
  <2> QED
    BY <2>2, JobSame, Zenon
<1>3. Jobs'
  BY <1>2, Zenon DEF Jobs
<1>4. Counted'
  <2>1. ASSUME NEW b \in Backends PROVE Proxied(b)' = Proxied(b)
    BY Zenon DEF Proxied
  <2> QED
    BY <2>1, Zenon DEF SelectionInv, Counted
<1>5. \A b \in Backends : Told(b)'
  BY Zenon DEF SelectionInv, Told
<1> QED
  BY <1>1, <1>3, <1>4, <1>5, Zenon DEF SelectionInv

(* The form of a step that changes some fields of one job. *)
LEMMA JobIs ==
  ASSUME SelectionInv, NEW t \in Requests
  PROVE  job = [u \in Requests |-> job[u]] /\ JobOk(job[t]) /\ job[t] = [f \in JobFields |-> job[t][f]]
  BY Zenon DEF SelectionInv, Jobs, JobOk

LEMMA RouteStep ==
  ASSUME SelectionInv, NEW t \in Requests, RouteDecodeOnly(t) \/ RouteShort(t) \/ RouteLong(t)
  PROVE  SelectionInv'
<1>1. job[t].at = "idle" /\ UNCHANGED <<setup, inflight, ewma, told>> /\ setup \in Setups
  BY Zenon DEF RouteDecodeOnly, RouteShort, RouteLong, SelectionInv, Loads
<1>2. job = [u \in Requests |-> job[u]]
  BY JobIs, Zenon
<1>3. ASSUME NEW for, NEW pool, StartScan(t, for, pool) PROVE SelectionInv'
  <2> DEFINE j == Started(Idle, for, pool)
  <2>1. JobOk(j) /\ j.at # "proxy"
    BY IdleOk, StartedOk, Zenon
  <2>2. job' = [job EXCEPT ![t] = j]
    BY <1>3, Zenon DEF StartScan
  <2> HIDE DEF j
  <2>3. job' = [u \in Requests |-> IF u = t THEN j ELSE job[u]]
    BY <1>2, <2>2, Zenon
  <2> QED
    BY <1>1, <2>1, <2>3, QuietStep, Zenon
<1>4. ASSUME warmth_override_target # NoSeat,
             job' = [job EXCEPT ![t] = [Idle EXCEPT !.at = "prefilling", !.pf = warmth_override_target]]
      PROVE  SelectionInv'
  <2> DEFINE w == warmth_override_target
  <2> DEFINE j == [Idle EXCEPT !.at = "prefilling", !.pf = w]
  <2>1. w \in Backends
    <3> DEFINE ps == Pool("pf")
    <3> DEFINE cost == [b \in Range(ps) |-> -pool_hit_strength(b)]
    <3>1. w = FirstMin(ps, cost) /\ \E i \in DOMAIN ps : pool_hit_strength(ps[i]) >= 1
      BY <1>4, Zenon DEF warmth_override_target
    <3>2. ps \in Seq(Backends) /\ Range(ps) \subseteq Backends
      BY PoolIs, Zenon
    <3>3. \A b \in Backends : pool_hit_strength(b) \in {0, 1, 2}
      BY <1>1, SetupIs DEF pool_hit_strength, Greater, Absent
    <3> DEFINE c == -2
    <3>4. \A b \in Range(ps) : cost[b] \in Int /\ c <= cost[b]
      BY <3>2, <3>3
    <3>5. \A k \in DOMAIN ps : ps[k] \in Range(ps)
      BY Zenon DEF Range
    <3>6. ps # <<>> /\ c \in Int
      BY <3>1, <3>2
    <3> HIDE DEF ps, cost, c, w
    <3>7. FirstMin(ps, cost) \in Range(ps)
      BY <3>2, <3>4, <3>5, <3>6, FirstMinLeast, Zenon
    <3> QED
      BY <3>1, <3>2, <3>7, Zenon
  <2> HIDE DEF w
  <2>2. j = [f \in JobFields |-> j[f]] /\ j.at = "prefilling" /\ j.pf = w
    BY IdleOk, Zenon DEF JobFields
  <2>3. job' = [job EXCEPT ![t] = j]
    BY <1>4, Zenon DEF w
  <2> HIDE DEF j
  <2>4. JobOk(j)
    BY <2>1, <2>2, Zenon DEF JobOk, Scanning
  <2>5. job' = [u \in Requests |-> IF u = t THEN j ELSE job[u]]
    BY <1>2, <2>3, Zenon
  <2> QED
    BY <1>1, <2>2, <2>4, <2>5, QuietStep, Zenon
<1> QED
  BY <1>3, <1>4, Zenon DEF RouteDecodeOnly, RouteShort, RouteLong

LEMMA ReadBestStep ==
  ASSUME SelectionInv, NEW t \in Requests, ReadBest(t)
  PROVE  SelectionInv'
<1> DEFINE j == job[t]
<1> DEFINE cost == Read(j, j.best)
<1> DEFINE at == IF j.next > Len(Pool(j.pool)) THEN "chosen" ELSE "weigh"
<1> DEFINE n == [j EXCEPT !.seen = cost, !.at = at]
<1>1. job = [u \in Requests |-> job[u]] /\ JobOk(j) /\ j = [f \in JobFields |-> j[f]] /\ Loads
  BY JobIs, Zenon DEF SelectionInv
<1>2. j.at = "read" /\ UNCHANGED <<setup, inflight, ewma, told>>
  BY Zenon DEF ReadBest
<1>3. job' = [job EXCEPT ![t].seen = cost, ![t].at = at]
  BY Zenon DEF ReadBest
<1> HIDE DEF cost, at
<1>4. /\ n = [f \in JobFields |-> n[f]] /\ n.seen = cost /\ n.at = at
      /\ \A f \in JobFields \ {"seen", "at"} : n[f] = j[f]
  BY <1>1, Zenon DEF JobFields
<1>5. job' = [u \in Requests |-> IF u = t THEN n ELSE job[u]]
  BY <1>1, <1>3, Zenon
<1> HIDE DEF n, j
<1>6. n.for = j.for /\ n.pool = j.pool /\ n.next = j.next /\ n.best = j.best /\ n.pf = j.pf /\ n.calm = j.calm
  BY <1>4, Zenon DEF JobFields
<1>7. ScanOk(j)
  BY <1>1, <1>2, Zenon DEF JobOk, Scanning
<1>8. j.next \in Int /\ Len(Pool(j.pool)) \in Nat /\ j.next <= Len(Pool(j.pool)) + 1 /\ j.best \in Backends
  <2>1. Pool(j.pool) \in Seq(Backends)
    BY PoolIs, Zenon
  <2> QED
    BY <1>7, <2>1, SMTT(30) DEF ScanOk
<1>9. \A b : Read(n, b) = Read(j, b)
  BY <1>6, Zenon DEF Read
<1>10. cost \in Int /\ (broken(j.best) <=> cost >= Floor) /\ Floor \in Int
  <2>1. cost \in Int /\ (broken(j.best) => cost >= Floor) /\ (~broken(j.best) => cost < Floor) /\ Floor \in Int
    BY <1>1, <1>8, ReadSplits, TopMax DEF cost, Floor
  <2> QED
    BY <2>1
<1>11. ScanOk(n)
  <2>1. n.at = "weigh" => n.next <= Len(Pool(n.pool))
    BY <1>4, <1>6, <1>8 DEF at
  <2>2. n.at = "chosen" => n.next = Len(Pool(n.pool)) + 1
    BY <1>4, <1>6, <1>8 DEF at
  <2>3. n.seen = Read(n, n.best)
    BY <1>4, <1>6, <1>9, Zenon DEF cost
  <2> DEFINE pool == Pool(j.pool)
  <2>4. Pool(n.pool) = pool
    BY <1>6, Zenon
  <2>5. \E i \in 1..n.next - 1 :
          /\ n.best = pool[i]
          /\ n.calm => \A k \in 1..n.next - 1 :
               Read(n, pool[i]) < Read(n, pool[k]) \/ (Read(n, pool[i]) = Read(n, pool[k]) /\ i <= k)
    BY <1>6, <1>7, <1>9, SMTT(30) DEF ScanOk
  <2>6. n.next \in 2..Len(pool) + 1 /\ (broken(n.best) => \A k \in 1..n.next - 1 : broken(pool[k]))
    BY <1>6, <1>7, Zenon DEF ScanOk
  <2>7. n.seen \in Int /\ (broken(n.best) <=> n.seen >= Floor)
    BY <1>4, <1>6, <1>10, Zenon
  <2> HIDE DEF pool
  <2> QED
    BY <2>1, <2>2, <2>3, <2>4, <2>5, <2>6, <2>7, Zenon DEF ScanOk
<1>12. JobOk(n) /\ n.at # "proxy"
  BY <1>4, <1>11, Zenon DEF JobOk, at
<1> QED
  BY <1>2, <1>5, <1>12, QuietStep, Zenon DEF j

LEMMA WeighStep ==
  ASSUME SelectionInv, NEW t \in Requests, Weigh(t)
  PROVE  SelectionInv'
<1> DEFINE j == job[t]
<1> DEFINE pool == Pool(j.pool)
<1> DEFINE candidate == pool[j.next]
<1> DEFINE cost == Read(j, candidate)
<1> DEFINE best == IF cost < j.seen THEN candidate ELSE j.best
<1> DEFINE seen == IF cost < j.seen THEN cost ELSE j.seen
<1> DEFINE at == IF j.next = Len(pool) THEN "chosen" ELSE IF j.for = "place" THEN "weigh" ELSE "read"
<1> DEFINE n == [j EXCEPT !.best = best, !.seen = seen, !.next = j.next + 1, !.at = at]
<1>1. job = [u \in Requests |-> job[u]] /\ JobOk(j) /\ j = [f \in JobFields |-> j[f]] /\ Loads
  BY JobIs, Zenon DEF SelectionInv
<1>2. j.at = "weigh" /\ UNCHANGED <<setup, inflight, ewma, told>>
  BY Zenon DEF Weigh
<1>3. job' = [job EXCEPT ![t].best = best, ![t].seen = seen, ![t].next = j.next + 1, ![t].at = at]
  BY <1>1, Zenon DEF Weigh
<1> HIDE DEF best, seen, at
<1>4. /\ n = [f \in JobFields |-> n[f]] /\ n.best = best /\ n.seen = seen /\ n.next = j.next + 1 /\ n.at = at
      /\ \A f \in JobFields \ {"best", "seen", "next", "at"} : n[f] = j[f]
  BY <1>1, Zenon DEF JobFields
<1>5. job' = [u \in Requests |-> IF u = t THEN n ELSE job[u]]
  BY <1>1, <1>3, Zenon
<1> HIDE DEF n, j
<1>6. n.for = j.for /\ n.pool = j.pool /\ n.pf = j.pf /\ n.calm = j.calm
  BY <1>4, Zenon DEF JobFields
<1>7. ScanOk(j)
  BY <1>1, <1>2, Zenon DEF JobOk, Scanning
<1>8. pool \in Seq(Backends)
  BY PoolIs, Zenon
<1>9. /\ j.next \in 2..Len(pool) + 1 /\ j.next <= Len(pool) /\ j.seen \in Int
      /\ broken(j.best) <=> j.seen >= Floor
      /\ broken(j.best) => \A k \in 1..j.next - 1 : broken(pool[k])
      /\ j.calm => j.seen = Read(j, j.best)
  BY <1>2, <1>7, Zenon DEF ScanOk
<1>10. PICK i \in 1..j.next - 1 :
         /\ j.best = pool[i]
         /\ j.calm => \A k \in 1..j.next - 1 :
              Read(j, pool[i]) < Read(j, pool[k]) \/ (Read(j, pool[i]) = Read(j, pool[k]) /\ i <= k)
  BY <1>7, Zenon DEF ScanOk
<1>11. \A k \in 1..Len(pool) : Read(j, pool[k]) \in Int /\ (broken(pool[k]) <=> Read(j, pool[k]) >= Floor)
  <2> SUFFICES ASSUME NEW k \in 1..Len(pool)
               PROVE  Read(j, pool[k]) \in Int /\ (broken(pool[k]) <=> Read(j, pool[k]) >= Floor)
    BY Zenon
  <2>1. pool[k] \in Backends
    BY <1>8
  <2>2. /\ Read(j, pool[k]) \in Int /\ Floor \in Int
        /\ broken(pool[k]) => Read(j, pool[k]) >= Floor
        /\ ~broken(pool[k]) => Read(j, pool[k]) < Floor
    BY <1>1, <2>1, ReadSplits, TopMax DEF Floor
  <2> QED
    BY <2>2
<1>12. \A b : Read(n, b) = Read(j, b)
  BY <1>6, Zenon DEF Read
<1>13. Len(pool) \in Nat /\ j.next \in 1..Len(pool) /\ j.next \in Int /\ i \in Int /\ Floor \in Int
  BY <1>8, <1>9, TopMax, SMTT(30) DEF Floor
<1>14. \A k \in 1..j.next : k = j.next \/ k \in 1..j.next - 1
  BY <1>13
<1> HIDE DEF pool
<1>15. cost \in Int /\ (broken(candidate) <=> cost >= Floor)
  BY <1>11, <1>13, Zenon
<1>16. \E m \in 1..j.next :
         /\ best = pool[m]
         /\ n.calm => \A k \in 1..j.next :
              Read(j, pool[m]) < Read(j, pool[k]) \/ (Read(j, pool[m]) = Read(j, pool[k]) /\ m <= k)
  <2>1. CASE cost < j.seen
    <3>1. best = pool[j.next] /\ j.next \in 1..j.next
      BY <1>13, <2>1 DEF best
    <3>2. ASSUME n.calm, NEW k \in 1..j.next - 1 PROVE cost < Read(j, pool[k])
      <4>1. j.seen = Read(j, pool[i])
        BY <1>6, <1>9, <1>10, <3>2, Zenon
      <4>2. Read(j, pool[i]) < Read(j, pool[k]) \/ Read(j, pool[i]) = Read(j, pool[k])
        BY <1>6, <1>10, <3>2, Zenon
      <4>3. Read(j, pool[k]) \in Int
        BY <1>11, <1>13
      <4> QED
        BY <1>9, <1>15, <2>1, <4>1, <4>2, <4>3
    <3>3. n.calm => \A k \in 1..j.next :
            Read(j, pool[j.next]) < Read(j, pool[k]) \/ (Read(j, pool[j.next]) = Read(j, pool[k]) /\ j.next <= k)
      BY <1>13, <1>14, <3>2
    <3> QED
      BY <3>1, <3>3, Zenon
  <2>2. CASE ~(cost < j.seen)
    <3>1. best = pool[i] /\ i \in 1..j.next
      BY <1>10, <1>13, <2>2 DEF best
    <3>2. ASSUME n.calm
          PROVE  Read(j, pool[i]) < cost \/ (Read(j, pool[i]) = cost /\ i <= j.next)
      <4>1. j.seen = Read(j, pool[i])
        BY <1>6, <1>9, <1>10, <3>2, Zenon
      <4> QED
        BY <1>9, <1>13, <1>15, <2>2, <4>1, SMTT(30)
    <3>3. n.calm => \A k \in 1..j.next :
            Read(j, pool[i]) < Read(j, pool[k]) \/ (Read(j, pool[i]) = Read(j, pool[k]) /\ i <= k)
      BY <1>6, <1>10, <1>14, <3>2, Zenon
    <3> QED
      BY <3>1, <3>3, Zenon
  <2> QED
    BY <2>1, <2>2, Zenon
<1>17. seen \in Int /\ (broken(best) <=> seen >= Floor)
  <2>1. CASE cost < j.seen
    BY <1>15, <2>1, Zenon DEF best, seen
  <2>2. CASE ~(cost < j.seen)
    BY <1>9, <2>2, Zenon DEF best, seen
  <2> QED
    BY <2>1, <2>2, Zenon
<1>18. ASSUME broken(best) PROVE \A k \in 1..j.next : broken(pool[k])
  <2>1. seen >= Floor
    BY <1>17, <1>18, Zenon
  <2>2. j.seen >= Floor /\ cost >= Floor
    BY <1>9, <1>13, <1>15, <2>1, SMTT(30) DEF seen
  <2> QED
    BY <1>9, <1>14, <1>15, <2>2, Zenon
<1>19. n.calm => seen = Read(j, best)
  BY <1>6, <1>9, Zenon DEF seen, best
<1>20. ScanOk(n)
  <2>1. n.next - 1 = j.next /\ Pool(n.pool) = pool
    BY <1>4, <1>6, <1>13, SMTT(30) DEF pool
  <2>2. n.next \in 2..Len(pool) + 1
    <3>1. \A x \in Nat : \A m \in 1..x : m + 1 \in 2..x + 1
      OBVIOUS
    <3> QED
      BY <1>4, <1>13, <3>1, Zenon
  <2>3. n.at = "weigh" => n.next <= Len(pool)
    BY <1>4, <1>13, SMTT(30) DEF at
  <2>4. n.at = "chosen" => n.next = Len(pool) + 1
    BY <1>4, <1>13, Zenon DEF at
  <2>5. \E m \in 1..n.next - 1 :
          /\ n.best = pool[m]
          /\ n.calm => \A k \in 1..n.next - 1 :
               Read(n, pool[m]) < Read(n, pool[k]) \/ (Read(n, pool[m]) = Read(n, pool[k]) /\ m <= k)
    BY <1>4, <1>12, <1>16, <2>1
  <2>6. broken(n.best) => \A k \in 1..n.next - 1 : broken(pool[k])
    BY <1>4, <1>18, <2>1, Zenon
  <2>7. n.seen \in Int /\ (broken(n.best) <=> n.seen >= Floor) /\ (n.calm => n.seen = Read(n, n.best))
    BY <1>4, <1>12, <1>17, <1>19, Zenon
  <2> QED
    BY <2>1, <2>2, <2>3, <2>4, <2>5, <2>6, <2>7, Zenon DEF ScanOk
<1>21. JobOk(n) /\ n.at # "proxy"
  BY <1>4, <1>20, Zenon DEF JobOk, at
<1> QED
  BY <1>2, <1>5, <1>21, QuietStep, Zenon DEF j

(* A step that takes or frees a backend disturbs the other scans. *)
LEMMA LoadStep ==
  ASSUME SelectionInv, NEW t \in Requests, NEW p, JobOk(p), ~Scanning(p),
         job' = Disturb([job EXCEPT ![t] = p]), UNCHANGED <<setup, ewma, told>>,
         inflight' \in [Backends -> Nat],
         \A b \in Backends : inflight'[b] =
           Cardinality({u \in Requests : IF u = t THEN p.at = "proxy" /\ p.best = b ELSE u \in Proxied(b)})
  PROVE  SelectionInv'
<1> DEFINE x(u) == IF u = t THEN p ELSE job[u]
<1> DEFINE d(u) == [x(u) EXCEPT !.calm = @ /\ ~Scanning(x(u))]
<1>1. job' = [u \in Requests |-> d(u)]
  <2>1. \A u \in Requests : [job EXCEPT ![t] = p][u] = x(u)
    BY JobIs, Zenon
  <2> QED
    BY <2>1 DEF Disturb
<1>2. ASSUME NEW u \in Requests PROVE JobOk(x(u))
  BY JobIs, Zenon
<1>3. ASSUME NEW u \in Requests PROVE d(u).at = x(u).at /\ d(u).best = x(u).best
  <2>1. x(u) = [f \in JobFields |-> x(u)[f]]
    BY <1>2, Zenon DEF JobOk
  <2> HIDE DEF x
  <2> QED
    BY <2>1, Zenon DEF JobFields
<1>4. ASSUME NEW u \in Requests PROVE JobOk(job[u])'
  <2>1. JobOk(x(u))
    BY <1>2, Zenon
  <2>2. job'[u] = d(u)
    BY <1>1, Zenon
  <2>3. PICK y : y = x(u)
    BY Zenon
  <2>4. JobOk([y EXCEPT !.calm = @ /\ ~Scanning(y)])'
    BY <2>1, <2>3, Disturbed, Zenon
  <2>5. job'[u] = [y EXCEPT !.calm = @ /\ ~Scanning(y)]
    BY <2>2, <2>3, Zenon
  <2> HIDE DEF x, d
  <2> QED
    BY <2>4, <2>5, Zenon
<1>5. Jobs'
  <2>1. job' = [u \in Requests |-> job'[u]]
    BY <1>1, Zenon
  <2> QED
    BY <1>4, <2>1, Zenon DEF Jobs
<1>6. Counted'
  <2> SUFFICES ASSUME NEW b \in Backends PROVE inflight'[b] = Cardinality(Proxied(b)')
    BY Zenon DEF Counted
  <2>1. ASSUME NEW u \in Requests
        PROVE  u \in Proxied(b)' <=> IF u = t THEN p.at = "proxy" /\ p.best = b ELSE u \in Proxied(b)
    <3>1. job'[u].at = x(u).at /\ job'[u].best = x(u).best
      BY <1>1, <1>3, ZenonT(60)
    <3>2. u \in Proxied(b)' <=> x(u).at = "proxy" /\ x(u).best = b
      BY <3>1, Zenon DEF Proxied
    <3> QED
      BY <3>2, Zenon DEF Proxied
  <2>2. Proxied(b)' \subseteq Requests
    BY Zenon DEF Proxied
  <2>3. Proxied(b)' = {u \in Requests : IF u = t THEN p.at = "proxy" /\ p.best = b ELSE u \in Proxied(b)}
    BY <2>1, <2>2, Zenon
  <2> QED
    BY <2>3, Zenon
<1>7. Loads'
  BY Zenon DEF SelectionInv, Loads
<1>8. \A b \in Backends : Told(b)'
  BY Zenon DEF SelectionInv, Told
<1> QED
  BY <1>5, <1>6, <1>7, <1>8, Zenon DEF SelectionInv

LEMMA ProxiedFinite ==
  ASSUME NEW b
  PROVE  IsFiniteSet(Proxied(b)) /\ Cardinality(Proxied(b)) \in Nat
<1>1. Proxied(b) \subseteq Requests /\ IsFiniteSet(Requests)
  BY SelectionAssumption, Zenon DEF Proxied
<1>2. IsFiniteSet(Proxied(b))
  BY <1>1, FS_Subset, Zenon
<1> QED
  BY <1>2, FS_CardinalityType, Zenon

LEMMA ChosenBest ==
  ASSUME SelectionInv, NEW t \in Requests, job[t].at = "chosen"
  PROVE  job[t].best \in Backends
<1>1. ScanOk(job[t])
  BY JobIs, Zenon DEF JobOk, Scanning
<1>2. Pool(job[t].pool) \in Seq(Backends)
  BY PoolIs, Zenon
<1> QED
  BY <1>1, <1>2 DEF ScanOk

LEMMA CommitStep ==
  ASSUME SelectionInv, NEW t \in Requests, Commit(t)
  PROVE  SelectionInv'
<1> DEFINE best == job[t].best
<1>1. job[t].at = "chosen" /\ UNCHANGED <<setup, ewma, told>>
  BY Zenon DEF Commit
<1>2. best \in Backends
  BY <1>1, ChosenBest, Zenon
<1>3. job = [u \in Requests |-> job[u]] /\ inflight \in [Backends -> Nat]
  BY JobIs, Zenon DEF SelectionInv, Loads
<1>4. CASE job[t].for = "prefill"
  <2> DEFINE j == [Idle EXCEPT !.at = "prefilling", !.pf = best]
  <2>1. job' = [job EXCEPT ![t] = j] /\ inflight' = inflight
    BY <1>4, Zenon DEF Commit
  <2> HIDE DEF best
  <2>2. j = [f \in JobFields |-> j[f]] /\ j.at = "prefilling" /\ j.pf = best
    BY IdleOk, Zenon DEF JobFields
  <2> HIDE DEF j
  <2>3. JobOk(j)
    BY <1>2, <2>2, Zenon DEF JobOk, Scanning
  <2>4. job' = [u \in Requests |-> IF u = t THEN j ELSE job[u]]
    BY <1>3, <2>1, Zenon
  <2> QED
    BY <1>1, <2>1, <2>2, <2>3, <2>4, QuietStep, Zenon
<1>5. CASE job[t].for # "prefill"
  <2> DEFINE p == [Idle EXCEPT !.at = "proxy", !.best = best]
  <2>1. job' = Disturb([job EXCEPT ![t] = p]) /\ inflight' = [inflight EXCEPT ![best] = @ + 1]
    BY <1>5, Zenon DEF Commit
  <2> HIDE DEF best
  <2>2. p = [f \in JobFields |-> p[f]] /\ p.at = "proxy" /\ p.best = best
    BY IdleOk, Zenon DEF JobFields
  <2> HIDE DEF p
  <2>3. ~Scanning(p)
    BY <2>2, Zenon DEF Scanning
  <2>4. JobOk(p)
    BY <1>2, <2>2, <2>3, Zenon DEF JobOk
  <2>5. inflight' \in [Backends -> Nat]
    BY <1>2, <1>3, <2>1
  <2>6. ASSUME NEW b \in Backends
        PROVE  inflight'[b] = Cardinality({u \in Requests : IF u = t THEN p.at = "proxy" /\ p.best = b ELSE u \in Proxied(b)})
    <3> DEFINE new == {u \in Requests : IF u = t THEN p.at = "proxy" /\ p.best = b ELSE u \in Proxied(b)}
    <3>1. t \notin Proxied(b) /\ Proxied(b) \subseteq Requests
      BY <1>1, Zenon DEF Proxied
    <3>2. inflight[b] = Cardinality(Proxied(b))
      BY Zenon DEF SelectionInv, Counted
    <3>3. CASE b = best
      <4>1. new = Proxied(b) \cup {t}
        BY <2>2, <3>1, <3>3, Zenon
      <4>2. Cardinality(new) = Cardinality(Proxied(b)) + 1
        BY <3>1, <4>1, ProxiedFinite, FS_AddElement, Zenon
      <4>3. inflight'[b] = inflight[b] + 1
        BY <1>3, <2>1, <3>3, Zenon
      <4> QED
        BY <3>2, <4>2, <4>3, Zenon
    <3>4. CASE b # best
      <4>1. new = Proxied(b)
        BY <2>2, <3>1, <3>4, Zenon
      <4>2. inflight'[b] = inflight[b]
        BY <1>3, <2>1, <3>4, Zenon
      <4> QED
        BY <3>2, <4>1, <4>2, Zenon
    <3> QED
      BY <3>3, <3>4, Zenon
  <2> QED
    BY <1>1, <2>1, <2>3, <2>4, <2>5, <2>6, LoadStep, Zenon
<1> QED
  BY <1>4, <1>5, Zenon

LEMMA FinishStep ==
  ASSUME SelectionInv, NEW t \in Requests, Finish(t)
  PROVE  SelectionInv'
<1> DEFINE best == job[t].best
<1>1. /\ job[t].at = "proxy" /\ UNCHANGED <<setup, ewma, told>>
      /\ job' = Disturb([job EXCEPT ![t] = Idle]) /\ inflight' = [inflight EXCEPT ![best] = @ - 1]
  BY Zenon DEF Finish
<1>2. best \in Backends
  BY <1>1, JobIs, Zenon DEF JobOk
<1>3. inflight \in [Backends -> Nat]
  BY Zenon DEF SelectionInv, Loads
<1>4. \A b \in Backends : inflight[b] = Cardinality(Proxied(b))
  BY Zenon DEF SelectionInv, Counted
<1>5. t \in Proxied(best) /\ \A b : b # best => t \notin Proxied(b)
  BY <1>1, Zenon DEF Proxied
<1> HIDE DEF best
<1>6. Cardinality(Proxied(best) \ {t}) = Cardinality(Proxied(best)) - 1 /\ Cardinality(Proxied(best) \ {t}) \in Nat
  <2>1. Cardinality(Proxied(best) \ {t}) = Cardinality(Proxied(best)) - 1 /\ IsFiniteSet(Proxied(best) \ {t})
    BY <1>5, ProxiedFinite, FS_RemoveElement, Zenon
  <2> QED
    BY <2>1, FS_CardinalityType, Zenon
<1>7. inflight' \in [Backends -> Nat]
  BY <1>1, <1>2, <1>3, <1>4, <1>6, Zenon
<1>8. ASSUME NEW b \in Backends
      PROVE  inflight'[b] = Cardinality({u \in Requests : IF u = t THEN Idle.at = "proxy" /\ Idle.best = b ELSE u \in Proxied(b)})
  <2> DEFINE new == {u \in Requests : IF u = t THEN Idle.at = "proxy" /\ Idle.best = b ELSE u \in Proxied(b)}
  <2>1. Proxied(b) \subseteq Requests /\ Idle.at # "proxy"
    BY IdleOk, Zenon DEF Proxied
  <2>2. new = Proxied(b) \ {t}
    BY <2>1, Zenon
  <2>3. CASE b = best
    BY <1>1, <1>2, <1>3, <1>4, <1>6, <2>2, <2>3, Zenon
  <2>4. CASE b # best
    <3>1. new = Proxied(b)
      BY <1>5, <2>2, <2>4, Zenon
    <3>2. inflight'[b] = inflight[b]
      BY <1>1, <1>3, <2>4, Zenon
    <3> QED
      BY <1>4, <3>1, <3>2, Zenon
  <2> QED
    BY <2>3, <2>4, Zenon
<1>9. JobOk(Idle) /\ ~Scanning(Idle)
  BY IdleOk, Zenon DEF Scanning
<1> QED
  BY <1>1, <1>7, <1>8, <1>9, LoadStep, Zenon

LEMMA PrefillStep ==
  ASSUME SelectionInv, NEW t \in Requests, (\E w \in Walls : PrefillDone(t, w)) \/ PrefillLost(t)
  PROVE  SelectionInv'
<1>1. job[t].at = "prefilling" /\ UNCHANGED <<setup, inflight, ewma, told>>
  BY Zenon DEF PrefillDone, PrefillLost
<1>2. job = [u \in Requests |-> job[u]] /\ JobOk(job[t]) /\ job[t] = [f \in JobFields |-> job[t][f]]
  BY JobIs, Zenon
<1>3. ASSUME NEW j, JobOk(j), j.at # "proxy", job' = [job EXCEPT ![t] = j] PROVE SelectionInv'
  <2>1. job' = [u \in Requests |-> IF u = t THEN j ELSE job[u]]
    BY <1>2, <1>3, Zenon
  <2> QED
    BY <1>1, <1>3, <2>1, QuietStep, Zenon
<1>4. ASSUME NEW w \in Walls, PrefillDone(t, w) PROVE SelectionInv'
  <2>1. CASE w = 0
    <3>1. PICK x : x = Place(job[t])
      BY Zenon
    <3>2. job' = [job EXCEPT ![t] = x]
      BY <1>4, <2>1, <3>1, Zenon DEF PrefillDone
    <3>3. JobOk(x) /\ x.at # "proxy"
      BY <1>2, <3>1, PlaceOk, Zenon
    <3> QED
      BY <1>3, <3>2, <3>3, Zenon
  <2>2. CASE w # 0
    <3> DEFINE j == [job[t] EXCEPT !.at = "noting", !.wall = w]
    <3>1. job' = [job EXCEPT ![t] = j]
      BY <1>4, <2>2, Zenon DEF PrefillDone
    <3>2. j = [f \in JobFields |-> j[f]] /\ j.at = "noting" /\ j.wall = w /\ j.pf = job[t].pf
      BY <1>2, Zenon DEF JobFields
    <3>3. job[t].pf \in Backends /\ w \in Nat
      BY <1>1, <1>2, SelectionAssumption, Zenon DEF JobOk
    <3> HIDE DEF j
    <3>4. JobOk(j)
      BY <3>2, <3>3, Zenon DEF JobOk, Scanning
    <3> QED
      BY <1>3, <3>1, <3>2, <3>4, Zenon
  <2> QED
    BY <2>1, <2>2, Zenon
<1>5. ASSUME PrefillLost(t) PROVE SelectionInv'
  <2>1. job' = [job EXCEPT ![t] = Idle]
    BY <1>5, Zenon DEF PrefillLost
  <2> QED
    BY <1>3, <2>1, IdleOk, Zenon
<1> QED
  BY <1>4, <1>5, Zenon

LEMMA NoteStep ==
  ASSUME SelectionInv, NEW t \in Requests, NoteLoad(t) \/ NoteRetry(t)
  PROVE  SelectionInv'
<1> DEFINE o == job[t]
<1>1. job = [u \in Requests |-> job[u]] /\ JobOk(o) /\ o = [f \in JobFields |-> o[f]] /\ ewma \in [Backends -> Nat]
  BY JobIs, Zenon DEF SelectionInv, Loads
<1>2. o.at \in {"noting", "exchange"} /\ UNCHANGED <<setup, inflight, ewma, told>>
  BY Zenon DEF NoteLoad, NoteRetry
<1>3. o.pf \in Backends /\ o.wall \in Nat
  BY <1>1, <1>2, Zenon DEF JobOk
<1>4. ASSUME NEW j, j = [f \in JobFields |-> j[f]], j.pf = o.pf, j.wall = o.wall,
             j.at = "noting" \/ (j.at = "exchange" /\ j.seen \in Nat),
             job' = [u \in Requests |-> IF u = t THEN j ELSE job[u]]
      PROVE  SelectionInv'
  <2>1. JobOk(j) /\ j.at # "proxy"
    BY <1>3, <1>4, Zenon DEF JobOk, Scanning
  <2> QED
    BY <1>2, <1>4, <2>1, QuietStep, Zenon
<1>5. CASE NoteLoad(t)
  <2> DEFINE seen == ewma[o.pf]
  <2> DEFINE j == [o EXCEPT !.at = "exchange", !.seen = seen]
  <2>1. job' = [job EXCEPT ![t].at = "exchange", ![t].seen = seen]
    BY <1>5, Zenon DEF NoteLoad
  <2>2. seen \in Nat
    BY <1>1, <1>3, Zenon
  <2> HIDE DEF seen
  <2>3. j = [f \in JobFields |-> j[f]] /\ j.at = "exchange" /\ j.seen = seen /\ j.pf = o.pf /\ j.wall = o.wall
    BY <1>1, Zenon DEF JobFields
  <2>4. job' = [u \in Requests |-> IF u = t THEN j ELSE job[u]]
    BY <1>1, <2>1, Zenon
  <2> HIDE DEF j, o
  <2> QED
    BY <1>4, <2>2, <2>3, <2>4, Zenon
<1>6. CASE NoteRetry(t)
  <2> DEFINE j == [o EXCEPT !.at = "noting"]
  <2>1. job' = [job EXCEPT ![t].at = "noting"]
    BY <1>6, Zenon DEF NoteRetry
  <2>2. j = [f \in JobFields |-> j[f]] /\ j.at = "noting" /\ j.pf = o.pf /\ j.wall = o.wall
    BY <1>1, Zenon DEF JobFields
  <2>3. job' = [u \in Requests |-> IF u = t THEN j ELSE job[u]]
    BY <1>1, <2>1, Zenon
  <2> HIDE DEF j, o
  <2> QED
    BY <1>4, <2>2, <2>3, Zenon
<1> QED
  BY <1>5, <1>6, Zenon

(* One more wall is one more step of the average. *)
LEMMA AveragingOn ==
  ASSUME NEW s \in Seq(Nat), NEW g, Averaging(g, s), NEW w \in Nat
  PROVE  \E h : Averaging(h, Append(s, w)) /\ h[Len(Append(s, w))] = Ewma(g[Len(s)], w)
<1> DEFINE n == Len(s)
<1> DEFINE a == Ewma(g[n], w)
<1> DEFINE h == [k \in 0..n + 1 |-> IF k = n + 1 THEN a ELSE g[k]]
<1> DEFINE z == Append(s, w)
<1>1. n \in Nat /\ g \in [0..n -> Nat] /\ g[0] = 0 /\ \A k \in 1..n : g[k] = Ewma(g[k - 1], s[k])
  BY DEF Averaging
<1>2. a \in Nat
  <2>1. g[n] \in Nat
    BY <1>1
  <2>2. \A x, y \in Nat : (y + 3 * x) \div 4 \in Nat
    OBVIOUS
  <2> QED
    BY <2>1, <2>2, Zenon DEF Ewma
<1>3. z \in Seq(Nat) /\ Len(z) = n + 1 /\ z[n + 1] = w /\ \A k \in 1..n : z[k] = s[k]
  OBVIOUS
<1> HIDE DEF a, n, z
<1>4. h \in [0..n + 1 -> Nat] /\ h[0] = 0 /\ h[n + 1] = a /\ \A k \in 0..n : h[k] = g[k]
  BY <1>1, <1>2, SMTT(30)
<1> HIDE DEF h
<1>5. ASSUME NEW k \in 1..n + 1 PROVE h[k] = Ewma(h[k - 1], z[k])
  <2>1. CASE k = n + 1
    <3>1. k - 1 = n /\ n \in 0..n
      BY <1>1, <2>1
    <3> QED
      BY <1>3, <1>4, <2>1, <3>1, Zenon DEF a
  <2>2. CASE k # n + 1
    <3>1. k \in 1..n /\ k \in 0..n /\ k - 1 \in 0..n
      BY <1>1, <2>2
    <3> QED
      BY <1>1, <1>3, <1>4, <3>1, Zenon
  <2> QED
    BY <2>1, <2>2, Zenon
<1>6. Averaging(h, z)
  BY <1>3, <1>4, <1>5, Zenon DEF Averaging
<1> QED
  BY <1>3, <1>4, <1>6, Zenon DEF a, n, z

LEMMA ExchangeStep ==
  ASSUME SelectionInv, NEW t \in Requests, NoteExchange(t)
  PROVE  SelectionInv'
<1> DEFINE o == job[t]
<1> DEFINE pf == o.pf
<1> DEFINE avg == Ewma(ewma[pf], o.wall)
<1>1. /\ job = [u \in Requests |-> job[u]] /\ JobOk(o) /\ o = [f \in JobFields |-> o[f]]
      /\ ewma \in [Backends -> Nat] /\ told = [b \in Backends |-> told[b]]
  BY JobIs, Zenon DEF SelectionInv, Loads
<1>2. /\ o.at = "exchange" /\ UNCHANGED <<setup, inflight>>
      /\ ewma' = [ewma EXCEPT ![pf] = avg] /\ told' = [told EXCEPT ![pf] = Append(@, o.wall)]
  BY Zenon DEF NoteExchange, Noted
<1>3. PICK x : x = Place(o)
  BY Zenon
<1>4. job' = [Disturb(job) EXCEPT ![t] = x]
  BY <1>3, Zenon DEF NoteExchange, Noted
<1>5. pf \in Backends /\ o.wall \in Nat
  BY <1>1, <1>2, Zenon DEF JobOk
<1>6. JobOk(x)' /\ x.at # "proxy"
  BY <1>1, <1>3, PlaceOk, Zenon
<1>7. avg \in Nat
  <2>1. ewma[pf] \in Nat
    BY <1>1, <1>5, Zenon
  <2> QED
    BY <1>5, <2>1 DEF Ewma
<1>8. Loads'
  BY <1>1, <1>2, <1>5, <1>7, Zenon DEF SelectionInv, Loads
<1> DEFINE d(u) == [job[u] EXCEPT !.calm = @ /\ ~Scanning(job[u])]
<1>9. job' = [u \in Requests |-> IF u = t THEN x ELSE d(u)]
  BY <1>4, Zenon DEF Disturb
<1>10. ASSUME NEW u \in Requests, u # t
       PROVE  JobOk(job[u])' /\ job'[u].at = job[u].at /\ job'[u].best = job[u].best
  <2>1. JobOk(job[u]) /\ job[u] = [f \in JobFields |-> job[u][f]]
    BY JobIs, Zenon
  <2>2. PICK y : y = job[u]
    BY Zenon
  <2>3. job'[u] = [y EXCEPT !.calm = @ /\ ~Scanning(y)]
    BY <1>9, <1>10, <2>2, Zenon
  <2>4. JobOk([y EXCEPT !.calm = @ /\ ~Scanning(y)])'
    BY <1>2, <2>1, <2>2, Disturbed, Zenon
  <2>5. job'[u].at = y.at /\ job'[u].best = y.best
    BY <2>1, <2>2, <2>3, Zenon DEF JobFields
  <2> QED
    BY <2>2, <2>3, <2>4, <2>5, Zenon
<1>11. Jobs'
  <2>1. JobOk(job[t])'
    BY <1>6, <1>9, Zenon
  <2>2. job' = [u \in Requests |-> job'[u]]
    BY <1>9, Zenon
  <2> QED
    BY <1>10, <2>1, <2>2, Zenon DEF Jobs
<1>12. Counted'
  <2> SUFFICES ASSUME NEW b \in Backends PROVE inflight'[b] = Cardinality(Proxied(b)')
    BY Zenon DEF Counted
  <2>1. job[t].at # "proxy" /\ job'[t].at # "proxy"
    BY <1>2, <1>6, <1>9, Zenon
  <2>2. \A u \in Requests : u \in Proxied(b)' <=> u \in Proxied(b)
    BY <1>10, <2>1, Zenon DEF Proxied
  <2>3. Proxied(b)' \subseteq Requests /\ Proxied(b) \subseteq Requests
    BY Zenon DEF Proxied
  <2>4. Proxied(b)' = Proxied(b)
    BY <2>2, <2>3, Zenon
  <2> QED
    BY <1>2, <2>4, Zenon DEF SelectionInv, Counted
<1>13. ASSUME NEW b \in Backends PROVE Told(b)'
  <2>1. Told(b)
    BY Zenon DEF SelectionInv
  <2>2. CASE b = pf
    <3>1. told'[b] = Append(told[b], o.wall) /\ ewma'[b] = Ewma(ewma[b], o.wall) /\ told[b] \in Seq(Nat)
      BY <1>1, <1>2, <2>1, <2>2, Zenon DEF Told
    <3>2. PICK g : Averaging(g, told[b]) /\ g[Len(told[b])] = ewma[b]
      BY <2>1, Zenon DEF Told
    <3>0. o.wall \in Nat
      BY <1>5
    <3> HIDE DEF o
    <3>3. PICK h : Averaging(h, Append(told[b], o.wall)) /\ h[Len(Append(told[b], o.wall))] = Ewma(ewma[b], o.wall)
      <4>1. \E h : Averaging(h, Append(told[b], o.wall)) /\ h[Len(Append(told[b], o.wall))] = Ewma(g[Len(told[b])], o.wall)
        BY <3>0, <3>1, <3>2, AveragingOn, SMTT(30)
      <4> QED
        BY <3>2, <4>1, Zenon
    <3>4. told'[b] \in Seq(Nat)
      BY <1>5, <3>1
    <3>5. Averaging(h, told'[b]) /\ h[Len(told'[b])] = ewma'[b]
      BY <3>1, <3>3, Zenon
    <3> QED
      BY <3>4, <3>5, Zenon DEF Told
  <2>3. CASE b # pf
    <3>1. told'[b] = told[b] /\ ewma'[b] = ewma[b]
      BY <1>1, <1>2, <2>3, Zenon
    <3> QED
      BY <2>1, <3>1, Zenon DEF Told
  <2> QED
    BY <2>2, <2>3, Zenon
<1>14. told' = [b \in Backends |-> told'[b]]
  BY <1>1, <1>2, Zenon
<1> QED
  BY <1>8, <1>11, <1>12, <1>13, <1>14, Zenon DEF SelectionInv

LEMMA SelectionInvInit == SelectionInit => SelectionInv
<1> SUFFICES ASSUME SelectionInit PROVE SelectionInv
  BY Zenon
<1>1. /\ setup \in Setups /\ inflight = [b \in Backends |-> 0] /\ ewma = [b \in Backends |-> 0]
      /\ told = [b \in Backends |-> <<>>] /\ job = [t \in Requests |-> Idle]
  BY Zenon DEF SelectionInit
<1>2. Loads
  BY <1>1, Zenon DEF Loads
<1>3. Counted
  <2>1. \A b \in Backends : Proxied(b) = {}
    BY <1>1, IdleOk, Zenon DEF Proxied
  <2>2. Cardinality({}) = 0
    BY FS_EmptySet, Zenon
  <2> QED
    BY <1>1, <2>1, <2>2, Zenon DEF Counted
<1>4. Jobs
  BY <1>1, IdleOk, Zenon DEF Jobs
<1>5. ASSUME NEW b \in Backends PROVE Told(b)
  <2> DEFINE g == [k \in 0..0 |-> 0]
  <2>1. told[b] = <<>> /\ ewma[b] = 0 /\ <<>> \in Seq(Nat) /\ Len(<<>>) = 0
    BY <1>1
  <2>2. Averaging(g, <<>>) /\ g[0] = 0
    BY <2>1 DEF Averaging
  <2> QED
    BY <2>1, <2>2, Zenon DEF Told
<1> QED
  BY <1>1, <1>2, <1>3, <1>4, <1>5, Zenon DEF SelectionInv

LEMMA SelectionInvStep == SelectionInv /\ [SelectionNext]_selectionVars => SelectionInv'
<1> SUFFICES ASSUME SelectionInv, [SelectionNext]_selectionVars PROVE SelectionInv'
  BY Zenon
<1>1. ASSUME NEW t \in Requests,
             \/ RouteDecodeOnly(t) \/ RouteShort(t) \/ RouteLong(t)
             \/ ReadBest(t) \/ Weigh(t) \/ Commit(t) \/ Finish(t)
             \/ \E w \in Walls : PrefillDone(t, w)
             \/ PrefillLost(t)
             \/ NoteLoad(t) \/ NoteExchange(t) \/ NoteRetry(t)
      PROVE  SelectionInv'
  <2>1. CASE RouteDecodeOnly(t) \/ RouteShort(t) \/ RouteLong(t)
    BY <2>1, RouteStep, Zenon
  <2>2. CASE ReadBest(t)
    BY <2>2, ReadBestStep, Zenon
  <2>3. CASE Weigh(t)
    BY <2>3, WeighStep, Zenon
  <2>4. CASE Commit(t)
    BY <2>4, CommitStep, Zenon
  <2>5. CASE Finish(t)
    BY <2>5, FinishStep, Zenon
  <2>6. CASE (\E w \in Walls : PrefillDone(t, w)) \/ PrefillLost(t)
    BY <2>6, PrefillStep, Zenon
  <2>7. CASE NoteLoad(t) \/ NoteRetry(t)
    BY <2>7, NoteStep, Zenon
  <2>8. CASE NoteExchange(t)
    BY <2>8, ExchangeStep, Zenon
  <2> QED
    BY <1>1, <2>1, <2>2, <2>3, <2>4, <2>5, <2>6, <2>7, <2>8, Zenon
<1>2. CASE SampleNext \/ UNCHANGED selectionVars \/ \E t \in Requests : SampleStart(t)
  <2>1. UNCHANGED <<setup, inflight, ewma, told, job>>
    BY <1>2, Zenon DEF selectionVars, SampleNext, SampleStart, SampleRead, SampleWeigh, SampleScanned, SampleHalf, SamplePair
  <2>2. ASSUME NEW t \in Requests PROVE JobOk(job[t])'
    <3>1. JobOk(job[t])
      BY JobIs, Zenon
    <3>2. PICK j : j = job[t]
      BY Zenon
    <3>3. JobOk(j)'
      BY <2>1, <3>1, <3>2, JobSame, Zenon
    <3> QED
      BY <2>1, <3>2, <3>3, Zenon
  <2>3. Jobs'
    <3>1. (job = [t \in Requests |-> job[t]])'
      BY <2>1, Zenon DEF SelectionInv, Jobs
    <3> QED
      BY <2>2, <3>1, Zenon DEF Jobs
  <2>4. Loads'
    BY <2>1, Zenon DEF SelectionInv, Loads
  <2>5. Counted'
    BY <2>1, Zenon DEF SelectionInv, Counted, Proxied
  <2>6. \A b \in Backends : Told(b)'
    BY <2>1, Zenon DEF SelectionInv, Told
  <2>7. (told = [b \in Backends |-> told[b]])'
    BY <2>1, Zenon DEF SelectionInv
  <2> QED
    BY <2>3, <2>4, <2>5, <2>6, <2>7, Zenon DEF SelectionInv
<1> QED
  BY <1>1, <1>2, Zenon DEF SelectionNext

----------------------------------------------------------------------------
(* What the invariant says of averages and choices. *)

LEMMA AverageOf ==
  ASSUME SelectionInv, NEW b \in Backends
  PROVE  ewma[b] = Average(told[b])
<1>1. told[b] \in Seq(Nat) /\ \E g : Averaging(g, told[b]) /\ g[Len(told[b])] = ewma[b]
  BY Zenon DEF SelectionInv, Told
<1> QED
  BY <1>1, AverageIs, Zenon

LEMMA ChosenSound ==
  ASSUME SelectionInv, NEW t \in Requests, job[t].at = "chosen"
  PROVE  /\ broken(job[t].best) => Broken(job[t].pool)
         /\ job[t].calm /\ ~Broken(job[t].pool) =>
              job[t].best = FirstMin(Pool(job[t].pool), [b \in Range(Pool(job[t].pool)) |-> TrueCost(job[t], b)])
<1>1. PICK j : j = job[t]
  BY Zenon
<1> DEFINE P == Pool(j.pool)
<1> DEFINE cost == [b \in Range(P) |-> TrueCost(j, b)]
<1>2. ScanOk(j) /\ j.at = "chosen" /\ Loads
  BY <1>1, JobIs, Zenon DEF JobOk, Scanning, SelectionInv
<1>3. P \in Seq(Backends)
  BY PoolIs, Zenon
<1>4. j.next = Len(P) + 1
  BY <1>2, Zenon DEF ScanOk
<1>5. 1..j.next - 1 = DOMAIN P /\ DOMAIN P \subseteq Nat
  <2>1. Len(P) \in Nat /\ DOMAIN P = 1..Len(P)
    BY <1>3
  <2> QED
    BY <1>4, <2>1
<1>6. PICK i \in DOMAIN P :
        /\ j.best = P[i]
        /\ j.calm => \A k \in DOMAIN P :
             \/ Read(j, P[i]) < Read(j, P[k])
             \/ Read(j, P[i]) = Read(j, P[k]) /\ i <= k
  BY <1>2, <1>5, Zenon DEF ScanOk
<1>7. broken(j.best) => \A k \in DOMAIN P : broken(P[k])
  BY <1>2, <1>5, Zenon DEF ScanOk
<1>8. Broken(j.pool) <=> \A k \in DOMAIN P : broken(P[k])
  BY Zenon DEF Broken, Range
<1>9. \A k \in DOMAIN P : P[k] \in Range(P) /\ P[k] \in Backends
  BY <1>3 DEF Range
<1>10. ASSUME NEW k \in DOMAIN P
       PROVE  /\ Read(j, P[k]) \in Int /\ cost[P[k]] \in Int
              /\ broken(P[k]) => cost[P[k]] >= Floor
              /\ ~broken(P[k]) => cost[P[k]] = Read(j, P[k]) /\ Read(j, P[k]) < Floor
  <2>1. PICK b \in Backends : b = P[k]
    BY <1>9, Zenon
  <2>2. cost[b] = TrueCost(j, b)
    BY <1>9, <2>1, Zenon
  <2>3. ewma[b] = Average(told[b])
    BY AverageOf, Zenon
  <2> HIDE DEF cost
  <2> QED
    BY <1>2, <2>1, <2>2, <2>3, TrueSplits, ReadSplits, ZenonT(60)
<1> HIDE DEF cost, P
<1>11. ASSUME j.calm, ~Broken(j.pool) PROVE j.best = FirstMin(P, cost)
  <2>1. ~broken(P[i])
    BY <1>6, <1>7, <1>8, <1>11, Zenon
  <2>2. cost[P[i]] = Read(j, P[i]) /\ Read(j, P[i]) < Floor
    BY <1>10, <2>1, Zenon
  <2>3. ASSUME NEW k \in DOMAIN P
        PROVE  cost[P[i]] < cost[P[k]] \/ (cost[P[i]] = cost[P[k]] /\ i <= k)
    <3>1. CASE broken(P[k])
      <4>1. cost[P[k]] >= Floor /\ cost[P[k]] \in Int /\ cost[P[i]] \in Int
        BY <1>10, <3>1, Zenon
      <4>2. Floor \in Int
        BY TopMax DEF Floor
      <4> QED
        BY <2>2, <4>1, <4>2
    <3>2. CASE ~broken(P[k])
      BY <1>6, <1>10, <1>11, <2>2, <3>2, Zenon
    <3> QED
      BY <3>1, <3>2, Zenon
  <2>4. First(P, cost, i)
    BY <2>3, Zenon DEF First
  <2>5. FirstMin(P, cost) = P[i]
    BY <1>3, <1>10, <2>4, FirstMinIs, ZenonT(60)
  <2> QED
    BY <1>6, <2>5, Zenon
<1>12. broken(j.best) => Broken(j.pool)
  BY <1>7, <1>8, Zenon
<1> QED
  BY <1>1, <1>11, <1>12, Zenon DEF cost, P

----------------------------------------------------------------------------
(* No measured prefill time is lost between the load and the weak exchange *)
(* of note_observed_seconds, however many requests note at once: the       *)
(* average of a backend is that of all the walls told of it, in order.     *)
THEOREM AveragesExact == SelectionSpec => []EwmaExact
<1>1. SelectionInv => EwmaExact
  BY AverageOf, Zenon DEF EwmaExact
<1> QED
  BY <1>1, SelectionInvInit, SelectionInvStep, PTL DEF SelectionSpec

(* For any pools and any number of requests: a scan chooses a broken claim *)
(* only in a pool of broken claims, whatever it raced with, and a scan     *)
(* nothing disturbed in a pool with a usable claim chose the first of the  *)
(* cheapest candidates (select_prefill, select_decode_with_pi).            *)
THEOREM ChoicesSound == SelectionSpec => []ChoiceSound
<1>1. SelectionInv => BrokenLast
  BY ChosenSound, Zenon DEF BrokenLast
<1>2. SelectionInv => CalmOptimal
  BY ChosenSound, Zenon DEF CalmOptimal
<1>3. SelectionInv => ChoiceSound
  BY <1>1, <1>2, Zenon DEF ChoiceSound
<1> QED
  BY <1>3, SelectionInvInit, SelectionInvStep, PTL DEF SelectionSpec

----------------------------------------------------------------------------
(* The pairing monitor.  As long as no load changes, its scans hold the    *)
(* cheapest candidate seen, the greedy cost is that of the greedy pair,    *)
(* and the low is the least cost of the pairs it has passed.               *)

MonFields == {"by", "at", "pool", "next", "best", "seen", "pf", "row", "greedy", "low", "calm"}

ScanCost(m, b) == IF m.pool = "pf" THEN prefill_ln(b) ELSE decode_ln(b, m.pf)

PairScanOk(m) ==
  /\ m.row = 0 /\ m.pool \in {"pf", "dc"} /\ m.next \in 2..Len(Pool(m.pool)) + 1
  /\ m.pool = "dc" => BestPf(m.pf)
  /\ \E i \in 1..m.next - 1 : m.best = Pool(m.pool)[i]
  /\ \A k \in 1..m.next - 1 : ScanCost(m, m.best) <= ScanCost(m, Pool(m.pool)[k])
  /\ m.at = "weigh" => m.next <= Len(Pool(m.pool)) /\ m.seen = ScanCost(m, m.best)

IsPair(low) == \E p \in Range(Pool("pf")), d \in Range(Pool("dc")) : low = Joint(p, d)

(* The low of the pairs before <<row, next>>, in the order of the loops. *)
Lowest(low, row, next) ==
  ~(row = 1 /\ next = 1) =>
    /\ IsPair(low)
    /\ \A i \in 1..row, k \in 1..Len(Pool("dc")) :
         i < row \/ k < next => low <= Joint(Pool("pf")[i], Pool("dc")[k])

PairsOk(m) ==
  /\ BestPf(m.pf) /\ BestDc(m.pf, m.best)
  /\ m.row # 0 => /\ m.row \in 1..Len(Pool("pf")) /\ m.next \in 1..Len(Pool("dc"))
                  /\ m.greedy = Joint(m.pf, m.best)
                  /\ Lowest(m.low, m.row, m.next)
  /\ m.at = "pair" => m.seen = prefill_ln(IF m.row = 0 THEN m.pf ELSE Pool("pf")[m.row])

MonOk(m) ==
  /\ m = [f \in MonFields |-> m[f]]
  /\ m.at # "idle" => PrefillPool # <<>> /\ DecodePool # <<>>
  /\ m.calm => /\ m.at \in {"read", "weigh"} => PairScanOk(m)
               /\ m.at \in {"half", "pair"} => PairsOk(m)
               /\ m.at = "done" => m.greedy - m.low \in 0..Penalty

PairInv == SelectionInv /\ MonOk(mon)

LEMMA PairSame ==
  ASSUME setup' = setup, inflight' = inflight, ewma' = ewma
  PROVE  /\ \A b : prefill_ln(b)' = prefill_ln(b)
         /\ \A b, p : decode_ln(b, p)' = decode_ln(b, p)
<1>1. \A b : effective_ln_base(b)' = effective_ln_base(b)
  BY Zenon DEF effective_ln_base, effective_base_seconds, broken
<1>2. \A b, pi, p : selection_ln(b, pi, p)' = selection_ln(b, pi, p)
  BY <1>1, Zenon DEF selection_ln
<1>3. \A b : pool_hit_strength(b)' = pool_hit_strength(b)
  BY Zenon DEF pool_hit_strength
<1>4. \A b, e, pi : cost_with_isolation_pi(b, e, pi)' = cost_with_isolation_pi(b, e, pi)
  BY <1>1, <1>2, <1>3, ZenonT(60) DEF cost_with_isolation_pi
<1> QED
  BY <1>4, Zenon DEF prefill_ln, decode_ln

LEMMA MonSame ==
  ASSUME setup' = setup, inflight' = inflight, ewma' = ewma, NEW m, MonOk(m)
  PROVE  MonOk(m)'
<1>1. (\A b : prefill_ln(b)' = prefill_ln(b)) /\ (\A b, p : decode_ln(b, p)' = decode_ln(b, p))
  BY PairSame, Zenon
<1>2. \A p, d : Joint(p, d)' = Joint(p, d)
  BY <1>1, Zenon DEF Joint
<1>3. \A p, d : (BestPf(p) => BestPf(p)') /\ (BestDc(p, d) => BestDc(p, d)')
  BY <1>1, Zenon DEF BestPf, BestDc
<1>4. \A b : ScanCost(m, b)' = ScanCost(m, b)
  BY <1>1, Zenon DEF ScanCost
<1>5. PairScanOk(m) => PairScanOk(m)'
  BY <1>3, <1>4, Zenon DEF PairScanOk
<1>6. \A low, row, next : Lowest(low, row, next) => Lowest(low, row, next)'
  BY <1>2, ZenonT(60) DEF Lowest, IsPair
<1>7. PairsOk(m) => PairsOk(m)'
  BY <1>1, <1>2, <1>3, <1>6, Zenon DEF PairsOk
<1> QED
  BY <1>5, <1>7, Zenon DEF MonOk

LEMMA PoolsThere ==
  ASSUME PrefillPool # <<>>, DecodePool # <<>>, NEW p \in {"pf", "dc"}
  PROVE  Pool(p) \in Seq(Backends) /\ Len(Pool(p)) \in Nat /\ Len(Pool(p)) >= 1 /\ DOMAIN Pool(p) = 1..Len(Pool(p))
<1>1. PrefillPool \in Seq(STRING) /\ DecodePool \in Seq(STRING)
  BY SelectionAssumption, Zenon
<1>2. Len(PrefillPool) >= 1 /\ Len(DecodePool) >= 1
  BY <1>1
<1>3. Len(Pool("pf")) = Len(PrefillPool) /\ Len(Pool("dc")) = Len(DecodePool)
  BY <1>1 DEF Pool
<1>4. Pool(p) \in Seq(Backends)
  BY PoolIs, Zenon
<1> QED
  BY <1>2, <1>3, <1>4

LEMMA InPool ==
  ASSUME NEW p, NEW i \in 1..Len(Pool(p))
  PROVE  Pool(p)[i] \in Backends /\ Pool(p)[i] \in Range(Pool(p))
<1>1. Pool(p) \in Seq(Backends)
  BY PoolIs, Zenon
<1>2. DOMAIN Pool(p) = 1..Len(Pool(p))
  BY <1>1
<1> QED
  BY <1>1, <1>2 DEF Range

(* A scan of the monitor begins with its first candidate. *)
LEMMA FreshPairScan ==
  ASSUME PrefillPool # <<>>, DecodePool # <<>>, Loads,
         NEW m, m.row = 0, m.pool \in {"pf", "dc"}, m.next = 2, m.best = Pool(m.pool)[1], m.at = "read",
         m.pool = "dc" => BestPf(m.pf)
  PROVE  PairScanOk(m)
<1>1. Len(Pool(m.pool)) \in Nat /\ Len(Pool(m.pool)) >= 1
  BY PoolsThere, Zenon
<1>2. m.next \in 2..Len(Pool(m.pool)) + 1 /\ 1 \in 1..m.next - 1 /\ \A k \in 1..m.next - 1 : k = 1
  BY <1>1
<1>3. m.best \in Backends
  <2>1. 1 \in 1..Len(Pool(m.pool))
    BY <1>1
  <2> QED
    BY <2>1, InPool, Zenon
<1>4. ScanCost(m, m.best) \in Int
  BY <1>3, PairInt, Zenon DEF ScanCost
<1>5. ScanCost(m, m.best) <= ScanCost(m, m.best)
  BY <1>4
<1> QED
  BY <1>2, <1>5, Zenon DEF PairScanOk

LEMMA SampleStartOk ==
  ASSUME PairInv, NEW t \in Requests, SampleStart(t)
  PROVE  MonOk(mon')
<1> DEFINE n == [NoSample EXCEPT !.by = t, !.at = "read", !.pool = "pf", !.next = 2, !.best = Pool("pf")[1]]
<1>1. PrefillPool # <<>> /\ DecodePool # <<>> /\ mon' = n /\ Loads
  BY Zenon DEF SampleStart, PairInv, SelectionInv
<1>2. /\ n = [f \in MonFields |-> n[f]] /\ n.at = "read" /\ n.pool = "pf" /\ n.next = 2 /\ n.row = 0
      /\ n.best = Pool("pf")[1]
  BY ZenonT(60) DEF NoSample, MonFields
<1> HIDE DEF n
<1>3. PairScanOk(n)
  BY <1>1, <1>2, FreshPairScan, Zenon
<1> QED
  BY <1>1, <1>2, <1>3, Zenon DEF MonOk

LEMMA SampleReadOk ==
  ASSUME PairInv, SampleRead
  PROVE  MonOk(mon')
<1> DEFINE m == mon
           cost == PairScanCost(m.best)
           n == [m EXCEPT !.seen = cost, !.at = "weigh"]
<1>1. MonOk(m) /\ m = [f \in MonFields |-> m[f]] /\ m.at = "read"
  BY Zenon DEF PairInv, MonOk, SampleRead
<1>2. mon' = n /\ m.next <= Len(Pool(m.pool))
  BY Zenon DEF SampleRead
<1>3. cost = ScanCost(m, m.best)
  BY Zenon DEF PairScanCost, ScanCost
<1> HIDE DEF cost, m
<1>4. /\ n = [f \in MonFields |-> n[f]] /\ n.seen = cost /\ n.at = "weigh"
      /\ \A f \in MonFields \ {"seen", "at"} : n[f] = m[f]
  BY <1>1, Zenon DEF MonFields
<1> HIDE DEF n
<1>5. n.pool = m.pool /\ n.next = m.next /\ n.best = m.best /\ n.pf = m.pf /\ n.row = m.row /\ n.calm = m.calm
  BY <1>4, Zenon DEF MonFields
<1>6. \A b : ScanCost(n, b) = ScanCost(m, b)
  BY <1>5, Zenon DEF ScanCost
<1>7. m.calm => PairScanOk(n)
  <2> SUFFICES ASSUME m.calm PROVE PairScanOk(n)
    BY Zenon
  <2>1. PairScanOk(m)
    BY <1>1, Zenon DEF MonOk
  <2> QED
    <3> DEFINE P == Pool(m.pool)
    <3>1. /\ m.row = 0 /\ m.pool \in {"pf", "dc"} /\ m.next \in 2..Len(P) + 1 /\ (m.pool = "dc" => BestPf(m.pf))
          /\ \E i \in 1..m.next - 1 : m.best = P[i]
      BY <2>1, Zenon DEF PairScanOk
    <3>2. \A k \in 1..m.next - 1 : ScanCost(m, m.best) <= ScanCost(m, P[k])
      BY <2>1, Zenon DEF PairScanOk
    <3>3. Pool(n.pool) = P /\ n.next <= Len(P) /\ n.seen = ScanCost(n, n.best)
      BY <1>2, <1>3, <1>4, <1>5, <1>6, ZenonT(60)
    <3> HIDE DEF P
    <3>4. \A k \in 1..n.next - 1 : ScanCost(n, n.best) <= ScanCost(n, P[k])
      BY <1>5, <1>6, <3>2, Zenon
    <3> QED
      BY <1>5, <3>1, <3>3, <3>4, Zenon DEF PairScanOk
<1> QED
  BY <1>1, <1>2, <1>4, <1>5, <1>7, Zenon DEF MonOk

LEMMA SampleWeighOk ==
  ASSUME PairInv, SampleWeigh
  PROVE  MonOk(mon')
<1> DEFINE m == mon
           P == Pool(m.pool)
           candidate == P[m.next]
           best == IF PairScanCost(candidate) < m.seen THEN candidate ELSE m.best
           n == [m EXCEPT !.best = best, !.next = m.next + 1, !.at = "read"]
<1>1. MonOk(m) /\ m = [f \in MonFields |-> m[f]] /\ m.at = "weigh" /\ Loads
  BY Zenon DEF PairInv, SelectionInv, MonOk, SampleWeigh
<1>2. mon' = n
  BY Zenon DEF SampleWeigh
<1>3. best = IF ScanCost(m, candidate) < m.seen THEN candidate ELSE m.best
  BY Zenon DEF PairScanCost, ScanCost
<1> HIDE DEF best, m
<1>4. /\ n = [f \in MonFields |-> n[f]] /\ n.best = best /\ n.at = "read" /\ n.next = m.next + 1
      /\ \A f \in MonFields \ {"best", "next", "at"} : n[f] = m[f]
  BY <1>1, Zenon DEF MonFields
<1> HIDE DEF n
<1>5. n.pool = m.pool /\ n.pf = m.pf /\ n.row = m.row /\ n.calm = m.calm
  BY <1>4, Zenon DEF MonFields
<1>6. \A b : ScanCost(n, b) = ScanCost(m, b)
  BY <1>5, Zenon DEF ScanCost
<1>7. ASSUME m.calm PROVE PairScanOk(n)
  <2>1. PairScanOk(m)
    BY <1>1, <1>7, Zenon DEF MonOk
  <2>2. /\ m.row = 0 /\ m.pool \in {"pf", "dc"} /\ m.next \in 2..Len(P) + 1 /\ m.next <= Len(P)
        /\ m.seen = ScanCost(m, m.best) /\ (m.pool = "dc" => BestPf(m.pf))
    BY <1>1, <2>1, Zenon DEF PairScanOk
  <2>3. Len(P) \in Nat
    BY PoolIs
  <2> HIDE DEF P
  <2>4. /\ m.next \in 1..Len(P) /\ m.next + 1 \in 2..Len(P) + 1 /\ (m.next + 1) - 1 = m.next
        /\ \A k \in 1..m.next - 1 : k \in 1..m.next /\ k \in 1..Len(P)
        /\ \A k \in 1..m.next : k \in 1..m.next - 1 \/ k = m.next
        /\ m.next \in 1..m.next
    BY <2>2, <2>3, SMTT(30)
  <2>5. \A k \in 1..Len(P) : P[k] \in Backends /\ ScanCost(m, P[k]) \in Int
    BY <1>1, InPool, PairInt, Zenon DEF P, ScanCost
  <2>6. PICK i \in 1..m.next - 1 : m.best = P[i]
    BY <2>1, Zenon DEF PairScanOk, P
  <2>7. \E j \in 1..m.next : best = P[j]
    <3>1. best = P[m.next] \/ best = P[i]
      BY <1>3, <2>6, Zenon
    <3> QED
      BY <2>4, <3>1, Zenon
  <2>8. ASSUME NEW k \in 1..m.next PROVE ScanCost(m, best) <= ScanCost(m, P[k])
    <3> DEFINE c == ScanCost(m, candidate)
               b == ScanCost(m, m.best)
               x == ScanCost(m, P[k])
    <3>1. c \in Int /\ b \in Int /\ x \in Int
      BY <2>4, <2>5, <2>6, Zenon
    <3>2. k = m.next => x = c
      BY Zenon
    <3>3. k # m.next => b <= x
      BY <2>1, <2>4, Zenon DEF PairScanOk, P
    <3>4. ScanCost(m, best) = IF c < b THEN c ELSE b
      BY <1>3, <2>2, Zenon
    <3> DEFINE y == ScanCost(m, best)
    <3> HIDE DEF c, b, x, y
    <3>5. y = IF c < b THEN c ELSE b
      BY <3>4, Zenon DEF y
    <3>6. y <= x
      BY <3>1, <3>2, <3>3, <3>5
    <3> QED
      BY <3>6, Zenon DEF y, x
  <2>9. Pool(n.pool) = P /\ n.next - 1 = m.next
    BY <1>4, <1>5, <2>4, Zenon DEF P
  <2> QED
    BY <1>4, <1>5, <1>6, <2>2, <2>4, <2>7, <2>8, <2>9, ZenonT(60) DEF PairScanOk
<1> QED
  BY <1>1, <1>2, <1>4, <1>5, <1>7, Zenon DEF MonOk

LEMMA ScannedAll ==
  ASSUME NEW m, PairScanOk(m), m.next > Len(Pool(m.pool)), PrefillPool # <<>>, DecodePool # <<>>
  PROVE  /\ m.best \in Range(Pool(m.pool))
         /\ \A q \in Range(Pool(m.pool)) : ScanCost(m, m.best) <= ScanCost(m, q)
<1> DEFINE P == Pool(m.pool)
<1>1. m.pool \in {"pf", "dc"} /\ m.next \in 2..Len(P) + 1
  BY Zenon DEF PairScanOk
<1>2. P \in Seq(Backends) /\ Len(P) \in Nat /\ DOMAIN P = 1..Len(P)
  BY <1>1, PoolsThere, Zenon
<1>3. 1..m.next - 1 = DOMAIN P
  <2> HIDE DEF P
  <2>1. m.next > Len(P)
    BY Zenon DEF P
  <2> QED
    BY <1>1, <1>2, <2>1
<1>4. \E i \in DOMAIN P : m.best = P[i]
  BY <1>3, Zenon DEF PairScanOk
<1>5. \A k \in DOMAIN P : ScanCost(m, m.best) <= ScanCost(m, P[k])
  BY <1>3, Zenon DEF PairScanOk
<1> QED
  BY <1>4, <1>5, Zenon DEF Range

LEMMA SampleScannedOk ==
  ASSUME PairInv, SampleScanned
  PROVE  MonOk(mon')
<1> DEFINE m == mon
<1>1. /\ MonOk(m) /\ m = [f \in MonFields |-> m[f]] /\ m.at = "read" /\ m.next > Len(Pool(m.pool)) /\ Loads
      /\ PrefillPool # <<>> /\ DecodePool # <<>>
  BY Zenon DEF PairInv, SelectionInv, MonOk, SampleScanned
<1>2. mon' = IF m.pool = "pf"
               THEN [m EXCEPT !.pf = m.best, !.pool = "dc", !.next = 2, !.best = Pool("dc")[1]]
               ELSE [m EXCEPT !.at = "half"]
  BY Zenon DEF SampleScanned
<1> HIDE DEF m
<1>3. m.calm => PairScanOk(m)
  BY <1>1, Zenon DEF MonOk
<1>4. ASSUME m.calm
      PROVE  /\ m.row = 0 /\ m.pool \in {"pf", "dc"}
             /\ m.pool = "pf" => BestPf(m.best)
             /\ m.pool = "dc" => BestPf(m.pf) /\ BestDc(m.pf, m.best)
  <2>1. /\ m.best \in Range(Pool(m.pool))
        /\ \A q \in Range(Pool(m.pool)) : ScanCost(m, m.best) <= ScanCost(m, q)
    BY <1>1, <1>3, <1>4, ScannedAll, Zenon
  <2>2. m.row = 0 /\ m.pool \in {"pf", "dc"} /\ (m.pool = "dc" => BestPf(m.pf))
    BY <1>3, <1>4, Zenon DEF PairScanOk
  <2> QED
    BY <2>1, <2>2, Zenon DEF ScanCost, BestPf, BestDc
<1>5. CASE m.pool = "pf"
  <2> DEFINE n == [m EXCEPT !.pf = m.best, !.pool = "dc", !.next = 2, !.best = Pool("dc")[1]]
  <2>1. /\ n = [f \in MonFields |-> n[f]] /\ n.pf = m.best /\ n.pool = "dc" /\ n.next = 2 /\ n.best = Pool("dc")[1]
        /\ n.at = m.at /\ n.row = m.row /\ n.calm = m.calm
    BY <1>1, ZenonT(60) DEF MonFields
  <2>2. mon' = n
    BY <1>2, <1>5, Zenon
  <2> HIDE DEF n
  <2>3. n.calm => PairScanOk(n)
    BY <1>1, <1>4, <1>5, <2>1, FreshPairScan, Zenon
  <2> QED
    BY <1>1, <2>1, <2>2, <2>3, Zenon DEF MonOk
<1>6. CASE m.pool # "pf"
  <2> DEFINE n == [m EXCEPT !.at = "half"]
  <2>1. /\ n = [f \in MonFields |-> n[f]] /\ n.at = "half" /\ n.row = m.row /\ n.calm = m.calm
        /\ n.pf = m.pf /\ n.best = m.best
    BY <1>1, Zenon DEF MonFields
  <2>2. mon' = n
    BY <1>2, <1>6, Zenon
  <2> HIDE DEF n
  <2>3. n.calm => PairsOk(n)
    BY <1>4, <1>6, <2>1, Zenon DEF PairsOk
  <2> QED
    BY <1>1, <2>1, <2>2, <2>3, Zenon DEF MonOk
<1> QED
  BY <1>5, <1>6, Zenon

LEMMA SampleHalfOk ==
  ASSUME PairInv, SampleHalf
  PROVE  MonOk(mon')
<1> DEFINE m == mon
           half == prefill_ln(PairPrefill)
           n == [m EXCEPT !.seen = half, !.at = "pair"]
<1>1. MonOk(m) /\ m = [f \in MonFields |-> m[f]] /\ m.at = "half"
  BY Zenon DEF PairInv, MonOk, SampleHalf
<1>2. mon' = n
  BY Zenon DEF SampleHalf
<1>3. half = prefill_ln(IF m.row = 0 THEN m.pf ELSE Pool("pf")[m.row])
  BY Zenon DEF PairPrefill
<1> HIDE DEF half, m
<1>4. /\ n = [f \in MonFields |-> n[f]] /\ n.seen = half /\ n.at = "pair"
      /\ \A f \in MonFields \ {"seen", "at"} : n[f] = m[f]
  BY <1>1, Zenon DEF MonFields
<1> HIDE DEF n
<1>5. /\ n.next = m.next /\ n.best = m.best /\ n.pf = m.pf /\ n.row = m.row /\ n.calm = m.calm
      /\ n.greedy = m.greedy /\ n.low = m.low
  BY <1>4, Zenon DEF MonFields
<1>6. ASSUME m.calm PROVE PairsOk(n)
  <2>1. PairsOk(m)
    BY <1>1, <1>6, Zenon DEF MonOk
  <2> QED
    BY <1>3, <1>4, <1>5, <2>1, Zenon DEF PairsOk
<1> QED
  BY <1>1, <1>2, <1>4, <1>5, <1>6, Zenon DEF MonOk

(* The low after one more pair. *)
LEMMA LowPassed ==
  ASSUME Loads, NEW row \in 1..Len(Pool("pf")), NEW next \in 1..Len(Pool("dc")), NEW low, Lowest(low, row, next),
         NEW new, new = IF row = 1 /\ next = 1 THEN Joint(Pool("pf")[row], Pool("dc")[next])
                        ELSE Lesser(low, Joint(Pool("pf")[row], Pool("dc")[next]))
  PROVE  /\ IsPair(new)
         /\ \A i \in 1..row, k \in 1..Len(Pool("dc")) :
              i < row \/ k <= next => new <= Joint(Pool("pf")[i], Pool("dc")[k])
<1> DEFINE J(i, k) == Joint(Pool("pf")[i], Pool("dc")[k])
           P == Len(Pool("pf"))
           Q == Len(Pool("dc"))
<1>1. P \in Nat /\ Q \in Nat
  BY PoolIs
<1>2. \A i \in 1..P : \A k \in 1..Q : J(i, k) \in Int /\ IsPair(J(i, k))
  <2> SUFFICES ASSUME NEW i \in 1..P, NEW k \in 1..Q PROVE J(i, k) \in Int /\ IsPair(J(i, k))
    BY Zenon
  <2>1. /\ Pool("pf")[i] \in Backends /\ Pool("pf")[i] \in Range(Pool("pf"))
        /\ Pool("dc")[k] \in Backends /\ Pool("dc")[k] \in Range(Pool("dc"))
    BY InPool, Zenon
  <2>2. prefill_ln(Pool("pf")[i]) \in Int /\ decode_ln(Pool("dc")[k], Pool("pf")[i]) \in Int
    BY <2>1, PairInt, Zenon
  <2>3. J(i, k) \in Int
    BY <2>2 DEF Joint
  <2> QED
    BY <2>1, <2>3, Zenon DEF IsPair
<1>3. \A x : IsPair(x) => x \in Int
  <2>1. \A p \in Range(Pool("pf")), d \in Range(Pool("dc")) : Joint(p, d) \in Int
    <3> SUFFICES ASSUME NEW p \in Range(Pool("pf")), NEW d \in Range(Pool("dc")) PROVE Joint(p, d) \in Int
      BY Zenon
    <3>1. p \in Backends /\ d \in Backends
      BY PoolIs, Zenon
    <3>2. prefill_ln(p) \in Int /\ decode_ln(d, p) \in Int
      BY <3>1, PairInt, Zenon
    <3> QED
      BY <3>2 DEF Joint
  <2> QED
    BY <2>1, Zenon DEF IsPair
<1>4. row \in Nat /\ next \in Nat /\ row \in 1..P /\ next \in 1..Q
  OBVIOUS
<1> DEFINE cost == J(row, next)
<1>5. cost \in Int /\ IsPair(cost)
  BY <1>2, <1>4, Zenon
<1>6. CASE row = 1 /\ next = 1
  <2>1. new = cost
    BY <1>6, Zenon
  <2> SUFFICES ASSUME NEW i \in 1..row, NEW k \in 1..Q, i < row \/ k <= next PROVE new <= J(i, k)
    BY <1>5, <2>1, Zenon
  <2>2. i = row /\ k = next
    BY <1>1, <1>6
  <2>3. new \in Int /\ new = J(i, k)
    BY <1>5, <2>1, <2>2, Zenon
  <2> HIDE DEF J, cost
  <2> QED
    BY <2>3
<1>7. CASE ~(row = 1 /\ next = 1)
  <2>1. new = Lesser(low, cost) /\ IsPair(low) /\ low \in Int
    BY <1>3, <1>7, Zenon DEF Lowest
  <2>2. \A i \in 1..row, k \in 1..Q : i < row \/ k < next => low <= J(i, k)
    BY <1>7, Zenon DEF Lowest
  <2>3. (new = low \/ new = cost) /\ new <= low /\ new <= cost /\ new \in Int
    <3> HIDE DEF J, cost
    <3> QED
      BY <1>5, <2>1 DEF Lesser
  <2>4. ASSUME NEW i \in 1..row, NEW k \in 1..Q, i < row \/ k <= next PROVE new <= J(i, k)
    <3>1. (i < row \/ k < next) \/ (i = row /\ k = next)
      BY <1>1, <1>4, <2>4
    <3>2. i \in 1..P
      BY <1>1, <1>4
    <3> DEFINE x == J(i, k)
    <3>3. x \in Int /\ (low <= x \/ x = cost)
      BY <1>2, <2>2, <3>1, <3>2, Zenon
    <3> HIDE DEF J, cost, x
    <3>4. new <= x
      BY <2>1, <2>3, <3>3
    <3> QED
      BY <3>4, Zenon DEF x
  <2> QED
    BY <1>5, <2>1, <2>3, <2>4, Zenon
<1> QED
  BY <1>6, <1>7, Zenon

(* All pairs passed: the sample is within the penalty. *)
LEMMA SampleNear ==
  ASSUME Loads, PrefillPool # <<>>, DecodePool # <<>>, NEW pf, NEW dc, BestPf(pf), BestDc(pf, dc), NEW low, IsPair(low),
         \A i \in 1..Len(Pool("pf")), k \in 1..Len(Pool("dc")) : low <= Joint(Pool("pf")[i], Pool("dc")[k])
  PROVE  Joint(pf, dc) - low \in 0..Penalty
<1>1. PICK p \in Range(Pool("pf")), d \in Range(Pool("dc")) : low = Joint(p, d)
  BY Zenon DEF IsPair
<1>2. Joint(pf, dc) \in Int /\ low \in Int /\ Joint(pf, dc) <= low + Penalty
  BY <1>1, GreedyNear, Zenon
<1>3. low <= Joint(pf, dc)
  <2>1. DOMAIN Pool("pf") = 1..Len(Pool("pf")) /\ DOMAIN Pool("dc") = 1..Len(Pool("dc"))
    BY PoolsThere, Zenon
  <2>2. PICK i \in DOMAIN Pool("pf"), k \in DOMAIN Pool("dc") : pf = Pool("pf")[i] /\ dc = Pool("dc")[k]
    BY Zenon DEF BestPf, BestDc, Range
  <2> QED
    BY <2>1, <2>2, Zenon
<1>4. Penalty \in Nat
  BY DEF Penalty, ROUTING_TRANSFER_PENALTY
<1> QED
  BY <1>2, <1>3, <1>4

LEMMA SamplePairOk ==
  ASSUME PairInv, SamplePair
  PROVE  MonOk(mon')
<1> DEFINE m == mon
           p == IF m.row = 0 THEN m.pf ELSE Pool("pf")[m.row]
           d == IF m.row = 0 THEN m.best ELSE Pool("dc")[m.next]
           cost == m.seen + decode_ln(d, p)
           first == m.row = 1 /\ m.next = 1
           last == m.next = Len(Pool("dc"))
           low == IF first THEN cost ELSE Lesser(m.low, cost)
           row == IF last THEN m.row + 1 ELSE m.row
           next == IF last THEN 1 ELSE m.next + 1
           at == IF last /\ m.row = Len(Pool("pf")) THEN "done" ELSE "half"
           n0 == [m EXCEPT !.greedy = cost, !.row = 1, !.next = 1, !.at = "half"]
           n1 == [m EXCEPT !.low = low, !.row = row, !.next = next, !.at = at]
<1>1. /\ MonOk(m) /\ m = [f \in MonFields |-> m[f]] /\ m.at = "pair" /\ Loads
      /\ PrefillPool # <<>> /\ DecodePool # <<>>
  BY Zenon DEF PairInv, SelectionInv, MonOk, SamplePair
<1>2. mon' = IF m.row = 0 THEN n0 ELSE n1
  BY Zenon DEF SamplePair, PairPrefill, PairDecode
<1> HIDE DEF m
<1>3. m.calm => PairsOk(m)
  BY <1>1, Zenon DEF MonOk
<1>4. m.calm => cost = Joint(p, d)
  BY <1>1, <1>3, Zenon DEF PairsOk, Joint
<1> DEFINE P == Len(Pool("pf"))
           Q == Len(Pool("dc"))
<1>5. P \in Nat /\ P >= 1 /\ Q \in Nat /\ Q >= 1
  BY <1>1, PoolsThere, Zenon
<1>6. CASE m.row = 0
  <2> HIDE DEF cost
  <2>1. /\ n0 = [f \in MonFields |-> n0[f]] /\ n0.greedy = cost /\ n0.row = 1 /\ n0.next = 1 /\ n0.at = "half"
        /\ n0.pf = m.pf /\ n0.best = m.best /\ n0.calm = m.calm
    BY <1>1, ZenonT(60) DEF MonFields
  <2>2. mon' = n0 /\ p = m.pf /\ d = m.best
    BY <1>2, <1>6, Zenon
  <2> HIDE DEF n0, p, d
  <2>3. 1 \in 1..P /\ 1 \in 1..Q
    BY <1>5
  <2>4. ASSUME n0.calm PROVE PairsOk(n0)
    <3>1. BestPf(n0.pf) /\ BestDc(n0.pf, n0.best) /\ n0.greedy = Joint(n0.pf, n0.best)
      BY <1>3, <1>4, <2>1, <2>2, <2>4, Zenon DEF PairsOk
    <3>2. Lowest(n0.low, n0.row, n0.next)
      BY <2>1, Zenon DEF Lowest
    <3> QED
      BY <2>1, <2>3, <3>1, <3>2, Zenon DEF PairsOk
  <2> QED
    BY <1>1, <2>1, <2>2, <2>4, Zenon DEF MonOk
<1>7. CASE m.row # 0
  <2> HIDE DEF low, row, next, at
  <2>1. /\ n1 = [f \in MonFields |-> n1[f]] /\ n1.low = low /\ n1.row = row /\ n1.next = next /\ n1.at = at
        /\ n1.pf = m.pf /\ n1.best = m.best /\ n1.calm = m.calm /\ n1.greedy = m.greedy
    BY <1>1, ZenonT(60) DEF MonFields
  <2>2. mon' = n1
    BY <1>2, <1>7, Zenon
  <2> HIDE DEF n1
  <2>3. ASSUME n1.calm PROVE (at = "half" => PairsOk(n1)) /\ (at = "done" => n1.greedy - n1.low \in 0..Penalty)
    <3>1. PairsOk(m) /\ m.calm
      BY <1>3, <2>1, <2>3, Zenon
    <3>2. /\ m.row \in 1..P /\ m.next \in 1..Q /\ m.greedy = Joint(m.pf, m.best) /\ Lowest(m.low, m.row, m.next)
          /\ BestPf(m.pf) /\ BestDc(m.pf, m.best)
      BY <1>7, <3>1, Zenon DEF PairsOk
    <3>3. low = IF m.row = 1 /\ m.next = 1 THEN Joint(Pool("pf")[m.row], Pool("dc")[m.next])
                ELSE Lesser(m.low, Joint(Pool("pf")[m.row], Pool("dc")[m.next]))
      <4>1. cost = Joint(Pool("pf")[m.row], Pool("dc")[m.next])
        BY <1>4, <1>7, <3>1, Zenon
      <4> QED
        BY <4>1, Zenon DEF low
    <3>4. /\ IsPair(low)
          /\ \A i \in 1..m.row, k \in 1..Q : i < m.row \/ k <= m.next => low <= Joint(Pool("pf")[i], Pool("dc")[k])
      <4> DEFINE r == m.row
                 k0 == m.next
                 l == m.low
      <4>1. Loads /\ r \in 1..Len(Pool("pf")) /\ k0 \in 1..Len(Pool("dc")) /\ Lowest(l, r, k0)
        BY <1>1, <3>2, Zenon
      <4>2. low = IF r = 1 /\ k0 = 1 THEN Joint(Pool("pf")[r], Pool("dc")[k0])
                  ELSE Lesser(l, Joint(Pool("pf")[r], Pool("dc")[k0]))
        BY <3>3, Zenon
      <4> HIDE DEF r, k0, l
      <4>3. /\ IsPair(low)
            /\ \A i \in 1..r, k \in 1..Len(Pool("dc")) : i < r \/ k <= k0 => low <= Joint(Pool("pf")[i], Pool("dc")[k])
        BY ONLY <4>1, <4>2, LowPassed, ZenonT(60)
      <4> QED
        BY <4>3, Zenon DEF r, k0
    <3> HIDE DEF P, Q
    <3>5. last <=> m.next = Q
      BY Zenon DEF Q
    <3>6. (at = "half" => (last => m.row # P)) /\ (at = "done" => last /\ m.row = P)
      BY Zenon DEF at, P
    <3> HIDE DEF last
    <3>7. ASSUME at = "half" PROVE PairsOk(n1)
      <4>1. row = (IF m.next = Q THEN m.row + 1 ELSE m.row) /\ next = IF m.next = Q THEN 1 ELSE m.next + 1
        BY <3>5, Zenon DEF row, next
      <4>2. m.next = Q => m.row # P
        BY <3>5, <3>6, <3>7, Zenon
      <4>3. row \in 1..P /\ next \in 1..Q /\ row # 0
        BY <1>5, <3>2, <4>1, <4>2
      <4>4. \A i \in 1..row, k \in 1..Q : i < row \/ k < next => i \in 1..m.row /\ (i < m.row \/ k <= m.next)
        BY <1>5, <3>2, <4>1, <4>2, SMTT(60)
      <4>5. Lowest(low, row, next)
        BY <3>4, <4>4, Zenon DEF Lowest, Q
      <4> QED
        BY <2>1, <3>2, <3>7, <4>3, <4>5, Zenon DEF PairsOk, P, Q
    <3>8. ASSUME at = "done" PROVE n1.greedy - n1.low \in 0..Penalty
      <4>1. m.next = Q /\ m.row = P
        BY <3>5, <3>6, <3>8, Zenon
      <4>2. \A k \in 1..Q : k <= Q
        BY <1>5
      <4>3. \A i \in 1..P, k \in 1..Q : low <= Joint(Pool("pf")[i], Pool("dc")[k])
        BY <3>4, <4>1, <4>2, Zenon
      <4>4. Joint(m.pf, m.best) - low \in 0..Penalty
        BY <1>1, <3>2, <3>4, <4>3, SampleNear, ZenonT(60) DEF P, Q
      <4> QED
        BY <2>1, <3>2, <4>4, Zenon
    <3> QED
      BY <3>7, <3>8, Zenon
  <2>4. at \in {"half", "done"}
    BY Zenon DEF at
  <2> QED
    BY <1>1, <2>1, <2>2, <2>3, <2>4, Zenon DEF MonOk
<1> QED
  BY <1>6, <1>7, Zenon

LEMMA NoSampleOk == MonOk(NoSample) /\ MonOk(NoSample)'
<1>1. NoSample = [f \in MonFields |-> NoSample[f]] /\ NoSample.at = "idle"
  BY Zenon DEF NoSample, MonFields
<1> QED
  BY <1>1, Zenon DEF MonOk

(* A load that changes: whatever the sample went by is no longer claimed. *)
LEMMA MonDisturbed ==
  ASSUME MonOk(mon), mon' = DisturbMonitor
  PROVE  MonOk(mon)'
<1> DEFINE m == mon
           n == [m EXCEPT !.calm = m.calm /\ ~Sampling]
<1>1. m = [f \in MonFields |-> m[f]]
  BY Zenon DEF MonOk
<1>2. /\ n = [f \in MonFields |-> n[f]] /\ n.at = m.at /\ n.greedy = m.greedy /\ n.low = m.low
      /\ n.calm <=> m.calm /\ ~Sampling
  BY <1>1, Zenon DEF MonFields
<1>3. Sampling <=> m.at \notin {"idle", "done"}
  BY Zenon DEF Sampling
<1>4. mon' = n
  BY Zenon DEF DisturbMonitor
<1> HIDE DEF n, m
<1>5. n.calm /\ n.at \notin {"idle", "done"} => FALSE
  BY <1>2, <1>3, Zenon
<1>6. n.calm /\ n.at = "done" => n.greedy - n.low \in 0..Penalty
  BY <1>2, Zenon DEF MonOk, m
<1>7. n.at # "idle" => PrefillPool # <<>> /\ DecodePool # <<>>
  BY <1>2, Zenon DEF MonOk, m
<1> QED
  BY <1>2, <1>4, <1>5, <1>6, <1>7, Zenon DEF MonOk

LEMMA PairInvStep == PairInv /\ [SelectionNext]_selectionVars => PairInv'
<1> SUFFICES ASSUME PairInv, [SelectionNext]_selectionVars PROVE MonOk(mon)'
  BY SelectionInvStep, Zenon DEF PairInv
<1> USE DEF PairInv
<1>1. ASSUME mon' = mon, UNCHANGED <<setup, inflight, ewma>> PROVE MonOk(mon)'
  <2>1. PICK m : m = mon
    BY Zenon
  <2>2. MonOk(m)'
    BY <1>1, <2>1, MonSame, Zenon
  <2> QED
    BY <1>1, <2>1, <2>2, Zenon
<1>2. ASSUME MonOk(mon'), UNCHANGED <<setup, inflight, ewma>> PROVE MonOk(mon)'
  <2>1. PICK m : m = mon'
    BY Zenon
  <2>2. MonOk(m)'
    BY <1>2, <2>1, MonSame, Zenon
  <2> QED
    BY <2>1, <2>2, Zenon
<1>3. ASSUME mon' = DisturbMonitor PROVE MonOk(mon)'
  BY <1>3, MonDisturbed, Zenon
<1>4. CASE SampleNext
  BY <1>2, <1>4, SampleReadOk, SampleWeighOk, SampleScannedOk, SampleHalfOk, SamplePairOk, Zenon
     DEF SampleNext, SampleRead, SampleWeigh, SampleScanned, SampleHalf, SamplePair
<1>5. ASSUME NEW t \in Requests, SampleStart(t) PROVE MonOk(mon)'
  BY <1>2, <1>5, SampleStartOk, Zenon DEF SampleStart
<1>6. ASSUME NEW t \in Requests,
             \/ RouteDecodeOnly(t) \/ RouteShort(t) \/ RouteLong(t) \/ ReadBest(t) \/ Weigh(t)
             \/ \E w \in Walls : PrefillDone(t, w)
             \/ PrefillLost(t) \/ NoteLoad(t) \/ NoteRetry(t)
      PROVE  MonOk(mon)'
  BY <1>1, <1>6, Zenon DEF RouteDecodeOnly, RouteShort, RouteLong, ReadBest, Weigh, PrefillDone, PrefillLost, NoteLoad, NoteRetry
<1>7. ASSUME NEW t \in Requests, Finish(t) \/ NoteExchange(t) PROVE MonOk(mon)'
  BY <1>3, <1>7, Zenon DEF Finish, NoteExchange, Noted
<1>8. ASSUME NEW t \in Requests, Commit(t) PROVE MonOk(mon)'
  <2>1. CASE job[t].for = "prefill"
    BY <1>1, <1>8, <2>1, Zenon DEF Commit
  <2>2. CASE job[t].for # "prefill"
    <3>1. mon' = NoSample \/ mon' = DisturbMonitor
      BY <1>8, <2>2, Zenon DEF Commit
    <3> QED
      BY <1>3, <3>1, NoSampleOk, Zenon
  <2> QED
    BY <2>1, <2>2, Zenon
<1>9. CASE UNCHANGED selectionVars
  BY <1>1, <1>9, Zenon DEF selectionVars
<1> QED
  BY <1>4, <1>5, <1>6, <1>7, <1>8, <1>9, Zenon DEF SelectionNext

(* For any pools, loads and number of requests: a sample of the pairing    *)
(* monitor that no change of the loads disturbed shows a greedy pair that  *)
(* costs at most the transfer penalty over the best pair, and not less     *)
(* than it, although every cost was read on its own                        *)
(* (pairing_regret_targets).                                               *)
THEOREM RegretLimited == SelectionSpec => []RegretBounded
<1>1. SelectionInit => PairInv
  BY SelectionInvInit, NoSampleOk, Zenon DEF SelectionInit, PairInv
<1>2. PairInv => RegretBounded
  BY Zenon DEF PairInv, MonOk, RegretBounded, Penalty
<1> QED
  BY <1>1, <1>2, PairInvStep, PTL DEF SelectionSpec
=============================================================================
