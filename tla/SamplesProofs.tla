---------------------------- MODULE SamplesProofs ----------------------------
(***************************************************************************)
(* Proofs about Samples, ShadowLoops and BenchRun: order statistics, the   *)
(* shadow loops that use them, for rings and histories of any length, and  *)
(* the load benches, for any number of workers and requests, with and      *)
(* without a gate.                                                         *)
(***************************************************************************)
EXTENDS ShadowLoops, BenchRun, FiniteSetTheorems, WellFoundedInduction, TLAPS

(* Finite sets and order statistics *)

LEMMA LeastNat ==
  ASSUME NEW T, T \subseteq Nat, T # {}
  PROVE  \E x \in T : \A y \in T : x <= y
<1> DEFINE R == OpToRel(<, Nat)
<1>1. IsWellFoundedOn(R, Nat)
  BY NatLessThanWellFounded, Zenon
<1>2. \A y, x \in Nat : y < x => <<y, x>> \in R
  BY Zenon DEF OpToRel
<1> HIDE DEF R
<1>3. PICK x \in T : \A y \in T : ~(<<y, x>> \in R)
  BY <1>1, WFMin, Zenon
<1>4. ASSUME NEW y \in T PROVE x <= y
  <2>1. ~(y < x)
    BY <1>2, <1>3, Zenon
  <2> QED
    BY <2>1
<1> QED
  BY <1>4, Zenon

LEMMA GreatestUpTo ==
  ASSUME NEW n \in Nat, NEW T, T \subseteq 0 .. n, T # {}
  PROVE  \E x \in T : \A y \in T : y <= x
<1> DEFINE U == {k \in Nat : n - k \in T}
<1>1. U # {}
  <2>1. PICK t \in T : TRUE
    BY Zenon
  <2>2. n - t \in Nat /\ n - (n - t) = t
    BY <2>1
  <2>3. n - t \in U
    BY <2>1, <2>2, Zenon
  <2> QED
    BY <2>3, Zenon
<1>2. U \subseteq Nat
  BY Zenon
<1>3. PICK u \in U : \A k \in U : u <= k
  <2> HIDE DEF U
  <2> QED
    BY <1>1, <1>2, LeastNat, Zenon
<1>4. u \in Nat /\ n - u \in T
  BY <1>3, Zenon
<1>5. ASSUME NEW y \in T PROVE y <= n - u
  <2>1. y \in Nat /\ n - y \in Nat /\ n - (n - y) = y
    BY <1>5
  <2>2. n - y \in U
    BY <1>5, <2>1, Zenon
  <2>3. u <= n - y
    BY <1>3, <2>2, Zenon
  <2> QED
    BY <1>4, <2>1, <2>3
<1> QED
  BY <1>4, <1>5, Zenon

LEMMA SubCount ==
  ASSUME NEW S, IsFiniteSet(S), NEW T, T \subseteq S
  PROVE  /\ IsFiniteSet(T) /\ Cardinality(T) \in Nat /\ Cardinality(S) \in Nat
         /\ Cardinality(T) <= Cardinality(S)
<1>1. T \in SUBSET S
  BY Zenon
<1>2. IsFiniteSet(T) /\ Cardinality(T) <= Cardinality(S)
  BY <1>1, FS_Subset, Zenon
<1> QED
  BY <1>2, FS_CardinalityType, Zenon

LEMMA SubCountStrict ==
  ASSUME NEW S, IsFiniteSet(S), NEW T, T \subseteq S, NEW x \in S, x \notin T
  PROVE  Cardinality(T) < Cardinality(S)
<1>1. T \in SUBSET S /\ T # S
  BY Zenon
<1>2. Cardinality(T) <= Cardinality(S) /\ (Cardinality(S) = Cardinality(T) => S = T)
  BY <1>1, FS_Subset, Zenon
<1>3. Cardinality(T) \in Nat /\ Cardinality(S) \in Nat
  BY SubCount, Zenon
<1> QED
  BY <1>1, <1>2, <1>3

(* Samples at finitely many positions. *)
Sampled(s, I) == IsFiniteSet(I) /\ \A j \in I : s[j] \in Nat

LEMMA CountsBounded ==
  ASSUME NEW s, NEW I, Sampled(s, I), NEW v
  PROVE  /\ Upto(s, I, v) \in Nat /\ Below(s, I, v) \in Nat /\ Cardinality(I) \in Nat
         /\ Upto(s, I, v) <= Cardinality(I)
<1> DEFINE up == {j \in I : s[j] <= v}
           lo == {j \in I : s[j] < v}
<1>1. up \subseteq I /\ lo \subseteq I
  BY Zenon
<1>2. IsFiniteSet(I)
  BY Zenon DEF Sampled
<1> HIDE DEF up, lo
<1>3. /\ Cardinality(up) \in Nat /\ Cardinality(up) <= Cardinality(I) /\ Cardinality(I) \in Nat
  BY <1>1, <1>2, SubCount, Zenon
<1>4. Cardinality(lo) \in Nat
  BY <1>1, <1>2, SubCount, Zenon
<1> QED
  BY <1>3, <1>4, Zenon DEF Upto, Below, up, lo

(* Fewer are not greater than a lesser value, and not more than are below  *)
(* a greater one.                                                          *)
LEMMA UptoBelow ==
  ASSUME NEW s, NEW I, Sampled(s, I), NEW u \in Nat, NEW v \in Nat, u < v
  PROVE  Upto(s, I, u) <= Below(s, I, v)
<1> DEFINE up == {j \in I : s[j] <= u}
           lo == {j \in I : s[j] < v}
<1>1. up \subseteq lo /\ lo \subseteq I
  BY DEF Sampled
<1>2. IsFiniteSet(I)
  BY Zenon DEF Sampled
<1> HIDE DEF up, lo
<1>3. IsFiniteSet(lo)
  BY <1>1, <1>2, SubCount, Zenon
<1>4. Cardinality(up) <= Cardinality(lo)
  BY <1>1, <1>3, SubCount, Zenon
<1> QED
  BY <1>4, Zenon DEF Upto, Below, up, lo

(* Every index below their number has its sample. *)
LEMMA NthExists ==
  ASSUME NEW s, NEW I, Sampled(s, I), NEW i \in Nat, i < Cardinality(I)
  PROVE  \E v \in {s[j] : j \in I} : Below(s, I, v) <= i /\ i < Upto(s, I, v)
<1> DEFINE n == Cardinality(I)
           V == {s[j] : j \in I}
           reach == {v \in V : i < Upto(s, I, v)}
<1>1. n \in Nat /\ IsFiniteSet(I)
  BY FS_CardinalityType, Zenon DEF Sampled
<1>2. V \subseteq Nat
  BY Zenon DEF Sampled
<1>3. reach # {}
  <2> DEFINE K == {Upto(s, I, v) : v \in V}
  <2>1. K \subseteq 0 .. n
    BY <1>1, CountsBounded
  <2>2. K # {}
    <3>1. I # {}
      BY <1>1, FS_EmptySet
    <3> QED
      BY <3>1, Zenon
  <2>3. PICK k \in K : \A y \in K : y <= k
    <3> HIDE DEF K, n
    <3> QED
      BY <1>1, <2>1, <2>2, GreatestUpTo, Zenon
  <2>4. PICK v \in V : k = Upto(s, I, v)
    BY Zenon
  <2>5. \A j \in I : s[j] <= v
    <3> SUFFICES ASSUME NEW j \in I, ~(s[j] <= v) PROVE FALSE
      BY Zenon
    <3>1. v \in Nat /\ s[j] \in Nat /\ v < s[j]
      BY <1>2 DEF Sampled
    <3> DEFINE up == {m \in I : s[m] <= s[j]}
               lo == {m \in I : s[m] < s[j]}
    <3>2. Upto(s, I, v) <= Cardinality(lo)
      BY <3>1, UptoBelow DEF Below
    <3>3. up \subseteq I /\ lo \subseteq up /\ j \in up /\ j \notin lo
      BY <3>1 DEF Sampled
    <3>4. Upto(s, I, s[j]) = Cardinality(up)
      BY Zenon DEF Upto
    <3> HIDE DEF up, lo
    <3>5. IsFiniteSet(up)
      BY <1>1, <3>3, SubCount, Zenon
    <3>6. Cardinality(lo) < Cardinality(up) /\ Cardinality(lo) \in Nat /\ Cardinality(up) \in Nat
      BY <3>3, <3>5, SubCount, SubCountStrict, Zenon
    <3>7. Upto(s, I, s[j]) <= Upto(s, I, v) /\ Upto(s, I, v) \in Nat
      BY <2>3, <2>4, CountsBounded, Zenon
    <3> QED
      BY <3>2, <3>4, <3>6, <3>7
  <2>6. {j \in I : s[j] <= v} = I
    BY <2>5, Zenon
  <2>7. Upto(s, I, v) = Cardinality(I)
    BY <2>6, Zenon DEF Upto
  <2>8. v \in reach
    BY <2>7, Zenon
  <2> QED
    BY <2>8, Zenon
<1>4. PICK v \in reach : \A y \in reach : v <= y
  <2>1. reach \subseteq Nat
    BY <1>2, Zenon
  <2> HIDE DEF reach
  <2> QED
    BY <1>3, <2>1, LeastNat, Zenon
<1>5. v \in V /\ v \in Nat /\ i < Upto(s, I, v)
  BY <1>2, Zenon
<1>6. Below(s, I, v) <= i
  <2> DEFINE lo == {j \in I : s[j] < v}
             K == {Upto(s, I, s[j]) : j \in lo}
  <2>1. CASE lo = {}
    <3>1. Below(s, I, v) = 0
      BY <2>1, FS_EmptySet, Zenon DEF Below
    <3> QED
      BY <3>1
  <2>2. CASE lo # {}
    <3>1. K \subseteq 0 .. n /\ K # {}
      BY <1>1, <2>2, CountsBounded
    <3>2. PICK k \in K : \A y \in K : y <= k
      <4> HIDE DEF K, n
      <4> QED
        BY <1>1, <3>1, GreatestUpTo, Zenon
    <3>3. PICK j \in lo : k = Upto(s, I, s[j])
      BY Zenon
    <3>4. j \in I /\ s[j] \in Nat /\ s[j] < v /\ s[j] \in V
      BY Zenon DEF Sampled
    <3>5. ~(i < Upto(s, I, s[j]))
      BY <1>4, <1>5, <3>4
    <3>6. lo \subseteq {m \in I : s[m] <= s[j]}
      <4> SUFFICES ASSUME NEW m \in lo, ~(s[m] <= s[j]) PROVE FALSE
        BY Zenon
      <4>1. m \in I /\ s[m] \in Nat /\ s[j] < s[m]
        BY <3>4 DEF Sampled
      <4> DEFINE up == {x \in I : s[x] <= s[m]}
                 less == {x \in I : s[x] < s[m]}
      <4>2. Upto(s, I, s[j]) <= Cardinality(less)
        BY <3>4, <4>1, UptoBelow DEF Below
      <4>3. up \subseteq I /\ less \subseteq up /\ m \in up /\ m \notin less
        BY <4>1 DEF Sampled
      <4>4. Upto(s, I, s[m]) = Cardinality(up) /\ Upto(s, I, s[m]) \in K
        BY Zenon DEF Upto
      <4>5. Upto(s, I, s[m]) <= Upto(s, I, s[j])
        BY <3>2, <3>3, <4>4, Zenon
      <4> HIDE DEF up, less, lo, K
      <4>6. IsFiniteSet(up)
        BY <1>1, <4>3, SubCount, Zenon
      <4>7. Cardinality(less) < Cardinality(up) /\ Cardinality(less) \in Nat /\ Cardinality(up) \in Nat
        BY <4>3, <4>6, SubCount, SubCountStrict, Zenon
      <4>8. Upto(s, I, s[j]) \in Nat
        BY CountsBounded, Zenon
      <4> QED
        BY <4>2, <4>4, <4>5, <4>7, <4>8
    <3> DEFINE up == {m \in I : s[m] <= s[j]}
    <3>7. up \subseteq I
      BY Zenon
    <3> HIDE DEF up, lo
    <3>8. IsFiniteSet(up)
      BY <1>1, <3>7, SubCount, Zenon
    <3>9. Cardinality(lo) <= Cardinality(up)
      BY <3>6, <3>8, SubCount, Zenon DEF up
    <3>10. Below(s, I, v) = Cardinality(lo) /\ Upto(s, I, s[j]) = Cardinality(up)
      BY Zenon DEF Below, Upto, lo, up
    <3>11. Below(s, I, v) \in Nat /\ Upto(s, I, s[j]) \in Nat
      BY CountsBounded, Zenon
    <3> QED
      BY <3>5, <3>9, <3>10, <3>11
  <2> QED
    BY <2>1, <2>2, Zenon
<1> QED
  BY <1>5, <1>6, Zenon

LEMMA NthIs ==
  ASSUME NEW s, NEW I, Sampled(s, I), NEW i \in Nat, i < Cardinality(I)
  PROVE  /\ Nth(s, I, i) \in Nat /\ \E j \in I : Nth(s, I, i) = s[j]
         /\ Below(s, I, Nth(s, I, i)) <= i /\ i < Upto(s, I, Nth(s, I, i))
<1> DEFINE V == {s[j] : j \in I}
           v == Nth(s, I, i)
<1>1. \E x \in V : Below(s, I, x) <= i /\ i < Upto(s, I, x)
  BY NthExists, Zenon
<1> HIDE DEF V
<1>2. v = CHOOSE x \in V : Below(s, I, x) <= i /\ i < Upto(s, I, x)
  BY Zenon DEF Nth, V
<1>3. v \in V /\ Below(s, I, v) <= i /\ i < Upto(s, I, v)
  BY <1>1, <1>2, Zenon
<1> HIDE DEF v
<1>4. v \in Nat /\ \E j \in I : v = s[j]
  BY <1>3, Zenon DEF V, Sampled
<1> QED
  BY <1>3, <1>4, Zenon DEF v

LEMMA NthOrdered ==
  ASSUME NEW s, NEW I, Sampled(s, I), NEW i \in Nat, NEW k \in Nat, i <= k, k < Cardinality(I)
  PROVE  Nth(s, I, i) <= Nth(s, I, k)
<1> DEFINE x == Nth(s, I, i)
           y == Nth(s, I, k)
<1>1. i < Cardinality(I)
  BY CountsBounded
<1>2. x \in Nat /\ Below(s, I, x) <= i
  BY <1>1, NthIs, Zenon
<1>3. y \in Nat /\ k < Upto(s, I, y)
  BY NthIs, Zenon
<1> HIDE DEF x, y
<1>4. y < x => Upto(s, I, y) <= Below(s, I, x)
  BY <1>2, <1>3, UptoBelow, Zenon
<1>5. Upto(s, I, y) \in Nat /\ Below(s, I, x) \in Nat
  BY CountsBounded, Zenon
<1>6. x <= y
  BY <1>2, <1>3, <1>4, <1>5
<1> QED
  BY <1>6, Zenon DEF x, y

LEMMA SuffixFacts ==
  ASSUME NEW S, NEW s \in Seq(S), NEW n \in 0 .. Len(s)
  PROVE  LET u == SubSeq(s, n + 1, Len(s))
         IN  u \in Seq(S) /\ Len(u) = Len(s) - n /\ \A i \in 1 .. (Len(s) - n) : u[i] = s[n + i]
  OBVIOUS

-----------------------------------------------------------------------------
(* Shadow loops *)

LEMMA DivFacts ==
  ASSUME NEW x \in Nat, NEW d \in Nat \ {0}
  PROVE  x \div d \in Nat /\ (x \div d) * d <= x /\ x < (x \div d) * d + d
  OBVIOUS

LEMMA TimesMono ==
  ASSUME NEW a \in Nat, NEW b \in Nat, NEW c \in Nat, a <= b
  PROVE  a * c <= b * c /\ a * c \in Nat /\ b * c \in Nat
  OBVIOUS

(* A copy of q chunks that fits in half of a budget. *)
LEMMA CopyFits ==
  ASSUME NEW q \in Nat, NEW c \in Nat, NEW w \in Nat, NEW h \in Nat, NEW d \in Nat, NEW t \in Nat,
         q * w <= h, q * c >= d, 2 * h <= t
  PROVE  2 * d * w <= t * c
<1> DEFINE qw == q * w
           qc == q * c
           ww == 2 * w
<1>1. qw \in Nat /\ qc \in Nat /\ ww \in Nat
  OBVIOUS
<1>2. 2 * d * w = d * ww /\ qc * ww = (2 * qw) * c
  OBVIOUS
<1>3. qw <= h /\ d <= qc
  OBVIOUS
<1> HIDE DEF qw, qc, ww
<1>4. 2 * qw \in Nat /\ 2 * qw <= t
  BY <1>1, <1>3
<1> DEFINE lo == d * ww
           mid == qc * ww
           hi == t * c
<1>5. lo <= mid /\ lo \in Nat /\ mid \in Nat
  BY <1>1, <1>3, TimesMono, Zenon
<1>6. mid <= hi /\ hi \in Nat
  BY <1>2, <1>4, TimesMono, Zenon
<1>7. 2 * d * w = lo
  BY <1>2, Zenon
<1> HIDE DEF lo, mid, hi
<1>8. lo <= hi
  BY <1>5, <1>6
<1> QED
  BY <1>7, <1>8, Zenon DEF hi

LEMMA CeilDivFacts ==
  ASSUME NEW n \in Nat, NEW d \in Nat \ {0}
  PROVE  /\ CeilDiv(n, d) \in Nat /\ CeilDiv(n, d) * d >= n /\ CeilDiv(n, d) * d < n + d
         /\ n <= d => CeilDiv(n, d) <= 1
<1> DEFINE q == CeilDiv(n, d)
<1>1. n + d - 1 \in Nat
  OBVIOUS
<1>2. q \in Nat /\ q * d <= n + d - 1 /\ n + d - 1 < q * d + d
  BY <1>1, DivFacts, Zenon DEF CeilDiv
<1> HIDE DEF q
<1>3. q * d \in Nat
  BY <1>2
<1>4. q * d >= n /\ q * d < n + d
  BY <1>2, <1>3
<1>5. ASSUME n <= d, q > 1 PROVE FALSE
  <2>1. 2 * d <= q * d
    BY <1>2, <1>5, TimesMono
  <2> QED
    BY <1>2, <1>3, <1>5, <2>1
<1>6. n <= d => q <= 1
  BY <1>2, <1>5
<1> QED
  BY <1>2, <1>4, <1>6, Zenon DEF q

LEMMA Recorded ==
  ASSUME NEW S, NEW ring \in Seq(S), NEW max \in Nat \ {0}, NEW x \in S
  PROVE  LET next == record(ring, max, x)
         IN  next \in Seq(S) /\ next # <<>> /\ Newest(next) = x
<1> DEFINE kept == IF Len(ring) >= max THEN Tail(ring) ELSE ring
<1>1. kept \in Seq(S)
  BY DEF kept
<1>2. record(ring, max, x) = Append(kept, x)
  BY Zenon DEF record
<1> HIDE DEF kept
<1>3. /\ Append(kept, x) \in Seq(S) /\ Len(Append(kept, x)) = Len(kept) + 1
      /\ Append(kept, x)[Len(kept) + 1] = x /\ Append(kept, x) # <<>>
  BY <1>1, SMTT(30)
<1> QED
  BY <1>2, <1>3, Zenon DEF Newest

Migration == [at : {"copying", "done"}, m : Models, itl : Itls, dirty : Nat, passes : Nat]
Stall == [estimated : Nat, measured : Measured, decision : {"commit", "abort"}]

MigrationInv ==
  /\ mig = [at |-> "none"] \/ mig \in Migration
  /\ stalls \in Seq(Stall)
  /\ mig.at = "done" => /\ stalls # <<>>
                        /\ Newest(stalls).decision = evaluate_cutover(copy_us(mig.m, mig.dirty), mig.itl)

LEMMA ModelFacts ==
  ASSUME NEW m \in Models
  PROVE  /\ m.total_bytes \in Nat /\ m.chunk_bytes \in Nat /\ m.per_chunk_us \in Nat /\ m.dirty_fraction \in Nat
         /\ chunk(m) \in Nat \ {0}
<1>1. m.total_bytes \in Nat /\ m.chunk_bytes \in Nat /\ m.per_chunk_us \in Nat /\ m.dirty_fraction \in Nat
  BY ShadowAssumption, Zenon
<1> QED
  BY <1>1 DEF chunk, Greater

LEMMA CopyFacts ==
  ASSUME NEW m \in Models, NEW bytes \in Nat
  PROVE  copy_us(m, bytes) \in Nat
<1>1. m.per_chunk_us \in Nat /\ CeilDiv(bytes, chunk(m)) \in Nat
  BY ModelFacts, CeilDivFacts, Zenon
<1> QED
  BY <1>1 DEF copy_us

LEMMA PassTyped ==
  ASSUME NEW g \in Migration, NEW n \in Nat, NEW k \in Nat
  PROVE  /\ [g EXCEPT !.dirty = n, !.passes = k] \in Migration
         /\ [g EXCEPT !.dirty = n, !.passes = k].at = g.at
  BY Zenon DEF Migration

LEMMA MigrationSteps ==
  ASSUME MigrationInv, [PredictorNext \/ CorrectorNext \/ MigrationNext]_shadowVars
  PROVE  MigrationInv'
<1>1. ASSUME NEW m \in Models, NEW itl \in Itls, StartMigration(m, itl) PROVE MigrationInv'
  <2>1. m.total_bytes \in Nat
    BY ModelFacts, Zenon
  <2>2. mig' \in Migration /\ mig'.at = "copying" /\ stalls' = stalls
    BY <1>1, <2>1, Zenon DEF StartMigration, Migration
  <2> QED
    BY <2>2, Zenon DEF MigrationInv
<1>2. ASSUME CopyPass PROVE MigrationInv'
  <2>1. mig \in Migration /\ stalls' = stalls /\ mig.at = "copying"
    BY <1>2 DEF CopyPass, MigrationInv
  <2>2. mig.m \in Models /\ mig.dirty \in Nat /\ mig.passes \in Nat
    BY <2>1, Zenon DEF Migration
  <2> DEFINE f == mig.m.dirty_fraction
             left == IF f >= 100 THEN mig.dirty - 1 ELSE (mig.dirty * f) \div 100
  <2>3. f \in Nat /\ mig.dirty > chunk(mig.m) /\ chunk(mig.m) \in Nat \ {0}
    BY <1>2, <2>2, ModelFacts, Zenon DEF CopyPass
  <2>4. mig' = [mig EXCEPT !.dirty = left, !.passes = mig.passes + 1]
    <3>1. mig' = [mig EXCEPT !.dirty = left, !.passes = @ + 1]
      BY <1>2, Zenon DEF CopyPass
    <3> HIDE DEF left
    <3> QED
      BY <2>1, <3>1, Zenon DEF Migration
  <2>5. left \in Nat
    <3> HIDE DEF f
    <3>1. mig.dirty * f \in Nat /\ mig.dirty - 1 \in Nat
      BY <2>2, <2>3
    <3>2. (mig.dirty * f) \div 100 \in Nat
      BY <3>1, DivFacts
    <3> QED
      BY <3>1, <3>2, Zenon
  <2> HIDE DEF left
  <2>6. mig' \in Migration /\ mig'.at = "copying"
    <3>1. mig.passes + 1 \in Nat
      BY <2>2
    <3> QED
      BY <2>1, <2>4, <2>5, <3>1, PassTyped, ZenonT(60)
  <2> QED
    BY <2>1, <2>6, Zenon DEF MigrationInv
<1>3. ASSUME NEW us \in Measured, Cutover(us) PROVE MigrationInv'
  <2> DEFINE est == copy_us(mig.m, mig.dirty)
             x == [estimated |-> est, measured |-> us, decision |-> evaluate_cutover(est, mig.itl)]
  <2>1. mig \in Migration /\ stalls \in Seq(Stall)
    BY <1>3 DEF Cutover, MigrationInv
  <2>2. mig.m \in Models /\ mig.dirty \in Nat
    BY <2>1, Zenon DEF Migration
  <2>3. stalls' = record(stalls, MaxSamples, x) /\ mig' = [mig EXCEPT !.at = "done"]
    BY <1>3, Zenon DEF Cutover
  <2>4. x \in Stall
    <3>1. est \in Nat /\ evaluate_cutover(est, mig.itl) \in {"commit", "abort"}
      BY <2>2, CopyFacts, Zenon DEF evaluate_cutover
    <3> HIDE DEF est
    <3> QED
      BY <3>1, Zenon DEF Stall
  <2>5. MaxSamples \in Nat \ {0}
    BY ShadowAssumption, Zenon
  <2>6. x.decision = evaluate_cutover(est, mig.itl)
    BY Zenon
  <2> HIDE DEF x
  <2>7. stalls' \in Seq(Stall) /\ stalls' # <<>> /\ Newest(stalls') = x
    BY <2>1, <2>3, <2>4, <2>5, Recorded
  <2>8. /\ mig' \in Migration /\ mig'.at = "done"
        /\ mig'.m = mig.m /\ mig'.dirty = mig.dirty /\ mig'.itl = mig.itl
    BY <2>1, <2>3, Zenon DEF Migration
  <2>9. Newest(stalls').decision = evaluate_cutover(copy_us(mig'.m, mig'.dirty), mig'.itl)
    BY <2>6, <2>7, <2>8, Zenon
  <2>10. (Newest(stalls).decision = evaluate_cutover(copy_us(mig.m, mig.dirty), mig.itl))'
    BY <2>9, Zenon DEF Newest, evaluate_cutover, copy_us, limit_us, chunk
  <2> QED
    BY <2>7, <2>8, <2>10, Zenon DEF MigrationInv
<1>4. ASSUME mig' = mig, stalls' = stalls PROVE MigrationInv'
  BY <1>4, Zenon DEF MigrationInv
<1>5. \/ \E m \in Models, itl \in Itls : StartMigration(m, itl)
      \/ CopyPass
      \/ \E us \in Measured : Cutover(us)
      \/ mig' = mig /\ stalls' = stalls
  BY Zenon DEF PredictorNext, CorrectorNext, MigrationNext, RecordLength, RecordRatio, evaluate, shadowVars
<1> QED
  BY <1>1, <1>2, <1>3, <1>4, <1>5, Zenon

(* A cutover commits only if all the bytes left can be moved within half an *)
(* inter-token latency, and aborts after getting down to one chunk only if *)
(* that chunk alone takes longer (QuiesceModel and evaluate_cutover), for  *)
(* every size, rate and dirty fraction.                                    *)
THEOREM StallsCovered == ShadowSpec => []StallCovered
<1>1. ShadowInit => MigrationInv
  BY DEF ShadowInit, MigrationInv
<1>2. MigrationInv => StallCovered
  <2> SUFFICES ASSUME MigrationInv, mig.at = "done", stalls # <<>>
               PROVE  LET d == Newest(stalls).decision IN
                        /\ d = "commit" => 2 * mig.dirty * mig.m.per_chunk_us <= mig.itl * chunk(mig.m)
                        /\ (d = "abort" /\ mig.dirty <= chunk(mig.m)) => mig.m.per_chunk_us > mig.itl \div 2
    BY Zenon DEF StallCovered
  <2> DEFINE c == chunk(mig.m)
             w == mig.m.per_chunk_us
             q == CeilDiv(mig.dirty, c)
             h == mig.itl \div 2
  <2>1. /\ mig \in Migration
        /\ Newest(stalls).decision = evaluate_cutover(copy_us(mig.m, mig.dirty), mig.itl)
    BY DEF MigrationInv
  <2>2. mig.m \in Models /\ mig.itl \in Nat /\ mig.dirty \in Nat
    BY <2>1, ShadowAssumption, Zenon DEF Migration
  <2>3. c \in Nat \ {0} /\ w \in Nat
    BY <2>2, ModelFacts, Zenon
  <2>4. /\ Newest(stalls).decision = "commit" => q * w <= h
        /\ Newest(stalls).decision = "abort" => ~(q * w <= h)
    BY <2>1, Zenon DEF evaluate_cutover, copy_us, limit_us
  <2>5. q \in Nat /\ q * c >= mig.dirty /\ (mig.dirty <= c => q <= 1)
    BY <2>2, <2>3, CeilDivFacts, Zenon
  <2>6. h \in Nat /\ 2 * h <= mig.itl
    BY <2>2, SMTT(30)
  <2> HIDE DEF c, w, q, h
  <2>7. ASSUME q * w <= h PROVE 2 * mig.dirty * w <= mig.itl * c
    <3> DEFINE d == mig.dirty
               t == mig.itl
    <3>1. c \in Nat /\ d \in Nat /\ t \in Nat /\ q * c >= d /\ 2 * h <= t
      BY <2>2, <2>3, <2>5, <2>6, Zenon
    <3> HIDE DEF d, t
    <3>2. 2 * d * w <= t * c
      BY <2>3, <2>5, <2>6, <2>7, <3>1, CopyFits, Zenon
    <3> QED
      BY <3>2, Zenon DEF d, t
  <2>8. ASSUME ~(q * w <= h), mig.dirty <= c PROVE w > h
    <3>1. q * w <= 1 * w
      BY <2>3, <2>5, <2>8, TimesMono, Zenon
    <3> QED
      BY <2>3, <2>5, <2>6, <2>8, <3>1
  <2> QED
    BY <2>4, <2>7, <2>8, Zenon DEF c, w, h
<1> QED
  BY <1>1, <1>2, MigrationSteps, PTL DEF ShadowSpec

LEMMA PositionsFinite ==
  ASSUME NEW n \in Nat
  PROVE  IsFiniteSet(1 .. n) /\ Cardinality(1 .. n) = n
<1>1. 1 \in Int /\ n \in Int /\ (IF 1 > n THEN 0 ELSE n - 1 + 1) = n
  OBVIOUS
<1> QED
  BY <1>1, FS_Interval, Zenon

LEMMA MedianNat ==
  ASSUME NEW s \in Seq(Nat)
  PROVE  Median(s) \in Nat
<1> DEFINE I == Usable(s)
           n == Cardinality(I)
<1>1. Len(s) \in Nat /\ I \subseteq 1 .. Len(s) /\ \A j \in I : s[j] \in Nat
  BY SMTT(30) DEF Usable
<1>2. IsFiniteSet(I)
  BY <1>1, PositionsFinite, SubCount, Zenon
<1>3. Sampled(s, I)
  BY <1>1, <1>2, Zenon DEF Sampled
<1>4. CASE I = {}
  BY <1>4 DEF Median
<1>5. CASE I # {}
  <2>1. n \in Nat /\ n # 0
    BY <1>2, <1>5, FS_CardinalityType, FS_EmptySet, Zenon
  <2>2. Median(s) = Nth(s, I, n \div 2)
    BY <1>5, Zenon DEF Median
  <2> HIDE DEF I
  <2>3. n \div 2 \in Nat /\ n \div 2 < n
    <3> HIDE DEF n
    <3> QED
      BY <2>1
  <2> QED
    BY <1>3, <2>2, <2>3, NthIs, ZenonT(60)
<1> QED
  BY <1>4, <1>5, Zenon

Window == [ratios : Seq(Nat), violations : Violations]

EarnedBy(w) ==
  /\ w.violations <= MaxViolations
  /\ train_bounded_delta(w.ratios) \in 81 .. 119
  /\ eval_goodput_improvement(w.ratios, train_bounded_delta(w.ratios)) >= MinGoodput

CorrectorInv ==
  /\ ratios \in Seq(Nat)
  /\ judged \in Seq(Window) /\ Len(judged) <= 2
  /\ stage # "shadow" => judged # <<>> /\ EarnedBy(Newest(judged))
  /\ stage = "production" => Len(judged) = 2 /\ EarnedBy(judged[1])

(* Only a window with no saturated clamp and enough goodput is healthy. *)
LEMMA HealthyEarns ==
  ASSUME NEW s \in Seq(Nat), NEW v, Healthy(s, v)
  PROVE  EarnedBy([ratios |-> s, violations |-> v])
<1> DEFINE d == train_bounded_delta(s)
           w == [ratios |-> s, violations |-> v]
<1>1. /\ ~(d <= 80 \/ d >= 120)
      /\ v <= MaxViolations /\ eval_goodput_improvement(s, d) >= MinGoodput
  BY Zenon DEF Healthy, is_clamp_saturated, eval_corrector_graduation
<1>2. d \in Int
  BY MedianNat DEF train_bounded_delta, Corrector, Greater, Lesser
<1> HIDE DEF d
<1>3. d \in 81 .. 119
  BY <1>1, <1>2
<1>4. w.ratios = s /\ w.violations = v
  BY Zenon
<1> HIDE DEF w
<1>5. EarnedBy(w)
  BY <1>1, <1>3, <1>4, ZenonT(60) DEF EarnedBy, d
<1> QED
  BY <1>5, Zenon DEF w

LEMMA TailFacts ==
  ASSUME NEW S, NEW s \in Seq(S), Len(s) > 0
  PROVE  /\ Tail(s) \in Seq(S) /\ Len(Tail(s)) = Len(s) - 1
         /\ \A i \in 1 .. Len(s) - 1 : Tail(s)[i] = s[i + 1]
  OBVIOUS

LEMMA TailOfThree ==
  ASSUME NEW S, NEW s \in Seq(S), Len(s) = 3
  PROVE  Tail(s) \in Seq(S) /\ Len(Tail(s)) = 2 /\ Tail(s)[1] = s[2] /\ Tail(s)[2] = s[3]
<1>1. Len(s) > 0 /\ Len(s) - 1 = 2
  OBVIOUS
<1>2. Tail(s) \in Seq(S) /\ Len(Tail(s)) = 2 /\ \A i \in 1 .. 2 : Tail(s)[i] = s[i + 1]
  BY <1>1, TailFacts, Zenon
<1> DEFINE u == Tail(s)
<1> HIDE DEF u
<1>3. u[1] = s[2] /\ u[2] = s[3]
  <2>1. \A i \in 1 .. 2 : u[i] = s[i + 1]
    BY <1>2, Zenon DEF u
  <2>2. 1 \in 1 .. 2 /\ 2 \in 1 .. 2 /\ 1 + 1 = 2 /\ 2 + 1 = 3
    OBVIOUS
  <2>3. u[1] = s[1 + 1] /\ u[2] = s[2 + 1]
    BY <2>1, <2>2, Zenon
  <2> QED
    BY <2>2, <2>3, Zenon
<1> QED
  BY <1>2, <1>3, Zenon DEF u

LEMMA LastFacts ==
  ASSUME NEW S, NEW s \in Seq(S), Len(s) > 0
  PROVE  s # <<>> /\ Newest(s) = s[Len(s)]
  BY DEF Newest

(* The last two windows judged are kept. *)
LEMMA JudgedKept ==
  ASSUME NEW js \in Seq(Window), Len(js) <= 2, NEW w \in Window
  PROVE  LET all == Append(js, w)
             next == IF Len(all) > 2 THEN Tail(all) ELSE all
         IN  /\ next \in Seq(Window) /\ Len(next) <= 2 /\ next # <<>> /\ Newest(next) = w
             /\ js # <<>> => Len(next) = 2 /\ next[1] = Newest(js)
<1> DEFINE all == Append(js, w)
           next == IF Len(all) > 2 THEN Tail(all) ELSE all
           n == Len(js)
<1>1. /\ all \in Seq(Window) /\ Len(all) = n + 1 /\ all[n + 1] = w /\ n \in {0, 1, 2}
      /\ n > 0 => all[n] = js[n]
  <2>1. n \in Nat /\ n <= 2
    OBVIOUS
  <2>2. n \in {0, 1, 2}
    <3> HIDE DEF n
    <3> QED
      BY <2>1
  <2>3. all \in Seq(Window) /\ Len(all) = n + 1 /\ all[n + 1] = w
    OBVIOUS
  <2>4. \A i \in 1 .. n : all[i] = js[i]
    OBVIOUS
  <2>5. n > 0 => n \in 1 .. n
    BY <2>1
  <2> HIDE DEF n, all
  <2> QED
    BY <2>2, <2>3, <2>4, <2>5, Zenon
<1>2. js # <<>> => n > 0 /\ Newest(js) = js[n]
  BY DEF Newest
<1> HIDE DEF all, n
<1>3. CASE n = 2
  <2>1. /\ next = Tail(all) /\ next \in Seq(Window) /\ Len(next) = 2
        /\ next[1] = all[2] /\ next[2] = all[3]
    <3>1. Len(all) = 3 /\ all \in Seq(Window)
      BY <1>1, <1>3
    <3>2. next = Tail(all)
      BY <3>1
    <3> HIDE DEF next
    <3>3. /\ Tail(all) \in Seq(Window) /\ Len(Tail(all)) = 2
          /\ Tail(all)[1] = all[2] /\ Tail(all)[2] = all[3]
      BY <3>1, TailOfThree, Zenon
    <3> QED
      BY <3>2, <3>3, Zenon
  <2> HIDE DEF next
  <2>2. Newest(next) = next[2] /\ next # <<>>
    <3>1. Len(next) = 2 /\ next \in Seq(Window)
      BY <2>1, Zenon
    <3>2. Len(next) > 0
      BY <3>1
    <3> QED
      BY <3>1, <3>2, LastFacts, Zenon
  <2> QED
    BY <1>1, <1>2, <1>3, <2>1, <2>2 DEF all, next
<1>4. CASE n # 2
  <2>1. next = all
    BY <1>1, <1>4
  <2>2. Newest(all) = all[n + 1] /\ all # <<>>
    BY <1>1 DEF Newest
  <2>3. js # <<>> => n = 1
    BY <1>1, <1>2, <1>4
  <2>4. Len(all) <= 2
    BY <1>1, <1>4
  <2>5. js # <<>> => Len(all) = 2 /\ all[1] = Newest(js)
    BY <1>1, <1>2, <2>3
  <2> HIDE DEF next
  <2> QED
    BY <1>1, <2>1, <2>2, <2>4, <2>5, Zenon DEF all, next
<1> QED
  BY <1>1, <1>3, <1>4, Zenon

LEMMA EvaluateKeeps ==
  ASSUME CorrectorInv, NEW v \in Violations, evaluate(v)
  PROVE  CorrectorInv'
<1> DEFINE w == [ratios |-> ratios, violations |-> v]
           healthy == Healthy(ratios, v)
<1>1. ratios \in Seq(Nat) /\ judged \in Seq(Window) /\ Len(judged) <= 2
  BY Zenon DEF CorrectorInv
<1>2. w \in Window
  BY <1>1, Zenon DEF Window
<1>3. healthy => EarnedBy(w)
  BY <1>1, HealthyEarns, Zenon
<1>4. /\ judged' = LET all == Append(judged, w) IN IF Len(all) > 2 THEN Tail(all) ELSE all
      /\ stage' = NextStage(stage, healthy) /\ ratios' = ratios
  BY Zenon DEF evaluate
<1> HIDE DEF w, healthy
<1>5. /\ judged' \in Seq(Window) /\ Len(judged') <= 2 /\ judged' # <<>> /\ Newest(judged') = w
      /\ judged # <<>> => Len(judged') = 2 /\ judged'[1] = Newest(judged)
  BY <1>1, <1>2, <1>4, JudgedKept, Zenon
<1>6. CASE ~healthy
  <2>1. stage' = "shadow"
    BY <1>4, <1>6, Zenon DEF NextStage
  <2> QED
    BY <1>1, <1>4, <1>5, <2>1, Zenon DEF CorrectorInv
<1>7. CASE healthy
  <2>1. EarnedBy(w) /\ stage' = IF stage = "shadow" THEN "canary" ELSE "production"
    BY <1>3, <1>4, <1>7, Zenon DEF NextStage
  <2>2. EarnedBy(Newest(judged'))
    BY <1>5, <2>1, Zenon
  <2>3. stage' = "production" => Len(judged') = 2 /\ EarnedBy(judged'[1])
    BY <1>5, <2>1, Zenon DEF CorrectorInv
  <2>4. EarnedBy(Newest(judged))' /\ (EarnedBy(judged'[1]) => EarnedBy(judged[1])')
    BY <2>2, Zenon DEF EarnedBy, Newest, train_bounded_delta, eval_goodput_improvement, Median, Usable, Improves
  <2> QED
    BY <1>1, <1>4, <1>5, <2>3, <2>4, Zenon DEF CorrectorInv
<1> QED
  BY <1>6, <1>7, Zenon

(* The corrector leaves shadow only on the strength of the last window it  *)
(* judged, and is in production only if the one before was as good         *)
(* (GraduationController::evaluate), whatever the window size, the gate    *)
(* and the ratios.                                                         *)
THEOREM StagesEarned == ShadowSpec => []StageEarned
<1>1. ShadowInit => CorrectorInv
  BY DEF ShadowInit, CorrectorInv
<1>2. CorrectorInv /\ [PredictorNext \/ CorrectorNext \/ MigrationNext]_shadowVars => CorrectorInv'
  <2> SUFFICES ASSUME CorrectorInv, [PredictorNext \/ CorrectorNext \/ MigrationNext]_shadowVars
               PROVE  CorrectorInv'
    BY Zenon
  <2>1. ASSUME NEW r \in Ratios, RecordRatio(r) PROVE CorrectorInv'
    <3>1. r \in Nat /\ MaxSamples \in Nat \ {0} /\ ratios \in Seq(Nat)
      BY ShadowAssumption, Zenon DEF CorrectorInv
    <3>2. record(ratios, MaxSamples, r) \in Seq(Nat)
      BY <3>1, Recorded, Zenon
    <3>3. ratios' \in Seq(Nat) /\ UNCHANGED <<stage, judged>>
      BY <2>1, <3>2, Zenon DEF RecordRatio
    <3> QED
      BY <3>3, Zenon DEF CorrectorInv
  <2>2. ASSUME NEW v \in Violations, evaluate(v) PROVE CorrectorInv'
    BY <2>2, EvaluateKeeps, Zenon
  <2>3. ASSUME UNCHANGED <<ratios, stage, judged>> PROVE CorrectorInv'
    BY <2>3, Zenon DEF CorrectorInv
  <2>4. \/ \E r \in Ratios : RecordRatio(r)
        \/ \E v \in Violations : evaluate(v)
        \/ UNCHANGED <<ratios, stage, judged>>
    BY Zenon DEF PredictorNext, CorrectorNext, MigrationNext, RecordLength, StartMigration, CopyPass, Cutover, shadowVars
  <2> QED
    BY <2>1, <2>2, <2>3, <2>4, Zenon
<1>3. CorrectorInv => StageEarned
  BY Zenon DEF CorrectorInv, StageEarned, EarnedBy
<1> QED
  BY <1>1, <1>2, <1>3, PTL DEF ShadowSpec

LEMMA DivMono ==
  ASSUME NEW x \in Nat, NEW y \in Nat, x <= y, NEW d \in Nat \ {0}
  PROVE  x \div d <= y \div d
<1> DEFINE a == x \div d
           b == y \div d
<1>1. a \in Nat /\ a * d <= x /\ b \in Nat /\ y < b * d + d
  BY DivFacts, Zenon
<1> HIDE DEF a, b
<1>2. ASSUME b < a PROVE FALSE
  <2>1. b + 1 \in Nat /\ b + 1 <= a
    BY <1>1, <1>2
  <2>2. (b + 1) * d <= a * d
    BY <1>1, <2>1, TimesMono, Zenon
  <2>3. (b + 1) * d = b * d + d /\ b * d \in Nat /\ a * d \in Nat
    BY <1>1
  <2> QED
    BY <1>1, <2>2, <2>3
<1>3. a <= b
  BY <1>1, <1>2
<1> QED
  BY <1>3, Zenon DEF a, b

(* Whole blocks and their overheads cover the tokens, and more tokens      *)
(* never reserve less.                                                     *)
LEMMA ReservedCovers ==
  ASSUME NEW n \in Nat
  PROVE  kv_reserved(n) \in Nat /\ n * BytesPerToken \in Nat /\ n * BytesPerToken <= kv_reserved(n)
<1> DEFINE q == CeilDiv(n, BLOCK_TOKENS)
           payload == q * BLOCK_TOKENS * BytesPerToken
<1>1. BLOCK_TOKENS \in Nat \ {0} /\ BytesPerToken \in Nat
  BY ShadowAssumption, Zenon
<1>2. q \in Nat /\ q * BLOCK_TOKENS >= n
  BY <1>1, CeilDivFacts, Zenon
<1> HIDE DEF q
<1>3. q * BLOCK_TOKENS \in Nat
  BY <1>1, <1>2
<1>4. payload \in Nat /\ n * BytesPerToken <= payload /\ n * BytesPerToken \in Nat
  BY <1>1, <1>2, <1>3, TimesMono, Zenon
<1>5. kv_reserved(n) = payload + CeilDiv(payload * 8, 100) + CeilDiv(payload * 5, 100)
  BY Zenon DEF kv_reserved, q
<1> HIDE DEF payload
<1>6. CeilDiv(payload * 8, 100) \in Nat /\ CeilDiv(payload * 5, 100) \in Nat
  <2>1. payload * 8 \in Nat /\ payload * 5 \in Nat /\ 100 \in Nat \ {0}
    BY <1>4
  <2> QED
    BY <2>1, CeilDivFacts, ZenonT(60)
<1> QED
  BY <1>4, <1>5, <1>6

LEMMA CeilDivMono ==
  ASSUME NEW x \in Nat, NEW y \in Nat, x <= y, NEW d \in Nat \ {0}
  PROVE  CeilDiv(x, d) <= CeilDiv(y, d)
<1>1. x + d - 1 \in Nat /\ y + d - 1 \in Nat /\ x + d - 1 <= y + d - 1
  OBVIOUS
<1> QED
  BY <1>1, DivMono, Zenon DEF CeilDiv

LEMMA ReservedMono ==
  ASSUME NEW x \in Nat, NEW y \in Nat, x <= y
  PROVE  kv_reserved(x) <= kv_reserved(y)
<1> DEFINE a == CeilDiv(x, BLOCK_TOKENS)
           b == CeilDiv(y, BLOCK_TOKENS)
           u == a * BLOCK_TOKENS * BytesPerToken
           v == b * BLOCK_TOKENS * BytesPerToken
<1>1. BLOCK_TOKENS \in Nat \ {0} /\ BytesPerToken \in Nat
  BY ShadowAssumption, Zenon
<1>2. a \in Nat /\ b \in Nat /\ a <= b
  BY <1>1, CeilDivFacts, CeilDivMono, Zenon
<1>3. /\ kv_reserved(x) = u + CeilDiv(u * 8, 100) + CeilDiv(u * 5, 100)
      /\ kv_reserved(y) = v + CeilDiv(v * 8, 100) + CeilDiv(v * 5, 100)
  BY Zenon DEF kv_reserved
<1> HIDE DEF a, b
<1>4. a * BLOCK_TOKENS <= b * BLOCK_TOKENS /\ a * BLOCK_TOKENS \in Nat /\ b * BLOCK_TOKENS \in Nat
  BY <1>1, <1>2, TimesMono, Zenon
<1>5. u \in Nat /\ v \in Nat /\ u <= v
  BY <1>1, <1>4, TimesMono, Zenon
<1> HIDE DEF u, v
<1>6. u * 8 \in Nat /\ v * 8 \in Nat /\ u * 8 <= v * 8 /\ u * 5 \in Nat /\ v * 5 \in Nat /\ u * 5 <= v * 5
  BY <1>5
<1>7. /\ CeilDiv(u * 8, 100) \in Nat /\ CeilDiv(v * 8, 100) \in Nat
      /\ CeilDiv(u * 5, 100) \in Nat /\ CeilDiv(v * 5, 100) \in Nat
  <2>1. 100 \in Nat \ {0}
    OBVIOUS
  <2> QED
    BY <1>6, <2>1, CeilDivFacts, ZenonT(60)
<1>8. CeilDiv(u * 8, 100) <= CeilDiv(v * 8, 100) /\ CeilDiv(u * 5, 100) <= CeilDiv(v * 5, 100)
  <2>1. 100 \in Nat \ {0}
    OBVIOUS
  <2> QED
    BY <1>6, <2>1, CeilDivMono, ZenonT(60)
<1> QED
  BY <1>3, <1>5, <1>7, <1>8

Ranks == {50, 90, 99}

(* The rank of a percentile is within the samples, and enough of them are  *)
(* not above it.                                                           *)
LEMMA PercentileCovers ==
  ASSUME NEW s \in Seq(Nat), NEW p \in Ranks
  PROVE  /\ percentile_at(s, p) \in Nat
         /\ Upto(s, 1 .. Len(s), percentile_at(s, p)) \in Nat
         /\ Upto(s, 1 .. Len(s), percentile_at(s, p)) * 100 >= p * Len(s)
<1> DEFINE n == Len(s)
           I == 1 .. n
           i == Lesser((n * p) \div 100, n - 1)
           v == percentile_at(s, p)
<1>1. n \in Nat /\ p \in Nat /\ p <= 100 /\ (s = <<>> <=> n = 0)
  BY DEF Ranks
<1>2. Sampled(s, I) /\ Cardinality(I) = n
  <2>1. \A j \in I : s[j] \in Nat
    OBVIOUS
  <2> HIDE DEF n
  <2> QED
    BY <1>1, <2>1, PositionsFinite, Zenon DEF Sampled
<1>3. v = IF s = <<>> THEN 0 ELSE Nth(s, I, i)
  BY Zenon DEF percentile_at, At
<1>4. Upto(s, I, v) \in Nat
  BY <1>2, CountsBounded, Zenon
<1>5. CASE n = 0
  <2>1. v = 0
    BY <1>1, <1>3, <1>5, Zenon
  <2> HIDE DEF n, v, I
  <2> QED
    BY <1>1, <1>4, <1>5, <2>1 DEF n, I, v
<1>6. CASE n # 0
  <2> DEFINE d == (n * p) \div 100
  <2>1. n * p \in Nat /\ p * n = n * p /\ n * p <= n * 100
    <3> HIDE DEF n
    <3> QED
      BY <1>1
  <2>2. d \in Nat /\ n * p < d * 100 + 100
    <3> HIDE DEF n
    <3> QED
      BY <2>1, DivFacts, SMTT(30)
  <2>3. i = Lesser(d, n - 1)
    BY Zenon
  <2> HIDE DEF n, d, i, v, I
  <2>4. i \in Nat /\ i < n /\ (i + 1) * 100 >= n * p
    BY <1>1, <1>6, <2>1, <2>2, <2>3, SMTT(30) DEF Lesser
  <2>5. v = Nth(s, I, i)
    BY <1>1, <1>3, <1>6, Zenon
  <2>6. v \in Nat /\ i < Upto(s, I, v)
    <3>1. i \in Nat /\ i < Cardinality(I) /\ Sampled(s, I)
      BY <1>2, <2>4, Zenon
    <3>2. Nth(s, I, i) \in Nat /\ i < Upto(s, I, Nth(s, I, i))
      BY <3>1, NthIs, Zenon
    <3> QED
      BY <2>5, <3>2, Zenon
  <2>7. Upto(s, I, v) * 100 >= n * p
    BY <1>4, <2>1, <2>4, <2>6, SMTT(30)
  <2> QED
    BY <1>4, <2>1, <2>6, <2>7, Zenon DEF n, I, v
<1> QED
  BY <1>5, <1>6, Zenon

LEMMA RanksOrdered ==
  ASSUME NEW s \in Seq(Nat)
  PROVE  percentile90(s) \in Nat /\ percentile90(s) <= percentile_at(s, 90)
<1> DEFINE n == Len(s)
           I == 1 .. n
           c == CeilDiv(n * 90, 100)
           d == (n * 90) \div 100
           k == Greater(0, c - 1)
           i == Lesser(d, n - 1)
<1>1. n \in Nat /\ (s = <<>> <=> n = 0)
  OBVIOUS
<1>2. Sampled(s, I) /\ Cardinality(I) = n
  <2>1. \A j \in I : s[j] \in Nat
    OBVIOUS
  <2> HIDE DEF n
  <2> QED
    BY <1>1, <2>1, PositionsFinite, Zenon DEF Sampled
<1>3. CASE s = <<>>
  BY <1>3 DEF percentile90, percentile_at
<1>4. CASE s # <<>>
  <2>1. percentile90(s) = Nth(s, I, k) /\ percentile_at(s, 90) = Nth(s, I, i)
    BY <1>4, Zenon DEF percentile90, percentile_at, At
  <2>2. n * 90 \in Nat /\ 100 \in Nat \ {0}
    BY <1>1
  <2>3. c \in Nat /\ c * 100 < n * 90 + 100
    BY <2>2, CeilDivFacts, ZenonT(60)
  <2>4. d \in Nat /\ n * 90 < d * 100 + 100
    BY <2>2, DivFacts, ZenonT(60)
  <2> HIDE DEF n, c, d
  <2>5. k \in Nat /\ i \in Nat /\ k <= i /\ i < n
    BY <1>1, <1>4, <2>3, <2>4 DEF Greater, Lesser
  <2>6. k < n
    BY <1>1, <2>5
  <2> HIDE DEF I, k, i
  <2>7. Nth(s, I, k) \in Nat
    BY <1>2, <2>5, <2>6, NthIs, Zenon
  <2>8. Nth(s, I, k) <= Nth(s, I, i)
    BY <1>2, <2>5, NthOrdered, Zenon
  <2> QED
    BY <2>1, <2>7, <2>8, Zenon
<1> QED
  BY <1>3, <1>4, Zenon

(* The predictor's ring is the end of all that was recorded. *)
PredictorInv ==
  /\ lengths \in Seq(Nat) /\ seen \in Seq(Nat)
  /\ Len(lengths) = Lesser(Len(seen), MaxLengths)
  /\ \A i \in 1 .. Len(lengths) : lengths[i] = seen[Len(seen) - Len(lengths) + i]

LEMMA AppendFacts ==
  ASSUME NEW S, NEW s \in Seq(S), NEW x \in S
  PROVE  /\ Append(s, x) \in Seq(S) /\ Len(Append(s, x)) = Len(s) + 1
         /\ Append(s, x)[Len(s) + 1] = x
         /\ \A i \in 1 .. Len(s) : Append(s, x)[i] = s[i]
  OBVIOUS

LEMMA SeqSame ==
  ASSUME NEW S, NEW u \in Seq(S), NEW w \in Seq(S), Len(u) = Len(w), \A i \in 1 .. Len(w) : u[i] = w[i]
  PROVE  u = w
<1>1. u = [i \in 1 .. Len(u) |-> u[i]] /\ w = [i \in 1 .. Len(w) |-> w[i]]
  OBVIOUS
<1> QED
  BY <1>1, Zenon

LEMMA RecordLengthKeeps ==
  ASSUME PredictorInv, NEW n \in Lengths, RecordLength(n)
  PROVE  PredictorInv'
<1> DEFINE a == Len(lengths)
           b == Len(seen)
           kept == IF a >= MaxLengths THEN Tail(lengths) ELSE lengths
           k == Len(kept)
<1>1. n \in Nat /\ MaxLengths \in Nat \ {0}
  BY ShadowAssumption, Zenon
<1>2. /\ lengths \in Seq(Nat) /\ seen \in Seq(Nat) /\ a \in Nat /\ b \in Nat
      /\ a = Lesser(b, MaxLengths) /\ \A i \in 1 .. a : lengths[i] = seen[b - a + i]
  BY DEF PredictorInv
<1>3. lengths' = Append(kept, n) /\ seen' = Append(seen, n)
  BY Zenon DEF RecordLength, record
<1>4. /\ kept \in Seq(Nat) /\ k \in Nat /\ k = Lesser(b, MaxLengths - 1)
      /\ \A i \in 1 .. k : kept[i] = seen[b - k + i]
  <2>1. CASE a >= MaxLengths
    <3>1. a > 0 /\ a = MaxLengths /\ b >= MaxLengths
      <4> HIDE DEF a, b
      <4> QED
        BY <1>1, <1>2, <2>1 DEF Lesser
    <3>2. kept = Tail(lengths)
      BY <2>1, Zenon
    <3>3. /\ kept \in Seq(Nat) /\ k = a - 1 /\ \A i \in 1 .. a - 1 : kept[i] = lengths[i + 1]
      <4>1. /\ Tail(lengths) \in Seq(Nat) /\ Len(Tail(lengths)) = a - 1
            /\ \A i \in 1 .. a - 1 : Tail(lengths)[i] = lengths[i + 1]
        BY <1>2, <3>1, TailFacts, Zenon
      <4> HIDE DEF a, kept
      <4> QED
        BY <3>2, <4>1, Zenon
    <3> HIDE DEF a, b, k, kept
    <3>4. k \in Nat /\ k = Lesser(b, MaxLengths - 1)
      BY <1>1, <1>2, <3>1, <3>3 DEF Lesser
    <3>5. ASSUME NEW i \in 1 .. k PROVE kept[i] = seen[b - k + i]
      <4>1. i \in 1 .. a - 1 /\ i + 1 \in 1 .. a /\ b - a + (i + 1) = b - k + i
        BY <1>2, <3>1, <3>3, <3>4
      <4>2. kept[i] = lengths[i + 1] /\ lengths[i + 1] = seen[b - a + (i + 1)]
        BY <1>2, <3>3, <4>1, Zenon
      <4> QED
        BY <4>1, <4>2, Zenon
    <3> QED
      BY <3>3, <3>4, <3>5, Zenon
  <2>2. CASE ~(a >= MaxLengths)
    <3>1. kept = lengths
      BY <2>2, Zenon
    <3>2. k = a
      BY <3>1, Zenon
    <3> HIDE DEF a, b, k, kept
    <3>3. k = Lesser(b, MaxLengths - 1)
      BY <1>1, <1>2, <2>2, <3>2 DEF Lesser
    <3> QED
      BY <1>2, <3>1, <3>2, <3>3, Zenon
  <2> QED
    BY <2>1, <2>2, Zenon
<1> HIDE DEF a, kept, k
<1>5. /\ lengths' \in Seq(Nat) /\ Len(lengths') = k + 1 /\ lengths'[k + 1] = n
      /\ \A i \in 1 .. k : lengths'[i] = kept[i]
  <2>1. /\ Append(kept, n) \in Seq(Nat) /\ Len(Append(kept, n)) = Len(kept) + 1
        /\ Append(kept, n)[Len(kept) + 1] = n /\ \A i \in 1 .. Len(kept) : Append(kept, n)[i] = kept[i]
    BY <1>1, <1>4, AppendFacts
  <2> QED
    BY <1>3, <2>1, Zenon DEF k
<1>6. /\ seen' \in Seq(Nat) /\ Len(seen') = b + 1 /\ seen'[b + 1] = n
      /\ \A i \in 1 .. b : seen'[i] = seen[i]
  <2>1. /\ Append(seen, n) \in Seq(Nat) /\ Len(Append(seen, n)) = Len(seen) + 1
        /\ Append(seen, n)[Len(seen) + 1] = n /\ \A i \in 1 .. Len(seen) : Append(seen, n)[i] = seen[i]
    BY <1>1, <1>2, AppendFacts
  <2> QED
    BY <1>3, <2>1, Zenon DEF b
<1> HIDE DEF b
<1>n. k \in Nat /\ b \in Nat /\ k = Lesser(b, MaxLengths - 1)
  BY <1>2, <1>4, Zenon
<1>7. k + 1 = Lesser(b + 1, MaxLengths) /\ k <= b
  BY <1>1, <1>n DEF Lesser
<1>8. ASSUME NEW i \in 1 .. k + 1 PROVE lengths'[i] = seen'[b + 1 - (k + 1) + i]
  <2>1. CASE i = k + 1
    <3>1. b + 1 - (k + 1) + i = b + 1
      BY <1>n, <2>1
    <3> QED
      BY <1>5, <1>6, <2>1, <3>1, Zenon
  <2>2. CASE i # k + 1
    <3>1. i \in 1 .. k /\ b + 1 - (k + 1) + i = b - k + i /\ b - k + i \in 1 .. b
      BY <1>n, <1>7, <2>2
    <3>2. lengths'[i] = kept[i] /\ kept[i] = seen[b - k + i] /\ seen'[b - k + i] = seen[b - k + i]
      BY <1>4, <1>5, <1>6, <3>1, Zenon
    <3> QED
      BY <3>1, <3>2, Zenon
  <2> QED
    BY <2>1, <2>2, Zenon
<1>9. Len(lengths') = Lesser(Len(seen'), MaxLengths)
  BY <1>5, <1>6, <1>7, Zenon
<1>10. \A i \in 1 .. Len(lengths') : lengths'[i] = seen'[Len(seen') - Len(lengths') + i]
  <2>1. Len(seen') = b + 1 /\ Len(lengths') = k + 1
    BY <1>5, <1>6, Zenon
  <2> SUFFICES ASSUME NEW i \in 1 .. Len(lengths') PROVE lengths'[i] = seen'[Len(seen') - Len(lengths') + i]
    BY Zenon
  <2>2. i \in 1 .. k + 1
    BY <2>1, Zenon
  <2>3. Len(seen') - Len(lengths') + i = b + 1 - (k + 1) + i
    BY <1>n, <2>1, <2>2, SMTT(30)
  <2> QED
    BY <1>8, <2>2, <2>3, Zenon
<1>11. (Len(lengths) = Lesser(Len(seen), MaxLengths))'
  BY <1>9, Zenon DEF Lesser
<1> QED
  BY <1>5, <1>6, <1>10, <1>11, Zenon DEF PredictorInv

LEMMA RingIsLatest ==
  ASSUME PredictorInv
  PROVE  SubSeq(seen, Greater(1, Len(seen) - MaxLengths + 1), Len(seen)) = lengths
<1> DEFINE a == Len(lengths)
           b == Len(seen)
           f == Greater(1, b - MaxLengths + 1)
           u == SubSeq(seen, f, b)
<1>1. /\ lengths \in Seq(Nat) /\ seen \in Seq(Nat) /\ a \in Nat /\ b \in Nat
      /\ a = Lesser(b, MaxLengths) /\ \A i \in 1 .. a : lengths[i] = seen[b - a + i]
  BY DEF PredictorInv
<1>2. MaxLengths \in Nat \ {0}
  BY ShadowAssumption, Zenon
<1>3. f = b - a + 1 /\ f \in 1 .. b + 1
  <2> HIDE DEF a, b
  <2> QED
    BY <1>1, <1>2 DEF Greater, Lesser
<1>4. b - a \in 0 .. b /\ b - (b - a) = a
  <2> HIDE DEF a, b
  <2> QED
    BY <1>1, <1>2 DEF Lesser
<1>5. u \in Seq(Nat) /\ Len(u) = a /\ \A i \in 1 .. a : u[i] = seen[(b - a) + i]
  <2> DEFINE n == b - a
             w == SubSeq(seen, n + 1, b)
  <2>1. u = w
    BY <1>3, Zenon
  <2> HIDE DEF n, a
  <2>2. n \in 0 .. Len(seen)
    BY <1>4, Zenon DEF n
  <2>3. w \in Seq(Nat) /\ Len(w) = b - n /\ \A i \in 1 .. (b - n) : w[i] = seen[n + i]
    BY <1>1, <2>2, SuffixFacts, ZenonT(60)
  <2> HIDE DEF u, w, b
  <2> QED
    BY <1>4, <2>1, <2>3, Zenon DEF n
<1> HIDE DEF u, f, b
<1>6. \A i \in 1 .. a : u[i] = lengths[i]
  BY <1>1, <1>5, Zenon
<1>7. u = lengths
  BY <1>1, <1>5, <1>6, SeqSame, Zenon
<1> QED
  BY <1>7, Zenon DEF u, f, b

(* Of the last MaxLengths lengths recorded, every percentile covers its    *)
(* share; the p90 reservation covers their bytes and is never below the    *)
(* one the ledger's own p90 gives (LengthPredictor and kv_breakdown), for  *)
(* any ring, block and token size.                                         *)
THEOREM PredictionsCover == ShadowSpec => []PredictorCovers
<1>1. ShadowInit => PredictorInv
  BY ShadowAssumption DEF ShadowInit, PredictorInv, Lesser
<1>2. PredictorInv /\ [PredictorNext \/ CorrectorNext \/ MigrationNext]_shadowVars => PredictorInv'
  <2> SUFFICES ASSUME PredictorInv, [PredictorNext \/ CorrectorNext \/ MigrationNext]_shadowVars
               PROVE  PredictorInv'
    BY Zenon
  <2>1. ASSUME NEW n \in Lengths, RecordLength(n) PROVE PredictorInv'
    BY <2>1, RecordLengthKeeps, Zenon
  <2>2. ASSUME UNCHANGED <<lengths, seen>> PROVE PredictorInv'
    BY <2>2, Zenon DEF PredictorInv, Lesser
  <2>3. (\E n \in Lengths : RecordLength(n)) \/ UNCHANGED <<lengths, seen>>
    BY Zenon DEF PredictorNext, CorrectorNext, MigrationNext, RecordRatio, evaluate, StartMigration,
                 CopyPass, Cutover, shadowVars
  <2> QED
    BY <2>1, <2>2, <2>3, Zenon
<1>3. PredictorInv => PredictorCovers
  <2> SUFFICES ASSUME PredictorInv PROVE PredictorCovers
    BY Zenon
  <2> DEFINE s == lengths
             I == 1 .. Len(s)
             v == percentile_at(s, 90)
             fits == {j \in I : s[j] * BytesPerToken <= reserve_bytes_p90(s)}
             up == {j \in I : s[j] <= v}
  <2>1. s \in Seq(Nat) /\ Len(s) \in Nat /\ \A j \in I : s[j] \in Nat
    BY SMTT(30) DEF PredictorInv
  <2>2. \A p \in {50, 90, 99} : Upto(s, I, percentile_at(s, p)) * 100 >= p * Len(s)
    <3>1. \A p \in Ranks : Upto(s, I, percentile_at(s, p)) * 100 >= p * Len(s)
      BY <2>1, PercentileCovers, Zenon
    <3> QED
      BY <3>1, Zenon DEF Ranks
  <2>3. v \in Nat /\ Upto(s, I, v) \in Nat /\ Upto(s, I, v) * 100 >= 90 * Len(s)
    BY <2>1, PercentileCovers DEF Ranks
  <2>4. BytesPerToken \in Nat
    BY ShadowAssumption, Zenon
  <2>5. up \subseteq fits
    <3> SUFFICES ASSUME NEW j \in I, s[j] <= v
                 PROVE  s[j] * BytesPerToken <= reserve_bytes_p90(s)
      BY Zenon
    <3>1. s[j] \in Nat
      BY <2>1, Zenon
    <3>2. s[j] * BytesPerToken <= v * BytesPerToken /\ s[j] * BytesPerToken \in Nat
      <4> HIDE DEF v
      <4> QED
        BY <2>3, <2>4, <3>1, TimesMono, Zenon
    <3>3. v * BytesPerToken \in Nat /\ v * BytesPerToken <= kv_reserved(v) /\ kv_reserved(v) \in Nat
      BY <2>3, ReservedCovers, ZenonT(60)
    <3>4. reserve_bytes_p90(s) = kv_reserved(v)
      BY Zenon DEF reserve_bytes_p90
    <3> HIDE DEF v, s
    <3> QED
      BY <3>2, <3>3, <3>4
  <2>6. fits \subseteq I /\ IsFiniteSet(I)
    BY <2>1, PositionsFinite, Zenon
  <2>7. Upto(s, I, v) = Cardinality(up)
    BY Zenon DEF Upto
  <2> HIDE DEF fits, up, v, I
  <2>8. Upto(s, I, v) <= Cardinality(fits) /\ Cardinality(fits) \in Nat
    <3>1. IsFiniteSet(fits) /\ Cardinality(fits) \in Nat
      BY <2>6, SubCount, Zenon
    <3>2. Cardinality(up) <= Cardinality(fits)
      BY <2>5, <3>1, SubCount, Zenon
    <3> QED
      BY <2>7, <3>1, <3>2, Zenon
  <2>9. Cardinality(fits) * 100 >= 90 * Len(s)
    BY <2>1, <2>3, <2>8, SMTT(30)
  <2>10. kv_reserved(percentile90(s)) <= reserve_bytes_p90(s)
    <3>1. percentile90(s) \in Nat /\ percentile90(s) <= v
      BY <2>1, RanksOrdered, Zenon DEF v
    <3> QED
      BY <2>3, <3>1, ReservedMono, ZenonT(60) DEF reserve_bytes_p90, v
  <2>11. SubSeq(seen, Greater(1, Len(seen) - MaxLengths + 1), Len(seen)) = s
    BY RingIsLatest, Zenon
  <2> DEFINE covered(l) ==
               /\ \A p \in {50, 90, 99} : Upto(l, 1 .. Len(l), percentile_at(lengths, p)) * 100 >= p * Len(l)
               /\ Cardinality({j \in 1 .. Len(l) : l[j] * BytesPerToken <= reserve_bytes_p90(lengths)}) * 100
                    >= 90 * Len(l)
               /\ kv_reserved(percentile90(lengths)) <= reserve_bytes_p90(lengths)
  <2>12. covered(s)
    BY <2>2, <2>9, <2>10, Zenon DEF fits, I
  <2>13. covered(SubSeq(seen, Greater(1, Len(seen) - MaxLengths + 1), Len(seen))) => PredictorCovers
    BY Zenon DEF PredictorCovers
  <2> HIDE DEF covered
  <2> QED
    BY <2>11, <2>12, <2>13, Zenon
<1> QED
  BY <1>1, <1>2, <1>3, PTL DEF ShadowSpec

-----------------------------------------------------------------------------
Places == {"ready", "waiting", "woken", "inside"}
WorkerState == [at : Places, left : 0 .. RequestsPerWorker]

(* The requests still to be sent in this phase, as cells worker by index. *)
Remaining == {c \in Workers \X (1 .. RequestsPerWorker) : c[2] <= worker[c[1]].left}
Load == Cardinality(Workers) * RequestsPerWorker

WorkersInv ==
  /\ worker \in [Workers -> WorkerState]
  /\ \A w \in Workers : worker[w].at # "ready" => worker[w].left > 0
  /\ phase \in 1 .. Phases

GateInv == slots = Cardinality(Inside) /\ (MaxInflight > 0 => slots <= MaxInflight)

TallyInv ==
  /\ split \in BOOLEAN
  /\ ok \in Nat /\ graceful \in Nat /\ hard \in Nat
  /\ lats \in Seq(Nat) /\ Len(lats) = ok
  /\ ok + graceful + hard + Cardinality(Remaining) = phase * Load

Reported(r) ==
  /\ r.total = (IF split THEN ok + Errors ELSE Planned) /\ r.ok = ok /\ r.errors = Errors
  /\ r.graceful = (IF split THEN graceful ELSE Unset) /\ r.hard = (IF split THEN hard ELSE Unset)
  /\ r.p50 = percentile(lats, 50) /\ r.p90 = percentile(lats, 90) /\ r.p99 = percentile(lats, 99)
  /\ r.max = (IF lats = <<>> THEN 0 ELSE At(lats, Len(lats) - 1))

ResultInv == result # Unset => Joined /\ phase = Phases /\ Reported(result)

BenchInv == WorkersInv /\ GateInv /\ TallyInv /\ ResultInv

LEMMA BenchConstants ==
  /\ IsFiniteSet(Workers) /\ Cardinality(Workers) \in Nat
  /\ RequestsPerWorker \in Nat \ {0} /\ Phases \in Nat \ {0} /\ MaxInflight \in Nat /\ Times \subseteq Nat
  /\ Unset \notin Int /\ Load \in Nat
<1>1. IsFiniteSet(Workers) /\ Cardinality(Workers) \in Nat
  BY BenchAssumption, FS_CardinalityType, Zenon
<1>2. RequestsPerWorker \in Nat \ {0} /\ Phases \in Nat \ {0} /\ MaxInflight \in Nat /\ Times \subseteq Nat
  BY BenchAssumption, Zenon
<1>3. Load \in Nat
  BY <1>1, <1>2 DEF Load
<1> QED
  BY <1>1, <1>2, <1>3, BenchAssumption, Zenon

LEMMA InsideFinite == IsFiniteSet(Inside) /\ Cardinality(Inside) \in Nat
<1>1. Inside \subseteq Workers
  BY Zenon DEF Inside
<1> QED
  BY <1>1, BenchConstants, SubCount, Zenon

LEMMA RemainingFinite == IsFiniteSet(Remaining) /\ Cardinality(Remaining) \in Nat
<1> DEFINE all == Workers \X (1 .. RequestsPerWorker)
<1>1. Remaining \subseteq all
  BY Zenon DEF Remaining
<1>2. IsFiniteSet(1 .. RequestsPerWorker)
  BY BenchConstants, PositionsFinite, Zenon
<1>3. IsFiniteSet(all)
  BY <1>2, BenchConstants, FS_Product, Zenon
<1> HIDE DEF all
<1> QED
  BY <1>1, <1>3, SubCount, Zenon

(* All cells remain when the workers are spawned, none once they joined. *)
LEMMA SpawnedRemaining ==
  Cardinality({c \in Workers \X (1 .. RequestsPerWorker) : c[2] <= Spawned[c[1]].left}) = Load
<1> DEFINE cells == {c \in Workers \X (1 .. RequestsPerWorker) : c[2] <= Spawned[c[1]].left}
<1>1. cells = Workers \X (1 .. RequestsPerWorker)
  <2> SUFFICES ASSUME NEW c \in Workers \X (1 .. RequestsPerWorker) PROVE c[2] <= Spawned[c[1]].left
    BY Zenon
  <2>1. c[1] \in Workers /\ c[2] \in 1 .. RequestsPerWorker
    BY Zenon
  <2>2. Spawned[c[1]].left = RequestsPerWorker
    BY <2>1, Zenon DEF Spawned
  <2> QED
    BY <2>1, <2>2, BenchConstants
<1> HIDE DEF cells
<1>2. IsFiniteSet(1 .. RequestsPerWorker) /\ Cardinality(1 .. RequestsPerWorker) = RequestsPerWorker
  BY BenchConstants, PositionsFinite, Zenon
<1>3. Cardinality(Workers \X (1 .. RequestsPerWorker)) = Cardinality(Workers) * Cardinality(1 .. RequestsPerWorker)
  BY <1>2, BenchConstants, FS_Product, Zenon
<1> QED
  BY <1>1, <1>2, <1>3, Zenon DEF Load, cells

LEMMA JoinedRemaining ==
  ASSUME Joined
  PROVE  Cardinality(Remaining) = 0 /\ Inside = {}
<1>1. \A w \in Workers : worker[w].left = 0 /\ worker[w].at = "ready"
  BY DEF Joined
<1>2. Remaining = {}
  <2> SUFFICES ASSUME NEW c \in Workers \X (1 .. RequestsPerWorker), c[2] <= worker[c[1]].left PROVE FALSE
    BY Zenon DEF Remaining
  <2>1. c[1] \in Workers /\ c[2] \in 1 .. RequestsPerWorker
    BY Zenon
  <2>2. c[2] <= 0
    BY <1>1, <2>1, Zenon
  <2> QED
    BY <2>1, <2>2
<1>3. Inside = {}
  BY <1>1, Zenon DEF Inside, Where
<1> QED
  BY <1>2, <1>3, FS_EmptySet, Zenon

LEMMA Placed ==
  ASSUME NEW s \in WorkerState, NEW p \in Places
  PROVE  /\ [s EXCEPT !.at = p] \in WorkerState
         /\ [s EXCEPT !.at = p].at = p /\ [s EXCEPT !.at = p].left = s.left
  BY Zenon DEF WorkerState

LEMMA SameRemaining ==
  ASSUME \A x \in Workers : worker'[x].left = worker[x].left
  PROVE  Remaining' = Remaining
<1>1. \A c \in Workers \X (1 .. RequestsPerWorker) : worker'[c[1]].left = worker[c[1]].left
  <2> SUFFICES ASSUME NEW c \in Workers \X (1 .. RequestsPerWorker)
               PROVE  worker'[c[1]].left = worker[c[1]].left
    BY Zenon
  <2>1. c[1] \in Workers
    BY Zenon
  <2> QED
    BY <2>1, Zenon
<1>2. Remaining' = {c \in Workers \X (1 .. RequestsPerWorker) : c[2] <= worker'[c[1]].left}
  BY Zenon DEF Remaining
<1> QED
  BY <1>1, <1>2, Zenon DEF Remaining

(* A worker with requests left goes to the gate, into it or to the queue. *)
LEMMA Moves ==
  ASSUME WorkersInv, NEW w \in Workers, NEW p \in Places, worker[w].left > 0,
         worker' = [worker EXCEPT ![w].at = p], phase' = phase
  PROVE  /\ WorkersInv' /\ Remaining' = Remaining
         /\ Inside' = IF p = "inside" THEN Inside \union {w} ELSE Inside \ {w}
<1>1. worker \in [Workers -> WorkerState] /\ \A x \in Workers : worker[x].at # "ready" => worker[x].left > 0
  BY Zenon DEF WorkersInv
<1>2. worker[w] \in WorkerState
  BY <1>1, Zenon
<1> DEFINE s == [worker[w] EXCEPT !.at = p]
<1>3. s \in WorkerState /\ s.at = p /\ s.left = worker[w].left
  BY <1>2, Placed, Zenon
<1>4. worker' = [worker EXCEPT ![w] = s]
  BY Zenon
<1> HIDE DEF s
<1>5. /\ worker' \in [Workers -> WorkerState] /\ worker'[w] = s
      /\ \A x \in Workers : x # w => worker'[x] = worker[x]
  BY <1>1, <1>3, <1>4, Zenon
<1>6. \A x \in Workers : worker'[x].left = worker[x].left
  BY <1>3, <1>5, Zenon
<1>7. \A x \in Workers : worker'[x].at # "ready" => worker'[x].left > 0
  <2> SUFFICES ASSUME NEW x \in Workers, worker'[x].at # "ready" PROVE worker'[x].left > 0
    BY Zenon
  <2>1. CASE x = w
    BY <1>3, <1>5, <2>1, Zenon
  <2>2. CASE x # w
    BY <1>1, <1>5, <2>2, Zenon
  <2> QED
    BY <2>1, <2>2, Zenon
<1>8. WorkersInv'
  BY <1>5, <1>7, Zenon DEF WorkersInv
<1>9. Inside' = {x \in Workers : worker'[x].at = "inside"} /\ Inside = {x \in Workers : worker[x].at = "inside"}
  BY Zenon DEF Inside, Where
<1>10. worker'[w].at = p /\ \A x \in Workers : x # w => worker'[x].at = worker[x].at
  BY <1>3, <1>5, Zenon
<1>11. Inside' = IF p = "inside" THEN Inside \union {w} ELSE Inside \ {w}
  BY <1>9, <1>10, Zenon
<1> QED
  BY <1>6, <1>8, <1>11, SameRemaining, Zenon

(* What a worker's leaving the gate changes, whoever is woken. *)
LEMMA Dropped ==
  ASSUME WorkersInv, NEW w \in Workers, Where(w) = "inside", worker' \in drop(w), phase' = phase
  PROVE  /\ WorkersInv' /\ Inside' = Inside \ {w} /\ w \in Inside
         /\ Cardinality(Remaining') = Cardinality(Remaining) - 1
<1> DEFINE n == worker[w].left
           r == [at |-> "ready", left |-> n - 1]
           L == Leaves(w)
<1>1. worker \in [Workers -> WorkerState] /\ \A x \in Workers : worker[x].at # "ready" => worker[x].left > 0
  BY Zenon DEF WorkersInv
<1>2. worker[w] \in WorkerState /\ worker[w].at = "inside"
  BY <1>1, Zenon DEF Where
<1>3. n \in 1 .. RequestsPerWorker /\ n \in Nat /\ n - 1 \in 0 .. RequestsPerWorker
  <2>1. n \in 0 .. RequestsPerWorker /\ n > 0 /\ RequestsPerWorker \in Nat
    BY <1>1, <1>2, BenchConstants, Zenon DEF WorkerState
  <2> HIDE DEF n
  <2> QED
    BY <2>1
<1>4. r \in WorkerState /\ r.at = "ready" /\ r.left = n - 1
  <2> HIDE DEF n
  <2> QED
    BY <1>3, Zenon DEF WorkerState, Places
<1>5. L = [worker EXCEPT ![w] = r]
  BY Zenon DEF Leaves
<1> HIDE DEF r, n, L
<1>6. L \in [Workers -> WorkerState] /\ L[w] = r /\ \A x \in Workers : x # w => L[x] = worker[x]
  BY <1>1, <1>4, <1>5, Zenon
<1> DEFINE Settled ==
             /\ worker' \in [Workers -> WorkerState] /\ worker'[w] = r
             /\ \A x \in Workers : x # w => /\ worker'[x].left = worker[x].left
                                            /\ worker'[x].at = "inside" <=> worker[x].at = "inside"
                                            /\ worker'[x].at = "ready" <=> worker[x].at = "ready"
<1>7. Settled
  <2>1. CASE worker' = L
    BY <1>6, <2>1, Zenon
  <2>2. ASSUME NEW v \in Workers, Where(v) = "waiting", worker' = [L EXCEPT ![v].at = "woken"]
        PROVE  Settled
    <3>1. v # w /\ worker[v].at = "waiting" /\ L[v] = worker[v] /\ worker[v] \in WorkerState
      BY <1>1, <1>2, <1>6, <2>2, Zenon DEF Where
    <3> DEFINE s == [worker[v] EXCEPT !.at = "woken"]
    <3>2. s \in WorkerState /\ s.at = "woken" /\ s.left = worker[v].left
      <4>1. "woken" \in Places
        BY Zenon DEF Places
      <4> QED
        BY <3>1, <4>1, Placed, Zenon
    <3>3. worker' = [L EXCEPT ![v] = s]
      BY <2>2, <3>1, Zenon
    <3> HIDE DEF s
    <3>4. /\ worker' \in [Workers -> WorkerState] /\ worker'[v] = s
          /\ \A x \in Workers : x # v => worker'[x] = L[x]
      BY <1>6, <3>2, <3>3, Zenon
    <3> QED
      BY <1>6, <3>1, <3>2, <3>4, ZenonT(60)
  <2>3. worker' = L \/ \E v \in Workers : Where(v) = "waiting" /\ worker' = [L EXCEPT ![v].at = "woken"]
    BY Zenon DEF drop, L
  <2> HIDE DEF Settled
  <2> QED
    BY <2>1, <2>2, <2>3, Zenon
<1>8. WorkersInv'
  <2>1. \A x \in Workers : worker'[x].at # "ready" => worker'[x].left > 0
    <3> SUFFICES ASSUME NEW x \in Workers, worker'[x].at # "ready" PROVE worker'[x].left > 0
      BY Zenon
    <3>1. x # w
      BY <1>4, <1>7, Zenon
    <3>2. worker[x].at # "ready" /\ worker'[x].left = worker[x].left
      BY <1>7, <3>1, Zenon
    <3>3. worker[x].left > 0
      BY <1>1, <3>2, Zenon
    <3> QED
      BY <3>2, <3>3, Zenon
  <2> QED
    BY <1>7, <2>1, Zenon DEF WorkersInv
<1>9. Inside' = Inside \ {w} /\ w \in Inside
  <2>1. Inside' = {x \in Workers : worker'[x].at = "inside"} /\ Inside = {x \in Workers : worker[x].at = "inside"}
    BY Zenon DEF Inside, Where
  <2>2. worker'[w].at # "inside"
    BY <1>4, <1>7, Zenon
  <2>3. \A x \in Workers : x # w => (worker'[x].at = "inside" <=> worker[x].at = "inside")
    BY <1>7, Zenon
  <2> QED
    BY <1>2, <2>1, <2>2, <2>3, Zenon
<1> DEFINE cell == <<w, n>>
<1>10. Remaining' = Remaining \ {cell} /\ cell \in Remaining
  <2> DEFINE all == Workers \X (1 .. RequestsPerWorker)
  <2>1. /\ Remaining' = {c \in all : c[2] <= worker'[c[1]].left}
        /\ Remaining = {c \in all : c[2] <= worker[c[1]].left}
    BY Zenon DEF Remaining
  <2>2. cell \in all /\ cell[1] = w /\ cell[2] = n /\ n <= n
    BY <1>3
  <2>3. cell \in Remaining
    BY <2>1, <2>2, Zenon DEF n
  <2>4. ASSUME NEW c \in all PROVE c[2] <= worker'[c[1]].left <=> (c[2] <= worker[c[1]].left /\ c # cell)
    <3>1. c[1] \in Workers /\ c[2] \in Nat /\ c = <<c[1], c[2]>>
      BY <2>4
    <3>2. CASE c[1] = w
      <4>1. worker'[c[1]].left = n - 1 /\ worker[c[1]].left = n
        BY <1>4, <1>7, <3>2, Zenon DEF n
      <4>2. c = cell <=> c[2] = n
        BY <3>1, <3>2
      <4>3. c[2] <= n - 1 <=> (c[2] <= n /\ c[2] # n)
        BY <1>3, <3>1
      <4> QED
        BY <4>1, <4>2, <4>3, Zenon
    <3>3. CASE c[1] # w
      <4>1. worker'[c[1]].left = worker[c[1]].left
        BY <1>7, <3>1, <3>3, Zenon
      <4>2. c # cell
        BY <2>2, <3>3, Zenon
      <4> QED
        BY <4>1, <4>2, Zenon
    <3> QED
      BY <3>2, <3>3, Zenon
  <2> HIDE DEF all, cell
  <2>5. Remaining' = Remaining \ {cell}
    BY <2>1, <2>4, Zenon
  <2> QED
    BY <2>3, <2>5, Zenon
<1> HIDE DEF cell
<1>11. Cardinality(Remaining \ {cell}) = Cardinality(Remaining) - 1
  BY <1>10, RemainingFinite, FS_RemoveElement, Zenon
<1> QED
  BY <1>8, <1>9, <1>10, <1>11, Zenon

LEMMA BenchInitial == BenchInit => BenchInv
<1> SUFFICES ASSUME BenchInit PROVE BenchInv
  BY Zenon
<1>1. worker = Spawned /\ phase = 1 /\ slots = 0 /\ result = Unset /\ split \in BOOLEAN
  BY Zenon DEF BenchInit
<1>2. RequestsPerWorker \in Nat \ {0} /\ Phases \in Nat \ {0} /\ Load \in Nat
  BY BenchConstants, Zenon
<1>3. \A w \in Workers : worker[w] = [at |-> "ready", left |-> RequestsPerWorker]
  BY <1>1, Zenon DEF Spawned
<1>4. worker \in [Workers -> WorkerState]
  <2>1. [at |-> "ready", left |-> RequestsPerWorker] \in WorkerState
    BY <1>2 DEF WorkerState, Places
  <2> QED
    BY <1>1, <2>1, Zenon DEF Spawned
<1>5. WorkersInv
  BY <1>1, <1>2, <1>3, <1>4 DEF WorkersInv
<1>6. GateInv
  <2>1. Inside = {}
    BY <1>3 DEF Inside, Where
  <2>2. Cardinality(Inside) = 0
    BY <2>1, FS_EmptySet, Zenon
  <2> QED
    BY <1>1, <2>2, BenchConstants DEF GateInv
<1>7. TallyInv
  <2>1. Cardinality(Remaining) = Load
    BY <1>1, SpawnedRemaining, Zenon DEF Remaining
  <2> QED
    BY <1>1, <1>2, <2>1 DEF BenchInit, TallyInv
<1>8. ResultInv
  BY <1>1, Zenon DEF ResultInv
<1> QED
  BY <1>5, <1>6, <1>7, <1>8, Zenon DEF BenchInv

(* While a worker has requests left there is no result yet. *)
LEMMA NoResultYet ==
  ASSUME BenchInv, NEW w \in Workers, worker[w].left > 0
  PROVE  result = Unset
<1>1. ~Joined
  <2> SUFFICES ASSUME Joined PROVE FALSE
    BY Zenon
  <2>1. worker[w].left = 0
    BY DEF Joined
  <2> QED
    BY <2>1
<1> QED
  BY <1>1, Zenon DEF BenchInv, ResultInv

LEMMA AsksLeft ==
  ASSUME WorkersInv, NEW w \in Workers, Asks(w) \/ Where(w) = "waiting" \/ Where(w) = "inside"
  PROVE  worker[w].left > 0
<1>1. CASE Where(w) = "ready"
  BY <1>1, Zenon DEF Asks
<1>2. CASE Where(w) # "ready"
  BY <1>2, Zenon DEF WorkersInv, Where
<1> QED
  BY <1>1, <1>2, Zenon

LEMMA EnterKeeps ==
  ASSUME BenchInv, NEW w \in Workers, enter(w)
  PROVE  BenchInv'
<1>1. WorkersInv /\ GateInv /\ TallyInv
  BY Zenon DEF BenchInv
<1>2. /\ Asks(w) /\ HasRoom /\ slots' = slots + 1
      /\ worker' = [worker EXCEPT ![w].at = "inside"]
      /\ UNCHANGED <<split, phase, ok, graceful, hard, lats, peak, result>>
  BY Zenon DEF enter, CanEnter
<1>3. worker[w].left > 0
  BY <1>1, <1>2, AsksLeft, Zenon
<1>4. result = Unset
  BY <1>3, NoResultYet, Zenon
<1>5. WorkersInv' /\ Remaining' = Remaining /\ Inside' = Inside \union {w}
  <2>1. "inside" \in Places
    BY Zenon DEF Places
  <2> QED
    BY <1>1, <1>2, <1>3, <2>1, Moves, Zenon
<1>6. w \notin Inside
  BY <1>2, Zenon DEF Asks, Inside
<1>7. GateInv'
  <2>1. Cardinality(Inside \union {w}) = Cardinality(Inside) + 1
    BY <1>6, InsideFinite, FS_AddElement, Zenon
  <2>2. slots \in Nat /\ slots = Cardinality(Inside) /\ MaxInflight \in Nat
    BY <1>1, InsideFinite, BenchConstants, Zenon DEF GateInv
  <2>3. MaxInflight > 0 => slots + 1 <= MaxInflight
    BY <1>2, <2>2 DEF HasRoom
  <2> QED
    BY <1>2, <1>5, <2>1, <2>2, <2>3, Zenon DEF GateInv
<1>8. TallyInv'
  BY <1>1, <1>2, <1>5, Zenon DEF TallyInv, Load
<1>9. ResultInv'
  BY <1>2, <1>4, Zenon DEF ResultInv
<1> QED
  BY <1>5, <1>7, <1>8, <1>9, Zenon DEF BenchInv

LEMMA QueueKeeps ==
  ASSUME BenchInv, NEW w \in Workers, NEW p \in {"waiting", "woken"}, Asks(w) \/ Where(w) = "waiting",
         worker' = [worker EXCEPT ![w].at = p],
         UNCHANGED <<split, phase, slots, ok, graceful, hard, lats, peak, result>>
  PROVE  BenchInv'
<1>1. WorkersInv /\ GateInv /\ TallyInv
  BY Zenon DEF BenchInv
<1>2. worker[w].left > 0
  BY <1>1, AsksLeft, Zenon
<1>3. result = Unset
  BY <1>2, NoResultYet, Zenon
<1>4. WorkersInv' /\ Remaining' = Remaining /\ Inside' = Inside \ {w}
  <2>1. p \in Places /\ p # "inside"
    BY Zenon DEF Places
  <2> QED
    BY <1>1, <1>2, <2>1, Moves, Zenon
<1>5. w \notin Inside
  BY Zenon DEF Asks, Inside
<1>6. Inside' = Inside
  BY <1>4, <1>5, Zenon
<1>7. GateInv'
  BY <1>1, <1>6, Zenon DEF GateInv
<1>8. TallyInv'
  BY <1>1, <1>4, Zenon DEF TallyInv, Load
<1>9. ResultInv'
  BY <1>3, Zenon DEF ResultInv
<1> QED
  BY <1>4, <1>7, <1>8, <1>9, Zenon DEF BenchInv

LEMMA FinishKeeps ==
  ASSUME BenchInv, NEW w \in Workers, NEW reply \in Replies, NEW us \in Times, NEW held \in Reserved,
         Finish(w, reply, us, held)
  PROVE  BenchInv'
<1> DEFINE o == one_request(reply)
<1>1. WorkersInv /\ GateInv /\ TallyInv
  BY Zenon DEF BenchInv
<1>2. /\ Where(w) = "inside" /\ worker' \in drop(w) /\ slots' = slots - 1
      /\ phase' = phase /\ split' = split /\ result' = result
  BY Zenon DEF Finish
<1>3. /\ ok' = ok + IF o = "ok" THEN 1 ELSE 0
      /\ graceful' = graceful + IF o = "graceful" THEN 1 ELSE 0
      /\ hard' = hard + IF o = "hard" THEN 1 ELSE 0
      /\ lats' = IF o = "ok" THEN Append(lats, us) ELSE lats
  BY Zenon DEF Finish
<1>4. o \in {"ok", "graceful", "hard"}
  BY ZenonT(60) DEF one_request
<1> HIDE DEF o
<1>5. worker[w].left > 0
  BY <1>1, <1>2, AsksLeft, Zenon
<1>6. result = Unset
  BY <1>5, NoResultYet, Zenon
<1>7. /\ WorkersInv' /\ Inside' = Inside \ {w} /\ w \in Inside
      /\ Cardinality(Remaining') = Cardinality(Remaining) - 1
  BY <1>1, <1>2, Dropped, Zenon
<1>8. GateInv'
  <2>1. Cardinality(Inside \ {w}) = Cardinality(Inside) - 1
    BY <1>7, InsideFinite, FS_RemoveElement, Zenon
  <2>2. slots \in Nat /\ slots = Cardinality(Inside) /\ MaxInflight \in Nat
    BY <1>1, InsideFinite, BenchConstants, Zenon DEF GateInv
  <2> QED
    BY <1>1, <1>2, <1>7, <2>1, <2>2 DEF GateInv
<1>9. TallyInv'
  <2>1. /\ ok \in Nat /\ graceful \in Nat /\ hard \in Nat /\ lats \in Seq(Nat) /\ Len(lats) = ok
        /\ ok + graceful + hard + Cardinality(Remaining) = phase * Load /\ split \in BOOLEAN
    BY <1>1, Zenon DEF TallyInv
  <2>2. us \in Nat
    BY BenchConstants, Zenon
  <2>3. /\ ok' \in Nat /\ graceful' \in Nat /\ hard' \in Nat
        /\ ok' + graceful' + hard' = ok + graceful + hard + 1
    <3>1. CASE o = "ok"
      BY <1>3, <2>1, <3>1
    <3>2. CASE o = "graceful"
      BY <1>3, <2>1, <3>2
    <3>3. CASE o = "hard"
      BY <1>3, <2>1, <3>3
    <3> QED
      BY <1>4, <3>1, <3>2, <3>3, Zenon
  <2>4. lats' \in Seq(Nat) /\ Len(lats') = ok'
    <3>1. CASE o = "ok"
      <4>1. lats' = Append(lats, us) /\ ok' = ok + 1
        BY <1>3, <3>1, Zenon
      <4>2. Append(lats, us) \in Seq(Nat) /\ Len(Append(lats, us)) = Len(lats) + 1
        BY <2>1, <2>2, AppendFacts, ZenonT(60)
      <4> QED
        BY <2>1, <4>1, <4>2, Zenon
    <3>2. CASE o # "ok"
      BY <1>3, <2>1, <3>2
    <3> QED
      BY <3>1, <3>2, Zenon
  <2>5. Cardinality(Remaining) \in Nat
    BY RemainingFinite, Zenon
  <2>6. ok' + graceful' + hard' + Cardinality(Remaining') = phase * Load
    <3> DEFINE r == Cardinality(Remaining)
               m == ok + graceful + hard
    <3>1. m \in Nat /\ r \in Nat
      BY <2>1, <2>5
    <3>2. ok' + graceful' + hard' = m + 1 /\ Cardinality(Remaining') = r - 1 /\ m + r = phase * Load
      BY <1>7, <2>1, <2>3, Zenon
    <3> HIDE DEF r, m
    <3>3. (m + 1) + (r - 1) = m + r
      BY <3>1
    <3> QED
      BY <3>2, <3>3, Zenon
  <2> QED
    BY <1>2, <2>1, <2>3, <2>4, <2>6, Zenon DEF TallyInv, Load
<1>10. ResultInv'
  BY <1>2, <1>6, Zenon DEF ResultInv
<1> QED
  BY <1>7, <1>8, <1>9, <1>10, Zenon DEF BenchInv

LEMMA NextPhaseKeeps ==
  ASSUME BenchInv, NextPhase
  PROVE  BenchInv'
<1>1. WorkersInv /\ GateInv /\ TallyInv
  BY Zenon DEF BenchInv
<1>2. /\ Joined /\ phase < Phases /\ phase' = phase + 1 /\ worker' = Spawned
      /\ UNCHANGED <<split, slots, ok, graceful, hard, lats, peak, result>>
  BY Zenon DEF NextPhase
<1>3. RequestsPerWorker \in Nat \ {0} /\ Phases \in Nat \ {0} /\ Load \in Nat /\ phase \in 1 .. Phases
  BY <1>1, BenchConstants, Zenon DEF WorkersInv
<1>4. result = Unset
  BY <1>2, <1>3 DEF BenchInv, ResultInv
<1>5. \A w \in Workers : worker'[w] = [at |-> "ready", left |-> RequestsPerWorker]
  BY <1>2, Zenon DEF Spawned
<1>6. WorkersInv'
  <2>1. [at |-> "ready", left |-> RequestsPerWorker] \in WorkerState
    BY <1>3 DEF WorkerState, Places
  <2>2. worker' \in [Workers -> WorkerState]
    BY <1>2, <2>1, Zenon DEF Spawned
  <2>3. phase' \in 1 .. Phases
    BY <1>2, <1>3
  <2> QED
    BY <1>5, <2>2, <2>3 DEF WorkersInv
<1>7. GateInv'
  <2>1. Inside = {}
    BY <1>2, JoinedRemaining, Zenon
  <2>2. Inside' = {}
    BY <1>5 DEF Inside, Where
  <2> QED
    BY <1>1, <1>2, <2>1, <2>2, Zenon DEF GateInv
<1>8. TallyInv'
  <2>1. Cardinality(Remaining) = 0
    BY <1>2, JoinedRemaining, Zenon
  <2>2. Cardinality(Remaining') = Load
    <3>1. Remaining' = {c \in Workers \X (1 .. RequestsPerWorker) : c[2] <= worker'[c[1]].left}
      BY Zenon DEF Remaining
    <3> QED
      BY <1>2, <3>1, SpawnedRemaining, Zenon
  <2>3. ok + graceful + hard + Load = (phase + 1) * Load
    <3>1. (phase + 1) * Load = phase * Load + Load
      BY <1>3
    <3> QED
      BY <1>1, <1>3, <2>1, <3>1 DEF TallyInv
  <2> QED
    BY <1>1, <1>2, <2>2, <2>3, Zenon DEF TallyInv, Load
<1>9. ResultInv'
  BY <1>2, <1>4, Zenon DEF ResultInv
<1> QED
  BY <1>6, <1>7, <1>8, <1>9, Zenon DEF BenchInv

LEMMA SameStatistics ==
  ASSUME lats' = lats
  PROVE  /\ percentile(lats, 50)' = percentile(lats, 50) /\ percentile(lats, 90)' = percentile(lats, 90)
         /\ percentile(lats, 99)' = percentile(lats, 99)
         /\ (IF lats = <<>> THEN 0 ELSE At(lats, Len(lats) - 1))' = IF lats = <<>> THEN 0 ELSE At(lats, Len(lats) - 1)
<1>1. percentile(lats, 50)' = percentile(lats, 50)
  BY DEF percentile, At, Nth, Below, Upto, Lesser
<1>2. percentile(lats, 90)' = percentile(lats, 90)
  BY DEF percentile, At, Nth, Below, Upto, Lesser
<1>3. percentile(lats, 99)' = percentile(lats, 99)
  BY DEF percentile, At, Nth, Below, Upto, Lesser
<1>4. (IF lats = <<>> THEN 0 ELSE At(lats, Len(lats) - 1))' = IF lats = <<>> THEN 0 ELSE At(lats, Len(lats) - 1)
  BY DEF At, Nth, Below, Upto
<1> QED
  BY <1>1, <1>2, <1>3, <1>4, Zenon

LEMMA ReportKeeps ==
  ASSUME BenchInv, NEW n \in Rejects, Report(n)
  PROVE  BenchInv'
<1>1. WorkersInv /\ GateInv /\ TallyInv
  BY Zenon DEF BenchInv
<1>2. Joined /\ phase = Phases /\ UNCHANGED <<split, worker, phase, slots, ok, graceful, hard, lats, peak>>
  BY Zenon DEF Report
<1>3. WorkersInv' /\ GateInv' /\ TallyInv'
  BY <1>1, <1>2, Zenon DEF WorkersInv, GateInv, TallyInv, Inside, Where, Remaining, Load
<1>4. /\ result'.total = (IF split THEN ok + Errors ELSE Planned) /\ result'.ok = ok /\ result'.errors = Errors
      /\ result'.graceful = (IF split THEN graceful ELSE Unset) /\ result'.hard = (IF split THEN hard ELSE Unset)
      /\ result'.p50 = percentile(lats, 50) /\ result'.p90 = percentile(lats, 90)
      /\ result'.p99 = percentile(lats, 99)
      /\ result'.max = (IF lats = <<>> THEN 0 ELSE At(lats, Len(lats) - 1))
  BY Zenon DEF Report
<1>5. Reported(result)'
  BY <1>2, <1>4, SameStatistics, Zenon DEF Reported, Errors, Planned
<1>6. ResultInv'
  BY <1>2, <1>5, Zenon DEF ResultInv, Joined
<1> QED
  BY <1>3, <1>6, Zenon DEF BenchInv

LEMMA BenchSteps == BenchInv /\ [BenchNext]_benchVars => BenchInv'
<1> SUFFICES ASSUME BenchInv, [BenchNext]_benchVars PROVE BenchInv'
  BY Zenon
<1>1. ASSUME NEW w \in Workers, enter(w) PROVE BenchInv'
  BY <1>1, EnterKeeps, Zenon
<1>2. ASSUME NEW w \in Workers, NEW reply \in Replies, NEW us \in Times, NEW held \in Reserved,
             Finish(w, reply, us, held)
      PROVE  BenchInv'
  BY <1>2, FinishKeeps, Zenon
<1>3. ASSUME NEW w \in Workers, Wait(w) PROVE BenchInv'
  <2>1. "waiting" \in {"waiting", "woken"}
    BY Zenon
  <2> QED
    BY <1>3, <2>1, QueueKeeps, Zenon DEF Wait
<1>4. ASSUME NEW w \in Workers, Spurious(w) PROVE BenchInv'
  <2>1. "woken" \in {"waiting", "woken"}
    BY Zenon
  <2> QED
    BY <1>4, <2>1, QueueKeeps, Zenon DEF Spurious
<1>5. ASSUME NextPhase PROVE BenchInv'
  BY <1>5, NextPhaseKeeps, Zenon
<1>6. ASSUME NEW n \in Rejects, Report(n) PROVE BenchInv'
  BY <1>6, ReportKeeps, Zenon
<1>7. ASSUME UNCHANGED benchVars PROVE BenchInv'
  <2>1. UNCHANGED <<split, worker, phase, slots, ok, graceful, hard, lats, peak, result>>
    BY <1>7, Zenon DEF benchVars
  <2>2. WorkersInv' /\ GateInv' /\ TallyInv'
    BY <2>1, Zenon DEF BenchInv, WorkersInv, GateInv, TallyInv, Inside, Where, Remaining, Load
  <2>3. Reported(result)' <=> Reported(result)
    BY <2>1, SameStatistics, ZenonT(60) DEF Reported, Errors, Planned
  <2>4. ResultInv'
    BY <2>1, <2>3, Zenon DEF BenchInv, ResultInv, Joined
  <2> QED
    BY <2>2, <2>4, Zenon DEF BenchInv
<1> QED
  BY <1>1, <1>2, <1>3, <1>4, <1>5, <1>6, <1>7, Zenon DEF BenchNext, BenchStep

(* A higher percentile is no lower, and none is above the greatest. *)
LEMMA PercentilesOrdered ==
  ASSUME NEW s \in Seq(Nat), NEW p \in Nat, NEW q \in Nat, p <= q
  PROVE  /\ percentile(s, p) <= percentile(s, q)
         /\ percentile(s, q) <= IF s = <<>> THEN 0 ELSE At(s, Len(s) - 1)
<1> DEFINE n == Len(s)
           I == 1 .. n
           x == (n * p) \div 100
           y == (n * q) \div 100
           i == Lesser(x, n - 1)
           k == Lesser(y, n - 1)
<1>1. n \in Nat /\ (s = <<>> <=> n = 0)
  OBVIOUS
<1>2. Sampled(s, I) /\ Cardinality(I) = n
  <2>1. \A j \in I : s[j] \in Nat
    OBVIOUS
  <2> HIDE DEF n
  <2> QED
    BY <1>1, <2>1, PositionsFinite, Zenon DEF Sampled
<1>3. CASE s = <<>>
  BY <1>3 DEF percentile
<1>4. CASE s # <<>>
  <2>1. /\ percentile(s, p) = Nth(s, I, i) /\ percentile(s, q) = Nth(s, I, k)
        /\ (IF s = <<>> THEN 0 ELSE At(s, Len(s) - 1)) = Nth(s, I, n - 1)
    BY <1>4, Zenon DEF percentile, At
  <2> HIDE DEF n
  <2>2. p * n <= q * n /\ p * n \in Nat /\ q * n \in Nat
    BY <1>1, TimesMono, Zenon
  <2>3. n * p \in Nat /\ n * q \in Nat /\ n * p <= n * q
    BY <1>1, <2>2
  <2>4. x \in Nat /\ y \in Nat /\ x <= y
    BY <2>3, DivFacts, DivMono, SMTT(30)
  <2> HIDE DEF x, y
  <2>5. i \in Nat /\ k \in Nat /\ i <= k /\ k < n /\ k <= n - 1 /\ n - 1 \in Nat /\ n - 1 < n
    BY <1>1, <1>4, <2>4 DEF Lesser
  <2> HIDE DEF i, k, I
  <2>6. Nth(s, I, i) <= Nth(s, I, k)
    BY <1>2, <2>5, NthOrdered, Zenon
  <2>7. Nth(s, I, k) <= Nth(s, I, n - 1)
    BY <1>2, <2>5, NthOrdered, Zenon
  <2> QED
    BY <2>1, <2>6, <2>7, Zenon
<1> QED
  BY <1>3, <1>4, Zenon

(* The gate counts the requests in flight and keeps its limit, every       *)
(* request is counted exactly once, and the order statistics are in order  *)
(* (ConcurrencyGate and the load runners), for any number of workers,      *)
(* requests and phases and however waiters are woken.                      *)
THEOREM CountsAreExact == BenchSpec => []CountsExact
<1>1. BenchInv => CountsExact
  <2> SUFFICES ASSUME BenchInv PROVE CountsExact
    BY Zenon
  <2>1. slots = Cardinality(Inside) /\ (MaxInflight > 0 => slots <= MaxInflight)
    BY Zenon DEF BenchInv, GateInv
  <2>2. ASSUME result # Unset
        PROVE  /\ result.total = Planned /\ result.ok + result.errors = result.total
               /\ Len(lats) = result.ok
               /\ result.p50 <= result.p90 /\ result.p90 <= result.p99 /\ result.p99 <= result.max
    <3>1. Joined /\ phase = Phases /\ Reported(result)
      BY <2>2, Zenon DEF BenchInv, ResultInv
    <3>2. Cardinality(Remaining) = 0
      BY <3>1, JoinedRemaining, Zenon
    <3>3. /\ ok \in Nat /\ graceful \in Nat /\ hard \in Nat /\ lats \in Seq(Nat) /\ Len(lats) = ok
          /\ ok + graceful + hard + 0 = Phases * Load
      BY <3>1, <3>2, Zenon DEF BenchInv, TallyInv
    <3>4. Phases * Load = Planned
      BY BenchConstants DEF Load, Planned
    <3>5. ok + Errors = Planned
      BY <3>3, <3>4 DEF Errors
    <3>6. result.total = Planned /\ result.ok = ok /\ result.errors = Errors
      BY <3>1, <3>5, Zenon DEF Reported
    <3>7. /\ percentile(lats, 50) <= percentile(lats, 90) /\ percentile(lats, 90) <= percentile(lats, 99)
          /\ percentile(lats, 99) <= IF lats = <<>> THEN 0 ELSE At(lats, Len(lats) - 1)
      BY <3>3, PercentilesOrdered, SMTT(30)
    <3>8. result.p50 <= result.p90 /\ result.p90 <= result.p99 /\ result.p99 <= result.max
      <4>1. /\ result.p50 = percentile(lats, 50) /\ result.p90 = percentile(lats, 90)
            /\ result.p99 = percentile(lats, 99)
            /\ result.max = IF lats = <<>> THEN 0 ELSE At(lats, Len(lats) - 1)
        BY <3>1, Zenon DEF Reported
      <4>2. result.p50 <= result.p90
        BY <3>7, <4>1, ZenonT(60)
      <4>3. result.p90 <= result.p99
        BY <3>7, <4>1, Zenon
      <4>4. result.p99 <= result.max
        <5> DEFINE top == IF lats = <<>> THEN 0 ELSE At(lats, Len(lats) - 1)
        <5>1. result.p99 = percentile(lats, 99) /\ result.max = top /\ percentile(lats, 99) <= top
          BY <3>7, <4>1, Zenon
        <5> HIDE DEF top
        <5> QED
          BY <5>1, Zenon
      <4> QED
        BY <4>2, <4>3, <4>4, Zenon
    <3> QED
      BY <3>3, <3>5, <3>6, <3>8, Zenon
  <2> QED
    BY <2>1, <2>2, Zenon DEF CountsExact
<1> QED
  BY <1>1, BenchInitial, BenchSteps, PTL DEF BenchSpec

(* A report of an end-to-end scenario with every gate green is of a run    *)
(* that the runner passed too (evaluate_scenario_gates and                 *)
(* load_bench_inner), for all thresholds and counts.                       *)
THEOREM ReportsSound == BenchSpec => []ReportSound
<1>1. BenchInv => ReportSound
  <2> SUFFICES ASSUME BenchInv, result # Unset, result.graceful = Unset,
                      NEW sc \in Scenarios, ReportFailures(sc, result) = {}
               PROVE  RunnerFailures(sc, result) = {}
    BY Zenon DEF ReportSound
  <2>1. Reported(result) /\ ok \in Nat /\ graceful \in Nat /\ hard \in Nat /\ split \in BOOLEAN
    BY Zenon DEF BenchInv, ResultInv, TallyInv
  <2>2. graceful # Unset
    BY <2>1, BenchConstants
  <2>3. ~split
    BY <2>1, <2>2, Zenon DEF Reported
  <2>4. result.hard = Unset /\ result.errors = graceful + hard
    BY <2>1, <2>3, Zenon DEF Reported, Errors
  <2> DEFINE e == result.errors
  <2>5. e \in Nat
    BY <2>1, <2>4
  <2>6. CommonFailures(sc, result) = {} /\ ~ReportErrors(sc, result)
    BY Zenon DEF ReportFailures
  <2>7. Or(result.graceful, 0) = 0 /\ Or(result.hard, e) = e
    BY <2>4, Zenon DEF Or
  <2>8. Or(result.hard, IF e > Or(result.graceful, 0) THEN e - Or(result.graceful, 0) ELSE 0) = e
    <3>1. (IF e > 0 THEN e - 0 ELSE 0) = e
      <4> HIDE DEF e
      <4> QED
        BY <2>5
    <3> QED
      BY <2>4, <2>7, <3>1, Zenon DEF Or
  <2>9. /\ ~(sc.max_hard # Unset /\ e > sc.max_hard)
        /\ ~(sc.max_rejects # Unset /\ (e > sc.max_rejects \/ result.rejects > sc.max_rejects))
        /\ ~(sc.max_rejects = Unset /\ e > 0 /\ sc.max_hard = Unset)
    BY <2>6, <2>8, Zenon DEF ReportErrors
  <2>10. ~(0 > 0)
    OBVIOUS
  <2>11. ~RunnerErrors(sc, result)
    BY <2>7, <2>9, <2>10, Zenon DEF RunnerErrors
  <2> QED
    BY <2>6, <2>11, Zenon DEF RunnerFailures
<1> QED
  BY <1>1, BenchInitial, BenchSteps, PTL DEF BenchSpec
=============================================================================
