---------------------------- MODULE ShadowLoops ----------------------------
(***************************************************************************)
(* The loops that watch and do not steer: the length predictor, the        *)
(* shadow log and the graduation of the corrector, and the cutover of a    *)
(* migration.  Ratios of observed to predicted time are in percent, 0 for  *)
(* a sample that has none.                                                 *)
(***************************************************************************)
EXTENDS Samples

CONSTANTS
  MaxSamples, MaxLengths,  \* of a ring; of the predictor's
  Lengths, Ratios,
  Violations, MaxViolations, MinGoodput,  \* GraduationGate, goodput in percent
  BLOCK_TOKENS, BytesPerToken,
  Models, Itls, MaxPasses, Measured,
  MaxSeen         \* bound on the lengths a behaviour records

ASSUME ShadowAssumption ==
  /\ {MaxSamples, MaxLengths, BLOCK_TOKENS, MaxSeen} \subseteq Nat \ {0}
  /\ BytesPerToken \in Nat /\ Lengths \subseteq Nat /\ Ratios \subseteq Nat /\ Itls \subseteq Nat
  /\ \A m \in Models : {m.total_bytes, m.chunk_bytes, m.per_chunk_us, m.dirty_fraction} \subseteq Nat

VARIABLES
  lengths, seen,             \* LengthPredictor; every length recorded
  ratios, stage, judged,     \* CorrectorShadowLog; GraduationController; the windows judged
  mig, stalls                \* a QuiesceModel on its way; MigrationStallLog

shadowVars == <<lengths, seen, ratios, stage, judged, mig, stalls>>

(* Every ring forgets its oldest sample first. *)
record(ring, max, x) == Append(IF Len(ring) >= max THEN Tail(ring) ELSE ring, x)

----------------------------------------------------------------------------
(* Length predictor. *)

(* Mutant: the rank is rounded to the sample below it. *)
percentile_below(s, p) == IF s = <<>> THEN 0 ELSE At(s, Greater(0, (Len(s) * p) \div 100 - 1))

percentile_at(s, p) == IF s = <<>> THEN 0 ELSE At(s, Lesser((Len(s) * p) \div 100, Len(s) - 1))

(* The nearest rank the ledger uses for the same quantity. *)
percentile90(s) == IF s = <<>> THEN 0 ELSE At(s, Greater(0, CeilDiv(Len(s) * 90, 100) - 1))

(* kv_breakdown: whole blocks, with 8% of metadata and 5% of slack.  Token *)
(* counts are far below the sizes at which 64-bit sums end.                *)
kv_reserved(tokens) ==
  LET payload == CeilDiv(tokens, BLOCK_TOKENS) * BLOCK_TOKENS * BytesPerToken
  IN payload + CeilDiv(payload * 8, 100) + CeilDiv(payload * 5, 100)

reserve_bytes_p90(s) == kv_reserved(percentile_at(s, 90))

RecordLength(n) ==
  /\ Len(seen) < MaxSeen
  /\ lengths' = record(lengths, MaxLengths, n)
  /\ seen' = Append(seen, n)
  /\ UNCHANGED <<ratios, stage, judged, mig, stalls>>

(* Of the last MaxLengths lengths recorded, in whatever order, each        *)
(* percentile covers its share; the reservation for p90 covers their bytes *)
(* and is never below the one the ledger's own p90 gives.                  *)
PredictorCovers ==
  LET latest == SubSeq(seen, Greater(1, Len(seen) - MaxLengths + 1), Len(seen))
      fits == {j \in 1 .. Len(latest) : latest[j] * BytesPerToken <= reserve_bytes_p90(lengths)}
  IN /\ \A p \in {50, 90, 99} :
          Upto(latest, 1 .. Len(latest), percentile_at(lengths, p)) * 100 >= p * Len(latest)
     /\ Cardinality(fits) * 100 >= 90 * Len(latest)
     /\ kv_reserved(percentile90(lengths)) <= reserve_bytes_p90(lengths)

----------------------------------------------------------------------------
(* Corrector: train on the window, judge the window, climb or fall back. *)

Corrector(d) == Greater(80, Lesser(d, 120))  \* 1 - ALPHA .. 1 + ALPHA
(* A sample has an observation and a finite prediction; one whose logarithm *)
(* is finite and whose exponential is not is left out.                      *)
Usable(s) == {j \in 1 .. Len(s) : s[j] # 0}

Median(s) == IF Usable(s) = {} THEN 100 ELSE Nth(s, Usable(s), Cardinality(Usable(s)) \div 2)

train_bounded_delta(s) == Corrector(Median(s))

(* Whether delta brings the prediction nearer to the observation. *)
Improves(r, delta) == (delta > 100 /\ r * r > 100 * delta) \/ (delta < 100 /\ r * r < 100 * delta)

eval_goodput_improvement(s, delta) ==
  IF Usable(s) = {} THEN 0
  ELSE Percent(Cardinality({j \in Usable(s) : Improves(s[j], Corrector(delta))}), Cardinality(Usable(s)))

is_clamp_saturated(delta) == delta <= 80 \/ delta >= 120

eval_corrector_graduation(violations, goodput) == violations <= MaxViolations /\ goodput >= MinGoodput

Healthy(s, violations) ==
  LET delta == train_bounded_delta(s)
  IN ~is_clamp_saturated(delta) /\ eval_corrector_graduation(violations, eval_goodput_improvement(s, delta))

(* Mutant: production only steps back to canary. *)
NextStageStepwise(st, healthy) ==
  IF healthy THEN IF st = "shadow" THEN "canary" ELSE "production"
  ELSE IF st = "production" THEN "canary" ELSE "shadow"

NextStage(st, healthy) ==
  IF healthy THEN IF st = "shadow" THEN "canary" ELSE "production" ELSE "shadow"

RecordRatio(r) ==
  /\ ratios' = record(ratios, MaxSamples, r)
  /\ UNCHANGED <<lengths, seen, stage, judged, mig, stalls>>

evaluate(violations) ==
  /\ stage' = NextStage(stage, Healthy(ratios, violations))
  /\ judged' = LET all == Append(judged, [ratios |-> ratios, violations |-> violations])
               IN IF Len(all) > 2 THEN Tail(all) ELSE all
  /\ UNCHANGED <<lengths, seen, ratios, mig, stalls>>

(* The corrector is out of shadow only on the strength of the last window  *)
(* judged: no violation beyond the gate, and samples it improved.  It is   *)
(* in production only if the window before that one was as good.           *)
StageEarned ==
  LET Good(w) == /\ w.violations <= MaxViolations
                 /\ train_bounded_delta(w.ratios) \in 81..119
                 /\ eval_goodput_improvement(w.ratios, train_bounded_delta(w.ratios)) >= MinGoodput
  IN /\ stage # "shadow" => judged # <<>> /\ Good(Newest(judged))
     /\ stage = "production" => Len(judged) = 2 /\ Good(judged[1])

----------------------------------------------------------------------------
(* Migration: background passes, then the cutover or the way back. *)

limit_us(itl) == itl \div 2  \* MIGRATION_ITL_BUDGET_FRACTION_EPS 0.5
chunk(m) == Greater(1, m.chunk_bytes)

(* Mutant: the last part of a chunk costs nothing. *)
copy_us_floor(m, bytes) == (bytes \div chunk(m)) * m.per_chunk_us

copy_us(m, bytes) == CeilDiv(bytes, chunk(m)) * m.per_chunk_us

evaluate_cutover(est, itl) == IF est <= limit_us(itl) THEN "commit" ELSE "abort"

StartMigration(m, itl) ==
  /\ mig.at # "copying"
  /\ mig' = [at |-> "copying", m |-> m, itl |-> itl, dirty |-> m.total_bytes, passes |-> 0]
  /\ UNCHANGED <<lengths, seen, ratios, stage, judged, stalls>>

(* dirty_fraction is clamped just below one: a pass always leaves less. *)
CopyPass ==
  /\ mig.at = "copying" /\ mig.dirty > chunk(mig.m) /\ mig.passes < MaxPasses
  /\ mig' = [mig EXCEPT !.dirty = IF mig.m.dirty_fraction >= 100 THEN @ - 1
                                  ELSE (@ * mig.m.dirty_fraction) \div 100,
                        !.passes = @ + 1]
  /\ UNCHANGED <<lengths, seen, ratios, stage, judged, stalls>>

(* The loop is over: the stall is estimated, the cutover decided, and the  *)
(* stall that was measured is recorded beside the estimate.                *)
Cutover(measured) ==
  /\ mig.at = "copying" /\ (mig.dirty <= chunk(mig.m) \/ mig.passes >= MaxPasses)
  /\ LET est == copy_us(mig.m, mig.dirty) IN
       stalls' = record(stalls, MaxSamples, [estimated |-> est, measured |-> measured,
                                    decision |-> evaluate_cutover(est, mig.itl)])
  /\ mig' = [mig EXCEPT !.at = "done"]
  /\ UNCHANGED <<lengths, seen, ratios, stage, judged>>

(* A cutover commits only if every byte left over can be moved within half *)
(* an inter-token latency, at the model's rate; one that got down to one   *)
(* chunk aborts only if that chunk alone takes longer.                     *)
StallCovered ==
  (mig.at = "done" /\ stalls # <<>>) =>
    LET d == Newest(stalls).decision IN
      /\ d = "commit" => 2 * mig.dirty * mig.m.per_chunk_us <= mig.itl * chunk(mig.m)
      /\ (d = "abort" /\ mig.dirty <= chunk(mig.m)) => mig.m.per_chunk_us > mig.itl \div 2

----------------------------------------------------------------------------
ShadowInit ==
  /\ lengths = <<>> /\ seen = <<>> /\ ratios = <<>> /\ stalls = <<>>
  /\ stage = "shadow" /\ judged = <<>>
  /\ mig = [at |-> "none"]

PredictorNext == \E n \in Lengths : RecordLength(n)
CorrectorNext == (\E r \in Ratios : RecordRatio(r)) \/ (\E v \in Violations : evaluate(v))
MigrationNext ==
  \/ \E m \in Models, itl \in Itls : StartMigration(m, itl)
  \/ CopyPass
  \/ \E us \in Measured : Cutover(us)

ShadowSpec == ShadowInit /\ [][PredictorNext \/ CorrectorNext \/ MigrationNext]_shadowVars
=============================================================================
