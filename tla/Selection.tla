------------------------------ MODULE Selection ------------------------------
(***************************************************************************)
(* Routing one request: its path, its prefill backend and its decode       *)
(* backend (router backend.rs, routing.rs, lib.rs; control pairing.rs).    *)
(*                                                                         *)
(* A scan of a pool compares candidates while other requests change the    *)
(* inflight counts and latency averages it reads; every read of a          *)
(* candidate's cost is a step.  A backend object is a seat <<pool, label>>;*)
(* `setup' holds what does not change: claimed seconds (0 is a broken      *)
(* claim), the warmth snapshot, capacity share, memory pressure, topology. *)
(***************************************************************************)
EXTENDS CostModel, FiniteSets, Functions

CONSTANTS
  PrefillPool, DecodePool,  \* sequences of labels
  Requests,                 \* request tasks
  Setups,                   \* what a run of the router may be set up with
  Heads,                    \* what a head asks for
  Walls,                    \* measured prefill seconds (0 is not usable)
  MaxTold                   \* bound on samples noted before the last prefill ends

VARIABLES
  setup, inflight, ewma, told, job,
  ticked,  \* requests whose placement had its control tick
  mon      \* the pairing monitor
selectionVars == <<setup, inflight, ewma, told, job, ticked, mon>>

Backends == [pool : {"pf"}, label : Range(PrefillPool)] \cup [pool : {"dc"}, label : Range(DecodePool)]
Pool(p) ==
  IF p = "pf" THEN [i \in DOMAIN PrefillPool |-> [pool |-> "pf", label |-> PrefillPool[i]]]
              ELSE [i \in DOMAIN DecodePool |-> [pool |-> "dc", label |-> DecodePool[i]]]

Absent == -1  \* a backend the warmth snapshot does not have

(* The labels of a pool name its backends.  Warmth is in halves. *)
ASSUME SelectionAssumption ==
  /\ IsFiniteSet(Requests)
  /\ PrefillPool \in Seq(STRING) /\ IsInjective(PrefillPool)
  /\ DecodePool \in Seq(STRING) /\ IsInjective(DecodePool)
  /\ Heads \subseteq {"decode", "short", "long"}
  /\ Walls \subseteq Nat /\ MaxTold \in Nat
  /\ \A s \in Setups :
       /\ s.claim \in [Backends -> Nat] /\ s.warm \in [Backends -> {Absent, 0, 1, 2}]
       /\ s.pi \in Nat /\ s.reserved \in Nat /\ s.kvUnits \in Nat

NoSeat == [pool |-> "none", label |-> "none"]
Idle == [at |-> "idle", for |-> "none", pool |-> "none", next |-> 0, best |-> NoSeat,
         seen |-> 0, pf |-> NoSeat, wall |-> 0, calm |-> TRUE]
NoSample == [by |-> "none", at |-> "idle", pool |-> "none", next |-> 0, best |-> NoSeat, seen |-> 0,
             pf |-> NoSeat, row |-> 0, greedy |-> 0, low |-> 0, calm |-> TRUE]

----------------------------------------------------------------------------
(* Costs *)

broken(b) == setup.claim[b] = 0

effective_base_seconds(b) == Greater(setup.claim[b], ewma[b])

(* f64::MAX exceeds every observed average, so a broken claim stays broken. *)
effective_ln_base(b) == IF broken(b) THEN LnMax ELSE Ln(effective_base_seconds(b))

selection_ln(b, pi, prefill) ==
  effective_ln_base(b) + pool_core_scale(pi, prefill) + queue_ln(inflight[b])

pool_hit_strength(b) == IF setup.snapshot THEN Greater(0, setup.warm[b]) ELSE 0

(* Mutant: a warm candidate is costed without its queue. *)
cost_queue_dropped(b, extras, pi) ==
  LET discounts == warmth_discount(pool_hit_strength(b)) IN
    IF extras = <<>> /\ discounts = <<>>
      THEN selection_ln(b, pi, b.pool = "pf")
      ELSE service_cost(effective_ln_base(b) + pool_core_scale(pi, b.pool = "pf"), 0, extras, discounts)

cost_with_isolation_pi(b, extras, pi) ==
  LET discounts == warmth_discount(pool_hit_strength(b)) IN
    IF extras = <<>> /\ discounts = <<>>
      THEN selection_ln(b, pi, b.pool = "pf")
      ELSE service_cost(effective_ln_base(b) + pool_core_scale(pi, b.pool = "pf"),
                        inflight[b], extras, discounts)

cost_with_barriers_pi(b, extras, pi) ==
  IF extras = <<>>
    THEN selection_ln(b, pi, b.pool = "pf")
    ELSE service_cost(effective_ln_base(b) + pool_core_scale(pi, b.pool = "pf"),
                      inflight[b], extras, <<>>)

(* transfer_penalty: nothing on the prefill's own label. *)
transfer_penalty(pf, b) ==
  IF pf.label = b.label THEN <<>>
  ELSE IF setup.rdma
    THEN <<rdma_penalty(setup.kvUnits, setup.topology[pf.label], setup.topology[b.label])>>
    ELSE <<ROUTING_TRANSFER_PENALTY>>

(* The memory barrier on_prefill_complete passes on: only above one. *)
PhiExtra == LET phi == phi_barrier(setup.reserved, 1) IN IF phi > 0 THEN <<phi>> ELSE <<>>

(* The cost a scan reads, by what it is for. *)
Read(j, b) ==
  CASE j.for = "prefill" -> cost_with_isolation_pi(b, <<>>, setup.pi)
    [] j.for = "place" -> cost_with_isolation_pi(b, PhiExtra \o transfer_penalty(j.pf, b), setup.pi)
    [] OTHER -> cost_with_barriers_pi(b, <<>>, setup.pi)

FirstMin(s, cost) ==
  s[CHOOSE i \in DOMAIN s : \A k \in DOMAIN s : cost[s[i]] < cost[s[k]] \/ (cost[s[i]] = cost[s[k]] /\ i <= k)]

----------------------------------------------------------------------------
(* Routing *)

Scan(j, for, pool) ==
  [j EXCEPT !.at = "read", !.for = for, !.pool = pool, !.next = 2, !.best = Pool(pool)[1], !.calm = TRUE]
Scanning(j) == j.at \in {"read", "weigh", "chosen"}

(* pick_colocated's pool, from DEMIURGE_COLOCATED_PHASE. *)
Colocated == IF setup.colocatedDecode THEN "dc" ELSE "pf"

(* A scan over an empty pool finds nothing: NoBackend. *)
Started(j, for, pool) == IF Pool(pool) = <<>> THEN Idle ELSE Scan(j, for, pool)
StartScan(t, for, pool) == job' = [job EXCEPT ![t] = Started(Idle, for, pool)]

(* warmth_override_target: the first warmest prefill backend at or above   *)
(* the threshold; one backend missing from the snapshot ends the search    *)
(* with nothing.                                                           *)
warmth_override_target ==
  LET hot == {i \in DOMAIN Pool("pf") : pool_hit_strength(Pool("pf")[i]) >= 1} IN
    IF /\ setup.snapshot
       /\ \A b \in Range(Pool("pf")) : setup.warm[b] # Absent
       /\ hot # {}
      THEN FirstMin(Pool("pf"), [b \in Range(Pool("pf")) |-> -pool_hit_strength(b)])
      ELSE NoSeat

RouteDecodeOnly(t) ==
  /\ "decode" \in Heads /\ job[t].at = "idle"
  /\ StartScan(t, "decode", "dc")
  /\ UNCHANGED <<setup, inflight, ewma, told, ticked, mon>>

RouteShort(t) ==
  /\ "short" \in Heads /\ job[t].at = "idle"
  /\ IF warmth_override_target # NoSeat
       THEN job' = [job EXCEPT ![t] = [Idle EXCEPT !.at = "prefilling", !.pf = warmth_override_target]]
       ELSE StartScan(t, "colocated", Colocated)
  /\ UNCHANGED <<setup, inflight, ewma, told, ticked, mon>>

RouteLong(t) ==
  /\ "long" \in Heads /\ job[t].at = "idle"
  /\ StartScan(t, "prefill", "pf")
  /\ UNCHANGED <<setup, inflight, ewma, told, ticked, mon>>

(* min_by reads the cost of its best so far again for every comparison;    *)
(* select_decode_with_pi keeps the cost it read first.                     *)
ReadBest(t) ==
  LET j == job[t] IN
    /\ j.at = "read"
    /\ job' = [job EXCEPT ![t].seen = Read(j, j.best),
                          ![t].at = IF j.next > Len(Pool(j.pool)) THEN "chosen" ELSE "weigh"]
    /\ UNCHANGED <<setup, inflight, ewma, told, ticked, mon>>

(* The first of equal candidates stays. *)
Weigh(t) ==
  LET j == job[t]
      candidate == Pool(j.pool)[j.next]
      cost == Read(j, candidate)
  IN  /\ j.at = "weigh"
      /\ job' = [job EXCEPT
           ![t].best = IF cost < j.seen THEN candidate ELSE @,
           ![t].seen = IF cost < j.seen THEN cost ELSE @,
           ![t].next = @ + 1,
           ![t].at = IF j.next = Len(Pool(j.pool)) THEN "chosen"
                     ELSE IF j.for = "place" THEN "weigh" ELSE "read"]
      /\ UNCHANGED <<setup, inflight, ewma, told, ticked, mon>>

(* What other scans read has changed. *)
Disturb(jobs) == [u \in Requests |-> [jobs[u] EXCEPT !.calm = @ /\ ~Scanning(jobs[u])]]
Sampling == mon.at \notin {"idle", "done"}
DisturbMonitor == [mon EXCEPT !.calm = @ /\ ~Sampling]

(* A long prompt goes to its prefill backend; the other paths are proxied. *)
Commit(t) ==
  LET j == job[t] IN
    /\ j.at = "chosen" /\ ~(Sampling /\ mon.by = t)
    /\ IF j.for = "prefill"
         THEN /\ job' = [job EXCEPT ![t] = [Idle EXCEPT !.at = "prefilling", !.pf = j.best]]
              /\ UNCHANGED <<inflight, mon>>
         ELSE /\ job' = Disturb([job EXCEPT ![t] = [Idle EXCEPT !.at = "proxy", !.best = j.best]])
              /\ inflight' = [inflight EXCEPT ![j.best] = @ + 1]
              /\ mon' = IF mon.by = t THEN NoSample ELSE DisturbMonitor
    /\ ticked' = ticked \ {t}
    /\ UNCHANGED <<setup, ewma, told>>

Finish(t) ==
  LET j == job[t] IN
    /\ j.at = "proxy"
    /\ inflight' = [inflight EXCEPT ![j.best] = @ - 1]
    /\ job' = Disturb([job EXCEPT ![t] = Idle])
    /\ mon' = DisturbMonitor
    /\ UNCHANGED <<setup, ewma, told, ticked>>

(* on_prefill_complete's fall-backs: decode placement, else colocated. *)
Place(j) == IF DecodePool = <<>> THEN Started(j, "fallback", Colocated) ELSE Started(j, "place", "dc")

(* The prefill answered after w seconds; an unusable wall is not noted. *)
PrefillDone(t, w) ==
  /\ job[t].at = "prefilling"
  /\ Sum([i \in DOMAIN Pool("pf") |-> Len(told[Pool("pf")[i]])]) < MaxTold
  /\ job' = [job EXCEPT ![t] = IF w = 0 THEN Place(@) ELSE [@ EXCEPT !.at = "noting", !.wall = w]]
  /\ UNCHANGED <<setup, inflight, ewma, told, ticked, mon>>

(* The prefill failed, or its hand-off was refused. *)
PrefillLost(t) ==
  /\ job[t].at = "prefilling"
  /\ job' = [job EXCEPT ![t] = Idle]
  /\ UNCHANGED <<setup, inflight, ewma, told, ticked, mon>>

(* note_observed_seconds: the average is loaded and then exchanged only if *)
(* it is still the one loaded.                                             *)
Ewma(prev, secs) == IF prev = 0 THEN secs ELSE (secs + 3 * prev) \div 4

NoteLoad(t) ==
  /\ job[t].at = "noting"
  /\ job' = [job EXCEPT ![t].at = "exchange", ![t].seen = ewma[job[t].pf]]
  /\ UNCHANGED <<setup, inflight, ewma, told, ticked, mon>>

Noted(t) ==
  LET b == job[t].pf IN
    /\ ewma' = [ewma EXCEPT ![b] = Ewma(job[t].seen, job[t].wall)]
    /\ told' = [told EXCEPT ![b] = Append(@, job[t].wall)]
    /\ job' = [Disturb(job) EXCEPT ![t] = Place(job[t])]
    /\ mon' = DisturbMonitor
    /\ UNCHANGED <<setup, inflight, ticked>>

(* Mutant: the loaded average is overwritten whatever it is by then. *)
NoteStore(t) == job[t].at = "exchange" /\ Noted(t)

NoteExchange(t) ==
  /\ job[t].at = "exchange"
  /\ ewma[job[t].pf] = job[t].seen
  /\ Noted(t)

(* The exchange lost, or failed spuriously as a weak one may: load again. *)
NoteRetry(t) ==
  /\ job[t].at = "exchange"
  /\ job' = [job EXCEPT ![t].at = "noting"]
  /\ UNCHANGED <<setup, inflight, ewma, told, ticked, mon>>

----------------------------------------------------------------------------
(* Pairing: the shadow monitor compares the pair a greedy choice gives     *)
(* with the best pair, at an even capacity share.  It runs in the control  *)
(* tick of a placement, under the control lock, while other requests       *)
(* change the loads it reads; each cost is read anew wherever it is used.  *)

prefill_ln(b) == cost_with_isolation_pi(b, <<>>, 5)

decode_ln(b, pf) ==
  LET extras == IF pf.label = b.label THEN <<>> ELSE <<ROUTING_TRANSFER_PENALTY>>
  IN  cost_with_isolation_pi(b, append_barriers_fail_expensive(<<>>, extras), 5)

(* Mutant: the prefill backend is chosen without its warmth. *)
PairScanCold(b) == IF mon.pool = "pf" THEN selection_ln(b, 5, TRUE) ELSE decode_ln(b, mon.pf)

(* What select_prefill_target, then select_decode_target compare by. *)
PairScanCost(b) == IF mon.pool = "pf" THEN prefill_ln(b) ELSE decode_ln(b, mon.pf)

(* A tick that does not get the lock at once samples nothing. *)
SampleStart(t) ==
  /\ job[t].at = "chosen" /\ job[t].for = "place" /\ t \notin ticked
  /\ ~Sampling /\ PrefillPool # <<>> /\ DecodePool # <<>>
  /\ ticked' = ticked \cup {t}
  /\ mon' = [NoSample EXCEPT !.by = t, !.at = "read", !.pool = "pf", !.next = 2, !.best = Pool("pf")[1]]
  /\ UNCHANGED <<setup, inflight, ewma, told, job>>

(* The comparisons of min_by, which reads both sides of each. *)
SampleRead ==
  /\ mon.at = "read" /\ mon.next <= Len(Pool(mon.pool))
  /\ mon' = [mon EXCEPT !.seen = PairScanCost(mon.best), !.at = "weigh"]
  /\ UNCHANGED <<setup, inflight, ewma, told, job, ticked>>

SampleWeigh ==
  LET candidate == Pool(mon.pool)[mon.next] IN
    /\ mon.at = "weigh"
    /\ mon' = [mon EXCEPT !.best = IF PairScanCost(candidate) < mon.seen THEN candidate ELSE @,
                          !.next = @ + 1, !.at = "read"]
    /\ UNCHANGED <<setup, inflight, ewma, told, job, ticked>>

SampleScanned ==
  /\ mon.at = "read" /\ mon.next > Len(Pool(mon.pool))
  /\ mon' = IF mon.pool = "pf"
              THEN [mon EXCEPT !.pf = mon.best, !.pool = "dc", !.next = 2, !.best = Pool("dc")[1]]
              ELSE [mon EXCEPT !.at = "half"]
  /\ UNCHANGED <<setup, inflight, ewma, told, job, ticked>>

(* joint_ln_targets of the greedy pair (row 0), then of every pair. *)
PairPrefill == IF mon.row = 0 THEN mon.pf ELSE Pool("pf")[mon.row]
PairDecode == IF mon.row = 0 THEN mon.best ELSE Pool("dc")[mon.next]

SampleHalf ==
  /\ mon.at = "half"
  /\ mon' = [mon EXCEPT !.seen = prefill_ln(PairPrefill), !.at = "pair"]
  /\ UNCHANGED <<setup, inflight, ewma, told, job, ticked>>

(* The first pair replaces oracle_c's initial infinity. *)
SamplePair ==
  LET cost == mon.seen + decode_ln(PairDecode, PairPrefill)
      first == mon.row = 1 /\ mon.next = 1
      last == mon.next = Len(Pool("dc"))
  IN  /\ mon.at = "pair"
      /\ mon' = IF mon.row = 0
           THEN [mon EXCEPT !.greedy = cost, !.row = 1, !.next = 1, !.at = "half"]
           ELSE [mon EXCEPT !.low = IF first THEN cost ELSE Lesser(@, cost),
                            !.row = IF last THEN @ + 1 ELSE @,
                            !.next = IF last THEN 1 ELSE @ + 1,
                            !.at = IF last /\ mon.row = Len(Pool("pf")) THEN "done" ELSE "half"]
      /\ UNCHANGED <<setup, inflight, ewma, told, job, ticked>>

SelectionInit ==
  /\ setup \in Setups
  /\ inflight = [b \in Backends |-> 0]
  /\ ewma = [b \in Backends |-> 0]
  /\ told = [b \in Backends |-> <<>>]
  /\ job = [t \in Requests |-> Idle]
  /\ ticked = {} /\ mon = NoSample

SampleNext == SampleRead \/ SampleWeigh \/ SampleScanned \/ SampleHalf \/ SamplePair

SelectionNext ==
  \/ \E t \in Requests :
       \/ RouteDecodeOnly(t) \/ RouteShort(t) \/ RouteLong(t)
       \/ ReadBest(t) \/ Weigh(t) \/ Commit(t) \/ Finish(t)
       \/ \E w \in Walls : PrefillDone(t, w)
       \/ PrefillLost(t)
       \/ NoteLoad(t) \/ NoteExchange(t) \/ NoteRetry(t)
       \/ SampleStart(t)
  \/ SampleNext

SelectionSpec == SelectionInit /\ [][SelectionNext]_selectionVars

----------------------------------------------------------------------------
(* Properties *)

Broken(p) == \A b \in Range(Pool(p)) : broken(b)

BrokenLast ==
  \A t \in Requests :
    job[t].at = "chosen" /\ broken(job[t].best) => Broken(job[t].pool)

(* The average of all the walls told of a backend, in their order. *)
Averages(s) == LET avg[k \in 0..Len(s)] == IF k = 0 THEN 0 ELSE Ewma(avg[k - 1], s[k]) IN avg
Average(s) == Averages(s)[Len(s)]

(* The cost a candidate should have: the largest of its claim and of the   *)
(* average of all walls told of it, its share, queue, penalties and        *)
(* warmth, without the short cuts the scans take.  Of a broken claim the   *)
(* short cut of a candidate without penalty or warmth scales what          *)
(* service_cost clamps, so only pools with a usable claim are ranked.      *)
TrueCost(j, b) ==
  LET core == IF broken(b) THEN LnMax ELSE Ln(Greater(setup.claim[b], Average(told[b])))
      extras == IF j.for = "place" THEN PhiExtra \o transfer_penalty(j.pf, b) ELSE <<>>
      warm == IF j.for \in {"prefill", "place"} THEN warmth_discount(pool_hit_strength(b)) ELSE <<>>
  IN  TimeCore(core + pool_core_scale(setup.pi, b.pool = "pf")) + Ln(1 + inflight[b]) + Sum(extras) + Sum(warm)

CalmOptimal ==
  \A t \in Requests :
    LET j == job[t] IN
      j.at = "chosen" /\ j.calm /\ ~Broken(j.pool) =>
        j.best = FirstMin(Pool(j.pool), [b \in Range(Pool(j.pool)) |-> TrueCost(j, b)])

(* The choice of a scan.  A backend whose claimed service time is broken   *)
(* is chosen only when the whole pool is broken, whatever inflight counts  *)
(* and averages do while the pool is scanned; and a scan that nothing      *)
(* disturbed chose the first of the cheapest candidates of its pool, by    *)
(* the cost every candidate truly has.                                     *)
ChoiceSound == BrokenLast /\ CalmOptimal

(* No measured wall is lost: a backend's average is the fold of all the    *)
(* walls told of it, in the order their exchanges succeeded.               *)
EwmaExact == \A b \in Backends : ewma[b] = Average(told[b])

(* A regret sample during which no load changed: choosing the prefill      *)
(* backend first costs at most the transfer penalty over the best pair,    *)
(* and never less than it.  Nothing is claimed of a sample that a commit,  *)
(* a finished request or a noted wall disturbed: its greedy pair and its   *)
(* best pair are costed at different loads, and the difference may leave   *)
(* these bounds on either side.                                            *)
RegretBounded ==
  mon.at = "done" /\ mon.calm => mon.greedy - mon.low \in 0 .. ROUTING_TRANSFER_PENALTY

=============================================================================
