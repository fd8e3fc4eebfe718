---------------------------- MODULE FleetReplay ----------------------------
(***************************************************************************)
(* The fleet pilot and its live replay (control fleet_pilot.rs and         *)
(* fleet_sim.rs, xtask's fleet replay scenario): a trace is loaded, the    *)
(* rebalancer's share is computed for every window, the windows are run    *)
(* against a router, and a gate judges both.  Pressures, shares and        *)
(* correlations are in percent; a trace may hold pressures out of range.   *)
(***************************************************************************)
EXTENDS Samples, PoolPressure, SequencesExt

CONSTANTS
  Lines,       \* lines of a trace file: a window, or "skip" or "bad"
  MaxWindows,
  BaseConcurrency, PerWorker,
  LivePis,     \* what the router's table may hold after a window
  Losses,      \* requests of a window that end in <<503, failure>>
  MinShadow, MinLive, MaxHeavyShed

ASSUME FleetAssumption ==
  {MaxWindows, BaseConcurrency, PerWorker, MinShadow, MinLive, MaxHeavyShed} \subseteq Nat

VARIABLES trace, replay, live
fleetVars == <<trace, replay, live>>

Between(x, lo, hi) == IF x < lo THEN lo ELSE IF x > hi THEN hi ELSE x
AtLeast1(n) == IF n = 0 THEN 1 ELSE n
Total(s) == FoldLeft(LAMBDA a, b : a + b, 0, s)
Each(s, F(_)) == [i \in 1..Len(s) |-> F(s[i])]

----------------------------------------------------------------------------
(* Pilot *)

(* TraceWindow::pressure clamps what the trace holds. *)
pressure(w) == [f \in DOMAIN w.signals |-> Between(w.signals[f], 0, 100)]

shadow_pi_star(w) == compute_pi_star(pressure(w), 50, 100)

Heavy(ws) == SelectSeq(ws, LAMBDA w : w.heavy)
Light(ws) == SelectSeq(ws, LAMBDA w : ~w.heavy)
HeldOut(ws) == SelectSeq(ws, LAMBDA w : w.held)
Pis(ws) == Each(ws, LAMBDA w : w.pi)

(* point_biserial_corr is CorrNum / sqrt(CorrDen): both sides multiplied   *)
(* by the sizes of the classes.                                            *)
CorrNum(ws) == Total(Pis(Heavy(ws))) * Len(Light(ws)) - Total(Pis(Light(ws))) * Len(Heavy(ws))

CorrDen(ws) ==
  Len(Heavy(ws)) * Len(Light(ws))
    * (Len(ws) * Total(Each(ws, LAMBDA w : w.pi * w.pi)) - Total(Pis(ws)) * Total(Pis(ws)))

(* A correlation that is not defined (one class, one window, no spread) is 0. *)
point_biserial_corr_at_least(ws, min) ==
  IF Len(ws) < 2 \/ CorrDen(ws) = 0 THEN min = 0
  ELSE CorrNum(ws) >= 0 /\ 10000 * CorrNum(ws) * CorrNum(ws) >= min * min * CorrDen(ws)

Separation(ws) ==
  LET h == AtLeast1(Len(Heavy(ws)))
      l == AtLeast1(Len(Light(ws)))
  IN Total(Pis(Heavy(ws))) * l > Total(Pis(Light(ws))) * h + 5 * h * l

Shadow(ws) == Each(ws, LAMBDA w : [heavy |-> w.heavy, held |-> w.held, pi |-> shadow_pi_star(w)])

replay_fleet_pilot(ws) ==
  LET held == HeldOut(Shadow(ws))
  IN point_biserial_corr_at_least(held, MinShadow) /\ Separation(held) /\ held # <<>>

----------------------------------------------------------------------------
(* Replay *)

(* window_knobs takes the trace's pressures as they are; of what it sets,  *)
(* only the number of workers has an effect on the counts.                 *)
window_knobs(w) ==
  LET percent == Between(45 + w.signals.q_prefill + w.signals.q_decode, 50, 200)
  IN [concurrency |-> Between((BaseConcurrency * percent + 50) \div 100, 4, 64)]

(* load_fleet_trace: blank lines and comments are skipped, a bad line or   *)
(* an empty trace refuses the file.                                        *)
LoadLine(line) ==
  /\ replay = "load" /\ Len(trace) < MaxWindows
  /\ trace' = IF line.kind = "window" THEN Append(trace, line) ELSE trace
  /\ replay' = IF line.kind = "bad" THEN "refused" ELSE "load"
  /\ UNCHANGED live

Start ==
  /\ replay = "load"
  /\ replay' = IF trace = <<>> THEN "refused" ELSE "run"
  /\ UNCHANGED <<trace, live>>

(* One window: its workers (BenchRun), what they counted, and the share    *)
(* the router's table held at its end.                                     *)
RunWindow(loss, pi) ==
  /\ replay = "run" /\ Len(live) < Len(trace)
  /\ LET w == trace[Len(live) + 1]
         conc == window_knobs(w).concurrency
     IN live' = Append(live,
          [heavy |-> w.heavy, held |-> w.held, pi |-> pi, graceful |-> loss[1], hard |-> loss[2],
           ok |-> conc * PerWorker - loss[1] - loss[2]])
  /\ UNCHANGED <<trace, replay>>

Sent(ws) == Total(Each(ws, LAMBDA w : w.ok + w.graceful + w.hard))

(* Mutant: the failures are taken for the shed requests. *)
shed_pass_hard(ws) ==
  100 * Total(Each(Heavy(ws), LAMBDA w : w.hard)) <= MaxHeavyShed * Sent(Heavy(ws))

heavy_shed_pass(ws) ==
  100 * Total(Each(Heavy(ws), LAMBDA w : w.graceful)) <= MaxHeavyShed * Sent(Heavy(ws))

eval_fleet_sim_gate(ws) ==
  /\ replay_fleet_pilot(trace)
  /\ Sent(Heavy(ws)) > Sent(Light(ws))
  /\ point_biserial_corr_at_least(HeldOut(ws), MinLive)
  /\ heavy_shed_pass(ws)

Judge ==
  /\ replay = "run" /\ Len(live) = Len(trace)
  /\ replay' = IF eval_fleet_sim_gate(live) THEN "pass" ELSE "fail"
  /\ UNCHANGED <<trace, live>>

FleetInit == trace = <<>> /\ replay = "load" /\ live = <<>>

FleetNext ==
  \/ \E line \in Lines : LoadLine(line)
  \/ Start \/ Judge
  \/ \E loss \in Losses, pi \in LivePis : RunWindow(loss, pi)

----------------------------------------------------------------------------
(* Shedding never helps: with one request of a heavy window answered 503   *)
(* instead of served, or instead of failed, a replay that does not pass    *)
(* still does not.                                                         *)
ShedNeverHelps ==
  (replay = "fail") =>
    \A i \in {j \in 1..Len(live) : live[j].heavy} :
      /\ live[i].ok > 0 => ~eval_fleet_sim_gate([live EXCEPT ![i].ok = @ - 1, ![i].graceful = @ + 1])
      /\ live[i].hard > 0 => ~eval_fleet_sim_gate([live EXCEPT ![i].hard = @ - 1, ![i].graceful = @ + 1])

=============================================================================
