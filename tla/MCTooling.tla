----------------------------- MODULE MCTooling ------------------------------
(***************************************************************************)
(* Small instances of what observes and judges the router: the hand-off    *)
(* log, the shadow loops, the fleet pilot with its replay, one load        *)
(* scenario, and the bench commands.  They share no variable, so a         *)
(* behaviour looks at one of them, its focus; the shadow loops are looked  *)
(* at one by one.                                                          *)
(***************************************************************************)
EXTENDS HandoffLog, ShadowLoops, FleetReplay, BenchRun, BenchSuite

VARIABLE focus

vars == <<focus, handoffVars, shadowVars, fleetVars, benchVars, suiteVars>>

(* Hand-off: a claim in the body, one that is repeated and does not parse  *)
(* the second time, a length of zero.                                      *)
Line(h, v) == [h |-> h, v |-> v]
MCResponses ==
  {<<Line("handle", 1), Line("bytes", 2), Line("blank", Bad), Line("bytes", 3)>>,
   <<Line("handle", 1), Line("bytes", 2), Line("bytes", Bad), Line("blank", Bad)>>,
   <<Line("bytes", 0), Line("handle", 1)>>, <<Line("bytes", 2), Line("handle", 1)>>}

(* Shadow loops *)
Migration(total, size, us, dirty) ==
  [total_bytes |-> total, chunk_bytes |-> size, per_chunk_us |-> us, dirty_fraction |-> dirty]
MCModels == {Migration(20, 3, 10, 60), Migration(5, 0, 4, 100), Migration(9, 4, 30, 40), Migration(0, 4, 30, 50)}

(* Fleet: heavy and light windows with pressures out of range, windows for *)
(* calibration, a comment and a line that does not parse.                  *)
Window(qp, qd, heavy, held) ==
  [kind |-> "window", signals |-> PoolPressure(qp, qd, qd, 0, 0, 0), heavy |-> heavy, held |-> held]
MCLines == {Window(90, 20, TRUE, TRUE), Window(150, 80, TRUE, FALSE), Window(20, 70, FALSE, TRUE), Window(250, 30, FALSE, FALSE),
            [Window(0, 0, FALSE, FALSE) EXCEPT !.kind = "skip"], [Window(0, 0, FALSE, FALSE) EXCEPT !.kind = "bad"]}
MCLosses == {<<0, 0>>, <<1, 0>>, <<0, 1>>}

(* One scenario for each kind of gate, and one for each way to allow errors. *)
NoGates == [limit |-> [g \in UpperGates \union LowerGates |-> Unset], seen |-> [g \in UpperGates \union LowerGates |-> Unset],
            fleet_gate |-> Unset, min_samples |-> Unset, samples |-> Unset, max_tail |-> Unset, max_p99 |-> Unset, capacity |-> Unset,
            min_rejects |-> Unset, min_errors |-> Unset, max_hard |-> Unset, max_rejects |-> Unset]
MCScenarios ==
  {NoGates, [NoGates EXCEPT !.max_tail = 20, !.max_p99 = 2], [NoGates EXCEPT !.capacity = 5], [NoGates EXCEPT !.min_samples = 1], [NoGates EXCEPT !.fleet_gate = FALSE],
   [NoGates EXCEPT !.limit = [g \in UpperGates \union LowerGates |-> 5], !.seen = [g \in UpperGates \union LowerGates |-> 6]]}
  \union {[NoGates EXCEPT !.max_hard = h, !.max_rejects = m] : h, m \in {Unset, 1}}
  \union {[NoGates EXCEPT !.min_errors = n, !.min_rejects = n, !.max_rejects = 3] : n \in {1, 2}}

MCSelected == [harden |-> <<"s1", "s2", "s3">>, latest |-> <<"s4", "s6">>, stress |-> <<"s5">>]
MCCi == <<"s6">>

Loops == {"predictor", "corrector", "migration"}

MCInit ==
  /\ focus \in Loops \union {"handoff", "fleet", "bench", "suite"}
  /\ HandoffInit
  /\ ShadowInit
  /\ FleetInit
  /\ BenchInit /\ (focus # "bench" => ~split)
  /\ SuiteInit

ShadowStep ==
  \/ focus = "predictor" /\ PredictorNext
  \/ focus = "corrector" /\ CorrectorNext
  \/ focus = "migration" /\ MigrationNext

OtherThanBench == <<focus, handoffVars, shadowVars, fleetVars, suiteVars>>

MCNext ==
  \/ focus = "handoff" /\ HandoffNext /\ UNCHANGED <<focus, shadowVars, fleetVars, benchVars, suiteVars>>
  \/ ShadowStep /\ UNCHANGED <<focus, handoffVars, fleetVars, benchVars, suiteVars>>
  \/ focus = "fleet" /\ FleetNext /\ UNCHANGED <<focus, handoffVars, shadowVars, benchVars, suiteVars>>
  \/ focus = "bench" /\ BenchNext /\ UNCHANGED OtherThanBench
  \/ focus = "suite" /\ SuiteNext /\ UNCHANGED <<focus, handoffVars, shadowVars, fleetVars, benchVars>>

(* Every worker thread is scheduled, and so is the thread that joins them. *)
MCSpec ==
  /\ MCInit /\ [][MCNext]_vars
  /\ \A w \in Workers : WF_vars(focus = "bench" /\ BenchStep(w) /\ UNCHANGED OtherThanBench)
  /\ WF_vars(focus = "bench" /\ (NextPhase \/ \E n \in Rejects : Report(n)) /\ UNCHANGED OtherThanBench)
=============================================================================
