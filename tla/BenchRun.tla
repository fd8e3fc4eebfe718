------------------------------ MODULE BenchRun ------------------------------
(***************************************************************************)
(* One load scenario (xtask load-bench): workers that send requests behind *)
(* a gate on how many are in flight, what they count, and the two verdicts *)
(* on the counts: the runner's, which decides the exit status, and the     *)
(* report's.                                                               *)
(***************************************************************************)
EXTENDS Samples, FiniteSets

CONSTANTS
  Workers, RequestsPerWorker,
  MaxInflight,   \* 0: no gate
  Replies,       \* what a request may meet
  Times,         \* latencies
  Rejects,       \* what the ledger may have refused, the warm-up included
  Reserved,      \* what the ledger may hold when a worker looks
  Phases,        \* rounds of workers
  Scenarios,     \* thresholds of load-bench.toml
  Unset          \* an absent option

ASSUME BenchAssumption ==
  /\ {RequestsPerWorker, Phases} \subseteq Nat \ {0} /\ MaxInflight \in Nat
  /\ IsFiniteSet(Workers) /\ Times \subseteq Nat /\ Unset \notin Int

VARIABLES
  split,    \* whether the scenario tells a 503 from a failure (fleet replay)
  worker,   \* [at, left] of each
  phase,
  slots,    \* ConcurrencyGate
  ok, graceful, hard, lats, peak,
  result    \* ScenarioResult, once the workers have joined

benchVars == <<split, worker, phase, slots, ok, graceful, hard, lats, peak, result>>

Where(w) == worker[w].at
Inside == {w \in Workers : Where(w) = "inside"}

----------------------------------------------------------------------------
(* ConcurrencyGate.  The mutex is held from the test to the wait. *)

HasRoom == MaxInflight = 0 \/ slots < MaxInflight

Asks(w) == Where(w) = "woken" \/ (Where(w) = "ready" /\ worker[w].left > 0)

CanEnter(w) == Asks(w) /\ HasRoom

enter(w) ==
  /\ CanEnter(w)
  /\ slots' = slots + 1
  /\ worker' = [worker EXCEPT ![w].at = "inside"]
  /\ UNCHANGED <<split, phase, ok, graceful, hard, lats, peak, result>>

Wait(w) ==
  /\ Asks(w) /\ ~HasRoom
  /\ worker' = [worker EXCEPT ![w].at = "waiting"]
  /\ UNCHANGED <<split, phase, slots, ok, graceful, hard, lats, peak, result>>

(* A condition variable may also wake a waiter for no reason. *)
Spurious(w) ==
  /\ Where(w) = "waiting"
  /\ worker' = [worker EXCEPT ![w].at = "woken"]
  /\ UNCHANGED <<split, phase, slots, ok, graceful, hard, lats, peak, result>>

(* The slot is dropped at the end of the iteration; one waiter is woken. *)
Leaves(w) == [worker EXCEPT ![w] = [at |-> "ready", left |-> @.left - 1]]
drop_silent(w) == {Leaves(w)}  \* mutant: nobody is notified
drop(w) ==
  LET waiting == {v \in Workers : Where(v) = "waiting"} IN
    IF waiting = {} THEN {Leaves(w)} ELSE {[Leaves(w) EXCEPT ![v].at = "woken"] : v \in waiting}

----------------------------------------------------------------------------
(* Requests. *)

(* parse_http_status: the status line has to be in the first read. *)
parse_http_status(reply) == CASE reply = "200" -> 200 [] reply = "503" -> 503
                              [] reply = "500" -> 500 [] OTHER -> Unset

(* connect_router gives up after four attempts, which is the reply         *)
(* "refused"; "reset" fails a write or a read, "empty" is an early close,  *)
(* "torn" a status line in two reads.                                      *)
one_request(reply) ==
  IF reply \in {"refused", "reset", "empty"} THEN "hard"
  ELSE CASE parse_http_status(reply) = 200 -> "ok" [] parse_http_status(reply) = 503 -> "graceful" [] OTHER -> "hard"

Finish(w, reply, us, held) ==
  /\ Where(w) = "inside"
  /\ LET o == one_request(reply) IN
       /\ ok' = ok + IF o = "ok" THEN 1 ELSE 0
       /\ graceful' = graceful + IF o = "graceful" THEN 1 ELSE 0
       /\ hard' = hard + IF o = "hard" THEN 1 ELSE 0
       /\ lats' = IF o = "ok" THEN Append(lats, us) ELSE lats
       /\ peak' = IF o = "ok" /\ held > peak THEN held ELSE peak
  /\ slots' = slots - 1
  /\ worker' \in drop(w)
  /\ UNCHANGED <<split, phase, result>>

(* Latencies are pushed under a mutex, in any order; sorted afterwards. *)
percentile(s, p) == IF s = <<>> THEN 0 ELSE At(s, Lesser((Len(s) * p) \div 100, Len(s) - 1))

(* Mutant: the end-to-end runner counts only the failures. *)
Errors_hard_only == hard
Errors == graceful + hard

Joined == \A w \in Workers : worker[w] = [at |-> "ready", left |-> 0]
Spawned == [w \in Workers |-> [at |-> "ready", left |-> RequestsPerWorker]]

Planned == Cardinality(Workers) * RequestsPerWorker * Phases

NextPhase ==
  /\ Joined /\ phase < Phases
  /\ phase' = phase + 1 /\ worker' = Spawned
  /\ UNCHANGED <<split, slots, ok, graceful, hard, lats, peak, result>>

Report(rejects) ==
  /\ result = Unset /\ Joined /\ phase = Phases
  /\ result' = [total |-> IF split THEN ok + Errors ELSE Planned, ok |-> ok, errors |-> Errors,
                graceful |-> IF split THEN graceful ELSE Unset,
                hard |-> IF split THEN hard ELSE Unset,
                p50 |-> percentile(lats, 50), p90 |-> percentile(lats, 90), p99 |-> percentile(lats, 99),
                max |-> IF lats = <<>> THEN 0 ELSE At(lats, Len(lats) - 1),
                peak |-> peak, rejects |-> rejects]
  /\ UNCHANGED <<split, worker, phase, slots, ok, graceful, hard, lats, peak>>

----------------------------------------------------------------------------
(* Verdicts.  A gate with no threshold does not exist; "seen" holds the    *)
(* measurements of the scenario besides its counts, each one optional.     *)

Or(x, default) == IF x = Unset THEN default ELSE x
Ratio(n, d) == IF d = 0 THEN 0 ELSE (n * 10) \div d

UpperGates == {"accept_p99_ratio", "misroute_mean", "rdma_ratio_max"}
LowerGates == {"dataplane_pi", "rdma_ratio_min"}

(* The gates both verdicts have.  The code writes each of them twice, with *)
(* the same comparison.                                                    *)
CommonFailures(sc, r) ==
     {g \in UpperGates : sc.limit[g] # Unset /\ sc.seen[g] # Unset /\ sc.seen[g] > sc.limit[g]}
  \union {g \in LowerGates : sc.limit[g] # Unset /\ sc.seen[g] # Unset /\ sc.seen[g] < sc.limit[g]}
  \union {g \in {"rdma samples"} : sc.min_samples # Unset /\ Or(sc.samples, 0) < sc.min_samples}
  \union {g \in {"fleet"} : sc.fleet_gate # Unset /\ ~sc.fleet_gate}
  \union {g \in {"tail"} : sc.max_tail # Unset /\ r.p99 > 0 /\ Ratio(r.max, r.p99) > sc.max_tail}
  \union {g \in {"p99"} : sc.max_p99 # Unset /\ (r.ok = 0 \/ r.p99 > sc.max_p99)}
  \union {g \in {"kv peak"} : sc.capacity # Unset /\ sc.capacity > 0 /\ r.peak > sc.capacity}
  \union {g \in {"kv rejects min"} : sc.min_rejects # Unset /\ r.rejects < sc.min_rejects}
  \union {g \in {"errors min"} : sc.min_errors # Unset /\ r.errors < sc.min_errors}

(* load_bench_inner. *)
RunnerErrors(sc, r) ==
  IF sc.max_hard # Unset
  THEN \/ Or(r.hard, r.errors) > sc.max_hard
       \/ Or(r.graceful, 0) > 0 /\ {sc.max_rejects, sc.min_errors, sc.min_rejects} = {Unset}
  ELSE r.errors > 0 /\ (sc.max_rejects = Unset \/ r.errors > sc.max_rejects \/ r.rejects > sc.max_rejects)
RunnerFailures(sc, r) == CommonFailures(sc, r) \union {g \in {"errors"} : RunnerErrors(sc, r)}

(* Mutant: the rejects alone are held against the cap. *)
ReportErrorsLax(sc, r) ==
  \/ sc.max_hard # Unset /\ Or(r.hard, r.errors) > sc.max_hard
  \/ sc.max_rejects # Unset /\ r.rejects > sc.max_rejects
  \/ sc.max_rejects = Unset /\ r.errors > 0 /\ sc.max_hard = Unset

(* evaluate_scenario_gates. *)
ReportErrors(sc, r) ==
  LET left == Or(r.hard, IF r.errors > Or(r.graceful, 0) THEN r.errors - Or(r.graceful, 0) ELSE 0) IN
    \/ sc.max_hard # Unset /\ left > sc.max_hard
    \/ /\ sc.max_rejects # Unset
       /\ IF r.graceful # Unset
          THEN r.graceful > sc.max_rejects \/ r.rejects > sc.max_rejects \/ left > Or(sc.max_hard, sc.max_rejects)
          ELSE r.errors > sc.max_rejects \/ r.rejects > sc.max_rejects
    \/ sc.max_rejects = Unset /\ r.errors > 0 /\ sc.max_hard = Unset
ReportFailures(sc, r) == CommonFailures(sc, r) \union {g \in {"errors"} : ReportErrors(sc, r)}

----------------------------------------------------------------------------
BenchInit ==
  /\ split \in BOOLEAN
  /\ worker = Spawned /\ phase = 1
  /\ slots = 0 /\ ok = 0 /\ graceful = 0 /\ hard = 0 /\ peak = 0
  /\ lats = <<>>
  /\ result = Unset

BenchStep(w) == enter(w) \/ \E reply \in Replies, us \in Times, held \in Reserved : Finish(w, reply, us, held)

BenchNext ==
  \/ \E w \in Workers : BenchStep(w) \/ Wait(w) \/ Spurious(w)
  \/ NextPhase
  \/ \E n \in Rejects : Report(n)

BenchSpec == BenchInit /\ [][BenchNext]_benchVars

(* The workers always come to an end: a slot that is given back reaches a  *)
(* waiting worker, even if another one takes it first.                     *)
WorkersJoin == (Inside # {}) ~> (result # Unset)

(* The gate counts exactly the requests in flight and never lets in more   *)
(* than its limit, whoever is woken, for whatever reason, in any order.    *)
(* Every request sent is counted once, as answered or as an error; the     *)
(* latencies are those of the answered ones, and their order statistics    *)
(* are in order.                                                           *)
CountsExact ==
  /\ slots = Cardinality(Inside) /\ (MaxInflight > 0 => slots <= MaxInflight)
  /\ result # Unset =>
    /\ result.total = Planned /\ result.ok + result.errors = result.total
    /\ Len(lats) = result.ok
    /\ result.p50 <= result.p90 /\ result.p90 <= result.p99 /\ result.p99 <= result.max

(* A report of an end-to-end scenario that shows every gate green is of a  *)
(* run the runner passed.  (With split counts the two differ; see README.) *)
ReportSound ==
  (result # Unset /\ result.graceful = Unset) =>
    \A sc \in Scenarios : ReportFailures(sc, result) = {} => RunnerFailures(sc, result) = {}
=============================================================================
