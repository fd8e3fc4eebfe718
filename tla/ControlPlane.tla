----------------------------- MODULE ControlPlane ----------------------------
(***************************************************************************)
(* The router's deferred control tick (demiurge-router, lib.rs) over the   *)
(* pool rebalancer, the RCU routing table and the two admission buckets.   *)
(* Every routed request may run a tick; a tick gives up when another holds *)
(* the control lock.  A fleet replay injects pressure from a thread of its *)
(* own, which publishes and re-seeds after it has let the lock go.  Shares *)
(* and pressures are tenths.                                               *)
(***************************************************************************)
EXTENDS XdpLink, PoolPressure, FiniteSets

CONSTANTS
  Tickers,    \* threads that route requests
  Replayers,  \* threads that call actuate_from_trace_pressure
  NoThread,
  Signals,    \* pool pressures, in tenths
  Burst,      \* DATAPLANE_ADMIT_BURST
  Heartbeat,  \* DATAPLANE_RCU_HEARTBEAT_MS
  Cooldown,   \* POOL_REBALANCE_COOLDOWN_S
  MaxAge,     \* bound: ages saturate here
  MaxGen,     \* u64::MAX, where the generation saturates
  Windows     \* bound: trace windows a replayer injects

ASSUME ControlAssumption ==
  /\ NoThread \notin Tickers \union Replayers /\ Tickers \intersect Replayers = {}
  /\ {Burst, Heartbeat, Cooldown, MaxAge, MaxGen, Windows} \subseteq Nat
  /\ Burst > 0 /\ Heartbeat <= MaxAge /\ Cooldown <= MaxAge
  /\ Signals \subseteq [q_prefill : 0..10, q_decode : 0..10, kv_decode : 0..10,
                       slo_prefill : 0..10, slo_decode : 0..10, fp_share : 0..10]

Threads == Tickers \union Replayers
Hysteresis == 1                \* POOL_REBALANCE_HYSTERESIS, in tenths
Pi == 0..10

VARIABLES
  serving,  \* a process serves; FALSE before configure and after an exit
  mode,     \* admit_mode; KernelXdp and Hybrid act alike
  actuate,  \* rebalancer_actuation, by the environment or the builder
  armed,    \* the rebalancer's mode is CanActuate: the builder was called
  cast,     \* the threads that run
  upsets,   \* attaches and map accesses may fail, the process end, others act
  lock,     \* holder of the control mutex
  reb,      \* the rebalancer: pi, age of the last change
  table,    \* the RCU slot: generation, pi, age
  lastCap,  \* last_admit_capacity
  userCap,  \* capacity of the userspace bucket
  kernCap,  \* capacity in the kernel's map
  kernLost, \* history: the last kernel reseed failed; its error is dropped
  primed,   \* history: with_kernel_admit's seed is not in last_admit_capacity
  thr       \* per thread: where it is, and what it read

control == <<serving, mode, actuate, armed, cast, upsets, lock, reb, table, lastCap, userCap, kernCap, kernLost, primed, thr>>
vars == <<link, control>>

Idle == [at |-> "idle", leg |-> "tick", need |-> FALSE,
         snap |-> [gen |-> 0, pi |-> 5, age |-> 0], pi |-> 5, left |-> 0]

Upto(n, max) == IF n > max THEN max ELSE n
Clamp(n, lo, hi) == IF n < lo THEN lo ELSE IF n > hi THEN hi ELSE n

(* admit_capacity_for_pi, rounding to nearest. *)
CapFor(pi) == LET c == (Burst * Clamp(pi, 1, 10) * 2 + 10) \div 20 IN IF c < 1 THEN 1 ELSE c

UsesUserspaceAdmit(m, attached) == m = "userspace" \/ ~attached

(* A fleet replay runs beside the traffic. *)
replay == cast \intersect Replayers # {}

Abs(n) == IF n < 0 THEN -n ELSE n

(* maybe_update: hysteresis, cooldown, mode. *)
MayUpdate(star) ==
  /\ Abs(star - reb.pi) > Hysteresis
  /\ reb.age >= Cooldown
  /\ armed

TypeOK ==
  /\ LinkTypeOK
  /\ {serving, actuate, armed, upsets, kernLost, primed} \subseteq BOOLEAN /\ (armed => actuate)
  /\ mode \in {"userspace", "hybrid"}
  /\ lock \in cast \union {NoThread} /\ cast \subseteq Threads
  /\ reb \in [pi : Pi, age : 0..MaxAge]
  /\ table \in [gen : 0..MaxGen, pi : Pi, age : 0..MaxAge]
  /\ {lastCap, userCap, kernCap} \subseteq 1..Burst
  /\ \A t \in Threads : thr[t].at # "idle" => serving

ControlInit ==
  /\ serving = FALSE /\ mode \in {"userspace", "hybrid"} /\ lock = NoThread
  /\ actuate \in BOOLEAN /\ armed \in {FALSE, actuate} /\ cast \in SUBSET Threads /\ upsets \in BOOLEAN
  /\ reb = [pi |-> 5, age |-> MaxAge]
  /\ table = [gen |-> 0, pi |-> 5, age |-> 0]
  /\ lastCap = Burst /\ userCap = Burst /\ kernCap = Burst /\ kernLost = FALSE /\ primed = FALSE
  /\ thr = [t \in Threads |-> [Idle EXCEPT !.left = Windows]]

Init == LinkInit /\ ControlInit

----------------------------------------------------------------------------
(* configure, Router::new, with_admit_mode and with_kernel_admit.          *)

Fresh ==
  /\ serving' = TRUE /\ lock' = NoThread
  /\ reb' = [pi |-> 5, age |-> MaxAge]
  /\ table' = [gen |-> 0, pi |-> 5, age |-> 0]
  /\ lastCap' = Burst /\ kernLost' = FALSE
  /\ thr' = [t \in Threads |-> [Idle EXCEPT !.left = thr[t].left]]
  /\ UNCHANGED <<actuate, armed, cast, upsets>>

ConfigureUserspace ==
  /\ ~serving /\ life < MaxLives /\ life' = life + 1
  /\ Fresh /\ userCap' = Burst /\ primed' = FALSE
  /\ UNCHANGED <<kernel, shed, orphan, mode, kernCap>>

(* with_kernel_admit seeds both buckets for an even share and leaves       *)
(* last_admit_capacity at the burst of Router::new.                        *)
ConfigureKernel ==
  /\ ~serving /\ attach_at(TRUE)
  /\ Fresh /\ mode' = "hybrid" /\ primed' = TRUE
  /\ userCap' = CapFor(5) /\ kernCap' = CapFor(5)

(* An attach error ends the process. *)
ConfigureFails ==
  /\ upsets /\ ~serving
  /\ AttachFails \/ attach_at(FALSE)
  /\ UNCHANGED control

Exit ==
  /\ upsets /\ serving /\ serving' = FALSE /\ AbandonShed
  /\ lock' = NoThread /\ thr' = [t \in Threads |-> [Idle EXCEPT !.left = thr[t].left]]
  /\ UNCHANGED <<mode, actuate, armed, cast, upsets, reb, table, lastCap, userCap, kernCap, kernLost, primed>>

----------------------------------------------------------------------------
(* One step of a thread: where it goes next, with what it keeps.           *)

Goto(t, at) == thr' = [thr EXCEPT ![t].at = at]
Rest(t) == [Idle EXCEPT !.left = thr[t].left]
Frame == UNCHANGED <<serving, mode, actuate, armed, cast, upsets>>

(* deferred_control_tick: whether the rebalancer is needed is decided from *)
(* the table's age before the lock is tried.                               *)
Request(t, regret) ==
  /\ serving /\ t \in Tickers \intersect cast /\ thr[t].at = "idle"
  /\ thr' = [thr EXCEPT ![t].at = "try",
               ![t].need = regret \/ actuate \/ table.age >= Heartbeat]
  /\ Frame /\ UNCHANGED <<link, lock, reb, table, lastCap, userCap, kernCap, kernLost, primed>>

TickDropped(t) ==
  /\ thr[t].at = "try" /\ lock # NoThread
  /\ thr' = [thr EXCEPT ![t] = Rest(t)]
  /\ Frame /\ UNCHANGED <<link, lock, reb, table, lastCap, userCap, kernCap, kernLost, primed>>

(* Under the lock the predictor takes its sample; then the rebalancer's    *)
(* part if it is needed.  Telemetry counters are left out.                 *)
TickLight(t) ==
  /\ thr[t].at = "try" /\ lock = NoThread /\ ~thr[t].need
  /\ thr' = [thr EXCEPT ![t] = Rest(t)]
  /\ Frame /\ UNCHANGED <<link, lock, reb, table, lastCap, userCap, kernCap, kernLost, primed>>

(* Mutant: the tick goes on although the lock is taken. *)
TickUnlocked(t, s) ==
  LET star == compute_pi_star(s, reb.pi, 10) IN
  /\ thr[t].at = "try" /\ thr[t].need
  /\ lock' = t
  /\ reb' = [pi |-> IF MayUpdate(star) THEN star ELSE reb.pi,
             age |-> IF MayUpdate(star) THEN 0 ELSE reb.age]
  /\ thr' = [thr EXCEPT ![t].leg = "tick", ![t].pi = reb'.pi,
               ![t].at = IF MayUpdate(star) THEN "stamp" ELSE IF actuate THEN "sync" ELSE "beat"]
  /\ Frame /\ UNCHANGED <<link, table, lastCap, userCap, kernCap, kernLost, primed>>

TickLock(t, s) ==
  LET star == compute_pi_star(s, reb.pi, 10) IN
  /\ thr[t].at = "try" /\ lock = NoThread /\ thr[t].need
  /\ lock' = t
  /\ reb' = [pi |-> IF MayUpdate(star) THEN star ELSE reb.pi,
             age |-> IF MayUpdate(star) THEN 0 ELSE reb.age]
  /\ thr' = [thr EXCEPT ![t].leg = "tick", ![t].pi = reb'.pi,
               ![t].at = IF MayUpdate(star) THEN "stamp" ELSE IF actuate THEN "sync" ELSE "beat"]
  /\ Frame /\ UNCHANGED <<link, table, lastCap, userCap, kernCap, kernLost, primed>>

(* actuate_from_trace_pressure: the lock covers the rebalancer only.       *)
Actuate(t, s) ==
  LET star == compute_pi_star(s, reb.pi, 10) IN
  /\ serving /\ t \in Replayers \intersect cast /\ thr[t].at = "idle" /\ thr[t].left > 0
  /\ lock = NoThread
  /\ reb' = IF armed THEN [pi |-> star, age |-> 0] ELSE reb
  /\ thr' = [thr EXCEPT ![t] = IF actuate
               THEN [thr[t] EXCEPT !.at = "stamp", !.leg = "replay", !.pi = star, !.left = thr[t].left - 1]
               ELSE [thr[t] EXCEPT !.left = thr[t].left - 1]]
  /\ Frame /\ UNCHANGED <<link, lock, table, lastCap, userCap, kernCap, kernLost, primed>>

(* DataPlaneSnapshot::new over the generation read from the slot, and the  *)
(* store that publishes it.                                                *)
Stamp(t) ==
  /\ thr[t].at = "stamp"
  /\ thr' = [thr EXCEPT ![t].at = "store",
               ![t].snap = [gen |-> Upto(table.gen + 1, MaxGen), pi |-> thr[t].pi, age |-> 0]]
  /\ Frame /\ UNCHANGED <<link, lock, reb, table, lastCap, userCap, kernCap, kernLost, primed>>

Publish(t) ==
  /\ thr[t].at = "store"
  /\ table' = thr[t].snap
  /\ thr' = [thr EXCEPT ![t].at = IF thr[t].leg = "beat" THEN "link" ELSE "sync",
               ![t].snap = Idle.snap]
  /\ Frame /\ UNCHANGED <<link, lock, reb, lastCap, userCap, kernCap, kernLost, primed>>

(* maybe_sync_admit_for_pi and sync_admit_capacity: compare, store, seed   *)
(* the userspace bucket, seed the kernel's.                                *)
AfterSync(t) ==
  IF thr[t].leg = "replay" THEN Rest(t)
  ELSE [thr[t] EXCEPT !.at = IF thr[t].leg = "tick" THEN "beat" ELSE "end"]

SyncCompare(t) ==
  /\ thr[t].at = "sync"
  /\ IF CapFor(thr[t].pi) = lastCap THEN thr' = [thr EXCEPT ![t] = AfterSync(t)] ELSE Goto(t, "save")
  /\ Frame /\ UNCHANGED <<link, lock, reb, table, lastCap, userCap, kernCap, kernLost, primed>>

SyncSave(t) ==
  /\ thr[t].at = "save"
  /\ lastCap' = CapFor(thr[t].pi) /\ primed' = FALSE
  /\ Goto(t, "user")
  /\ Frame /\ UNCHANGED <<link, lock, reb, table, userCap, kernCap, kernLost>>

(* Mutant: the userspace bucket is not seeded while the kernel's is attached. *)
SeedUserUnlessAttached(t) ==
  /\ thr[t].at = "user"
  /\ userCap' = IF shed = NoShed THEN CapFor(thr[t].pi) ELSE userCap
  /\ Goto(t, "kern")
  /\ Frame /\ UNCHANGED <<link, lock, reb, table, lastCap, kernCap, kernLost, primed>>

SeedUser(t) ==
  /\ thr[t].at = "user"
  /\ userCap' = CapFor(thr[t].pi)
  /\ Goto(t, "kern")
  /\ Frame /\ UNCHANGED <<link, lock, reb, table, lastCap, kernCap, kernLost, primed>>

(* A map access that fails leaves the kernel's capacity as it was; the     *)
(* result is discarded.                                                    *)
SeedKernel(t) ==
  /\ thr[t].at = "kern"
  /\ \/ shed # NoShed /\ kernCap' = CapFor(thr[t].pi) /\ kernLost' = FALSE
     \/ upsets /\ shed # NoShed /\ kernCap' = kernCap /\ kernLost' = TRUE
     \/ shed = NoShed /\ UNCHANGED <<kernCap, kernLost>>
  /\ thr' = [thr EXCEPT ![t] = AfterSync(t)]
  /\ Frame /\ UNCHANGED <<link, lock, reb, table, lastCap, userCap, primed>>

(* Mutant: the heartbeat re-publishes the share of the table. *)
BeatTable(t) ==
  /\ thr[t].at = "beat"
  /\ IF table.age >= Heartbeat
       THEN thr' = [thr EXCEPT ![t].at = "stamp", ![t].leg = "beat", ![t].pi = table.pi]
       ELSE Goto(t, "end")
  /\ Frame /\ UNCHANGED <<link, lock, reb, table, lastCap, userCap, kernCap, kernLost, primed>>

(* The heartbeat: the age is read again under the lock.                    *)
Beat(t) ==
  /\ thr[t].at = "beat"
  /\ IF table.age >= Heartbeat
       THEN thr' = [thr EXCEPT ![t].at = "stamp", ![t].leg = "beat", ![t].pi = reb.pi]
       ELSE Goto(t, "end")
  /\ Frame /\ UNCHANGED <<link, lock, reb, table, lastCap, userCap, kernCap, kernLost, primed>>

(* check_kernel_admit_link: a query that fails counts as a dead link.      *)
CheckLink(t) ==
  /\ thr[t].at = "link"
  /\ \/ shed # NoShed /\ link_alive(shed) /\ UNCHANGED link
     \/ shed # NoShed /\ DropShed
     \/ shed = NoShed /\ UNCHANGED link
  /\ Goto(t, IF actuate \/ shed' # NoShed THEN "sync" ELSE "end")
  /\ Frame /\ UNCHANGED <<lock, reb, table, lastCap, userCap, kernCap, kernLost, primed>>

TickEnd(t) ==
  /\ thr[t].at = "end"
  /\ lock' = NoThread
  /\ thr' = [thr EXCEPT ![t] = Rest(t)]
  /\ Frame /\ UNCHANGED <<link, reb, table, lastCap, userCap, kernCap, kernLost, primed>>

(* Time passes for every age, that of a stamped and unpublished snapshot too. *)
Pass ==
  /\ serving
  /\ reb' = [reb EXCEPT !.age = Upto(@ + 1, MaxAge)]
  /\ table' = [table EXCEPT !.age = Upto(@ + 1, MaxAge)]
  /\ thr' = [t \in Threads |-> IF thr[t].at = "store"
                                 THEN [thr[t] EXCEPT !.snap.age = Upto(@ + 1, MaxAge)] ELSE thr[t]]
  /\ Frame /\ UNCHANGED <<link, lock, lastCap, userCap, kernCap, kernLost, primed>>

Kernel == upsets /\ External /\ UNCHANGED control

Configure == ConfigureUserspace \/ ConfigureKernel \/ ConfigureFails

Step(t) ==
  \/ TickDropped(t) \/ TickLight(t) \/ Stamp(t) \/ Publish(t) \/ SyncCompare(t) \/ SyncSave(t)
  \/ SeedUser(t) \/ SeedKernel(t) \/ Beat(t) \/ CheckLink(t) \/ TickEnd(t)
  \/ \E s \in Signals : TickLock(t, s)

Arrive(t) == \E regret \in BOOLEAN : Request(t, regret)

Next ==
  \/ Configure \/ Exit \/ Kernel \/ Pass
  \/ \E t \in Tickers : Arrive(t)
  \/ \E t \in Replayers, s \in Signals : Actuate(t, s)
  \/ \E t \in Threads : Step(t)

Spec == Init /\ [][Next]_vars

(* Time passes, requests keep arriving while a process serves, and a       *)
(* thread that is in a tick goes on: what the operating system gives.      *)
Fairness ==
  /\ WF_vars(Pass)
  /\ \A t \in Threads : WF_vars(Step(t))
  /\ \A t \in Tickers : WF_vars(Arrive(t))

FairSpec == Spec /\ Fairness

----------------------------------------------------------------------------
(* Without a replay, every publish moves the table one generation on:      *)
(* reading the generation and storing its successor are two steps, and     *)
(* only the control lock keeps two ticks from publishing the same one.     *)
GenerationGrows ==
  [][ \A t \in Tickers : ~replay /\ thr[t].at = "store" /\ thr'[t].at \in {"sync", "link"} =>
        table'.gen = Upto(table.gen + 1, MaxGen) ]_vars

(* Between ticks and without a replay the data plane routes by the share   *)
(* the rebalancer decided, whatever ticks were dropped on the way.         *)
TableFollows == serving /\ lock = NoThread /\ ~replay => table.pi = reb.pi

(* The capacity the buckets were given last. *)
Seed == IF primed THEN CapFor(5) ELSE lastCap

(* Between ticks and without a replay, a share the rebalancer has set is   *)
(* the one last_admit_capacity was noted for, and both buckets hold what   *)
(* was noted: the userspace bucket, and the kernel's unless the last       *)
(* update of its map failed.  Before the first note of a process that      *)
(* attached the program they hold the seed of with_kernel_admit instead,   *)
(* and keep it if the first share's capacity is the burst: the comparison  *)
(* with last_admit_capacity then finds nothing to do.                      *)
SeedFollows ==
  serving /\ lock = NoThread /\ ~replay =>
    /\ reb.pi # 5 => lastCap = CapFor(reb.pi)
    /\ userCap = Seed
    /\ shed # NoShed /\ ~kernLost => kernCap = Seed

(* Admission is on in one place: the bucket of userspace, or this          *)
(* process's program on the interface.                                     *)
Gated == UsesUserspaceAdmit(mode, shed # NoShed) \/ \E m \in Modes : slots[m] # 0 /\ slots[m] = shed.prog

(* A process never stays without admission: when the program is removed or *)
(* replaced behind the router's back, a heartbeat tick finds out and the   *)
(* userspace bucket takes over, unless the process ends first.  The id of  *)
(* the attached program has to be known, and actuation off: a tick that    *)
(* has just published a new share skips the heartbeat.                     *)
AdmissionRestored == (serving /\ ~Gated /\ shed.prog # 0 /\ ~actuate) ~> (Gated \/ ~serving)

(* The share a replay left unpublished, because its store raced with a     *)
(* tick's, reaches the data plane: the next heartbeat publishes it.        *)
TableConverges == serving ~> (table.pi = reb.pi \/ ~serving)

(* What DEMIURGE_REBALANCER_ACTUATE is documented to do: with actuation on *)
(* and a sustained imbalance the share that is published moves.            *)
ActuationPublishes == (serving /\ actuate) ~> (table.pi # 5 \/ ~serving)
=============================================================================
