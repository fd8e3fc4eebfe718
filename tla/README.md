# Demiurge in TLA+

Demiurge is a router in front of two pools of LLM backends, one for prefill and
one for decode. A connection is admitted, its HTTP head read, and the request is
either proxied to one backend or *disaggregated*: prefill runs on one backend,
reports the KV cache it produced, the router reserves room for it, chooses a
decode backend and proxies the client there.

This directory models the router and the tools that judge it, checks the models
with TLC on small instances, and proves the most important results with TLAPS
for every instance.

## 1. Inventory

| Part | State | Operations that change it | What makes it hard |
|---|---|---|---|
| KV reservation ledger, `demiurge-control/src/lib.rs` | map of entries, fleet total, per-source totals, metrics, guards | `try_reserve_from`, `release`, guard drop, `resolve_migration`, `reclaim_expired` | sums kept in three places; the sweep unlocks between collecting and releasing |
| Userspace admit bucket, `demiurge-dataplane/src/admission.rs` | `tokens`, `capacity` | `try_admit`, `release`, `reseed` | lock-free loops; two-word reseed |
| Kernel admit-shed, `bpf/admit_shed.bpf.c`, `xdp_linux.rs` | map value shared by all CPUs; the program on the interface | lazy refill, decrement-first take, map rewrite; attach, pin, query, detach | every access races with every CPU, with userspace and with administrators |
| Serving loop, `demiurge-router/src/serve.rs` | slot count, worker queues, pump queue, inflight counts | accept, dispatch, `handle_conn`, `proxy_to_backend`, pump threads | exits from every stage, worker panics, copies that outlive their connection |
| Byte forwarder, `forwarder_io_uring.rs`, `http.rs` | streams | head read, header parse, `copy_stream` | heads split over reads, caps, short writes, errors taken for ends |
| Disaggregated request, `routing.rs`, `serve.rs` | id counter, ledger, hand-off registry | route, prefill completion, placement, proxy end | concurrent requests over shared ledger and registry |
| Hand-off registry, `demiurge-handoff` | descriptors, two rings of transfer samples | `publish`, `take`, `record_transfer`, summary | two locks for one fact; answers that do not parse |
| Control tick and RCU table, `router/src/lib.rs`, `rcu.rs`, `rebalancer.rs` | π, generation, last capacity, kernel link | `deferred_control_tick`, `actuate_from_trace_pressure`, `sync_admit_capacity` | `try_lock`; read-then-publish; a replay outside the lock; fallback window |
| State plane, `demiurge-state` | snapshot | `update_snapshot`, `apply_gossip`, `heal_merge` | copy-on-write without exchange; late and repeated gossip |
| Cache-domain authority, `demiurge-auth` | groups | `register_template`, key resolution | warmth visibility across re-registration |
| Selection and pairing, `backend.rs`, `routing.rs`, `pairing.rs`, over `demiurge-cost` | inflight counts, latency averages | scan of a pool, `observe`, joint pairing, barriers | costs that change while they are compared |
| Corrector, migration, predictor, `demiurge-control` | stage; rings; a cutover | `evaluate`, `quiesce`, `record` | long call sequences; boundary values |
| Fleet pilot and replay, load bench, harden verify, `xtask` | counters, gate, report files | load, replay, worker phases, merge, verify | condition variables, killed processes, stale files, two verdicts on one run |

How they interact: the serving loop asks the admit bucket (or relies on the
kernel one), then the router for a route; a disaggregated route goes through the
ledger and the registry; every route triggers a control tick, which may publish a
new π and reseed both buckets; backend selection reads inflight counts and the
state plane's snapshot; the tools drive a router and read its metrics.

`PROJECT.json` lists every part with its status, and every hazard at the line
where it bites with the properties that cover it.

## 2. Modules

| Module | Models | Notes |
|---|---|---|
| `KvBytes` | | sum of the bytes of a set of entries, as the number of byte cells they own; this form has no recursion and can be proved about |
| `KvBudget` | the ledger's promise | abstract: grants of bytes to ids, never above the fleet or a source's limit, revoked whole |
| `ReservationLedger` | `control/src/lib.rs` | implements `KvBudget` |
| `AdmitBucket` | `admission.rs`, called as in `admit_conn` and `AdmitGuard` | one action per atomic access |
| `XdpAdmit` | refill and take of the BPF program, and the map writes of `xdp_linux.rs` | one action per memory access |
| `XdpLink` | attach, pin, query and drop of `xdp_linux.rs` | interface and administrators as environment |
| `PoolPressure`, `ControlPlane` | π*, rebalancer, control tick, RCU table, capacity sync, fallback, process start and exit | composes `XdpLink` and `PoolPressure` |
| `ConnServe` | `serve.rs` | acceptor, workers, pump pool, one-shot reverse threads |
| `ProxyStream` | head read, header parse and forward copy, on both I/O paths | bytes are symbols |
| `RequestFlow` | `on_prefill_complete`, `handle_disaggregated`, `publish` | composes `ReservationLedger` by `INSTANCE`: its ledger steps *are* that module's actions |
| `CacheDomain`, `StatePlane` | `demiurge-auth`; `demiurge-state` | `StatePlane` extends `CacheDomain`: salted warmth lives in snapshots |
| `CostModel`, `Selection` | `demiurge-cost`; choice of backends | costs are read one by one while they change |
| `HandoffLog` | answer parsing, registry and sample rings of `demiurge-handoff` | |
| `Samples`, `ShadowLoops` | order statistics; predictor, corrector, migration | loops that watch and do not steer |
| `FleetReplay` | `fleet_pilot.rs`, `fleet_sim.rs`, the live replay of `xtask` | |
| `BenchRun`, `BenchSuite` | one load scenario; the bench commands as processes | |
| `ReservationLedgerProofs` | | proofs about `KvBytes` and `ReservationLedger` |
| `AdmissionProofs` | | proofs about `AdmitBucket` and `XdpAdmit` |
| `ConnServeProofs`, `RequestFlowProofs`, `SelectionProofs` | | proofs about the module each is named for |
| `PlaneProofs` | | proofs about `ControlPlane` with `XdpLink`, and `StatePlane` with `CacheDomain` |
| `SequenceProofs` | | proofs about `ProxyStream`, `HandoffLog` and `BenchSuite` |
| `SamplesProofs` | | proofs about `Samples`, `ShadowLoops` and `BenchRun` |
| `MC*` | | instances for the runs; three of them put modules that share no variable side by side, and a behaviour exercises one of them |

Operators whose comment starts with "Mutant" are wrong versions of the
definition that follows them. They are used by no specification; replacing the
definition by one of them must break the property named for it in
`PROJECT.json`, which shows that the property can fail.

### ReservationLedger

`try_reserve_from` and `release_inner` hold the `reservations` mutex for their
whole body, so each is one action (`Reserve`, `RejectZero`, `RejectDuplicate`,
`RejectOverCapacity`, `ReleaseInner`). `reclaim_expired` is not atomic:
`SweepCollect` takes the expired ids and `SweepRelease` releases them one at a
time, interleaved with everything else. A caller holds at most one
`ReservationGuard`; a pair of callers may resolve a migration. Ids in `Reusable`
are chosen by callers, who may repeat them; the others are handed out once, as
`RequestId::new` does for the router. The creation time
of an entry is abstracted to whether its TTL has passed. `Expire` may happen at
any later moment, which covers the sweep's reading the clock before it takes the
lock. 64-bit sums are `0..U64Max` with the code's saturation. The per-source
limit is a quarter of the capacity rounded up. The code computes it in `f64`,
exact below 2^53 bytes.

### AdmitBucket, XdpAdmit

A load, an exchange and a store are separate steps; weak exchanges may fail
spuriously. Memory is sequentially consistent: each algorithm relies on the
modification order of single words and, where it reads two words, the model
already lets any other step come between. In `XdpAdmit` each CPU is a frame of
the program (`at`, the value it read, the credit it computed); userspace
overwrites the map value word by word, since programs on other CPUs may see it
half written. Time is a bounded counter with `Second` ticks to a second.

### XdpLink, ControlPlane

An interface has one program slot per mode (driver or generic) and may lack a
driver hook, refuse the program, or report no program id. `attach_at` asks for
the driver and falls back to the generic mode; a handle remembers its mode label,
interface index and program id; a drop detaches. A program attached through netlink stays when its process ends without
a drop, so `life` numbers the processes and `orphan` marks what was left behind.
Administrators detach or replace programs and the interface may go away.

A request thread passes through the steps of `deferred_control_tick`: `try_lock`
(or give up), the rebalancer with hysteresis and cooldown, read and store of the
table, sync of the capacities, the heartbeat, the liveness check and the fallback
to the userspace bucket. A replayer runs `actuate_from_trace_pressure`, which
publishes and reseeds *after* it has let the lock go. Shares and pressures are
tenths, rounded once, at the end of `compute_pi_star`. Two history variables say
what the buckets were last given: `primed`, that the seed is still the one of
`with_kernel_admit`, which does not store `last_admit_capacity`; `kernLost`, that the
last update of the kernel's map failed.

### ConnServe

`Accept` is `try_conn_slot`. Only the acceptor adds to the slot count, so a
refused add and sub are one step. The offer loop of `dispatch_conn` is `Enqueue`,
`QueueFull`, `QueueDisconnected` and `ShedAllFull`. A worker moves its connection
through the stages of `handle_conn`; `Return` is the end of `handle_conn` on any
path, with the drops of the inflight guard and of the slot. What the bucket,
a peer or the route decides is a free choice at the step that asks. `SpawnPanics`
is `thread::spawn` failing in `dispatch_prefill` or for a one-shot reverse
thread: the worker unwinds and its whole queue is dropped. After a
`QueueDisconnected` the accept loop has ended and the workers finish what they
have. The exit of the process that follows is not modelled.

### ProxyStream

One connection. The client sends and closes when it likes; every read returns any
part of what is there. Header lookups are the scans of `http.rs` over a stream of
symbols (a header name, a digit, a line end, body). Two behaviours of the code
lose bytes and are part of the model: a write that takes less than it is given is
not repeated, and a head longer than `MAX_HEAD` is cut. `StreamIntact` claims
nothing after either. Every read and write may fail. The io_uring session takes a
failed read for the end of the stream, in the head as in the copy, and the error of
`io::copy` is dropped; the history variable `cut` says which of these happened. The
scans go over everything that was read with the head, so a header name that only the
body spells is taken from the body, and the streams include bodies that spell names.
The io_uring session sees the end of a head only at the end
of a read, so `HeadReadEnds` asks, on that path, for a head that nothing follows.

### RequestFlow

A handler waits for the prefill thread it started, so the two are one process.
There is no sweeper, because no code of the router calls `reclaim_expired`. The
`DuplicateRequest` answer of the ledger is not an action here: ids come from a
counter and are never repeated. A router without a KV pool reserves nothing and
publishes nothing and is outside this module.

### CacheDomain, StatePlane

A publisher loads the snapshot, edits a copy and stores it, with no lock and no
exchange between (`Load`, `Store`). Edits are `RecordWarmth`, `RecordSalted`,
`ApplyGossip`, `HealMerge` and `BumpGeneration`. `PublishSnapshot`
replaces everything at once. Gossip is a set of messages that
are never removed: they may come late, twice or not at all. A full warmth map
takes no more entries; which of several still fit is left open. Groups are registered and
replaced while warmth made under the old ones is still held. Keyed hashing is
taken to be injective, so a salted block is the pair of block and key. The router
itself records plain blocks only; `RecordSalted` is the library's `insert_salted`. A
snapshot's `kv_capacity_bytes`, which no edit changes after the seat is made, is left out.
`settled` and `made` are history variables: what was published alone, and who
made an entry under which authority.

### CostModel, Selection

A cost is a sum of logarithms in the code; the model keeps tenths, with a table
for `ln` that is a constant (`LnTable`): anything that starts at 0, does not fall
and stays far below the logarithm of `f64::MAX`. Numbers beyond the table have the
logarithm of its last entry. A scan reads the cost of the best candidate so far and of the next one
in separate steps; other requests commit, finish and report walls in between.
`told` is the history of the measured walls. Backends are told apart by label, as
in the code, and the labels of a configuration are taken to be distinct, which the
parser of a pool does not enforce.

The pairing monitor runs in the control tick of a placement, under the control lock
(`ticked`: who has had its tick). It is modelled read by read (`mon`): the scan for the
greedy prefill backend, the scan for the decode backend that goes with it, then two
reads for the cost of the greedy pair and of every other pair. Loads and averages
change between any two of them, and `mon.calm` says whether one did.

`CalmOptimal`, the part of `ChoiceSound` about undisturbed scans, is stated for
pools with at least one usable claim. Among candidates whose claims are *all*
broken the order need not be the one of their costs: `selection_ln`, the short cut
for a candidate without barrier and reward, scales the logarithm of `f64::MAX` by the
capacity share as it is, and `service_cost` clamps the product first. With a share
that raises costs, a cold backend is ranked dearer than a warm one that is loaded
more than its warmth makes up for. Of such pools `ChoiceSound` says only that they are
the ones in which a broken claim is chosen.

`Place` has the fall-backs of `on_prefill_complete`: the decode pool or, when it is
empty, the colocated one.

### HandoffLog, Samples, ShadowLoops

`HandoffLog` has the header parser of a prefill's answer, the registry, and the
two rings of samples: sizes and walls are pushed under two locks, the second
taken while the first is held, and a reader clones one ring after the other.
`Samples` says what stands at index `i` of the sorted samples by counting: at most
`i` are less and more than `i` are not greater. Nothing is sorted, and the proofs
need no induction over a sort.
`ShadowLoops` has the predictor's ring and percentiles, the corrector's shadow
ring and its three stages, and the quiesce loop of a migration pass by pass. Sums of
bytes here stay far below 64 bits in the code and are plain numbers.

### FleetReplay, BenchRun, BenchSuite

`FleetReplay` loads a trace line by line, computes the shadow share of each
window, runs the windows with any loss, and judges. Correlations are compared in
squared integer form. `BenchRun` has worker threads behind the gate with its
condition variable, spurious wake-ups included, and both verdicts on the counts:
the runner's, which decides the exit, and the report's. `BenchSuite` has the
commands as processes that communicate through files and may be killed between
any two steps. `load-bench` runs every due scenario in a child, which writes its
report, fails with nothing written, or is killed while it writes; the parent collects
the files, merges them and fails if a child did. `load-bench --ci` and `--scenario`
are one process, which writes nothing if a scenario cannot be set up. The gates of a
scenario are strict by the mode (`Strict`) or by the scenario itself (`Enforced`).
`harden-verify` runs the suites and, if asked to, the load bench, and
judges each scenario by the first report that has it, by a rule coarser than the
gates.

The two verdicts of a load scenario are different functions. `ReportSound` claims
the direction that matters, for scenarios whose errors are not split into
graceful and hard ones. The gates other than those on errors are written twice in the
code with the same comparison and once in the model (`CommonFailures`), so of them it
says little. In other cases they disagree, as the definitions
`RunnerErrors` and `ReportErrors` show side by side:

- `max_hard` set, some graceful errors and no cap on them: the runner fails, the
  report passes.
- two graceful errors and a hard one with a cap of 2: the report passes, the
  runner fails.
- no errors, but more rejects than the cap: the runner passes, the report fails.

No document says that they agree, so this is not a finding.

## 3. Runs

Passing runs:

| Run | Instance | Shows |
|---|---|---|
| `ledger` | 3 callers, 2 sweepers, 3 ids of which one may be reused, sizes from 0 to over the capacity | `Accounting`: totals equal the sums over entries. `WithinLimits`: neither limit is ever exceeded, no wrap. `NoLeak`: every entry has a guard. `HeldLostOnlyByTtl`: a reservation that is held, under an id that is not reused, goes away only after its own TTL. `RefinesBudget`: refinement of `KvBudget` |
| `admit` | userspace: 3 connections, 2 tokens, a reseeder, capacities 0, 2, 3; kernel: 2 CPUs and userspace | `Conservation` until the first reseed. `NotWedged`, `OverAdmitBound` throughout. `RateLimit`: SYNs passed ≤ one burst plus the credited time, and no time is credited before it has passed. `DipBound` |
| `serve` | 4 connections, 2 workers, 3 slots, 1 pump thread, errors and panics | `SlotsOwned`, `InflightExact` on every exit path. `Drains`: without a fault, every slot taken is given back |
| `flow` | 3 handlers, 3 requests, 2 sources | `SessionsReserved`: reservations follow sessions exactly. `DecodeHasHandoff` |
| `control` | one ticker while the interface and the process are upset; two tickers; a ticker beside a replay that actuates | `NoStrayProgram`: no drop leaves a program behind. `TableFollows`: the table has what the rebalancer decided. `SeedFollows`: the buckets have what was noted, but for the seed of a process start. `GenerationGrows`. `AdmissionRestored`: a lost program is noticed and the userspace bucket takes over. `TableConverges`: what a replay left unpublished is published |
| `request_path` | 2 publishers, 2 seats, 2 tenants and a group; 2 requests over 2+2 backends; streams of up to 10 symbols on both I/O paths, with reads and writes that fail | `Durable`, `Isolated`, `HealConverges` of the state plane; `ChoiceSound`, `EwmaExact`, `RegretBounded` of selection; `ClassifiedWhole`, `StreamIntact`, `HeadReadEnds` of the byte path |
| `tooling` | 3 transfers; rings of 2, 3 and 11; traces of 3 windows; 3 bench workers in 2 phases; 2 bench commands in a row | `ClaimFromHeaders`, `TransfersPaired`; `PredictorCovers`; `StageEarned`; `StallCovered`; `ShedNeverHelps`; `CountsExact`, `ReportSound`, `WorkersJoin`; `ExitHonest` |

The less obvious of these properties:

- `Durable`. An update can be lost to a publisher that is between its load and
  its store. What was published while nobody else was publishing stays, under any
  later overlap, late gossip and heals, until `publish_snapshot` replaces the whole.
- `Isolated`. A request sees warmth another tenant made only if both were
  members with the right template, each at its own time, however often groups
  were replaced between.
- `ChoiceSound`. A backend with a broken claim is chosen only if all are broken.
  If nothing changed during the scan and some claim is usable, the choice is the
  first of the cheapest candidates.
- `RegretBounded`. A sample that nothing disturbed puts the greedy pair at most the
  transfer penalty above the best pair, and never below it. A disturbed sample compares
  costs of different moments and can be anything; nothing is claimed of it.
- `SeedFollows`. Between ticks the share the rebalancer set is the one whose
  capacity was noted, and both buckets hold that capacity, the kernel's unless its last
  update failed. Exception: a process that attached the program seeds both buckets for
  an even share without noting it, and they keep that seed until the first note.
- `ClassifiedWhole`. Every name the head has is read with the head's value, however
  reads cut the stream and whatever the body says. The whole classification is the
  head's, unless bytes behind the blank line spell a name the head lacks. Not claimed
  for a head cut by `MAX_HEAD` or by a failed io_uring read.
- `StreamIntact`. The backend gets the client's bytes in order and without a gap,
  whatever fails; it gets all of them if no error of the copy was taken for its end.
- `StageEarned`. The corrector is out of shadow only on the strength of the last
  window judged, and in production only if the one before was as good.
- `StallCovered`. A cutover commits only if what is left can be moved within half
  an inter-token latency.
- `ShedNeverHelps`. A failing replay does not pass by answering 503.
- `ExitHonest`. An isolated `load-bench` that exits with success ran every scenario
  that was due itself, each once, with its gates green wherever they are strict. The same is
  true of the load run of `harden-verify`. Reports left by earlier or killed commands
  never count. Nothing is claimed of `harden-verify` without a load run, which
  judges what it finds.

Runs that show a disagreement between the code and what the repository says of
it. `PROJECT.json` quotes the sentence in each case:

| Run | What happens |
|---|---|
| `bucket_stale_release` | A release that read the old capacity finishes after a reseed to a smaller one: more tokens than capacity. |
| `xdp_overfill` | Three CPUs win successive refill quanta and then clamp against the same token count: three times the capacity, not "capacity plus one in-flight quantum". |
| `serve_orphans` | An io_uring forward copy fails: the slot is free and the reverse thread still runs, so `max_conns` does not cap these threads. |
| `flow_ttl` | A request whose decode hangs keeps its reservation past the TTL, since no code in the router runs the sweep. |
| `control_actuation` | `DEMIURGE_REBALANCER_ACTUATE` sets a flag of the router, but the rebalancer is built in shadow mode and `main.rs` never arms it: π never moves. |

Not a run, because the model would only restate it: `HandoffRegistry::take` has no
caller in the router, so every placed request leaves its descriptor in the
registry, while `demiurge-handoff/src/lib.rs` says "prefill publishes, decode
consumes". Nor the exception in `SeedFollows`, which the property states itself:
`with_kernel_admit` (`router/src/lib.rs`) seeds both buckets for an even share while
the noted capacity is still the whole burst, so `maybe_sync_admit_for_pi` reseeds
neither if the first share it is given has the capacity of the burst, while `design/topologies/README.md` says "Both buckets are **reseeded together**
on π actuation so fallback capacity matches kernel".

### Bounds

Each instance is the smallest in which the cases of its module meet: more callers
than capacity for contenders to be refused, two sweepers so that an id is
collected twice, one queue place per worker and one pump thread so that every
queue fills, a request size above every limit, two processes so that one meets
what the other left on the interface, two publishers so that one loses an update,
two commands so that the second finds files of the first. `MaxCount`, `MaxShed`,
`MaxReseeds`, `MaxSyns`, `MaxTime`, `MaxRequests`, `MaxLives`, `MaxTold`,
`Windows` (pressure windows a replay injects), `MaxSeen`, `MaxWindows` and
`MaxCommands` bound what the code lets grow; they stand in the guards of the
actions that count, and ages saturate at `MaxAge`. `control` leaves interference
out of the casts with two threads, and `request_path` uses one publisher and no
gossip when groups are configured, since the full products are too large for TLC;
for the same reason the pairing monitor takes samples in one of the setups of the pools
only (`SelectionBound`).
The safety properties of those modules are proved without these restrictions. When a bound is reached, or every connection is
closed, nothing is left to do, so the runs other than `ledger`, where a sweep can
always start, do not check for deadlock. Symmetry is used over callers, ids,
connections and CPUs, and not in the runs with liveness properties.

### Fairness

- `serve`: the acceptor, each worker and each pump are threads, so each step they
  can take on their own is weakly fair. The code sets no socket timeout, so
  progress of a connection depends on its peers: it is assumed that a head read, a
  prefill and a connect come to an outcome, that a client whose response is being
  delivered ends its half, and that a backend whose half was shut down ends its own.
- `flow_ttl`: only the router's own steps are fair; a decode may hang, and that is
  the case the TTL is there for.
- `control`, `control_actuation`: threads are scheduled, time passes, and requests
  keep arriving (ticks run only on requests). Configuring, exits, replays and
  administrators are not fair.
- `request_path`: a head read goes on while there is something to read. The client
  owes nothing.
- `tooling`: every bench worker that can go on does, and so does the thread that
  joins them. Wake-ups of one particular waiter are not assumed.

## 4. Proofs

| Theorem | States | Assumes |
|---|---|---|
| `ReservationLedgerProofs!TypeCorrect` | `[]TypeOK` | the ledger's assumptions |
| `ReservationLedgerProofs!AccountingExact`, `LimitsHold` | `[]Accounting`, `[]WithinLimits` | same |
| `ReservationLedgerProofs!ReservationsGuarded` | `[]NoLeak` | same |
| `ReservationLedgerProofs!TtlOnlyLoss` | `HeldLostOnlyByTtl` | same |
| `ReservationLedgerProofs!GuardsPaired`, `NoPhantom` | `[]GuardsOwnEntries`, `[]NoPhantomRelease` | no sweepers, as in the router |
| `ReservationLedgerProofs!BudgetImplemented` | `RefinesBudget` | the ledger's assumptions |
| `AdmissionProofs!TypeCorrect`, `NeverWedged` | `[]TypeOK`, `[]NotWedged` | `BucketAssumption` |
| `AdmissionProofs!TokensConserved`, `ShedsOnlyWhenFull` | `[]Conservation`, `NoEarlyShed` | same |
| `AdmissionProofs!OverAdmitLimited` | `[]OverAdmitBound` | same |
| `AdmissionProofs!DipsBounded` | `[]DipBound` | `XdpAssumption` |
| `AdmissionProofs!RateLimited` | `[]RateLimit` | a refill rate other than 0, which turns the refill off |
| `ConnServeProofs!SlotsExact`, `LoadExact` | `[]SlotsOwned`, `[]InflightExact` | `ServeAssumption` |
| `RequestFlowProofs!SessionsExact`, `DecodesOwnHandoff` | `[]SessionsReserved`, `[]DecodeHasHandoff` | `FlowAssumption` |
| `RequestFlowProofs!RequestsUseLedger` | `Ledger!Spec`: the flow implements `ReservationLedger` | same |
| `PlaneProofs!ProgramsOwned` | `[]NoStrayProgram` | `LinkAssumption` |
| `PlaneProofs!TableCurrent`, `SeedCurrent` | `[]TableFollows`, `[]SeedFollows` | `ControlAssumption` |
| `PlaneProofs!GenerationsDistinct` | `GenerationGrows` | same |
| `PlaneProofs!SettledStays`, `RoutersConverge` | `[]Durable`, `[]HealConverges` | `PlaneAssumption`, `DomainAssumption` |
| `PlaneProofs!TenantsApart` | `[]Isolated` | same |
| `SelectionProofs!ChoicesSound`, `AveragesExact`, `RegretLimited` | `[]ChoiceSound`, `[]EwmaExact`, `[]RegretBounded` | `CostAssumption`, `SelectionAssumption` |
| `SequenceProofs!StreamDelivered` | `[]StreamIntact` | `ProxyAssumption` |
| `SequenceProofs!HeadsWhole` | `[]ClassifiedWhole` | same |
| `SequenceProofs!TransfersStayPaired`, `ClaimsFromHeaders` | `[]TransfersPaired`, `[]ClaimFromHeaders` | `HandoffAssumption` |
| `SequenceProofs!ExitsHonest` | `[]ExitHonest` | `SuiteAssumption` |
| `SamplesProofs!StallsCovered`, `StagesEarned`, `PredictionsCover` | `[]StallCovered`, `[]StageEarned`, `[]PredictorCovers` | `ShadowAssumption` |
| `SamplesProofs!CountsAreExact`, `ReportsSound` | `[]CountsExact`, `[]ReportSound` | `BenchAssumption` |

Each named assumption says what kind of value a constant has, that sets of threads,
connections or ids are finite, and which bounds the code keeps (a capacity below
`U64Max`, room for three barriers, a logarithm table that does not fall). TLC
evaluates all of them on the instances.

Ledger limits. `WithinLimits` is about the sums over the entries and is not
inductive: the code checks its running totals. `LedgerInv` adds that the totals
equal the sums (`Accounting`) and that the totals are within the limits
(`Limits`). A reservation passes the check on the totals, so on the sums. The
saturating sum cannot hide an overflow because the capacity is below `U64Max`.
That a reservation or a release moves the sum by exactly the entry's size comes
from the lemmas on `KvBytes`, by counting byte cells.

Ledger ownership. `OwnInv` speaks of the ids that are not reused. It says that
guards of such ids are distinct, that whatever a guard, an entry or a sweep's list
names has been drawn before, and that an id on a sweep's list, if it still has an
entry, is past its TTL. The last part needs the second: an id that is drawn now is
on nobody's list, so a new entry cannot be taken by an old sweep. For an id that
is reused this is false. `GuardsPaired` and `NoPhantom` have no run of their own;
`SessionsReserved` checks the same on the router's use of the ledger.

Bucket. `BucketType` adds that a capacity loaded by a release is never zero,
which is what keeps an empty bucket from being left empty by the last release.
`CapFresh` adds that, until the first reseed, a loaded capacity is the current one, so
the clamp never bites and the count is exact. `OverAdmitBound` is not inductive
either: between the first and the second store of a reseed its tokens are announced
and not yet in the bucket, so the bound that is proved counts every reseed under way.

Kernel bucket. `RateInv` counts what the map has issued: tokens in the map, SYNs let
through, tokens that CPUs took from an empty bucket and still have to put back, and
credits that CPUs have won by their exchange and not yet added. These, in clock
ticks, are covered by one burst and `last_refill_ns` until the first reseed. Owed credits are a set of
cells, CPU by token, so that they can be counted. `ClockSound` adds that every time
a CPU or userspace is about to write has passed.

Serving loop. `ServeInv` has three parts. `Typed` adds that no queue holds a
connection twice. `Located` says, stage by stage, where a connection is: with the
acceptor, in exactly one queue, or with exactly one worker. `Counted` says that
`live` is the number of connections between accept and close, and that each
backend's count is the number of connections proxied to it. `SlotsOwned` needs
`Located` because a panic drops a whole queue at once: the slots it gives back
are those of exactly the connections in it.

Request flow. `FlowInv` adds to the two properties that ids under way are distinct,
below the counter and, until the prefill has answered, unknown to the ledger, and
that a handler's guard is for its own entry exactly while it is in session.
`RequestsUseLedger` needs it for the steps on which the ledger's guards ask that an
id is fresh or that the guard is held.

Control plane. `LinkInv`: the interface holds only programs of processes started
so far or of others; one of ours is there only if there is a handle for the current
interface index or a process left its program behind. `TickInv`: while the process
serves and no replay runs, at most the lock's holder is past `try_lock`, the
table is what the rebalancer decided unless that thread is about to store it, and
the noted capacity is in both buckets unless that thread is about to seed them, the
seed of the process start is still there, or the kernel's update failed.
When the process does not serve every thread is idle.

State plane. `KeepInv`: what is settled is in the snapshot and in every copy that
has been loaded and not yet stored. It is preserved because every edit covers what
it loaded: no entry goes away and no generation goes back. `HealConverges` follows
from the type part of it: as long as the warmth of both sides fits, merging a seat
has one outcome (`OneWay`): the union of the warmth and the larger occupancy and KV
figure, whichever side merges. Merging the same remote again changes nothing.

Isolation. `MadeInv`: the key of an entry is shared if and only if its maker was authorised
for it, and otherwise belongs to its maker alone.

Selection. The cost proof shows that a broken claim costs at least `Floor` and a
usable one less, under any load, warmth, share and penalty, because the barriers of
a candidate are few and bounded and the logarithm of `f64::MAX` is far above them.
This is what makes the first part of `ChoiceSound` survive races: a scan that carries
a cost read before the load changed still has it on the right side of `Floor`.
`SelectionInv` says, of a scan under way, that its best is broken only if all
candidates seen are; that the cost it carries is on the side of `Floor` its best is
on; and that, while nothing disturbed it, its best is the first of the cheapest seen.
It also has that an inflight count is the number of requests proxied there, without
which a count could fall below zero and a logarithm have no argument, and that an
average has taken in every wall told. `RegretLimited` has an invariant of its own,
`PairInv`: while a sample is undisturbed, the prefill backend scanned is the cheapest so
far, so is the decode backend for it, the greedy cost is that of their pair, and the
lowest cost is at most that of every pair visited and is that of one. The bound
follows because the decode backend of the best pair was among those the greedy choice
had, at one penalty more at most.

Byte path. `StreamInv`: the head is a prefix of the stream, as long as what was read
until it is forwarded; after that, what the backend has, what is in flight and the
position read are consecutive pieces, as long as the head fitted and no write was
short. A failed read or write stops the copy and takes no piece out. For
`HeadsWhole`, `HeadInv` says that what is routed reaches the blank line unless it
was cut or the client sent none. A longer prefix then has the same first
occurrence of every name the head has, and the value behind it ends at its line,
within the head. A name the head lacks is found only if the bytes behind spell it,
so without one the classification is the head's.

Hand-off log. `RingInv`: the rings are equal, except that the holder of the first
lock has pushed its size only. `ReaderInv`: the walls have at least what a reader's
copy of the sizes has, but for what has been pushed out of a full ring since.

Shadow loops and benches. `MigrationInv` says that the decision of a finished
migration was taken on what was still dirty then. `CorrectorInv` ties the stage to
the last two windows judged, and `PredictorInv` the ring to the end of all that was recorded. What a percentile covers comes from
the lemmas on order statistics. `BenchInv` counts requests not yet sent as cells,
worker by index, so that the counts of a phase add up whichever worker is where;
`GateInv` has the number of requests inside. `SuiteInv` says that the results a
command has collected are those of a prefix of its due scenarios, each once, in
order and by this command, as long as no child failed.

Model-checked only:

- All liveness (`Drains`, `AdmissionRestored`, `TableConverges`, `HeadReadEnds`,
  `WorkersJoin`): fairness and `ENABLED` are out of the prover's reach.
- `ShedNeverHelps`: the gate compares totals and correlations that fold over the
  windows of a trace, and how a fold over a filtered sequence changes when one window
  does is an induction over data.

No operator is declared `RECURSIVE`. Sums, averages and decimal numbers are recursive
functions over the positions of a sequence. What is proved of sums and averages uses
that their equation has one solution, by the least position at which two would
differ. What the digits of a number add up to is not needed by any proof.

Of the type invariants, those of the ledger and the bucket are theorems, and those
of the other modules with proofs are part of the invariants above.

## 5. Not modelled

- Code generation, lint and report tooling of `xtask`: single-pass text
  transformations and statistics over benchmark output.
- The floating-point values of the cost model and of `kv_breakdown`: costs are
  tenths of a logarithm and overheads integer percentages.
- Packet parsing in the BPF program and the encoding of netlink messages: no
  state of the router depends on them.
- Hand-off transports, which report a duration and keep no state, and the RDMA
  shadow log, a ring that only feeds a report.
- The mix of requests inside a replayed window, mock backends, and printing.
- Two bench commands at once: they would share report files without a lock, and
  nothing in the repository runs them so.
- Banner, environment parsing other than the cache groups, and test helpers.
- The io_uring benchmark of forward decisions, and the byte scanning inside the
  header parsers.
