-------------------------- MODULE ReservationLedger --------------------------
(***************************************************************************)
(* The fleet KV reservation ledger (demiurge-control, ReservationLedger    *)
(* and ReservationGuard) as its callers see it from several threads.       *)
(*                                                                         *)
(* try_reserve_from and release_inner hold the `reservations` mutex for    *)
(* their whole body, so each is one step.  reclaim_expired is not: it      *)
(* collects the expired ids under the mutex, drops it, and releases the    *)
(* collected ids one by one, so its steps interleave with everyone else's. *)
(***************************************************************************)
EXTENDS KvBytes, Sequences

CONSTANTS
  Sources,       \* labels of prefill backends
  NoSource,      \* source_label = None
  Holders,       \* callers; each holds at most one ReservationGuard
  NoGuard,       \* the caller holds no guard
  Sweepers,      \* threads that call reclaim_expired
  Sizes,         \* byte counts callers ask for, zero included
  CapacityBytes, \* capacity_bytes
  RecentSamples, \* RECENT_SAMPLES, the length of the ring of sizes
  Reusable,      \* ids callers choose themselves, maybe twice; the others come
                 \* from RequestId::new, which hands each out once
  MaxCount       \* bound: callers stop once a metric has counted this far

ASSUME IdsAssumption ==
  /\ NoGuard \notin RequestIds
  /\ NoSource \notin Sources
  /\ Reusable \subseteq RequestIds

ASSUME BytesAssumption ==
  /\ CapacityBytes \in Nat
  /\ CapacityBytes < U64Max
  /\ 1 < U64Max
  /\ RecentSamples \in Nat \ {0}
  /\ MaxCount \in Nat
  /\ Sizes \subseteq 0..U64Max

(* max_per_source: a quarter of the capacity rounded up, at least 1.  The  *)
(* code computes it in f64, which is exact below 2^53 bytes.               *)
MaxPerSource ==
  LET quarter == (CapacityBytes + 3) \div 4
  IN  IF quarter < 1 THEN 1 ELSE quarter

(* ReservationEntry.  `expired` abstracts `created`: it turns TRUE when the  *)
(* entry's age reaches KV_ABANDONED_SESSION_TTL_S.                           *)
Entry == [bytes : 1..U64Max, source : Sources \union {NoSource},
          expired : BOOLEAN]

ASSUME EntryAssumption ==
  /\ NoEntry \notin Entry
  /\ NoEntry \notin [bytes : 1..U64Max, source : Sources \union {NoSource}]

VARIABLES
  reservations,       \* the map, as a total function with NoEntry for absent
  reserved_bytes,     \* AtomicU64; read and written here as an integer
  source_outstanding, \* the map, with 0 for an absent label
  recent_sizes,       \* sizes of the latest reservations, oldest first
  admit_rejects,      \* metric kv_admit_rejects_total
  reservation_errors, \* metric kv_reservation_error
  guard,              \* request id of the guard each caller holds
  sweep,              \* ids each sweeper has collected and not yet released
  used                \* ids RequestId::new has handed out

ledger == <<reservations, reserved_bytes, source_outstanding,
            recent_sizes, admit_rejects, reservation_errors>>
vars == <<ledger, guard, sweep, used>>

(* Mutant: a wrapping add. *)
WrappingAdd(a, b) == (a + b) % (U64Max + 1)

SaturatingAdd(a, b) == IF a + b > U64Max THEN U64Max ELSE a + b

SaturatingSub(a, b) == IF b > a THEN 0 ELSE a - b

TypeOK ==
  /\ reservations \in [RequestIds -> Entry \union {NoEntry}]
  /\ reserved_bytes \in Int
  /\ source_outstanding \in [Sources -> Nat]
  /\ recent_sizes \in Seq(1..U64Max)
  /\ Len(recent_sizes) <= RecentSamples
  /\ admit_rejects \in Nat
  /\ reservation_errors \in Nat
  /\ guard \in [Holders -> RequestIds \union {NoGuard}]
  /\ sweep \in [Sweepers -> SUBSET RequestIds]
  /\ used \subseteq RequestIds

Init ==
  /\ reservations = [id \in RequestIds |-> NoEntry]
  /\ reserved_bytes = 0
  /\ source_outstanding = [s \in Sources |-> 0]
  /\ recent_sizes = <<>>
  /\ admit_rejects = 0
  /\ reservation_errors = 0
  /\ guard = [h \in Holders |-> NoGuard]
  /\ sweep = [w \in Sweepers |-> {}]
  /\ used = {}

----------------------------------------------------------------------------
(* try_reserve_from: one action per outcome, guarded in the order of the   *)
(* code's checks.  try_reserve is the case src = NoSource.                 *)

CallsReserve(h, id) ==
  /\ guard[h] = NoGuard
  /\ admit_rejects < MaxCount /\ reservation_errors < MaxCount
  /\ id \in Reusable \/ id \notin used

Draw(id) == used' = used \union ({id} \ Reusable)

OverFleet(bytes) == SaturatingAdd(reserved_bytes, bytes) > CapacityBytes

(* Mutant: the check leaves out the bytes asked for. *)
OverSourceBefore(src, bytes) ==
  src \in Sources /\ source_outstanding[src] > MaxPerSource

OverSource(src, bytes) ==
  /\ src \in Sources
  /\ SaturatingAdd(source_outstanding[src], bytes) > MaxPerSource

(* Every AdmitError leaves the map and the totals as they were. *)
Refused(id, rejects) ==
  /\ Draw(id)
  /\ admit_rejects' = admit_rejects + rejects
  /\ UNCHANGED <<reservations, reserved_bytes, source_outstanding,
                 recent_sizes, reservation_errors, guard, sweep>>

RejectZero(h, id, bytes) ==
  /\ CallsReserve(h, id)
  /\ bytes = 0
  /\ Refused(id, 1)

RejectDuplicate(h, id, bytes) ==
  /\ CallsReserve(h, id)
  /\ bytes # 0
  /\ reservations[id] # NoEntry
  /\ Refused(id, 0)

RejectOverCapacity(h, src, id, bytes) ==
  /\ CallsReserve(h, id)
  /\ bytes # 0
  /\ reservations[id] = NoEntry
  /\ OverFleet(bytes) \/ OverSource(src, bytes)
  /\ Refused(id, 1)

(* The ring of recent sizes: pop_front when full, then push_back. *)
PushRecent(bytes) ==
  Append(IF Len(recent_sizes) >= RecentSamples
           THEN Tail(recent_sizes) ELSE recent_sizes, bytes)

Reserve(h, src, id, bytes) ==
  /\ CallsReserve(h, id)
  /\ bytes # 0
  /\ reservations[id] = NoEntry
  /\ ~OverFleet(bytes)
  /\ ~OverSource(src, bytes)
  /\ Draw(id)
  /\ source_outstanding' = [s \in Sources |->
       IF s = src THEN source_outstanding[s] + bytes ELSE source_outstanding[s]]
  /\ reservations' = [reservations EXCEPT ![id] =
       [bytes |-> bytes, source |-> src, expired |-> FALSE]]
  /\ reserved_bytes' = reserved_bytes + bytes
  /\ recent_sizes' = PushRecent(bytes)
  /\ guard' = [guard EXCEPT ![h] = id]
  /\ UNCHANGED <<admit_rejects, reservation_errors, sweep>>

----------------------------------------------------------------------------
(* release_inner: remove the entry and give its bytes back to the fleet    *)
(* and to its source, or count a reservation error.                        *)

(* Mutant: the source's outstanding bytes are not given back. *)
ReleaseFleetOnly(id) ==
  /\ reservations[id] # NoEntry
  /\ reservations' = [reservations EXCEPT ![id] = NoEntry]
  /\ reserved_bytes' = reserved_bytes - reservations[id].bytes
  /\ UNCHANGED <<source_outstanding, reservation_errors>>

ReleaseEntry(id) ==
  /\ reservations[id] # NoEntry
  /\ reservations' = [reservations EXCEPT ![id] = NoEntry]
  /\ reserved_bytes' = reserved_bytes - reservations[id].bytes
  /\ source_outstanding' = [s \in Sources |->
       IF s = reservations[id].source
         THEN SaturatingSub(source_outstanding[s], reservations[id].bytes)
         ELSE source_outstanding[s]]
  /\ UNCHANGED reservation_errors

ReleaseMissing(id) ==
  /\ reservations[id] = NoEntry
  /\ reservation_errors' = reservation_errors + 1
  /\ UNCHANGED <<reservations, reserved_bytes, source_outstanding>>

ReleaseInner(id) ==
  /\ ReleaseEntry(id) \/ ReleaseMissing(id)
  /\ UNCHANGED <<recent_sizes, admit_rejects, used>>

(* Drop of a guard, or ReservationGuard::release: both release once. *)
DropGuard(h) ==
  /\ guard[h] # NoGuard
  /\ ReleaseInner(guard[h])
  /\ guard' = [guard EXCEPT ![h] = NoGuard]
  /\ UNCHANGED sweep

(* resolve_migration: h holds the source's guard and t the target's.  The  *)
(* survivor is handed back to h.                                           *)
CommitMigration(h, t) ==
  /\ h # t /\ guard[h] # NoGuard /\ guard[t] # NoGuard
  /\ ReleaseInner(guard[h])
  /\ guard' = [guard EXCEPT ![h] = guard[t], ![t] = NoGuard]
  /\ UNCHANGED sweep

(* Mutant: the target's guard is forgotten instead of released. *)
AbortForgets(h, t) ==
  /\ h # t /\ guard[h] # NoGuard /\ guard[t] # NoGuard
  /\ guard' = [guard EXCEPT ![t] = NoGuard]
  /\ UNCHANGED <<ledger, sweep, used>>

AbortMigration(h, t) ==
  /\ h # t /\ guard[h] # NoGuard /\ guard[t] # NoGuard
  /\ ReleaseInner(guard[t])
  /\ guard' = [guard EXCEPT ![t] = NoGuard]
  /\ UNCHANGED sweep

----------------------------------------------------------------------------
(* reclaim_expired, and the clock that makes entries expire.               *)

Expire(id) ==
  /\ reservations[id] # NoEntry
  /\ ~reservations[id].expired
  /\ reservations' = [reservations EXCEPT ![id].expired = TRUE]
  /\ UNCHANGED <<reserved_bytes, source_outstanding, recent_sizes,
                 admit_rejects, reservation_errors, guard, sweep, used>>

(* Mutant: the sweep does not look at the age. *)
ExpiredAnyAge == Live(reservations)

Expired == {id \in Live(reservations) : reservations[id].expired}

SweepCollect(w) ==
  /\ sweep[w] = {}
  /\ sweep' = [sweep EXCEPT ![w] = Expired]
  /\ UNCHANGED <<ledger, guard, used>>

(* The collected ids come in the map's iteration order, which is arbitrary. *)
SweepRelease(w, id) ==
  /\ id \in sweep[w]
  /\ ReleaseInner(id)
  /\ sweep' = [sweep EXCEPT ![w] = @ \ {id}]
  /\ UNCHANGED guard

Next ==
  \/ \E h \in Holders, id \in RequestIds, bytes \in Sizes :
       \/ RejectZero(h, id, bytes)
       \/ RejectDuplicate(h, id, bytes)
       \/ \E src \in Sources \union {NoSource} :
            \/ RejectOverCapacity(h, src, id, bytes)
            \/ Reserve(h, src, id, bytes)
  \/ \E h \in Holders : DropGuard(h)
  \/ \E h, t \in Holders : CommitMigration(h, t) \/ AbortMigration(h, t)
  \/ \E id \in RequestIds : Expire(id)
  \/ \E w \in Sweepers : SweepCollect(w)
  \/ \E w \in Sweepers, id \in RequestIds : SweepRelease(w, id)

Spec == Init /\ [][Next]_vars

----------------------------------------------------------------------------
(* The running totals that try_reserve_from checks its limits against are  *)
(* exact: whatever interleaving of reservations, drops, migrations and TTL *)
(* sweeps led here, reserved_bytes is the sum over the map's entries and   *)
(* each source's outstanding bytes the sum over its own entries.           *)
Accounting ==
  /\ reserved_bytes = Bytes(reservations)
  /\ \A s \in Sources : source_outstanding[s] = Bytes(FromSource(reservations, s))

(* No interleaving admits past a limit: the entries of the map hold at     *)
(* most capacity_bytes together and max_per_source per source, also when   *)
(* a size near u64::MAX is asked for; and fetch_sub never wraps below 0.   *)
WithinLimits ==
  /\ reserved_bytes \in 0..CapacityBytes
  /\ Bytes(reservations) <= CapacityBytes
  /\ \A s \in Sources : Bytes(FromSource(reservations, s)) <= MaxPerSource

(* DEMI-KV-RELEASE: no reservation outlives its session.  Every entry of   *)
(* the map has a live guard somewhere whose drop will release it, across   *)
(* drops, migrations (either decision) and sweeps.                         *)
NoLeak == Live(reservations) \subseteq {guard[h] : h \in Holders}

(* Each guard backs exactly one entry of the map and no two guards the     *)
(* same one, so every drop releases the reservation it was made for.  With *)
(* no sweeper this needs no discipline on ids: DuplicateRequest enforces   *)
(* it even if callers reuse them.                                          *)
GuardsOwnEntries ==
  \A h \in Holders : guard[h] # NoGuard =>
    /\ guard[h] \in Live(reservations)
    /\ \A t \in Holders : guard[t] = guard[h] => t = h

(* The test ledger_consistent_after_commit_and_abort: "No phantom releases *)
(* occurred".  Without sweeps, no drop or migration ever releases an id    *)
(* that is not in the map.                                                 *)
NoPhantomRelease == reservation_errors = 0

(* A session that still holds its guard loses its reservation only once    *)
(* the entry's own TTL has run out, although reclaim_expired releases ids  *)
(* it collected before it dropped the lock.  It holds for ids that are not *)
(* reused, which RequestId::new gives the router.                          *)
HeldLostOnlyByTtl ==
  [][\A id \in RequestIds \ Reusable :
       /\ reservations[id] # NoEntry /\ reservations'[id] = NoEntry
       /\ \E h \in Holders : guard'[h] = id
       => reservations[id].expired]_vars

(* The ledger implements the exact-sum budget of KvBudget. *)
Granted ==
  [id \in RequestIds |->
     IF reservations[id] = NoEntry THEN NoEntry
     ELSE [bytes |-> reservations[id].bytes, source |-> reservations[id].source]]

Budget == INSTANCE KvBudget WITH granted <- Granted

RefinesBudget == Budget!Spec
=============================================================================
