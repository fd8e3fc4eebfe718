----------------------- MODULE ReservationLedgerProofs -----------------------
(***************************************************************************)
(* Proofs about ReservationLedger for every number of ids, sources,        *)
(* callers and sweepers, every capacity and every size: first what one     *)
(* entry does to the bytes of a map, then the accounting, then who may     *)
(* release which reservation and the refinement of KvBudget.               *)
(***************************************************************************)
EXTENDS ReservationLedger, FiniteSetTheorems, TLAPS

(* Block(id, n): the cells one entry of n bytes contributes. *)
Block(id, n) == {id} \X (1..n)

(* The cells of any map are a finite set, so Bytes is a natural number. *)
LEMMA CellsFinite ==
  ASSUME NEW r
  PROVE  IsFiniteSet(Cells(r)) /\ Bytes(r) \in Nat
<1>1. IsFiniteSet(1..U64Max)
  BY FS_Interval, FiniteAssumption
<1>2. IsFiniteSet(RequestIds \X (1..U64Max))
  BY <1>1, FS_Product, FiniteAssumption, Zenon
<1>3. Cells(r) \in SUBSET (RequestIds \X (1..U64Max))
  BY Zenon DEF Cells
<1>4. IsFiniteSet(Cells(r))
  BY <1>2, <1>3, FS_Subset, Zenon
<1> QED
  BY <1>4, FS_CardinalityType, Zenon DEF Bytes

(* An entry of n bytes contributes n cells. *)
LEMMA BlockSize ==
  ASSUME NEW id, NEW n \in Nat
  PROVE  IsFiniteSet(Block(id, n)) /\ Cardinality(Block(id, n)) = n
<1>1. IsFiniteSet(1..n) /\ Cardinality(1..n) = n
  BY FS_Interval
<1>2. IsFiniteSet({id}) /\ Cardinality({id}) = 1
  BY FS_Singleton, Zenon
<1>3. /\ IsFiniteSet({id} \X (1..n))
      /\ Cardinality({id} \X (1..n)) = Cardinality({id}) * Cardinality(1..n)
  BY <1>1, <1>2, FS_Product, Zenon
<1> QED
  BY <1>1, <1>2, <1>3 DEF Block

(* q is r with one more entry, under id.  An insertion goes from r to q, a *)
(* removal from q to r.                                                    *)
OneMore(r, q, id) ==
  /\ id \in RequestIds
  /\ r[id] = NoEntry
  /\ q[id] # NoEntry
  /\ q[id].bytes \in 1..U64Max
  /\ \A x \in RequestIds \ {id} : q[x] = r[x]

(* One more entry adds exactly its bytes to the total. *)
LEMMA BytesOneMore ==
  ASSUME NEW r, NEW q, NEW id, OneMore(r, q, id)
  PROVE  /\ Bytes(q) = Bytes(r) + q[id].bytes
         /\ Bytes(r) \in Nat /\ Bytes(q) \in Nat /\ q[id].bytes \in Nat
<1> DEFINE n == q[id].bytes
<1>1. n \in Nat /\ n \in 1..U64Max
  BY FiniteAssumption DEF OneMore
<1>2. Cells(q) = Cells(r) \union Block(id, n)
  BY FiniteAssumption DEF Cells, Block, OneMore
<1>3. Cells(r) \cap Block(id, n) = {}
  BY Zenon DEF Cells, Block, OneMore
<1> HIDE DEF n
<1>4. /\ IsFiniteSet(Cells(r)) /\ Bytes(r) \in Nat
      /\ IsFiniteSet(Cells(q)) /\ Bytes(q) \in Nat
  BY CellsFinite, Zenon
<1>5. IsFiniteSet(Block(id, n)) /\ Cardinality(Block(id, n)) = n
  BY <1>1, BlockSize, Zenon
<1>6. Cardinality(Cells(r) \union Block(id, n))
        = Cardinality(Cells(r)) + Cardinality(Block(id, n))
            - Cardinality(Cells(r) \cap Block(id, n))
  BY <1>4, <1>5, FS_Union, Zenon
<1>7. Cardinality(Cells(r) \cap Block(id, n)) = 0
  BY <1>3, FS_EmptySet, Zenon
<1>8. Bytes(q) = Bytes(r) + n
  BY <1>1, <1>2, <1>4, <1>5, <1>6, <1>7 DEF Bytes
<1> QED
  BY <1>1, <1>4, <1>8, Zenon DEF n

(* One more entry counts for its own source and for no other. *)
LEMMA SourceBytesOneMore ==
  ASSUME NEW r, NEW q, NEW id, NEW s, OneMore(r, q, id)
  PROVE  /\ q[id].source = s =>
              Bytes(FromSource(q, s)) = Bytes(FromSource(r, s)) + q[id].bytes
         /\ q[id].source # s => Bytes(FromSource(q, s)) = Bytes(FromSource(r, s))
         /\ Bytes(FromSource(r, s)) \in Nat /\ Bytes(FromSource(q, s)) \in Nat
<1> DEFINE fr == FromSource(r, s)
           fq == FromSource(q, s)
<1>1. ASSUME q[id].source = s PROVE Bytes(fq) = Bytes(fr) + q[id].bytes
  <2>1. OneMore(fr, fq, id) /\ fq[id] = q[id]
    BY <1>1, Zenon DEF OneMore, FromSource
  <2> HIDE DEF fr, fq
  <2>2. Bytes(fq) = Bytes(fr) + fq[id].bytes
    BY <2>1, BytesOneMore
  <2> QED
    BY <2>1, <2>2, Zenon
<1>2. ASSUME q[id].source # s PROVE fq = fr
  BY <1>2 DEF OneMore, FromSource
<1>3. Bytes(fr) \in Nat /\ Bytes(fq) \in Nat
  BY CellsFinite, Zenon
<1> QED
  BY <1>1, <1>2, <1>3, Zenon

(* Maps that agree on the ids present and on their bytes hold as much. *)
LEMMA BytesSame ==
  ASSUME NEW r, NEW q,
         \A id \in RequestIds : /\ r[id] = NoEntry <=> q[id] = NoEntry
                                /\ r[id] # NoEntry => r[id].bytes = q[id].bytes
  PROVE  Bytes(r) = Bytes(q)
<1>1. Cells(r) = Cells(q)
  BY Zenon DEF Cells
<1> QED
  BY <1>1, Zenon DEF Bytes

-----------------------------------------------------------------------------
(* The accounting. *)

(* max_per_source is a u64 below the saturation point. *)
LEMMA MaxPerSourceType ==
  MaxPerSource \in Nat /\ MaxPerSource < U64Max
BY BytesAssumption, FiniteAssumption DEF MaxPerSource

(* Adding to a total below u64::MAX saturates only past every limit below  *)
(* u64::MAX: the checks of try_reserve_from cannot be fooled by overflow.  *)
LEMMA SaturatingAddLimit ==
  ASSUME NEW a \in Nat, NEW b \in Nat, NEW limit \in Nat, limit < U64Max,
         ~(SaturatingAdd(a, b) > limit)
  PROVE  a + b <= limit
BY FiniteAssumption DEF SaturatingAdd

(* One step of the release path, as its callers see it. *)
LEMMA ReleaseInnerType ==
  ASSUME TypeOK, NEW id \in RequestIds, ReleaseInner(id)
  PROVE  /\ reservations' \in [RequestIds -> Entry \union {NoEntry}]
         /\ reserved_bytes' \in Int
         /\ source_outstanding' \in [Sources -> Nat]
         /\ reservation_errors' \in Nat
         /\ UNCHANGED <<recent_sizes, admit_rejects, used>>
<1>1. CASE ReleaseEntry(id)
  <2>1. reservations[id] \in Entry
    BY <1>1, Zenon DEF TypeOK, ReleaseEntry
  <2>2. reservations[id].bytes \in Nat
    BY <2>1, FiniteAssumption DEF Entry
  <2>3. source_outstanding' \in [Sources -> Nat]
    BY <1>1, <2>2, SMTT(30) DEF TypeOK, ReleaseEntry, SaturatingSub
  <2> QED
    BY <1>1, <2>2, <2>3, SMTT(30) DEF TypeOK, ReleaseEntry, ReleaseInner
<1>2. CASE ReleaseMissing(id)
  BY <1>2 DEF TypeOK, ReleaseMissing, ReleaseInner
<1> QED
  BY <1>1, <1>2, Zenon DEF ReleaseInner

(* The ring keeps its bound: a full ring loses its oldest size first. *)
LEMMA PushRecentType ==
  ASSUME TypeOK, NEW bytes \in 1..U64Max
  PROVE  PushRecent(bytes) \in Seq(1..U64Max) /\ Len(PushRecent(bytes)) <= RecentSamples
<1>1. CASE Len(recent_sizes) >= RecentSamples
  <2>1. recent_sizes # <<>>
    BY <1>1, BytesAssumption DEF TypeOK
  <2>2. /\ Tail(recent_sizes) \in Seq(1..U64Max)
        /\ Len(Tail(recent_sizes)) = Len(recent_sizes) - 1
    BY <2>1 DEF TypeOK
  <2> QED
    BY <1>1, <2>2, BytesAssumption DEF TypeOK, PushRecent
<1>2. CASE ~(Len(recent_sizes) >= RecentSamples)
  BY <1>2, BytesAssumption DEF TypeOK, PushRecent
<1> QED
  BY <1>1, <1>2, Zenon

(* Every step of the ledger keeps its variables in their types. *)
LEMMA TypeStep == TypeOK /\ [Next]_vars => TypeOK'
<1> SUFFICES ASSUME TypeOK, [Next]_vars PROVE TypeOK'
  BY Zenon
<1> USE IdsAssumption
<1>1. ASSUME NEW h \in Holders, NEW id \in RequestIds, NEW n \in Nat, Refused(id, n)
      PROVE  TypeOK'
  BY <1>1 DEF TypeOK, Refused, Draw
<1>2. ASSUME NEW h \in Holders, NEW src \in Sources \union {NoSource},
             NEW id \in RequestIds, NEW bytes \in Sizes,
             Reserve(h, src, id, bytes)
      PROVE  TypeOK'
  <2>1. bytes \in 1..U64Max
    BY <1>2, BytesAssumption, FiniteAssumption DEF Reserve
  <2>2. [bytes |-> bytes, source |-> src, expired |-> FALSE] \in Entry
    BY <2>1, Zenon DEF Entry
  <2>3. reservations' \in [RequestIds -> Entry \union {NoEntry}]
    BY <1>2, <2>2, Zenon DEF Reserve, TypeOK
  <2>4. source_outstanding' \in [Sources -> Nat] /\ reserved_bytes' \in Int
    BY <1>2, <2>1, FiniteAssumption, SMTT(30) DEF Reserve, TypeOK
  <2>5. recent_sizes' \in Seq(1..U64Max) /\ Len(recent_sizes') <= RecentSamples
    BY <1>2, <2>1, PushRecentType, Zenon DEF Reserve
  <2> QED
    BY <1>2, <2>3, <2>4, <2>5, SMTT(30) DEF Reserve, TypeOK, Draw
<1>3. ASSUME NEW h \in Holders, DropGuard(h) PROVE TypeOK'
  <2>1. guard[h] \in RequestIds /\ ReleaseInner(guard[h])
    BY <1>3, Zenon DEF TypeOK, DropGuard
  <2> QED
    BY <1>3, <2>1, ReleaseInnerType, Zenon DEF TypeOK, DropGuard
<1>4. ASSUME NEW h \in Holders, NEW t \in Holders, CommitMigration(h, t)
      PROVE  TypeOK'
  <2>1. guard[h] \in RequestIds /\ ReleaseInner(guard[h])
    BY <1>4, Zenon DEF TypeOK, CommitMigration
  <2> QED
    BY <1>4, <2>1, ReleaseInnerType, Zenon DEF TypeOK, CommitMigration
<1>5. ASSUME NEW h \in Holders, NEW t \in Holders, AbortMigration(h, t)
      PROVE  TypeOK'
  <2>1. guard[t] \in RequestIds /\ ReleaseInner(guard[t])
    BY <1>5, Zenon DEF TypeOK, AbortMigration
  <2> QED
    BY <1>5, <2>1, ReleaseInnerType, Zenon DEF TypeOK, AbortMigration
<1>6. ASSUME NEW id \in RequestIds, Expire(id) PROVE TypeOK'
  <2>1. reservations[id] \in Entry
    BY <1>6, Zenon DEF TypeOK, Expire
  <2>2. [reservations[id] EXCEPT !.expired = TRUE] \in Entry
    BY <2>1, Zenon DEF Entry
  <2> QED
    BY <1>6, <2>2, Zenon DEF TypeOK, Expire
<1>7. ASSUME NEW w \in Sweepers, SweepCollect(w) PROVE TypeOK'
  BY <1>7, Zenon DEF TypeOK, SweepCollect, ledger, Expired, Live
<1>8. ASSUME NEW w \in Sweepers, NEW id \in RequestIds, SweepRelease(w, id)
      PROVE  TypeOK'
  BY <1>8, ReleaseInnerType, Zenon DEF TypeOK, SweepRelease
<1>9. CASE UNCHANGED vars
  BY <1>9, Zenon DEF TypeOK, vars, ledger
<1> QED
  BY <1>1, <1>2, <1>3, <1>4, <1>5, <1>6, <1>7, <1>8, <1>9
  DEF Next, RejectZero, RejectDuplicate, RejectOverCapacity

(* The type invariant of the ledger: every reachable state is well typed,  *)
(* and the ring of recent sizes never exceeds RECENT_SAMPLES.              *)
THEOREM TypeCorrect == Spec => []TypeOK
<1>1. Init => TypeOK
  BY BytesAssumption, FiniteAssumption DEF Init, TypeOK
<1> QED
  BY <1>1, TypeStep, PTL DEF Spec

-----------------------------------------------------------------------------
(* The inductive invariant.  The limits alone are not inductive: a release *)
(* subtracts an entry's bytes from running totals, and only Accounting     *)
(* says that those bytes are in the totals.                                *)

Limits ==
  /\ reserved_bytes <= CapacityBytes
  /\ \A s \in Sources : source_outstanding[s] <= MaxPerSource

LedgerInv == TypeOK /\ Accounting /\ Limits

(* Steps that leave the map and the totals alone. *)
LEMMA QuietStep ==
  ASSUME LedgerInv, TypeOK',
         UNCHANGED <<reservations, reserved_bytes, source_outstanding>>
  PROVE  LedgerInv'
BY Zenon DEF LedgerInv, Accounting, Limits

(* release_inner gives back exactly what the entry held. *)
LEMMA ReleaseStep ==
  ASSUME LedgerInv, TypeOK', NEW id \in RequestIds, ReleaseInner(id)
  PROVE  LedgerInv'
<1>1. CASE ReleaseMissing(id)
  BY <1>1, QuietStep, Zenon DEF ReleaseMissing
<1>2. CASE ReleaseEntry(id)
  <2> DEFINE e == reservations[id]
  <2>1. e \in Entry
    BY <1>2, Zenon DEF ReleaseEntry, LedgerInv, TypeOK
  <2>2. OneMore(reservations', reservations, id)
    BY <1>2, <2>1, Zenon DEF ReleaseEntry, LedgerInv, TypeOK, Entry, OneMore
  <2>3. reserved_bytes' = reserved_bytes - e.bytes /\ reserved_bytes = Bytes(reservations)
    BY <1>2, Zenon DEF ReleaseEntry, LedgerInv, Accounting
  <2>4. reserved_bytes' = Bytes(reservations') /\ reserved_bytes' <= CapacityBytes
    BY <2>2, <2>3, BytesOneMore, BytesAssumption DEF LedgerInv, Limits
  <2>5. ASSUME NEW s \in Sources
        PROVE  /\ source_outstanding'[s] = Bytes(FromSource(reservations', s))
               /\ source_outstanding'[s] <= MaxPerSource
    <3>1. /\ source_outstanding[s] = Bytes(FromSource(reservations, s))
          /\ source_outstanding[s] <= MaxPerSource
      BY Zenon DEF LedgerInv, Accounting, Limits
    <3>2. source_outstanding'[s] =
            IF s = e.source THEN SaturatingSub(source_outstanding[s], e.bytes)
            ELSE source_outstanding[s]
      BY <1>2, Zenon DEF ReleaseEntry
    <3>3. e.bytes \in Nat
      BY <2>2, BytesOneMore, Zenon
    <3>4. /\ e.source = s =>
               Bytes(FromSource(reservations, s)) = Bytes(FromSource(reservations', s)) + e.bytes
          /\ e.source # s =>
               Bytes(FromSource(reservations, s)) = Bytes(FromSource(reservations', s))
      BY <2>2, SourceBytesOneMore
    <3>5. Bytes(FromSource(reservations', s)) \in Nat
      BY <2>2, SourceBytesOneMore, Zenon
    <3> QED
      BY <3>1, <3>2, <3>3, <3>4, <3>5, MaxPerSourceType DEF SaturatingSub
  <2> QED
    BY <2>4, <2>5, Zenon DEF LedgerInv, Accounting, Limits
<1> QED
  BY <1>1, <1>2, Zenon DEF ReleaseInner

(* A reservation that passes both checks adds its bytes to both totals and *)
(* stays within both limits.                                               *)
LEMMA ReserveStep ==
  ASSUME LedgerInv, TypeOK', NEW h \in Holders,
         NEW src \in Sources \union {NoSource}, NEW id \in RequestIds,
         NEW bytes \in Sizes, Reserve(h, src, id, bytes)
  PROVE  LedgerInv'
<1>1. bytes \in 1..U64Max /\ bytes \in Nat
  BY BytesAssumption, FiniteAssumption DEF Reserve
<1>2. reservations'[id] = [bytes |-> bytes, source |-> src, expired |-> FALSE]
  BY Zenon DEF Reserve, LedgerInv, TypeOK
<1>3. reservations'[id] # NoEntry
  <2>1. [bytes |-> bytes, source |-> src, expired |-> FALSE] \in Entry
    BY <1>1, Zenon DEF Entry
  <2> QED
    BY <1>2, <2>1, EntryAssumption, Zenon
<1>4. OneMore(reservations, reservations', id)
  BY <1>1, <1>2, <1>3, ZenonT(60) DEF Reserve, LedgerInv, TypeOK, OneMore
<1>5. reservations'[id].bytes = bytes /\ reservations'[id].source = src
  BY <1>2
<1>6. reserved_bytes' = reserved_bytes + bytes /\ reserved_bytes = Bytes(reservations)
  BY Zenon DEF Reserve, LedgerInv, Accounting
<1>7. reserved_bytes' = Bytes(reservations') /\ reserved_bytes \in Nat
  BY <1>4, <1>5, <1>6, BytesOneMore, Zenon
<1>8. reserved_bytes + bytes <= CapacityBytes
  BY <1>1, <1>7, SaturatingAddLimit, BytesAssumption, Zenon DEF Reserve, OverFleet
<1>9. ASSUME NEW s \in Sources
      PROVE  /\ source_outstanding'[s] = Bytes(FromSource(reservations', s))
             /\ source_outstanding'[s] <= MaxPerSource
  <2>1. /\ source_outstanding[s] = Bytes(FromSource(reservations, s))
        /\ source_outstanding[s] <= MaxPerSource
        /\ source_outstanding[s] \in Nat
    BY Zenon DEF LedgerInv, Accounting, Limits, TypeOK
  <2>2. CASE src = s
    <3>1. Bytes(FromSource(reservations', s)) = Bytes(FromSource(reservations, s)) + bytes
      BY <1>4, <1>5, <2>2, SourceBytesOneMore
    <3>2. source_outstanding'[s] = source_outstanding[s] + bytes
      BY <2>2, Zenon DEF Reserve
    <3>3. source_outstanding[s] + bytes <= MaxPerSource
      BY <1>1, <2>1, <2>2, SaturatingAddLimit, MaxPerSourceType, Zenon
      DEF Reserve, OverSource
    <3> QED
      BY <2>1, <3>1, <3>2, <3>3, Zenon
  <2>3. CASE src # s
    <3>1. Bytes(FromSource(reservations', s)) = Bytes(FromSource(reservations, s))
      BY <1>4, <1>5, <2>3, SourceBytesOneMore
    <3>2. source_outstanding'[s] = source_outstanding[s]
      BY <2>3, Zenon DEF Reserve
    <3> QED
      BY <2>1, <3>1, <3>2, Zenon
  <2> QED
    BY <2>2, <2>3, Zenon
<1> QED
  BY <1>6, <1>7, <1>8, <1>9, Zenon DEF LedgerInv, Accounting, Limits

(* Time passing changes neither the bytes nor the source of an entry. *)
LEMMA ExpireStep ==
  ASSUME LedgerInv, TypeOK', NEW id \in RequestIds, Expire(id)
  PROVE  LedgerInv'
<1>1. reservations[id] \in Entry
  BY Zenon DEF LedgerInv, TypeOK, Expire
<1>2. \A x \in RequestIds :
        /\ reservations[x] = NoEntry <=> reservations'[x] = NoEntry
        /\ reservations[x] # NoEntry =>
             /\ reservations[x].bytes = reservations'[x].bytes
             /\ reservations[x].source = reservations'[x].source
  <2>1. [reservations[id] EXCEPT !.expired = TRUE] \in Entry
    BY <1>1, Zenon DEF Entry
  <2>2. [reservations[id] EXCEPT !.expired = TRUE] # NoEntry
    BY <2>1, EntryAssumption, Zenon
  <2> QED
    BY <1>1, <2>2, Zenon DEF LedgerInv, TypeOK, Expire, Entry
<1>3. Bytes(reservations) = Bytes(reservations')
  BY <1>2, BytesSame, Zenon
<1>4. ASSUME NEW s \in Sources
      PROVE  Bytes(FromSource(reservations, s)) = Bytes(FromSource(reservations', s))
  <2> DEFINE f == FromSource(reservations, s)
             g == FromSource(reservations', s)
  <2>1. \A x \in RequestIds : /\ f[x] = NoEntry <=> g[x] = NoEntry
                              /\ f[x] # NoEntry => f[x].bytes = g[x].bytes
    BY <1>2, Zenon DEF FromSource
  <2> HIDE DEF f, g
  <2>2. Bytes(f) = Bytes(g)
    BY <2>1, BytesSame, Zenon
  <2> QED
    BY <2>2, Zenon DEF f, g
<1> QED
  BY <1>3, <1>4, Zenon DEF LedgerInv, Accounting, Limits, Expire

(* An empty map holds nothing. *)
LEMMA BytesEmpty ==
  ASSUME NEW r, \A id \in RequestIds : r[id] = NoEntry
  PROVE  Bytes(r) = 0
<1>1. Cells(r) = {}
  BY Zenon DEF Cells
<1> QED
  BY <1>1, FS_EmptySet, Zenon DEF Bytes

(* A new ledger satisfies the inductive invariant. *)
LEMMA LedgerInvInit == Init => LedgerInv
<1> SUFFICES ASSUME Init PROVE LedgerInv
  BY Zenon
<1>1. TypeOK
  BY BytesAssumption, FiniteAssumption DEF Init, TypeOK
<1>2. Bytes(reservations) = 0
  BY BytesEmpty, Zenon DEF Init
<1>3. ASSUME NEW s \in Sources PROVE Bytes(FromSource(reservations, s)) = 0
  BY BytesEmpty, Zenon DEF Init, FromSource
<1> QED
  BY <1>1, <1>2, <1>3, BytesAssumption, MaxPerSourceType
  DEF Init, LedgerInv, Accounting, Limits

(* Every step of callers, migrations, sweeps and the clock keeps the       *)
(* inductive invariant.                                                    *)
LEMMA LedgerInvStep == LedgerInv /\ [Next]_vars => LedgerInv'
<1> SUFFICES ASSUME LedgerInv, [Next]_vars PROVE LedgerInv'
  BY Zenon
<1>1. TypeOK'
  BY TypeStep, Zenon DEF LedgerInv
<1>2. ASSUME NEW id \in RequestIds, NEW n \in Nat, Refused(id, n) PROVE LedgerInv'
  BY <1>1, <1>2, QuietStep, Zenon DEF Refused
<1>3. ASSUME NEW h \in Holders, DropGuard(h) PROVE LedgerInv'
  BY <1>1, <1>3, ReleaseStep, Zenon DEF DropGuard, LedgerInv, TypeOK
<1>4. ASSUME NEW h \in Holders, NEW t \in Holders, CommitMigration(h, t)
      PROVE  LedgerInv'
  BY <1>1, <1>4, ReleaseStep, Zenon DEF CommitMigration, LedgerInv, TypeOK
<1>5. ASSUME NEW h \in Holders, NEW t \in Holders, AbortMigration(h, t)
      PROVE  LedgerInv'
  BY <1>1, <1>5, ReleaseStep, Zenon DEF AbortMigration, LedgerInv, TypeOK
<1>6. ASSUME NEW w \in Sweepers, SweepCollect(w) PROVE LedgerInv'
  BY <1>1, <1>6, QuietStep, Zenon DEF SweepCollect, ledger
<1>7. ASSUME NEW w \in Sweepers, NEW id \in RequestIds, SweepRelease(w, id)
      PROVE  LedgerInv'
  BY <1>1, <1>7, ReleaseStep, Zenon DEF SweepRelease
<1>8. CASE UNCHANGED vars
  BY <1>1, <1>8, QuietStep, Zenon DEF vars, ledger
<1> QED
  BY <1>1, <1>2, <1>3, <1>4, <1>5, <1>6, <1>7, <1>8, ReserveStep, ExpireStep, SMTT(30)
  DEF Next, RejectZero, RejectDuplicate, RejectOverCapacity

(* The inductive invariant holds in every reachable state. *)
LEMMA LedgerInvAlways == Spec => []LedgerInv
BY LedgerInvInit, LedgerInvStep, PTL DEF Spec

(* The running totals of the ledger are exact in every reachable state. *)
THEOREM AccountingExact == Spec => []Accounting
<1>1. LedgerInv => Accounting
  BY Zenon DEF LedgerInv
<1> QED
  BY <1>1, LedgerInvAlways, PTL

(* The ledger never grants past the fleet capacity or a source's share,    *)
(* whatever sizes are asked for, and its counter never wraps.              *)
THEOREM LimitsHold == Spec => []WithinLimits
<1>1. LedgerInv => WithinLimits
  BY CellsFinite, BytesAssumption DEF LedgerInv, Accounting, Limits, WithinLimits
<1> QED
  BY <1>1, LedgerInvAlways, PTL

-----------------------------------------------------------------------------
(* The guards: who may release which reservation. *)

(* After release_inner the id is absent and every other id is as before. *)
LEMMA ReleaseLive ==
  ASSUME TypeOK, NEW id \in RequestIds, ReleaseInner(id)
  PROVE  /\ reservations'[id] = NoEntry
         /\ \A x \in RequestIds : x # id => reservations'[x] = reservations[x]
         /\ Live(reservations') = Live(reservations) \ {id}
BY DEF TypeOK, ReleaseInner, ReleaseEntry, ReleaseMissing, Live

(* A reservation makes its id live and changes no other id. *)
LEMMA ReserveLive ==
  ASSUME TypeOK, NEW h \in Holders, NEW src \in Sources \union {NoSource},
         NEW id \in RequestIds, NEW bytes \in Sizes, Reserve(h, src, id, bytes)
  PROVE  /\ reservations'[id] # NoEntry /\ ~reservations'[id].expired
         /\ \A x \in RequestIds : x # id => reservations'[x] = reservations[x]
         /\ Live(reservations') = Live(reservations) \union {id}
<1>1. bytes \in 1..U64Max
  BY BytesAssumption, FiniteAssumption DEF Reserve
<1>2. [bytes |-> bytes, source |-> src, expired |-> FALSE] \in Entry
  BY <1>1, Zenon DEF Entry
<1>3. [bytes |-> bytes, source |-> src, expired |-> FALSE] # NoEntry
  BY <1>2, EntryAssumption, Zenon
<1> QED
  BY <1>3, Zenon DEF TypeOK, Reserve, Live

(* The clock removes and adds no entry. *)
LEMMA ExpireLive ==
  ASSUME TypeOK, NEW id \in RequestIds, Expire(id)
  PROVE  /\ reservations'[id] # NoEntry /\ reservations'[id].expired
         /\ \A x \in RequestIds : x # id => reservations'[x] = reservations[x]
         /\ Live(reservations') = Live(reservations)
<1>1. reservations[id] \in Entry
  BY Zenon DEF TypeOK, Expire
<1>2. [reservations[id] EXCEPT !.expired = TRUE] \in Entry
  BY <1>1, Zenon DEF Entry
<1>3. [reservations[id] EXCEPT !.expired = TRUE] # NoEntry
  BY <1>2, EntryAssumption, Zenon
<1> QED
  BY <1>1, <1>3, Zenon DEF TypeOK, Expire, Live, Entry

-----------------------------------------------------------------------------

(* Every step keeps a guard for every entry of the map. *)
LEMMA NoLeakStep == TypeOK /\ NoLeak /\ [Next]_vars => NoLeak'
<1> SUFFICES ASSUME TypeOK, NoLeak, [Next]_vars PROVE NoLeak'
  BY Zenon
<1>1. ASSUME UNCHANGED <<reservations, guard>> PROVE NoLeak'
  BY <1>1, Zenon DEF NoLeak
<1>2. ASSUME NEW h \in Holders, NEW src \in Sources \union {NoSource},
             NEW id \in RequestIds, NEW bytes \in Sizes,
             Reserve(h, src, id, bytes)
      PROVE  NoLeak'
  <2>1. guard[h] = NoGuard /\ guard' = [guard EXCEPT ![h] = id]
    BY <1>2, Zenon DEF Reserve, CallsReserve
  <2> QED
    BY <1>2, <2>1, ReserveLive, IdsAssumption, SMTT(60) DEF NoLeak, TypeOK, Live
<1>3. ASSUME NEW h \in Holders, DropGuard(h) PROVE NoLeak'
  <2>1. guard[h] \in RequestIds /\ guard' = [guard EXCEPT ![h] = NoGuard]
    BY <1>3, Zenon DEF DropGuard, TypeOK
  <2>2. Live(reservations') = Live(reservations) \ {guard[h]}
    BY <1>3, <2>1, ReleaseLive, Zenon DEF DropGuard
  <2> QED
    BY <2>1, <2>2, Zenon DEF NoLeak, TypeOK
<1>4. ASSUME NEW h \in Holders, NEW t \in Holders, CommitMigration(h, t)
      PROVE  NoLeak'
  <2>1. /\ guard[h] \in RequestIds /\ guard[t] \in RequestIds /\ h # t
        /\ guard' = [guard EXCEPT ![h] = guard[t], ![t] = NoGuard]
    BY <1>4, Zenon DEF CommitMigration, TypeOK
  <2>2. Live(reservations') = Live(reservations) \ {guard[h]}
    BY <1>4, <2>1, ReleaseLive, Zenon DEF CommitMigration
  <2>3. guard'[h] = guard[t] /\ \A k \in Holders : k # h /\ k # t => guard'[k] = guard[k]
    BY <2>1, Zenon DEF TypeOK
  <2> SUFFICES ASSUME NEW id \in Live(reservations') PROVE \E k \in Holders : id = guard'[k]
    BY Zenon DEF NoLeak
  <2>4. PICK k \in Holders : id = guard[k]
    BY <2>2, Zenon DEF NoLeak
  <2>5. k # h
    BY <2>2, <2>4, Zenon
  <2>6. CASE k = t
    BY <2>3, <2>4, <2>6, Zenon
  <2>7. CASE k # t
    BY <2>3, <2>4, <2>5, <2>7, Zenon
  <2> QED
    BY <2>6, <2>7, Zenon
<1>5. ASSUME NEW h \in Holders, NEW t \in Holders, AbortMigration(h, t)
      PROVE  NoLeak'
  <2>1. guard[t] \in RequestIds /\ guard' = [guard EXCEPT ![t] = NoGuard]
    BY <1>5, Zenon DEF AbortMigration, TypeOK
  <2>2. Live(reservations') = Live(reservations) \ {guard[t]}
    BY <1>5, <2>1, ReleaseLive, Zenon DEF AbortMigration
  <2> QED
    BY <2>1, <2>2, Zenon DEF NoLeak, TypeOK
<1>6. ASSUME NEW id \in RequestIds, Expire(id) PROVE NoLeak'
  <2>1. Live(reservations') = Live(reservations) /\ UNCHANGED guard
    BY <1>6, ExpireLive, Zenon DEF Expire
  <2> QED
    BY <2>1, Zenon DEF NoLeak
<1>7. ASSUME NEW w \in Sweepers, NEW id \in RequestIds, SweepRelease(w, id)
      PROVE  NoLeak'
  <2>1. Live(reservations') = Live(reservations) \ {id} /\ UNCHANGED guard
    BY <1>7, ReleaseLive, Zenon DEF SweepRelease
  <2> QED
    BY <2>1, Zenon DEF NoLeak
<1> QED
  BY <1>1, <1>2, <1>3, <1>4, <1>5, <1>6, <1>7, ZenonT(60)
  DEF Next, RejectZero, RejectDuplicate, RejectOverCapacity, Refused,
      SweepCollect, ledger, vars

(* DEMI-KV-RELEASE: every reservation has a guard whose drop releases it,  *)
(* for any number of sessions, migrations and sweeps.                      *)
THEOREM ReservationsGuarded == Spec => []NoLeak
<1>1. Init => NoLeak
  BY DEF Init, NoLeak, Live
<1> QED
  BY <1>1, NoLeakStep, TypeCorrect, PTL DEF Spec

-----------------------------------------------------------------------------
(* An id that is never reused and that a sweeper still has to release is   *)
(* gone or expired, and no two guards share such an id.                    *)

Fresh == RequestIds \ Reusable

DistinctGuards ==
  \A h, t \in Holders : guard[h] \in Fresh /\ guard[h] = guard[t] => h = t

OwnInv ==
  /\ DistinctGuards
  /\ \A h \in Holders : guard[h] \in Fresh => guard[h] \in used
  /\ \A w \in Sweepers : \A id \in sweep[w] \intersect Fresh :
       /\ id \in used
       /\ reservations[id] # NoEntry => reservations[id].expired
  /\ Live(reservations) \intersect Fresh \subseteq used

(* A release step keeps OwnInv if it takes ids away from guards and sweeps *)
(* only, or moves one guard's id to a guard that gave up its own.          *)
LEMMA OwnInvRelease ==
  ASSUME TypeOK, OwnInv, NEW id \in RequestIds, ReleaseInner(id),
         DistinctGuards',
         \A h \in Holders : guard'[h] # NoGuard =>
                              \E t \in Holders : guard'[h] = guard[t],
         \A w \in Sweepers : sweep'[w] \subseteq sweep[w]
  PROVE  OwnInv'
<1>1. /\ \A x \in RequestIds : \/ reservations'[x] = NoEntry
                               \/ reservations'[x] = reservations[x]
      /\ Live(reservations') \subseteq Live(reservations)
  BY ReleaseLive, Zenon
<1>2. used' = used
  BY Zenon DEF ReleaseInner
<1>3. \A w \in Sweepers : sweep[w] \subseteq RequestIds
  BY Zenon DEF TypeOK
<1>4. \A h \in Holders : guard'[h] \in Fresh => guard'[h] \in used'
  BY <1>2, IdsAssumption, Zenon DEF OwnInv, Fresh
<1>5. \A w \in Sweepers : \A x \in sweep'[w] \intersect Fresh :
        /\ x \in used'
        /\ reservations'[x] # NoEntry => reservations'[x].expired
  BY <1>1, <1>2, <1>3, Zenon DEF OwnInv
<1> QED
  BY <1>1, <1>2, <1>4, <1>5, Zenon DEF OwnInv

(* Every step keeps collected and held fresh ids apart from unexpired      *)
(* entries.                                                                *)
LEMMA OwnInvStep == TypeOK /\ OwnInv /\ [Next]_vars => OwnInv'
<1> SUFFICES ASSUME TypeOK, OwnInv, [Next]_vars PROVE OwnInv'
  BY Zenon
<1>1. ASSUME NEW id \in RequestIds, NEW n, Refused(id, n) PROVE OwnInv'
  BY <1>1, Zenon DEF Refused, Draw, OwnInv, DistinctGuards
<1>2. ASSUME NEW h \in Holders, NEW src \in Sources \union {NoSource},
             NEW id \in RequestIds, NEW bytes \in Sizes,
             Reserve(h, src, id, bytes)
      PROVE  OwnInv'
  <2>1. /\ guard' = [guard EXCEPT ![h] = id] /\ (id \in Fresh => id \notin used)
        /\ used' = used \union ({id} \ Reusable) /\ UNCHANGED sweep
    BY <1>2, Zenon DEF Reserve, CallsReserve, Draw, Fresh
  <2>2. /\ \A x \in RequestIds : x # id => reservations'[x] = reservations[x]
        /\ Live(reservations') = Live(reservations) \union {id}
    BY <1>2, ReserveLive
  <2>3. DistinctGuards'
    BY <2>1 DEF OwnInv, DistinctGuards, TypeOK
  <2>4. \A k \in Holders : guard'[k] \in Fresh => guard'[k] \in used'
    BY <2>1, Zenon DEF OwnInv, TypeOK, Fresh
  <2>5. \A w \in Sweepers : \A x \in sweep'[w] \intersect Fresh :
          /\ x \in used'
          /\ reservations'[x] # NoEntry => reservations'[x].expired
    BY <2>1, <2>2, Zenon DEF OwnInv, TypeOK
  <2> QED
    BY <2>1, <2>2, <2>3, <2>4, <2>5, Zenon DEF OwnInv, Fresh
<1>3. ASSUME NEW h \in Holders, DropGuard(h) PROVE OwnInv'
  <2>1. /\ guard[h] \in RequestIds /\ ReleaseInner(guard[h])
        /\ guard' = [guard EXCEPT ![h] = NoGuard] /\ UNCHANGED sweep
    BY <1>3, Zenon DEF DropGuard, TypeOK
  <2>2. DistinctGuards'
    BY <2>1, IdsAssumption DEF Fresh, OwnInv, DistinctGuards, TypeOK
  <2> QED
    BY <2>1, <2>2, OwnInvRelease, Zenon DEF TypeOK
<1>4. ASSUME NEW h \in Holders, NEW t \in Holders, CommitMigration(h, t)
      PROVE  OwnInv'
  <2>1. /\ guard[h] \in RequestIds /\ ReleaseInner(guard[h]) /\ h # t
        /\ guard' = [guard EXCEPT ![h] = guard[t], ![t] = NoGuard]
        /\ UNCHANGED sweep
    BY <1>4, Zenon DEF CommitMigration, TypeOK
  <2>2. /\ guard'[h] = guard[t] /\ guard'[t] = NoGuard
        /\ \A k \in Holders : k # h /\ k # t => guard'[k] = guard[k]
    BY <2>1, Zenon DEF TypeOK
  <2>3. DistinctGuards'
    BY <2>2, IdsAssumption DEF Fresh, OwnInv, DistinctGuards
  <2> QED
    BY <2>1, <2>2, <2>3, OwnInvRelease, Zenon
<1>5. ASSUME NEW h \in Holders, NEW t \in Holders, AbortMigration(h, t)
      PROVE  OwnInv'
  <2>1. /\ guard[t] \in RequestIds /\ ReleaseInner(guard[t])
        /\ guard' = [guard EXCEPT ![t] = NoGuard] /\ UNCHANGED sweep
    BY <1>5, Zenon DEF AbortMigration, TypeOK
  <2>2. DistinctGuards'
    BY <2>1, IdsAssumption DEF Fresh, OwnInv, DistinctGuards, TypeOK
  <2> QED
    BY <2>1, <2>2, OwnInvRelease, Zenon DEF TypeOK
<1>6. ASSUME NEW id \in RequestIds, Expire(id) PROVE OwnInv'
  <2>1. UNCHANGED <<guard, sweep, used>>
    BY <1>6, Zenon DEF Expire
  <2> QED
    BY <1>6, <2>1, ExpireLive, Zenon DEF OwnInv, DistinctGuards, TypeOK
<1>7. ASSUME NEW w \in Sweepers, SweepCollect(w) PROVE OwnInv'
  BY <1>7, Zenon DEF SweepCollect, OwnInv, DistinctGuards, ledger, Expired, TypeOK
<1>8. ASSUME NEW w \in Sweepers, NEW id \in RequestIds, SweepRelease(w, id)
      PROVE  OwnInv'
  <2>1. /\ ReleaseInner(id) /\ UNCHANGED guard
        /\ \A v \in Sweepers : sweep'[v] \subseteq sweep[v]
    BY <1>8, Zenon DEF SweepRelease, TypeOK
  <2> QED
    BY <2>1, OwnInvRelease, Zenon DEF OwnInv, DistinctGuards
<1>9. CASE UNCHANGED vars
  BY <1>9, Zenon DEF vars, ledger, OwnInv, DistinctGuards
<1> QED
  BY <1>1, <1>2, <1>3, <1>4, <1>5, <1>6, <1>7, <1>8, <1>9
  DEF Next, RejectZero, RejectDuplicate, RejectOverCapacity

(* The step property behind HeldLostOnlyByTtl. *)
HeldLost ==
  \A id \in RequestIds \ Reusable :
    /\ reservations[id] # NoEntry /\ reservations'[id] = NoEntry
    /\ \E h \in Holders : guard'[h] = id
    => reservations[id].expired

(* Only a sweep removes an entry whose guard is still held, and only one   *)
(* past its TTL.                                                           *)
LEMMA HeldLostStep == TypeOK /\ OwnInv /\ [Next]_vars => HeldLost
<1> SUFFICES ASSUME TypeOK, OwnInv, [Next]_vars,
                    NEW id \in Fresh, NEW k \in Holders,
                    reservations[id] # NoEntry, reservations'[id] = NoEntry,
                    guard'[k] = id
             PROVE  reservations[id].expired
  BY Zenon DEF HeldLost, Fresh
<1> id \in RequestIds
  BY Zenon DEF Fresh
<1>1. CASE UNCHANGED reservations
  BY <1>1, Zenon
<1>2. ASSUME NEW h \in Holders, NEW src \in Sources \union {NoSource},
             NEW x \in RequestIds, NEW bytes \in Sizes,
             Reserve(h, src, x, bytes)
      PROVE  FALSE
  BY <1>2, ReserveLive, Zenon
<1>3. ASSUME NEW h \in Holders, DropGuard(h) PROVE FALSE
  <2>1. /\ guard[h] \in RequestIds /\ ReleaseInner(guard[h])
        /\ guard' = [guard EXCEPT ![h] = NoGuard]
    BY <1>3, Zenon DEF DropGuard, TypeOK
  <2>2. guard[h] = id
    BY <2>1, ReleaseLive, Zenon
  <2> QED
    BY <2>1, <2>2, IdsAssumption DEF OwnInv, DistinctGuards, TypeOK
<1>4. ASSUME NEW h \in Holders, NEW t \in Holders, CommitMigration(h, t)
      PROVE  FALSE
  <2>1. /\ guard[h] \in RequestIds /\ ReleaseInner(guard[h]) /\ h # t
        /\ guard' = [guard EXCEPT ![h] = guard[t], ![t] = NoGuard]
    BY <1>4, Zenon DEF CommitMigration, TypeOK
  <2>2. guard[h] = id
    BY <2>1, ReleaseLive, Zenon
  <2>3. /\ guard'[h] = guard[t] /\ guard'[t] = NoGuard
        /\ \A j \in Holders : j # h /\ j # t => guard'[j] = guard[j]
    BY <2>1, Zenon DEF TypeOK
  <2>4. \A j \in Holders : guard[j] = id => j = h
    BY <2>2, IdsAssumption, Zenon DEF OwnInv, DistinctGuards
  <2>5. k # t
    BY <2>3, IdsAssumption, Zenon
  <2> QED
    BY <2>1, <2>3, <2>4, <2>5, Zenon
<1>5. ASSUME NEW h \in Holders, NEW t \in Holders, AbortMigration(h, t)
      PROVE  FALSE
  <2>1. /\ guard[t] \in RequestIds /\ ReleaseInner(guard[t])
        /\ guard' = [guard EXCEPT ![t] = NoGuard]
    BY <1>5, Zenon DEF AbortMigration, TypeOK
  <2>2. guard[t] = id
    BY <2>1, ReleaseLive, Zenon
  <2> QED
    BY <2>1, <2>2, IdsAssumption, SMTT(60) DEF OwnInv, DistinctGuards, TypeOK
<1>6. ASSUME NEW x \in RequestIds, Expire(x) PROVE FALSE
  BY <1>6, ExpireLive, Zenon
<1>7. ASSUME NEW w \in Sweepers, NEW x \in RequestIds, SweepRelease(w, x)
      PROVE  reservations[id].expired
  <2>1. x = id
    BY <1>7, ReleaseLive DEF SweepRelease
  <2> QED
    BY <1>7, <2>1, Zenon DEF SweepRelease, OwnInv
<1>8. ASSUME NEW h \in Holders, NEW src \in Sources \union {NoSource},
             NEW x \in RequestIds, NEW bytes \in Sizes,
             RejectZero(h, x, bytes) \/ RejectDuplicate(h, x, bytes) \/ RejectOverCapacity(h, src, x, bytes)
      PROVE  UNCHANGED reservations
  BY <1>8, Zenon DEF RejectZero, RejectDuplicate, RejectOverCapacity, Refused, ledger
<1>9. ASSUME NEW w \in Sweepers, SweepCollect(w) PROVE UNCHANGED reservations
  BY <1>9, Zenon DEF SweepCollect, ledger
<1>10. ASSUME UNCHANGED vars PROVE UNCHANGED reservations
  BY <1>10, Zenon DEF vars, ledger
<1>11. NoSource \in Sources \union {NoSource}
  BY Zenon
<1> QED
  BY <1>1, <1>2, <1>3, <1>4, <1>5, <1>6, <1>7, <1>8, <1>9, <1>10, <1>11, ZenonT(60) DEF Next

(* The unlocked gap in reclaim_expired is harmless to ids that are handed  *)
(* out once, whatever other callers do with theirs: no such reservation is *)
(* lost while it is held before its own TTL has run out.                   *)
THEOREM TtlOnlyLoss == Spec => HeldLostOnlyByTtl
<1>1. Init => OwnInv
  BY IdsAssumption, ZenonT(60) DEF Fresh, Init, OwnInv, DistinctGuards, Live
<1>2. TypeOK /\ OwnInv /\ [Next]_vars => [HeldLost]_vars
  BY HeldLostStep, Zenon
<1> QED
  BY <1>1, <1>2, OwnInvStep, TypeCorrect, PTL DEF Spec, HeldLostOnlyByTtl, HeldLost

-----------------------------------------------------------------------------
(* Without sweepers, as in the router, guards and entries correspond one   *)
(* to one and no release is ever in vain, even if callers reuse ids.       *)

Paired == GuardsOwnEntries /\ NoPhantomRelease

(* Without sweeps, every step keeps guards and entries paired and counts   *)
(* no error.                                                               *)
LEMMA PairedStep == Sweepers = {} /\ TypeOK /\ Paired /\ [Next]_vars => Paired'
<1> SUFFICES ASSUME Sweepers = {}, TypeOK, Paired, [Next]_vars PROVE Paired'
  BY Zenon
<1> USE DEF Paired, GuardsOwnEntries, NoPhantomRelease
<1>1. ASSUME UNCHANGED <<reservations, guard, reservation_errors>> PROVE Paired'
  BY <1>1, Zenon
<1>2. ASSUME NEW h \in Holders, NEW src \in Sources \union {NoSource},
             NEW id \in RequestIds, NEW bytes \in Sizes,
             Reserve(h, src, id, bytes)
      PROVE  Paired'
  <2>1. /\ guard' = [guard EXCEPT ![h] = id] /\ id \notin Live(reservations)
        /\ UNCHANGED reservation_errors
    BY <1>2, Zenon DEF Reserve, Live
  <2>2. Live(reservations') = Live(reservations) \union {id}
    BY <1>2, ReserveLive, Zenon
  <2>3. guard'[h] = id /\ \A k \in Holders : k # h => guard'[k] = guard[k]
    BY <2>1, Zenon DEF TypeOK
  <2>4. \A k \in Holders : k # h => guard'[k] # id
    BY <2>1, <2>3, IdsAssumption
  <2> QED
    BY <2>1, <2>2, <2>3, <2>4
<1>3. ASSUME NEW h \in Holders, guard[h] # NoGuard, ReleaseInner(guard[h])
      PROVE  /\ Live(reservations') = Live(reservations) \ {guard[h]}
             /\ reservation_errors' = 0
  <2>1. guard[h] \in RequestIds /\ guard[h] \in Live(reservations)
    BY <1>3, Zenon DEF TypeOK
  <2> QED
    BY <1>3, <2>1, ReleaseLive, Zenon DEF ReleaseInner, ReleaseEntry, ReleaseMissing, Live
<1>4. ASSUME NEW h \in Holders, DropGuard(h) PROVE Paired'
  <2>1. guard[h] # NoGuard /\ guard' = [guard EXCEPT ![h] = NoGuard]
    BY <1>4, Zenon DEF DropGuard
  <2>2. Live(reservations') = Live(reservations) \ {guard[h]} /\ reservation_errors' = 0
    BY <1>3, <1>4, Zenon DEF DropGuard
  <2>3. guard'[h] = NoGuard /\ \A k \in Holders : k # h => guard'[k] = guard[k]
    BY <2>1, Zenon DEF TypeOK
  <2> QED
    BY <2>1, <2>2, <2>3
<1>5. ASSUME NEW h \in Holders, NEW t \in Holders, CommitMigration(h, t)
      PROVE  Paired'
  <2>1. /\ guard[h] # NoGuard /\ guard[t] # NoGuard /\ h # t
        /\ guard' = [guard EXCEPT ![h] = guard[t], ![t] = NoGuard]
    BY <1>5, Zenon DEF CommitMigration
  <2>2. Live(reservations') = Live(reservations) \ {guard[h]} /\ reservation_errors' = 0
    BY <1>3, <1>5, Zenon DEF CommitMigration
  <2>3. /\ guard'[h] = guard[t] /\ guard'[t] = NoGuard
        /\ \A k \in Holders : k # h /\ k # t => guard'[k] = guard[k]
    BY <2>1, Zenon DEF TypeOK
  <2>4. \A k \in Holders : guard[k] # NoGuard => guard[k] = guard[h] \/ guard[k] \in Live(reservations')
    BY <2>2, Zenon
  <2>5. \A k \in Holders : guard'[k] # NoGuard =>
          \E j \in Holders : j # h /\ guard'[k] = guard[j] /\ (k = h <=> j = t)
    BY <2>1, <2>3, Zenon
  <2>6. \A j, k \in Holders : guard[j] # NoGuard /\ guard[j] = guard[k] => j = k
    BY Zenon
  <2>7. ASSUME NEW k \in Holders, guard'[k] # NoGuard
        PROVE  guard'[k] \in Live(reservations')
    BY <2>1, <2>4, <2>5, <2>6, <2>7, ZenonT(60)
  <2>8. ASSUME NEW k \in Holders, NEW l \in Holders, guard'[k] # NoGuard,
               guard'[l] = guard'[k]
        PROVE  l = k
    <3>1. k # t /\ l # t
      BY <2>3, <2>8, Zenon
    <3>2. CASE k = h /\ l # h
      BY <2>1, <2>3, <2>6, <2>8, <3>1, <3>2
    <3>3. CASE l = h /\ k # h
      BY <2>1, <2>3, <2>6, <2>8, <3>1, <3>3
    <3>4. CASE k # h /\ l # h
      BY <2>3, <2>6, <2>8, <3>1, <3>4
    <3> QED
      BY <3>2, <3>3, <3>4, Zenon
  <2> QED
    BY <2>2, <2>7, <2>8, Zenon
<1>6. ASSUME NEW h \in Holders, NEW t \in Holders, AbortMigration(h, t)
      PROVE  Paired'
  <2>1. guard[t] # NoGuard /\ guard' = [guard EXCEPT ![t] = NoGuard]
    BY <1>6, Zenon DEF AbortMigration
  <2>2. Live(reservations') = Live(reservations) \ {guard[t]} /\ reservation_errors' = 0
    BY <1>3, <1>6, Zenon DEF AbortMigration
  <2>3. guard'[t] = NoGuard /\ \A k \in Holders : k # t => guard'[k] = guard[k]
    BY <2>1, Zenon DEF TypeOK
  <2> QED
    BY <2>1, <2>2, <2>3
<1>7. ASSUME NEW id \in RequestIds, Expire(id) PROVE Paired'
  <2>1. Live(reservations') = Live(reservations) /\ UNCHANGED <<guard, reservation_errors>>
    BY <1>7, ExpireLive, Zenon DEF Expire
  <2> QED
    BY <2>1, Zenon
<1> QED
  BY <1>1, <1>2, <1>4, <1>5, <1>6, <1>7, SMTT(60)
  DEF Next, RejectZero, RejectDuplicate, RejectOverCapacity, Refused, ledger, vars

(* Without sweeps, guards and entries are paired in every reachable state. *)
LEMMA PairedAlways == ASSUME Sweepers = {} PROVE Spec => []Paired
<1>1. Init => Paired
  BY Zenon DEF Init, Paired, GuardsOwnEntries, NoPhantomRelease
<1> QED
  BY <1>1, PairedStep, TypeCorrect, PTL DEF Spec

(* In a process that never sweeps, every guard owns exactly one entry. *)
THEOREM GuardsPaired == ASSUME Sweepers = {} PROVE Spec => []GuardsOwnEntries
<1>1. Paired => GuardsOwnEntries
  BY Zenon DEF Paired
<1> QED
  BY <1>1, PairedAlways, PTL

(* In a process that never sweeps, kv_reservation_error stays 0. *)
THEOREM NoPhantom == ASSUME Sweepers = {} PROVE Spec => []NoPhantomRelease
<1>1. Paired => NoPhantomRelease
  BY Zenon DEF Paired
<1> QED
  BY <1>1, PairedAlways, PTL

-----------------------------------------------------------------------------
(* The ledger implements KvBudget. *)

(* A grant is an entry without its age. *)
LEMMA GrantedEntry ==
  ASSUME TypeOK, NEW id \in RequestIds
  PROVE  /\ Granted[id] = NoEntry <=> reservations[id] = NoEntry
         /\ reservations[id] # NoEntry =>
              /\ Granted[id] \in Budget!Grants
              /\ Granted[id].bytes = reservations[id].bytes
              /\ Granted[id].source = reservations[id].source
<1>1. CASE reservations[id] = NoEntry
  BY <1>1, Zenon DEF Granted
<1>2. CASE reservations[id] # NoEntry
  <2>1. reservations[id] \in Entry
    BY <1>2, Zenon DEF TypeOK
  <2>2. Granted[id] = [bytes |-> reservations[id].bytes,
                       source |-> reservations[id].source]
    BY <1>2, Zenon DEF Granted
  <2>3. Granted[id] \in [bytes : 1..U64Max, source : Sources \union {NoSource}]
    BY <2>1, <2>2 DEF Entry
  <2>4. Granted[id] # NoEntry
    BY <2>3, EntryAssumption, Zenon
  <2> QED
    BY <1>2, <2>2, <2>3, <2>4, SMTT(60) DEF Budget!Grants
<1> QED
  BY <1>1, <1>2, Zenon

(* The abstract grants hold the same bytes as the map, in all and per source. *)
LEMMA GrantedBytes ==
  ASSUME TypeOK
  PROVE  /\ Bytes(Granted) = Bytes(reservations)
         /\ \A s \in Sources : Bytes(FromSource(Granted, s))
                                 = Bytes(FromSource(reservations, s))
<1>1. \A id \in RequestIds :
        /\ Granted[id] = NoEntry <=> reservations[id] = NoEntry
        /\ Granted[id] # NoEntry =>
             /\ Granted[id].bytes = reservations[id].bytes
             /\ Granted[id].source = reservations[id].source
  BY GrantedEntry, Zenon
<1>2. Cells(Granted) = Cells(reservations)
  BY <1>1, Zenon DEF Cells
<1>3. ASSUME NEW s \in Sources
      PROVE  Cells(FromSource(Granted, s))
               = Cells(FromSource(reservations, s))
  <2> DEFINE f == FromSource(Granted, s)
             g == FromSource(reservations, s)
  <2>1. \A id \in RequestIds : /\ f[id] = NoEntry <=> g[id] = NoEntry
                               /\ f[id] # NoEntry => f[id].bytes = g[id].bytes
    BY <1>1, Zenon DEF FromSource
  <2> HIDE DEF f, g
  <2>2. Cells(f) = Cells(g)
    BY <2>1, Zenon DEF Cells
  <2> QED
    BY <2>2, Zenon DEF f, g
<1>4. Bytes(Granted) = Bytes(reservations)
  BY <1>2, Zenon DEF Bytes
<1>5. ASSUME NEW s \in Sources
      PROVE  Bytes(FromSource(Granted, s))
               = Bytes(FromSource(reservations, s))
  BY <1>3, Zenon DEF Bytes
<1> QED
  BY <1>4, <1>5, Zenon

(* Steps that keep the ids, bytes and sources of the map are stutters. *)
LEMMA GrantedSame ==
  ASSUME UNCHANGED reservations
  PROVE  UNCHANGED Granted
BY Zenon DEF Granted

(* release_inner is a revocation of the budget, or a stutter when the id   *)
(* is missing.                                                             *)
LEMMA BudgetRelease ==
  ASSUME TypeOK, TypeOK', NEW id \in RequestIds, ReleaseInner(id)
  PROVE  Budget!Next \/ UNCHANGED Granted
<1>1. CASE ReleaseMissing(id)
  BY <1>1, GrantedSame, Zenon DEF ReleaseMissing
<1>2. CASE ReleaseEntry(id)
  <2>1. Granted[id] # NoEntry
    BY <1>2, GrantedEntry, Zenon DEF ReleaseEntry
  <2>2. Granted' = [Granted EXCEPT ![id] = NoEntry]
    BY <1>2, ZenonT(60) DEF ReleaseEntry, Granted, TypeOK
  <2>3. Budget!Revoke(id)
    BY <2>1, <2>2, Zenon DEF Budget!Revoke
  <2> QED
    BY <2>3, Zenon DEF Budget!Next
<1> QED
  BY <1>1, <1>2, Zenon DEF ReleaseInner

(* An admitted reservation is a grant within the budget. *)
LEMMA BudgetReserve ==
  ASSUME LedgerInv, LedgerInv', NEW h \in Holders,
         NEW src \in Sources \union {NoSource}, NEW id \in RequestIds,
         NEW bytes \in Sizes, Reserve(h, src, id, bytes)
  PROVE  Budget!Next
<1> DEFINE g == Granted'[id]
<1>1. TypeOK /\ TypeOK'
  BY Zenon DEF LedgerInv
<1>2. /\ reservations'[id] # NoEntry
      /\ \A x \in RequestIds : x # id => reservations'[x] = reservations[x]
  BY <1>1, ReserveLive
<1>3. \A x \in RequestIds :
        reservations'[x] # NoEntry => Granted'[x] \in Budget!Grants
  <2>1. ASSUME TypeOK', NEW x \in RequestIds, reservations'[x] # NoEntry
        PROVE  Granted'[x] \in Budget!Grants
    <3>1. reservations'[x] \in Entry
      BY <2>1, Zenon DEF TypeOK
    <3> QED
      BY <2>1, <3>1, Zenon DEF Granted, Entry, Budget!Grants
  <2> QED
    BY <1>1, <2>1, Zenon
<1>4. g \in Budget!Grants
  BY <1>2, <1>3, Zenon
<1>5. Granted[id] = NoEntry
  <2>1. reservations[id] = NoEntry
    BY Zenon DEF Reserve
  <2> QED
    BY <2>1, Zenon DEF Granted
<1>6. Granted' = [Granted EXCEPT ![id] = g]
  BY <1>2, ZenonT(60) DEF Granted
<1>7. /\ Bytes(Granted') = Bytes(reservations')
      /\ \A s \in Sources : Bytes(FromSource(Granted', s))
                              = Bytes(FromSource(reservations', s))
  <2>1. (TypeOK =>
          /\ Bytes(Granted) = Bytes(reservations)
          /\ \A s \in Sources : Bytes(FromSource(Granted, s))
                                  = Bytes(FromSource(reservations, s)))'
    BY GrantedBytes, PTL
  <2> QED
    BY <1>1, <2>1, Zenon
<1>8. /\ Bytes(reservations') <= CapacityBytes
      /\ \A s \in Sources : Bytes(FromSource(reservations', s)) <= MaxPerSource
  BY Zenon DEF LedgerInv, Accounting, Limits
<1>9. Budget!WithinBudget(Granted')
  BY <1>7, <1>8, Zenon DEF Budget!WithinBudget
<1> HIDE DEF g
<1>10. Budget!Grant(id, g)
  BY <1>5, <1>6, <1>9, Zenon DEF Budget!Grant
<1> QED
  BY <1>4, <1>10, Zenon DEF Budget!Next

(* Every step of the ledger is a grant, a revocation or a stutter. *)
LEMMA BudgetStep ==
  ASSUME LedgerInv, LedgerInv', [Next]_vars
  PROVE  [Budget!Next]_Granted
<1>1. TypeOK /\ TypeOK'
  BY Zenon DEF LedgerInv
<1>2. ASSUME UNCHANGED reservations PROVE UNCHANGED Granted
  BY <1>2, GrantedSame, Zenon
<1>3. ASSUME NEW h \in Holders, DropGuard(h) PROVE Budget!Next \/ UNCHANGED Granted
  BY <1>1, <1>3, BudgetRelease, Zenon DEF DropGuard, TypeOK
<1>4. ASSUME NEW h \in Holders, NEW t \in Holders, CommitMigration(h, t)
      PROVE  Budget!Next \/ UNCHANGED Granted
  BY <1>1, <1>4, BudgetRelease, Zenon DEF CommitMigration, TypeOK
<1>5. ASSUME NEW h \in Holders, NEW t \in Holders, AbortMigration(h, t)
      PROVE  Budget!Next \/ UNCHANGED Granted
  BY <1>1, <1>5, BudgetRelease, Zenon DEF AbortMigration, TypeOK
<1>6. ASSUME NEW w \in Sweepers, NEW id \in RequestIds, SweepRelease(w, id)
      PROVE  Budget!Next \/ UNCHANGED Granted
  BY <1>1, <1>6, BudgetRelease, Zenon DEF SweepRelease
<1>7. ASSUME NEW id \in RequestIds, Expire(id) PROVE UNCHANGED Granted
  <2>0. reservations'[id] # NoEntry
    BY <1>1, <1>7, ExpireLive, Zenon DEF Expire
  <2>1. reservations[id] \in Entry /\ reservations'[id] # NoEntry
    BY <1>1, <1>7, <2>0, ZenonT(60) DEF TypeOK, Expire
  <2>2. /\ reservations'[id].bytes = reservations[id].bytes
        /\ reservations'[id].source = reservations[id].source
    BY <1>1, <1>7, <2>1, Zenon DEF TypeOK, Expire, Entry
  <2>3. \A x \in RequestIds : x # id => reservations'[x] = reservations[x]
    BY <1>1, <1>7, ExpireLive, Zenon
  <2> QED
    BY <1>7, <2>1, <2>2, <2>3, ZenonT(60) DEF Granted, Expire
<1> QED
  BY <1>2, <1>3, <1>4, <1>5, <1>6, <1>7, BudgetReserve, SMTT(60)
  DEF Next, RejectZero, RejectDuplicate, RejectOverCapacity, Refused,
      SweepCollect, ledger, vars

(* The ledger with its running totals implements the budget with exact     *)
(* sums: a grant is made only while the true totals stay within bounds.    *)
THEOREM BudgetImplemented == Spec => RefinesBudget
<1>1. Init => Budget!Init
  BY Zenon DEF Init, Budget!Init, Granted
<1>2. LedgerInv /\ LedgerInv' /\ [Next]_vars => [Budget!Next]_Granted
  BY BudgetStep, Zenon
<1> QED
  BY <1>1, <1>2, LedgerInvAlways, PTL DEF Spec, RefinesBudget, Budget!Spec
=============================================================================
