------------------------------ MODULE StatePlane -----------------------------
(***************************************************************************)
(* The state plane (demiurge-state, snapshot.rs and gossip.rs): an         *)
(* immutable snapshot of the backends' warmth and telemetry behind one     *)
(* pointer.  A publisher loads it, edits a copy and stores the copy, with  *)
(* no lock between; publishers record warmth, apply gossip, heal a         *)
(* partition and bump the generation.  A seat is a pool and a label.       *)
(***************************************************************************)
EXTENDS CacheDomain

CONSTANTS
  Seats,       \* backends that a snapshot may hold
  Here,        \* the ones the plane was built with
  Publishers,
  Updates,     \* gossip: [seat, blocks, occ, kv, epoch]
  Remotes,     \* snapshots of other routers a heal may merge
  Tokens,      \* prompt lengths, and the tokens of a block
  BlockTokens,
  Items,       \* groups an administrator may register
  CacheSpecs,  \* values of DEMIURGE_CACHE_GROUPS, as sequences of items
  GenLimit     \* u64::MAX, where the generation saturates

ASSUME PlaneAssumption ==
  /\ Here \subseteq Seats /\ GenLimit \in Nat /\ BlockTokens \in Nat \ {0}
  /\ Tokens \subseteq Nat
  /\ \A m \in Updates :
       m.epoch \in 0..GenLimit /\ m.occ \in Nat /\ m.kv \in Nat /\ IsFiniteSet(m.blocks)
  /\ \A r \in Remotes :
       /\ r = [gen |-> r.gen, at |-> [x \in DOMAIN r.at |-> r.at[x]], idle |-> FALSE]
       /\ r.gen \in 0..GenLimit
       /\ \A x \in DOMAIN r.at :
            /\ r.at[x] = [warmth |-> r.at[x].warmth, occ |-> r.at[x].occ, kv |-> r.at[x].kv]
            /\ IsFiniteSet(r.at[x].warmth) /\ r.at[x].occ \in Nat /\ r.at[x].kv \in Nat

VARIABLES
  snap,     \* the published StateSnapshot
  pub,      \* per publisher: the edited copy it will store, or Nothing
  network,  \* gossip in flight
  settled,  \* history: what was published while nobody else was publishing
  made      \* history: who made which salted entry

plane == <<snap, pub, network, settled, made>>
planeVars == <<groups, plane>>

(* kv_capacity_bytes, which is set once and which no merge touches, is     *)
(* each router's own and left out.                                         *)
BackendSnapshot == [warmth : SUBSET Entries, occ : Nat, kv : Nat]
Cold == [warmth |-> {}, occ |-> 0, kv |-> 0]
Nothing == [gen |-> 0, at |-> [s \in {} |-> Cold], idle |-> TRUE]
Snapshot(gen, at) == [gen |-> gen, at |-> at, idle |-> FALSE]

IsSnapshot(s) ==
  /\ s.gen \in 0..GenLimit /\ DOMAIN s.at \subseteq Seats
  /\ \A x \in DOMAIN s.at : s.at[x] \in BackendSnapshot

(* What a snapshot holds: its entries, seat by seat. *)
Holds(s) == {h \in Seats \X Entries : h[1] \in DOMAIN s.at /\ h[2] \in s.at[h[1]].warmth}

PlaneTypeOK ==
  /\ DomainTypeOK /\ IsSnapshot(snap) /\ ~snap.idle
  /\ \A p \in Publishers : IsSnapshot(pub[p])
  /\ network \subseteq Updates /\ settled \in [gen : 0..GenLimit, entries : SUBSET (Seats \X Entries)]

PlaneInit ==
  /\ \E spec \in CacheSpecs :
       parse_cache_groups(spec).ok /\ groups = parse_cache_groups(spec).groups
  /\ snap = Snapshot(0, [s \in Here |-> Cold])
  /\ pub = [p \in Publishers |-> Nothing]
  /\ network = {} /\ made = {}
  /\ settled = [gen |-> 0, entries |-> {}]

----------------------------------------------------------------------------
(* The edits.  A backend the snapshot lacks is left out of it.             *)

MaxOf(a, b) == IF a > b THEN a ELSE b
MinOf(a, b) == IF a < b THEN a ELSE b

(* record_request_warmth *)
Recorded(s, x, tokens) ==
  IF x \notin DOMAIN s.at THEN {s}
  ELSE {[s EXCEPT !.gen = MinOf(@ + 1, GenLimit), !.at[x].warmth = w] :
          w \in Inserted(s.at[x].warmth, routing_blocks(tokens, BlockTokens) \X {Raw})}

(* insert_salted under the key the request's identity resolves to *)
RecordedSalted(s, x, id, b) ==
  IF x \notin DOMAIN s.at THEN {s}
  ELSE {[s EXCEPT !.at[x].warmth = w] :
          w \in Inserted(s.at[x].warmth, {salt_block(b, resolve_domain_key(id))})}

(* apply_gossip: telemetry is overwritten whatever the epoch. *)
Gossiped(s, m) ==
  LET t == [s EXCEPT !.gen = MaxOf(@, m.epoch)] IN
    IF m.seat \notin DOMAIN s.at THEN {t}
    ELSE {[t EXCEPT !.at[m.seat] = [warmth |-> w, occ |-> MinOf(m.occ, 10), kv |-> m.kv]] :
            w \in Inserted(s.at[m.seat].warmth, m.blocks \X {Raw})}

(* Mutant: the remote's warmth replaces what was known here. *)
MergeTakesRemote(mine, theirs) ==
  {[warmth |-> theirs.warmth, occ |-> MaxOf(mine.occ, theirs.occ), kv |-> MaxOf(mine.kv, theirs.kv)]}

merge(mine, theirs) ==
  {[warmth |-> w, occ |-> MaxOf(mine.occ, theirs.occ), kv |-> MaxOf(mine.kv, theirs.kv)] :
     w \in Inserted(mine.warmth, theirs.warmth)}

(* merge_pool over both pools, heal_merge *)
merge_pool(mine, theirs, x) ==
  IF x \notin DOMAIN theirs THEN {mine[x]}
  ELSE IF x \notin DOMAIN mine THEN {theirs[x]}
  ELSE merge(mine[x], theirs[x])

Healed(s, r) ==
  LET all == DOMAIN s.at \union DOMAIN r.at
      rows == UNION {merge_pool(s.at, r.at, x) : x \in all}
  IN  {Snapshot(MaxOf(s.gen, r.gen), f) :
         f \in {g \in [all -> rows] : \A x \in all : g[x] \in merge_pool(s.at, r.at, x)}}

Bumped(s) == {[s EXCEPT !.gen = @ + 1]}

----------------------------------------------------------------------------
(* update_snapshot: load, clone and edit; then store.                      *)

Load(p, edited) ==
  /\ pub[p].idle
  /\ \E s \in edited : pub' = [pub EXCEPT ![p] = s]
  /\ UNCHANGED <<groups, snap, settled>>

RecordWarmth(p, x, tokens) == Load(p, Recorded(snap, x, tokens)) /\ UNCHANGED <<network, made>>

(* insert_salted, which a caller of the library may use; the router itself *)
(* records plain blocks (RecordWarmth).                                    *)
RecordSalted(p, x, id, b) ==
  /\ groups # NoGroups
  /\ Load(p, RecordedSalted(snap, x, id, b))
  /\ made' = made \union {[entry |-> salt_block(b, resolve_domain_key(id)),
                           tenant |-> id.tenant, allowed |-> Authorized(id)]}
  /\ UNCHANGED network

(* A message may be delivered again, late, or never. *)
ApplyGossip(p, m) ==
  /\ m \in network /\ Load(p, Gossiped(snap, m))
  /\ network' \in {network, network \ {m}} /\ UNCHANGED made

HealMerge(p, r) == Load(p, Healed(snap, r)) /\ UNCHANGED <<network, made>>
BumpGeneration(p) == snap.gen < GenLimit /\ Load(p, Bumped(snap)) /\ UNCHANGED <<network, made>>

Alone(p) == \A q \in Publishers \ {p} : pub[q].idle

Store(p) ==
  /\ ~pub[p].idle
  /\ snap' = pub[p]
  /\ pub' = [pub EXCEPT ![p] = Nothing]
  /\ settled' = IF Alone(p) THEN [gen |-> pub[p].gen, entries |-> Holds(pub[p])] ELSE settled
  /\ UNCHANGED <<groups, network, made>>

(* publish_snapshot replaces the state at once, whatever is being edited. *)
PublishSnapshot(r) ==
  /\ snap' = r
  /\ settled' = IF \A p \in Publishers : pub[p].idle
                  THEN [gen |-> r.gen, entries |-> Holds(r)] ELSE [gen |-> 0, entries |-> {}]
  /\ UNCHANGED <<groups, pub, network, made>>

Send(m) == network' = network \union {m} /\ UNCHANGED <<groups, snap, pub, settled, made>>

(* register_template on a registry whose warmth is already there. *)
Register(item) ==
  /\ groups # NoGroups
  /\ groups' = register_template(groups, item.group,
       [members |-> item.members, template |-> item.template, domain |-> item.domain])
  /\ UNCHANGED plane

PlaneNext ==
  \/ \E p \in Publishers :
       \/ \E x \in Seats, n \in Tokens : RecordWarmth(p, x, n)
       \/ \E x \in Seats, id \in Identities, b \in Blocks : RecordSalted(p, x, id, b)
       \/ \E m \in Updates : ApplyGossip(p, m)
       \/ \E r \in Remotes : HealMerge(p, r)
       \/ BumpGeneration(p) \/ Store(p)
  \/ \E r \in Remotes : PublishSnapshot(r)
  \/ \E m \in Updates : Send(m)
  \/ \E item \in Items : Register(item)

PlaneSpec == PlaneInit /\ [][PlaneNext]_planeVars

----------------------------------------------------------------------------
(* Without a lock an update may be lost, but only to a publisher that was  *)
(* between its load and its store: what is published while nobody else is  *)
(* publishing stays, entries and generation, under any number of later     *)
(* overlapping publishers, gossip that comes twice or late, and heals,     *)
(* until publish_snapshot replaces the whole.                              *)
Durable == settled.entries \subseteq Holds(snap) /\ settled.gen <= snap.gen

(* A request sees warmth that another tenant made only while it is a       *)
(* member of the group it names and presents the group's template, and     *)
(* only if the other tenant was in the same position when it made it;      *)
(* groups may have been replaced any number of times in between.           *)
Isolated ==
  \A id \in Identities, m \in made, x \in DOMAIN snap.at :
    gated_hit_strength(snap.at[x].warmth \intersect {m.entry}, id, Blocks) > 0
    => m.tenant = id.tenant \/ (m.allowed /\ Authorized(id))

(* Two routers that heal from each other agree on generation, warmth,      *)
(* occupancy and live bytes, and healing again changes nothing, as long as *)
(* the warmth of both fits.                                                *)
HealConverges ==
  \A r \in Remotes :
    (\A x \in DOMAIN r.at \intersect DOMAIN snap.at :
       Cardinality(r.at[x].warmth \union snap.at[x].warmth) <= Limit) =>
    /\ Healed(snap, r) = Healed(r, snap)
    /\ \A s \in Healed(snap, r) : Healed(s, r) = {s}
=============================================================================
