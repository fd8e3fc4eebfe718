----------------------------- MODULE CacheDomain -----------------------------
(***************************************************************************)
(* Who may see whose prefix-cache warmth (demiurge-auth, lib.rs, and the   *)
(* salted half of demiurge-state's warmth.rs).  A member of a Shared-Prefix*)
(* Group who presents the registered template works under the group's      *)
(* cache-domain key, everybody else under a private key; warmth entries    *)
(* are salted with the key.  Keyed hashing is taken to be injective, so a  *)
(* salt is the key and a salted block the pair.                            *)
(***************************************************************************)
EXTENDS Naturals, Sequences, FiniteSets

CONSTANTS
  Tenants, Groups,  \* raw ids: one number may be both a tenant and a group
  Fps,              \* content fingerprints
  Domains,
  Blocks,           \* routing-key blocks
  Raw,              \* marks an entry that is not salted
  WarmthCap,        \* capacity of a WarmthMap
  LoadTenths        \* CACHE_CUCKOO_MAX_LOADFACTOR, in tenths

ASSUME DomainAssumption ==
  /\ Tenants \subseteq Nat /\ Groups \subseteq Nat /\ Domains \subseteq Nat
  /\ IsFiniteSet(Blocks) /\ WarmthCap \in Nat \ {0} /\ LoadTenths \in 1..10
  /\ Raw \notin [owner : Tenants \union Groups, domain : Domains \union {0}, shared : BOOLEAN]

VARIABLE groups  \* the registry: group -> members, template, domain

Keys == [owner : Tenants \union Groups, domain : Domains \union {0}, shared : BOOLEAN]
Entries == Blocks \X (Keys \union {Raw})
GroupEntry == [members : SUBSET Tenants, template : Fps, domain : Domains]
Identities == [tenant : Tenants, group : Groups, fp : Fps]
NoGroups == [g \in {} |-> {}]

DomainTypeOK == DOMAIN groups \subseteq Groups /\ \A g \in DOMAIN groups : groups[g] \in GroupEntry

----------------------------------------------------------------------------
register_template(reg, g, entry) ==
  [h \in DOMAIN reg \union {g} |-> IF h = g THEN entry ELSE reg[h]]

(* DEMIURGE_CACHE_GROUPS: items in order, a later one replacing an earlier *)
(* one of its group; one bad item, or one without tenants, refuses them    *)
(* all, and no item at all leaves the authority off.                       *)
parse_cache_groups(spec) ==
  LET last(g) == CHOOSE i \in DOMAIN spec : spec[i].group = g /\ \A j \in DOMAIN spec : spec[j].group = g => j <= i
      entry(item) == [members |-> item.members, template |-> item.template, domain |-> item.domain]
  IN  IF \E i \in DOMAIN spec : spec[i].bad \/ spec[i].members = {} THEN [ok |-> FALSE, groups |-> NoGroups]
      ELSE [ok |-> TRUE, groups |-> [g \in {spec[i].group : i \in DOMAIN spec} |-> entry(spec[last(g)])]]

is_member(g, t) == g \in DOMAIN groups /\ t \in groups[g].members
matches_template(g, fp) == g \in DOMAIN groups /\ groups[g].template = fp

private_domain_key(t, d) == [owner |-> t, domain |-> d, shared |-> FALSE]

Authorized(id) == is_member(id.group, id.tenant) /\ matches_template(id.group, id.fp)

(* Mutant: the registered template decides, and the membership is not      *)
(* looked at.                                                              *)
ResolveByTemplate(id) ==
  IF matches_template(id.group, id.fp)
    THEN [owner |-> id.group, domain |-> groups[id.group].domain, shared |-> TRUE]
    ELSE private_domain_key(id.tenant, 0)

(* resolve_shared_key, with the private key where it has none to give. *)
resolve_domain_key(id) ==
  IF Authorized(id)
    THEN [owner |-> id.group, domain |-> groups[id.group].domain, shared |-> TRUE]
    ELSE private_domain_key(id.tenant, 0)

----------------------------------------------------------------------------
(* WarmthMap: a set of entries that stops growing at its load factor.      *)

Limit == (WarmthCap * LoadTenths + 9) \div 10

(* insert for every entry of `new`, in any order: what is there stays, and *)
(* others are taken while the map is below its load factor.                *)
Inserted(w, new) ==
  LET room == IF Cardinality(w) < Limit THEN Limit - Cardinality(w) ELSE 0
      fresh == new \ w
  IN  IF Cardinality(fresh) <= room THEN {w \union fresh}
      ELSE {w \union s : s \in {t \in SUBSET fresh : Cardinality(t) = room}}

salt_block(b, key) == <<b, key>>
routing_blocks(tokens, size) == {i * size : i \in 0..(((tokens + size - 1) \div size) - 1)}

(* Lookups under a key, as a number of hits. *)
hit_strength_salted(w, blocks, key) == Cardinality({b \in blocks : salt_block(b, key) \in w})
gated_hit_strength(w, id, blocks) == hit_strength_salted(w, blocks, resolve_domain_key(id))
=============================================================================
