----------------------------- MODULE HandoffLog -----------------------------
(***************************************************************************)
(* What the hand-off crate keeps of a prefill's answer: the descriptor in  *)
(* its headers, the registry of descriptors, and the two sample rings of   *)
(* transfers, each behind a lock of its own.  A sample is written here as  *)
(* the id of its request.                                                  *)
(***************************************************************************)
EXTENDS Integers, Sequences, FiniteSets

CONSTANTS
  Ids,          \* requests
  Responses,    \* prefill responses: sequences of lines [h, v]
  Bad,          \* a value that does not parse
  TRANSFER_SAMPLES

ASSUME HandoffAssumption ==
  /\ TRANSFER_SAMPLES \in Nat \ {0}
  /\ \A r \in Responses : Len(r) \in Nat /\ r = [i \in 1..Len(r) |-> [h |-> r[i].h, v |-> r[i].v]]

VARIABLES
  response, desc,  \* of each request; {} for no descriptor
  at,              \* where each request is
  registry,
  transfer_bytes, transfer_wall_us,
  sizesLock,       \* who holds transfer_bytes' lock across two pushes
  reader           \* a metrics call: what it has cloned so far

handoffVars == <<response, desc, at, registry, transfer_bytes, transfer_wall_us, sizesLock, reader>>

----------------------------------------------------------------------------
AllLines(r) == r  \* mutant: the body is searched, too

(* parse_prefill_handoff: the lines up to the first blank one, or all of   *)
(* them; the last header of a name counts, even if it does not parse.      *)
Headers(r) ==
  LET blanks == {i \in 1..Len(r) : r[i].h = "blank"}
  IN IF blanks = {} THEN r ELSE SubSeq(r, 1, CHOOSE i \in blanks : \A j \in blanks : i <= j)

LastValue(lines, h) ==
  LET found == {i \in 1..Len(lines) : lines[i].h = h}
  IN IF found = {} THEN Bad ELSE lines[CHOOSE i \in found : \A j \in found : j <= i].v

from_raw(v) == IF v = 0 THEN Bad ELSE v

parse_prefill_handoff(r) ==
  LET handle == from_raw(LastValue(Headers(r), "handle"))
      bytes == LastValue(Headers(r), "bytes")
  IN IF Bad \in {handle, bytes} THEN {} ELSE {[kv_handle |-> handle, byte_len |-> bytes]}

is_valid(d) == d.kv_handle # 0 /\ d.byte_len > 0

(* The prefill's answer has been read; the descriptor is published under   *)
(* the request's id, if it is valid.                                       *)
Answer(id, r) ==
  /\ at[id] = "prefill"
  /\ response' = [response EXCEPT ![id] = r]
  /\ desc' = [desc EXCEPT ![id] = parse_prefill_handoff(r)]
  /\ registry' = registry \union {[id |-> id, d |-> d] : d \in {x \in parse_prefill_handoff(r) : is_valid(x)}}
  /\ at' = [at EXCEPT ![id] = IF \E d \in parse_prefill_handoff(r) : d.byte_len > 0 THEN "moved" ELSE "done"]
  /\ UNCHANGED <<transfer_bytes, transfer_wall_us, sizesLock, reader>>

----------------------------------------------------------------------------
(* record_transfer keeps the first lock to its end. *)

Pushed(ring, id) == Append(IF Len(ring) >= TRANSFER_SAMPLES THEN Tail(ring) ELSE ring, id)

(* Mutant: the sizes are unlocked before the walls are locked. *)
RecordSizeUnlocks(id) ==
  /\ at[id] = "moved"
  /\ transfer_bytes' = Pushed(transfer_bytes, id)
  /\ at' = [at EXCEPT ![id] = "sized"]
  /\ UNCHANGED <<response, desc, registry, transfer_wall_us, sizesLock, reader>>

RecordSize(id) ==
  /\ at[id] = "moved" /\ sizesLock = {}
  /\ transfer_bytes' = Pushed(transfer_bytes, id)
  /\ sizesLock' = {id}
  /\ at' = [at EXCEPT ![id] = "sized"]
  /\ UNCHANGED <<response, desc, registry, transfer_wall_us, reader>>

RecordWall(id) ==
  /\ at[id] = "sized"
  /\ transfer_wall_us' = Pushed(transfer_wall_us, id)
  /\ sizesLock' = sizesLock \ {id}
  /\ at' = [at EXCEPT ![id] = "done"]
  /\ UNCHANGED <<response, desc, registry, transfer_bytes, reader>>

(* take, which the router never calls. *)
take(id) ==
  /\ at[id] = "done" /\ \E e \in registry : e.id = id
  /\ registry' = {e \in registry : e.id # id}
  /\ UNCHANGED <<response, desc, at, transfer_bytes, transfer_wall_us, sizesLock, reader>>

(* transfer_metrics clones the rings one after the other. *)
CloneSizes ==
  /\ reader.at # "sizes" /\ sizesLock = {}
  /\ reader' = [at |-> "sizes", sizes |-> transfer_bytes, walls |-> <<>>]
  /\ UNCHANGED <<response, desc, at, registry, transfer_bytes, transfer_wall_us, sizesLock>>

CloneWalls ==
  /\ reader.at = "sizes"
  /\ reader' = [reader EXCEPT !.at = "walls", !.walls = transfer_wall_us]
  /\ UNCHANGED <<response, desc, at, registry, transfer_bytes, transfer_wall_us, sizesLock>>

HandoffInit ==
  /\ response = [id \in Ids |-> <<>>] /\ desc = [id \in Ids |-> {}]
  /\ at = [id \in Ids |-> "prefill"]
  /\ registry = {} /\ transfer_bytes = <<>> /\ transfer_wall_us = <<>> /\ sizesLock = {}
  /\ reader = [at |-> "idle", sizes |-> <<>>, walls |-> <<>>]

HandoffNext ==
  \/ \E id \in Ids, r \in Responses : Answer(id, r)
  \/ \E id \in Ids : RecordSize(id) \/ RecordWall(id) \/ take(id)
  \/ CloneSizes \/ CloneWalls

HandoffSpec == HandoffInit /\ [][HandoffNext]_handoffVars

----------------------------------------------------------------------------
(* What is claimed for a request comes from its response's headers: no     *)
(* line after the first blank one, and no other request's response, sets a *)
(* handle or a length.                                                     *)
ClaimFromHeaders ==
  \A id \in Ids : \A d \in desc[id] :
    \E i, j \in 1..Len(response[id]) :
      /\ response[id][i] = [h |-> "handle", v |-> d.kv_handle]
      /\ response[id][j] = [h |-> "bytes", v |-> d.byte_len]
      /\ \A k \in 1..(IF i < j THEN j ELSE i) : response[id][k].h # "blank"

(* The two rings hold the same transfers in the same order, but for one    *)
(* whose wall time is about to be pushed.                                  *)
RingsPaired ==
  IF sizesLock = {} THEN transfer_bytes = transfer_wall_us
  ELSE \E id \in sizesLock : transfer_bytes = Pushed(transfer_wall_us, id)

StartsWith(walls, sizes) == Len(sizes) <= Len(walls) /\ \A i \in 1..Len(sizes) : walls[i] = sizes[i]

(* The walls a summary cloned are at least as many as its sizes, and go on *)
(* where they left off.                                                    *)
SummaryPaired ==
  reader.at = "walls" =>
    /\ Len(reader.walls) >= Len(reader.sizes)
    /\ \E n \in 0..Len(reader.sizes) : StartsWith(reader.walls, SubSeq(reader.sizes, n + 1, Len(reader.sizes)))
                                       /\ (n > 0 => Len(reader.walls) = TRANSFER_SAMPLES)

(* However the pushes of concurrent transfers interleave, sizes and wall   *)
(* times stay paired in the rings; and a summary, which clones the rings   *)
(* one after the other without a lock on both, never shows sizes whose     *)
(* wall times it lacks.                                                    *)
TransfersPaired == RingsPaired /\ SummaryPaired
=============================================================================
