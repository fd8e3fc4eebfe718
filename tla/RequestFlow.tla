----------------------------- MODULE RequestFlow -----------------------------
(***************************************************************************)
(* A disaggregated request from the route to the end of its decode         *)
(* (demiurge-router, routing.rs and handle_disaggregated), over the KV     *)
(* reservation ledger and the hand-off registry it shares with every other *)
(* request.  Each handler thread waits for the prefill thread it spawned,  *)
(* so a handler and its prefill thread are one process here.               *)
(*                                                                         *)
(* Every ledger step is an action of ReservationLedger, instantiated with  *)
(* the callers this code has: no sweeper, since nothing in the router      *)
(* calls reclaim_expired, and ids from a counter.                          *)
(***************************************************************************)
EXTENDS Naturals, Sequences, FiniteSets

CONSTANTS
  Handlers,      \* threads in handle_disaggregated
  Sources,       \* labels of the prefill pool
  DecodeLabels,  \* labels of the decode pool
  MaxRequests,   \* bound on the requests that are routed
  Expected,      \* kv_reserved of the prompts that arrive
  Claims,        \* byte counts prefill responses claim
  Ceiling,       \* KV_HANDOFF_BYTE_CEILING_MULTIPLE
  CapacityBytes, RecentSamples, U64Max, NoEntry, NoGuard, NoSource

RequestIds == 1..MaxRequests

VARIABLES
  reservations, reserved_bytes, source_outstanding, recent_sizes,
  admit_rejects, reservation_errors, guard, used,  \* as in ReservationLedger
  next_id,   \* NEXT_REQUEST_ID
  decode,    \* the decode pool of this deployment
  stage,     \* per handler: where its request is
  request,   \* per handler: the RequestId of its request
  source,    \* per handler: the prefill backend's label
  expected,  \* per handler: kv_reserved for its prompt
  registry   \* HandoffRegistry: descriptors by request id

ledger == <<reservations, reserved_bytes, source_outstanding, recent_sizes,
            admit_rejects, reservation_errors, guard, used>>
vars == <<ledger, next_id, decode, stage, request, source, expected, registry>>

Ledger == INSTANCE ReservationLedger WITH
  Holders <- Handlers, Sweepers <- {}, Sizes <- Claims, Reusable <- {},
  MaxCount <- MaxRequests + 1, sweep <- [w \in {} |-> {}]

Published == [bytes : 1..U64Max, source : Sources, decode : DecodeLabels]

ASSUME FlowAssumption ==
  /\ MaxRequests \in Nat /\ Sources # {}
  /\ U64Max \in Nat /\ CapacityBytes \in Nat /\ CapacityBytes < U64Max
  /\ Expected \subseteq Nat /\ Claims \subseteq 0..U64Max
  /\ NoGuard \notin RequestIds /\ NoSource \notin Sources
  /\ NoEntry \notin Ledger!Entry /\ NoEntry \notin Published

TypeOK ==
  /\ Ledger!TypeOK
  /\ next_id \in 1..(MaxRequests + 1)
  /\ decode \subseteq DecodeLabels
  /\ stage \in [Handlers -> {"idle", "prefill", "reserved", "placed", "decoding"}]
  /\ request \in [Handlers -> 0..MaxRequests]
  /\ source \in [Handlers -> Sources]
  /\ expected \in [Handlers -> Nat]
  /\ registry \in [RequestIds -> Published \union {NoEntry}]

Init ==
  /\ Ledger!Init
  /\ next_id = 1
  /\ decode \in {{}, DecodeLabels}
  /\ stage = [h \in Handlers |-> "idle"]
  /\ request = [h \in Handlers |-> 0]
  /\ source \in [Handlers -> {CHOOSE s \in Sources : TRUE}]
  /\ expected = [h \in Handlers |-> 0]
  /\ registry = [id \in RequestIds |-> NoEntry]

Goto(h, from, to) ==
  /\ stage[h] = from
  /\ stage' = [stage EXCEPT ![h] = to]
  /\ UNCHANGED decode

----------------------------------------------------------------------------
(* route_impl chose the disaggregated path; dispatch_prefill starts. *)
Route(h, src, need) ==
  /\ next_id \in RequestIds
  /\ Goto(h, "idle", "prefill")
  /\ request' = [request EXCEPT ![h] = next_id]
  /\ next_id' = next_id + 1
  /\ source' = [source EXCEPT ![h] = src]
  /\ expected' = [expected EXCEPT ![h] = need]
  /\ UNCHANGED <<ledger, registry>>

(* Prefill I/O failed, or the response has no valid hand-off headers. *)
PrefillFails(h) ==
  /\ Goto(h, "prefill", "idle")
  /\ UNCHANGED <<ledger, next_id, request, source, expected, registry>>

(* on_prefill_complete: the floor and the ceiling on the claim. *)
ClaimAccepted(need, bytes) ==
  /\ bytes > 0
  /\ bytes >= need
  /\ bytes <= IF need * Ceiling > U64Max THEN U64Max ELSE need * Ceiling

ClaimRejected(h, bytes) ==
  /\ Goto(h, "prefill", "idle")
  /\ ~ClaimAccepted(expected[h], bytes)
  /\ UNCHANGED <<ledger, next_id, request, source, expected, registry>>

KvReserved(h, bytes) ==
  /\ Goto(h, "prefill", "reserved")
  /\ ClaimAccepted(expected[h], bytes)
  /\ Ledger!Reserve(h, source[h], request[h], bytes)
  /\ UNCHANGED <<next_id, request, source, expected, registry>>

KvAdmitRejected(h, bytes) ==
  /\ Goto(h, "prefill", "idle")
  /\ ClaimAccepted(expected[h], bytes)
  /\ Ledger!RejectOverCapacity(h, source[h], request[h], bytes)
  /\ UNCHANGED <<next_id, request, source, expected, registry>>

(* Mutant: the error path forgets the guard instead of dropping it. *)
NoBackendLeaks(h) ==
  /\ decode = {}
  /\ Goto(h, "reserved", "idle")
  /\ guard' = [guard EXCEPT ![h] = NoGuard]
  /\ UNCHANGED <<reservations, reserved_bytes, source_outstanding, recent_sizes,
                 admit_rejects, reservation_errors, used, next_id, request, source,
                 expected, registry>>

(* No decode backend (the decode pool is empty and is the colocated pool): *)
(* the `?` drops the reservation.                                          *)
NoBackend(h) ==
  /\ decode = {}
  /\ Goto(h, "reserved", "idle")
  /\ Ledger!DropGuard(h)
  /\ UNCHANGED <<next_id, request, source, expected, registry>>

(* Mutant: the analytic size is published instead of the claimed one. *)
PlaceExpected(h, label) ==
  /\ label \in decode
  /\ Goto(h, "reserved", "placed")
  /\ registry' = [registry EXCEPT ![request[h]] =
       [bytes |-> expected[h], source |-> source[h], decode |-> label]]
  /\ UNCHANGED <<ledger, next_id, request, source, expected>>

(* publish, and the placement sent to the handler. *)
Place(h, label) ==
  /\ label \in decode
  /\ Goto(h, "reserved", "placed")
  /\ registry' = [registry EXCEPT ![request[h]] =
       [bytes |-> reservations[request[h]].bytes, source |-> source[h], decode |-> label]]
  /\ UNCHANGED <<ledger, next_id, request, source, expected>>

(* handle_disaggregated receives the placement and proxies to it. *)
StartDecode(h) ==
  /\ Goto(h, "placed", "decoding")
  /\ UNCHANGED <<ledger, next_id, request, source, expected, registry>>

(* The proxy ended, with or without an error: drop(placement.reservation). *)
EndDecode(h) ==
  /\ Goto(h, "decoding", "idle")
  /\ Ledger!DropGuard(h)
  /\ UNCHANGED <<next_id, request, source, expected, registry>>

Age(id) ==
  /\ Ledger!Expire(id)
  /\ UNCHANGED <<next_id, decode, stage, request, source, expected, registry>>

Next ==
  \/ \E h \in Handlers :
       \/ \E src \in Sources, need \in Expected : Route(h, src, need)
       \/ \E bytes \in Claims :
            ClaimRejected(h, bytes) \/ KvReserved(h, bytes) \/ KvAdmitRejected(h, bytes)
       \/ \E label \in DecodeLabels : Place(h, label)
       \/ PrefillFails(h) \/ NoBackend(h) \/ StartDecode(h) \/ EndDecode(h)
  \/ \E id \in RequestIds : Age(id)

Spec == Init /\ [][Next]_vars

(* The router's own steps happen; a client or a decode backend may hang. *)
RouterStep(h) ==
  \/ NoBackend(h) \/ StartDecode(h) \/ \E label \in DecodeLabels : Place(h, label)

FairSpec == Spec /\ \A h \in Handlers : WF_vars(RouterStep(h))

----------------------------------------------------------------------------
InSession(h) == stage[h] \in {"reserved", "placed", "decoding"}

(* DEMI-KV-RELEASE over whole requests: the ledger holds a reservation for *)
(* exactly the requests between admission and the end of their decode, of  *)
(* the size and source they were admitted with; every error path and every *)
(* end of a proxy has given its bytes back, once.                          *)
SessionsReserved ==
  /\ Ledger!NoPhantomRelease
  /\ {id \in RequestIds : reservations[id] # NoEntry}
       = {request[h] : h \in {k \in Handlers : InSession(k)}}
  /\ \A h \in Handlers : InSession(h) =>
       /\ guard[h] = request[h]
       /\ reservations[request[h]].source = source[h]
       /\ reservations[request[h]].bytes >= expected[h]

(* DEMI-KV-HANDOFF: a request is decoded only under its own published      *)
(* hand-off, for the bytes that are reserved for it, whatever the other    *)
(* requests publish.                                                       *)
DecodeHasHandoff ==
  \A h \in Handlers : stage[h] \in {"placed", "decoding"} =>
    /\ registry[request[h]] # NoEntry
    /\ registry[request[h]].bytes = reservations[request[h]].bytes
    /\ registry[request[h]].source = source[h]

(* requirements.toml, DEMI-KV-RELEASE: "Session end, abort, or TTL always  *)
(* releases KV reservation."  A reservation past its TTL is released.      *)
TtlReleases ==
  \A id \in RequestIds :
    (reservations[id] # NoEntry /\ reservations[id].expired)
      ~> (reservations[id] = NoEntry)
=============================================================================
