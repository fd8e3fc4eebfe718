-------------------------- MODULE RequestFlowProofs --------------------------
(***************************************************************************)
(* Proofs about RequestFlow for every number of handlers, requests, labels *)
(* and sizes.                                                              *)
(***************************************************************************)
EXTENDS RequestFlow, TLAPS

FlowType ==
  /\ reservations \in [RequestIds -> Ledger!Entry \union {NoEntry}]
  /\ guard \in [Handlers -> RequestIds \union {NoGuard}]
  /\ used \subseteq RequestIds
  /\ next_id \in 1..(MaxRequests + 1)
  /\ decode \subseteq DecodeLabels
  /\ stage \in [Handlers -> {"idle", "prefill", "reserved", "placed", "decoding"}]
  /\ request \in [Handlers -> 0..MaxRequests]
  /\ source \in [Handlers -> Sources]
  /\ expected \in [Handlers -> Nat]
  /\ registry \in [RequestIds -> Published \union {NoEntry}]

(* The request ids under way are ids NEXT_REQUEST_ID has handed out, each  *)
(* to one handler, and the ledger has not seen the one of a prefill.       *)
IdsDistinct ==
  /\ \A h \in Handlers : stage[h] # "idle" => request[h] \in RequestIds /\ request[h] < next_id
  /\ \A h, k \in Handlers :
       stage[h] # "idle" /\ stage[k] # "idle" /\ request[h] = request[k] => h = k
  /\ \A id \in used : id < next_id
  /\ \A h \in Handlers : stage[h] = "prefill" => request[h] \notin used

(* A handler in session owns the entry of its request through its guard,   *)
(* one that is not holds no guard, and every entry has its session.        *)
Owns(h) ==
  /\ guard[h] = request[h]
  /\ reservations[request[h]] # NoEntry
  /\ reservations[request[h]].source = source[h]
  /\ reservations[request[h]].bytes >= expected[h]

SessionsOwn ==
  /\ reservation_errors = 0
  /\ \A h \in Handlers : InSession(h) => Owns(h)
  /\ \A h \in Handlers : ~InSession(h) => guard[h] = NoGuard
  /\ \A id \in RequestIds : reservations[id] # NoEntry =>
       \E h \in Handlers : InSession(h) /\ request[h] = id

FlowInv == FlowType /\ IdsDistinct /\ SessionsOwn /\ DecodeHasHandoff

-----------------------------------------------------------------------------

(* Nothing is reserved and no request is under way at the start. *)
LEMMA FlowInit == Init => FlowInv
<1> SUFFICES ASSUME Init PROVE FlowInv
  BY Zenon
<1>1. FlowType
  BY FlowAssumption DEF Init, Ledger!Init, FlowType, RequestIds
<1>2. IdsDistinct /\ SessionsOwn /\ DecodeHasHandoff
  BY Zenon DEF Init, Ledger!Init, IdsDistinct, SessionsOwn, DecodeHasHandoff, InSession
<1> QED
  BY <1>1, <1>2, Zenon DEF FlowInv

(* A step of one handler between two stages, seen from the others. *)
LEMMA GotoMoves ==
  ASSUME FlowType, NEW h \in Handlers, NEW from,
         NEW to \in {"idle", "prefill", "reserved", "placed", "decoding"}, Goto(h, from, to)
  PROVE  /\ stage[h] = from /\ stage'[h] = to /\ decode' = decode
         /\ \A k \in Handlers : k # h => stage'[k] = stage[k]
         /\ stage' \in [Handlers -> {"idle", "prefill", "reserved", "placed", "decoding"}]
BY Zenon DEF FlowType, Goto

(* NEXT_REQUEST_ID hands the new request an id no other request has. *)
LEMMA RouteKeeps ==
  ASSUME FlowInv, NEW h \in Handlers, NEW src \in Sources, NEW need \in Expected,
         Route(h, src, need)
  PROVE  FlowInv'
<1> USE DEF FlowInv
<1>1. Goto(h, "idle", "prefill") /\ next_id \in RequestIds /\ next_id' = next_id + 1
      /\ UNCHANGED <<ledger, registry>>
  BY Zenon DEF Route
<1>2. /\ stage[h] = "idle" /\ stage'[h] = "prefill" /\ decode' = decode
      /\ \A k \in Handlers : k # h => stage'[k] = stage[k]
      /\ stage' \in [Handlers -> {"idle", "prefill", "reserved", "placed", "decoding"}]
  BY <1>1, GotoMoves, Zenon
<1>3. /\ request'[h] = next_id /\ \A k \in Handlers : k # h => request'[k] = request[k]
      /\ \A k \in Handlers : k # h => source'[k] = source[k] /\ expected'[k] = expected[k]
  BY Zenon DEF Route, FlowType
<1>4. UNCHANGED <<reservations, reservation_errors, guard, used, registry>>
  BY <1>1, Zenon DEF ledger
<1>5. FlowType'
  <2>1. next_id \in 0..MaxRequests /\ next_id' \in 1..(MaxRequests + 1)
    BY <1>1, FlowAssumption DEF RequestIds
  <2>2. /\ request' \in [Handlers -> 0..MaxRequests] /\ source' \in [Handlers -> Sources]
        /\ expected' \in [Handlers -> Nat]
    BY <2>1, FlowAssumption, Zenon DEF FlowType, Route
  <2> QED
    BY <1>2, <1>4, <2>1, <2>2, Zenon DEF FlowType
<1>6. IdsDistinct'
  <2>1. /\ next_id \in Nat /\ next_id \in RequestIds
        /\ \A k \in Handlers : request[k] \in Nat
        /\ \A id \in used : id \in Nat
    BY <1>1, FlowAssumption DEF FlowType, RequestIds
  <2>2. \A k \in Handlers : stage'[k] # "idle" =>
          request'[k] \in RequestIds /\ request'[k] < next_id'
    BY <1>1, <1>2, <1>3, <2>1 DEF IdsDistinct
  <2>3. \A k \in Handlers : k # h /\ stage[k] # "idle" => request'[k] # request'[h]
    BY <1>3, <2>1 DEF IdsDistinct
  <2>4. \A j, k \in Handlers :
          stage'[j] # "idle" /\ stage'[k] # "idle" /\ request'[j] = request'[k] => j = k
    <3> SUFFICES ASSUME NEW j \in Handlers, NEW k \in Handlers, j # k,
                        stage'[j] # "idle", stage'[k] # "idle"
                 PROVE  request'[j] # request'[k]
      BY Zenon
    <3>1. CASE j = h \/ k = h
      BY <1>2, <2>3, <3>1, Zenon
    <3>2. CASE j # h /\ k # h
      BY <1>2, <1>3, <3>2 DEF IdsDistinct
    <3> QED
      BY <3>1, <3>2, Zenon
  <2>5. \A id \in used : id < next_id' /\ id # next_id
    BY <1>1, <2>1 DEF IdsDistinct
  <2>6. \A k \in Handlers : stage'[k] = "prefill" => request'[k] \notin used
    BY <1>2, <1>3, <2>5, Zenon DEF IdsDistinct
  <2> QED
    BY <1>4, <2>2, <2>4, <2>5, <2>6, Zenon DEF IdsDistinct
<1>7. SessionsOwn'
  BY <1>2, <1>3, <1>4 DEF SessionsOwn, InSession, Owns
<1>8. DecodeHasHandoff'
  BY <1>2, <1>3, <1>4 DEF DecodeHasHandoff
<1> QED
  BY <1>5, <1>6, <1>7, <1>8, Zenon

(* A step that leaves the requests, the ledger's entries and the registry  *)
(* alone, between stages that are both before or both in a session.        *)
LEMMA StageKeeps ==
  ASSUME FlowInv, FlowType', NEW h \in Handlers, NEW from, NEW to,
         \/ from = "prefill" /\ to = "idle"
         \/ from = "placed" /\ to = "decoding",
         Goto(h, from, to),
         UNCHANGED <<reservations, reservation_errors, guard, next_id, request, source, expected,
                     registry>>,
         used' \subseteq used \union {request[h]}
  PROVE  FlowInv'
<1> USE DEF FlowInv
<1>1. /\ stage[h] = from /\ stage'[h] = to
      /\ \A k \in Handlers : k # h => stage'[k] = stage[k]
  BY GotoMoves, ZenonT(60)
<1>2. IdsDistinct'
  BY <1>1, ZenonT(60) DEF IdsDistinct
<1>3. SessionsOwn'
  BY <1>1 DEF SessionsOwn, InSession, Owns
<1>4. DecodeHasHandoff'
  BY <1>1, ZenonT(60) DEF DecodeHasHandoff
<1> QED
  BY <1>2, <1>3, <1>4, Zenon

(* A reservation of an accepted claim starts a session that owns its entry. *)
LEMMA ReserveKeeps ==
  ASSUME FlowInv, NEW h \in Handlers, NEW bytes \in Claims, KvReserved(h, bytes)
  PROVE  FlowInv'
<1> USE DEF FlowInv
<1> DEFINE id == request[h]
           entry == [bytes |-> bytes, source |-> source[h], expired |-> FALSE]
<1>1. Goto(h, "prefill", "reserved") /\ UNCHANGED <<next_id, request, source, expected, registry>>
  BY Zenon DEF KvReserved
<1>2. /\ stage[h] = "prefill" /\ stage'[h] = "reserved" /\ decode' = decode
      /\ \A k \in Handlers : k # h => stage'[k] = stage[k]
      /\ stage' \in [Handlers -> {"idle", "prefill", "reserved", "placed", "decoding"}]
  BY <1>1, GotoMoves, Zenon
<1>3. /\ reservations' = [reservations EXCEPT ![id] = entry]
      /\ guard' = [guard EXCEPT ![h] = id] /\ reservations[id] = NoEntry
      /\ used' = used \union {id} /\ reservation_errors' = reservation_errors
  BY Zenon DEF KvReserved, Ledger!Reserve, Ledger!Draw
<1>4. bytes \in 1..U64Max /\ bytes >= expected[h]
  <2>1. ClaimAccepted(expected[h], bytes)
    BY Zenon DEF KvReserved
  <2> QED
    BY <2>1, FlowAssumption DEF ClaimAccepted
<1>5. id \in RequestIds
  BY <1>2, Zenon DEF IdsDistinct
<1>6. entry \in Ledger!Entry /\ entry # NoEntry /\ entry.bytes = bytes /\ entry.source = source[h]
  <2>1. source[h] \in Sources
    BY Zenon DEF FlowType
  <2>2. entry \in Ledger!Entry
    BY <1>4, <2>1, Zenon DEF Ledger!Entry
  <2>3. entry # NoEntry
    BY <2>2, FlowAssumption, Zenon
  <2> QED
    BY <2>2, <2>3, Zenon
<1> HIDE DEF entry, id
<1>7. /\ reservations'[id] = entry /\ guard'[h] = id
      /\ \A x \in RequestIds : x # id => reservations'[x] = reservations[x]
      /\ \A k \in Handlers : k # h => guard'[k] = guard[k]
  BY <1>3, <1>5, Zenon DEF FlowType
<1>8. FlowType'
  BY <1>1, <1>2, <1>3, <1>5, <1>6, Zenon DEF FlowType
<1>9. IdsDistinct'
  BY <1>1, <1>2, <1>3, ZenonT(60) DEF IdsDistinct, id
<1>10. \A k \in Handlers : k # h /\ stage[k] # "idle" => request[k] # id /\ request[k] \in RequestIds
  BY <1>2, Zenon DEF IdsDistinct, id
<1>11. SessionsOwn'
  <2>1. ASSUME NEW k \in Handlers, InSession(k)' PROVE Owns(k)'
    <3>1. CASE k = h
      BY <1>1, <1>4, <1>6, <1>7, <3>1, Zenon DEF Owns, id
    <3>2. CASE k # h
      <4>1. InSession(k) /\ stage[k] # "idle"
        BY <1>2, <2>1, <3>2, Zenon DEF InSession
      <4>2. reservations'[request[k]] = reservations[request[k]] /\ guard'[k] = guard[k]
        BY <1>7, <1>10, <3>2, <4>1, Zenon
      <4> QED
        BY <1>1, <4>1, <4>2, ZenonT(60) DEF SessionsOwn, Owns
    <3> QED
      BY <3>1, <3>2, Zenon
  <2>2. \A k \in Handlers : ~InSession(k)' => guard'[k] = NoGuard
    BY <1>2, <1>7, ZenonT(60) DEF SessionsOwn, InSession
  <2>3. ASSUME NEW x \in RequestIds, reservations'[x] # NoEntry
        PROVE  \E k \in Handlers : InSession(k)' /\ request'[k] = x
    <3>1. CASE x = id
      BY <1>1, <1>2, <3>1, Zenon DEF InSession, id
    <3>2. CASE x # id
      BY <1>1, <1>2, <1>7, <2>3, <3>2, ZenonT(60) DEF SessionsOwn, InSession
    <3> QED
      BY <3>1, <3>2, Zenon
  <2> QED
    BY <1>3, <2>1, <2>2, <2>3, Zenon DEF SessionsOwn
<1>12. DecodeHasHandoff'
  BY <1>1, <1>2, <1>7, <1>10 DEF DecodeHasHandoff
<1> QED
  BY <1>8, <1>9, <1>11, <1>12, Zenon

(* The end of a session gives back the entry of its own request, which is  *)
(* in the map: nothing is released twice and no other entry is touched.    *)
LEMMA DropKeeps ==
  ASSUME FlowInv, NEW h \in Handlers, NEW from \in {"reserved", "decoding"},
         Goto(h, from, "idle"), Ledger!DropGuard(h),
         UNCHANGED <<next_id, request, source, expected, registry>>
  PROVE  FlowInv'
<1> USE DEF FlowInv
<1> DEFINE id == request[h]
<1>1. /\ stage[h] = from /\ stage'[h] = "idle" /\ decode' = decode
      /\ \A k \in Handlers : k # h => stage'[k] = stage[k]
      /\ stage' \in [Handlers -> {"idle", "prefill", "reserved", "placed", "decoding"}]
  BY GotoMoves, Zenon
<1>2. guard[h] = id /\ reservations[id] # NoEntry /\ id \in RequestIds
  BY <1>1, Zenon DEF SessionsOwn, InSession, Owns, IdsDistinct
<1>3. /\ reservations' = [reservations EXCEPT ![id] = NoEntry]
      /\ guard' = [guard EXCEPT ![h] = NoGuard]
      /\ used' = used /\ reservation_errors' = reservation_errors
  BY <1>2, Zenon DEF Ledger!DropGuard, Ledger!ReleaseInner, Ledger!ReleaseEntry, Ledger!ReleaseMissing
<1> HIDE DEF id
<1>4. /\ reservations'[id] = NoEntry /\ guard'[h] = NoGuard
      /\ \A x \in RequestIds : x # id => reservations'[x] = reservations[x]
      /\ \A k \in Handlers : k # h => guard'[k] = guard[k]
  BY <1>2, <1>3, Zenon DEF FlowType
<1>5. FlowType'
  BY <1>1, <1>2, <1>3, Zenon DEF FlowType
<1>6. IdsDistinct'
  BY <1>1, <1>3, ZenonT(60) DEF IdsDistinct
<1>7. \A k \in Handlers : k # h /\ stage[k] # "idle" => request[k] # id /\ request[k] \in RequestIds
  BY <1>1, Zenon DEF IdsDistinct, id
<1>8. SessionsOwn'
  <2>1. ASSUME NEW k \in Handlers, InSession(k)' PROVE Owns(k)'
    <3>1. k # h /\ InSession(k) /\ stage[k] # "idle"
      BY <1>1, <2>1, Zenon DEF InSession
    <3>2. reservations'[request[k]] = reservations[request[k]] /\ guard'[k] = guard[k]
      BY <1>4, <1>7, <3>1, Zenon
    <3> QED
      BY <3>1, <3>2, ZenonT(60) DEF SessionsOwn, Owns
  <2>2. \A k \in Handlers : ~InSession(k)' => guard'[k] = NoGuard
    BY <1>1, <1>4, ZenonT(60) DEF SessionsOwn, InSession
  <2>3. ASSUME NEW x \in RequestIds, reservations'[x] # NoEntry
        PROVE  \E k \in Handlers : InSession(k)' /\ request'[k] = x
    <3>1. x # id /\ reservations[x] # NoEntry
      BY <1>4, <2>3, Zenon
    <3>2. PICK k \in Handlers : InSession(k) /\ request[k] = x
      BY <3>1, Zenon DEF SessionsOwn
    <3>3. k # h /\ InSession(k)'
      BY <1>1, <3>1, <3>2, Zenon DEF InSession, id
    <3> QED
      BY <3>2, <3>3, Zenon
  <2> QED
    BY <1>3, <2>1, <2>2, <2>3, Zenon DEF SessionsOwn
<1>9. DecodeHasHandoff'
  BY <1>1, <1>4, <1>7 DEF DecodeHasHandoff
<1> QED
  BY <1>5, <1>6, <1>8, <1>9, Zenon

(* The hand-off is published under the request's own id, for the bytes in  *)
(* the ledger.                                                             *)
LEMMA PlaceKeeps ==
  ASSUME FlowInv, NEW h \in Handlers, NEW label \in DecodeLabels, Place(h, label)
  PROVE  FlowInv'
<1> USE DEF FlowInv
<1> DEFINE id == request[h]
           handoff == [bytes |-> reservations[id].bytes, source |-> source[h], decode |-> label]
<1>1. Goto(h, "reserved", "placed") /\ UNCHANGED <<next_id, request, source, expected>>
      /\ UNCHANGED <<reservations, reservation_errors, guard, used>>
      /\ registry' = [registry EXCEPT ![id] = handoff]
  BY Zenon DEF Place, ledger
<1>2. /\ stage[h] = "reserved" /\ stage'[h] = "placed" /\ decode' = decode
      /\ \A k \in Handlers : k # h => stage'[k] = stage[k]
      /\ stage' \in [Handlers -> {"idle", "prefill", "reserved", "placed", "decoding"}]
  BY <1>1, GotoMoves, Zenon
<1>3. reservations[id] \in Ledger!Entry /\ id \in RequestIds
  BY <1>2 DEF SessionsOwn, InSession, Owns, IdsDistinct, FlowType
<1>4. /\ handoff \in Published /\ handoff # NoEntry
      /\ handoff.bytes = reservations[id].bytes /\ handoff.source = source[h]
  BY <1>3, FlowAssumption DEF Published, Ledger!Entry, FlowType
<1> HIDE DEF handoff, id
<1>5. /\ registry'[id] = handoff
      /\ \A x \in RequestIds : x # id => registry'[x] = registry[x]
  BY <1>1, <1>3, Zenon DEF FlowType
<1>6. FlowType'
  BY <1>1, <1>2, <1>3, <1>4, Zenon DEF FlowType
<1>7. IdsDistinct'
  BY <1>1, <1>2, ZenonT(60) DEF IdsDistinct
<1>8. SessionsOwn'
  <2>1. \A k \in Handlers : (InSession(k)' <=> InSession(k)) /\ (Owns(k)' <=> Owns(k))
    BY <1>1, <1>2, Zenon DEF InSession, Owns
  <2> QED
    BY <1>1, <2>1, Zenon DEF SessionsOwn
<1>9. DecodeHasHandoff'
  <2>1. \A k \in Handlers : k # h /\ stage[k] # "idle" => request[k] # id /\ request[k] \in RequestIds
    BY <1>2, Zenon DEF IdsDistinct, id
  <2> SUFFICES ASSUME NEW k \in Handlers, stage'[k] \in {"placed", "decoding"}
               PROVE  /\ registry'[request[k]] # NoEntry
                      /\ registry'[request[k]].bytes = reservations[request[k]].bytes
                      /\ registry'[request[k]].source = source[k]
    BY <1>1, ZenonT(60) DEF DecodeHasHandoff
  <2>2. CASE k = h
    BY <1>4, <1>5, <2>2, Zenon DEF id
  <2>3. CASE k # h
    <3>1. stage[k] \in {"placed", "decoding"} /\ stage[k] # "idle"
      BY <1>2, <2>3, Zenon
    <3>2. registry'[request[k]] = registry[request[k]]
      BY <1>5, <2>1, <2>3, <3>1, Zenon
    <3> QED
      BY <3>1, <3>2, Zenon DEF DecodeHasHandoff
  <2> QED
    BY <2>2, <2>3, Zenon
<1> QED
  BY <1>6, <1>7, <1>8, <1>9, Zenon

(* The clock changes no size and no source. *)
LEMMA AgeKeeps ==
  ASSUME FlowInv, NEW id \in RequestIds, Age(id)
  PROVE  FlowInv'
<1> USE DEF FlowInv
<1>1. /\ UNCHANGED <<next_id, decode, stage, request, source, expected, registry,
                     reservation_errors, guard, used>>
      /\ reservations[id] # NoEntry
      /\ reservations' = [reservations EXCEPT ![id].expired = TRUE]
  BY Zenon DEF Age, Ledger!Expire
<1>2. reservations[id] \in Ledger!Entry
  BY <1>1, Zenon DEF FlowType
<1> DEFINE e == [reservations[id] EXCEPT !.expired = TRUE]
<1>3. /\ e \in Ledger!Entry /\ e # NoEntry
      /\ e.bytes = reservations[id].bytes /\ e.source = reservations[id].source
  BY <1>2, FlowAssumption, Zenon DEF Ledger!Entry
<1>4. reservations' = [reservations EXCEPT ![id] = e]
  BY <1>1, Zenon
<1> HIDE DEF e
<1>5. \A x \in RequestIds :
        /\ reservations'[x] # NoEntry <=> reservations[x] # NoEntry
        /\ reservations[x] # NoEntry => /\ reservations'[x].bytes = reservations[x].bytes
                                        /\ reservations'[x].source = reservations[x].source
  BY <1>1, <1>3, <1>4, Zenon DEF FlowType
<1>6. FlowType'
  BY <1>1, <1>3, <1>4, ZenonT(60) DEF FlowType
<1>7. IdsDistinct'
  BY <1>1, Zenon DEF IdsDistinct
<1>8. \A h \in Handlers : InSession(h) => Owns(h)'
  BY <1>1, <1>5 DEF SessionsOwn, InSession, Owns, IdsDistinct
<1>9. SessionsOwn'
  BY <1>1, <1>5, <1>8, ZenonT(60) DEF SessionsOwn, InSession
<1>10. DecodeHasHandoff'
  BY <1>1, <1>5 DEF DecodeHasHandoff, SessionsOwn, InSession, Owns, IdsDistinct
<1> QED
  BY <1>6, <1>7, <1>9, <1>10, Zenon

(* Each step of a handler, and the clock, keeps the invariant. *)
LEMMA FlowStep == FlowInv /\ [Next]_vars => FlowInv'
<1> SUFFICES ASSUME FlowInv, [Next]_vars PROVE FlowInv'
  BY Zenon
<1>1. ASSUME NEW h \in Handlers, PrefillFails(h) \/ StartDecode(h) PROVE FlowInv'
  <2>1. /\ UNCHANGED <<reservations, reservation_errors, guard, used, next_id, request, source,
                       expected, registry>>
        /\ Goto(h, "prefill", "idle") \/ Goto(h, "placed", "decoding")
    BY <1>1, Zenon DEF PrefillFails, StartDecode, ledger
  <2>2. FlowType'
    BY <2>1, GotoMoves, Zenon DEF FlowInv, FlowType
  <2> QED
    BY <2>1, <2>2, StageKeeps, Zenon
<1>2. ASSUME NEW h \in Handlers, NEW bytes \in Claims,
             ClaimRejected(h, bytes) \/ KvAdmitRejected(h, bytes)
      PROVE  FlowInv'
  <2>1. /\ UNCHANGED <<reservations, reservation_errors, guard, next_id, request, source,
                       expected, registry>>
        /\ Goto(h, "prefill", "idle")
        /\ used' \subseteq used \union {request[h]}
    BY <1>2, Zenon DEF ClaimRejected, KvAdmitRejected, ledger, Ledger!RejectOverCapacity,
       Ledger!Refused, Ledger!Draw
  <2>2. request[h] \in RequestIds
    BY <2>1, GotoMoves DEF FlowInv, IdsDistinct
  <2>3. FlowType'
    BY <2>1, <2>2, GotoMoves, ZenonT(60) DEF FlowInv, FlowType
  <2> QED
    BY <2>1, <2>3, StageKeeps, Zenon
<1>3. ASSUME NEW h \in Handlers, NoBackend(h) \/ EndDecode(h) PROVE FlowInv'
  BY <1>3, DropKeeps, Zenon DEF NoBackend, EndDecode
<1>4. CASE UNCHANGED vars
  BY <1>4 DEF vars, ledger, FlowInv, FlowType, IdsDistinct, SessionsOwn, DecodeHasHandoff,
     InSession, Owns
<1> QED
  BY <1>1, <1>2, <1>3, <1>4, RouteKeeps, ReserveKeeps, PlaceKeeps, AgeKeeps, Zenon DEF Next

(* The inductive invariant holds in every reachable state. *)
LEMMA FlowAlways == Spec => []FlowInv
BY FlowInit, FlowStep, PTL DEF Spec

(* DEMI-KV-RELEASE for whole requests: the ledger holds a reservation for  *)
(* exactly the requests in session, through their own guards; no path out  *)
(* of handle_disaggregated leaks one or releases one twice.                *)
THEOREM SessionsExact == Spec => []SessionsReserved
<1>1. FlowInv => SessionsReserved
  <2> SUFFICES ASSUME FlowInv PROVE SessionsReserved
    BY Zenon
  <2>1. {id \in RequestIds : reservations[id] # NoEntry}
          = {request[h] : h \in {k \in Handlers : InSession(k)}}
    BY DEF FlowInv, SessionsOwn, Owns, IdsDistinct, InSession
  <2> QED
    BY <2>1, Zenon DEF FlowInv, SessionsOwn, Owns, SessionsReserved, Ledger!NoPhantomRelease
<1> QED
  BY <1>1, FlowAlways, PTL

(* DEMI-KV-HANDOFF: a request decodes only under the hand-off published    *)
(* for its own id, of the bytes reserved for it.                           *)
THEOREM DecodesOwnHandoff == Spec => []DecodeHasHandoff
<1>1. FlowInv => DecodeHasHandoff
  BY Zenon DEF FlowInv
<1> QED
  BY <1>1, FlowAlways, PTL

(* Every step of a request is one operation of the reservation ledger, or  *)
(* leaves it alone: what is proved about the ledger for any callers holds  *)
(* of it under the router's requests.                                      *)
THEOREM RequestsUseLedger == Spec => Ledger!Spec
<1>1. Init => Ledger!Init
  BY Zenon DEF Init
<1>2. FlowInv /\ [Next]_vars => [Ledger!Next]_(Ledger!vars)
  <2> SUFFICES ASSUME FlowInv, [Next]_vars PROVE Ledger!Next \/ UNCHANGED Ledger!vars
    BY Zenon
  <2>1. ASSUME UNCHANGED ledger PROVE UNCHANGED Ledger!vars
    BY <2>1, Zenon DEF ledger, Ledger!vars, Ledger!ledger
  <2>2. ASSUME NEW h \in Handlers, NEW bytes \in Claims,
               KvReserved(h, bytes) \/ KvAdmitRejected(h, bytes)
        PROVE  Ledger!Next
    <3>1. Goto(h, "prefill", "reserved") \/ Goto(h, "prefill", "idle")
      BY <2>2, Zenon DEF KvReserved, KvAdmitRejected
    <3>2. request[h] \in RequestIds /\ source[h] \in Sources
      BY <3>1, Zenon DEF FlowInv, IdsDistinct, FlowType, Goto
    <3>3. \/ Ledger!Reserve(h, source[h], request[h], bytes)
          \/ Ledger!RejectOverCapacity(h, source[h], request[h], bytes)
      BY <2>2, Zenon DEF KvReserved, KvAdmitRejected
    <3> QED
      BY <3>2, <3>3, Zenon DEF Ledger!Next
  <2>3. ASSUME NEW h \in Handlers, NoBackend(h) \/ EndDecode(h) PROVE Ledger!Next
    BY <2>3, Zenon DEF NoBackend, EndDecode, Ledger!Next
  <2>4. ASSUME NEW id \in RequestIds, Age(id) PROVE Ledger!Next
    BY <2>4, Zenon DEF Age, Ledger!Next
  <2>5. ASSUME NEW h \in Handlers,
               \/ \E src \in Sources, need \in Expected : Route(h, src, need)
               \/ \E bytes \in Claims : ClaimRejected(h, bytes)
               \/ \E label \in DecodeLabels : Place(h, label)
               \/ PrefillFails(h) \/ StartDecode(h)
        PROVE  UNCHANGED ledger
    BY <2>5, Zenon DEF Route, ClaimRejected, Place, PrefillFails, StartDecode
  <2>6. CASE UNCHANGED vars
    BY <2>1, <2>6, Zenon DEF vars
  <2> QED
    BY <2>1, <2>2, <2>3, <2>4, <2>5, <2>6, Zenon DEF Next
<1> QED
  BY <1>1, <1>2, FlowAlways, PTL DEF Spec, Ledger!Spec
=============================================================================
