------------------------------ MODULE KvBudget -------------------------------
(***************************************************************************)
(* What the reservation ledger promises, without saying how: a set of      *)
(* grants whose exact byte sum never exceeds the fleet capacity, and whose *)
(* sum per prefill source never exceeds that source's share.  A grant is   *)
(* given only while both sums stay within bounds, and taken back whole.    *)
(***************************************************************************)
EXTENDS Integers

CONSTANTS
  RequestIds, NoEntry, Sources, NoSource, U64Max,
  CapacityBytes,      \* bytes of the decode pool
  MaxPerSource,       \* bytes one prefill source may hold
  Bytes(_),           \* the sum over a map of grants
  FromSource(_, _)    \* the part of a map that one source accounts for

VARIABLE granted

Grants == [bytes : 1..U64Max, source : Sources \union {NoSource}]

Init == granted = [id \in RequestIds |-> NoEntry]

WithinBudget(g) ==
  /\ Bytes(g) <= CapacityBytes
  /\ \A s \in Sources : Bytes(FromSource(g, s)) <= MaxPerSource

Grant(id, g) ==
  /\ granted[id] = NoEntry
  /\ granted' = [granted EXCEPT ![id] = g]
  /\ WithinBudget(granted')

Revoke(id) ==
  /\ granted[id] # NoEntry
  /\ granted' = [granted EXCEPT ![id] = NoEntry]

Next ==
  \E id \in RequestIds : (\E g \in Grants : Grant(id, g)) \/ Revoke(id)

Spec == Init /\ [][Next]_granted
=============================================================================
