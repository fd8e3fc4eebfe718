------------------------------- MODULE KvBytes -------------------------------
(***************************************************************************)
(* The bytes a map of reservations really holds, counted from its entries  *)
(* and from no counter: the reference the ledger's running totals are      *)
(* compared with.  Every reserved byte is a pair <<id, k>>, so the total   *)
(* is the cardinality of a set and needs no recursion over the map.        *)
(***************************************************************************)
EXTENDS Integers, FiniteSets

CONSTANTS
  RequestIds,  \* the request ids callers use (a finite part of u64)
  NoEntry,     \* the id is not a key of the map
  U64Max       \* largest u64

ASSUME FiniteAssumption == IsFiniteSet(RequestIds) /\ U64Max \in Nat

Live(r) == {id \in RequestIds : r[id] # NoEntry}

Cells(r) ==
  {c \in RequestIds \X (1..U64Max) :
     /\ r[c[1]] # NoEntry
     /\ c[2] <= r[c[1]].bytes}

Bytes(r) == Cardinality(Cells(r))

(* The part of the map that one source accounts for. *)
FromSource(r, s) ==
  [id \in RequestIds |->
     IF r[id] # NoEntry /\ r[id].source = s THEN r[id] ELSE NoEntry]
=============================================================================
