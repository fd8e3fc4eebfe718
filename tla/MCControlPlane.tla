---------------------------- MODULE MCControlPlane ---------------------------
(* Small instances of ControlPlane for TLC. *)
EXTENDS ControlPlane

CONSTANTS t1, t2, r1

(* Three casts: one ticker while the process and the interface are upset,  *)
(* two tickers, and a ticker beside a replay that actuates; the last two   *)
(* on a host that takes the program in the driver.                         *)
PlainNic == [native |-> TRUE, refuses |-> FALSE, forced |-> FALSE, ids |-> TRUE]

MCInit ==
  /\ Init
  /\ \/ upsets /\ cast = {t1} /\ ~actuate
     \/ ~upsets /\ cast = {t1, t2} /\ nic = PlainNic /\ mode = "hybrid"
     \/ ~upsets /\ cast = {t1, r1} /\ nic = PlainNic /\ mode = "hybrid" /\ actuate

(* Traffic alone under a sustained imbalance, actuation set up either way. *)
LoadedInit == Init /\ ~upsets /\ cast = {t1} /\ nic = PlainNic /\ mode = "hybrid" /\ actuate
LoadedSpec == LoadedInit /\ [][Next]_vars /\ Fairness
MCLoaded == {PoolPressure(0, 10, 5, 0, 0, 5)}

MCSpec == MCInit /\ [][Next]_vars /\ Fairness

(* Decode only, and prefill only: the least share and the whole one. *)
MCSignals == {PoolPressure(0, 10, 5, 0, 0, 5), PoolPressure(10, 0, 0, 0, 0, 5)}
=============================================================================
