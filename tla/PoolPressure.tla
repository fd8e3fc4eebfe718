---------------------------- MODULE PoolPressure ----------------------------
(***************************************************************************)
(* The prefill share the rebalancer wants under a pressure (rebalancer.rs, *)
(* pressure.rs), in parts of `unit'.                                       *)
(***************************************************************************)
EXTENDS Integers

PoolPressure(q_prefill, q_decode, kv_decode, slo_prefill, slo_decode, fp_share) ==
  [q_prefill |-> q_prefill, q_decode |-> q_decode, kv_decode |-> kv_decode,
   slo_prefill |-> slo_prefill, slo_decode |-> slo_decode, fp_share |-> fp_share]

compute_pi_star(s, pi, unit) ==
  LET prefill == 35 * s.q_prefill * unit + 35 * s.slo_prefill * (unit - s.fp_share)
      decode == (35 * s.q_decode + 30 * s.kv_decode + 35 * s.slo_decode) * unit
  IN IF prefill + decode = 0 THEN pi ELSE (unit * prefill) \div (prefill + decode)
=============================================================================
