------------------------------ MODULE Samples ------------------------------
(***************************************************************************)
(* Order statistics of a sequence of samples: what the predictor, the      *)
(* shadow logs and the benches share.  Indices count from 0, as the code's *)
(* do.                                                                     *)
(***************************************************************************)
EXTENDS Integers, Sequences, FiniteSets

(* Index i of the samples at the positions I, once they are sorted: at     *)
(* most i of them are less, and more than i are not greater.               *)
Below(s, I, v) == Cardinality({j \in I : s[j] < v})
Upto(s, I, v) == Cardinality({j \in I : s[j] <= v})
Nth(s, I, i) == CHOOSE v \in {s[j] : j \in I} : Below(s, I, v) <= i /\ i < Upto(s, I, v)
At(s, i) == Nth(s, 1 .. Len(s), i)

Newest(s) == s[Len(s)]

Percent(n, d) == (n * 100) \div d
CeilDiv(n, d) == (n + d - 1) \div d
Greater(x, y) == IF x >= y THEN x ELSE y
Lesser(x, y) == IF x <= y THEN x ELSE y
=============================================================================
