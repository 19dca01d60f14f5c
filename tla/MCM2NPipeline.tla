---------------------------- MODULE MCM2NPipeline ----------------------------
(* Instances of M2NPipeline.  The routings send blocks of different length  *)
(* to the two expert ranks, in another order than the slots', and have      *)
(* unrouted slots, tokens whose choices share a rank and an idle rank.      *)
EXTENDS M2NPipeline

Routed(n, f(_, _)) == [a \in AgRanks |-> [mb \in 0..(n - 1) |-> f(a, mb)]]
Spread(n) == Routed(n, LAMBDA a, mb :
  IF mb = 1 THEN <<2, -1>> ELSE IF a = 0 THEN <<2, 0, 1, -1>> ELSE <<2, 1, 2, 0>>)
Idle(n)   == Routed(n, LAMBDA a, mb : IF a = 0 THEN <<-1, -1, 2, 1>> ELSE <<>>)

Exchanged(n, fixed) ==
  {[num_mb |-> n, route |-> route, fixed |-> fixed, fused |-> fused] :
     route \in {Spread(n), Idle(n)}, fused \in BOOLEAN}
ExchangedEach == Exchanged(2, FALSE) \union Exchanged(1, TRUE)
PaddedPairs   == Exchanged(2, TRUE)

Padded  == {[num_mb |-> 2, route |-> Routed(2, LAMBDA a, mb : <<1, 2>>),
             fixed |-> TRUE, fused |-> TRUE]}
Dynamic == {[s EXCEPT !.fixed = FALSE] : s \in Padded}
=============================================================================
