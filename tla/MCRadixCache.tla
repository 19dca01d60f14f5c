---------------------------- MODULE MCRadixCache ----------------------------
(* Texts over two tokens that share whole pages, part of a page, or all.   *)
EXTENDS RadixCache, TLC

CONSTANTS r1, r2, r3

MCText == (r1 :> <<1, 1, 2, 2, 1, 1>>) @@ (r2 :> <<1, 1, 2, 1, 1, 1>>) @@ (r3 :> <<1, 1>>)
=============================================================================
