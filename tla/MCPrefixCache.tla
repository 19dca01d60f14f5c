--------------------------- MODULE MCPrefixCache ----------------------------
(* Texts over two tokens: two that part after one page, one that is part   *)
(* of another, and one that shares nothing.                                *)
EXTENDS PrefixCache, TLC

CONSTANTS r1, r2, r3, r4

MCText == (r1 :> <<1, 1, 2, 2, 1>>) @@ (r2 :> <<1, 1, 2, 1, 1, 1>>)
          @@ (r3 :> <<1, 1, 2, 2>>) @@ (r4 :> <<2, 1, 1>>)
=============================================================================
