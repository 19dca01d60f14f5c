--------------------------- MODULE MCKVScheduler ---------------------------
(***************************************************************************)
(* Workloads of KVScheduler for TLC: prompts, output limits and, for       *)
(* conversations, which request is sent after which answer.                *)
(***************************************************************************)
EXTENDS KVScheduler

TwoTokens == [u \in 1..3 |-> 2]
FourTokens == [u \in 1..3 |-> 4]
OneToken  == [u \in 1..3 |-> 1]
FirstLong == (1 :> 3 @@ 2 :> 2 @@ 3 :> 2)
LastShort == (1 :> 4 @@ 2 :> 4 @@ 3 :> 2)

(* Two requests only.                                                      *)
BothTwo   == (1 :> 2 @@ 2 :> 2)
LongShort == (1 :> 4 @@ 2 :> 1)
NoOrder   == (1 :> {} @@ 2 :> {})

(* 2 continues the conversation of 1 (it repeats its prompt and the answer *)
(* "b"), 3 is a client of its own.                                         *)
Conversation    == (1 :> <<"a", "b">> @@ 2 :> <<"a", "b", "b", "a">> @@ 3 :> <<"c", "c", "c">>)
SecondFollows   == (1 :> {} @@ 2 :> {1} @@ 3 :> {})

(* Prompts of one length: 2 shares its first page with 1 and follows it.   *)
SameLength      == (1 :> <<"a", "b">> @@ 2 :> <<"a", "c">> @@ 3 :> <<"c", "b">>)

(* Two clients send the same prompt at the same time, a third another one. *)
Duplicates      == (1 :> <<"a", "b">> @@ 2 :> <<"a", "b">> @@ 3 :> <<"c", "c">>)
NoneFollows     == [u \in 1..3 |-> {}]

(* One-token prompts of one-token answers.                                 *)
Singles         == (1 :> <<"a">> @@ 2 :> <<"b">> @@ 3 :> <<"c">>)

(* A short prompt and a longer one.                                        *)
ShortLong       == (1 :> <<"a">> @@ 2 :> <<"b", "c", "c", "c">>)
=============================================================================
