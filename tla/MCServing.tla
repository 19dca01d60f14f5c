----------------------------- MODULE MCServing -----------------------------
(* Instances of Serving for TLC.                                             *)
EXTENDS Serving, TLC

MCNeed == 0 :> 2 @@ 1 :> 1

Start(n, s0, s1, e, l) ==
  [tokenizers |-> n, style |-> 0 :> s0 @@ 1 :> s1, eos |-> e, tooLong |-> l]

\* Two streams over a shared tokenizer; a stream
\* over a tokenizer of its own beside a prompt that does not fit; a batch,
\* one of its requests ended by an end token.
MCSettings == {Start(0, "text", "chat", {}, {}),
               Start(1, "chat", "text", {}, {1}),
               Start(1, "batch", "batch", {0}, {})}

\* Two tokenizers that the front end serves in turn.
MCTwoTokenizers == {Start(2, "chat", "chat", {0}, {})}
=============================================================================
