---------------------------- MODULE MCAfdPipeline ----------------------------
(***************************************************************************)
(* Workloads of AfdPipeline for TLC: prompt lengths and answer limits.     *)
(***************************************************************************)
EXTENDS AfdPipeline

(* 2 needs two prefill chunks; 1 is still being answered when 3 takes its  *)
(* row over, and outlives three launched steps.                            *)
PromptsMixed == (1 :> 1 @@ 2 :> 3 @@ 3 :> 1)
AnswersMixed == (1 :> 4 @@ 2 :> 1 @@ 3 :> 2)

(* 1 is long enough to be aborted while three of its steps are in flight,  *)
(* 2 and 3 are short and may inherit its row.                              *)
PromptsAbort == (1 :> 1 @@ 2 :> 1 @@ 3 :> 1)
AnswersAbort == (1 :> 4 @@ 2 :> 2 @@ 3 :> 1)

(* Pages of three tokens: 1, 2 and 3 fit as tokens and not as pages; 4 is  *)
(* long enough to be aborted while three of its steps are in flight.       *)
PromptsPages == (1 :> 4 @@ 2 :> 1 @@ 3 :> 1 @@ 4 :> 1)
AnswersPages == (1 :> 1 @@ 2 :> 1 @@ 3 :> 1 @@ 4 :> 4)

(* One request per lane and one that waits.                                *)
PromptsLanes == (1 :> 1 @@ 2 :> 2 @@ 3 :> 1)
AnswersLanes == (1 :> 3 @@ 2 :> 1 @@ 3 :> 2)

(* Two requests, the first of which fits only without the second.          *)
PromptsTwo   == (1 :> 1 @@ 2 :> 2)
AnswersTwo   == (1 :> 5 @@ 2 :> 2)
=============================================================================
