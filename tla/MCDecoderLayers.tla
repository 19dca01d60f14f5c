--------------------------- MODULE MCDecoderLayers ---------------------------
(* The kernels of a decoder layer in one run: each behaviour is one call of *)
(* one of them, with the kernels' dimensions scaled down.                   *)
EXTENDS MoeLayer, GroupedRunner, Attention, WeightLoading

VARIABLE unit  \* the part of the layer that is called

lvars == <<unit, vars, gvars, avars, wvars>>

-----------------------------------------------------------------------------
(* Layers and batches of the experts, with the kernels' tiles scaled down. *)

MCTiles ==
  [decode        |-> [m |-> 2, n |-> 2, k |-> 4, group |-> 1],
   middle        |-> [m |-> 3, n |-> 2, k |-> 1, group |-> 2],
   prefill       |-> [m |-> 4, n |-> 3, k |-> 2, group |-> 2],
   packedDecode  |-> [m |-> 2, n |-> 1, k |-> 4, group |-> 2],
   packedPrefill |-> [m |-> 4, n |-> 2, k |-> 4, group |-> 2]]

\* Rows with many equal scores.
Pattern(E, n, a, b) ==
  [r \in 0..(n - 1) |-> [e \in 0..(E - 1) |-> ((a * e + b * (e \div 2) + r * e * e) % 3) + 1]]

Base(router, rows, topk) ==
  [router |-> router, rows |-> rows, topk |-> topk, renormalize |-> TRUE, maxElts |-> 2,
   bias |-> <<>>, nonPadded |-> <<>>, expertMap |-> <<>>, hidden |-> <<>>, gate |-> <<>>,
   epSize |-> 1, packed |-> FALSE, fp8 |-> FALSE, weightOnInput |-> FALSE, inner |-> 2, width |-> 3]

Biases(E) == {<<[e \in 0..(E - 1) |-> (e * e) % 4]>>, <<[e \in 0..(E - 1) |-> -((e + 1) % 3)]>>}

\* All score rows of up to four experts, patterned ones beyond; one and
\* several rows; both element sizes; every instance of the kernels.
RouterLayers ==
  {Base("launch", [r \in {0} |-> f], k) : f \in [0..3 -> 1..3], k \in {1, 3}}
  \union {Base("launch", Pattern(E, n, a, 1), k) :
            E \in {4, 5, 7, 8, 16}, n \in {1, 3}, a \in 0..2, k \in {1, 2, 3, 4}}
  \union {[Base("gating", Pattern(E, n, a, 2), k) EXCEPT !.bias = b, !.maxElts = w, !.renormalize = FALSE] :
            E \in {8, 16}, n \in {1, 3}, a \in 0..2, k \in {1, 3}, w \in {2, 4}, b \in Biases(16)}
  \union {[Base("gating", Pattern(6, n, a, 2), k) EXCEPT !.bias = b] :
            n \in {1, 3}, a \in 0..2, k \in {1, 3, 6}, b \in Biases(6) \union {<<>>}}
  \union {[Base("group", Pattern(E, 3, a, 1), k) EXCEPT !.nonPadded = v, !.maxElts = w,
                                                        !.expertMap = [e \in 0..(E - 1) |-> (e + 3) % E]] :
            E \in {2, 8, 16}, a \in 0..2, k \in {1, 2}, v \in {<<>>, <<2>>, <<5>>}, w \in {2, 4}}
  \union {[Base(router, Pattern(E, n, 0, 0), k) EXCEPT
              !.hidden = [r \in 0..(n - 1) |-> [i \in 0..(H - 1) |-> ((i + r) % 2) + 1]],
              !.gate = [e \in 0..(E - 1) |-> [i \in 0..(H - 1) |-> ((e * i) % 3) + 1]],
              !.bias = IF router = "minimax" THEN <<[e \in 0..(E - 1) |-> e % 2]>> ELSE <<>>] :
            router \in {"gate", "minimax"}, E \in {4, 8}, H \in {8, 16}, n \in {1, 2},
            k \in {x \in {1, 3, 5} : \A h \in {8, 16}, e \in {4, 8} : GateTopkAccepts(h, e, x, TRUE)}}

\* Whole layers: dense, expert parallel with an even and an uneven split,
\* packed weights, fp8, rows of padding, the weight on the input.
WholeLayers ==
  {[Base("softmax", Pattern(E, n, a, 1), 2) EXCEPT !.epSize = p, !.packed = q, !.width = IF q THEN 6 ELSE 3,
                                                  !.weightOnInput = i, !.nonPadded = v] :
     E \in {3, 4}, n \in {2, 3}, a \in 0..1, p \in {1, 2}, q \in BOOLEAN, i \in BOOLEAN, v \in {<<>>, <<1>>}}
  \union {[Base("gating", Pattern(6, 5, 1, 1), 2) EXCEPT !.epSize = p, !.bias = b] :
             p \in {1, 4}, b \in Biases(6)}
  \union {[Base("softmax", Pattern(4, n, 1, 1), 2) EXCEPT !.epSize = p, !.fp8 = TRUE, !.inner = 4, !.width = 6,
                                                          !.weightOnInput = i, !.nonPadded = v] :
             n \in {1, 3, 5}, p \in {1, 2}, i \in BOOLEAN, v \in {<<>>, <<1>>}}

MCLayers == RouterLayers \union WholeLayers

-----------------------------------------------------------------------------
(* Jobs of the fp8 products. *)

Job(layout, m, h, experts) ==
  [layout |-> layout, fp8 |-> TRUE, norm |-> FALSE, m |-> m, h |-> h, inner |-> 1, experts |-> experts,
   psum |-> <<>>, alignment |-> 1, mPad |-> 1, counts |-> <<>>, config |-> <<>>, batches |-> 1]

Configs == {<<>>} \union {<<[kx |-> k, ry |-> 16 \div k]>> : k \in {1, 2, 4}} \union {<<[kx |-> 4, ry |-> 1]>>}

\* Rows that are and are not a multiple of four, groups that fill a word or
\* not, the fused norm, a second batch on the same weights.
DenseJobs ==
  {[Job("dense", m, h, 1) EXCEPT !.config = c] : m \in {1, 3, 4, 6}, h \in {1, 4, 5, 8}, c \in Configs}
  \union {[Job("dense", m, 16, 1) EXCEPT !.batches = 2] : m \in {1, 5}}
  \union {[Job("dense", m, h, 1) EXCEPT !.norm = TRUE, !.batches = b] :
            m \in {1, 3, 5}, h \in {x \in 1..8 : NormAccepts(x)}, b \in {1, 2}}

\* Where the rows of each expert end.  An expert without rows ends where its
\* rows would begin, or where the one before it ends.
Ends(counts, alignment, aligned) ==
  LET end[e \in DOMAIN counts] ==
        LET before == IF e = 0 THEN 0 ELSE end[e - 1]
        IN IF counts[e] = 0 /\ ~aligned THEN before ELSE AlignUp(before, alignment) + counts[e]
  IN end

ExpertJobs ==
  UNION {{[Job("psum", AlignUp(Ends(c, a, TRUE)[E - 1], a) + 1, 1, E) EXCEPT
             !.inner = i, !.psum = Ends(c, a, way), !.alignment = a, !.counts = c, !.batches = 2, !.fp8 = f] :
            c \in [0..(E - 1) -> {0, 1, 3}], a \in {1, 4}, i \in {1, 5}, way \in BOOLEAN, f \in BOOLEAN} :
           E \in {1, 2, 3}}
  \union {[Job("masked", 2 * 4, 1, 2) EXCEPT !.inner = i, !.mPad = 4, !.counts = c, !.batches = 2, !.fp8 = f] :
            c \in [0..1 -> {0, 1, 4}], i \in {1, 5}, f \in BOOLEAN}

MCJobs == DenseJobs \union ExpertJobs

-----------------------------------------------------------------------------
(* Series of batches for attention. *)

Batch(phase, reqs) == [phase |-> phase, reqs |-> reqs]
Of(req, cached, extend) == [req |-> req, cached |-> cached, extend |-> extend]

\* Pages lie in no order; "C" continues the first two positions of "A".
PagesOf(size) ==
  IF size = 1 THEN [A |-> <<9, 2, 7, 4, 12, 15, 1, 6>>, B |-> <<3, 11, 5, 8, 14>>, C |-> <<9, 2, 10, 13>>, dummy |-> <<0>>]
  ELSE [A |-> <<4, 2, 1>>, B |-> <<3, 6, 7>>, C |-> <<4, 5>>, dummy |-> <<0>>]

Play(prefill, decode, overlap, graphs, batches) ==
  [prefill |-> prefill, decode |-> decode, overlap |-> overlap, graphs |-> graphs, batches |-> batches,
   pageSize |-> 1, pages |-> PagesOf(1), windows |-> <<0, 2>>, sink |-> FALSE, qo |-> 4, kv |-> 2,
   shared |-> [A |-> [len |-> 0, of |-> "A"], B |-> [len |-> 0, of |-> "B"], C |-> [len |-> 2, of |-> "A"],
               dummy |-> [len |-> 0, of |-> "dummy"]],
   before |-> [A |-> 0, B |-> 0, C |-> 0, dummy |-> 0]]

\* Prefill, a prefill in two chunks, one on a cached prefix, decode with and
\* without padding, a batch between.
Series ==
  <<Batch("prefill", <<Of("A", 0, 3), Of("B", 0, 1)>>),
    Batch("prefill", <<Of("B", 1, 2), Of("C", 2, 1)>>),
    Batch("decode", <<Of("A", 3, 1), Of("B", 3, 1), Of("C", 3, 1)>>),
    Batch("decode", <<Of("B", 4, 1), Of("A", 4, 1)>>)>>

SeriesPlays ==
  {[Play("triton", "triton", FALSE, g, Series) EXCEPT !.sink = s] : g \in {{}, {1, 2, 4}, {1, 2}}, s \in BOOLEAN}
  \union {[Play("fi", "fi", o, g, Series) EXCEPT !.windows = <<0, 0>>] : o \in BOOLEAN, g \in {{}, {1, 2, 4}, {2}}}
  \union {[Play("trtllm", "trtllm", o, g, Series) EXCEPT !.windows = <<0, 0>>, !.pageSize = 2, !.pages = PagesOf(2)] :
            o \in BOOLEAN, g \in {{}, {1, 2, 4}}}
  \union {[Play("torch_ref", "torch_ref", o, {}, Series) EXCEPT !.windows = <<0, 0>>] : o \in BOOLEAN}
  \union {[Play("torch_ref", "triton", FALSE, {4}, Series) EXCEPT !.windows = <<0, 0>>]}

\* One batch on a store that holds what came before: all lengths, windows,
\* splits and blocks.
KernelPlays ==
  UNION {{[Play("triton", "triton", FALSE, {}, <<Batch("decode", b)>>) EXCEPT
      !.windows = <<0, w>>, !.sink = s, !.kv = kv, !.before = [A |-> a, B |-> 2, C |-> 0, dummy |-> 0]] :
      w \in {1, 3}, s \in BOOLEAN, kv \in {1, 4}, b \in {<<Of("A", a, 1)>>, <<Of("B", 2, 1), Of("A", a, 1)>>}} : a \in 0..7}
  \union UNION {{[Play("triton", "triton", FALSE, {}, <<Batch("prefill", <<Of("B", 2, 2), Of("A", a, n)>>)>>) EXCEPT
      !.windows = <<0, w>>, !.sink = s, !.before = [A |-> a, B |-> 2, C |-> 0, dummy |-> 0]] :
      w \in {1, 2, 3}, s \in BOOLEAN, n \in 1..(8 - a)} : a \in 0..3}

MCPlays == SeriesPlays \union KernelPlays

\* The loop that is the default, with the backends that are.
OverlapPlays == {Play("triton", "triton", TRUE, {1, 2, 4}, Series)}

-----------------------------------------------------------------------------
(* Checkpoints. *)

Weight(scope, expert, proj) == Key(scope, expert, proj, "weight")
\* A linear layer of the checkpoint: its weight and what comes with it.
Linear(l, scope, expert, proj, bias) ==
  <<Weight(scope, expert, proj)>>
  \o (CASE l.quant = "fp8" -> <<Key(scope, expert, proj, "weight_scale_inv")>>
        [] l.quant = "fp8_channel" -> <<Key(scope, expert, proj, "weight_scale")>>
        [] OTHER -> <<>>)
  \o (IF bias THEN <<Key(scope, expert, proj, "bias")>> ELSE <<>>)

\* Tensors that have to be in one file, in the order of the files.
Units(l) ==
  LET attn == [i \in 1..4 |-> Linear(l, "self_attn", -1, <<"k_proj", "o_proj", "q_proj", "v_proj">>[i], l.bias)]
      names == IF l.minimax THEN <<"w1", "w2", "w3">> ELSE <<"down_proj", "gate_proj", "up_proj">>
      expert(e) == [i \in 1..3 |-> Linear(l, "experts", e, names[i], FALSE)]
      stack(proj) == <<Key("experts", -1, proj, "bias"), Key("experts", -1, proj, "blocks"), Key("experts", -1, proj, "scales")>>
  IN <<<<Weight("vision_tower", -1, "q_proj"), Weight("model", -1, "embed_tokens"), Weight("model", -1, "lm_head")>>,
       <<Weight("mlp", -1, "gate")>>>>
     \o (IF l.gptoss THEN <<stack("down_proj"), stack("gate_up_proj"), <<Key("self_attn", -1, "sinks", "")>>>>
         ELSE FlattenSeq([e \in 1..l.experts |-> expert(e - 1)]))
     \o (IF l.dense THEN [i \in 1..3 |-> Linear(l, "mlp", -1, <<"down_proj", "gate_proj", "up_proj">>[i], FALSE)] ELSE <<>>)
     \o attn

\* n files, filled in turn or in runs.
InFiles(l, n, inTurn) ==
  LET units == Units(l)
      fileOf(i) == IF inTurn THEN i % n ELSE ((i - 1) * n) \div Len(units)
      of(f) == FlattenSeq([i \in DOMAIN units |-> IF fileOf(i) = f THEN units[i] ELSE <<>>])
  IN [l EXCEPT !.files = [f \in 1..n |-> of(f - 1)]]

Model ==
  [role |-> "all", tp |-> 1, dp |-> 1, ep |-> 1, dense |-> FALSE, experts |-> 0, gptoss |-> FALSE,
   packed |-> FALSE, minimax |-> FALSE, quant |-> "none", block |-> <<2, 2>>, qo |-> 4, kv |-> 2, head |-> 2,
   hidden |-> 4, inter |-> 4, vocab |-> 8, tied |-> FALSE, bias |-> FALSE, files |-> <<>>]

\* Dense models, quantised or not; at tp 4 two ranks share a key head.
DenseModels ==
  {[Model EXCEPT !.dense = TRUE, !.tp = t, !.quant = q, !.bias = b, !.tied = b, !.inter = 8] :
     t \in {1, 2, 4}, q \in {"none", "fp8", "fp8_channel"}, b \in BOOLEAN}
\* One server: experts cut by tp, with and without a shared expert.
ExpertModels ==
  {[Model EXCEPT !.experts = 3, !.tp = t, !.quant = q, !.minimax = (q = "fp8"), !.dense = (q = "none"), !.qo = 2] :
     t \in {1, 2}, q \in {"none", "fp8", "fp8_channel"}}
\* gpt-oss, unpacked at load or kept packed; at tp 4 the last rank has none
\* of the three groups of the second.
GptOssModels ==
  {[Model EXCEPT !.gptoss = TRUE, !.bias = TRUE, !.experts = 2, !.tp = t, !.packed = p, !.inter = i, !.quant = "mxfp4"] :
     t \in {1, 2, 4}, p \in BOOLEAN, i \in {4, 6, 8}}
\* Roles of an AFD server, replicas, experts that do not divide evenly.
AfdModels ==
  {[Model EXCEPT !.role = "attention", !.experts = 3, !.tp = t, !.quant = q] : t \in {1, 2}, q \in {"none", "fp8"}}
  \union {[Model EXCEPT !.role = "attention", !.gptoss = TRUE, !.bias = TRUE, !.experts = 2, !.tp = t] : t \in {1, 2}}
  \union {[Model EXCEPT !.role = "expert", !.experts = e, !.tp = t, !.dp = d, !.ep = t * d, !.quant = q] :
            e \in {3, 5}, t \in {1, 2}, d \in {1, 2}, q \in {"none", "fp8", "fp8_channel"}}
  \union {[Model EXCEPT !.role = "expert", !.gptoss = TRUE, !.experts = e, !.tp = t, !.ep = t] : e \in {2, 4}, t \in {1, 2, 3}}

\* Per-expert files leave a rank without experts nothing to load.
EveryRankHasOne(l) == HasPartition(l) /\ ~l.gptoss => (RankCount(l) - 1) * div_ceil(l.experts, l.ep) < l.experts
MCLoads ==
  {InFiles(l, n, b) : l \in {x \in DenseModels \union ExpertModels \union GptOssModels \union AfdModels : EveryRankHasOne(x)},
                      n \in {2, 3}, b \in BOOLEAN}
NoLoads == {}

-----------------------------------------------------------------------------
MoeOff == stage = "start" /\ layer = (CHOOSE l \in Layers : TRUE) /\ route = {}
          /\ align = Nothing /\ cache = Nothing /\ act = Nothing /\ out = Nothing
RunnerOff == step = "off" /\ job = None /\ batch = 0 /\ weights = None /\ prepared = None
             /\ operand = None /\ middle = None /\ result = None

AttentionOff ==
  /\ play = NoValue /\ cpu = NoValue /\ sq = <<>> /\ eq = <<>> /\ sdone = 0 /\ edone = 0 /\ table = NoValue
  /\ own = NoValue /\ gens = NoValue /\ graph = NoValue /\ staged = NoValue /\ plan = NoValue
  /\ pool = NoValue /\ last = <<>>

WeightsOff ==
  /\ load = Model /\ opened = {} /\ reading = <<>> /\ mergeBuf = Empty /\ expertBuf = Empty /\ yielded = Empty
  /\ loaded = <<>> /\ raised = ""

LayersInit ==
  \/ unit = "moe" /\ Init /\ RunnerOff /\ AttentionOff /\ WeightsOff
  \/ unit = "runner" /\ GInit /\ MoeOff /\ AttentionOff /\ WeightsOff
  \/ unit = "attention" /\ AInit /\ MoeOff /\ RunnerOff /\ WeightsOff
  \/ unit = "weights" /\ WInit /\ MoeOff /\ RunnerOff /\ AttentionOff

LayersNext ==
  \/ unit = "moe" /\ Next /\ UNCHANGED <<unit, gvars, avars, wvars>>
  \/ unit = "runner" /\ GNext /\ UNCHANGED <<unit, vars, avars, wvars>>
  \/ unit = "attention" /\ ANext /\ UNCHANGED <<unit, vars, gvars, wvars>>
  \/ unit = "weights" /\ WNext /\ UNCHANGED <<unit, vars, gvars, avars>>

LayersSpec == LayersInit /\ [][LayersNext]_lvars
=============================================================================
