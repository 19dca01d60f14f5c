--------------------------- MODULE WeightLoading ---------------------------
(* From the files of a checkpoint to the tensors of every rank             *)
(* (models/weight.py, load_weight): files come in any order, tensors are   *)
(* cut for the rank, projections that the model keeps in one tensor wait   *)
(* for each other, experts wait for the other experts of the rank.         *)
(*                                                                         *)
(* A tensor is the labels of its rows and of its columns: a label <<part,  *)
(* expert, i>> is a row or column i of the checkpoint's own tensor (or     *)
(* scale block i of it).  A parameter is a sequence of tensors, one per    *)
(* expert.  One decoder layer stands for all: a key carries its layer.     *)
(* Left out: the eager dequantisation of weights that have scales and are  *)
(* not float8, which no supported checkpoint holds, and the key test for   *)
(* shared experts of the Mega backend.                                     *)
EXTENDS Integers, Sequences, FiniteSets, SequencesExt

CONSTANTS
  Loads,    \* the models, roles and files to load, see MCDecoderLayers
  MxGroup   \* values that share one MXFP4 scale (32)

VARIABLES
  load,       \* the model, the role of the ranks and the files
  opened,     \* files of this rank opened so far
  reading,    \* keys of the open file still to be read
  mergeBuf,   \* merge_buf: merged key -> slot -> tensor
  expertBuf,  \* expert_buf: key of the stack -> local expert -> tensor
  yielded,    \* the state dict
  loaded,     \* parameters of the ranks that are done
  raised      \* the assertion that failed

wvars == <<load, opened, reading, mergeBuf, expertBuf, yielded, loaded, raised>>
wbuffers == <<mergeBuf, expertBuf, yielded>>

div_ceil(a, b) == (a + b - 1) \div b

Key(scope, expert, proj, kind) == [scope |-> scope, expert |-> expert, proj |-> proj, kind |-> kind]
Put(f, k, v) == [x \in DOMAIN f \union {k} |-> IF x = k THEN v ELSE f[x]]
Drop(f, k) == [x \in DOMAIN f \ {k} |-> f[x]]
Empty == [x \in {} |-> x]

ZeroLabel == <<"zero", -1, 0>>
OneLabel  == <<"one", -1, 0>>   \* e8m0 127, the scale of padding
Labels(part, e, n) == [i \in 1..n |-> <<part, e, i - 1>>]
Repeat(n, x) == [i \in 1..n |-> x]

-----------------------------------------------------------------------------
(* Ranks.  load.tp ranks of a replica, load.dp replicas; experts are       *)
(* spread over load.ep of them.                                            *)

Rank == Len(loaded)
RankCount(l) == l.dp * l.tp
TpRank(l, r) == r % l.tp
EpRank(l, r) == IF l.ep = l.dp * l.tp /\ l.ep # l.tp THEN r ELSE TpRank(l, r)

HasPartition(l) == l.ep > 1
ExpertPartition(l, r) ==
  LET capacity == div_ceil(l.experts, l.ep)
      start == EpRank(l, r) * capacity
  IN IF HasPartition(l)
       THEN [start |-> start, end |-> IF start + capacity < l.experts THEN start + capacity ELSE l.experts,
             capacity |-> capacity]
       ELSE [start |-> 0, end |-> l.experts, capacity |-> l.experts]
\* mutant
RealLocalExperts_Capacity(p) == p.capacity
RealLocalExperts(p) == p.end - p.start

-----------------------------------------------------------------------------
(* Names.                                                                  *)

SplitDim0 == {"q_proj", "k_proj", "v_proj", "gate_proj", "up_proj", "w1", "w3"}
SplitDim1 == {"o_proj", "down_proj"}
KvProjs   == {"k_proj", "v_proj"}

MergeGroups ==
  [q_proj |-> "qkv_proj", k_proj |-> "qkv_proj", v_proj |-> "qkv_proj",
   gate_proj |-> "gate_up_proj", up_proj |-> "gate_up_proj", w1 |-> "gate_up_proj", w3 |-> "gate_up_proj"]
SlotNames ==
  [q_proj |-> "q", k_proj |-> "k", v_proj |-> "v", gate_proj |-> "gate", up_proj |-> "up", w1 |-> "gate", w3 |-> "up"]
SlotsOf(merged) == IF merged = "qkv_proj" THEN <<"q", "k", "v">> ELSE <<"gate", "up">>

CheckpointScales == {"weight_scale_inv", "weight_scale"}
IsScale(k) == k.kind \in CheckpointScales \union {"scale"}
IsExpertKey(k) == k.expert >= 0
IsForeign(k) == k.scope \in {"vision_tower", "multi_modal_projector", "nextn"}

\* The name the model knows: scales of experts and of the others end
\* differently, w2 is the down projection.
RuntimeName(k) ==
  [k EXCEPT !.proj = IF @ = "w2" THEN "down_proj" ELSE @,
            !.kind = IF @ \notin CheckpointScales THEN @ ELSE IF IsExpertKey(k) THEN "scale" ELSE "weight_scale"]
StackKey(k) == [k EXCEPT !.expert = -1]

GptOssSpecials == {<<"gate_up_proj", "bias">>, <<"down_proj", "bias">>}
IsGptOssSpecial(k) ==
  \/ k.scope = "experts" /\ <<k.proj, k.kind>> \in GptOssSpecials
  \/ k.scope = "self_attn" /\ k.proj = "sinks"

-----------------------------------------------------------------------------
(* Cutting a tensor for a rank.                                            *)

Cut(s, a, b) == SubSeq(s, a + 1, IF b < Len(s) THEN b ELSE Len(s))
Chunk(s, l, r) == LET size == div_ceil(Len(s), l.tp) IN Cut(s, TpRank(l, r) * size, (TpRank(l, r) + 1) * size)
\* mutant
HeadPart_Modulo(s, l, r) ==
  LET size == Len(s) \div l.kv IN Cut(s, (TpRank(l, r) % l.kv) * size, ((TpRank(l, r) % l.kv) + 1) * size)
HeadPart(s, l, r) ==
  LET size == Len(s) \div l.kv
      head == (TpRank(l, r) * l.kv) \div l.tp
  IN Cut(s, head * size, (head + 1) * size)
\* _slice_fp8_scale_dim: the blocks that the rank's rows touch.
BlockPart(s, size, l, r) ==
  LET padded == Len(s) * size
      bound(i) == (i * padded) \div l.tp
  IN Cut(s, bound(TpRank(l, r)) \div size, div_ceil(bound(TpRank(l, r) + 1), size))

ShardTensor(l, k, t, r) ==
  LET blockScale == l.quant = "fp8" /\ IsScale(k)
      kvHead == k.proj \in KvProjs /\ l.kv < l.tp
  IN CASE HasPartition(l) /\ IsExpertKey(k) -> t
       [] k.proj \in SplitDim0 /\ kvHead                    -> [t EXCEPT !.rows = HeadPart(@, l, r)]
       [] k.proj \in SplitDim0 /\ ~kvHead /\ blockScale     -> [t EXCEPT !.rows = BlockPart(@, l.block[1], l, r)]
       [] k.proj \in SplitDim0 /\ ~kvHead /\ ~blockScale    -> [t EXCEPT !.rows = Chunk(@, l, r)]
       [] k.proj \in SplitDim1 /\ blockScale                -> [t EXCEPT !.cols = BlockPart(@, l.block[2], l, r)]
       [] k.proj \in SplitDim1 /\ k.kind = "weight"         -> [t EXCEPT !.cols = Chunk(@, l, r)]
       [] k.proj \in {"lm_head", "embed_tokens"}            -> [t EXCEPT !.rows = Chunk(@, l, r)]
       [] OTHER -> t  \* replicated; bias and channel scale of a row-parallel weight

-----------------------------------------------------------------------------
(* gpt-oss: the experts of a layer are one tensor.                         *)

ZerosLike(t) == [t EXCEPT !.rows = Repeat(Len(@), ZeroLabel)]
Extended(s, n, x) == s \o Repeat(n - Len(s), x)
LocalStack(stack, p) == Extended(Cut(stack, p.start, p.end), p.capacity, ZerosLike(stack[1]))

UniformGroups(groups, l, r) ==
  LET per == div_ceil(groups, l.tp)
      start == IF TpRank(l, r) * per < groups THEN TpRank(l, r) * per ELSE groups
  IN [per |-> per, start |-> start, real |-> IF per < groups - start THEN per ELSE groups - start]
\* Whole groups of `unit' entries, as many for every rank.
GroupPart(s, unit, fill, l, r) ==
  LET g == UniformGroups(Len(s) \div unit, l, r)
  IN Extended(Cut(s, g.start * unit, (g.start + g.real) * unit), g.per * unit, fill)
EvenPart(s, l, r) == LET per == Len(s) \div l.tp IN Cut(s, TpRank(l, r) * per, (TpRank(l, r) + 1) * per)

\* _gptoss_expert_weight and _gptoss_expert_weight_packed; rows are outputs.
ShardStack(l, k, stack, r) ==
  LET fill == IF k.kind = "scales" THEN OneLabel ELSE ZeroLabel
      rows(t) == [t EXCEPT !.rows = IF l.packed THEN GroupPart(@, 2 * MxGroup, fill, l, r) ELSE EvenPart(@, l, r)]
      cols(t) == [t EXCEPT !.cols = IF l.packed THEN GroupPart(@, IF k.kind = "scales" THEN 1 ELSE MxGroup, fill, l, r)
                                                ELSE EvenPart(@, l, r)]
  IN IF HasPartition(l) THEN LocalStack(stack, ExpertPartition(l, r))
     ELSE IF l.packed /\ l.tp = 1 THEN stack
     ELSE IF k.proj = "gate_up_proj" THEN [e \in DOMAIN stack |-> rows(stack[e])] ELSE [e \in DOMAIN stack |-> cols(stack[e])]

\* mutant
ShardSpecial_EvenBias(l, k, stack, r) ==
  LET rows(t) == [t EXCEPT !.rows = IF k.proj = "sinks" THEN Chunk(@, l, r) ELSE EvenPart(@, l, r)]
  IN IF HasPartition(l) /\ k.scope = "experts" THEN LocalStack(stack, ExpertPartition(l, r))
     ELSE IF l.tp = 1 \/ k.proj = "down_proj" THEN stack
     ELSE [e \in DOMAIN stack |-> rows(stack[e])]
\* _gptoss_shard_override: biases of the experts and sinks.
ShardSpecial(l, k, stack, r) ==
  LET rows(t) == [t EXCEPT !.rows = IF k.proj = "sinks" THEN Chunk(@, l, r)
                                    ELSE IF l.packed THEN GroupPart(@, 2 * MxGroup, ZeroLabel, l, r)
                                    ELSE EvenPart(@, l, r)]
  IN IF HasPartition(l) /\ k.scope = "experts" THEN LocalStack(stack, ExpertPartition(l, r))
     ELSE IF l.tp = 1 \/ k.proj = "down_proj" THEN stack
     ELSE [e \in DOMAIN stack |-> rows(stack[e])]

-----------------------------------------------------------------------------
(* The checkpoint (not part of the program): what f.get_tensor returns.    *)

OutOf(l, k) ==
  CASE k.proj = "q_proj" -> Labels("q", -1, l.qo * l.head)
    [] k.proj = "k_proj" -> Labels("k", -1, l.kv * l.head)
    [] k.proj = "v_proj" -> Labels("v", -1, l.kv * l.head)
    [] k.proj \in {"gate_proj", "w1"} -> Labels("gate", k.expert, l.inter)
    [] k.proj \in {"up_proj", "w3"}   -> Labels("up", k.expert, l.inter)
    [] k.proj \in {"down_proj", "w2"} -> Labels("h", k.expert, l.hidden)
    [] k.proj \in {"embed_tokens", "lm_head"} -> Labels("vocab", -1, l.vocab)
    [] OTHER -> Labels("h", -1, l.hidden)
InOf(l, k) ==
  CASE k.proj = "o_proj" -> Labels("q", -1, l.qo * l.head)
    [] k.proj \in {"down_proj", "w2"} -> Labels("mid", k.expert, l.inter)
    [] OTHER -> Labels("h", -1, l.hidden)
\* Entry i of the result stands for the entries i * size .. of s.
Grouped(s, size) == [i \in 1..div_ceil(Len(s), size) |-> [s[1] EXCEPT ![3] = i - 1]]

FullTensor(l, k) ==
  LET rows == OutOf(l, k)
      cols == InOf(l, k)
  IN CASE k.kind = "weight" -> [rows |-> rows, cols |-> cols]
       [] k.kind = "bias"   -> [rows |-> rows, cols |-> <<>>]
       [] IsScale(k) /\ l.quant = "fp8" ->
            [rows |-> Grouped(rows, l.block[1]), cols |-> Grouped(cols, l.block[2])]
       [] OTHER -> [rows |-> rows, cols |-> <<OneLabel>>]

\* gpt-oss: gate and up alternate; blocks and scales as rows of outputs.
FullStack(l, k) ==
  LET out(e) == IF k.proj = "gate_up_proj"
                  THEN [i \in 1..(2 * l.inter) |-> <<IF i % 2 = 1 THEN "gate" ELSE "up", e, (i - 1) \div 2>>]
                  ELSE Labels("h", e, l.hidden)
      in(e) == IF k.proj = "gate_up_proj" THEN Labels("h", -1, l.hidden) ELSE Labels("mid", e, l.inter)
      cols(e) == CASE k.kind = "blocks" -> in(e) [] k.kind = "scales" -> Grouped(in(e), MxGroup) [] OTHER -> <<>>
  IN IF k.proj = "sinks" THEN <<[rows |-> Labels("sink", -1, l.qo), cols |-> <<>>]>>
     ELSE [i \in 1..l.experts |-> [rows |-> out(i - 1), cols |-> cols(i - 1)]]

-----------------------------------------------------------------------------
(* The tensors the model of a rank allocates, with their shapes: experts,  *)
(* rows, columns (layers/linear.py, layers/embedding.py, layers/moe,       *)
(* models/gpt_oss*.py).                                                    *)

Param(scope, proj, kind, shape) == [key |-> Key(scope, -1, proj, kind), shape |-> shape]

LinearParams(l, scope, proj, rows, cols, bias) ==
  {Param(scope, proj, "weight", <<1, rows, cols>>)}
  \union (IF bias THEN {Param(scope, proj, "bias", <<1, rows, 0>>)} ELSE {})
  \union CASE l.quant = "fp8" ->
                {Param(scope, proj, "weight_scale", <<1, div_ceil(rows, l.block[1]), div_ceil(cols, l.block[2])>>)}
           [] l.quant = "fp8_channel" -> {Param(scope, proj, "weight_scale", <<1, rows, 1>>)}
           [] OTHER -> {}

LocalKv(l) == IF l.kv < l.tp THEN 1 ELSE l.kv \div l.tp

AttentionParams(l) ==
  LET vocab == <<1, div_ceil(l.vocab, l.tp), l.hidden>>
  IN {Param("model", "embed_tokens", "weight", vocab), Param("mlp", "gate", "weight", <<1, l.hidden, l.hidden>>)}
     \union (IF l.tied THEN {} ELSE {Param("model", "lm_head", "weight", vocab)})
     \union (IF l.gptoss THEN {Param("self_attn", "sinks", "", <<1, l.qo \div l.tp, 0>>),
                               Param("experts", "down_proj", "bias", <<l.experts, l.hidden, 0>>)} ELSE {})
     \union LinearParams(l, "self_attn", "qkv_proj", (l.qo \div l.tp + 2 * LocalKv(l)) * l.head, l.hidden, l.bias)
     \union LinearParams(l, "self_attn", "o_proj", l.hidden, (l.qo * l.head) \div l.tp, l.bias)
     \union (IF l.dense THEN LinearParams(l, "mlp", "gate_up_proj", 2 * (l.inter \div l.tp), l.hidden, FALSE)
                             \union LinearParams(l, "mlp", "down_proj", l.hidden, l.inter \div l.tp, FALSE) ELSE {})

LocalInter(l) == IF HasPartition(l) THEN l.inter
                 ELSE IF l.packed THEN div_ceil(l.inter \div MxGroup, l.tp) * MxGroup ELSE l.inter \div l.tp

ExpertParams(l) ==
  LET E == div_ceil(l.experts, l.ep)
      I == LocalInter(l)
      pair(kind, up, down) == {Param("experts", "gate_up_proj", kind, <<E, up[1], up[2]>>),
                               Param("experts", "down_proj", kind, <<E, down[1], down[2]>>)}
      values == pair(IF l.packed THEN "blocks" ELSE "weight", <<2 * I, l.hidden>>, <<l.hidden, I>>)
  IN values
     \union (CASE l.packed -> pair("scales", <<2 * I, l.hidden \div MxGroup>>, <<l.hidden, I \div MxGroup>>)
               [] l.quant = "fp8" -> pair("scale", <<2 * div_ceil(I, l.block[1]), l.hidden \div l.block[2]>>,
                                                   <<l.hidden \div l.block[1], div_ceil(I, l.block[2])>>)
               [] l.quant = "fp8_channel" -> pair("scale", <<2 * I, 1>>, <<l.hidden, 1>>)
               [] OTHER -> {})
     \union (IF l.gptoss THEN pair("bias", <<2 * I, 0>>, <<l.hidden, 0>>) ELSE {})

Params(l) == (IF l.role = "expert" THEN {} ELSE AttentionParams(l))
             \union (IF l.role = "attention" \/ l.experts = 0 THEN {} ELSE ExpertParams(l))
\* The constructors, which run before the files are opened, do not raise.
\* Colocated gpt-oss cuts packed experts into whole groups, all others evenly.
Builds(l) ==
  LET moe == l.role # "attention" /\ l.experts > 0
      inGroups == moe /\ l.gptoss /\ l.packed /\ l.role = "all"
      cut == IF moe /\ (HasPartition(l) \/ inGroups) THEN 1 ELSE l.tp
  IN /\ l.role # "expert" => /\ l.qo % l.tp = 0
                             /\ IF l.kv < l.tp THEN l.tp % l.kv = 0 ELSE l.kv % l.tp = 0
     /\ moe /\ HasPartition(l) => l.ep % l.tp = 0
     /\ l.dense => l.inter % l.tp = 0
     /\ moe => l.inter % cut = 0
     /\ moe /\ l.packed => l.hidden % MxGroup = 0 /\ (l.inter \div cut) % MxGroup = 0
     /\ moe /\ l.quant = "fp8" => l.hidden % l.block[1] = 0 /\ l.hidden % l.block[2] = 0
ParamKeys(l) == {p.key : p \in Params(l)}
ShapeOf(stack) == <<Len(stack), Len(stack[1].rows), Len(stack[1].cols)>>

-----------------------------------------------------------------------------
(* The loop over the files of a rank.                                      *)

WInit ==
  /\ load \in {l \in Loads : Builds(l)}
  /\ opened = {} /\ reading = <<>>
  /\ mergeBuf = Empty /\ expertBuf = Empty /\ yielded = Empty
  /\ loaded = <<>> /\ raised = ""

Reading == raised = "" /\ reading # <<>>
K == Head(reading)
Name == RuntimeName(K)
Advance == reading' = Tail(reading) /\ UNCHANGED <<load, opened, loaded, raised>>

OpenFile ==
  /\ raised = "" /\ reading = <<>> /\ Rank < RankCount(load)
  /\ \E f \in DOMAIN load.files \ opened :
       /\ opened' = opened \union {f}
       /\ reading' = load.files[f]
  /\ UNCHANGED <<load, wbuffers, loaded, raised>>

IsBlocks(l, k) == l.gptoss /\ k.kind = "blocks"
\* The other role's tensors, and experts of other ranks.
OtherRole(l, k) ==
  LET expert == IF l.gptoss THEN k.scope = "experts" ELSE IsExpertKey(k)
      needed == l.gptoss /\ k.scope = "experts" /\ k.proj = "down_proj" /\ k.kind = "bias"
  IN \/ l.role = "attention" /\ expert /\ ~needed
     \/ l.role = "expert" /\ ~expert
OtherRank(l, k) ==
  LET p == ExpertPartition(l, Rank) IN IsExpertKey(k) /\ k.expert \notin p.start..(p.end - 1)
Skips(l, k) ==
  \/ IsForeign(k)
  \/ IsScale(k) /\ l.quant \notin {"fp8", "fp8_channel"}
  \/ l.gptoss /\ k.kind = "scales"
  \/ OtherRole(l, k)
  \/ OtherRank(l, k)

SkipTensor == Reading /\ Skips(load, K) /\ Advance /\ UNCHANGED wbuffers

\* MXFP4 blocks with the scales beside them: packed, or as one weight.
ReadStack ==
  /\ Reading /\ ~Skips(load, K) /\ IsBlocks(load, K)
  /\ LET scales == [K EXCEPT !.kind = "scales"]
         part(k) == ShardStack(load, k, FullStack(load, k), Rank)
     IN IF load.packed
          THEN yielded' = Put(Put(yielded, K, part(K)), scales, part(scales))
          ELSE yielded' = Put(yielded, [K EXCEPT !.kind = "weight"], part(K))
  /\ Advance /\ UNCHANGED <<mergeBuf, expertBuf>>

ReadSpecial ==
  /\ Reading /\ ~Skips(load, K) /\ load.gptoss /\ IsGptOssSpecial(K)
  /\ yielded' = Put(yielded, K, ShardSpecial(load, K, FullStack(load, K), Rank))
  /\ Advance /\ UNCHANGED <<mergeBuf, expertBuf>>

ReadsPlain == Reading /\ ~Skips(load, K) /\ ~IsBlocks(load, K) /\ ~(load.gptoss /\ IsGptOssSpecial(K))
Part == ShardTensor(load, Name, FullTensor(load, K), Rank)
Merged == [Name EXCEPT !.proj = MergeGroups[@]]
Held == IF Merged \in DOMAIN mergeBuf THEN mergeBuf[Merged] ELSE Empty
WithPart == Put(Held, SlotNames[Name.proj], Part)
IsComplete == DOMAIN WithPart = ToSet(SlotsOf(Merged.proj))
Concatenated ==
  [rows |-> FlattenSeq([i \in DOMAIN SlotsOf(Merged.proj) |-> WithPart[SlotsOf(Merged.proj)[i]].rows]),
   cols |-> WithPart[SlotsOf(Merged.proj)[1]].cols]

\* A tensor of an expert waits for those of the rank's other experts.
Emit(key, t) ==
  LET p == ExpertPartition(load, Rank)
      stack == StackKey(key)
      slots == Put(IF stack \in DOMAIN expertBuf THEN expertBuf[stack] ELSE Empty, key.expert - p.start, t)
      experts == [i \in 1..p.capacity |-> IF i - 1 \in DOMAIN slots THEN slots[i - 1] ELSE ZerosLike(t)]
  IN \/ ~IsExpertKey(key) /\ yielded' = Put(yielded, key, <<t>>) /\ UNCHANGED expertBuf
     \/ /\ IsExpertKey(key) /\ Cardinality(DOMAIN slots) # RealLocalExperts(p)
        /\ expertBuf' = Put(expertBuf, stack, slots) /\ UNCHANGED yielded
     \/ /\ IsExpertKey(key) /\ Cardinality(DOMAIN slots) = RealLocalExperts(p)
        /\ expertBuf' = Drop(expertBuf, stack) /\ yielded' = Put(yielded, stack, experts)

ReadWhole ==
  ReadsPlain /\ Name.proj \notin DOMAIN MergeGroups /\ Emit(Name, Part) /\ Advance /\ UNCHANGED mergeBuf
HoldPart ==
  /\ ReadsPlain /\ Name.proj \in DOMAIN MergeGroups /\ ~IsComplete
  /\ mergeBuf' = Put(mergeBuf, Merged, WithPart)
  /\ Advance /\ UNCHANGED <<expertBuf, yielded>>
MergeParts ==
  /\ ReadsPlain /\ Name.proj \in DOMAIN MergeGroups /\ IsComplete
  /\ mergeBuf' = Drop(mergeBuf, Merged)
  /\ Emit(Merged, Concatenated) /\ Advance

\* The assertions after the loop and those of load_state_dict.  A stage of
\* an AFD server takes the keys it knows; the cast before it leaves no bytes.
LoadError(l) ==
  LET extra == DOMAIN yielded \ ParamKeys(l)
      popped == IF l.tied THEN {Key("model", -1, "lm_head", "weight")} ELSE {}
  IN CASE mergeBuf # Empty -> "Incomplete merge groups in checkpoint"
       [] expertBuf # Empty -> "Incomplete expert tensors in checkpoint"
       [] ~(ParamKeys(l) \subseteq DOMAIN yielded) -> "Missing keys"
       [] \E p \in Params(l) : ShapeOf(yielded[p.key]) # p.shape -> "param.shape == item.shape"
       [] l.packed /\ l.role = "expert" -> "param.dtype == item.dtype"
       [] l.role = "all" /\ ~(extra \subseteq popped) -> "Unexpected keys in state_dict"
       [] OTHER -> ""

EndLoad ==
  /\ raised = "" /\ reading = <<>> /\ opened = DOMAIN load.files /\ Rank < RankCount(load)
  /\ raised' = LoadError(load)
  /\ IF raised' = "" THEN /\ loaded' = Append(loaded, [k \in ParamKeys(load) |-> yielded[k]])
                          /\ opened' = {} /\ mergeBuf' = Empty /\ expertBuf' = Empty /\ yielded' = Empty
                     ELSE UNCHANGED <<loaded, opened, wbuffers>>
  /\ UNCHANGED <<load, reading>>

LoadDone == (raised # "" \/ Rank = RankCount(load)) /\ UNCHANGED wvars

WNext == \/ OpenFile \/ SkipTensor \/ ReadStack \/ ReadSpecial \/ ReadWhole \/ HoldPart \/ MergeParts
         \/ EndLoad \/ LoadDone

-----------------------------------------------------------------------------
(* What the tensors have to be.                                            *)

At(r, scope, proj, kind) == loaded[r + 1][Key(scope, -1, proj, kind)]

\* Every row and column that is not padding meets the scale of its own block.
OwnScales(w, s, size) ==
  LET own(xs, scales, n) == \A i \in DOMAIN xs : xs[i] = ZeroLabel \/ scales[(i - 1) \div n + 1] = [xs[i] EXCEPT ![3] = @ \div n]
  IN own(w.rows, s.rows, size[1]) /\ own(w.cols, s.cols, size[2])
LinearScales(r, l, scope, proj) ==
  LET w == At(r, scope, proj, "weight")[1]
      s == At(r, scope, proj, "weight_scale")[1]
  IN CASE l.quant = "fp8" -> OwnScales(w, s, l.block)
       [] l.quant = "fp8_channel" -> s.rows = w.rows
       [] OTHER -> TRUE

\* Each query head is on one rank, with its key and value head, the columns
\* of o_proj that read it, its bias and its sink.
HeadsAreWhole(l) ==
  LET lq == l.qo \div l.tp
      lkv == LocalKv(l)
      slot(s, j) == SubSeq(s, j * l.head + 1, (j + 1) * l.head)
      head(part, h) == [d \in 1..l.head |-> <<part, -1, h * l.head + d - 1>>]
      qkv(r) == At(r, "self_attn", "qkv_proj", "weight")[1]
      isHead(h, r, i) ==
        LET kvHead == h \div (l.qo \div l.kv)
            at == i \div (lq \div lkv)
        IN /\ slot(qkv(r).rows, i) = head("q", h)
           /\ slot(qkv(r).rows, lq + at) = head("k", kvHead)
           /\ slot(qkv(r).rows, lq + lkv + at) = head("v", kvHead)
           /\ slot(At(r, "self_attn", "o_proj", "weight")[1].cols, i) = head("q", h)
           /\ l.gptoss => At(r, "self_attn", "sinks", "")[1].rows[i + 1] = <<"sink", -1, h>>
  IN /\ \A h \in 0..(l.qo - 1) : \E x \in (0..(l.tp - 1)) \X (0..(lq - 1)) : isHead(h, x[1], x[2])
     /\ \A r \in 0..(l.tp - 1) :
          /\ LinearScales(r, l, "self_attn", "qkv_proj") /\ LinearScales(r, l, "self_attn", "o_proj")
          /\ l.bias => /\ At(r, "self_attn", "qkv_proj", "bias")[1].rows = qkv(r).rows
                       /\ At(r, "self_attn", "o_proj", "bias")[1].rows = Labels("h", -1, l.hidden)

\* Embedding rows are where the rank looks for them, the gathered logits are
\* in the order of the vocabulary.
VocabIsWhole(l) ==
  LET size == div_ceil(l.vocab, l.tp)
  IN \A proj \in {"embed_tokens"} \union (IF l.tied THEN {} ELSE {"lm_head"}), v \in 0..(l.vocab - 1) :
       At(v \div size, "model", proj, "weight")[1].rows[(v % size) + 1] = <<"vocab", -1, v>>

\* The neurons of expert e in the tensors g and d of a rank: gate row, up
\* row and down column belong together; padding multiplies by zero.
PairAt(l, g, j) == IF l.gptoss THEN <<g.rows[2 * j - 1], g.rows[2 * j]>>
                   ELSE <<g.rows[j], g.rows[Len(g.rows) \div 2 + j]>>
NeuronAt(l, g, d, e, x, j) ==
  PairAt(l, g, j) = <<<<"gate", e, x>>, <<"up", e, x>>>> /\ d.cols[j] = <<"mid", e, x>>
IsPadding(l, g, d, j) == PairAt(l, g, j) = <<ZeroLabel, ZeroLabel>> /\ d.cols[j] = ZeroLabel
\* hold: the ranks, and where in their stack, that compute e together.
NeuronsAreWhole(l, scope, e, hold, up, down) ==
  LET g(h) == At(h.rank, scope, up, IF l.packed /\ e >= 0 THEN "blocks" ELSE "weight")[h.at]
      d(h) == At(h.rank, scope, down, IF l.packed /\ e >= 0 THEN "blocks" ELSE "weight")[h.at]
      places == UNION {{<<h, j>> : j \in DOMAIN d(h).cols} : h \in hold}
  IN /\ \A x \in 0..(l.inter - 1) : Cardinality({p \in places : NeuronAt(l, g(p[1]), d(p[1]), e, x, p[2])}) = 1
     /\ \A p \in places : \/ IsPadding(l, g(p[1]), d(p[1]), p[2])
                          \/ \E x \in 0..(l.inter - 1) : NeuronAt(l, g(p[1]), d(p[1]), e, x, p[2])

MlpIsWhole(l) ==
  /\ NeuronsAreWhole(l, "mlp", -1, {[rank |-> r, at |-> 1] : r \in 0..(l.tp - 1)}, "gate_up_proj", "down_proj")
  /\ \A r \in 0..(l.tp - 1) : LinearScales(r, l, "mlp", "gate_up_proj") /\ LinearScales(r, l, "mlp", "down_proj")

\* The transport sends the tokens of expert e to this rank and this place of
\* its stack (moe/deepep_m2n_union.py); colocated, all ranks compute their
\* part of it.
HoldersOf(l, e) ==
  LET perRank == div_ceil(l.experts, RankCount(l))
  IN IF l.role = "expert" THEN {[rank |-> e \div perRank, at |-> (e % perRank) + 1]}
     ELSE {[rank |-> r, at |-> e + 1] : r \in 0..(RankCount(l) - 1)}

ExpertScales(l, h) ==
  \A proj \in {"gate_up_proj", "down_proj"} :
    LET of(kind) == At(h.rank, "experts", proj, kind)[h.at]
    IN CASE l.packed -> OwnScales(of("blocks"), of("scales"), <<1, MxGroup>>)
         [] l.quant = "fp8" -> OwnScales(of("weight"), of("scale"), l.block)
         [] l.quant = "fp8_channel" -> of("scale").rows = of("weight").rows
         [] OTHER -> TRUE
ExpertBiases(l, e, h) ==
  LET g == At(h.rank, "experts", "gate_up_proj", IF l.packed THEN "blocks" ELSE "weight")[h.at]
  IN /\ At(h.rank, "experts", "gate_up_proj", "bias")[h.at].rows = g.rows
     /\ At(h.rank, "experts", "down_proj", "bias")[h.at].rows = Labels("h", e, l.hidden)
ExpertsAreWhole(l) ==
  \A e \in 0..(l.experts - 1) :
    /\ NeuronsAreWhole(l, "experts", e, HoldersOf(l, e), "gate_up_proj", "down_proj")
    /\ \A h \in HoldersOf(l, e) : ExpertScales(l, h) /\ (l.gptoss => ExpertBiases(l, e, h))
DownBiasesAreWhole(l) ==
  \A r \in 0..(RankCount(l) - 1), e \in 0..(l.experts - 1) :
    At(r, "experts", "down_proj", "bias")[e + 1].rows = Labels("h", e, l.hidden)

\* Whatever the order of files, every rank loads, and the ranks together
\* compute each head, each neuron of each expert and each row of the
\* vocabulary exactly once, from weights, scales, biases and sinks that
\* belong together, whether they were cut, replicated, merged, stacked or
\* padded (models/weight.py).
WeightsAreWhole ==
  /\ raised = ""
  /\ Rank = RankCount(load) =>
       /\ load.role # "expert" => /\ HeadsAreWhole(load) /\ VocabIsWhole(load)
                                  /\ load.dense => MlpIsWhole(load)
                                  /\ load.gptoss => DownBiasesAreWhole(load)
       /\ load.role # "attention" /\ load.experts > 0 => ExpertsAreWhole(load)
=============================================================================
