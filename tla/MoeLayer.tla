------------------------------ MODULE MoeLayer ------------------------------
(***************************************************************************)
(* One expert layer on the ranks of an expert parallel group: the router   *)
(* picks experts for each row, the slots (row, k) are sorted into blocks   *)
(* of one expert each, two grouped products with an activation in between  *)
(* work on the blocks, and the slots of a row are summed.  The two         *)
(* products write the same buffer with rows of different width.            *)
(*                                                                         *)
(* Values are terms, tuples headed by what produced them, so that a row    *)
(* that was left over, or computed by another expert, shows.               *)
(***************************************************************************)
EXTENDS GateTopK

CONSTANTS
  Layers,                  \* the layers and batches to run, see MCDecoderLayers
  SmallNumel, SmallSlots,  \* below these one block sorts alone (1024, 64)
  MaxScan,                 \* the widest scan of the sort (1024)
  BigTileMinM,             \* rows from which the prefill tile is used (2048)
  PackedRows,              \* rows up to which the packed decode tile is used (1024)
  Tiles,                   \* tile sizes m, n, k and group by name
  QuantGroup,              \* values that share an fp8 scale (128)
  ScaleGroup,              \* values that share a packed scale (32)
  MaxPermuted              \* bound: slots up to which every order is tried

VARIABLES
  stage,   \* how far the layer is
  layer,   \* the layer and the batch
  route,   \* what the router stored
  align,   \* the sorted slots, the expert of each block, the padded total
  cache,   \* per rank, the buffer of both products
  act,     \* per rank, the activated rows
  out      \* per rank, the summed rows

vars == <<stage, layer, route, align, cache, act, out>>

Nothing == <<"nothing">>
Junk == <<"junk">>
Zero == <<"zero">>

NumRows(l) == Cardinality(DOMAIN l.rows)
NumSlots(l) == NumRows(l) * l.topk
NextPow2(n) == CHOOSE p \in {2 ^ i : i \in 0..8} : p >= n /\ \A i \in 0..8 : 2 ^ i >= n => 2 ^ i >= p
\* Some cases are of a router alone; the sort refuses more experts than one
\* scan takes.
IsWhole(l) == /\ l.router \in {"softmax", "gating"}
              /\ NextPow2(Cardinality(DOMAIN l.rows[0]) + 1) <= MaxScan

-----------------------------------------------------------------------------
(* Routing. *)

\* Without a fused instance the softmax goes through a workspace.
TopkSoftmax(rows, topk, renormalize) ==
  IF IsPow2(Experts(rows[0])) /\ Experts(rows[0]) <= MaxFused
    THEN TopkGatingV2Launcher(rows, 2, <<>>, topk, renormalize)
    ELSE TopkGatingSoftmaxLauncher(rows, topk, renormalize)

\* Rows of padding get no expert.
FusedTopk(rows, topk, renormalize, nonPadded) ==
  LET stored == TopkSoftmax(rows, topk, renormalize)
  IN IF nonPadded = <<>> THEN stored
     ELSE {IF st.row < nonPadded[1] THEN st
           ELSE [st EXCEPT !.ids = [k \in DOMAIN st.ids |-> -1],
                           !.weights = [k \in DOMAIN st.ids |-> [num |-> 0, den |-> 1]]] :
             st \in stored}

Routed(l) ==
  CASE l.router = "softmax" -> FusedTopk(l.rows, l.topk, l.renormalize, l.nonPadded)
    [] l.router = "launch"  -> TopkGatingSoftmaxLauncher(l.rows, l.topk, l.renormalize)
    [] l.router = "gating"  -> TopkGatingV2Launcher(l.rows, l.maxElts, l.bias, l.topk, l.renormalize)
    [] l.router = "group"   -> TopkGatingGroupLocalKernel(l.rows, l.maxElts, l.expertMap, l.nonPadded,
                                                          l.topk, l.renormalize)
    [] l.router = "gate"    -> GateTopk(l.hidden, l.gate, l.topk, l.renormalize)
    [] l.router = "minimax" -> MinimaxRouteTopk(l.hidden, l.gate, l.bias[1], l.topk, l.renormalize)

Route ==
  /\ stage = "start"
  /\ route' = Routed(layer)
  /\ stage' = IF IsWhole(layer) THEN "routed" ELSE "end"
  /\ UNCHANGED <<layer, align, cache, act, out>>

-----------------------------------------------------------------------------
(* Sorting the slots into blocks.  The id of a slot is shifted by one, so  *)
(* that slots without an expert are those of number 0.                     *)

IdOf(l, slot) ==
  LET st == CHOOSE st \in route : st.row = slot \div l.topk IN st.ids[(slot % l.topk) + 1]
WeightOf(l, slot) ==
  LET st == CHOOSE st \in route : st.row = slot \div l.topk IN st.weights[(slot % l.topk) + 1]

Padded(count, block) == CeilDiv(count, block) * block
Counts(ids, slots) == [e \in 0..(slots - 1) |-> Cardinality({i \in DOMAIN ids : ids[i] + 1 = e})]

\* Each thread counts its own slots; a slot lands behind those of the lower
\* threads and its thread's earlier ones.
AlignSmall(ids, slots, block, size) ==
  LET stride == Max({slots, WaveThreads})
      counts == Counts(ids, slots)
      cum[e \in 0..slots] == IF e = 0 THEN 0 ELSE cum[e - 1] + Padded(counts[e - 1], block)
      before(j, i) == \/ j % stride < i % stride
                      \/ j % stride = i % stride /\ j < i
      place(i) == cum[ids[i] + 1] + Cardinality({j \in DOMAIN ids : ids[j] = ids[i] /\ before(j, i)})
  IN [sorted |-> [p \in 0..(size - 1) |->
                    IF \E i \in DOMAIN ids : place(i) = p THEN CHOOSE i \in DOMAIN ids : place(i) = p
                                                          ELSE Cardinality(DOMAIN ids)],
      blocks |-> [b \in 0..(cum[slots] \div block - 1) |->
                    (CHOOSE e \in 0..(slots - 1) : cum[e] <= b * block /\ b * block < cum[e + 1]) - 1],
      total  |-> cum[slots]]

\* shfl_up by 1, 2, 4, ... inside a wave; what a lane has before its own value.
WarpExclusiveScan(vals) ==
  LET step(v, d) == [i \in DOMAIN v |-> IF i % WaveThreads >= d THEN v[i] + v[i - d] ELSE v[i]]
      incl == FoldLeft(step, vals, SelectSeq(<<1, 2, 4, 8, 16, 32>>, LAMBDA d : d < WaveThreads))
  IN [i \in DOMAIN vals |-> incl[i] - vals[i]]

\* Scan inside the waves, scan the sums of the waves, add the two.
PrefixOf(padded, slots) ==
  LET waves == CeilDiv(NextPow2(slots), WaveThreads)
      vals == [i \in 0..(waves * WaveThreads - 1) |-> IF i < slots THEN padded[i] ELSE 0]
      scan == WarpExclusiveScan(vals)
      last(w) == (w + 1) * WaveThreads - 1
      sums == [w \in 0..(WaveThreads - 1) |-> IF w < waves THEN scan[last(w)] + vals[last(w)] ELSE 0]
      offset == WarpExclusiveScan(sums)
  IN [e \in 0..slots |-> IF e = slots THEN offset[waves - 1] + sums[waves - 1]
                                      ELSE scan[e] + offset[e \div WaveThreads]]

\* mutant
BlockExpert_NoShift(prefix, slots, start) ==
  (CHOOSE e \in 0..(slots - 1) : prefix[e] <= start /\ start < prefix[e + 1])

\* The expert of a block: how many prefixes are not beyond its start.
BlockExpert(prefix, slots, start) ==
  LET search[l \in 0..slots, r \in 0..slots] ==
        IF l >= r THEN l
        ELSE LET mid == (l + r) \div 2
             IN IF prefix[mid] <= start THEN search[mid + 1, r] ELSE search[l, mid]
  IN search[0, slots] - 2

\* The slots of an expert land in the order in which the additions to its
\* counter are served.
AlignLarge(ids, slots, block, size, served) ==
  LET prefix == PrefixOf([e \in 0..(slots - 1) |-> Padded(Counts(ids, slots)[e], block)], slots)
      place(i) == prefix[ids[i] + 1] +
                    Cardinality({j \in DOMAIN ids : ids[j] = ids[i] /\ served[j] < served[i]})
  IN [sorted |-> [p \in 0..(size - 1) |->
                    IF \E i \in DOMAIN ids : place(i) = p THEN CHOOSE i \in DOMAIN ids : place(i) = p
                                                          ELSE Cardinality(DOMAIN ids)],
      blocks |-> [b \in 0..(prefix[slots] \div block - 1) |-> BlockExpert(prefix, slots, b * block)],
      total  |-> prefix[slots]]

SmallBatch(numel, slots) == numel < SmallNumel /\ slots <= SmallSlots

MoeAlignBlockSize(ids, experts, block, served) ==
  LET numel == Cardinality(DOMAIN ids)
      slots == experts + 1
      size == IF numel < slots THEN numel * block ELSE numel + slots * (block - 1)
  IN IF SmallBatch(numel, slots) THEN AlignSmall(ids, slots, block, size)
                                 ELSE AlignLarge(ids, slots, block, size, served)

-----------------------------------------------------------------------------
(* Experts on ranks: a contiguous slice each, the last one maybe short.    *)

Ranks(l) == 0..(l.epSize - 1)
LocalExperts(l) == CeilDiv(Experts(l.rows[0]), l.epSize)

ExpertMap(l, rank) ==
  LET start == rank * LocalExperts(l)
  IN [e \in DOMAIN l.rows[0] |-> IF e \in start .. start + LocalExperts(l) - 1 THEN e - start ELSE -1]

\* The blocks' experts as a rank knows them; without expert parallelism
\* there is no map.
LocalBlocks(l, rank) ==
  IF l.epSize = 1 THEN align.blocks
  ELSE [b \in DOMAIN align.blocks |->
          IF align.blocks[b] \in DOMAIN l.rows[0] THEN ExpertMap(l, rank)[align.blocks[b]] ELSE -1]

-----------------------------------------------------------------------------
(* The tiles. *)

GetDefaultConfig(M, E, fp8) ==
  IF M <= E THEN Tiles.decode
  ELSE IF M >= BigTileMinM /\ ~fp8 THEN Tiles.prefill ELSE Tiles.middle

PackedConfig(rows) == IF rows <= PackedRows THEN Tiles.packedDecode ELSE Tiles.packedPrefill

\* One configuration for the sorting and for both products.
ConfigOf(l) ==
  IF l.packed THEN PackedConfig(NumRows(l) * l.topk) ELSE GetDefaultConfig(NumRows(l), LocalExperts(l), l.fp8)

\* Programs in groups of rows of tiles.
PidMN(pid, cfg, EM, N) ==
  LET numM == CeilDiv(EM, cfg.m)
      inGroup == cfg.group * CeilDiv(N, cfg.n)
      first == (pid \div inGroup) * cfg.group
      size == Min({numM - first, cfg.group})
  IN [m |-> first + ((pid % inGroup) % size), n |-> (pid % inGroup) \div size]

\* The K positions a program adds up; a ragged tail is masked, in whole
\* groups of values when the weights are packed.
KPositions(K, bk, packed) ==
  LET left(k) == IF packed THEN ((K - k * bk) \div ScaleGroup) * ScaleGroup ELSE K - k * bk
  IN {p \in 0..(CeilDiv(K, bk) * bk - 1) : K % bk = 0 \/ p % bk < left(p \div bk)}

\* fp8: a program quantises one group of one row; the rows' groups follow one
\* another in the scales.
GroupsPerRow(K) == K \div QuantGroup
QuantisedGroup(g, K) == [row |-> g \div GroupsPerRow(K), at |-> (g % GroupsPerRow(K)) * QuantGroup]

\* Positions with the group whose scale multiplies the partial product, and
\* with the weight's scale: one of each for a whole step along K.
Fp8Positions(row, col, K, bk) ==
  {[k |-> p,
    scale |-> QuantisedGroup(row * GroupsPerRow(K) + ((p \div bk) * bk) \div QuantGroup, K),
    weight |-> <<col \div QuantGroup, ((p \div bk) * bk) \div QuantGroup>>] :
     p \in {x \in 0..(CeilDiv(K, bk) * bk - 1) : x % bk < K - (x \div bk) * bk}}

-----------------------------------------------------------------------------
(* The grouped product.  A program stops when its block lies behind the     *)
(* padded total; slots that only pad are masked.  A block without an expert *)
(* here is skipped, or cleared by the fp8 kernel.                           *)

\* The blocks that a launch over EM places works on.
Programs(l, rank, N, EM) ==
  LET cfg == ConfigOf(l)
      tiles == {PidMN(pid, cfg, EM, N) : pid \in 0..(CeilDiv(EM, cfg.m) * CeilDiv(N, cfg.n) - 1)}
  IN {[expert  |-> LocalBlocks(l, rank)[t.m],
       slots   |-> {x \in {align.sorted[t.m * cfg.m + i] : i \in 0..(cfg.m - 1)} : x < NumSlots(l)},
       columns |-> {x \in {t.n * cfg.n + j : j \in 0..(cfg.n - 1)} : x < N}] :
        t \in {x \in tiles : x.m * cfg.m < align.total}}

Dot2(l, rank, p, row, col, ks) == <<"dot", rank * LocalExperts(l) + p.expert, row, col, ks>>

\* g: the operand A by row, the columns N, the terms K, top_k, whether there
\* is a bias and whether the routing weight is multiplied in, after the bias.
FusedMoeKernel(l, rank, g) ==
  LET value(p, x, col) ==
        LET dot == Dot2(l, rank, p, g.A[x \div g.topk], col, KPositions(g.K, ConfigOf(l).k, l.packed))
            biased == IF g.bias THEN <<"bias", dot[2], dot>> ELSE dot
        IN IF g.weighted THEN <<"times", WeightOf(l, x), biased>> ELSE biased
  IN UNION {{[addr |-> x * g.N + col, val |-> value(p, x, col)] : x \in p.slots, col \in p.columns} :
              p \in {q \in Programs(l, rank, g.N, Cardinality(DOMAIN align.sorted)) : q.expert >= 0}}

\* mutant
Fp8StepK_Unclamped(cfg) == cfg.k
Fp8StepK(cfg) == Min({cfg.k, QuantGroup})

\* Few rows need no more blocks than slots, whatever the buffer holds.
Fp8Places(l, rows) ==
  LET size == Cardinality(DOMAIN align.sorted)
  IN IF rows < ConfigOf(l).m THEN Min({size, NumSlots(l) * ConfigOf(l).m}) ELSE size

FusedMoeKernelFp8(l, rank, g) ==
  LET value(p, x, col) ==
        LET row == x \div g.topk
            dot == Dot2(l, rank, p, g.A[row], col, Fp8Positions(row, col, g.K, Fp8StepK(ConfigOf(l))))
        IN IF p.expert = -1 THEN Zero
           ELSE IF g.weighted THEN <<"times", WeightOf(l, x), dot>> ELSE dot
  IN UNION {{[addr |-> x * g.N + col, val |-> value(p, x, col)] : x \in p.slots, col \in p.columns} :
              p \in Programs(l, rank, g.N, Fp8Places(l, NumSlots(l) \div g.topk))}

GroupedGemm(l, rank, g) == IF l.fp8 THEN FusedMoeKernelFp8(l, rank, g) ELSE FusedMoeKernel(l, rank, g)

StoreAll(buffer, writes) ==
  LET written == {w.addr : w \in writes}
  IN [a \in DOMAIN buffer |-> IF a \in written THEN (CHOOSE w \in writes : w.addr = a).val ELSE buffer[a]]

\* The orders in which the atomic additions are served; all of them up to
\* MaxPermuted slots, forwards and backwards beyond.
Orders(numel) ==
  IF numel <= MaxPermuted THEN Permutations(0..(numel - 1))
  ELSE {[i \in 0..(numel - 1) |-> i], [i \in 0..(numel - 1) |-> numel - 1 - i]}

Fill(l, value) == [a \in 0..(NumSlots(l) * Max({2 * l.inner, l.width}) - 1) |-> value]

Align ==
  /\ stage = "routed"
  /\ \E served \in Orders(NumSlots(layer)) :
       align' = MoeAlignBlockSize([x \in 0..(NumSlots(layer) - 1) |-> IdOf(layer, x)],
                                  Experts(layer.rows[0]), ConfigOf(layer).m, served)
  /\ stage' = "aligned"
  /\ UNCHANGED <<layer, route, cache, act, out>>

\* The buffer is not initialised unless other ranks have the rest.
GateUp ==
  /\ stage = "aligned"
  /\ cache' = [r \in Ranks(layer) |->
       StoreAll(Fill(layer, IF layer.epSize > 1 THEN Zero ELSE Junk),
                GroupedGemm(layer, r, [A |-> [t \in 0..(NumRows(layer) - 1) |-> <<"row", t>>],
                  N |-> 2 * layer.inner, K |-> layer.width, topk |-> layer.topk, bias |-> ~layer.fp8,
                  weighted |-> layer.weightOnInput]))]
  /\ stage' = "gated"
  /\ UNCHANGED <<layer, route, align, act, out>>

\* silu_and_mul: column c of the gate half with column c of the up half.
Activate ==
  /\ stage = "gated"
  /\ act' = [r \in Ranks(layer) |-> [x \in 0..(NumSlots(layer) - 1) |->
       <<"act", [c \in 0..(layer.inner - 1) |->
          <<cache[r][x * 2 * layer.inner + c], cache[r][x * 2 * layer.inner + layer.inner + c]>>]>>]]
  /\ stage' = "activated"
  /\ UNCHANGED <<layer, route, align, cache, out>>

\* mutant
Down_KeepsBuffer ==
  /\ stage = "activated"
  /\ cache' = [r \in Ranks(layer) |->
       StoreAll(cache[r],
                GroupedGemm(layer, r, [A |-> act[r], N |-> layer.width, K |-> layer.inner, topk |-> 1,
                  bias |-> FALSE, weighted |-> ~layer.weightOnInput]))]
  /\ stage' = "down"
  /\ UNCHANGED <<layer, route, align, act, out>>

\* The buffer, still holding the first product, is cleared when this rank
\* leaves out slots.
Down ==
  /\ stage = "activated"
  /\ cache' = [r \in Ranks(layer) |->
       StoreAll(IF layer.epSize > 1 THEN Fill(layer, Zero) ELSE cache[r],
                GroupedGemm(layer, r, [A |-> act[r], N |-> layer.width, K |-> layer.inner, topk |-> 1,
                  bias |-> FALSE, weighted |-> ~layer.weightOnInput]))]
  /\ stage' = "down"
  /\ UNCHANGED <<layer, route, align, act, out>>

\* What each rank adds up for a row and column, slot by slot.
MoeSum ==
  /\ stage = "down"
  /\ out' = [r \in Ranks(layer) |-> [t \in 0..(NumRows(layer) - 1) |-> [d \in 0..(layer.width - 1) |->
       [k \in 1..layer.topk |-> cache[r][(t * layer.topk + k - 1) * layer.width + d]]]]]
  /\ stage' = "summed"
  /\ UNCHANGED <<layer, route, align, cache, act>>

\* The ranks' sums are added: for each slot the terms that are not zero.
AllReduce ==
  /\ stage = "summed"
  /\ out' = [t \in 0..(NumRows(layer) - 1) |-> [d \in 0..(layer.width - 1) |-> [k \in 1..layer.topk |->
       {<<r, out[r][t][d][k]>> : r \in {q \in Ranks(layer) : out[q][t][d][k] # Zero}}]]]
  /\ stage' = "end"
  /\ UNCHANGED <<layer, route, align, cache, act>>

Done == stage = "end" /\ UNCHANGED vars

Init ==
  /\ stage = "start" /\ layer \in Layers
  /\ route = {} /\ align = Nothing /\ cache = Nothing /\ act = Nothing /\ out = Nothing

Next == Route \/ Align \/ GateUp \/ Activate \/ Down \/ MoeSum \/ AllReduce \/ Done
Spec == Init /\ [][Next]_vars
-----------------------------------------------------------------------------
(* What the layer has to do. *)

\* The scores a router's experts are compared by, and those it returns.
ScoresOf(l, r) ==
  IF l.router \in {"gate", "minimax"}
    THEN [e \in DOMAIN l.gate |-> Dot(l.hidden[r], l.gate[e], DOMAIN l.hidden[r])] ELSE l.rows[r]
BiasOf(l, e) == IF l.bias = <<>> THEN 0 ELSE l.bias[1][e]

IsMasked(l, r) == l.nonPadded # <<>> /\ r >= l.nonPadded[1]

\* The best topk experts of a score, the lower number first among equals
\* where the kernel promises that.
IsTopK(score, ids, lowest) ==
  LET chosen == Range(ids)
      precedes(a, b) == score[a] > score[b] \/ (score[a] = score[b] /\ (lowest => a < b))
  IN /\ Cardinality(chosen) = Len(ids) /\ chosen \subseteq DOMAIN score
     /\ \A i, j \in DOMAIN ids : i < j => precedes(ids[i], ids[j])
     /\ \A e \in DOMAIN score \ chosen : precedes(ids[Len(ids)], e)

\* Every router, whatever its layout of experts over lanes, stores for every
\* row the best topk experts by score and bias with the unbiased scores as
\* weights; rows of padding get no expert; each group of values that is
\* quantised on the way is quantised by one thread (moe_topk_softmax.cu,
\* gate_topk_fused.cu, minimax_route_fused.cu, fused.py:fused_topk).
RoutesAreTopK ==
  stage # "start" =>
    /\ {st.row : st \in route} = 0..(NumRows(layer) - 1)
    /\ \A st \in route :
         IF IsMasked(layer, st.row)
           THEN /\ Range(st.ids) = {-1} /\ \A k \in DOMAIN st.weights : st.weights[k].num = 0
           ELSE LET own == ScoresOf(layer, st.row)
                    ids == IF layer.router = "group"
                             THEN [k \in DOMAIN st.ids |-> CHOOSE e \in DOMAIN own : layer.expertMap[e] = st.ids[k]]
                             ELSE st.ids
                    sum == MapThenSumSet(LAMBDA k : own[ids[k]], DOMAIN ids)
                IN /\ Len(ids) = layer.topk
                   /\ IsTopK([e \in DOMAIN own |-> own[e] + BiasOf(layer, e)], ids,
                              layer.router # "gate" /\ (IsPow2(Experts(own)) \/ layer.router = "gating"))
                   /\ \A k \in DOMAIN ids : /\ st.weights[k].num = own[ids[k]]
                                            /\ st.weights[k].den = (IF layer.renormalize THEN sum ELSE 1)
    /\ layer.router = "gate" => Range(GateQuantGroups(Experts(layer.hidden[0]))) = {1}
    /\ layer.router = "minimax" => Range(MinimaxQuantGroups(Experts(layer.hidden[0]), Experts(layer.gate), 4)) = {1}

\* The terms that a row with an expert has to be made of; every position is
\* scaled by its own group.
Positions(row, col, K) ==
  IF layer.fp8
    THEN {[k |-> p, scale |-> [row |-> row, at |-> (p \div QuantGroup) * QuantGroup],
           weight |-> <<col \div QuantGroup, p \div QuantGroup>>] : p \in 0..(K - 1)}
    ELSE 0..(K - 1)
GatedTerm(e, t, w, c) ==
  LET dot == <<"dot", e, <<"row", t>>, c, Positions(t, c, layer.width)>>
      biased == IF layer.fp8 THEN dot ELSE <<"bias", e, dot>>
  IN IF layer.weightOnInput THEN <<"times", w, biased>> ELSE biased
DownTerm(e, t, k, w, d) ==
  LET row == <<"act", [c \in 0..(layer.inner - 1) |->
                 <<GatedTerm(e, t, w, c), GatedTerm(e, t, w, layer.inner + c)>>]>>
      dot == <<"dot", e, row, d, Positions(t * layer.topk + k - 1, d, layer.inner)>>
  IN IF layer.weightOnInput THEN dot ELSE <<"times", w, dot>>

\* Over all ranks, a row is the sum of its own experts' products, each once
\* and with its weight: no slot is left with rows of the first product or of
\* an earlier batch, a rank without the expert adds nothing, and quantised
\* values are scaled by their own group (fused.py:fused_experts_impl,
\* fused_fp8.py:fused_moe_fp8_triton, fused_moe.py, moe_sum.cu, layer.py).
RowsAreOwnSums ==
  IsWhole(layer) /\ stage = "end" =>
    \A t \in {x \in 0..(NumRows(layer) - 1) : ~IsMasked(layer, x)},
       d \in 0..(layer.width - 1), k \in 1..layer.topk :
      LET x == t * layer.topk + k - 1
      IN \E r \in Ranks(layer) :
           out[t][d][k] = {<<r, DownTerm(IdOf(layer, x), t, k, WeightOf(layer, x), d)>>}
=============================================================================
