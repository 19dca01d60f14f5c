------------------------------ MODULE GateTopK ------------------------------
(***************************************************************************)
(* The routers of the expert layers, kernel by kernel: the threads of a    *)
(* wave hold the scores of a row in chunks, a butterfly of exchanges finds *)
(* the best expert, its score is cleared where it is held, and the next    *)
(* one is looked for.  A kernel returns what it stores, a set of records   *)
(* of a row, its experts and their weights; a weight is the fraction       *)
(* num / den.                                                              *)
(*                                                                         *)
(* Scores are small positive integers in the place of the floats: softmax  *)
(* and sigmoid grow with the logit, so the order of the experts, all that  *)
(* the selection looks at, is that of the logits.  A row is a function on  *)
(* 0..E-1, a batch a function on 0..n-1.                                   *)
(***************************************************************************)
EXTENDS Integers, Sequences, FiniteSets, SequencesExt

CONSTANTS
  WaveThreads,   \* lanes of a wave: 32, or 64 on gfx942
  WarpsPerTB,    \* waves of a block of the gating kernels (4)
  TPB,           \* threads of a block of the block-wide kernels (256)
  MaxFused,      \* the most experts a fused kernel is instantiated for (256)
  PadFrom, PadTo,\* the padded instance: 160 experts in 256 columns
  GateChunk, GateSplit, GateExperts, GateStages, GateGroup,
                 \* gate_topk_fused: K of a stage (64), blocks
                 \* of a tile (16), experts of a block (8), pipeline depth (4), and
                 \* the values that share one scale (32, half a stage)
  Unroll         \* loop unrolling of the MiniMax logits (8)

ASSUME TopKAssumption ==
  /\ WaveThreads \in Nat \ {0} /\ WarpsPerTB \in Nat \ {0} /\ TPB \in Nat \ {0}
  /\ PadFrom \in 1..PadTo /\ PadTo % WaveThreads = 0
  /\ GateChunk = 2 * GateGroup /\ GateSplit % 2 = 0

Cleared == -10000

CeilDiv(a, b) == (a + b - 1) \div b
IsPow2(n) == \E i \in 0..8 : n = 2 ^ i
Experts(row) == Cardinality(DOMAIN row)

-----------------------------------------------------------------------------
(* One row on the lanes of a wave. *)

\* maxElts is what one 16 byte load holds: 4 floats or 8 bf16.
TopkConstants(E, maxElts) ==
  LET elts == Min({maxElts, E})
      ldg == Max({1, E \div (elts * WaveThreads)})
      threads == E \div (ldg * elts)
  IN [elts |-> elts, slots |-> ldg * elts, threads |-> threads, rows |-> WaveThreads \div threads]

\* The column a thread's slot holds: the loads of a row are interleaved.
Column(c, t, s) == (s \div c.elts) * c.elts * c.threads + t * c.elts + (s % c.elts)

\* mutant
HolderOf_NoWrap(c, e) ==
  <<(e \div c.elts) % c.threads, e % c.elts>>

\* The thread and the slot that the kernel computes for an expert.
HolderOf(c, e) ==
  <<(e \div c.elts) % c.threads, ((e \div (c.elts * c.threads)) * c.elts) + (e % c.elts)>>

\* A thread's scan keeps the first of equal scores.
ThreadBest(chunk, cols) ==
  LET score(s) == chunk[s].val + chunk[s].bias
      s == CHOOSE s \in DOMAIN chunk : \A r \in DOMAIN chunk :
             score(s) > score(r) \/ (score(s) = score(r) /\ s <= r)
  IN [score |-> score(s), val |-> chunk[s].val, expert |-> cols[s]]

Beats(a, b) == a.score > b.score \/ (a.score = b.score /\ a.expert < b.expert)

Xor(t, m) == IF (t \div m) % 2 = 0 THEN t + m ELSE t - m
Masks(width) == SelectSeq(<<32, 16, 8, 4, 2, 1>>, LAMBDA m : m < width)

\* shfl_xor over halving masks: every lane ends with the best of all.
Butterfly(best, width) ==
  FoldLeft(LAMBDA b, m : [t \in DOMAIN b |-> IF Beats(b[Xor(t, m)], b[t]) THEN b[Xor(t, m)] ELSE b[t]],
           best, Masks(width))

\* topk rounds: find, store, clear at the place the expert is held.
SelectK(topk, chunks, cols, holder, withBias) ==
  LET width == Cardinality(DOMAIN chunks)
      gone == [val |-> Cleared, bias |-> IF withBias THEN Cleared ELSE 0]
      round(st, k) ==
        LET best == Butterfly([t \in DOMAIN st.chunks |->
                      ThreadBest(st.chunks[t], cols[t])], width)
        IN [chunks |-> [t \in DOMAIN st.chunks |-> [s \in DOMAIN st.chunks[t] |->
                          IF holder[best[t].expert] = <<t, s>> THEN gone ELSE st.chunks[t][s]]],
            out |-> Append(st.out, best[0])]
  IN FoldLeft(round, [chunks |-> chunks, out |-> <<>>], [k \in 1..topk |-> k]).out

Ids(out) == [k \in DOMAIN out |-> out[k].expert]
Weights(out, renormalize) ==
  LET sum == FoldLeft(LAMBDA a, o : a + o.val, 0, out)
  IN [k \in DOMAIN out |-> [num |-> out[k].val, den |-> IF renormalize THEN sum ELSE 1]]
Stored(r, out, renormalize) == [row |-> r, ids |-> Ids(out), weights |-> Weights(out, renormalize)]

\* The rows that the lanes of a launch stand for; the last ones may lie
\* beyond the batch and must not store.
RowsLaunched(n, rowsPerWarp) ==
  LET blocks == CeilDiv(CeilDiv(n, rowsPerWarp), WarpsPerTB)
  IN 0..(blocks * WarpsPerTB * rowsPerWarp - 1)

RowChunks(c, row, bias) ==
  [t \in 0..(c.threads - 1) |-> [s \in 0..(c.slots - 1) |->
     [val |-> row[Column(c, t, s)], bias |-> bias[Column(c, t, s)]]]]

NoBias(row) == [e \in DOMAIN row |-> 0]

ChunkColumns(c) == [t \in 0..(c.threads - 1) |-> [s \in 0..(c.slots - 1) |-> Column(c, t, s)]]
Holders(c, row) == [e \in DOMAIN row |-> HolderOf(c, e)]

-----------------------------------------------------------------------------
(* The fused kernels. *)

TopkGatingSoftmaxKernel(rows, topk, renormalize) ==
  LET n == Cardinality(DOMAIN rows)
      c == TopkConstants(Experts(rows[0]), 2)
      select(row) == SelectK(topk, RowChunks(c, row, NoBias(row)),
                             ChunkColumns(c), Holders(c, row), FALSE)
  IN {Stored(r, select(rows[r]), renormalize) : r \in {x \in RowsLaunched(n, c.rows) : x < n}}

\* Rows beyond the valid count are stored as -1 with weight 0; experts are
\* stored under the number the expert group knows them by.
TopkGatingGroupLocalKernel(rows, maxElts, expertMap, validCount, topk, renormalize) ==
  LET n == Cardinality(DOMAIN rows)
      c == TopkConstants(Experts(rows[0]), maxElts)
      valid == IF validCount = <<>> THEN n ELSE Min({validCount[1], n})
      select(row) == SelectK(topk, RowChunks(c, row, NoBias(row)),
                             ChunkColumns(c), Holders(c, row), FALSE)
      mapped(st) == [st EXCEPT !.ids = [k \in DOMAIN st.ids |-> expertMap[st.ids[k]]]]
      none(r) == [row |-> r, ids |-> [k \in 1..topk |-> -1],
                  weights |-> [k \in 1..topk |-> [num |-> 0, den |-> 1]]]
  IN {IF r < valid THEN mapped(Stored(r, select(rows[r]), renormalize)) ELSE none(r) :
        r \in {x \in RowsLaunched(n, c.rows) : x < n}}

\* The bias takes part in the comparison only: the weight is the score.
TopkGatingKernelV2(rows, maxElts, bias, topk, renormalize) ==
  LET n == Cardinality(DOMAIN rows)
      c == TopkConstants(Experts(rows[0]), maxElts)
      b == IF bias = <<>> THEN NoBias(rows[0]) ELSE bias[1]
      select(row) == SelectK(topk, RowChunks(c, row, b),
                             ChunkColumns(c), Holders(c, row), bias # <<>>)
  IN {Stored(r, select(rows[r]), renormalize) : r \in {x \in RowsLaunched(n, c.rows) : x < n}}

\* One wave for a row, consecutive columns to a thread, columns past the
\* experts with score 0 and the least bias.
TopkGatingKernelV2Padded(rows, bias, topk, renormalize) ==
  LET n == Cardinality(DOMAIN rows)
      E == Experts(rows[0])
      vpt == PadTo \div WaveThreads
      cell(row, col) == IF col < E
                          THEN [val |-> row[col], bias |-> IF bias = <<>> THEN 0 ELSE bias[1][col]]
                          ELSE [val |-> 0, bias |-> IF bias = <<>> THEN 0 ELSE 2 * Cleared]
      chunks(row) == [t \in 0..(WaveThreads - 1) |-> [s \in 0..(vpt - 1) |-> cell(row, t * vpt + s)]]
      select(row) == SelectK(topk, chunks(row), [t \in 0..(WaveThreads - 1) |-> [s \in 0..(vpt - 1) |-> t * vpt + s]],
                             [e \in 0..(PadTo - 1) |-> <<e \div vpt, e % vpt>>], bias # <<>>)
  IN {Stored(r, select(rows[r]), renormalize) : r \in {x \in RowsLaunched(n, 1) : x < n}}

TopkGatingV2Launcher(rows, maxElts, bias, topk, renormalize) ==
  IF Experts(rows[0]) = PadFrom
    THEN TopkGatingKernelV2Padded(rows, bias, topk, renormalize)
    ELSE TopkGatingKernelV2(rows, maxElts, bias, topk, renormalize)

-----------------------------------------------------------------------------
(* The block-wide kernels, for expert counts without a fused instance. *)

\* cub's reduction combines neighbours in order: lane i takes lane i + 1,
\* then i + 2, then i + 4, ...
BlockReduce(vals, Op(_, _)) ==
  FoldLeft(LAMBDA b, d : [t \in DOMAIN b |-> IF t + d \in DOMAIN b THEN Op(b[t], b[t + d]) ELSE b[t]],
           vals, SelectSeq(<<1, 2, 4, 8, 16, 32>>, LAMBDA d : d < TPB))[0]

Kvp(k, v) == [key |-> k, value |-> v]
ColumnsOf(tid, E) == SelectSeq([i \in 1..E |-> i - 1], LAMBDA e : e % TPB = tid)

ArgMax(a, b) == IF b.value > a.value \/ (a.value = b.value /\ b.key < a.key) THEN b ELSE a

TopKPairArgMax(lhs, rhs) ==
  LET max == IF lhs.max.value > rhs.max.value THEN lhs.max ELSE rhs.max
  IN [max |-> max,
      second |-> IF max.key = lhs.max.key
                   THEN (IF lhs.second.value > rhs.max.value THEN lhs.second ELSE rhs.max)
                   ELSE (IF rhs.second.value > lhs.max.value THEN rhs.second ELSE lhs.max)]

\* Two experts are found in a pass; both are overwritten with -1.
MoeTopkFastKernel(rows, topk, renormalize) ==
  LET E == Experts(rows[0])
      scan(row, tid) ==
        FoldLeft(LAMBDA p, e :
                   IF row[e] > p.max.value THEN [max |-> Kvp(e, row[e]), second |-> p.max]
                   ELSE IF row[e] > p.second.value THEN [p EXCEPT !.second = Kvp(e, row[e])] ELSE p,
                 [max |-> Kvp(0, -1), second |-> Kvp(0, -1)], ColumnsOf(tid, E))
      pass(st, k) ==
        LET pair == BlockReduce([tid \in 0..(TPB - 1) |-> scan(st.row, tid)], TopKPairArgMax)
            found == SubSeq(<<pair.max, pair.second>>, 1, Min({2, topk - 2 * (k - 1)}))
        IN [row |-> [e \in DOMAIN st.row |->
                       IF \E i \in DOMAIN found : found[i].key = e THEN -1 ELSE st.row[e]],
            out |-> st.out \o [i \in DOMAIN found |->
                                 [expert |-> found[i].key, val |-> found[i].value]]]
      select(row) == FoldLeft(pass, [row |-> row, out |-> <<>>], [k \in 1..CeilDiv(topk, 2) |-> k]).out
  IN {Stored(r, select(rows[r]), renormalize) : r \in DOMAIN rows}

MoeTopkKernel(rows, topk, renormalize) ==
  LET E == Experts(rows[0])
      scan(row, tid) == FoldLeft(LAMBDA b, e : ArgMax(Kvp(e, row[e]), b), Kvp(0, -1), ColumnsOf(tid, E))
      round(st, k) ==
        LET best == BlockReduce([tid \in 0..(TPB - 1) |-> scan(st.row, tid)], ArgMax)
        IN [row |-> [st.row EXCEPT ![best.key] = -1],
            out |-> Append(st.out, [expert |-> best.key, val |-> best.value])]
      select(row) == FoldLeft(round, [row |-> row, out |-> <<>>], [k \in 1..topk |-> k]).out
  IN {Stored(r, select(rows[r]), renormalize) : r \in DOMAIN rows}

TopkGatingSoftmaxLauncher(rows, topk, renormalize) ==
  LET E == Experts(rows[0])
  IN IF IsPow2(E) /\ E <= MaxFused THEN TopkGatingSoftmaxKernel(rows, topk, renormalize)
     ELSE IF topk = 1 THEN MoeTopkKernel(rows, topk, renormalize)
     ELSE MoeTopkFastKernel(rows, topk, renormalize)
-----------------------------------------------------------------------------
(* gate_topk: the gate product and the selection for batches of decode     *)
(* size.  A block has GateExperts columns and all of K; its waves take a   *)
(* slice of K each and stream it in stages through shared memory.          *)

GateWarps == GateSplit \div 2
Stale == 1000

\* Stage c is read once at most GateStages - 1 groups of copies are still
\* pending; an iteration without a stage to load commits an empty group.
Landed(chunks) ==
  {c \in 0..(chunks - 1) : c < Min({GateStages - 1, chunks}) + (c + 1) - (GateStages - 1)}

Dot(h, w, ks) == MapThenSumSet(LAMBDA k : h[k] * w[k], ks)

\* Sum over the waves of what each has seen of its slice of K.
GateLogits(hidden, gate) ==
  LET H == Experts(hidden[0])
      slice == H \div GateWarps
      chunks == slice \div GateChunk
      seen == {w * slice + c * GateChunk + o :
                 w \in 0..(GateWarps - 1), c \in Landed(chunks), o \in 0..(GateChunk - 1)}
      late == GateWarps * (chunks - Cardinality(Landed(chunks)))
      columns == {s * GateExperts + o : s \in 0..(GateSplit - 1), o \in 0..(GateExperts - 1)}
  IN [r \in DOMAIN hidden |-> [e \in columns \cap DOMAIN gate |->
        Dot(hidden[r], gate[e], seen) + late * Stale]]

\* The groups of a row that some block quantises, with how many do: block s
\* takes its share of K out of the stages of wave s \div 2.
GateQuantGroups(H) ==
  LET slice == H \div GateWarps
      share == (H \div GateSplit) \div GateChunk
      group(s, c, g) == ((s \div 2) * slice + c * GateChunk + g * GateGroup) \div GateGroup
      jobs == {j \in (0..(GateSplit - 1)) \X (0..(slice \div GateChunk - 1)) \X {0, 1} :
                 j[2] \in (j[1] % 2) * share .. ((j[1] % 2) + 1) * share - 1}
  IN [g \in 0..(H \div GateGroup - 1) |-> Cardinality({j \in jobs : group(j[1], j[2], j[3]) = g})]

\* A lane holds every WaveThreads-th expert; of equal logits the lower lane wins.
GateTopkSelect(logits, E, topk, renormalize) ==
  LET perLane == CeilDiv(E, WaveThreads)
      none == 10 * Cleared
      held(row, lane, used) ==
        [i \in 0..(perLane - 1) |->
           LET e == i * WaveThreads + lane
           IN IF e < E /\ <<lane, i>> \notin used THEN row[e] ELSE none]
      best(row, lane, used) ==
        LET h == held(row, lane, used)
            i == CHOOSE i \in DOMAIN h : \A j \in DOMAIN h : h[i] > h[j] \/ (h[i] = h[j] /\ i <= j)
        IN [score |-> h[i], expert |-> lane, slot |-> i]
      round(row, st, k) ==
        LET b == Butterfly([l \in 0..(WaveThreads - 1) |-> best(row, l, st.used)], WaveThreads)[0]
        IN [used |-> st.used \union {<<b.expert, b.slot>>},
            out |-> Append(st.out, [expert |-> b.slot * WaveThreads + b.expert, val |-> b.score])]
      select(row) == FoldLeft(LAMBDA st, k : round(row, st, k), [used |-> {}, out |-> <<>>],
                              [k \in 1..topk |-> k]).out
  IN {Stored(r, select(logits[r]), renormalize) : r \in DOMAIN logits}

\* What run() insists on; the blocks beyond num_experts read rows past the
\* end of the gate, which no selection looks at.
GateTopkAccepts(H, E, topk, quant) ==
  /\ H % (GateChunk * GateWarps) = 0
  /\ E % GateExperts = 0 /\ E <= GateSplit * GateExperts
  /\ topk <= WaveThreads
  /\ quant => H % (GateSplit * GateChunk) = 0

GateTopk(hidden, gate, topk, renormalize) ==
  GateTopkSelect(GateLogits(hidden, gate), Experts(gate), topk, renormalize)

-----------------------------------------------------------------------------
(* MiniMax: one wave for an expert, its lanes stride over K, eight steps at  *)
(* a time and then singly.                                                   *)

LaneColumns(lane, H) ==
  LET big == WaveThreads * Unroll
      whole == Cardinality({j \in 0..H : lane + j * big + WaveThreads * (Unroll - 1) < H})
  IN {lane + j * big + u * WaveThreads : j \in 0..(whole - 1), u \in 0..(Unroll - 1)}
       \union {k \in 0..(H - 1) : k >= lane + whole * big /\ k % WaveThreads = lane % WaveThreads}

MinimaxRouteLogits(hidden, gate, warps) ==
  LET H == Experts(hidden[0])
      E == Experts(gate)
      experts == {t * warps + w : t \in 0..(CeilDiv(E, warps) - 1), w \in 0..(warps - 1)}
  IN [r \in DOMAIN hidden |-> [e \in {x \in experts : x < E} |->
        MapThenSumSet(LAMBDA lane : Dot(hidden[r], gate[e], LaneColumns(lane, H)), 0..(WaveThreads - 1))]]

\* Only the first tile of experts quantises the row, a group to a thread in turn.
MinimaxQuantGroups(H, E, warps) ==
  LET threads == WaveThreads * warps
  IN [g \in 0..(H \div GateGroup - 1) |->
        Cardinality({j \in (0..(CeilDiv(E, warps) - 1)) \X (0..(threads - 1)) \X (0..H) :
                       j[1] = 0 /\ g = j[2] + j[3] * threads})]

MinimaxRouteTopk(hidden, gate, bias, topk, renormalize) ==
  TopkGatingV2Launcher(MinimaxRouteLogits(hidden, gate, 4), 2, <<bias>>, topk, renormalize)
=============================================================================
