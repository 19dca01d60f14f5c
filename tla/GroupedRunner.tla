---------------------------- MODULE GroupedRunner ----------------------------
(***************************************************************************)
(* The fp8 products of the DeepGEMM backend: dense linear layers and the    *)
(* experts of one rank, whose rows arrive sorted by expert, each expert's   *)
(* rows beginning at an aligned place.  Values are quantised in groups of   *)
(* 128; the scales are bytes, four groups to a word, words of one place     *)
(* in a row lying side by side for all rows, as the products' loads want.   *)
(*                                                                          *)
(* A group of 128 values is one term, its quantised values and its scale    *)
(* byte are terms of it, so that a scale of another row or group, or a byte *)
(* nobody wrote, shows in the product.                                      *)
(***************************************************************************)
EXTENDS Integers, Sequences, FiniteSets, SequencesExt

CONSTANTS
  Jobs,            \* the layers and batches to run, see MCDecoderLayers
  BlocksThreshold, \* blocks from which the wide configuration is taken (200)
  MaxGridY,        \* limit of the second grid dimension (65535)
  NormWarps,       \* waves of the fused norm (8)
  NormGroups,      \* groups of a row that a wave of the norm can hold (8)
  PsumBlocks       \* blocks of the fused activation (132 * 32)

VARIABLES
  step,      \* how far the job is
  job,       \* the job
  batch,     \* which of the batches of the job
  weights,   \* the layer's weights and scales as they lie in memory
  prepared,  \* the weights handed to the products, once prepared
  operand,   \* quantised values and scale bytes of the next product
  middle,    \* rows of the first product
  result     \* rows of the job

gvars == <<step, job, batch, weights, prepared, operand, middle, result>>

None == <<"none">>
Unwritten == <<"unwritten">>

DivUp(a, b) == (a + b - 1) \div b
AlignUp(a, b) == DivUp(a, b) * b

-----------------------------------------------------------------------------
(* Packed scales. *)

PackedGroups(groups) == DivUp(groups, 4)

\* mutant
ScaleByte_Unaligned(m, row, group) == ((group \div 4) * m + row) * 4 + (group % 4)
ScaleByte(m, row, group) == ((group \div 4) * AlignUp(m, 4) + row) * 4 + (group % 4)

\* The strided tensor of m rows ends with the last row's last word.
NumScaleElems(m, groups) == m + (PackedGroups(groups) - 1) * AlignUp(m, 4)
ScaleBytes(m, groups) == 0..(4 * NumScaleElems(m, groups) - 1)

Quantised(v) == <<"q", v>>
Scale(v) == <<"scale", v>>

\* What a launch leaves: q has a row's groups in sequence; a place that two
\* different values were written to holds neither.
Written(size, writes) ==
  LET at(a) == {w.val : w \in {x \in writes : x.addr = a}}
  IN [a \in size \union {w.addr : w \in writes} |->
        IF at(a) = {} THEN Unwritten ELSE IF Cardinality(at(a)) = 1 THEN CHOOSE v \in at(a) : TRUE ELSE None]

Operand(m, groups, qWrites, sWrites) ==
  [m |-> m, groups |-> groups,
   q |-> Written(0..(m * groups - 1), qWrites), s |-> Written(ScaleBytes(m, groups), sWrites)]

-----------------------------------------------------------------------------
(* per_token_fp8_packed: threads of a block are split over kx groups and     *)
(* ry rows.                                                                  *)

PickConfig(mn, padded) ==
  LET widest == IF padded % 16 = 0 THEN 16 ELSE IF padded % 8 = 0 THEN 8 ELSE 4
      kx == Max({k \in {1, 2, 4, 8, 16} : k <= widest /\ (k = 1 \/ DivUp(mn, 16 \div k) <= MaxGridY)})
      wide == [kx |-> kx, ry |-> 16 \div kx]
  IN IF \/ (padded \div kx) * DivUp(mn, wide.ry) >= BlocksThreshold
        \/ mn > MaxGridY
       THEN wide ELSE [kx |-> 4, ry |-> 1]

\* The benchmarks and tests give the configuration, which has to cover the
\* padded groups evenly.
CastConfig(j) ==
  IF j.config # <<>> THEN j.config[1] ELSE PickConfig(AlignUp(j.m, 4), 4 * PackedGroups(j.h))

PerTokenCast(m, groups, vals, cfg) ==
  LET mn == AlignUp(m, 4)
      blocks == (0..((4 * PackedGroups(groups)) \div cfg.kx - 1)) \X (0..(DivUp(mn, cfg.ry) - 1))
      threads == {[row |-> b[2] * cfg.ry + (l \div cfg.kx), group |-> b[1] * cfg.kx + (l % cfg.kx)] :
                    b \in blocks, l \in 0..(cfg.kx * cfg.ry - 1)}
      running == {t \in threads : t.row < mn}
      valid(t) == t.row < m /\ t.group < groups
      inside(t) == (t.group \div 4) * mn + t.row < NumScaleElems(m, groups)
  IN Operand(m, groups,
       {[addr |-> t.row * groups + t.group, val |-> Quantised(vals[t.row][t.group])] :
          t \in {x \in running : valid(x)}},
       {[addr |-> ScaleByte(m, t.row, t.group),
         val |-> IF valid(t) THEN Scale(vals[t.row][t.group]) ELSE <<"zero">>] :
          t \in {x \in running : valid(x) \/ inside(x)}})

-----------------------------------------------------------------------------
(* add_rmsnorm_fp8_quant: one block a row, groups dealt out to the waves.    *)

NormAccepts(groups) == groups % NormWarps = 0 /\ groups <= NormWarps * NormGroups

NormGroupsOf(warp, groups) == {warp + j * NormWarps : j \in 0..(groups \div NormWarps - 1)}

AddRmsNormQuant(m, groups, vals) ==
  LET squares == UNION {NormGroupsOf(w, groups) : w \in 0..(NormWarps - 1)}
      normed(row, g) == <<"normed", vals[row][g], {vals[row][x] : x \in squares}>>
      threads == {[row |-> row, group |-> g] : row \in 0..(m - 1), g \in squares}
  IN Operand(m, groups,
       {[addr |-> t.row * groups + t.group, val |-> Quantised(normed(t.row, t.group))] : t \in threads},
       {[addr |-> ScaleByte(m, t.row, t.group), val |-> Scale(normed(t.row, t.group))] : t \in threads})

-----------------------------------------------------------------------------
(* psum_silu_mul_fp8_packed: the rows of all experts, without the gaps,      *)
(* dealt out to the blocks.                                                  *)

\* Where the rows of an expert begin and how many they are, from the ends.
Starts(psum, alignment) ==
  [e \in DOMAIN psum |-> IF e = 0 THEN 0 ELSE AlignUp(psum[e - 1], alignment)]
RowCounts(psum, alignment) ==
  [e \in DOMAIN psum |-> Max({0, psum[e] - Starts(psum, alignment)[e]})]
CompactOffsets(psum, alignment) ==
  [e \in 0..Cardinality(DOMAIN psum) |->
     MapThenSumSet(LAMBDA x : RowCounts(psum, alignment)[x], {x \in DOMAIN psum : x < e})]

\* mutant
PsumTokenBounds_NoResidual(n, worker) ==
  LET first(id) == Min({n, id * (n \div PsumBlocks)})
  IN IF n < PsumBlocks /\ worker < n THEN worker .. worker
     ELSE first(worker) .. first(worker + 1) - 1

PsumTokenBounds(n, worker) ==
  LET chunk == n \div PsumBlocks
      residual == n % PsumBlocks
      first(id) == IF id < residual THEN Min({n, id * (chunk + 1)}) ELSE Min({n, id * chunk + residual})
  IN IF n < PsumBlocks /\ worker < n THEN worker .. worker
     ELSE first(worker) .. first(worker + 1) - 1

\* The last expert whose offset is not beyond the token, by bisection.
PsumFindExpert(offsets, token) ==
  LET E == Cardinality(DOMAIN offsets) - 1
      search[lo \in 0..E, hi \in 0..E] ==
        IF lo + 1 >= hi THEN lo
        ELSE LET mid == (lo + hi) \div 2
             IN IF offsets[mid] <= token THEN search[mid, hi] ELSE search[lo, mid]
  IN search[0, E]

PsumSiluMul(m, groups, psum, alignment, vals) ==
  LET offsets == CompactOffsets(psum, alignment)
      E == Cardinality(DOMAIN psum)
      \* The search is for the first token, the others step on from there.
      expert(lower, token) ==
        CHOOSE e \in PsumFindExpert(offsets, lower) .. (E - 1) :
          /\ e = E - 1 \/ token < offsets[e + 1]
          /\ \A x \in PsumFindExpert(offsets, lower) .. (e - 1) : token >= offsets[x + 1]
      row(lower, token) ==
        LET e == expert(lower, token) IN Starts(psum, alignment)[e] + token - offsets[e]
      rows == {r \in UNION {LET tokens == PsumTokenBounds(offsets[E], b)
                            IN {row(Min(tokens), t) : t \in tokens} : b \in 0..(PsumBlocks - 1)} : r < m}
  IN Operand(m, groups,
       {[addr |-> r * groups + g, val |-> Quantised(vals[r][g])] : r \in rows, g \in 0..(groups - 1)},
       {[addr |-> ScaleByte(m, r, g), val |-> IF g < groups THEN Scale(vals[r][g]) ELSE <<"zero">>] :
          r \in rows, g \in 0..(4 * PackedGroups(groups) - 1)})

-----------------------------------------------------------------------------
(* The masked layout, a block of padded rows for each expert, is quantised   *)
(* and multiplied by code of vLLM and DeepGEMM.                              *)

MaskedRow(j, e, t) == e * j.mPad + t
MaskedSiluMul(j, groups, vals) ==
  LET rows == {<<e, t>> \in (0..(j.experts - 1)) \X (0..(j.mPad - 1)) : t < j.counts[e]}
      addr(e, t, g) == (e * j.mPad * PackedGroups(groups) + (g \div 4) * j.mPad + t) * 4 + (g % 4)
  IN [m |-> j.m, groups |-> groups,
      q |-> Written(0..(j.m * groups - 1),
              {[addr |-> MaskedRow(j, r[1], r[2]) * groups + g,
                val |-> Quantised(vals[MaskedRow(j, r[1], r[2])][g])] : r \in rows, g \in 0..(groups - 1)}),
      s |-> Written(0..(4 * j.m * PackedGroups(groups) - 1),
              {[addr |-> addr(r[1], r[2], g), val |-> Scale(vals[MaskedRow(j, r[1], r[2])][g])] :
                 r \in rows, g \in 0..(groups - 1)})]

\* The rows of an expert and the byte where a product looks for the scale of
\* a row's group.
RowsOf(j, e) ==
  CASE j.layout = "dense"  -> 0..(j.m - 1)
    [] j.layout = "psum"   -> Starts(j.psum, j.alignment)[e] .. j.psum[e] - 1
    [] j.layout = "masked" -> {MaskedRow(j, e, t) : t \in 0..(j.counts[e] - 1)}
ByteOf(j, e, row, groups, g) ==
  IF j.layout = "masked"
    THEN (e * j.mPad * PackedGroups(groups) + (g \div 4) * j.mPad + row - e * j.mPad) * 4 + (g % 4)
    ELSE ((g \div 4) * AlignUp(j.m, 4) + row) * 4 + (g % 4)

-----------------------------------------------------------------------------
(* Weights: requantised in place to powers of two, once, when first used.    *)

Raw(name) == [q |-> <<"weight", name>>, s |-> <<"blockscale", name>>]
Requantised(w) == [q |-> <<"requant", w.q, w.s>>, s |-> <<"requantscale", w.q, w.s>>]

\* mutant
FP8WeightsForDeepGemm_NoCache ==
  /\ weights' = [n \in DOMAIN weights |-> Requantised(weights[n])]
  /\ prepared' = weights'

FP8WeightsForDeepGemm ==
  IF prepared # None THEN UNCHANGED <<weights, prepared>>
  ELSE /\ weights' = [n \in DOMAIN weights |-> Requantised(weights[n])]
       /\ prepared' = weights'

\* A product adds up the dequantised groups of a row; rows of no expert are
\* not stored.
Product(j, opnd, w, columns) ==
  LET experts == IF j.layout = "dense" THEN {0} ELSE 0..(j.experts - 1)
      owner(row) == {e \in experts : row \in RowsOf(j, e)}
      value(row, c) ==
        LET e == CHOOSE e \in owner(row) : TRUE
        IN <<"dot", e, c, w, [g \in 0..(opnd.groups - 1) |->
               IF j.fp8 THEN <<opnd.q[row * opnd.groups + g], opnd.s[ByteOf(j, e, row, opnd.groups, g)]>>
               ELSE opnd.q[row * opnd.groups + g]]>>
  IN [row \in 0..(j.m - 1) |-> [c \in 0..(columns - 1) |->
        IF owner(row) = {} THEN Unwritten ELSE value(row, c)]]

\* Values kept in bf16.
Plain(m, groups, vals) ==
  [m |-> m, groups |-> groups,
   q |-> [a \in 0..(m * groups - 1) |-> vals[a \div groups][a % groups]], s |-> [a \in {} |-> None]]

Input(b, row, g) == <<"x", b, row, g>>
Inputs(b) == [r \in 0..(job.m - 1) |-> [g \in 0..(job.h - 1) |-> Input(b, r, g)]]

Quantise ==
  /\ step = "start"
  /\ operand' = CASE ~job.fp8 -> Plain(job.m, job.h, Inputs(batch))
                  [] job.layout = "masked" -> MaskedSiluMul(job, job.h, Inputs(batch))
                  [] job.norm -> AddRmsNormQuant(job.m, job.h, Inputs(batch))
                  [] OTHER -> PerTokenCast(job.m, job.h, Inputs(batch), CastConfig(job))
  /\ step' = "quantised"
  /\ UNCHANGED <<job, batch, weights, prepared, middle, result>>

WeightsUsed == IF job.fp8 THEN prepared' ELSE weights

FirstProduct ==
  /\ step = "quantised"
  /\ IF job.fp8 THEN FP8WeightsForDeepGemm ELSE UNCHANGED <<weights, prepared>>
  /\ middle' = Product(job, operand, WeightsUsed["gate_up"], IF job.layout = "dense" THEN job.h ELSE 2 * job.inner)
  /\ step' = IF job.layout = "dense" THEN "last" ELSE "gated"
  /\ UNCHANGED <<job, batch, operand, result>>

\* In fp8 the routing weight goes in before the values are quantised, in
\* bf16 after the second product; the masked layout leaves it to the sender.
Activated(row, g) ==
  <<"act", middle[row][g], middle[row][job.inner + g],
    IF job.fp8 /\ job.layout = "psum" THEN <<"weight", row>> ELSE None>>

SiluMul ==
  /\ step = "gated"
  /\ LET activated == [r \in 0..(job.m - 1) |-> [g \in 0..(job.inner - 1) |-> Activated(r, g)]]
     IN operand' = CASE ~job.fp8 -> Plain(job.m, job.inner, activated)
                     [] job.layout = "psum" -> PsumSiluMul(job.m, job.inner, job.psum, job.alignment, activated)
                     [] OTHER -> MaskedSiluMul(job, job.inner, activated)
  /\ step' = "activated"
  /\ UNCHANGED <<job, batch, weights, prepared, middle, result>>

SecondProduct ==
  /\ step = "activated"
  /\ middle' = LET rows == Product(job, operand, (IF job.fp8 THEN prepared ELSE weights)["down"], job.h)
               IN IF ~job.fp8 /\ job.layout = "psum"
                    THEN [r \in DOMAIN rows |-> [c \in DOMAIN rows[r] |-> <<"times", <<"weight", r>>, rows[r][c]>>]]
                    ELSE rows
  /\ step' = "last"
  /\ UNCHANGED <<job, batch, weights, prepared, operand, result>>

\* The next batch finds the weights as this one left them.
Finish ==
  /\ step = "last"
  /\ result' = middle
  /\ IF batch < job.batches THEN batch' = batch + 1 /\ step' = "start" ELSE batch' = batch /\ step' = "end"
  /\ UNCHANGED <<job, weights, prepared, operand, middle>>

GInit ==
  /\ step = "start" /\ job \in Jobs /\ batch = 1
  /\ weights = [n \in {"gate_up", "down"} |-> Raw(n)] /\ prepared = None
  /\ operand = None /\ middle = None /\ result = None

Ended == step = "end" /\ UNCHANGED gvars

GNext == Quantise \/ FirstProduct \/ SiluMul \/ SecondProduct \/ Finish \/ Ended
GSpec == GInit /\ [][GNext]_gvars
-----------------------------------------------------------------------------
(* What the products have to be. *)

OwnWeight(n) == IF job.fp8 THEN Requantised(Raw(n)) ELSE Raw(n)
OwnPair(v) == IF job.fp8 THEN <<Quantised(v), Scale(v)>> ELSE v
OwnInput(b, row, g) ==
  IF job.norm THEN <<"normed", Input(b, row, g), {Input(b, row, x) : x \in 0..(job.h - 1)}>> ELSE Input(b, row, g)
OwnFirst(b, e, row, c) ==
  <<"dot", e, c, OwnWeight("gate_up"), [g \in 0..(job.h - 1) |-> OwnPair(OwnInput(b, row, g))]>>
OwnAct(b, e, row, g) ==
  <<"act", OwnFirst(b, e, row, g), OwnFirst(b, e, row, job.inner + g),
    IF job.fp8 /\ job.layout = "psum" THEN <<"weight", row>> ELSE None>>
OwnSecond(b, e, row, c) ==
  LET dot == <<"dot", e, c, OwnWeight("down"), [g \in 0..(job.inner - 1) |-> OwnPair(OwnAct(b, e, row, g))]>>
  IN IF ~job.fp8 /\ job.layout = "psum" THEN <<"times", <<"weight", row>>, dot>> ELSE dot

\* Whatever the batch, the layout of experts and the split of the work over
\* blocks: every row of every expert is quantised, once, with every group
\* multiplied by its own scale byte; no launch writes past the scales that
\* were allocated; and every batch sees weights that were requantised exactly
\* once (per_token_fp8_packed.cu, psum_silu_mul_fp8_packed.cu,
\* add_rmsnorm_fp8_quant.cu, deepgemm_grouped.py, linear.py).
ProductsAreOwn ==
  /\ step \in {"quantised", "activated"} /\ job.fp8 /\ job.layout # "masked" =>
       /\ DOMAIN operand.s = ScaleBytes(job.m, operand.groups)
       /\ DOMAIN operand.q = 0..(job.m * operand.groups - 1)
  /\ step = "last" =>
       \A e \in 0..(job.experts - 1) : \A row \in RowsOf(job, e), c \in 0..(job.h - 1) :
         middle[row][c] = IF job.layout = "dense" THEN OwnFirst(batch, e, row, c) ELSE OwnSecond(batch, e, row, c)
=============================================================================
