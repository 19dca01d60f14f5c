------------------------------ MODULE Attention ------------------------------
(***************************************************************************)
(* Attention over the paged KV store, with the scheduler that prepares a    *)
(* batch on one stream of the device and the engine that runs its layers on *)
(* another, by kernels launched one by one or by the replay of a captured   *)
(* graph, whose buffers keep their addresses.                               *)
(*                                                                          *)
(* A stored key or value is the name of its token.  What a kernel leaves in *)
(* a row and a head is the set of keys it read, each with the place in the  *)
(* loop where it was read, and how often the sink was counted.              *)
(***************************************************************************)
EXTENDS Integers, Sequences, FiniteSets, SequencesExt

CONSTANTS
  Plays,          \* the series of batches to run, see MCDecoderLayers
  BlockM,         \* queries of a program of the prefill kernel (128)
  BlockN,         \* keys of a turn of the kernels' loops (64)
  TargetPrograms, \* programs that fill the device (4 * its units)
  MaxSplits,      \* splits of a sequence at most (32)
  MaxLen,         \* positions of a row of the page table
  StoreWarps      \* tokens a block of the store kernel takes (4)

VARIABLES
  play,    \* the batches, their requests and the backends
  cpu,     \* what the scheduler's thread does next, and for which batch
  sq, eq,  \* launched and not yet run, on the scheduler's and engine's stream
  sdone,   \* operations run on the scheduler's stream
  edone,   \* batches run on the engine's stream
  table,   \* page table: request -> position -> slot
  own,     \* per batch, the tensors gathered for it alone
  gens,    \* triton_decode: its buffers, the last the current ones
  graph,   \* buffers of the captured graphs
  staged,  \* fi: pinned buffer of the planner
  plan,    \* fi: what the last plan that ran left on the device
  pool,    \* layer -> slot -> stored token
  last     \* what the last kernel left, if any

avars == <<play, cpu, sq, eq, sdone, edone, table, own, gens, graph, staged, plan, pool, last>>

NoValue == <<"none">>
CeilOf(a, b) == (a + b - 1) \div b
Upto(n) == 0..(n - 1)
IMax(S) == CHOOSE x \in S : \A y \in S : x >= y
IMin(S) == CHOOSE x \in S : \A y \in S : x <= y

-----------------------------------------------------------------------------
(* Batches. *)

Steps == 1..Len(play.batches)
IsDecode(k) == play.batches[k].phase = "decode"
Backend(k) == IF IsDecode(k) THEN play.decode ELSE play.prefill
NumLayers == Len(play.windows)

Dummy == [req |-> "dummy", cached |-> 0, extend |-> 1]

MaxGraphBs == IF play.graphs = {} THEN 0 ELSE IMax(play.graphs)
CanUseGraph(k) == IsDecode(k) /\ Len(play.batches[k].reqs) <= MaxGraphBs

PadBatch(k) ==
  LET size == Len(play.batches[k].reqs)
      padded == IF CanUseGraph(k) THEN IMin({bs \in play.graphs : bs >= size}) ELSE size
  IN play.batches[k].reqs \o [i \in 1..(padded - size) |-> Dummy]

DeviceLen(r) == r.cached + r.extend
Before(f) == [i \in 1..(Len(f) + 1) |-> FoldLeft(LAMBDA s, x : s + x, 0, SubSeq(f, 1, i - 1))]
Extends(k) == [i \in DOMAIN PadBatch(k) |-> PadBatch(k)[i].extend]
Lens(k) == [i \in DOMAIN PadBatch(k) |-> DeviceLen(PadBatch(k)[i])]
Rows(k) == [i \in DOMAIN PadBatch(k) |-> PadBatch(k)[i].req]

\* Where the queries of each request begin in the batch.
\* mutant
CuSeqlensQ_NoExtend(k) ==
  LET reqs == PadBatch(k)
  IN IF \A i \in DOMAIN reqs : reqs[i].extend = 1 THEN [i \in 1..(Len(reqs) + 1) |-> i - 1]
     ELSE Before(Lens(k))

CuSeqlensQ(k) ==
  LET reqs == PadBatch(k)
  IN IF \A i \in DOMAIN reqs : reqs[i].extend = 1 THEN [i \in 1..(Len(reqs) + 1) |-> i - 1]
     ELSE IF \A i \in DOMAIN reqs : reqs[i].cached = 0 THEN Before(Lens(k))
     ELSE Before(Extends(k))

\* The tokens of the batch, in the order of its queries.
TokensOf(k) ==
  FlattenSeq([i \in DOMAIN PadBatch(k) |->
    LET r == PadBatch(k)[i] IN [j \in 1..r.extend |-> [req |-> r.req, pos |-> r.cached + j - 1]]])

\* A request that continues a cached prefix has its pages.
SlotOf(req, pos) == (play.pages[req][(pos \div play.pageSize) + 1] * play.pageSize) + (pos % play.pageSize)
Token(req, pos) ==
  IF req = "dummy" THEN <<"dummy">>
  ELSE IF pos < play.shared[req].len THEN <<play.shared[req].of, pos>> ELSE <<req, pos>>

LastIndices(k) ==
  CASE Backend(k) = "triton" /\ IsDecode(k) -> [i \in 1..Len(PadBatch(k)) |-> i - 1]
    [] Backend(k) = "triton" /\ ~IsDecode(k) -> [i \in 1..Len(PadBatch(k)) |-> Before(Extends(k))[i] + Extends(k)[i] - 1]
    [] OTHER -> [i \in 1..Len(PadBatch(k)) |-> CuSeqlensQ(k)[i + 1] - 1]

-----------------------------------------------------------------------------
(* Storing the keys and values of a batch. *)

StoreCache(cache, indices, tokens) ==
  LET warps == {w \in Upto(CeilOf(Len(indices), StoreWarps) * StoreWarps) : w < Len(indices)}
      at(s) == {tokens[w + 1] : w \in {x \in warps : indices[x + 1] = s}}
  IN [s \in DOMAIN cache |-> IF at(s) = {} THEN cache[s] ELSE CHOOSE t \in at(s) : TRUE]

StoreKv(l, outLoc, k) ==
  [pool EXCEPT ![l] = StoreCache(@, outLoc,
     [i \in DOMAIN TokensOf(k) |-> Token(TokensOf(k)[i].req, TokensOf(k)[i].pos)])]

-----------------------------------------------------------------------------
(* Triton kernels.  A pass goes over blocks of keys with a running maximum;  *)
(* when the maximum starts at minus infinity and the first block is masked   *)
(* throughout, the rescaling is not a number.                                *)

BlocksOf(lo, hi) == {x \in lo..(hi - 1) : (x - lo) % BlockN = 0}

Pass(store, row, split, starts, seen, finite) ==
  [reads |-> {[at |-> <<split, s>>, pos |-> p, key |-> store[table[row][p]]] :
                <<s, p>> \in {<<x, y>> \in starts \X Upto(MaxLen) : y \in x..(x + BlockN - 1) /\ y \in seen}},
   sinks |-> 0,
   nan |-> ~finite /\ starts # {} /\ \A p \in IMin(starts)..(IMin(starts) + BlockN - 1) : p \notin seen]

WithSink(part) == IF play.sink THEN [part EXCEPT !.sinks = @ + 1] ELSE part

WindowLo(len, window) == IF window > 0 THEN IMax({0, len - window}) ELSE 0

PagedDecodeKernel(store, row, len, window) ==
  LET lo == WindowLo(len, window)
  IN WithSink(Pass(store, row, 0, BlocksOf(lo, len), lo..(len - 1), FALSE))

\* mutant
PagedDecodeSplitKernel_SinkEverywhere(store, row, len, window, splits) ==
  LET winLo == WindowLo(len, window)
      perSplit == CeilOf(CeilOf(len - winLo, BlockN), splits)
      lo(s) == winLo + (s * perSplit * BlockN)
      hi(s) == IMin({lo(s) + (perSplit * BlockN), len})
  IN [s \in Upto(splits) |-> WithSink(Pass(store, row, s, BlocksOf(lo(s), hi(s)), Upto(hi(s)), FALSE))]

PagedDecodeSplitKernel(store, row, len, window, splits) ==
  LET winLo == WindowLo(len, window)
      perSplit == CeilOf(CeilOf(len - winLo, BlockN), splits)
      lo(s) == winLo + (s * perSplit * BlockN)
      hi(s) == IMin({lo(s) + (perSplit * BlockN), len})
      part(s) == Pass(store, row, s, BlocksOf(lo(s), hi(s)), Upto(hi(s)), FALSE)
  IN [s \in Upto(splits) |-> IF s = 0 THEN WithSink(part(s)) ELSE part(s)]

DecodeReduceKernel(parts) ==
  LET live == {s \in DOMAIN parts : parts[s].reads # {} \/ parts[s].sinks > 0}
  IN [reads |-> UNION {parts[s].reads : s \in live},
      sinks |-> MapThenSumSet(LAMBDA s : parts[s].sinks, live),
      nan |-> \E s \in live : parts[s].nan]

SplitsFor(bs) ==
  LET base == IMax({1, bs * play.kv})
      want == IMax({1, TargetPrograms \div base})
      pow2 == IMin({p \in {1, 2, 4, 8, 16, 32, 64, 128} : p >= want})
  IN IMin({MaxSplits, pow2})

\* One program for each request and key head, its queries in one tile.
TritonDecode(store, k, rows, lens, window) ==
  LET bs == Len(PadBatch(k))
      splits == SplitsFor(bs)
      result(b) ==
        IF splits = 1 THEN PagedDecodeKernel(store, rows[b], lens[b], window)
        ELSE DecodeReduceKernel(PagedDecodeSplitKernel(store, rows[b], lens[b], window, splits))
      group == play.qo \div play.kv
  IN [r \in Upto(bs) |-> LET part == result(r + 1) IN [h \in Upto(play.qo) |-> [head |-> h \div group, part |-> part]]]

\* Queries are the last positions of their sequence.
\* mutant
PagedPrefillKernel_InfiniteStart(store, row, qLen, kLen, mBlk, window) ==
  LET cached == kLen - qLen
      hi == IMin({cached + (mBlk * BlockM) + BlockM, kLen})
      lo == IF window > 0 THEN IMax({0, cached + (mBlk * BlockM) - window + 1}) ELSE 0
      sees(i) == {p \in Upto(kLen) : p <= cached + i /\ (window > 0 => p > cached + i - window)}
  IN [i \in {x \in (mBlk * BlockM)..((mBlk * BlockM) + BlockM - 1) : x < qLen} |->
        WithSink(Pass(store, row, 0, BlocksOf(lo, hi), sees(i), FALSE))]

PagedPrefillKernel(store, row, qLen, kLen, mBlk, window) ==
  LET cached == kLen - qLen
      hi == IMin({cached + (mBlk * BlockM) + BlockM, kLen})
      lo == IF window > 0 THEN IMax({0, cached + (mBlk * BlockM) - window + 1}) ELSE 0
      sees(i) == {p \in Upto(kLen) : p <= cached + i /\ (window > 0 => p > cached + i - window)}
  IN [i \in {x \in (mBlk * BlockM)..((mBlk * BlockM) + BlockM - 1) : x < qLen} |->
        WithSink(Pass(store, row, 0, BlocksOf(lo, hi), sees(i), TRUE))]

TritonPrefill(store, k, window) ==
  LET starts == Before(Extends(k))
      blocks == Upto(CeilOf(IMax({Extends(k)[i] : i \in DOMAIN Extends(k)}), BlockM))
      result(b, mBlk) == PagedPrefillKernel(store, Rows(k)[b], Extends(k)[b], Lens(k)[b], mBlk, window)
      rows == UNION {{<<b, i>> : i \in Upto(Extends(k)[b])} : b \in DOMAIN starts \ {Len(starts)}}
  IN [r \in {starts[x[1]] + x[2] : x \in rows} |->
        LET x == CHOOSE y \in rows : starts[y[1]] + y[2] = r
            part == result(x[1], CHOOSE m \in blocks : x[2] \in (m * BlockM)..((m * BlockM) + BlockM - 1))[x[2]]
        IN [h \in Upto(play.qo) |-> [head |-> h \div (play.qo \div play.kv), part |-> part]]]

-----------------------------------------------------------------------------
(* The backends that gather the slots of a request.  The kernels of fi and  *)
(* trtllm are libraries; torch_ref goes over the requests on the host.       *)

Reads(store, slots, visible) ==
  [reads |-> {[at |-> <<0, 0>>, pos |-> p, key |-> store[slots[p + 1]]] : p \in {x \in Upto(Len(slots)) : visible[x]}},
   sinks |-> 0, nan |-> FALSE]

PagedAttention(store, cuQ, slots) ==
  LET rows == UNION {{<<b, i>> : i \in Upto(cuQ[b + 1] - cuQ[b])} : b \in DOMAIN slots}
  IN [r \in Upto(cuQ[Len(cuQ)]) |->
        LET x == CHOOSE y \in rows : cuQ[y[1]] + y[2] = r
            len == Len(slots[x[1]])
            queries == cuQ[x[1] + 1] - cuQ[x[1]]
            part == Reads(store, slots[x[1]], [p \in Upto(len) |-> p <= len - queries + x[2]])
        IN [h \in Upto(play.qo) |-> [head |-> h \div (play.qo \div play.kv), part |-> part]]]

TorchRef(store, cuQ, slots) ==
  LET lenQ(b) == cuQ[b + 1] - cuQ[b]
      served == {b \in DOMAIN slots : lenQ(b) > 0 /\ Len(slots[b]) > 0}
      rows == UNION {{<<b, i>> : i \in Upto(lenQ(b))} : b \in served}
      mask(b, i) == [p \in Upto(Len(slots[b])) |-> lenQ(b) > 1 => p <= i + Len(slots[b]) - lenQ(b)]
  IN [r \in {cuQ[x[1]] + x[2] : x \in rows} |->
        LET x == CHOOSE y \in rows : cuQ[y[1]] + y[2] = r
            part == Reads(store, slots[x[1]], mask(x[1], x[2]))
        IN [h \in Upto(play.qo) |-> [head |-> h \div (play.qo \div play.kv), part |-> part]]]

-----------------------------------------------------------------------------
(* The scheduler's thread. *)

\* The buffers of triton_decode are written in place.  They grow with the
\* batch until graphs hold their addresses.
NewGen(bs) == [host |-> [rows |-> [i \in 1..bs |-> "dummy"], lens |-> [i \in 1..bs |-> 0]],
               rows |-> [i \in 1..bs |-> "dummy"], lens |-> [i \in 1..bs |-> 1]]
Capacity == IF gens = <<>> THEN 0 ELSE Len(gens[Len(gens)].rows)
Frozen == play.graphs # {}

InPlace(buffer, values) == [i \in DOMAIN buffer |-> IF i <= Len(values) THEN values[i] ELSE buffer[i]]

WriteMetadata(k) ==
  LET bs == Len(PadBatch(k))
      grown == IF bs <= Capacity THEN gens ELSE Append(gens, NewGen(bs))
  IN gens' = [grown EXCEPT ![Len(grown)].host =
                [rows |-> InPlace(@.rows, Rows(k)), lens |-> InPlace(@.lens, Lens(k))]]

Refuses(k) == Backend(k) = "triton" /\ IsDecode(k) /\ Frozen /\ Len(PadBatch(k)) > Capacity

\* What a batch needs on the device, on the stream the scheduler runs on.
PrepareOp(k) == [op |-> "prepare", k |-> k, gen |-> Len(gens')]

PrepareBatch ==
  /\ cpu.at = "prepare" /\ ~Refuses(cpu.k)
  /\ IF Backend(cpu.k) = "triton" /\ IsDecode(cpu.k) THEN WriteMetadata(cpu.k) ELSE UNCHANGED gens
  /\ IF play.overlap THEN sq' = Append(sq, PrepareOp(cpu.k)) /\ UNCHANGED eq
     ELSE eq' = Append(eq, PrepareOp(cpu.k)) /\ UNCHANGED sq
  /\ cpu' = [cpu EXCEPT !.at = "forward"]
  /\ UNCHANGED <<play, sdone, edone, table, own, graph, staged, plan, pool, last>>

\* _ensure_capacity: a batch beyond the captured ones stops the server.
EnsureCapacity ==
  /\ cpu.at = "prepare" /\ Refuses(cpu.k)
  /\ cpu' = [cpu EXCEPT !.at = "refused"]
  /\ UNCHANGED <<play, sq, eq, sdone, edone, table, own, gens, graph, staged, plan, pool, last>>

\* The planner of fi writes its pinned buffer once the copy of the plan
\* before it has run.
PlanPending == \E i \in DOMAIN eq : eq[i].op = "plan"

\* mutant
PlanMayStart_NoEvent(k) == TRUE
PlanMayStart(k) == Backend(k) = "fi" => ~PlanPending

ForwardOps(k) ==
  (IF play.overlap THEN <<[op |-> "wait", k |-> k, gen |-> 0]>> ELSE <<>>)
  \o (IF Backend(k) = "fi" THEN <<[op |-> "plan", k |-> k, gen |-> 0]>> ELSE <<>>)
  \o (IF CanUseGraph(k) THEN <<[op |-> "replay", k |-> k, gen |-> 0]>> ELSE <<>>)
  \o [l \in 1..NumLayers |-> [op |-> "layer", k |-> k, gen |-> Len(gens), layer |-> l]]
  \o <<[op |-> "done", k |-> k, gen |-> 0]>>

ForwardBatch ==
  /\ cpu.at = "forward" /\ PlanMayStart(cpu.k)
  /\ eq' = eq \o ForwardOps(cpu.k)
  /\ staged' = IF Backend(cpu.k) = "fi" THEN [cuQ |-> CuSeqlensQ(cpu.k), lens |-> Lens(cpu.k)] ELSE staged
  /\ cpu' = [cpu EXCEPT !.at = "collect"]
  /\ UNCHANGED <<play, sq, sdone, edone, table, own, gens, graph, plan, pool, last>>

\* The results waited for are those of the batch before in the overlapping
\* loop, where the last batch is collected alone.
ProcessLastData ==
  /\ cpu.at = "collect"
  /\ edone >= (IF play.overlap THEN cpu.k - 1 ELSE cpu.k)
  /\ cpu' = IF cpu.k < Len(play.batches) THEN [k |-> cpu.k + 1, at |-> "prepare"]
            ELSE [cpu EXCEPT !.at = "idle"]
  /\ UNCHANGED <<play, sq, eq, sdone, edone, table, own, gens, graph, staged, plan, pool, last>>

-----------------------------------------------------------------------------
(* The streams. *)

\* allocate_paged writes the slots of a batch to the page table.
AllocatePaged(k) ==
  LET reqs == PadBatch(k)
  IN [r \in DOMAIN table |-> [p \in DOMAIN table[r] |->
        IF \E i \in DOMAIN reqs : reqs[i].req = r /\ p < DeviceLen(reqs[i])
          THEN SlotOf(r, IF r = "dummy" THEN 0 ELSE p) ELSE table[r][p]]]

\* The slots of a request, which trtllm takes from every page's first.
GatherSlots(r, filled) == [x \in 1..DeviceLen(r) |-> filled[r.req][x - 1]]
BuildPageTable(r, filled) ==
  LET page(n) == filled[r.req][n * play.pageSize] \div play.pageSize
  IN [x \in 1..DeviceLen(r) |-> (page((x - 1) \div play.pageSize) * play.pageSize) + ((x - 1) % play.pageSize)]

\* Page table and metadata of a batch.
Prepared(op) ==
  LET k == op.k
      reqs == PadBatch(k)
      filled == AllocatePaged(k)
  IN /\ table' = filled
     /\ own' = [own EXCEPT ![k] =
          [outLoc |-> [j \in DOMAIN TokensOf(k) |-> filled[TokensOf(k)[j].req][TokensOf(k)[j].pos]],
           slots |-> [i \in DOMAIN reqs |->
             IF Backend(k) = "trtllm" THEN BuildPageTable(reqs[i], filled) ELSE GatherSlots(reqs[i], filled)]]]
     /\ IF Backend(k) = "triton" /\ IsDecode(k)
          THEN LET bs == Len(reqs) host == gens[op.gen].host
               IN gens' = [gens EXCEPT ![op.gen].rows = InPlace(@, SubSeq(host.rows, 1, bs)),
                                       ![op.gen].lens = InPlace(@, SubSeq(host.lens, 1, bs))]
          ELSE UNCHANGED gens
     /\ UNCHANGED <<play, cpu, edone, graph, staged, plan, pool, last>>

SchedulerStream ==
  /\ sq # <<>>
  /\ Prepared(Head(sq)) /\ sq' = Tail(sq) /\ sdone' = sdone + 1 /\ UNCHANGED eq

\* fi copies the plan, replay the inputs and trtllm its metadata into the
\* buffers of the graphs.
RunPlan(op) ==
  /\ LET indices == FlattenSeq(own[op.k].slots)
         indptr == Before(staged.lens)
     IN plan' = [cuQ |-> staged.cuQ, slots |-> [i \in DOMAIN staged.lens |-> [x \in 1..staged.lens[i] |->
                   IF indptr[i] + x <= Len(indices) THEN indices[indptr[i] + x] ELSE 0]]]
  /\ UNCHANGED <<play, cpu, sq, sdone, edone, table, own, gens, graph, staged, pool, last>>

RunReplay(op) ==
  /\ graph' = [outLoc |-> InPlace(graph.outLoc, own[op.k].outLoc),
               slots |-> IF Backend(op.k) = "trtllm" THEN InPlace(graph.slots, own[op.k].slots) ELSE graph.slots]
  /\ UNCHANGED <<play, cpu, sq, sdone, edone, table, own, gens, staged, plan, pool, last>>

Attend(store, op) ==
  LET k == op.k
      bs == Len(PadBatch(k))
      window == play.windows[op.layer]
      slots == IF CanUseGraph(k) THEN SubSeq(graph.slots, 1, bs) ELSE own[k].slots
  IN CASE Backend(k) = "triton" /\ IsDecode(k) -> TritonDecode(store, k, gens[op.gen].rows, gens[op.gen].lens, window)
       [] Backend(k) = "triton" /\ ~IsDecode(k) -> TritonPrefill(store, k, window)
       [] Backend(k) = "torch_ref" -> TorchRef(store, CuSeqlensQ(k), own[k].slots)
       [] Backend(k) = "fi" -> PagedAttention(store, plan.cuQ, plan.slots)
       [] Backend(k) = "trtllm" -> PagedAttention(store, CuSeqlensQ(k), slots)

RunLayer(op) ==
  LET outLoc == IF CanUseGraph(op.k) THEN SubSeq(graph.outLoc, 1, Len(PadBatch(op.k))) ELSE own[op.k].outLoc
  IN /\ pool' = StoreKv(op.layer, outLoc, op.k)
     /\ last' = <<[k |-> op.k, layer |-> op.layer, out |-> Attend(pool'[op.layer], op)]>>
     /\ UNCHANGED <<play, cpu, sq, sdone, edone, table, own, gens, graph, staged, plan>>

EngineStream ==
  /\ eq # <<>> /\ eq' = Tail(eq)
  /\ LET op == Head(eq)
     IN \/ op.op = "prepare" /\ Prepared(op) /\ UNCHANGED <<sq, sdone>>
        \/ op.op = "wait" /\ sdone >= op.k
           /\ UNCHANGED <<play, cpu, sq, sdone, edone, table, own, gens, graph, staged, plan, pool, last>>
        \/ op.op = "plan" /\ RunPlan(op)
        \/ op.op = "replay" /\ RunReplay(op)
        \/ op.op = "layer" /\ RunLayer(op)
        \/ op.op = "done" /\ edone' = op.k
           /\ UNCHANGED <<play, cpu, sq, sdone, table, own, gens, graph, staged, plan, pool, last>>

Slots == UNION {{(pg * play.pageSize) + o : o \in Upto(play.pageSize)} :
                  pg \in UNION {ToSet(play.pages[r]) : r \in DOMAIN play.pages}}

AInit ==
  /\ play \in Plays
  /\ cpu = [k |-> 1, at |-> "prepare"] /\ sq = <<>> /\ eq = <<>> /\ sdone = 0 /\ edone = 0
  /\ table = [r \in DOMAIN play.pages |-> [p \in Upto(MaxLen) |->
       IF r = "dummy" THEN SlotOf(r, 0) ELSE IF p < play.before[r] THEN SlotOf(r, p) ELSE 0]]
  /\ own = [k \in Steps |-> NoValue]
  /\ gens = IF play.decode = "triton" /\ Frozen THEN <<NewGen(MaxGraphBs)>> ELSE <<>>
  /\ graph = [outLoc |-> [i \in 1..MaxGraphBs |-> 0], slots |-> [i \in 1..MaxGraphBs |-> <<0>>]]
  /\ staged = NoValue /\ plan = NoValue
  /\ pool = [l \in 1..NumLayers |-> [s \in Slots \union {0} |->
       IF \E r \in DOMAIN play.before : \E p \in Upto(play.before[r]) : SlotOf(r, p) = s
         THEN LET r == CHOOSE r \in DOMAIN play.before : \E p \in Upto(play.before[r]) : SlotOf(r, p) = s
              IN Token(r, CHOOSE p \in Upto(play.before[r]) : SlotOf(r, p) = s)
         ELSE NoValue]]
  /\ last = <<>>

Idle == cpu.at \in {"idle", "refused"} /\ sq = <<>> /\ eq = <<>> /\ UNCHANGED avars

ANext == PrepareBatch \/ EnsureCapacity \/ ForwardBatch \/ ProcessLastData \/ SchedulerStream \/ EngineStream \/ Idle
ASpec == AInit /\ [][ANext]_avars
-----------------------------------------------------------------------------
\* Whatever the backend, the lengths and the split of a sequence over
\* programs, and whichever work of the next batch overlaps: every query reads
\* each position it may see once, finds there what its own request (or the
\* prefix it shares) stored, in its own key head, with the sink counted once;
\* and the row the output layer takes is its request's last query.
AttentionIsOwn ==
  last # <<>> =>
    LET k == last[1].k
        reqs == play.batches[k].reqs
        row(b, i) == Before([x \in DOMAIN reqs |-> reqs[x].extend])[b] + i
        window == play.windows[last[1].layer]
    IN \A b \in DOMAIN reqs :
         /\ LastIndices(k)[b] = row(b, reqs[b].extend - 1)
         /\ \A i \in Upto(reqs[b].extend), h \in Upto(play.qo) :
              LET pos == reqs[b].cached + i
                  visible == {p \in 0..pos : window = 0 \/ p > pos - window}
              IN /\ row(b, i) \in DOMAIN last[1].out /\ h \in DOMAIN last[1].out[row(b, i)]
                 /\ LET found == last[1].out[row(b, i)][h]
                    IN /\ found.head = h \div (play.qo \div play.kv)
                       /\ ~found.part.nan
                       /\ found.part.sinks = (IF play.sink THEN 1 ELSE 0)
                       /\ Cardinality(found.part.reads) = Cardinality(visible)
                       /\ {<<x.pos, x.key>> : x \in found.part.reads} = {<<p, Token(reqs[b].req, p)>> : p \in visible}
=============================================================================
