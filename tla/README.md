# FastAFD: formal models of the serving runtime

TLA+ models of the control logic in `src/python/minisgl`, TLC configurations
that check them on small instances, and TLAPS proofs. Paths below are relative
to `src/python/minisgl/`.

## 1. The system and its parts

FastAFD serves language models on AMD GPUs in two layouts.  *Colocated*: one
scheduler per tensor-parallel rank owns the whole model.  *AFD*: attention and
expert layers live on different workers and a coordinator drives both.  HTTP
front end, tokenizer and detokenizer processes are shared by both.

| Component | State it keeps | Operations | Talks to |
|---|---|---|---|
| Scheduler loop (`scheduler/scheduler.py`, `prefill.py`, `decode.py`, `table.py`) | pending list, running set, table slots, last launched batch, `finished_reqs` | handle user / abort message, admit, launch a batch, process its results, idle | front end (ZMQ messages), engine (CUDA streams), page manager (calls) |
| Page manager (`scheduler/cache.py`) | free pages, lazy free list, page table rows | match, allocate, `cache_req`, integrity check | prefix cache |
| Prefix cache (`kvcache/radix_cache.py`, `naive_cache.py`) | radix tree, reference counts, timestamps, size counters | match, insert, lock, unlock, evict | page manager |
| Engine (`engine/engine.py`, `graph.py`) | token pool, KV memory, copy events | run a batch, sample, copy tokens back | scheduler |
| AFD coordinator (`afd_coordinator.py`) | in-flight steps (at most three), generation per table, `pending_free` | receive, dispatch, launch, collect, complete, abort, shutdown | central scheduler (calls), workers (Ray queues) |
| AFD central scheduler (`afd_scheduler.py`) | page counters, requests, microbatch split | schedule step, complete results, abort, pad and split | coordinator |
| AFD workers (`afd_attention_worker.py`, `afd_attention_runtime.py`, `afd_expert_worker.py`) | request tables and pages mirrored locally, pending replies (at most two kept back) | run step, retire, free tables, flush, stop | coordinator, each other (collectives) |
| API front end (`server/api_server.py`) | `ack_map`, `event_map`, uid counter | new user, listen, wait for ack, stream, abort | tokenizer |
| Tokenizer / detokenizer (`tokenizer/`) | `decode_map` with text offsets | tokenize, detokenize, pass aborts on | front end, scheduler |
| Rank broadcast (`scheduler/io.py`) | message queue of rank 0 | receive, count, publish | other ranks |
| Offline driver (`llm/llm.py`) | status per request | feed, collect | scheduler |
| Supervisors, launch, arguments (`server/supervisor*.py`, `launch.py`, `args.py`) | child processes | start, watch, stop | everything |
| Kernels, layers, models, MoE and attention backends | GPU memory | numerics | engine |

### What makes each one right, and what is hard

* **Scheduler loop and page manager.** No page, slot or lock may be lost or
  given twice; the admission test must leave room for everyone to finish; a
  request is answered to the end and never beyond its limit. Hard because with
  overlap messages are handled, requests admitted and results processed
  *between* the launch of a batch and the arrival of its tokens, and because the
  scheduler's copies run on another CUDA stream than the batches.
* **Prefix cache.** A handle must protect its path through splits; counters must
  match the tree; eviction takes only unlocked leaves. Hard because splits,
  locks and evictions are spread over separate calls.
* **AFD.** Tokens must reach the request they were sampled for although three
  steps are in flight and a table may change owner; freed tables must reach
  every worker before they are used again; the last replies must be flushed.
* **Front end and tokenizers.** No acknowledgement may be lost between the event
  and the list it guards; a disconnect may race with the final token.
* **Rank broadcast.** Every rank must handle the same messages in the same round.

`PROJECT.json` lists each hazard at the line where it bites, and the properties
that cover it.

## 2. Modules

| Module | Models | Part of the code |
|---|---|---|
| `PrefixTree` | the prefix cache page by page: match, insert, lock, unlock, evict as operators | `kvcache/` |
| `KVScheduler`, `MCKVScheduler` | scheduler loop, page manager, table manager, with the GPU and the clients as other actors | `scheduler/`, `core.py` |
| `PrefixCache`, `MCPrefixCache` | what the prefix cache promises: `PrefixTree`'s operators driven by requests | `kvcache/base.py` |
| `RadixCache`, `MCRadixCache` | tree nodes, splits, timestamps, counters, eviction heap; implements `PrefixCache` | `kvcache/radix_cache.py` |
| `AfdCentral` | one lane of the central scheduler as operators from lanes to lanes | `afd_scheduler.py` |
| `AfdWorker` | what an attention worker keeps of its lane, and what one command does to it | `afd_attention_runtime.py`, `afd_attention_worker.py` |
| `AfdPipeline`, `MCAfdPipeline` | coordinator loop, command queues, hot loops of the workers, replies | `afd_coordinator.py`, worker loops |
| `AfdPlan`, `MCAfdPlan` | topology, graph sizes, padding, buckets and micro-batches of one global step, and how the workers rebuild it | `afd_protocol.py`, `afd_support.py`, `afd_scheduler.py` |
| `M2NDispatch` | send plans, permutations and combine of the expert transport as operators | `moe/rccl_m2n_adapter.py`, `moe/m2n_*.py` |
| `M2NPipeline`, `MCM2NPipeline` | hosts, streams and collectives of one step over that transport | `afd_attention_worker.py`, `afd_expert_worker.py` |
| `Serving`, `MCServing` | event loop of the API server, tokenizer processes, queues, lockstep of the ranks | `server/api_server.py`, `tokenizer/`, `scheduler/io.py` |
| `Lifecycle`, `MCLifecycle` | start, failure, interrupt and stop under the three supervisors | `server/supervisor*.py`, `launch.py`, worker start-up |
| `GateTopK` | routers, kernel by kernel | `kernel/csrc/jit/moe_topk_softmax.cu`, `gate_topk_fused.cu`, `minimax_route_fused.cu` |
| `MoeLayer` | an expert layer: route, sort into blocks, two products, sum | `moe/fused*.py`, `kernel/moe_align.py`, `kernel/triton/fused_moe.py` |
| `GroupedRunner` | quantised products of the DeepGEMM backend | `kernel/fp8_quant.py`, `layers/moe/moe_runner/` |
| `Attention` | attention over the paged store, two streams, graph replay | `attention/`, `kvcache/mha_pool.py`, `engine/graph.py` |
| `WeightLoading` | from the files of a checkpoint to the tensors of every rank, and the shapes the layers expect | `models/weight.py`, `layers/linear.py`, `layers/embedding.py`, `layers/moe/layer.py` |
| `MCDecoderLayers` | the parts of a decoder layer and the load of its weights in one run | |
| `PrefixFacts` | proved facts about sequences, `Min`, `Max`, `SetToSeq`, sizes and sums of finite sets; about the operators of `PrefixTree` | |
| `KVScheduler_proofs` | the scheduler's slots and locks; then, built on them, its pages and admission: inductive invariants and proofs | |
| `PrefixCache_proofs`, `Lifecycle_proofs`, `Serving_proofs` | inductive invariants and proofs of these three | |
| `FoldFacts` | proved: what `FoldLeft` computes step by step, for any operator, and `FlattenSeq` for any lists | |
| `M2N_proofs` | the collectives of the transport: the two host programs compared, invariant and proofs | |
| `AfdCoordinator_proofs` | the coordinator's ledger, answers and aborts, and the workers' rows: inductive invariants of `AfdPipeline` and proofs | |

Composition: `KVScheduler` uses `PrefixTree`; `RadixCache` refines
`PrefixCache`, which uses `PrefixTree`; `AfdPipeline` extends `AfdWorker`, which
extends `AfdCentral`; `M2NPipeline` extends `M2NDispatch`; `MoeLayer` extends
`GateTopK`.  `AfdPipeline` treats the inside of a step as one collective;
`AfdPlan` says what its plan looks like and `M2NPipeline` what the ranks do
inside it.  `Serving` treats a scheduler as the order in which it takes messages
and replies; `KVScheduler` says what it does with its pages.

### The runs

The runs below are those of `PROJECT.json`.

| Run | Properties | What it shows |
|---|---|---|
| `kv_normal` | `PagePartition`, `LocksMatchOwners`, `OwnersAreReachable`, `NoAssertionFails`, `EveryRequestFinishes` | The non-overlapped loop with clients that disconnect, prompts cut by the prefill budget and a conversation that repeats its prefix: no page, lock or slot is lost or given twice, and everyone who stays is answered. |
| `kv_overlap` | `SlotPartition`, `CacheContentSound`, `KvReadIsOwn`, `LockedPagesStay` | The overlapped loop with end-of-sequence tokens, so that a request is freed, and its row rewritten, while its next step is already launched; a backend that copies its page-table rows at launch (`trtllm`, the one with pages of more than a token), two-token pages and so few of them that admission waits and cached prefixes are evicted. The Triton backends, which read the page table when they run, are the finding `kv_live_rows`. |
| `radix_cache` | `RefsMatchHolders`, `SizesMatch`, `ImplementsPrefixCache` | The radix tree with pages of two tokens and three texts that part inside a page or are part of each other: splits while handles are locked, evictions of whole subtrees; counts and size counters balance, and the tree implements the page-by-page cache. |
| `prefix_pages` | `HandlesCached`, `CountsMatchHolders`, `ClosedUnderPrefix` | The abstract cache with four requests: what the theorems of PrefixCache_proofs state for every instance. |
| `afd_overlap` | `AnswersAreOwn`, `EndsOnce`, `WorkersInLockstep`, `ExitStopsAll`, `EveryRequestEnds` | Two data-parallel lanes in lockstep with three steps in flight, a prompt cut by the prefill budget, EOS, a table row that changes owner while steps of the old owner are in flight, and an ExitMsg at any time: every client gets its own tokens once and to the end, coordinator and workers agree on every row, and the exit completes what is in flight and stops everyone. |
| `afd_abort` | `LedgerBalances`, `AbortIsFinal` | A client disconnects while up to three of its steps are in flight, with pages of three tokens where admission counts tokens: no token follows the abort, nothing is freed twice, and the central ledger balances, up to the step where a worker runs out of pages (see afd_abort_rows) or the allocator fails. |
| `lifecycle` | `ServingIsReady`, `NothingLeft`, `ServerSettles` | Start and stop under the local, the Ray and the AFD supervisor with three ranks, two tokenizer processes, an interrupt at any time and up to two faults anywhere: what cannot start is undone, serving begins only when the ranks have met, and a stop ends with nothing left, even when workers hang in a collective and only the group's timeout frees them. |
| `m2n_pipeline` | `CollectivesMatch`, `RoutedSums`, `EveryStepEnds` | Two attention and two expert ranks, two layers, two lanes: every interleaving of hosts and streams of dynamic steps of two micro-batches and fixed-shape ones of one, planned by torch and by the fused kernels, with blocks of different length for the two expert ranks, an idle rank and unrouted slots. The ranks' collectives match, every token gets exactly the experts it was routed to, and the step ends everywhere. |
| `decoder_layers` | `RoutesAreTopK`, `RowsAreOwnSums`, `ProductsAreOwn`, `AttentionIsOwn`, `WeightsAreWhole` | Four parts of a decoder layer and the load of its weights. Routers: the best experts with their own scores. Expert layers: each row the sum of its own experts, whatever the order of the atomics. fp8 products: rows quantised once with their own scale bytes. Attention: four backends, graphs or not: each query reads each visible position once, as its own request stored it. Load: files in any order, dense, per-expert, gpt-oss and AFD checkpoints, up to four ranks: together the ranks hold each head, neuron and vocabulary row once, with its own scale and bias. |
| `afd_plan` | `PlansAreSound`, `SamplesOwnRow`, `CollectiveIsWhole` | Nine servers - one and two lanes, padded and unpadded prefill, one to three micro-batches, decode graphs or none - launching every batch of up to four requests per lane: plans are well formed, the worker that rebuilds the padding samples each request's own row, and all ranks of a step agree on its shape. |
| `serving` | `StreamIsWhole`, `RanksAgree`, `AbortEndsRequest`, `EveryClientAnswered` | The whole path of requests and tokens with two ranks: streams of both kinds, a batch, a prompt that does not fit, a request ended by an end token, clients that leave at any time, a shared tokenizer or one of its own. No token is lost, doubled or exchanged, ranks run the same batches, an abort ends its request, and who stays is answered. |
| `replay_overlap` | `AttentionIsOwn` | violation: The overlapping loop, which is the default, with the Triton backends, which are the default on ROCm: the metadata of the next decode batch is copied into the buffers that the batch still running reads. |

Each defect found while modelling has a small configuration of its own in which
TLC finds the behaviour in seconds.  They are quoted under `findings`:

| Configuration | Fails | Because |
|---|---|---|
| `kv_abort_inflight` | `SlotPartition` | a request aborted in its last step is freed twice |
| `kv_abort_inflight` | `NoAssertionFails` in place of `SlotPartition` | the result of an aborted prefill caches and locks a freed request |
| `kv_duplicate_prompt` | `KvReadIsOwn` | a running request's row keeps naming pages freed as duplicates |
| `kv_page_rounding` | `NoAssertionFails` | admission counts tokens, allocation takes pages |
| `kv_slot_reuse` | `CacheContentSound` | prompt tokens are copied into a row while the former owner's step still has to read and write its tokens there |
| `kv_live_rows` | `CacheContentSound` | with the Triton backends, the page-table row is rewritten while the former owner's step still has to attend to its pages |
| `afd_abort_rows` | `WorkersInLockstep` | rows freed by an abort are not told to the workers |
| `afd_starved` | `WorkersStayFed` | a prompt that waits for pages makes every step a prefill step that nobody can take |
| `afd_plan_lanes` | `LanesSameNumMb` | without decode graphs an idle lane plans another number of micro-batches |
| `afd_plan_lanes` with `Launches <- MCGraphs` | `BlocksMatch` | lanes replay graphs of different block sizes |
| `m2n_padding` with `FirstDense = 1` and `Steps <- Dynamic` | `CollectivesMatch` in place of `PaddingIsSkipped` | the expert side dispatches layers that are dense |
| `m2n_padding` | `PaddingIsSkipped` | a padding row is counted by the Triton runner |
| `lifecycle_stop` | `CleanStop` | step and stop reach two workers in different orders |
| `lifecycle_stop` | `EveryoneReady` in place of `CleanStop` | the AFD supervisor waits for one ack too few |
| `lifecycle_interrupt` | `ServerSettles` | an interrupt while starting skips the shutdown |
| `serving_two_tokenizers` | `AbortEndsRequest` | an abort goes through the other tokenizer and overtakes its request |
| `decoder_layers` with `GateStages = 4` | `RoutesAreTopK` | the fused gate waits for fewer copies than it started |
| `decoder_layers` with `!.inter = 6` in `ExpertModels` | `WeightsAreWhole` | a rank whose rows are no whole blocks applies scales of the wrong block |
| `decoder_layers` with `!.ep = t` in `AfdModels` | `WeightsAreWhole` | the transport and the loader place experts differently |
| `decoder_layers` with `!.vocab = 7` | `WeightsAreWhole` | the last rank's rows of the vocabulary are not padded |

`replay_overlap` is a run of the list: the docstring it contradicts describes the
default configuration.

## 3. `PrefixTree` and `KVScheduler`

### State and actions

`KVScheduler` is one rank of `Scheduler`.  A round of `overlap_loop` or
`normal_loop` is cut at the points where something else may happen, variable
`pc`: `"recv"` (drain messages), `"admit"` (the loop of
`schedule_next_batch`, one `AddChunk`/`AddNew` per pending request), then
`Launch` (`_prepare_batch`, `_forward`, `filter_reqs`), `"process"` (the loop of
`_complete_batch_results`, one `SkipChunk`/`CompleteReq` per request) and
`EndRound`.  `Overlap` selects which batch a round processes: the one the
previous round launched, or its own.

| Variable | In the code |
|---|---|
| `pending`, `chunked` | `PrefillManager.pending_list`, entries with a `chunked_req` |
| `running` | `DecodeManager.running_reqs` |
| `req` | the `Req` object of a uid: `table_idx`, `input_ids`, `cached_len`, `device_len`, `cache_handle` |
| `freeSlots`, `table`, `tokenPool` | `TableManager._free_slots`, page table rows (one entry per page), `token_pool` |
| `freePages`, `kv` | `CacheManager.free_slots` and `prefix_cache` |
| `inflight`, `todo` | `last_data`, and the batch whose results are being processed |
| `finishedReqs`, `newFinished`, `lazyFree` | `finished_reqs`, `new_finished_reqs`, `lazy_free_list` |
| `adder` | `PrefillAdder`: token budget left and what it added |
| `out` | the `DetokenizeMsg`s sent |
| `fault` | the assertion that stopped the process |
| `owners`, `text`, `kvText`, `misread` | history, for properties only |

Two other actors interleave with the loop.  *Clients*: `RecvUser` and
`RecvAbort` take a message at `"recv"`, at any time the loop drains.  The *GPU*:
`GpuRun` runs the oldest launched batch.  It reads its input tokens from the
token pool at that time, not at launch, because the scheduler's own copies go
through another stream that does not wait for the engine stream.  It stores keys
and values into the pages fixed at launch (`out_loc`).  Which pages it reads
depends on the attention backend, constant `LiveRows`: the kernels of
`triton_prefill` and `triton_decode`, the default on ROCm, load the global page
table when they run, so a row rewritten in between is read as its new owner's;
`trtllm`, `fi` and `torch_ref` copy the rows in `prepare_metadata`, at launch.  One
value stands for both halves of a hybrid backend.  A step that attends to
anything but its own prefix leaves a page that holds the keys and values of no
prefix, since those of every layer but the first depend on what was attended to.
`CompleteReq` waits for the batch it reads (`copy_done.synchronize`).

A failed assertion of the code is the action `Fail`: the process stops with
`fault` set.

Abstractions: a sampled token is any member of `OutToken` (`ignore_eos` is an
`OutToken` without `Eos`); a page-table row holds one entry per page; which
unlocked leaf `evict` takes first is left open; `kvText` stands for the keys and
values stored in a page by naming the prefix they were computed from.  A radix
node is represented by its pages: splitting a node gives both halves the same
count, so the count of a page does not depend on where nodes begin and end.

### Runs and bounds

`kv_normal` (normal loop, pages of one) has three requests, two of which may
disconnect, prompts cut by the prefill budget, a conversation that repeats its
prefix, and six pages: pages and locks partition and balance, every owner will be
met again, everybody who stays is answered.  It takes the Triton backends
(`LiveRows`), whose rows are safe there: a round waits for its own batch.
`kv_overlap` (overlapped loop, rows copied at launch, pages of two, three pages)
lets requests end by EOS while their next step is launched, gives their slots
away before that step runs, makes admission wait and evicts cached prefixes.
`kv_live_rows` is the same workload with the Triton backends and their pages of
one token: the step launched before the EOS was seen attends to the pages of the
slot's next owner, and `cached_len`, which counts that step from its launch
(`complete_one`), lets `cache_req` put the page it fills into the prefix cache.
With `LiveRows = FALSE` in that configuration nothing fails: the rows, not the
tokens, are what is misread.

*Bounds.* Three requests: one running, one waiting, one to reuse what the first
freed. Two slots, so a slot changes hands. Prompts of two to four tokens with a
prefill budget of two or three, so prompts are cut and two requests share a
batch. Pages just enough that the admission test decides or eviction runs. Page
sizes one, and two for the 16 to 64 of `trtllm`; a size of three is what it takes for the rounding error of
`kv_page_rounding`. Everything is finite without further constraint: each request
is sent once and produces at most `MaxTokens` tokens.

*Fairness.* Weak fairness of `Round` (the loop is a `while True` that blocks only
when there is nothing to do) and of `GpuRun` (a launched batch completes).
Clients promise nothing: messages may never come.

The properties of pages, slots and locks fail when a client disconnects while
batches overlap (`kv_abort_inflight`) and hold otherwise, as section 10 proves.
What the GPU reads is also wrong after a duplicate prompt or when a row is reused
(`kv_duplicate_prompt`, `kv_slot_reuse`, `kv_live_rows`).  The passing runs avoid
exactly the scenario of each finding: aborts only without overlap, prompts of
equal length and a backend that copies its rows where rows are reused,
conversations sent one after the other.  What happens to such a copy until it is
read is another question: `replay_overlap` asks it of the buffers that decode
graphs and `triton_decode` keep at fixed addresses.

## 4. The prefix cache: `PrefixCache` and `RadixCache`

`PrefixCache` is the abstract specification: a set of cached prefixes with one
page and one count each, and three operations, driven as the cache manager
drives them: `Admit` (`match_req`, `lock`), `CacheReq` (`cache_req`), `Evict`.
Its operators are those of `PrefixTree`, the ones `KVScheduler` is built from.

`RadixCache` is `kvcache/radix_cache.py` itself.

| In the model | In the code |
|---|---|
| a node's name: the tokens from the root to its end | the node object (a split makes a new object for the upper half; the old object keeps the lower half and its name) |
| `start`, `pages`, `ref`, `ts` | where the key begins, `_value` (one entry per page), `ref_count`, `timestamp` |
| `cache.evictable`, `cache.protected` | `evictable_size`, `protected_size` |
| `held[r]` | `req.cache_handle.node` |
| `Deepest`, `Branch`, `MatchEnd`, `SplitAt`, `Touch` | the loop of `_tree_walk`, `children.get`, `get_match_len` with `align_down`, `split_at`, the timestamp of a walked node |
| `EvictLoop` with `UnlockedLeaves`, `Oldest`, `Pushed` | the loop of `evict`, its initial heap, `heappop`, `heappush` of a parent |
| `Probe` | a `match_req` whose admission is refused, before or after the lock |

Timestamps are kept as ranks, as only their order is observable.  Requests come
back after they finish, so the tree is filled, split, locked and evicted in
every order the bounds allow.  A refused admission, a whole walk or a whole
`cache_req` is one step, because the scheduler calls them from one thread.

| Run | What it shows |
|---|---|
| `radix_cache` | pages of two tokens, three texts that part inside a page or are part of each other, four pages: counts equal holders at every node, the size counters agree with the tree, an eviction the counter allows never runs out of leaves, and `RadixCache` implements `PrefixCache`, so that a held handle's pages do not change under splits and evictions by others |
| `prefix_pages` | four requests on the abstract specification: the properties proved below |

*Bounds.* A text of three pages is the shortest that can be split twice. Four
pages do not hold all texts (five distinct pages), so eviction
is needed for progress. Three requests give a node two holders while a third
splits or evicts. Everything is finite: the texts are fixed and pages few.

*Fairness.* None: all properties are safety, and each call returns.

The refinement maps a node to its prefixes (`KvOf`); `Probe` is a stuttering
step, so it also says that a match alone changes nothing the scheduler sees.

## 5. AFD: `AfdCentral`, `AfdWorker`, `AfdPipeline`

`AfdCentral` is `CentralizedAfdDpScheduler`: a lane is a record, each method an
operator.  `AfdWorker` is what an attention worker keeps: rows, their length,
their pages and the token ids, which never visit the coordinator before it
answers a client.  `AfdPipeline` joins them.

| Action | In the code |
|---|---|
| `ProcessUser`, `ProcessAbort`, `ProcessExit`, `EndRecv` | the receive of `_afd_overlap_loop` / `_afd_normal_loop` with `_process_user_msgs`, `_process_abort_msg` |
| `LaunchStep`, `LaunchFails`, `LaunchNone`, `PipelineFull` | `_afd_prepare_step_launch`, `_afd_launch_step`, its allocator's exception, the flush and drain of a loop without work |
| `CompleteStep`, `Return` | `_afd_collect_global`, `complete_pending`, the end of the loop |
| `RunAttention`, `AttentionFails`, `RunExpert` | the top of `centralized_overlap_loop` and `afd_overlap_loop` |
| `TakeFlush`, `TakeStop`, `Retire` | `retire(force=True)`, the stop command, the retirement of the oldest pending step |
| `Send`, `Disconnect`, `SendExit` | the clients and the server's exit, at any time |

A token is known by its request and its place in that request's text, so a token
that reaches another request, or is computed from a row that holds two requests,
shows.  A step is a collective: its GPU work ends only when every worker has
enqueued it.

*Bounds.* `afd_overlap`: two lanes of one row each, three requests, so that one
lane serves two in turn while steps of the first are in flight; three steps in
flight and `Lead = 2` as in the code; a prompt of two chunks; EOS and ExitMsg at
any time.  `afd_abort`: one lane, pages of three tokens, four requests, of which
one disconnects with up to three steps in flight.  Aborts are apart from
`afd_overlap` because `afd_abort_rows` shows what they break.

*Fairness.* The coordinator's thread and every worker process keep running;
clients owe nothing.  `ENABLED` is written out as guards, since evaluating it
would run the schedulers.

**`AfdPlan`** is what a step tells its workers.  `Sizing` is the launch
(`AfdTopology`, decode graph sizes); `PlanBatch`, `Pad`, `Buckets` and the offsets
are the central scheduler's; the rebuilt order of rows is the attention worker's.
`afd_plan` tries nine servers - one and two lanes, padded and unpadded prefill,
one to three micro-batches, graphs or none - with every batch of up to four
requests per lane and extend lengths up to three, enough for batches below, at
and above every bucket.  There is no loop to be fair to.

## 6. The expert transport: `M2NDispatch`, `M2NPipeline`

`M2NDispatch` has the plans: which row goes where, in dynamic exchanges (split
sizes agreed by an exchange of counts) and in fixed-shape ones (every block padded
to capacity), by torch or by the fused kernels, and how combine finds the way
back.  `M2NPipeline` runs them: each rank's host has a program position and puts
work on its engine stream and on one stream per lane; a lane's work is a
collective of all ranks; events order streams; the host blocks where the code
reads split sizes and where it retires dispatches by force.

A step (`step`, one of `Steps`) is its routing, its number of micro-batches and how
it is exchanged: padded or not, planned by torch or by the fused kernels.

`m2n_pipeline` has two attention ranks, two expert ranks, two layers and two lanes:
two layers make the lanes' buffers be used again, two micro-batches make their order
on the lanes matter, and two expert ranks make each row choose a destination.  The
expert ranks own two experts and one; the routings send them blocks of different
length, in another order than the slots', from both attention ranks, and include an
idle rank, unrouted slots and both choices of a token on one rank.  Dynamic steps have
two micro-batches, and padded ones, whose hosts wait for nothing and interleave far
more, have one; two padded micro-batches of two attention ranks pass as well with one
expert rank (`EgSize = 1`, `Steps <- PaddedPairs`: 174,128 states, a minute and a
half).  A padded block has rows without an expert, and the Triton runner of the second
expert rank miscounts them (the finding `m2n_padding`).  `RunExpert` therefore has two
outcomes there, right results or rows marked `Miscounted`, and `RoutedSums` exempts
only the sums that hold such a row: in the other outcome every padded exchange of both
expert ranks has to be right.  *Fairness*: hosts and devices go on (`WF` of the hosts;
that of the devices is written out).

## 7. The request path: `Serving`

Coroutines of the API server (`coro`, one per request, suspended where the code
awaits), `ack_map` and `event_map`, the PUSH socket's round robin, tokenizer
processes that drain their queue and forward in batches, rank 0 that publishes what it
reads and the other ranks that are told how much to read, the overlap loop of
each rank, and the detokenizer.  Clients may leave at any time; the abort is sent
and the maps are deleted a step later, as `asyncio.sleep(0.1)` allows.

`serving` has two requests and two ranks in three settings: two streams of different
kind over the shared tokenizer; a stream over a tokenizer of its own beside a prompt
that does not fit; a batch with an end token. Two requests are enough for acks and
aborts of one to meet those of the other in every queue. `MaxTokenizers` (2) bounds
the tokenizer processes a setting may ask for. In `serving_two_tokenizers` there are
two of them and the PUSH socket deals the messages to them in turn: the abort of a
request overtakes the request, finds nothing to abort, and the request is then served
for nobody. `StreamIsWhole` and `RanksAgree` hold there too (377350 states).
*Fairness*: the event loop, each coroutine that can run, each process and each rank go
on; clients need neither send nor leave.

## 8. Start and stop: `Lifecycle`

One state per process (loading, in a collective, ready, ...), the supervisor's
program points, the coordinator actor's two threads that send to the same worker
queues one rank after the other, acks, and faults: a process dies, a call raises,
the coordinator dies.  A rank waiting for a peer that is gone waits for the
group's timeout (`GroupTimeout`).  Under Ray a stop waits for every actor's answer,
which comes only after its `start()` has ended, or for the death of one (`Answered`).

`lifecycle` runs all three supervisors with three ranks, two tokenizer processes,
an interrupt at any time and two faults: two are enough for a failure during the
clean-up of another.  Three ranks let one be told to stop, one be in a step and one not
yet have been told.  *Fairness*: processes go on (`WF(Progress)`), and a timeout
that is due fires (`WF(Timeouts)`; `distributed_timeout` is 300 s by default).

## 9. A decoder layer: `GateTopK`, `MoeLayer`, `GroupedRunner`, `Attention`, `WeightLoading`

These are the kernels' index arithmetic and the order of their writes.  Numbers
are symbols: a score is a small integer (softmax and sigmoid keep the order), a
row or a product is a term headed by what produced it, so that a row left over
from another layer, read in a wrong place, summed twice or scaled by another group's
scale shows.  Dimensions of the kernels (lanes of a wave, tile sizes, scale groups)
are constants, scaled down so that every partial tile, empty block and padded row
occurs: `MCDecoderLayers` names the real values beside them.

* `GateTopK`: `topkGatingSoftmax` with its chunks and butterfly, the block-wide
  kernels, the fused gate with its pipeline, the MiniMax router.
* `MoeLayer`: the router's call, `moe_align_block_size` with its atomics in every
  order up to `MaxPermuted` slots, both grouped products on one buffer, expert maps, the sum,
  the reduction over ranks.
* `GroupedRunner`: quantisation with packed scales, dense and grouped products
  with and without gaps, weights requantised once.
* `Attention`: the scheduler's and the engine's stream, metadata of the four
  backends, splits, windows, sinks, shared prefixes, captured graphs and padding.
* `WeightLoading`: the loop over the files of each rank.  A tensor is the labels
  of its rows and columns (which projection, expert and index they come from), so
  that cutting, merging, stacking and padding are operations on sequences of
  labels.  `load` is the model and the layout of the ranks, `mergeBuf` and
  `expertBuf` the buffers of the loop, `yielded` the state dict; `EndLoad` makes
  the assertions of `load_state_dict` against `Params`, what the layers allocate.
  `WeightsAreWhole` then looks at all ranks together, as the forward pass will:
  a query head beside its key head, its columns of `o_proj` and its sink, a
  neuron's gate, up and down beside each other, scales and biases beside their
  own rows, experts where the transport sends their tokens.

`decoder_layers` calls every kernel on the batches of `MCDecoderLayers` (scores of
up to 16 experts, batches of one to three rows, sequences of up to eight
positions with blocks of two), and loads every checkpoint of `MCLoads`, in two or
three files, opened in every order: dense models at tp 1, 2 and 4 (with fewer key
heads than ranks), per-expert checkpoints in one server, gpt-oss with packed and
unpacked experts (three groups over four ranks: the last one only padding), and
the two roles of an AFD server with experts that do not divide.  The Triton backends run in the
normal loop there: in the overlapped loop they fail, which is `replay_overlap`.
All properties are safety; a kernel ends by construction.

## 10. What is proved

`SlotSafety` (`KVScheduler_proofs`): for all prompts, limits, numbers of slots
and pages, page sizes, budgets, either cache and either loop,
`Spec => []SlotPartition`, assuming `NoLateAbort` (no client disconnects while
batches overlap).  `kv_abort_inflight` shows that the assumption is needed.

`SlotPartition` alone is not inductive: when `CompleteReq` frees a request one
must know that the request holds a slot.  The invariant `SlotInv` follows the
request: an owner that is pending is chunked or was just added
(`PendingApart`); what the adder took is a front part of the pending list of
which only the last entry can be cut, as a cut uses up the budget
(`AdderFollowsPending`); and every request of a launched batch is an owner or is
remembered as freed by the batch before (`BatchesKnowFreed`).  That is why
`req not in finished_reqs` is enough to skip the second free.  There is one
lemma per action.  TLC confirms `SlotInv` on the passing runs.

`NoOwnerIsLost` (`KVScheduler_proofs`): under the same assumptions
`Spec => []OwnersAreReachable`: a request that holds a slot is waiting for its
next chunk, running, or in a batch whose results are still to be processed.
`filter_reqs` takes a request out of the running set when it *launches* its last
step, `_complete_batch_results` frees it when it *processes* that step, and in
the overlapped loop another batch lies between them.  The invariant `MetInv` is
an account per request: `device_len` is the number of tokens on the host plus the
tokens owed by the batch in flight and the batch being processed (`TokensOwed`).
A request that left the running set is at its maximum, its tokens on the host
are fewer, so a batch that has not been processed still owes it a token and
will meet it.  `MetInv` is proved beside `SlotInv`, one lemma per action.

**Locks** (`KVScheduler_proofs`), under the same assumptions: `LocksBalance`
(`Spec => []LocksMatchOwners`) and `ProtectedPagesStay`
(`Spec => LockedPagesStay`).  The cache and the handles of the admitted requests
satisfy `Sound` (below) at every step: this is `LockInv`.  What it takes is that a
handle always is a whole number of pages of the request's own tokens, and that
`cache_req` inserts tokens the host has.  `HostInv` says so: `cached_len` is less
than `device_len`, the handle is a prefix of the host's tokens within
`cached_len`, and a pending request has its first `cached_len` tokens on the host.
For a running request this last part is not invariant - its newest tokens are
still on the GPU - and `cache_req` is right only because the result it processes
pays them: here the account of `MetInv` is needed again.  `HoldInv` is the
conjunction of the four invariants.

**Pages** (`KVScheduler_proofs`), under the same assumptions: `PagesHaveOnePlace`
(`Spec => []PagePartition`).  The free list, the cache and the row entries past
the handles are three functions into the pages, and `PagesInv` says that together
they hit every page exactly once (`Apart`).  An operation moves entries from one
function to another; there is one lemma per kind of move (`allocate_paged`,
insertion of a row into the cache, duplicates and the rest of a row to the lazy
list, eviction), and each step of the scheduler is a composition of moves.  Which
entries of a row are a request's own depends on its handle and lengths rounded to
pages, so the lemmas on rounding of `PrefixFacts` and all of `HoldInv` are used.
`OnlyEvictionFails` follows: `fault` is never `"unlock"` nor `"integrity"`.  At the
idle check no request is admitted, so every page is free or cached, and it is
found by counting an injection.

**Admission** (`KVScheduler_proofs`): `AdmissionSuffices`
(`Spec => []NoAssertionFails`): nothing fails, the evictor included.  It has one
assumption more, `RoundingFits`: the whole pages of a request's final length fit
in the tokens `PrefillAdder` reserves for it.  Every `page_size` of 1, the
default, satisfies it, and 2 does if every client asks for a token
(`SmallPagesFit`); pages of three tokens do not, and `kv_page_rounding` is the
counterexample that follows.  `PrefillAdder` counts tokens and `allocate_paged`
takes pages, later, one batch at a time; between the two, results grow handles
over the rows, prefixes are shared, and eviction moves pages.  The invariant
counts one thing that none of these change: `Promised` says that the prefixes
some handle protects (`Covered`) and the row entries past the handles that
admitted requests have filled or may still fill (`Footprint`, up to `FinalLen`)
together number at most `NumPages`.

* `EvictorSuffices`: what a batch needs is promised and not filled; by
  `PagesInv` the free, the cached and the filled add up to the pool, so the free
  and the unprotected cached pages are enough.
* `AddNewKeepsPromise`: the second size check of `try_add_one`, made with the
  matched prefix locked, is just what the promise to a new request takes.
  `inflight_tokens` covers the missing pages of the running requests with its
  `page_size - 1` for each (`RunningReserved`, from `RunningStep`: a running
  request is one token ahead of what it computed); the tokens of the requests
  added in this round cover theirs by `RoundingFits` (`AddedReserved`).  A
  request cut in an earlier round is counted by neither sum: `CutFirst` says it
  is the first the adder looks at, so by the time a new request is admitted it is
  among the added.
* `KeepingKeepsPromise`: when `cache_req` gives a request a longer handle, each
  row entry it stops owning becomes one protected prefix.

The sums are those `MapThenSumSet` computes; `PrefixFacts` bounds them by an
induction over the subsets of a finite set that needs no operator parameter
(`SubsetInduction`, from the well-foundedness of the strict subset order).

`PrefixFacts` also proves the facts about sequences the lemmas cite (`Front`,
removal of an entry, a suffix, `SetToSeq` of a finite set, `Max` of a bounded set).

**The prefix cache** (`PrefixCache_proofs`), for all texts, page sizes, requests,
pages and both caches: `HandlesStayCached`, `CountsAreHolders` and
`CacheClosedUnderPrefix`.  They share one inductive invariant, `Sound(c, f)`, of
a cache `c` and an assignment `f` of handles to requests: cached prefixes are
whole pages and closed under prefix, the pages of every handle are cached, and
each count is the number of covering handles.  None is inductive alone: a
handle's pages survive an eviction because their count is not zero, and a page
cached anew may start at zero because, were it covered by a handle, it would
have been cached already.  `Sound` is proved (in `PrefixFacts`) once per operator of `PrefixTree`
(`LockKeepsSound`, `UnlockKeepsSound`, `InsertKeepsSound`, `EvictKeepsSound`);
`cache_req` is their composition, in which the request holds nothing between the
unlock and the lock.  TLC extends the result to the tree of nodes through
`ImplementsPrefixCache` on the instance of `radix_cache`.  Proved from
`ReqsAssumption`, `TextAssumption`, `NoHandleAssumption` and the assumptions on
`PageSize` and `CacheType`.

The theorems about the scheduler are proved from `RequestAssumption`,
`CapacityAssumption`, `PageSizeAssumption` and `CacheTypeAssumption` (non-empty
prompts, finitely many requests and slots, a page and a budget of at least one,
one of the two caches) and from `NoLateAbort`; `AdmissionSuffices` also from
`RoundingFits`.

**Start and stop** (`Lifecycle_proofs`), for every supervisor and any number of
ranks, tokenizers, steps and faults: `ServerLeavesNothing`
(`Spec => []NothingLeft`) and `ServerIsReady` (`Spec => []ServingIsReady`).  The
first rests on `StopInv`: a process only moves forward through its stages, and
every way to stop has the coordinator down first, then the tokenizers, then the
ranks.  The second rests on `StartInv`: acks put plus processes still loading are
at most the processes created, so an ack count that is reached leaves nobody
loading (but one, under the AFD supervisor, which waits for one ack too few).
Both from `LifecycleAssumption`: the counts are naturals, there is a rank, and
the supervisors and signals are those of the code.

**Ranks** (`Serving_proofs`), for any number of ranks, requests and tokenizer
processes, from `ServingAssumption` alone: `RanksRunTheSame`
(`Spec => []RanksAgree`) and `FollowersNeverStarve`.  Rank 0 publishes each
message as it reads it and broadcasts how many it took *without* waiting; a
follower that would have waited takes one more.  It may lag any number of rounds
behind, and whether a rank waits depends on what it ran in the rounds before, so
one count taken for another would shift every later round.  `RanksAgree` compares
ranks that finished the same rounds and says nothing of the others; the
invariant `FollowInv` says what the unread counts and messages of a follower are
worth: there is a history of states that starts with the follower's, ends with
rank 0's and in which each state comes from the one before by taking the messages
of its round (`Replays`).  A receive of rank 0 makes the history of every follower
one longer (`RoundAdded`), a receive of a follower drops the first state of its
own (`RoundTaken`).  `FollowersNeverStarve` reads the first round of the history:
its messages are all there, so a follower's blocking `get` always returns.

**Streams and aborts** (`Serving_proofs`), with the same generality:
`StreamsAreWhole` (`Spec => []StreamIsWhole`) and, where the server has at most one
tokenizer process (`OneTokenizer`; the default shares the detokenizer),
`AbortsLast` (`Spec => []AbortEndsRequest`).  The first holds with any number of
tokenizers, the second does not (`serving_two_tokenizers`).  Both speak of what the
client sees at one end; the invariant, `StreamInv`, follows each request through
every queue of the server.  A queue holds lists of messages of all requests, and what
is said of one request is said of `Own`, its messages there in their order; that a
process which takes, sorts and forwards a list moves exactly the messages of each
request, in order, is `OwnQueue`, `OwnJoin` and `Forwards`.  For a request:

* `SentOnce`, `Unsent`: until its abort is sent, a request goes to rank 0 once,
  through one tokenizer process (`Path`), and nothing of it exists before.
* `Whole`: while its client listens, what the client was told or is about to be
  (`Told`), the replies on their way back (`Coming`: acknowledged, in two queues, and
  in the two batches rank 0 may have launched ahead) and the number the
  scheduler will launch next are 1, 2, 3, ...: `live[u]` counts what is told and
  coming.  `StreamIsWhole` leaves out the batches and the scheduler, so it is not
  inductive: a token launched twice would show in it only rounds later.
* `AbortLast`: with one tokenizer what is on its way of a request is nothing, the
  request, its abort, or both in that order, and nothing follows the abort.

`Rank0Takes` is the step where a round of messages of all requests becomes a state of
the managers; it is read per request too: the fold of `Handle` over the round leaves
what the last message of the request says (`Fates`), and the batch `SetToSeq` lists
has one token of each request chosen (`BatchOf`).

**The AFD coordinator** (`AfdCoordinator_proofs`), for any number of lanes,
requests, rows, pages and steps in flight, prompts and answers of any length,
both loops, from `RequestAssumption`, `SizeAssumption` and `PipelineAssumption`
alone: `LedgerKept` (`Spec => []LedgerBalances`), `AnswersEndOnce`
(`Spec => []EndsOnce`) and `AbortsAreFinal` (`Spec => AbortIsFinal`).  The
coordinator launches steps of a request before it has seen the tokens of the
steps in flight; an answer that ends, or a client that leaves, frees the row at
once, and the row may be given to another request while steps of the first are
still to complete.  What tells them apart is the `generation` of
`_AfdForwardRemain`, a number per row that a free increases.  None of the three is inductive; `CoordInv` is:

* `Flying`: an entry in flight whose generation is that of its row belongs to
  the request that holds the row, and, if it is not a chunk, the request does not
  wait for another chunk.  A request is in a batch once.
* `LaneOK`: every row is free or one request's; the free pages and those of the
  rows' tokens add up to the pool (`Balance`); a request that waits does not run,
  and one that waits without a row has computed nothing; those `finished_reqs`
  names are gone.
* `Served`: the lane that has a request has counted exactly the tokens its
  client was sent, fewer than its limit, none of them the last; and a
  request is in one lane at most.
* `Answer`: what a client was sent is final at its end and nowhere else.

Completion is a fold over the entries of a batch in which each entry may free a
row that changes what the next may do; one entry frees no other's, since a
request is in a batch once, and so the generations read before the fold still
decide.  `CompleteStep` is a fold in every lane at once; that it keeps a lane's
invariant and appends to each answer what it counts is proved per entry
and lifted by `FoldFacts`.  A lane's prefill is a fold too (`TryAddOne` over the pending
list), as are the pages of a batch.  The value of `FoldLeft` is that of a
`CHOOSE`n recursive function over sets; `FoldFacts` shows that the function exists and
what it is step by step, for an operator `Op` that is a CONSTANT of
the module, so that each fold is an instance of it.

**The AFD workers** (same module), with the same generality: `WorkersKeepStep`
(`Spec => []WorkersInLockstep`).  Its one hypothesis is `MayAbort = {}`, no client
disconnects: with aborts it is not so, as `afd_abort_rows` shows.  A command carries
the length each row is to have when the worker takes it up, and the worker is any
number of commands behind.  `CoordInv` says nothing of stores and queues; `LockInv`
adds, for each lane and its worker:

* `LaneMore`: a request that waits has prompt left and no answer yet, one that runs
  has its next token on the way and is below its limit.
* `Track`: there is a row of views, one more than there are commands under way.  The
  first is what the store holds (`Means`: each row's length, whose text it is, and
  whether its pool has the next token).  Each command leads from one view to the next:
  once the tables it names are cleared it finds every row it extends as long as
  its `start` (`Fits`), and leaves it longer by `ext` (`Moves`).  The last
  view, with the tables freed since, is what the lane believes (`Agree`).

A launch adds a view at the end, a worker that runs a step removes the first, a
completion or a free changes what the lane believes and what is still to be cleared by
the same rows.  `RunStep` is four folds (free, extend, write, write back); `Turns` says of
each that a row is changed by one entry only, so the fold is known row by row
(`RunParts`, `LockRuns`).

**The answers** (same module): `AnswersAreTheirs` (`Spec => []AnswersAreOwn`), while
no client disconnects (`MayAbort = {}`).  What a client is sent was read by a
worker from a pool slot the coordinator named steps earlier, and the row may have changed
owner on both sides meanwhile.  On top of `CoordInv` and `LockInv`:

* `CourseInv`: a worker's commands, its steps in flight and its replies are of steps
  in rising order (`Paced`), and each command asks for the tokens of its step's
  batch and each reply holds them, entry by entry (`Linked`); so when every worker has
  replied to the oldest step, the tokens of a lane are those of the batch in
  flight (`LaneTokensMatch`).
* `ComeInv`: of the batches in flight, those that name a request with its current
  generation bring the tokens that follow what the lane has counted, in order and
  without a gap.  The oldest of them, if it is not a chunk of the prompt, brings
  exactly the next one.

**The collectives of the transport** (`M2N_proofs`), for any number of layers,
micro-batches, lanes, attention and expert ranks, both kinds of exchange and any
pace of hosts and streams, from the assumptions of `M2NDispatch` and
`PipelineAssumption`: `CollectivesMean` (`Spec => []CollectivesMatch`).  It has one
hypothesis, `FirstDense = 0`: no leading dense layers, which is so of every model
without `first_k_dense_replace`; with them the property fails
(`m2n_padding` with `FirstDense = 1`, in the table of section 2).  The two
sides never agree on an order of collectives: each derives it from a program of its
own.  An attention rank computes before each dispatch and an expert rank runs its
experts before each combine, work no lane sees; a dynamic exchange cuts both
programs where the host waits for its sizes, and each host and stream runs at its own
pace.  A step may have fewer micro-batches than `NumMb`.

* `ProgramsAlike`: the two programs leave the same work on each lane.  `Put(w)` is
  what work `w` leaves on each stream, `OnLane` that of a whole program, and two
  programs are `Alike` if no lane can tell them apart; it is proved for the parts
  (`DispatchAlike`, `ExpertAlike`) and carried over concatenation, nested loops and a
  different beginnings by `AlikeJoin`, `AlikeFlat` and `EngineFirst`.
* `LaneInv`: what a rank's host has put on a lane is what has left the lane followed by
  what is still queued, and what has left is the same on all ranks, since
  work leaves a lane only as a collective of all of them.  Two ranks whose lane is
  not empty therefore stand at the same place of the same list.

`CollectivesMatch` alone is not inductive: it sees the heads of the lanes and not
the programs behind them.

## 11. Only model-checked, and not modelled

Only checked by TLC:

* liveness (`EveryRequestFinishes`, `EveryRequestEnds`, `ExitStopsAll`,
  `EveryStepEnds`, `EveryClientAnswered`, `ServerSettles`): temporal properties
  under fairness are out of the prover's reach;
* what the GPU reads (`CacheContentSound`, `KvReadIsOwn`): these fail outside the
  scenarios of their run, so a theorem would have to assume those away;
* the tree of `RadixCache` with its refinement (its walks are recursive functions
  over the tree, whose values for every tree need an induction the provers
  cannot instantiate);
* `AfdPlan`, the rows of the expert transport (`RoutedSums`) and the kernels,
  checked over bounded inputs.

### Not modelled

* offline LLM driver: A client of the scheduler whose messages arrive before it idles; covered by RecvUser at any time.
* DeepEP and Mega transports: Wrappers of external libraries (DeepEP, a fused Mega kernel) for other hardware; what they exchange is that of the M2N transport.
* remaining kernels, layers and models: elementwise arithmetic without state, the composition of layers, bindings of external libraries.
* benchmarks, experiments, scripts and tools: Clients, profilers and cluster scripts around the server.
* Left out of components marked `partly`, each with its reason in `PROJECT.json`: profiling and logging, argument parsing, message encodings, actor placement, the text offsets of the detokenizer, sampling arithmetic, memory sizing.
