---------------------------- MODULE KVScheduler ----------------------------
(***************************************************************************)
(* The colocated scheduler of python/minisgl/scheduler: one process that   *)
(* loops over receive messages / schedule and launch one batch / process   *)
(* the results of a batch, and owns the request table (TableManager), the  *)
(* KV pages and the prefix cache (CacheManager).                           *)
(*                                                                         *)
(* With Overlap the results a round processes are those of the batch the   *)
(* PREVIOUS round launched (overlap_loop), so messages are handled and a   *)
(* batch is scheduled while another one is still on the GPU; without it    *)
(* they are those of the batch just launched (normal_loop).                *)
(*                                                                         *)
(* One round of the loop is split at its program points (variable pc):     *)
(*   "recv"    _process_one_msg, any number of times                       *)
(*   "admit"   the for-loop of PrefillManager.schedule_next_batch          *)
(*   "launch"  allocate_paged, forward_batch, filter_reqs                  *)
(*   "process" the for-loop of _complete_batch_results                     *)
(* Within a round the steps follow each other in program order.  Two other *)
(* actors interleave with them: clients, whose messages arrive, and the    *)
(* GPU, which executes launched batches in order on the engine stream at   *)
(* any later time (GpuRun).  The scheduler's own copies (prompt tokens,    *)
(* page-table rows) go through another stream that does not wait for the   *)
(* engine stream, so they take effect at once, even while a batch that     *)
(* uses the same rows is still waiting to run.  A batch stores into the    *)
(* pages fixed at launch; whether it also reads those, or whatever its     *)
(* page-table row names by then, depends on the backend (LiveRows).        *)
(***************************************************************************)
EXTENDS PrefixTree

CONSTANTS
  Reqs,         \* request uids
  Token,        \* token ids
  Prompt,       \* input_ids of each request
  MaxTokens,    \* sampling_params.max_tokens of each request
  OutToken,     \* tokens the sampler may produce
  Eos,          \* the end-of-sequence token, one of Token
  NumPages,     \* CacheManager.num_pages
  Slots,        \* rows of the page table (max_running_req)
  NoSlot,       \* table_idx of a request that was never admitted
  MaxSeqLen,    \* Engine.max_seq_len
  PrefillBudget,\* max_extend_tokens
  Overlap,      \* TRUE: overlap_loop, FALSE: normal_loop
  LiveRows,     \* attention reads the page table when it runs (triton_prefill,
                \* triton_decode); FALSE: a copy made at launch (trtllm, fi,
                \* torch_ref)
  Abortable,    \* requests whose client may disconnect
  Follows       \* requests a client sends only after the answers to others

ASSUME RequestAssumption ==
  /\ Prompt \in [Reqs -> Seq(Token) \ {<<>>}]
  /\ MaxTokens \in [Reqs -> Nat]
  /\ OutToken \subseteq Token
  /\ Eos \in Token
  /\ Abortable \subseteq Reqs
  /\ Follows \in [Reqs -> SUBSET Reqs]
  /\ IsFiniteSet(Reqs)

(* max_seq_len = min(config.max_seq_len, num_tokens), engine.py            *)
ASSUME CapacityAssumption ==
  /\ NumPages \in Nat \ {0}
  /\ IsFiniteSet(Slots) /\ NoSlot \notin Slots
  /\ MaxSeqLen \in 1..(NumPages * PageSize)
  /\ PrefillBudget \in Nat \ {0}
  /\ Overlap \in BOOLEAN

(* The Triton backends refuse pages of more than one token.                *)
ASSUME BackendAssumption == LiveRows \in BOOLEAN /\ (LiveRows => PageSize = 1)
-----------------------------------------------------------------------------
Pages  == 0..(NumPages - 1)
Row    == 1..PagesUp(MaxSeqLen)     \* the page entries of a page-table row
ZeroToken == CHOOSE t \in Token : TRUE
NoBatch   == [phase |-> "none", ran |-> TRUE, reqs |-> <<>>, tokens |-> <<>>]
NewAdder  == [budget |-> PrefillBudget, reqs |-> <<>>]

VARIABLES
  received,     \* uids whose UserMsg was handled
  aborted,      \* uids whose AbortBackendMsg was handled
  pending,      \* PrefillManager.pending_list
  chunked,      \* uids in pending with a chunked_req
  running,      \* DecodeManager.running_reqs
  req,          \* the Req object of each uid (stale after it was freed):
                \* table_idx, input_ids, cached_len, device_len, cache_handle
  freeSlots,    \* TableManager._free_slots
  freePages,    \* CacheManager.free_slots
  table,        \* page_table, one entry per page
  tokenPool,    \* TableManager.token_pool, a row of tokens per slot
  kv,           \* CacheManager.prefix_cache
  inflight,     \* last_data: the batch whose results are not processed
  finishedReqs, \* Scheduler.finished_reqs
  pc,           \* program point of the loop
  adder,        \* PrefillAdder: token budget left and reqs added
  todo,         \* the batch this round processes: the Reqs still to be handled
  lazyFree,     \* lazy_free_list
  newFinished,  \* new_finished_reqs
  out,          \* DetokenizeMsgs sent per uid, and those sent after finished
  fault,        \* the assertion that stopped the process, or "none"
  owners,       \* history: admitted requests whose resources are not freed
  text,         \* history: the prompt and the tokens sampled so far, per uid
  kvText,       \* history: the prefix whose keys and values each page holds
  misread       \* history: [tokens, kv], the uids for which the GPU read a
                \* wrong input token, or keys and values of another prefix

reqVars  == <<received, aborted, pending, chunked, running, req, owners>>
memVars  == <<freeSlots, freePages, table, tokenPool, kv>>
loopVars == <<inflight, finishedReqs, adder, todo, lazyFree, newFinished>>
gpuVars  == <<text, kvText, misread>>
vars     == <<reqVars, memVars, loopVars, gpuVars, pc, out, fault>>
-----------------------------------------------------------------------------
(* Lengths of a request.  OutLen is max_tokens after _prepare_user_msg.    *)
InputLen(u)  == Len(Prompt[u])
OutLen(u)    == Min({MaxTokens[u], MaxSeqLen - InputLen(u)})
MaxDevLen_OneMore(u) == InputLen(u) + OutLen(u) + 1          \* mutant
MaxDevLen(u) == InputLen(u) + OutLen(u)
RemainLen(u) == MaxDevLen(u) - req[u].dlen

UidsOf(reqs)    == {reqs[i].uid : i \in DOMAIN reqs}
PosOf(reqs, u)  == CHOOSE i \in DOMAIN reqs : reqs[i].uid = u

(* DecodeManager.inflight_tokens *)
InflightTokens ==
  MapThenSumSet(RemainLen, running) + (PageSize - 1) * Cardinality(running)

(* PrefillAdder.reserved_size when the next pending request is looked at.  *)
AdderNeed_PromptOnly(u) == InputLen(u) - req[u].clen         \* mutant
AdderNeed(u) == InputLen(u) - req[u].clen + OutLen(u)
ReservedSize_NoRunning == MapThenSumSet(AdderNeed, UidsOf(adder.reqs))  \* mutant
ReservedSize == InflightTokens + MapThenSumSet(AdderNeed, UidsOf(adder.reqs))

(* CacheManager.available_size *)
AvailableSize(cache) == (Cardinality(Evictable(cache)) + Len(freePages)) * PageSize

(* The pages of the tokens [from, to) in the page-table row of r, from     *)
(* being page aligned.                                                     *)
RowPages(r, from, to) == SubSeq(table[r.slot], PagesDown(from) + 1, PagesUp(to))

(* CacheManager.cache_req for a Req r: the ids it inserts, the prefix the  *)
(* cache held already, the cache after insert and unlock, and the pages    *)
(* freed because they duplicate cached ones or are a finished tail.        *)
InsertIds_All(r) == r.ids                                     \* mutant
InsertIds(r)    == SubSeq(r.ids, 1, r.clen)
KnownLen_All(r) == Len(InsertIds(r))                          \* mutant
KnownLen(r)     == Len(MatchPrefix(kv, InsertIds(r)))
NewHandle(r)    == InsertedHandle(InsertIds(r))
Inserted(r)     == InsertPrefix(kv, InsertIds(r), table[r.slot])
CacheReqSafe(r) == MayUnlock(Inserted(r), r.handle)
Released_StillLocked(r) == Inserted(r)                        \* mutant
Released(r)     == UnlockHandle(Inserted(r), r.handle)
FreedKnown_FromStart(r) == RowPages(r, 0, KnownLen(r))        \* mutant
FreedKnown(r)   == RowPages(r, Len(r.handle), KnownLen(r))
FreedTail_ToDevLen(r) == RowPages(r, Len(NewHandle(r)), r.dlen)  \* mutant
FreedTail_Kept(r) == <<>>                                     \* mutant
FreedTail(r)    == RowPages(r, Len(NewHandle(r)), r.clen)

(* check_integrity *)
Integrity == Len(freePages) + Cardinality(Cached(kv)) = NumPages

(* receive_msg blocks: no batch to process, nothing to schedule.           *)
Blocking == inflight = NoBatch /\ pending = <<>> /\ running = {}
-----------------------------------------------------------------------------
Init ==
  /\ received = {} /\ aborted = {}
  /\ pending = <<>> /\ chunked = {} /\ running = {}
  /\ req = [u \in Reqs |-> [slot |-> NoSlot, ids |-> <<>>, clen |-> 0, dlen |-> 0,
                            handle |-> <<>>]]
  /\ freeSlots = SetToSeq(Slots)
  /\ freePages = [k \in 1..NumPages |-> k - 1]
  /\ table = [s \in Slots |-> [i \in Row |-> 0]]     \* torch.zeros
  /\ tokenPool = [s \in Slots |-> [i \in 1..MaxSeqLen |-> ZeroToken]]
  /\ kv = EmptyCache
  /\ inflight = NoBatch /\ finishedReqs = {}
  /\ pc = "recv"
  /\ adder = NewAdder
  /\ todo = NoBatch /\ lazyFree = <<>> /\ newFinished = {}
  /\ out = [u \in Reqs |-> [sent |-> 0, finished |-> FALSE, late |-> 0]]
  /\ fault = "none"
  /\ owners = {}
  /\ text = Prompt
  /\ kvText = [p \in Pages |-> <<>>]
  /\ misread = [tokens |-> {}, kv |-> {}]

(* An assertion of the code fails: the exception leaves the loop.          *)
Fail(assertion) ==
  /\ fault' = assertion
  /\ UNCHANGED <<reqVars, memVars, loopVars, gpuVars, pc, out>>
-----------------------------------------------------------------------------
(* _process_one_msg of a UserMsg: dropped when the prompt leaves no room.  *)
(* (A follow-up of a conversation is sent once the answer is complete.)    *)
RecvUser(u) ==
  /\ pc = "recv" /\ fault = "none"
  /\ u \notin received
  /\ \A v \in Follows[u] : out[v].finished
  /\ received' = received \cup {u}
  /\ pending' = IF InputLen(u) < MaxSeqLen THEN Append(pending, u) ELSE pending
  /\ UNCHANGED <<aborted, chunked, running, req, owners, memVars, loopVars, gpuVars,
                 pc, out, fault>>

(* _abort_req looks in pending_list (whose entry may have a chunked_req)   *)
(* and then in running_reqs; a Req it finds is freed at once.              *)
AbortFinds_RunningOnly(u) == u \in running                    \* mutant
AbortFinds(u) == u \in chunked \/ u \in running

DropPending(u) ==
  LET at == CHOOSE i \in DOMAIN pending : pending[i] = u
  IN  IF u \in ToSet(pending)
      THEN SubSeq(pending, 1, at - 1) \o SubSeq(pending, at + 1, Len(pending))
      ELSE pending

RecvAbort(u) ==
  /\ pc = "recv" /\ fault = "none"
  /\ u \in (Abortable \cap received) \ aborted
  /\ IF AbortFinds(u) /\ ~CacheReqSafe(req[u]) THEN Fail("unlock") ELSE
     /\ aborted' = aborted \cup {u}
     /\ pending' = DropPending(u)
     /\ chunked' = chunked \ {u}
     /\ running' = IF u \in ToSet(pending) THEN running ELSE running \ {u}
     /\ IF AbortFinds(u)
        THEN /\ freeSlots' = Append(freeSlots, req[u].slot)
             /\ freePages' = freePages \o FreedKnown(req[u]) \o FreedTail(req[u])
             /\ kv' = Released(req[u])
             /\ owners' = owners \ {u}
        ELSE UNCHANGED <<freeSlots, freePages, kv, owners>>
     /\ UNCHANGED <<received, req, table, tokenPool, loopVars, gpuVars, pc, out, fault>>

(* run_when_idle: the loop waits for a message after an integrity check.   *)
Idle ==
  /\ pc = "recv" /\ fault = "none"
  /\ Blocking
  /\ IF Integrity THEN UNCHANGED vars ELSE Fail("integrity")

(* Messages are drained; PrefillManager.schedule_next_batch starts.        *)
BeginRound ==
  /\ pc = "recv" /\ fault = "none"
  /\ ~Blocking
  /\ pc' = "admit"
  /\ UNCHANGED <<reqVars, memVars, loopVars, gpuVars, out, fault>>
-----------------------------------------------------------------------------
MorePending == Len(adder.reqs) < Len(pending)
NextPending == pending[Len(adder.reqs) + 1]

(* match_req: the last prompt token is always computed.                    *)
MatchReq(u) == MatchPrefix(kv, SubSeq(Prompt[u], 1, InputLen(u) - 1))

(* The two size checks of _try_allocate_one, before and after the lock.    *)
HasRoom(u) ==
  LET h    == MatchReq(u)
      need == InputLen(u) - Len(h) + OutLen(u) + ReservedSize
  IN  /\ freeSlots # <<>>
      /\ need <= AvailableSize(kv)
      /\ need <= AvailableSize(LockHandle(kv, h))

CanAdd_RoomForChunks(u) == adder.budget > 0 /\ HasRoom(u)     \* mutant
CanAdd(u) == adder.budget > 0 /\ (u \in chunked \/ HasRoom(u))

(* The prompt tokens the next chunk computes.                              *)
ChunkSize_WholePrompt(u, clen) == InputLen(u) - clen         \* mutant
ChunkSize(u, clen) == Min({adder.budget, InputLen(u) - clen})

(* _add_one_req: a Req or, when the budget cuts the prompt, a ChunkedReq.  *)
(* The prompt tokens [from, clen + size) are copied to the token pool.     *)
AddOneReq(u, slot, clen, handle, from) ==
  LET size == ChunkSize(u, clen)
      cut  == size < InputLen(u) - clen
  IN  /\ adder' = [budget |-> adder.budget - size,
                   reqs   |-> Append(adder.reqs, [uid |-> u, chunk |-> cut])]
      /\ chunked' = IF cut THEN chunked \cup {u} ELSE chunked \ {u}
      /\ req' = [req EXCEPT ![u] = [slot |-> slot, ids |-> SubSeq(Prompt[u], 1, clen + size),
                                    clen |-> clen, dlen |-> clen + size, handle |-> handle]]
      /\ tokenPool' = [tokenPool EXCEPT ![slot] =
           [i \in 1..MaxSeqLen |-> IF from < i /\ i <= clen + size THEN Prompt[u][i] ELSE @[i]]]

(* try_add_one for a request whose previous chunk was already prefilled.   *)
AddChunk(u) ==
  /\ pc = "admit" /\ fault = "none"
  /\ MorePending /\ u = NextPending /\ CanAdd(u)
  /\ u \in chunked
  /\ AddOneReq(u, req[u].slot, req[u].clen, req[u].handle, req[u].clen)
  /\ UNCHANGED <<received, aborted, pending, running, owners, freeSlots, freePages, table, kv,
                 inflight, finishedReqs,
                 pc, todo, lazyFree, newFinished, gpuVars, out, fault>>

(* try_add_one for a new request: lock the matched prefix, take a table    *)
(* slot and copy the matched pages into its row.                           *)
AddNew(u) ==
  /\ pc = "admit" /\ fault = "none"
  /\ MorePending /\ u = NextPending /\ CanAdd(u)
  /\ u \notin chunked
  /\ LET h    == MatchReq(u)
         slot == Last(freeSlots)
     IN  /\ kv' = LockHandle(kv, h)
         /\ freeSlots' = Front(freeSlots)
         /\ table' = [table EXCEPT ![slot] =
              [i \in Row |-> IF i * PageSize <= Len(h)
                             THEN kv.page[SubSeq(h, 1, i * PageSize)] ELSE @[i]]]
         /\ AddOneReq(u, slot, Len(h), h, 0)
  /\ owners' = owners \cup {u}
  /\ UNCHANGED <<received, aborted, pending, running, freePages, inflight, finishedReqs,
                 pc, todo, lazyFree, newFinished, gpuVars, out, fault>>
-----------------------------------------------------------------------------
(* The batch to launch: prefill first, else every running request.         *)
NextReqs ==
  IF adder.reqs # <<>> THEN adder.reqs
  ELSE LET order == SetToSeq(running)
       IN  [i \in 1..Cardinality(running) |-> [uid |-> order[i], chunk |-> FALSE]]

NextPhase ==
  IF adder.reqs # <<>> THEN "prefill" ELSE IF running # {} THEN "decode" ELSE "none"

(* pending_list after the loop: what was added leaves, except the request  *)
(* that was cut (the last one, as a cut uses up the token budget).         *)
RestPending_AllTaken == SubSeq(pending, Len(adder.reqs) + 1, Len(pending))  \* mutant
RestPending ==
  LET n   == Len(adder.reqs)
      cut == n > 0 /\ adder.reqs[n].chunk
  IN  SubSeq(pending, IF cut THEN n ELSE n + 1, Len(pending))

(* allocate_paged: the row entries each request of the batch lacks.        *)
NeededPages_RoundDown(reqs) ==                               \* mutant
  {x \in UidsOf(reqs) \X Row : /\ PagesDown(req[x[1]].clen) < x[2]
                             /\ x[2] <= PagesUp(req[x[1]].dlen)}
NeededPages(reqs) ==
  {x \in UidsOf(reqs) \X Row : /\ PagesUp(req[x[1]].clen) < x[2]
                             /\ x[2] <= PagesUp(req[x[1]].dlen)}

(* The place of a needed entry in allocation_info order.                   *)
AllocIndex(reqs, u, i) ==
  Cardinality({x \in NeededPages(reqs) :
                 \/ PosOf(reqs, x[1]) < PosOf(reqs, u)
                 \/ x[1] = u /\ x[2] <= i})

(* _write_page_table with the pages of supply.                             *)
WrittenTable(reqs, supply) ==
  [s \in Slots |-> [i \in Row |->
     IF \E u \in UidsOf(reqs) : req[u].slot = s /\ <<u, i>> \in NeededPages(reqs)
     THEN supply[AllocIndex(reqs, CHOOSE u \in UidsOf(reqs) : req[u].slot = s, i)]
     ELSE table[s][i]]]

(* ForwardInput: what is fixed at launch, before complete_one - the token  *)
(* positions [from, to) of each row, the pages of the row, which keys and  *)
(* values go to (out_loc) and which prepare_metadata copies for a backend  *)
(* without LiveRows, and the column its next token is written to: column   *)
(* device_len if the request can decode, else -1, the last of the row.     *)
(* The tokens themselves are read when the batch runs.                     *)
WriteColumn_OneEarly(e) ==                                   \* mutant
  IF ~e.chunk /\ RemainLen(e.uid) > 0 THEN req[e.uid].dlen ELSE MaxSeqLen
WriteColumn(e) ==
  IF ~e.chunk /\ RemainLen(e.uid) > 0 THEN req[e.uid].dlen + 1 ELSE MaxSeqLen

ForwardEntry(e, rows) ==
  LET r == req[e.uid]
  IN  [uid |-> e.uid, chunk |-> e.chunk, slot |-> r.slot, from |-> r.clen, to |-> r.dlen,
       row |-> SubSeq(rows[r.slot], 1, PagesUp(r.dlen)),
       column |-> WriteColumn(e)]

ForwardInput(reqs, rows) ==
  [phase  |-> NextPhase, ran |-> reqs = <<>>,
   reqs   |-> [i \in DOMAIN reqs |-> ForwardEntry(reqs[i], rows)],
   tokens |-> <<>>]

(* complete_one *)
CompleteOne(r) == [r EXCEPT !.clen = r.dlen, !.dlen = r.dlen + 1]

(* filter_reqs, after complete_one: a ChunkedReq never decodes.            *)
FilterReqs(reqs) ==
  (running \ UidsOf(reqs)) \cup
    {u \in UidsOf(reqs) : ~reqs[PosOf(reqs, u)].chunk
                           /\ MaxDevLen(u) - CompleteOne(req[u]).dlen > 0}

(* The batch whose results this round processes, and the one it leaves     *)
(* behind.                                                                 *)
HandOver(batch) ==
  /\ todo'     = IF Overlap THEN inflight ELSE batch
  /\ inflight' = IF Overlap THEN batch ELSE NoBatch

(* The rest of the round up to _process_last_data: _prepare_batch and      *)
(* _forward of the next batch, if there is one.                            *)
Launch ==
  /\ pc = "admit" /\ fault = "none"
  /\ ~(MorePending /\ CanAdd(NextPending))
  /\ LET reqs   == NextReqs
         needed == Cardinality(NeededPages(reqs))
         short  == Max({0, needed - Len(freePages)})
     IN  IF short > Cardinality(Evictable(kv)) THEN Fail("evict") ELSE
         /\ \E E \in Evictions(kv, short) :
              LET order  == SetToSeq(E)
                  supply == freePages \o [i \in 1..Cardinality(E) |-> kv.page[order[i]]] IN
              /\ freePages' = SubSeq(supply, needed + 1, Len(supply))
              /\ kv' = EvictPrefixes(kv, E)
              /\ table' = WrittenTable(reqs, supply)
         /\ HandOver(ForwardInput(reqs, table'))
         /\ req' = [u \in Reqs |-> IF u \in UidsOf(reqs) THEN CompleteOne(req[u]) ELSE req[u]]
         /\ running' = FilterReqs(reqs)
         /\ pending' = RestPending
         /\ adder' = NewAdder
         /\ pc' = "process"
         /\ UNCHANGED <<received, aborted, chunked, owners, freeSlots, tokenPool, finishedReqs,
                        lazyFree, newFinished, gpuVars, out, fault>>
-----------------------------------------------------------------------------
(* The GPU executes a launched batch (forward_batch on the engine stream): *)
(* read the input tokens from the pool, attend to the pages of the row,    *)
(* store keys and values of the new positions, sample, write the token     *)
(* back to the pool.                                                       *)
PageText(ids, i) == SubSeq(ids, 1, Min({i * PageSize, Len(ids)}))

(* The tokens the batch computes with: those already computed, then those  *)
(* it finds in the token pool.                                             *)
InputText(e) ==
  SubSeq(text[e.uid], 1, e.from) \o SubSeq(tokenPool[e.slot], e.from + 1, e.to)

ReadsTokens(e) ==
  InputText(e) = SubSeq(text[e.uid], 1, e.to)

(* The pages attention reads: those the row of the page table names when   *)
(* the kernel runs, be it another request's by then, or those of launch.   *)
ReadRow(e) == IF LiveRows THEN table[e.slot] ELSE e.row

NewPages(e) == (PagesDown(e.from) + 1)..PagesUp(e.to)

(* Attention reads the request's own prefix, as computed before, and then  *)
(* the new positions, where the entry has just stored them.                *)
ReadsKv(e) ==
  /\ \A i \in 1..PagesUp(e.from) :
       kvText[ReadRow(e)[i]] = PageText(SubSeq(text[e.uid], 1, e.from), i)
  /\ \A i \in NewPages(e) :
       ReadRow(e)[i] = e.row[i] \/ kvText[ReadRow(e)[i]] = PageText(InputText(e), i)

StoresInto(e, p) == \E i \in NewPages(e) : e.row[i] = p

(* What the entry leaves in a page.  Keys and values of every layer but    *)
(* the first depend on what attention read: after a misread they are those *)
(* of no prefix.                                                           *)
StoredText(e, p) ==
  IF ReadsKv(e) THEN PageText(InputText(e), CHOOSE i \in NewPages(e) : e.row[i] = p) ELSE <<>>

(* Two entries of a batch may store into one page: the last one counts.    *)
RunBatch(reqs, tokens) ==
  /\ text' = [u \in Reqs |->
       IF \E i \in DOMAIN reqs : reqs[i].uid = u /\ ~reqs[i].chunk
       THEN Append(text[u], tokens[PosOf(reqs, u)]) ELSE text[u]]
  /\ tokenPool' = [s \in Slots |-> [j \in 1..MaxSeqLen |->
       LET writers == {i \in DOMAIN reqs : reqs[i].slot = s /\ reqs[i].column = j}
       IN  IF writers # {} THEN tokens[Max(writers)] ELSE tokenPool[s][j]]]
  /\ kvText' = [p \in Pages |->
       LET stores == {i \in DOMAIN reqs : StoresInto(reqs[i], p)}
       IN  IF stores # {} THEN StoredText(reqs[Max(stores)], p) ELSE kvText[p]]
  /\ misread' =
       [tokens |-> misread.tokens \cup {reqs[i].uid : i \in {k \in DOMAIN reqs : ~ReadsTokens(reqs[k])}},
        kv     |-> misread.kv     \cup {reqs[i].uid : i \in {k \in DOMAIN reqs : ~ReadsKv(reqs[k])}}]

(* A ChunkedReq's sample is discarded: its token is left at ZeroToken.     *)
Samples(reqs) ==
  {tokens \in [DOMAIN reqs -> OutToken \cup {ZeroToken}] :
     \A i \in DOMAIN reqs : IF reqs[i].chunk THEN tokens[i] = ZeroToken
                                             ELSE tokens[i] \in OutToken}

WithTokens(batch, tokens) == [batch EXCEPT !.ran = TRUE, !.tokens = tokens]

GpuRun ==
  /\ fault = "none"
  /\ \/ /\ ~todo.ran
        /\ \E tokens \in Samples(todo.reqs) :
             /\ RunBatch(todo.reqs, tokens)
             /\ todo' = WithTokens(todo, tokens)
        /\ UNCHANGED inflight
     \/ /\ todo.ran /\ ~inflight.ran
        /\ \E tokens \in Samples(inflight.reqs) :
             /\ RunBatch(inflight.reqs, tokens)
             /\ inflight' = WithTokens(inflight, tokens)
        /\ UNCHANGED todo
  /\ UNCHANGED <<reqVars, freeSlots, freePages, table, kv, finishedReqs, adder, lazyFree,
                 newFinished, pc, out, fault>>
-----------------------------------------------------------------------------
(* One turn of the loop of _complete_batch_results, once the GPU has       *)
(* copied the batch's tokens back (copy_done.synchronize).                 *)
RestOf(batch) == [batch EXCEPT !.reqs = Tail(@), !.tokens = Tail(@)]

SkipChunk ==
  /\ pc = "process" /\ fault = "none" /\ todo.ran
  /\ todo.reqs # <<>> /\ Head(todo.reqs).chunk
  /\ todo' = RestOf(todo)
  /\ UNCHANGED <<reqVars, memVars, inflight, finishedReqs, pc, adder, lazyFree, newFinished,
                 gpuVars, out, fault>>

IsFinished_OneLate(r, u, token) == Len(r.ids) > MaxDevLen(u) \/ token = Eos  \* mutant
IsFinished(r, u, token) == Len(r.ids) >= MaxDevLen(u) \/ token = Eos

(* "skip second free": finished, and not already freed by the last batch.  *)
FreesNow_Again(r, u, token) == IsFinished(r, u, token)       \* mutant
FreesNow_AtLengthOnly(r, u, token) ==                             \* mutant
  Len(r.ids) >= MaxDevLen(u) /\ u \notin finishedReqs
FreesNow(r, u, token) == IsFinished(r, u, token) /\ u \notin finishedReqs

(* DecodeManager.remove_req *)
RemoveReq(u) == running \ {u}

CompleteReq ==
  /\ pc = "process" /\ fault = "none" /\ todo.ran
  /\ todo.reqs # <<>> /\ ~Head(todo.reqs).chunk
  /\ LET u     == Head(todo.reqs).uid
         token == Head(todo.tokens)
         r    == [req[u] EXCEPT !.ids = Append(@, token)]   \* append_host
         free == FreesNow(r, u, token)
         keep == ~free /\ todo.phase = "prefill"
     IN  IF (free \/ keep) /\ ~CacheReqSafe(r) THEN Fail("unlock") ELSE
         /\ out' = [out EXCEPT ![u] =
              [sent |-> @.sent + 1,
               finished |-> @.finished \/ IsFinished(r, u, token),
               late |-> IF @.finished THEN @.late + 1 ELSE @.late]]
         /\ req' = [req EXCEPT ![u] = IF keep THEN [r EXCEPT !.handle = NewHandle(r)] ELSE r]
         /\ kv' = CASE free -> Released(r)
                    [] keep -> LockHandle(Released(r), NewHandle(r))
                    [] OTHER -> kv
         /\ lazyFree' = CASE free -> lazyFree \o FreedKnown(r) \o FreedTail(r)
                          [] keep -> lazyFree \o FreedKnown(r)
                          [] OTHER -> lazyFree
         /\ IF free
            THEN /\ running' = RemoveReq(u)
                 /\ freeSlots' = Append(freeSlots, r.slot)
                 /\ newFinished' = newFinished \cup {u}
                 /\ owners' = owners \ {u}
            ELSE UNCHANGED <<running, freeSlots, newFinished, owners>>
         /\ todo' = RestOf(todo)
         /\ UNCHANGED <<received, aborted, pending, chunked, freePages, table, tokenPool,
                        inflight, finishedReqs, adder, gpuVars, pc, fault>>

(* lazy_free_region ends, finished_reqs is replaced when a batch was       *)
(* processed, and the loop turns.                                          *)
EndRound ==
  /\ pc = "process" /\ fault = "none"
  /\ todo.reqs = <<>>
  /\ freePages' = freePages \o lazyFree
  /\ lazyFree' = <<>>
  /\ finishedReqs' = IF todo.phase = "none" THEN finishedReqs ELSE newFinished
  /\ newFinished' = {}
  /\ todo' = NoBatch
  /\ pc' = "recv"
  /\ UNCHANGED <<reqVars, freeSlots, table, tokenPool, kv, inflight, adder, gpuVars, out, fault>>
-----------------------------------------------------------------------------
Round ==
  \/ BeginRound
  \/ \E u \in Reqs : AddChunk(u) \/ AddNew(u)
  \/ Launch
  \/ SkipChunk
  \/ CompleteReq
  \/ EndRound

Next == Round \/ GpuRun \/ Idle \/ \E u \in Reqs : RecvUser(u) \/ RecvAbort(u)

Spec == Init /\ [][Next]_vars

(* The scheduler thread keeps running and the GPU finishes what was        *)
(* launched; clients promise nothing.                                      *)
FairSpec == Spec /\ WF_vars(Round) /\ WF_vars(GpuRun)
-----------------------------------------------------------------------------
ReqRecord == [slot : Slots \cup {NoSlot}, ids : Seq(Token), clen : Nat, dlen : Nat,
              handle : Seq(Token)]
EntryRecord == [uid : Reqs, chunk : BOOLEAN, slot : Slots \cup {NoSlot}, from : Nat, to : Nat,
                row : Seq(Pages), column : Nat]
Batch == [phase : {"prefill", "decode", "none"}, ran : BOOLEAN, reqs : Seq(EntryRecord),
          tokens : Seq(Token)]

(* Every variable ranges over the values the code gives it.                *)
TypeOK ==
  /\ received \subseteq Reqs /\ aborted \subseteq Reqs
  /\ pending \in Seq(Reqs) /\ chunked \subseteq Reqs /\ running \subseteq Reqs
  /\ req \in [Reqs -> ReqRecord]
  /\ freeSlots \in Seq(Slots) /\ freePages \in Seq(Pages)
  /\ table \in [Slots -> [Row -> Pages]]
  /\ tokenPool \in [Slots -> [1..MaxSeqLen -> Token]]
  /\ Cached(kv) \subseteq Seq(Token)
  /\ kv = [page |-> kv.page, ref |-> kv.ref]
  /\ kv.page \in [Cached(kv) -> Pages] /\ kv.ref \in [Cached(kv) -> Nat]
  /\ inflight \in Batch /\ todo \in Batch
  /\ finishedReqs \subseteq Reqs /\ newFinished \subseteq Reqs
  /\ pc \in {"recv", "admit", "process"}
  /\ adder \in [budget : 0..PrefillBudget, reqs : Seq([uid : Reqs, chunk : BOOLEAN])]
  /\ lazyFree \in Seq(Pages)
  /\ out \in [Reqs -> [sent : Nat, finished : BOOLEAN, late : Nat]]
  /\ fault \in {"none", "unlock", "evict", "integrity"}
  /\ owners \subseteq Reqs
  /\ text \in [Reqs -> Seq(Token)]
  /\ kvText \in [Pages -> Seq(Token)]
  /\ misread \in [tokens : SUBSET Reqs, kv : SUBSET Reqs]
-----------------------------------------------------------------------------
(* Safety.                                                                 *)

(* The entries of its row that a request owns alone: past its handle.      *)
Private(u) == (PagesDown(Len(req[u].handle)) + 1)..PagesUp(req[u].clen)

FreePool == freePages \o lazyFree

(* Every KV page is in exactly one place, once: on the free list (or the   *)
(* list freed when the batch is processed), in the prefix cache, or in the *)
(* row of one admitted request past its handle.  This is what              *)
(* CacheManager.check_integrity can only test when nothing is running.     *)
PagePartition ==
  \A p \in Pages :
    Cardinality({i \in DOMAIN FreePool : FreePool[i] = p})
    + Cardinality({q \in Cached(kv) : kv.page[q] = p})
    + Cardinality({x \in owners \X Row : x[2] \in Private(x[1])
                                         /\ table[req[x[1]].slot][x[2]] = p}) = 1

(* Every table slot is free, once, or held by exactly one admitted         *)
(* request (TableManager hands a slot out and takes it back once).         *)
SlotPartition ==
  /\ \A i, j \in DOMAIN freeSlots : freeSlots[i] = freeSlots[j] => i = j
  /\ \A u, v \in owners : req[u].slot = req[v].slot => u = v
  /\ \A u \in owners : req[u].slot \notin ToSet(freeSlots)
  /\ ToSet(freeSlots) \cup {req[u].slot : u \in owners} = Slots

(* The reference count of a cached page is the number of admitted requests *)
(* whose handle covers it, and what a handle covers is cached: lock_handle *)
(* calls of admission, cache_req and release balance.                      *)
LocksMatchOwners ==
  /\ \A p \in Cached(kv) :
       kv.ref[p] = Cardinality({u \in owners : IsPrefix(p, req[u].handle)})
  /\ \A u \in owners : PagePrefixes(req[u].handle) \subseteq Cached(kv)

(* A request that holds a slot and pages is one the scheduler will still   *)
(* meet: waiting for its next chunk, running, or in a batch whose results  *)
(* are not processed.  Otherwise its resources would never be freed.       *)
OwnersAreReachable ==
  owners \subseteq chunked \cup running \cup UidsOf(adder.reqs) \cup UidsOf(todo.reqs)
                   \cup UidsOf(inflight.reqs)

(* Pages a request will still take: it ends with MaxDevLen - 1 computed    *)
(* tokens (the last sampled token is never fed back).                      *)
FinalTokens(u)   == Max({InputLen(u), MaxDevLen(u) - 1})
PagesToFinish(u) == Max({0, PagesUp(FinalTokens(u)) - PagesUp(req[u].clen)})

(* The admission test of PrefillAdder never over-commits: the pages all    *)
(* admitted requests still need to run to max_tokens can be found by       *)
(* taking free pages and evicting unlocked ones.                           *)
AdmissionFits ==
  pc = "recv" =>
    MapThenSumSet(PagesToFinish, owners) <= Len(freePages) + Cardinality(Evictable(kv))

(* No assertion of the code fails: ref_count >= 0 in lock_handle, "Cannot  *)
(* evict" / "Eviction did not free enough space.", check_integrity.        *)
NoAssertionFails == fault = "none"

(* The GPU reads for every row the tokens of that request: no other        *)
(* request's prompt and no stale sample lands in its token_pool row.       *)
TokensReadAreOwn == misread.tokens = {}

(* Attention reads keys and values computed for the request's own prefix:  *)
(* "[0, req.cached_len)  This part is valid for attention kernel           *)
(* read/write" (CacheManager.cache_req).  With LiveRows and Overlap a step *)
(* still to run may find its row rewritten (kv_live_rows.cfg).             *)
KvReadIsOwn == misread.kv = {}

(* A cached page holds the keys and values of the prefix it is cached      *)
(* under, as soon as the batches that compute them have run.               *)
CacheContentSound ==
  inflight.ran /\ todo.ran => \A p \in Cached(kv) : kvText[kv.page[p]] = p

(* A client is sent at most one token after the one marked finished, and   *)
(* none without overlap: finished_reqs of one batch is memory enough.      *)
LateRepliesBounded == \A u \in Reqs : out[u].late <= (IF Overlap THEN 1 ELSE 0)

(* A request never gets more tokens than max_tokens, the one sampled by    *)
(* its prefill included.                                                   *)
TokensWithinLimit == \A u \in Reqs : out[u].sent <= Max({1, OutLen(u)})

(* A page some handle protects stays cached under its prefix: "When a      *)
(* handle is locked, it cannot be evicted" (kvcache/base.py).              *)
LockedPagesStay ==
  [][\A p \in Cached(kv) : kv.ref[p] > 0 =>
        p \in Cached(kv') /\ kv'.page[p] = kv.page[p]]_vars

(* Liveness: every accepted request whose client stays is answered to the  *)
(* end; the head of pending_list is not blocked forever.                   *)
EveryRequestFinishes ==
  \A u \in Reqs :
    (u \in received /\ InputLen(u) < MaxSeqLen) ~> (out[u].finished \/ u \in aborted)
=============================================================================
