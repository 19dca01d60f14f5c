----------------------------- MODULE AfdCentral -----------------------------
(***************************************************************************)
(* CentralizedAfdDpScheduler (afd_scheduler.py): the scheduler the         *)
(* coordinator keeps on the CPU for one attention data-parallel lane.  It  *)
(* owns the table slots and a ledger of KV pages; the keys, the values and *)
(* the token ids live on the lane's attention workers.                     *)
(*                                                                         *)
(* A lane is a record, each method an operator from lanes to lanes:        *)
(*   pending  PrefillManager.pending_list                                  *)
(*   running  DecodeManager.running_reqs                                   *)
(*   slots    TableManager._free_slots, a stack                            *)
(*   pages    length of _CpuNaiveCacheManager.free_slots (the ledger hands *)
(*            out page ids that nobody reads: only their number matters)   *)
(*   finished finished_reqs                                                *)
(*   req      the Req of each uid: its slot, cached_len, device_len and    *)
(*            done, the tokens of the answer the coordinator has processed *)
(* A batch is a sequence of entries, one per Req, that remember what the   *)
(* code reads from the batch later.                                        *)
(***************************************************************************)
EXTENDS Integers, SequencesExt, FiniteSetsExt, Functions, TLC

CONSTANTS
  Reqs,          \* request uids, compared by DecodeManager's sorted()
  InputLen,      \* len(input_ids) of each request
  OutLen,        \* max_tokens of each request
  NumSlots,      \* attn_max_running_req
  NumPages,      \* num_pages
  PageSize,      \* page_size
  PrefillBudget  \* max_batched_tokens

ASSUME RequestAssumption ==
  /\ Reqs \subseteq Nat /\ IsFiniteSet(Reqs)
  /\ InputLen \in [Reqs -> Nat \ {0}]
  /\ OutLen \in [Reqs -> Nat \ {0}]
ASSUME SizeAssumption ==
  /\ NumSlots \in Nat \ {0} /\ NumPages \in Nat \ {0}
  /\ PageSize \in Nat \ {0} /\ PrefillBudget \in Nat \ {0}

Slots  == 0..(NumSlots - 1)
NoSlot == NumSlots
-----------------------------------------------------------------------------
(* div_ceil(tokens, page_size) *)
PagesFor(tokens)   == (tokens + PageSize - 1) \div PageSize
MaxDevLen(r)       == InputLen[r] + OutLen[r]
RemainLen(lane, r) == MaxDevLen(r) - lane.req[r].device

NewReq  == [slot |-> NoSlot, cached |-> 0, device |-> 0, done |-> 0]
NewLane == [pending |-> <<>>, running |-> {}, slots |-> [i \in 1..NumSlots |-> i - 1],
            pages |-> NumPages, finished |-> {}, req |-> [r \in Reqs |-> NewReq]]

AddReqs(lane, r) == [lane EXCEPT !.pending = Append(@, r)]

PrefillRunnable(lane) == lane.pending # <<>>
DecodeRunnable(lane)  == lane.running # {}
HasRunnable(lane)     == PrefillRunnable(lane) \/ DecodeRunnable(lane)

(* DecodeManager.inflight_tokens *)
InflightTokens_NoRemain(lane) == (PageSize - 1) * Cardinality(lane.running)  \* mutant
InflightTokens(lane) ==
  MapThenSumSet(LAMBDA r : RemainLen(lane, r), lane.running)
    + (PageSize - 1) * Cardinality(lane.running)
-----------------------------------------------------------------------------
(* PrefillAdder: budget and reserved as in the class, and the lane whose   *)
(* table rows it hands out; entries are the Reqs added so far, chunked the *)
(* requests among them whose prompt was cut (chunked_list).                *)
NewAdder(lane) ==
  [lane |-> lane, budget |-> PrefillBudget, reserved |-> InflightTokens(lane),
   entries |-> <<>>, chunked |-> <<>>, full |-> FALSE]

HasRoom(adder, r) ==
  /\ adder.lane.slots # <<>>
  /\ InputLen[r] + OutLen[r] + adder.reserved <= adder.lane.pages * PageSize

IsChunked(lane, r) == lane.req[r].slot # NoSlot      \* pending_req.chunked_req

(* A Req of the next chunk of the prompt in table row slot.                *)
AddOneReq(adder, lane, r, slot) ==
  LET cached == lane.req[r].cached
      rest   == InputLen[r] - cached
      size   == Min({adder.budget, rest})
  IN [adder EXCEPT
        !.lane = [lane EXCEPT !.req[r].slot = slot, !.req[r].device = cached + size],
        !.budget = @ - size, !.reserved = @ + rest + OutLen[r],
        !.chunked = IF size < rest THEN Append(@, r) ELSE @,
        !.entries = Append(@, [req |-> r, slot |-> slot, start |-> cached, ext |-> size,
                               chunked |-> size < rest])]

TryAddOne(adder, r) ==
  LET lane == adder.lane IN
  CASE adder.full \/ adder.budget <= 0 -> [adder EXCEPT !.full = TRUE]
    [] ~(adder.full \/ adder.budget <= 0) /\ IsChunked(lane, r) ->
         AddOneReq(adder, lane, r, lane.req[r].slot)
    [] ~(adder.full \/ adder.budget <= 0) /\ ~IsChunked(lane, r) /\ HasRoom(adder, r) ->
         AddOneReq(adder, [lane EXCEPT !.slots = Front(@)], r, Last(lane.slots))
    [] OTHER -> [adder EXCEPT !.full = TRUE]

(* PrefillManager.schedule_next_batch: the lane afterwards and the batch.  *)
PrefillBatch(lane) ==
  LET adder == FoldLeft(TryAddOne, NewAdder(lane), lane.pending)
      rest  == SubSeq(lane.pending, Len(adder.entries) + 1, Len(lane.pending))
  IN [lane    |-> [adder.lane EXCEPT !.pending = adder.chunked \o rest],
      entries |-> adder.entries]

(* DecodeManager.schedule_next_batch: one token of every running request,  *)
(* in the order of the uids.                                               *)
InOrder(uids) ==
  CHOOSE seq \in [1..Cardinality(uids) -> uids] :
    \A i, j \in DOMAIN seq : i < j => seq[i] < seq[j]
DecodeBatch(lane) ==
  LET uids == InOrder(lane.running) IN
  [lane    |-> lane,
   entries |-> [i \in DOMAIN uids |->
                  [req |-> uids[i], slot |-> lane.req[uids[i]].slot,
                   start |-> lane.req[uids[i]].cached, ext |-> 1, chunked |-> FALSE]]]

Schedule(lane, phase) == IF phase = "prefill" THEN PrefillBatch(lane) ELSE DecodeBatch(lane)

(* _CpuNaiveCacheManager.allocate_paged *)
PagesOf(e)        == PagesFor(e.start + e.ext) - PagesFor(e.start)
AddPages(n, e)    == n + PagesOf(e)
Needed(entries)   == FoldLeft(AddPages, 0, entries)
CanAllocate(lane, entries)   == Needed(entries) <= lane.pages
AllocatePaged(lane, entries) == [lane EXCEPT !.pages = @ - Needed(entries)]
-----------------------------------------------------------------------------
(* Req.complete_one for the Reqs of a launched batch, then filter_reqs.    *)
CanDecode(lane, e) == ~e.chunked /\ RemainLen(lane, e.req) > 0
LaunchedOne(lane, e) ==
  LET next == [lane EXCEPT !.req[e.req].cached = e.start + e.ext,
                           !.req[e.req].device = e.start + e.ext + 1]
  IN [next EXCEPT !.running = IF CanDecode(next, e) THEN @ \union {e.req} ELSE @ \ {e.req}]
Launched(lane, entries) == FoldLeft(LaunchedOne, lane, entries)

(* _free_req_resources: the table slot and, from the row up to cached_len, *)
(* the pages.                                                              *)
FreeReq_KeepsPartPage(lane, r) ==                                  \* mutant
  [lane EXCEPT !.slots = Append(@, lane.req[r].slot),
               !.pages = @ + lane.req[r].cached \div PageSize,
               !.req[r].slot = NoSlot]
FreeReq_ToDeviceLen(lane, r) ==                                    \* mutant
  [lane EXCEPT !.slots = Append(@, lane.req[r].slot),
               !.pages = @ + PagesFor(lane.req[r].device),
               !.req[r].slot = NoSlot]
FreeReq(lane, r) ==
  [lane EXCEPT !.slots = Append(@, lane.req[r].slot),
               !.pages = @ + PagesFor(lane.req[r].cached),
               !.req[r].slot = NoSlot]

(* abort_req: the request is taken out of the pending list, or else out of *)
(* the running requests; freed are the table indices it returns.           *)
AbortReq(lane, r) ==
  LET waits == r \in Range(lane.pending)
      at    == CHOOSE i \in DOMAIN lane.pending : lane.pending[i] = r
      cut   == IF waits THEN [lane EXCEPT !.pending = RemoveAt(@, at)]
                        ELSE [lane EXCEPT !.running = @ \ {r}]
      held  == IF waits THEN IsChunked(lane, r) ELSE r \in lane.running
  IN IF held THEN [lane |-> FreeReq(cut, r), freed |-> <<lane.req[r].slot>>, found |-> TRUE]
             ELSE [lane |-> cut, freed |-> <<>>, found |-> waits]

(* complete_results, for one Req and its token: _complete_batch_results    *)
(* for a prefill batch (where a ChunkedReq is skipped),                    *)
(* _complete_decode_results_fast for a decode batch.  An entry that is not *)
(* current has been filtered out before.  The completion collects the      *)
(* replies to each request and the requests that finished.                 *)
IsFinished(lane, e, token) == lane.req[e.req].done >= OutLen[e.req] \/ token.eos
CompleteOne(acc, item) ==
  LET e    == item.entry
      lane == [acc.lane EXCEPT !.req[e.req].done = @ + 1]
      end  == IsFinished(lane, e, item.token)
      frees == end /\ e.req \notin acc.lane.finished
  IN IF e.chunked \/ ~item.current THEN acc ELSE
     [lane    |-> IF frees THEN FreeReq([lane EXCEPT !.running = @ \ {e.req}], e.req) ELSE lane,
      replies |-> [acc.replies EXCEPT ![e.req] = Append(@, [token |-> item.token, finished |-> end])],
      newDone |-> IF frees THEN acc.newDone \union {e.req} ELSE acc.newDone,
      freed   |-> IF frees THEN Append(acc.freed, e.slot) ELSE acc.freed]

NewCompletion(lane) ==
  [lane |-> lane, replies |-> [r \in Reqs |-> <<>>], newDone |-> {}, freed |-> <<>>]
CompleteResults(lane, items) ==
  LET acc == FoldLeft(CompleteOne, NewCompletion(lane), items)
  IN [acc EXCEPT !.lane = [@ EXCEPT !.finished = acc.newDone]]
=============================================================================
