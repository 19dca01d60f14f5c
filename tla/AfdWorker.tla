------------------------------ MODULE AfdWorker ------------------------------
(***************************************************************************)
(* The state an attention worker keeps of its lane (AfdAttentionRuntime,   *)
(* afd_attention_runtime.py), and what one command does to it.  The worker *)
(* is told which rows to free, how many tokens each row of the batch is    *)
(* extended by, and the prompt tokens; how far each row is computed and    *)
(* which pages it has, it keeps track of itself.                           *)
(*                                                                         *)
(*   freePages  len(_free_pages)                                           *)
(*   pages      len(_table_pages[slot])                                    *)
(*   kv         for each slot, the sequence of what the keys and values at *)
(*              its positions were computed from; its length is            *)
(*              _table_cached_len[slot]                                    *)
(*   pool       token_pool: the token id at each position of each row      *)
(* A token is known by the request it is of and its place in that          *)
(* request's text; of = NoReq is a token of no request (the initial zeros, *)
(* or sampled from keys and values that are not one request's text).       *)
(***************************************************************************)
EXTENDS AfdCentral

CONSTANTS
  MaxSeqLen,     \* tokens of a row of token_pool
  NoReq          \* the owner of a token of no request
ASSUME RowAssumption ==
  /\ MaxSeqLen \in Nat /\ \A r \in Reqs : MaxDevLen(r) <= MaxSeqLen
  /\ NoReq \notin Reqs

Token     == [of : Reqs \union {NoReq}, at : 0..MaxSeqLen, eos : BOOLEAN]
ZeroToken == [of |-> NoReq, at |-> 0, eos |-> FALSE]
RowPages  == PagesFor(MaxSeqLen)

NewStore ==
  [freePages |-> NumPages, pages |-> [s \in Slots |-> 0], kv |-> [s \in Slots |-> <<>>],
   pool |-> [s \in Slots |-> [p \in 0..(MaxSeqLen - 1) |-> ZeroToken]]]
-----------------------------------------------------------------------------
(* _free_tables *)
FreeTable_KeepsLength(store, slot) ==                              \* mutant
  [store EXCEPT !.freePages = @ + store.pages[slot], !.pages[slot] = 0]
FreeTable(store, slot) ==
  [store EXCEPT !.freePages = @ + store.pages[slot], !.pages[slot] = 0, !.kv[slot] = <<>>]
FreeTables(store, slots) == FoldLeft(FreeTable, store, slots)

(* _write_token_blocks_ag: a prefill command carries the prompt tokens.    *)
PromptToken(r, p) == [of |-> r, at |-> p, eos |-> FALSE]
WriteBlock(store, e) ==
  [store EXCEPT !.pool[e.slot] =
     [p \in DOMAIN @ |-> IF p \in e.start..(e.start + e.ext - 1) THEN PromptToken(e.req, p)
                         ELSE @[p]]]
WriteTokenBlocks(store, plan) ==
  IF plan.phase = "prefill" THEN FoldLeft(WriteBlock, store, plan.entries) ELSE store

(* _make_stateful_req: the row is extended from where the worker left it,  *)
(* on pages of the worker's own allocator; ext is all it takes from e.     *)
LocalLen(store, e)     == Len(store.kv[e.slot])
LocalPages(store, e)   == PagesFor(LocalLen(store, e) + e.ext) - PagesFor(LocalLen(store, e))
MaterializeReq(store, e) ==
  LET first == LocalLen(store, e)
      row   == store.pool[e.slot]
  IN [store EXCEPT
        !.freePages = @ - LocalPages(store, e), !.pages[e.slot] = @ + LocalPages(store, e),
        !.kv[e.slot] = @ \o [i \in 1..e.ext |-> IF first + i - 1 \in DOMAIN row
                                                THEN row[first + i - 1] ELSE ZeroToken]]
Materialized(store, plan) ==
  FoldLeft(MaterializeReq, WriteTokenBlocks(FreeTables(store, plan.free), plan), plan.entries)

(* The two RuntimeErrors of _allocate_req_pages.                           *)
MaterializeFails(store, plan) ==
  LET ready == WriteTokenBlocks(FreeTables(store, plan.free), plan) IN
  \/ FoldLeft(LAMBDA n, e : n + LocalPages(ready, e), 0, plan.entries) > ready.freePages
  \/ \E i \in DOMAIN plan.entries :
        PagesFor(LocalLen(ready, plan.entries[i]) + plan.entries[i].ext) > RowPages

(* The token the model samples after a row: the next one of the request    *)
(* whose text the row is, or one of no request.                            *)
IsTextOf(row, r) == \A i \in DOMAIN row : row[i].of = r /\ row[i].at = i - 1
Sample(row, eos) ==
  [of  |-> IF \E r \in Reqs : IsTextOf(row, r) THEN CHOOSE r \in Reqs : IsTextOf(row, r) ELSE NoReq,
   at  |-> Min({Len(row), MaxSeqLen}), eos |-> eos]
Sampled(store, plan, eos) ==
  [i \in DOMAIN plan.entries |-> Sample(store.kv[plan.entries[i].slot], i \in eos)]

(* writeback_tokens_ag, at the position the coordinator's plan names       *)
WritebackOne_LastComputed(store, item) ==                          \* mutant
  LET p == item.entry.start + item.entry.ext - 1 IN
  IF item.entry.writeback THEN [store EXCEPT !.pool[item.entry.slot][p] = item.token] ELSE store
WritebackOne(store, item) ==
  LET p == item.entry.start + item.entry.ext IN
  IF item.entry.writeback THEN [store EXCEPT !.pool[item.entry.slot][p] = item.token] ELSE store
Writeback(store, plan, tokens) ==
  FoldLeft(WritebackOne, store,
           [i \in DOMAIN plan.entries |-> [entry |-> plan.entries[i], token |-> tokens[i]]])
=============================================================================
