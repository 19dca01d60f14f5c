----------------------------- MODULE PrefixTree -----------------------------
(***************************************************************************)
(* The prefix cache of the colocated server seen page by page.             *)
(*                                                                         *)
(* A cache is a record of two functions with one domain, the set of cached *)
(* prefixes.  A prefix is a token sequence whose length is a multiple of   *)
(* PageSize; page[p] is the KV page that holds the last PageSize tokens of *)
(* p, and ref[p] is the reference count of the radix node that covers that *)
(* page (radix_cache.py splits a node into two with equal counts, so the   *)
(* count of a page does not depend on where node boundaries fall).         *)
(*                                                                         *)
(* A handle (RadixCacheHandle) is the prefix it was created for; its       *)
(* cached_len is the length of that prefix and <<>> is the root.  Module   *)
(* RadixCache models the tree of nodes and implements these operators.     *)
(***************************************************************************)
EXTENDS Integers, Sequences, FiniteSets, SequencesExt

CONSTANTS
  PageSize,   \* tokens per KV page (page_size)
  CacheType   \* "radix" or "naive" (cache_type)

ASSUME PageSizeAssumption  == PageSize \in Nat \ {0}
ASSUME CacheTypeAssumption == CacheType \in {"radix", "naive"}
-----------------------------------------------------------------------------
(* align_down(len, page_size) and div_ceil(len, page_size), in pages.      *)
PagesDown(len) == len \div PageSize
PagesUp(len)   == (len + PageSize - 1) \div PageSize

(* The page-aligned, non-empty prefixes of a token sequence.               *)
PagePrefixes(ids) == {SubSeq(ids, 1, k * PageSize) : k \in 1..PagesDown(Len(ids))}

EmptyCache == [page |-> <<>>, ref |-> <<>>]

Cached(kv) == DOMAIN kv.page

(* match_prefix: the handle of the longest cached prefix of ids.           *)
MatchPrefix(kv, ids) ==
  LET hits == {k \in 0..PagesDown(Len(ids)) :
                 \A j \in 1..k : SubSeq(ids, 1, j * PageSize) \in Cached(kv)}
  IN  SubSeq(ids, 1, Max(hits) * PageSize)

(* insert_prefix: the prefixes of ids that are not cached yet are cached,  *)
(* unlocked, with the pages of the given page-table row.                   *)
InsertPrefix(kv, ids, row) ==
  IF CacheType = "naive" THEN kv ELSE
  LET all == Cached(kv) \cup PagePrefixes(ids)
  IN  [page |-> [p \in all |-> IF p \in Cached(kv) THEN kv.page[p]
                                                   ELSE row[PagesDown(Len(p))]],
       ref  |-> [p \in all |-> IF p \in Cached(kv) THEN kv.ref[p] ELSE 0]]

(* The handle insert_prefix returns.                                       *)
InsertedHandle(ids) ==
  IF CacheType = "naive" THEN <<>> ELSE SubSeq(ids, 1, PagesDown(Len(ids)) * PageSize)

(* lock_handle: count every node from the handle's node up to the root.    *)
LockHandle_LastOnly(kv, h) ==                                    \* mutant
  [kv EXCEPT !.ref = [p \in DOMAIN kv.ref |-> IF p = h THEN kv.ref[p] + 1 ELSE kv.ref[p]]]
LockHandle(kv, h) ==
  [kv EXCEPT !.ref = [p \in DOMAIN kv.ref |-> IF IsPrefix(p, h) THEN kv.ref[p] + 1
                                                                ELSE kv.ref[p]]]

(* lock_handle(unlock=True).                                               *)
UnlockHandle_LastOnly(kv, h) ==                                  \* mutant
  [kv EXCEPT !.ref = [p \in DOMAIN kv.ref |-> IF p = h THEN kv.ref[p] - 1 ELSE kv.ref[p]]]
UnlockHandle(kv, h) ==
  [kv EXCEPT !.ref = [p \in DOMAIN kv.ref |-> IF IsPrefix(p, h) THEN kv.ref[p] - 1
                                                                ELSE kv.ref[p]]]

(* "assert node.ref_count >= 0" holds while lock_handle unlocks h.         *)
MayUnlock(kv, h) ==
  \A p \in PagePrefixes(h) : p \in Cached(kv) /\ kv.ref[p] > 0

(* SizeInfo.evictable_size, in pages: the pages no handle protects.        *)
Evictable_All(kv) == Cached(kv)                              \* mutant
Evictable(kv) == {p \in Cached(kv) : kv.ref[p] = 0}

(* The sets of prefixes evict may remove to free n pages: unlocked leaves  *)
(* first, whole subtrees before their root, and no further node once n     *)
(* pages are free.  Which of the unlocked leaves goes first (the LRU       *)
(* order) is left open.                                                    *)
Evictions_AnyOrder(kv, n) == {E \in SUBSET Evictable(kv) : Cardinality(E) = n}  \* mutant
Evictions(kv, n) ==
  IF n = 0 THEN {{}} ELSE
  {E \in SUBSET Evictable(kv) :
     /\ \A p \in E : \A q \in Cached(kv) : IsPrefix(p, q) => q \in E
     /\ Cardinality(E) >= n
     /\ \E first, last \in E :
          Cardinality({p \in E : ~(IsPrefix(first, p) /\ IsPrefix(p, last))}) < n}

EvictPrefixes(kv, E) ==
  LET rest == Cached(kv) \ E
  IN  [page |-> [p \in rest |-> kv.page[p]], ref |-> [p \in rest |-> kv.ref[p]]]
=============================================================================
