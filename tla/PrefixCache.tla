---------------------------- MODULE PrefixCache -----------------------------
(***************************************************************************)
(* What the prefix cache promises to the scheduler: a set of cached        *)
(* prefixes, each with one KV page and the number of requests that hold    *)
(* it.  Node boundaries, size counters, timestamps and the eviction heap   *)
(* of radix_cache.py are not visible here; module RadixCache has them and  *)
(* implements this specification.                                          *)
(*                                                                         *)
(* The cache is driven the way scheduler/prefill.py and scheduler/cache.py *)
(* drive it: a request is admitted with a matched and locked handle, its   *)
(* tokens are inserted when a chunk or the whole request ends, and pages   *)
(* are evicted when the free list runs short.                              *)
(***************************************************************************)
EXTENDS PrefixTree

CONSTANTS
  Reqs,      \* requests
  Text,      \* Text[r]: the tokens of request r, prompt and completion
  Pages,     \* KV pages
  NoHandle   \* a request that holds no handle

(* The tokens of the vocabulary that occur.                                *)
Vocabulary == UNION {ToSet(Text[r]) : r \in Reqs}

ASSUME ReqsAssumption     == IsFiniteSet(Reqs)
ASSUME PagesAssumption    == IsFiniteSet(Pages)
ASSUME TextAssumption     == Text \in [Reqs -> Seq(Vocabulary)]
ASSUME NoHandleAssumption == NoHandle \notin Seq(Vocabulary)

VARIABLES
  kv,        \* the cached prefixes, their pages and reference counts
  held       \* held[r]: the handle request r has locked (req.cache_handle)

vars == <<kv, held>>

(* The first len tokens of request r.                                      *)
Tokens(r, len) == SubSeq(Text[r], 1, len)

(* The pages of a handle (get_matched_indices).                            *)
HandlePages(c, h) == [k \in 1..PagesDown(Len(h)) |-> c.page[SubSeq(h, 1, k * PageSize)]]

(* Pages that hold no cached tokens.                                       *)
Unused(c) == Pages \ {c.page[p] : p \in Cached(c)}

(* The page-table row of a request: the pages of its handle, then pages    *)
(* allocated for it, which the cache does not know.  (Where a chunk of it  *)
(* found its tokens cached by others the row names other pages before the  *)
(* end of the handle; an insertion never uses those entries.)              *)
PageRow(c, r) == HandlePages(c, held[r]) \o SetToSeq(Unused(c))
-----------------------------------------------------------------------------
Init ==
  /\ kv   = EmptyCache
  /\ held = [r \in Reqs |-> NoHandle]

(* match_req, lock and the copy of the matched page indices, for an input  *)
(* of len tokens, the last of which is never matched.                      *)
Admit(r, len) ==
  /\ held[r] = NoHandle
  /\ LET h == MatchPrefix(kv, Tokens(r, len - 1))
     IN  /\ kv'   = LockHandle(kv, h)
         /\ held' = [held EXCEPT ![r] = h]

(* cache_req: the first len tokens are cached and the old handle is given  *)
(* up; an unfinished request goes on with the handle of what it cached.    *)
CacheReq(r, len, finished) ==
  /\ held[r] # NoHandle
  /\ len >= Len(held[r])
  /\ PagesDown(len) <= Len(PageRow(kv, r))
  /\ LET inserted == InsertPrefix(kv, Tokens(r, len), PageRow(kv, r))
         released == UnlockHandle(inserted, held[r])
         h        == InsertedHandle(Tokens(r, len))
     IN  /\ kv'   = IF finished THEN released ELSE LockHandle(released, h)
         /\ held' = [held EXCEPT ![r] = IF finished THEN NoHandle ELSE h]

(* evict: at least n pages that no request holds.                          *)
Evict(n) ==
  /\ \E E \in Evictions(kv, n) : kv' = EvictPrefixes(kv, E)
  /\ UNCHANGED held

Next ==
  \/ \E r \in Reqs : \E len \in 1..Len(Text[r]) :
        Admit(r, len) \/ \E finished \in BOOLEAN : CacheReq(r, len, finished)
  \/ \E n \in 1..Cardinality(Pages) : Evict(n)

Spec == Init /\ [][Next]_vars
-----------------------------------------------------------------------------
(* The requests whose handle covers prefix p.                              *)
Holders(p) == {r \in Reqs : held[r] # NoHandle /\ IsPrefix(p, held[r])}

TypeOK ==
  /\ DOMAIN kv.ref = Cached(kv)
  /\ \A p \in Cached(kv) : kv.page[p] \in Pages /\ kv.ref[p] \in Nat
  /\ \A r \in Reqs : held[r] # NoHandle => IsPrefix(held[r], Text[r])

(* Every page of a locked handle is cached: match, insert, unlock and      *)
(* evict together never take a page from under a request.                  *)
HandlesCached ==
  \A r \in Reqs : held[r] # NoHandle => PagePrefixes(held[r]) \subseteq Cached(kv)

(* A page is counted once per request whose handle covers it, so that a    *)
(* page nobody holds can be evicted and no other page can.                 *)
CountsMatchHolders == \A p \in Cached(kv) : kv.ref[p] = Cardinality(Holders(p))

(* A page is cached only together with every page before it: eviction      *)
(* removes leaves first, and a walk from the root reaches what is cached.  *)
ClosedUnderPrefix ==
  \A p \in Cached(kv) : PagePrefixes(p) \subseteq Cached(kv)
=============================================================================
