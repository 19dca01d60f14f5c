----------------------------- MODULE RadixCache -----------------------------
(***************************************************************************)
(* The radix tree of kvcache/radix_cache.py, driven by the cache manager.  *)
(*                                                                         *)
(* A node is named by the tokens on the path from the root to its end, so  *)
(* a split, which makes a new node for the upper half, keeps the name of   *)
(* the node object that handles refer to.  A node record has start, the    *)
(* length of its parent's path (the node's key is the rest of its name),   *)
(* pages, the KV pages of its key, ref (ref_count) and ts (timestamp).     *)
(* The root is <<>>; it has no record and is always protected.             *)
(*                                                                         *)
(* Only the order of timestamps is observable: they are kept as ranks.     *)
(***************************************************************************)
EXTENDS PrefixTree

CONSTANTS
  Reqs,      \* requests
  Text,      \* Text[r]: the tokens of request r, prompt and completion
  Pages,     \* KV pages
  NoHandle   \* a request that holds no handle

ASSUME RadixAssumption == CacheType = "radix"

VARIABLES
  cache,     \* [nodes, evictable, protected]: the tree and its size counters
  held,      \* held[r]: the node of the handle request r has locked
  fault      \* an assertion of the code has failed

vars == <<cache, held, fault>>

Root == <<>>

Tokens(r, len) == SubSeq(Text[r], 1, len)
-----------------------------------------------------------------------------
(* The tree.                                                               *)

Nodes(c)       == DOMAIN c.nodes
Length(c, p)   == Len(p) - c.nodes[p].start
Parent(c, p)   == SubSeq(p, 1, c.nodes[p].start)
Children(c, p) == {q \in Nodes(c) : Parent(c, q) = p}

Size(c, S) == MapThenSumSet(LAMBDA p : Length(c, p), S)

(* The nodes from p up to the root, the root not included.                 *)
Path(c, p) ==
  LET up[q \in Nodes(c) \cup {Root}] ==
        IF q = Root THEN {} ELSE {q} \cup up[Parent(c, q)]
  IN  up[p]

(* children.get(key_fn(ids[len(p):])): the child of p that begins with the *)
(* next page of ids, for ids that extend p.                                *)
Branch(c, p, ids) == {q \in Children(c, p) : IsPrefix(SubSeq(q, 1, Len(p) + PageSize), ids)}

(* How far ids agrees with node q, in tokens from the root, rounded down   *)
(* to a page boundary (get_match_len and align_down).                      *)
MatchEnd_NotAligned(q, ids) == Len(LongestCommonPrefix({q, ids}))  \* mutant
MatchEnd(q, ids) == PagesDown(Len(LongestCommonPrefix({q, ids}))) * PageSize

(* The last node that the walk along ids matches in full.                  *)
Deepest(c, ids) ==
  LET down[p \in Nodes(c) \cup {Root}] ==
        LET onward == {q \in Branch(c, p, ids) : MatchEnd(q, ids) = Len(q)}
        IN  IF onward = {} THEN p ELSE down[CHOOSE q \in onward : TRUE]
  IN  down[Root]

(* split_at: the first tokens of node q, up to len from the root, become a *)
(* new node between q and its parent, with q's count and timestamp.        *)
SplitAt_RefZero(c, q, len) ==                                    \* mutant
  LET n == c.nodes[q]
      k == PagesDown(len - n.start)
  IN  [c EXCEPT !.nodes =
         (SubSeq(q, 1, len) :> [n EXCEPT !.ref = 0, !.pages = SubSeq(n.pages, 1, k)])
         @@ (q :> [n EXCEPT !.start = len, !.pages = SubSeq(n.pages, k + 1, Len(n.pages))])
         @@ c.nodes]
SplitAt_LowerKeepsAll(c, q, len) ==                              \* mutant
  LET n == c.nodes[q]
      k == PagesDown(len - n.start)
  IN  [c EXCEPT !.nodes =
         (SubSeq(q, 1, len) :> [n EXCEPT !.pages = SubSeq(n.pages, 1, k)])
         @@ (q :> [n EXCEPT !.start = len])
         @@ c.nodes]
SplitAt_LowerKeepsFirst(c, q, len) ==                            \* mutant
  LET n == c.nodes[q]
      k == PagesDown(len - n.start)
  IN  [c EXCEPT !.nodes =
         (SubSeq(q, 1, len) :> [n EXCEPT !.pages = SubSeq(n.pages, 1, k)])
         @@ (q :> [n EXCEPT !.start = len, !.pages = SubSeq(n.pages, 1, Len(n.pages) - k)])
         @@ c.nodes]
SplitAt(c, q, len) ==
  LET n == c.nodes[q]
      k == PagesDown(len - n.start)
  IN  [c EXCEPT !.nodes =
         (SubSeq(q, 1, len) :> [n EXCEPT !.pages = SubSeq(n.pages, 1, k)])
         @@ (q :> [n EXCEPT !.start = len, !.pages = SubSeq(n.pages, k + 1, Len(n.pages))])
         @@ c.nodes]

(* Later than every timestamp in the tree.                                 *)
Now(c) == Cardinality(Nodes(c))

Touch(c, S) ==
  [c EXCEPT !.nodes = [p \in Nodes(c) |-> IF p \in S THEN [c.nodes[p] EXCEPT !.ts = Now(c)]
                                                     ELSE c.nodes[p]]]

(* _tree_walk: the nodes matched in full are touched; a node matched in    *)
(* part is split at the last whole page, and the walk ends at the new one. *)
TreeWalk(c, ids) ==
  LET last    == Deepest(c, ids)
      touched == Touch(c, Path(c, last))
      partly  == Branch(c, last, ids)
  IN  IF partly = {} THEN [cache |-> touched, node |-> last]
      ELSE LET q == CHOOSE q \in partly : TRUE
           IN  [cache |-> SplitAt(touched, q, MatchEnd(q, ids)),
                node  |-> SubSeq(q, 1, MatchEnd(q, ids))]

(* insert_prefix: the whole pages of ids that the walk does not find       *)
(* become one new leaf, whose pages are those of the page-table row.       *)
Insert(c, ids, row) ==
  LET aligned == SubSeq(ids, 1, PagesDown(Len(ids)) * PageSize)
      walk    == TreeWalk(c, aligned)
      start   == Len(walk.node)
      leaf    == [start |-> start, ref |-> 0, ts |-> Now(walk.cache) + 1,
                  pages |-> SubSeq(row, PagesDown(start) + 1, PagesDown(Len(aligned)))]
  IN  IF start = Len(aligned) THEN walk
      ELSE [cache |-> [walk.cache EXCEPT !.nodes     = (aligned :> leaf) @@ @,
                                         !.evictable = @ + (Len(aligned) - start)],
            node  |-> aligned]

(* lock_handle: every node up to the root is counted, and those that were  *)
(* free become protected.                                                  *)
Lock(c, h) ==
  LET fresh == {p \in Path(c, h) : c.nodes[p].ref = 0}
  IN  [nodes     |-> [p \in Nodes(c) |-> IF p \in Path(c, h) THEN [c.nodes[p] EXCEPT !.ref = @ + 1]
                                                             ELSE c.nodes[p]],
       evictable |-> c.evictable - Size(c, fresh),
       protected |-> c.protected + Size(c, fresh)]

(* lock_handle(unlock=True), while "assert node.ref_count >= 0" holds.     *)
MayRelease(c, h) == \A p \in Path(c, h) : c.nodes[p].ref > 0

Unlock_NotCounted(c, h) ==                                       \* mutant
  [c EXCEPT !.nodes = [p \in Nodes(c) |-> IF p \in Path(c, h) THEN [c.nodes[p] EXCEPT !.ref = @ - 1]
                                                             ELSE c.nodes[p]]]
Unlock(c, h) ==
  LET freed == {p \in Path(c, h) : c.nodes[p].ref = 1}
  IN  [nodes     |-> [p \in Nodes(c) |-> IF p \in Path(c, h) THEN [c.nodes[p] EXCEPT !.ref = @ - 1]
                                                             ELSE c.nodes[p]],
       evictable |-> c.evictable + Size(c, freed),
       protected |-> c.protected - Size(c, freed)]
-----------------------------------------------------------------------------
(* Eviction.  A round removes the least recently used node of the heap;    *)
(* its parent enters the heap when it has lost its last child and no       *)
(* request holds it.  No two leaves have one timestamp: a timestamp is     *)
(* shared by nodes on one path only, so the order of the heap is total.    *)

UnlockedLeaves_All(c) == {p \in Nodes(c) : Children(c, p) = {}}    \* mutant
UnlockedLeaves(c) == {p \in Nodes(c) : Children(c, p) = {} /\ c.nodes[p].ref = 0}

Oldest(c, heap) == CHOOSE p \in heap : \A q \in heap : c.nodes[p].ts <= c.nodes[q].ts

Pushed_Never(c, p, gone) == {}                                   \* mutant
Pushed_Locked(c, p, gone) ==                                     \* mutant
  {q \in {Parent(c, p)} \ {Root} : Children(c, q) \subseteq gone}
Pushed(c, p, gone) ==
  {q \in {Parent(c, p)} \ {Root} : Children(c, q) \subseteq gone /\ c.nodes[q].ref = 0}

EvictRound(c, s) ==
  LET p    == Oldest(c, s.heap)
      gone == s.gone \cup {p}
  IN  [gone |-> gone, heap |-> (s.heap \ {p}) \cup Pushed(c, p, gone)]

(* The loop of evict: [gone, heap] once size tokens are gone or the heap   *)
(* is empty.                                                               *)
EvictLoop(c, size) ==
  LET after[n \in 0..Cardinality(Nodes(c))] ==
        IF n = 0 THEN [gone |-> {}, heap |-> UnlockedLeaves(c)]
        ELSE LET s == after[n - 1]
             IN  IF Size(c, s.gone) >= size \/ s.heap = {} THEN s ELSE EvictRound(c, s)
  IN  after[Cardinality(Nodes(c))]

RemoveNodes_StillCounted(c, gone) ==                             \* mutant
  [c EXCEPT !.nodes = [p \in Nodes(c) \ gone |-> c.nodes[p]]]
RemoveNodes(c, gone) ==
  [c EXCEPT !.nodes     = [p \in Nodes(c) \ gone |-> c.nodes[p]],
            !.evictable = @ - Size(c, gone)]
-----------------------------------------------------------------------------
(* The view of the scheduler: one page and one count per cached prefix.    *)

(* The node that covers the last page of a cached prefix.                  *)
Covers(c, q, p) == IsPrefix(p, q) /\ c.nodes[q].start < Len(p)

CachedPrefixes(c) == UNION {{SubSeq(q, 1, k * PageSize) :
                         k \in (PagesDown(c.nodes[q].start) + 1)..PagesDown(Len(q))} : q \in Nodes(c)}

NodeOf(c, p) == CHOOSE q \in Nodes(c) : Covers(c, q, p)

PageOf(c, p) == LET q == NodeOf(c, p)
                IN  c.nodes[q].pages[PagesDown(Len(p)) - PagesDown(c.nodes[q].start)]

KvOf(c) == [page |-> [p \in CachedPrefixes(c) |-> PageOf(c, p)],
            ref  |-> [p \in CachedPrefixes(c) |-> c.nodes[NodeOf(c, p)].ref]]

(* get_matched_indices: the values of the nodes from the root to h.        *)
MatchedIndices(c, h) ==
  LET up[q \in Nodes(c) \cup {Root}] ==
        IF q = Root THEN <<>> ELSE up[Parent(c, q)] \o c.nodes[q].pages
  IN  up[h]

UsedPages(c) == UNION {ToSet(c.nodes[p].pages) : p \in Nodes(c)}

(* The page-table row of a request: the pages of its handle, then pages    *)
(* allocated for it, which the cache does not know.  (Where a chunk of it  *)
(* found its tokens cached by others the row names other pages before the  *)
(* end of the handle; an insertion never uses those entries.)              *)
PageRow(c, r) == MatchedIndices(c, held[r]) \o SetToSeq(Pages \ UsedPages(c))

(* Timestamps as ranks.                                                    *)
Ranked(c) ==
  LET times == {c.nodes[p].ts : p \in Nodes(c)}
  IN  [c EXCEPT !.nodes = [p \in Nodes(c) |->
         [c.nodes[p] EXCEPT !.ts = Cardinality({t \in times : t < c.nodes[p].ts})]]]
-----------------------------------------------------------------------------
Init ==
  /\ cache = [nodes |-> <<>>, evictable |-> 0, protected |-> 0]
  /\ held  = [r \in Reqs |-> NoHandle]
  /\ fault = FALSE

Fail == fault' = TRUE /\ UNCHANGED <<cache, held>>

(* An admission that is rejected: the prompt is matched, and the handle is *)
(* locked and unlocked again when the room runs out only after the lock.   *)
Probe(r, len, locked) ==
  /\ ~fault
  /\ held[r] = NoHandle
  /\ LET walk == TreeWalk(cache, Tokens(r, len - 1))
     IN  cache' = Ranked(IF locked THEN Unlock(Lock(walk.cache, walk.node), walk.node)
                                   ELSE walk.cache)
  /\ UNCHANGED <<held, fault>>

Admit(r, len) ==
  /\ ~fault
  /\ held[r] = NoHandle
  /\ LET walk == TreeWalk(cache, Tokens(r, len - 1))
     IN  /\ cache' = Ranked(Lock(walk.cache, walk.node))
         /\ held'  = [held EXCEPT ![r] = walk.node]
  /\ UNCHANGED fault

(* cache_req: insert, unlock the old handle, lock the new one unless the   *)
(* request has finished.                                                   *)
CacheReq(r, len, finished) ==
  /\ ~fault
  /\ held[r] # NoHandle
  /\ len >= Len(held[r])
  /\ PagesDown(len) <= Len(PageRow(cache, r))
  /\ LET new == Insert(cache, Tokens(r, len), PageRow(cache, r))
         old == Unlock(new.cache, held[r])
     IN  IF ~MayRelease(new.cache, held[r]) THEN Fail
         ELSE /\ cache' = Ranked(IF finished THEN old ELSE Lock(old, new.node))
              /\ held'  = [held EXCEPT ![r] = IF finished THEN NoHandle ELSE new.node]
              /\ UNCHANGED fault

(* evict, for a size the counter says is there.                            *)
Evict(n) ==
  /\ ~fault
  /\ n * PageSize <= cache.evictable
  /\ LET end == EvictLoop(cache, n * PageSize)
     IN  IF Size(cache, end.gone) < n * PageSize THEN Fail
         ELSE cache' = Ranked(RemoveNodes(cache, end.gone)) /\ UNCHANGED <<held, fault>>

Next ==
  \/ \E r \in Reqs : \E len \in 1..Len(Text[r]) :
        \/ \E locked \in BOOLEAN : Probe(r, len, locked)
        \/ Admit(r, len)
        \/ \E finished \in BOOLEAN : CacheReq(r, len, finished)
  \/ \E n \in 1..Cardinality(Pages) : Evict(n)

Spec == Init /\ [][Next]_vars
-----------------------------------------------------------------------------
TypeOK ==
  /\ cache.nodes \in [Nodes(cache) -> [start : Nat, pages : Seq(Pages), ref : 0..Cardinality(Reqs), ts : Nat]]
  /\ cache.evictable \in Nat /\ cache.protected \in Nat
  /\ held \in [Reqs -> Nodes(cache) \cup {Root, NoHandle}]
  /\ fault \in BOOLEAN

(* The two counters that admission control reads are the sizes of the      *)
(* nodes no request holds and of the nodes some request holds, and the     *)
(* first is what the scheduler's page-by-page view calls evictable.        *)
SizesMatch ==
  LET free == {p \in Nodes(cache) : cache.nodes[p].ref = 0}
  IN  /\ cache.evictable = Size(cache, free)
      /\ cache.protected = Size(cache, Nodes(cache) \ free)
      /\ cache.evictable = PageSize * Cardinality(Evictable(KvOf(cache)))

(* Every node is reached from the root by whole pages, and the children of *)
(* a node begin with different pages, so no child hides another in the     *)
(* children dictionary and every cached page is found again.               *)
TreeSound ==
  /\ \A p \in Nodes(cache) :
       /\ Parent(cache, p) \in Nodes(cache) \cup {Root}
       /\ Len(p) % PageSize = 0 /\ cache.nodes[p].start % PageSize = 0
       /\ Length(cache, p) = Len(cache.nodes[p].pages) * PageSize
       /\ Length(cache, p) > 0
  /\ \A p, q \in Nodes(cache) :
       p # q /\ Parent(cache, p) = Parent(cache, q)
         => LET next == cache.nodes[p].start + PageSize
            IN  SubSeq(p, 1, next) # SubSeq(q, 1, next)

(* A node is counted once for each request whose handle lies in its        *)
(* subtree, whatever splits and evictions happened since it was locked.    *)
RefsMatchHolders ==
  \A p \in Nodes(cache) :
    cache.nodes[p].ref =
      Cardinality({r \in Reqs : held[r] # NoHandle /\ p \in Path(cache, held[r])})

(* No KV page is the value of two cached prefixes.                         *)
PagesOnce ==
  \A p, q \in CachedPrefixes(cache) : PageOf(cache, p) = PageOf(cache, q) => p = q

(* The assertions of evict and lock_handle hold: what evictable_size       *)
(* promises can be evicted leaf by leaf, and no count drops below zero.    *)
NoAssertionFails == ~fault

(* The page indices of a handle stay what they were while a request keeps  *)
(* it, though other requests split its nodes and evict around it.          *)
HandlesStable ==
  [][\A r \in Reqs : held[r] # NoHandle /\ held'[r] = held[r]
       => MatchedIndices(cache', held[r]) = MatchedIndices(cache, held[r])]_vars

(* The tree of match_prefix, insert_prefix, lock_handle and evict          *)
(* implements the cache of whole pages that the scheduler relies on.       *)
Abstract == INSTANCE PrefixCache WITH kv <- KvOf(cache), held <- held
ImplementsPrefixCache == Abstract!Spec
=============================================================================
