------------------------- MODULE PrefixCache_proofs --------------------------
(***************************************************************************)
(* The counting argument of the prefix cache, for every text, page size,   *)
(* number of requests and pages, and for both caches: a page is counted    *)
(* once per handle that covers it, so eviction cannot reach a handle.      *)
(***************************************************************************)
EXTENDS PrefixCache, PrefixFacts

(* The requests that hold a handle, and their handles.                     *)
HandlesOf(f) == [r \in {q \in Reqs : f[q] # NoHandle} |-> f[r]]

(* The inductive invariant.                                                *)
CacheInv ==
  /\ held \in [Reqs -> Seq(Vocabulary) \cup {NoHandle}]
  /\ Sound(Vocabulary, kv, HandlesOf(held))

(* A request that takes a handle and one that gives it up.                 *)
LEMMA HandleTaken ==
  ASSUME NEW f \in [Reqs -> Seq(Vocabulary) \cup {NoHandle}], NEW r \in Reqs, f[r] = NoHandle,
         NEW h \in Seq(Vocabulary)
  PROVE  /\ [f EXCEPT ![r] = h] \in [Reqs -> Seq(Vocabulary) \cup {NoHandle}]
         /\ r \notin DOMAIN HandlesOf(f)
         /\ HandlesOf([f EXCEPT ![r] = h]) = With(HandlesOf(f), r, h)
<1> DEFINE g == [f EXCEPT ![r] = h]
<1>1. h # NoHandle
  BY NoHandleAssumption
<1>2. g[r] = h /\ \A q \in Reqs : q # r => g[q] = f[q]
  OBVIOUS
<1>3. {q \in Reqs : g[q] # NoHandle} = {q \in Reqs : f[q] # NoHandle} \cup {r}
  BY <1>1, <1>2
<1> QED BY <1>2, <1>3 DEF HandlesOf, With

LEMMA HandleGivenUp ==
  ASSUME NEW f \in [Reqs -> Seq(Vocabulary) \cup {NoHandle}], NEW r \in Reqs, f[r] # NoHandle,
         NEW g, g = [f EXCEPT ![r] = NoHandle]
  PROVE  /\ g \in [Reqs -> Seq(Vocabulary) \cup {NoHandle}]
         /\ g[r] = NoHandle
         /\ r \in DOMAIN HandlesOf(f) /\ HandlesOf(f)[r] = f[r]
         /\ HandlesOf(g) = Without(HandlesOf(f), r)
<1>1. g[r] = NoHandle /\ \A q \in Reqs : q # r => g[q] = f[q]
  OBVIOUS
<1>2. {q \in Reqs : g[q] # NoHandle} = {q \in Reqs : f[q] # NoHandle} \ {r}
  BY <1>1
<1> QED BY <1>1, <1>2 DEF HandlesOf, Without
-----------------------------------------------------------------------------
(* The first tokens of a request are tokens.                               *)
LEMMA TokensOf ==
  ASSUME NEW r \in Reqs, NEW len \in 0..Len(Text[r])
  PROVE  Tokens(r, len) \in Seq(Vocabulary)
<1>1. Text[r] \in Seq(Vocabulary)
  BY TextAssumption
<1> QED BY <1>1, FirstPart DEF Tokens

LEMMA AdmitKeepsSound ==
  ASSUME CacheInv, NEW r \in Reqs, NEW len \in 1..Len(Text[r]), Admit(r, len)
  PROVE  CacheInv'
<1> DEFINE h == MatchPrefix(kv, Tokens(r, len - 1))
<1>1. Tokens(r, len - 1) \in Seq(Vocabulary)
  BY TokensOf, TextAssumption
<1>2. h \in Seq(Vocabulary) /\ PagePrefixes(h) \subseteq Cached(kv)
  BY <1>1, MatchedHandle
<1>3. held[r] = NoHandle /\ kv' = LockHandle(kv, h) /\ held' = [held EXCEPT ![r] = h]
  BY DEF Admit
<1> HIDE DEF h
<1> DEFINE g == held'
<1>4. /\ g \in [Reqs -> Seq(Vocabulary) \cup {NoHandle}]
      /\ r \notin DOMAIN HandlesOf(held)
      /\ HandlesOf(g) = With(HandlesOf(held), r, h)
  <2>1. g = [held EXCEPT ![r] = h] /\ held \in [Reqs -> Seq(Vocabulary) \cup {NoHandle}]
    BY <1>3 DEF CacheInv
  <2>2. held[r] = NoHandle
    BY <1>3
  <2> HIDE DEF g
  <2> QED BY <1>2, <2>1, <2>2, HandleTaken, Zenon
<1>5. Sound(Vocabulary, LockHandle(kv, h), HandlesOf(held'))
  BY <1>2, <1>4, LockKeepsSound DEF CacheInv
<1> QED BY <1>3, <1>4, <1>5 DEF CacheInv

LEMMA CacheReqKeepsSound ==
  ASSUME CacheInv, NEW r \in Reqs, NEW len \in 1..Len(Text[r]),
         NEW finished \in BOOLEAN, CacheReq(r, len, finished)
  PROVE  CacheInv'
<1> DEFINE ids == Tokens(r, len)
           row == PageRow(kv, r)
           inserted == InsertPrefix(kv, ids, row)
           released == UnlockHandle(inserted, held[r])
           without == [held EXCEPT ![r] = NoHandle]
           h == InsertedHandle(ids)
<1>1. ids \in Seq(Vocabulary)
  BY TokensOf, TextAssumption
<1>2. /\ held[r] # NoHandle
      /\ kv' = IF finished THEN released ELSE LockHandle(released, h)
      /\ held' = [held EXCEPT ![r] = IF finished THEN NoHandle ELSE h]
      /\ held \in [Reqs -> Seq(Vocabulary) \cup {NoHandle}]
  BY DEF CacheReq, CacheInv
<1> HIDE DEF ids, row
<1>3. /\ Sound(Vocabulary, inserted, HandlesOf(held))
      /\ CacheType # "naive" => PagePrefixes(ids) \subseteq Cached(inserted)
  BY <1>1, InsertKeepsSound DEF CacheInv
<1> HIDE DEF inserted
<1>4. /\ without \in [Reqs -> Seq(Vocabulary) \cup {NoHandle}] /\ without[r] = NoHandle
      /\ r \in DOMAIN HandlesOf(held) /\ HandlesOf(held)[r] = held[r]
      /\ HandlesOf(without) = Without(HandlesOf(held), r)
  BY <1>2, HandleGivenUp, Zenon
<1>5. Sound(Vocabulary, released, HandlesOf(without)) /\ Cached(released) = Cached(inserted)
  <2> HIDE DEF without
  <2> QED BY <1>3, <1>4, UnlockKeepsSound
<1> HIDE DEF released
<1>6. CASE finished
  BY <1>2, <1>4, <1>5, <1>6 DEF CacheInv
<1>7. CASE ~finished
  <2>1. h \in Seq(Vocabulary) /\ PagePrefixes(h) \subseteq Cached(released)
    BY <1>1, <1>3, <1>5, InsertedHandleCovers, CacheTypeAssumption
  <2> HIDE DEF h
  <2>2. held' = [without EXCEPT ![r] = h] /\ kv' = LockHandle(released, h)
    BY <1>2, <1>7
  <2> HIDE DEF without
  <2> DEFINE g == held'
  <2>3. /\ g \in [Reqs -> Seq(Vocabulary) \cup {NoHandle}]
        /\ r \notin DOMAIN HandlesOf(without)
        /\ HandlesOf(g) = With(HandlesOf(without), r, h)
    <3>1. g = [without EXCEPT ![r] = h]
      BY <2>2
    <3> HIDE DEF g
    <3> QED BY <1>4, <2>1, <3>1, HandleTaken, ZenonT(40)
  <2>4. Sound(Vocabulary, LockHandle(released, h), HandlesOf(held'))
    BY <1>5, <2>1, <2>3, LockKeepsSound
  <2> QED BY <2>2, <2>3, <2>4 DEF CacheInv
<1> QED BY <1>6, <1>7

(* The invariant holds in every state of the cache.                        *)
THEOREM CacheSound == Spec => []CacheInv
<1>1. ASSUME Init PROVE CacheInv
  <2>1. /\ kv = [page |-> <<>>, ref |-> <<>>] /\ held = [r \in Reqs |-> NoHandle]
    BY <1>1 DEF Init, EmptyCache
  <2>2. DOMAIN kv = {"page", "ref"} /\ Cached(kv) = {} /\ DOMAIN kv.ref = {}
    BY <2>1 DEF Cached
  <2>3. DOMAIN HandlesOf(held) = {} /\ HandlesOf(held) \in [DOMAIN HandlesOf(held) -> Seq(Vocabulary)]
    BY <2>1 DEF HandlesOf
  <2>4. Sound(Vocabulary, kv, HandlesOf(held))
    BY <2>2, <2>3, FS_EmptySet DEF Sound
  <2> QED BY <2>1, <2>4 DEF CacheInv
<1>2. ASSUME CacheInv, [Next]_vars PROVE CacheInv'
  <2>1. CASE \E r \in Reqs : \E len \in 1..Len(Text[r]) : Admit(r, len)
    BY <1>2, <2>1, AdmitKeepsSound
  <2>2. CASE \E r \in Reqs : \E len \in 1..Len(Text[r]) :
               \E finished \in BOOLEAN : CacheReq(r, len, finished)
    BY <1>2, <2>2, CacheReqKeepsSound
  <2>3. CASE \E n \in 1..Cardinality(Pages) : Evict(n)
    BY <1>2, <2>3, EvictKeepsSound DEF Evict, CacheInv
  <2>4. CASE UNCHANGED vars
    BY <1>2, <2>4 DEF vars, CacheInv
  <2> QED BY <1>2, <2>1, <2>2, <2>3, <2>4 DEF Next
<1> QED BY <1>1, <1>2, PTL DEF Spec

(* lock_handle protects what a request holds: whatever the others insert,  *)
(* release and evict, every page of a held handle stays cached.            *)
THEOREM HandlesStayCached == Spec => []HandlesCached
<1>1. CacheInv => HandlesCached
  BY DEF CacheInv, Sound, HandlesOf, HandlesCached
<1> QED BY <1>1, CacheSound, PTL

(* The reference count of a page is the number of handles that cover it.   *)
THEOREM CountsAreHolders == Spec => []CountsMatchHolders
<1>1. \A p : Covering(HandlesOf(held), p) = Holders(p)
  BY DEF Covering, HandlesOf, Holders
<1>2. CacheInv => CountsMatchHolders
  BY <1>1 DEF CacheInv, Sound, CountsMatchHolders
<1> QED BY <1>2, CacheSound, PTL

(* A page is cached only together with all the pages before it.            *)
THEOREM CacheClosedUnderPrefix == Spec => []ClosedUnderPrefix
<1>1. CacheInv => ClosedUnderPrefix
  BY DEF CacheInv, Sound, ClosedUnderPrefix
<1> QED BY <1>1, CacheSound, PTL
=============================================================================
