----------------------------- MODULE PrefixFacts -----------------------------
(***************************************************************************)
(* Facts the proofs about the cache and the scheduler cite: about          *)
(* sequences and the elements they hold; about the sizes of finite sets    *)
(* and the sums MapThenSumSet computes over them; and what the operators   *)
(* of PrefixTree do to the prefixes, pages and counts of a cache, for      *)
(* every vocabulary, page size and both caches.                            *)
(***************************************************************************)
EXTENDS PrefixTree, FiniteSetTheorems, SequenceTheorems, TLAPS

(* Min of two integers.                                                    *)
LEMMA MinOfTwo ==
  ASSUME NEW a \in Int, NEW b \in Int
  PROVE  Min({a, b}) = IF a <= b THEN a ELSE b
<1>1. \E x \in {a, b} : \A y \in {a, b} : x <= y
  OBVIOUS
<1>2. /\ Min({a, b}) \in {a, b}
      /\ \A y \in {a, b} : Min({a, b}) <= y
  BY <1>1 DEF Min
<1> QED BY <1>2

(* Max of two integers.                                                    *)
LEMMA MaxOfTwo ==
  ASSUME NEW a \in Int, NEW b \in Int
  PROVE  Max({a, b}) = IF a <= b THEN b ELSE a
<1>1. \E x \in {a, b} : \A y \in {a, b} : x >= y
  OBVIOUS
<1>2. /\ Max({a, b}) \in {a, b}
      /\ \A y \in {a, b} : Max({a, b}) >= y
  BY <1>1 DEF Max
<1> QED BY <1>2

(* A non-empty bounded set of naturals has its Max as an element.          *)
LEMMA MaxOfBounded ==
  ASSUME NEW n \in Nat, NEW S, S \subseteq 0..n, S # {}
  PROVE  Max(S) \in S /\ \A y \in S : y <= Max(S)
<1> DEFINE T == {k \in Nat : n - k \in S}
<1>1. T # {} /\ T \subseteq Nat
  <2>1. PICK y \in S : TRUE
    OBVIOUS
  <2>2. n - y \in T
    BY <2>1
  <2> QED BY <2>2
<1>2. \E x \in T : \A y \in T : ~ (<<y, x>> \in OpToRel(<, Nat))
  <2> HIDE DEF T
  <2> QED BY <1>1, WFMin, NatLessThanWellFounded
<1>3. PICK x \in T : \A y \in T : ~ (y < x)
  BY <1>2, <1>1 DEF OpToRel
<1>4. n - x \in S /\ \A y \in S : y <= n - x
  <2>1. ASSUME NEW y \in S PROVE y <= n - x
    <3>1. n - y \in T
      OBVIOUS
    <3> QED BY <3>1, <1>3
  <2> QED BY <2>1, <1>3
<1>5. \E z \in S : \A y \in S : z >= y
  BY <1>4
<1> QED BY <1>5 DEF Max

(* SetToSeq lists every element of a finite set once.                      *)
LEMMA SetToSeqLists ==
  ASSUME NEW S, IsFiniteSet(S)
  PROVE  /\ SetToSeq(S) \in [1..Cardinality(S) -> S]
         /\ Cardinality(S) \in Nat
         /\ \A i, j \in 1..Cardinality(S) : SetToSeq(S)[i] = SetToSeq(S)[j] => i = j
         /\ \A x \in S : \E i \in 1..Cardinality(S) : SetToSeq(S)[i] = x
<1>1. Cardinality(S) \in Nat /\ ExistsBijection(1..Cardinality(S), S)
  BY FS_CardinalityType
<1>2. \E f \in [1..Cardinality(S) -> S] : IsInjective(f)
  BY <1>1 DEF ExistsBijection, Bijection, Injection
<1>3. SetToSeq(S) \in [1..Cardinality(S) -> S] /\ IsInjective(SetToSeq(S))
  BY <1>2 DEF SetToSeq
<1>4. SetToSeq(S) \in Injection(1..Cardinality(S), S)
  BY <1>3 DEF Injection
<1>5. Cardinality(1..Cardinality(S)) = Cardinality(S)
  BY <1>1, FS_Interval
<1>6. SetToSeq(S) \in Surjection(1..Cardinality(S), S)
  BY <1>4, <1>5, FS_Injection
<1> QED BY <1>1, <1>3, <1>6 DEF IsInjective, Surjection

(* What Append, Front and Tail do to the elements of a sequence.           *)
LEMMA AppendElements ==
  ASSUME NEW S, NEW s \in Seq(S), NEW x
  PROVE  ToSet(Append(s, x)) = ToSet(s) \cup {x}
  BY DEF ToSet

LEMMA FrontElements ==
  ASSUME NEW S, NEW s \in Seq(S), s # <<>>
  PROVE  /\ Front(s) \in Seq(S)
         /\ Last(s) \in S
         /\ Len(Front(s)) = Len(s) - 1
         /\ \A i \in 1..(Len(s) - 1) : Front(s)[i] = s[i]
         /\ ToSet(s) = ToSet(Front(s)) \cup {Last(s)}
<1> DEFINE n == Len(s)
           f == Front(s)
<1>1. n \in Nat /\ n >= 1 /\ DOMAIN s = 1..n /\ \A i \in 1..n : s[i] \in S
  BY ElementOfSeq
<1>2. /\ f \in Seq(S)
      /\ Len(f) = IF 1 <= n - 1 THEN (n - 1) - 1 + 1 ELSE 0
      /\ \A i \in 1..((n - 1) - 1 + 1) : f[i] = s[1 + i - 1]
  <2> HIDE DEF n
  <2>1. \A i \in 1..(n - 1) : s[i] \in S
    BY <1>1
  <2>2. n - 1 \in Int
    BY <1>1
  <2>3. Front(s) = SubSeq(s, 1, n - 1)
    BY DEF Front, n
  <2> HIDE DEF f
  <2> QED BY <2>1, <2>2, <2>3, SubSeqProperties DEF f
<1>3. Last(s) = s[n] /\ Last(s) \in S
  BY <1>1 DEF Last
<1> HIDE DEF n, f
<1>4. Len(f) = n - 1
  BY <1>1, <1>2
<1>5. ASSUME NEW i \in 1..(n - 1) PROVE f[i] = s[i]
  <2>1. i \in 1..((n - 1) - 1 + 1) /\ 1 + i - 1 = i
    BY <1>1
  <2> QED BY <1>2, <2>1
<1>6. DOMAIN f = 1..(n - 1)
  BY <1>2, <1>4
<1>7. ToSet(s) = ToSet(f) \cup {Last(s)}
  <2>1. DOMAIN s = DOMAIN f \cup {n}
    BY <1>1, <1>6
  <2> QED BY <2>1, <1>3, <1>5, <1>6 DEF ToSet
<1> QED BY <1>2, <1>3, <1>4, <1>5, <1>7, Zenon DEF f, n

LEMMA TailElements ==
  ASSUME NEW S, NEW s \in Seq(S), s # <<>>
  PROVE  /\ Tail(s) \in Seq(S)
         /\ Len(Tail(s)) = Len(s) - 1
         /\ \A i \in 1..(Len(s) - 1) : Tail(s)[i] = s[i + 1]
         /\ Head(s) = s[1]
  OBVIOUS

(* Removing one entry of a sequence without duplicates.                    *)
LEMMA RemovedElements ==
  ASSUME NEW S, NEW s \in Seq(S), NEW at \in 1..Len(s),
         \A i, j \in 1..Len(s) : s[i] = s[j] => i = j
  PROVE  LET t == SubSeq(s, 1, at - 1) \o SubSeq(s, at + 1, Len(s))
         IN  /\ t \in Seq(S)
             /\ \A i, j \in 1..Len(t) : t[i] = t[j] => i = j
             /\ ToSet(t) = ToSet(s) \ {s[at]}
<1> DEFINE t == SubSeq(s, 1, at - 1) \o SubSeq(s, at + 1, Len(s))
<1>1. /\ t \in Seq(S)
      /\ Len(t) = Len(s) - 1
      /\ \A i \in 1..Len(t) : t[i] = IF i < at THEN s[i] ELSE s[i + 1]
  <2> DEFINE a == SubSeq(s, 1, at - 1)
             b == SubSeq(s, at + 1, Len(s))
  <2>0. Len(s) \in Nat /\ \A i \in 1..Len(s) : s[i] \in S
    BY ElementOfSeq
  <2>1. /\ a \in Seq(S)
        /\ Len(a) = at - 1
        /\ \A i \in 1..(at - 1) : a[i] = s[i]
    BY <2>0, SubSeqProperties
  <2>2. /\ b \in Seq(S)
        /\ Len(b) = Len(s) - at
        /\ \A i \in 1..(Len(s) - at) : b[i] = s[at + i]
    BY <2>0, SubSeqProperties
  <2> HIDE DEF a, b
  <2>3. /\ a \o b \in Seq(S)
        /\ Len(a \o b) = Len(a) + Len(b)
        /\ \A i \in 1..(Len(a) + Len(b)) :
              (a \o b)[i] = IF i <= Len(a) THEN a[i] ELSE b[i - Len(a)]
    <3>1. a \in Seq(S) /\ b \in Seq(S)
      BY <2>1, <2>2
    <3> QED BY <3>1, ConcatProperties, Zenon
  <2>4. /\ a \o b \in Seq(S)
        /\ Len(a \o b) = Len(s) - 1
        /\ \A i \in 1..(Len(s) - 1) : (a \o b)[i] = IF i < at THEN s[i] ELSE s[i + 1]
    <3> DEFINE c == a \o b
    <3>1. /\ c \in Seq(S)
          /\ Len(c) = Len(a) + Len(b)
          /\ \A i \in 1..(Len(a) + Len(b)) : c[i] = IF i <= Len(a) THEN a[i] ELSE b[i - Len(a)]
      BY <2>3, Zenon DEF c
    <3> HIDE DEF c
    <3>2. Len(c) = Len(s) - 1
      BY <2>0, <2>1, <2>2, <3>1
    <3>3. ASSUME NEW i \in 1..(Len(s) - 1)
          PROVE  c[i] = IF i < at THEN s[i] ELSE s[i + 1]
      <4>1. CASE i < at
        <5>1. i \in 1..(Len(a) + Len(b)) /\ i <= Len(a) /\ i \in 1..(at - 1)
          BY <2>0, <2>1, <2>2, <4>1
        <5> QED BY <2>1, <3>1, <4>1, <5>1
      <4>2. CASE i >= at
        <5>1. /\ i \in 1..(Len(a) + Len(b)) /\ ~(i <= Len(a)) /\ ~(i < at)
              /\ i - Len(a) \in 1..(Len(s) - at)
              /\ at + (i - Len(a)) = i + 1
          BY <2>0, <2>1, <2>2, <4>2
        <5>2. c[i] = b[i - Len(a)]
          BY <3>1, <5>1
        <5>3. b[i - Len(a)] = s[at + (i - Len(a))]
          BY <2>2, <5>1
        <5> QED BY <5>1, <5>2, <5>3
      <4> QED BY <2>0, <4>1, <4>2
    <3> QED BY <3>1, <3>2, <3>3, Zenon DEF c
  <2> QED BY <2>4, Zenon DEF a, b
<1> HIDE DEF t
<1>2. \A i, j \in 1..Len(t) : t[i] = t[j] => i = j
  BY <1>1, SMTT(30)
<1>3. ToSet(t) \subseteq ToSet(s) \ {s[at]}
  BY <1>1 DEF ToSet
<1>4. ASSUME NEW k \in 1..Len(s), s[k] # s[at] PROVE s[k] \in ToSet(t)
  <2>1. CASE k < at
    <3>1. k \in 1..Len(t) /\ t[k] = s[k]
      BY <1>1, <2>1
    <3> QED BY <3>1, <1>1 DEF ToSet
  <2>2. CASE k > at
    <3>1. k - 1 \in 1..Len(t) /\ t[k - 1] = s[k]
      BY <1>1, <2>2
    <3> QED BY <3>1, <1>1 DEF ToSet
  <2> QED BY <1>4, <2>1, <2>2
<1>5. ToSet(s) \ {s[at]} \subseteq ToSet(t)
  BY <1>4 DEF ToSet
<1> QED BY <1>1, <1>2, <1>3, <1>5 DEF t

(* The rest of a sequence without duplicates from index k on.              *)
LEMMA SuffixElements ==
  ASSUME NEW S, NEW s \in Seq(S), NEW k \in 1..(Len(s) + 1),
         \A i, j \in 1..Len(s) : s[i] = s[j] => i = j
  PROVE  LET t == SubSeq(s, k, Len(s))
         IN  /\ t \in Seq(S)
             /\ \A i, j \in 1..Len(t) : t[i] = t[j] => i = j
             /\ ToSet(t) = {s[i] : i \in k..Len(s)}
<1> DEFINE m == Len(s)
           t == SubSeq(s, k, m)
<1>1. m \in Nat /\ k \in Nat \ {0} /\ k <= m + 1
  BY LenProperties
<1>2. \A i \in k..m : i \in 1..m /\ s[i] \in S
  <2> HIDE DEF m
  <2>1. \A i \in k..m : i \in 1..m
    BY <1>1
  <2> QED BY <2>1, ElementOfSeq DEF m
<1>3. \A i, j \in 1..m : s[i] = s[j] => i = j
  OBVIOUS
<1> HIDE DEF m
<1>4. /\ t \in Seq(S)
      /\ Len(t) = IF k <= m THEN m - k + 1 ELSE 0
      /\ \A i \in 1..(m - k + 1) : t[i] = s[k + i - 1]
  BY <1>1, <1>2, SubSeqProperties
<1> HIDE DEF t
<1>5. Len(t) = m - k + 1 /\ DOMAIN t = 1..(m - k + 1)
  BY <1>1, <1>4
<1>6. \A i \in 1..(m - k + 1) : k + i - 1 \in k..m
  BY <1>1
<1>7. \A i, j \in 1..Len(t) : t[i] = t[j] => i = j
  <2>1. ASSUME NEW i \in 1..Len(t), NEW j \in 1..Len(t), t[i] = t[j] PROVE i = j
    <3>1. i \in 1..(m - k + 1) /\ j \in 1..(m - k + 1)
      BY <1>5
    <3>2. s[k + i - 1] = s[k + j - 1]
      BY <1>4, <2>1, <3>1
    <3>3. k + i - 1 = k + j - 1
      BY <1>2, <1>3, <1>6, <3>1, <3>2
    <3> QED BY <1>1, <3>1, <3>3
  <2> QED BY <2>1
<1>8. ToSet(t) \subseteq {s[i] : i \in k..m}
  BY <1>4, <1>5, <1>6 DEF ToSet
<1>9. ASSUME NEW i \in k..m PROVE s[i] \in ToSet(t)
  <2>1. i - k + 1 \in 1..(m - k + 1) /\ k + (i - k + 1) - 1 = i
    BY <1>1
  <2> QED BY <1>4, <1>5, <2>1 DEF ToSet
<1>10. ToSet(t) = {s[i] : i \in k..m}
  BY <1>8, <1>9
<1> QED BY <1>4, <1>7, <1>10, Zenon DEF t, m

(* A sequence is a sequence of its own elements.                           *)
LEMMA SeqOfOwnElements ==
  ASSUME NEW S, NEW s \in Seq(S)
  PROVE  s \in Seq(ToSet(s))
  BY DEF ToSet
-----------------------------------------------------------------------------
(* Sums over finite sets, as MapThenSumSet computes them, and what they    *)
(* bound.                                                                  *)

(* Induction over the subsets of a finite set: a family that holds {} and  *)
(* every set whose proper parts with one element less it holds, holds all. *)
LEMMA SubsetInduction ==
  ASSUME NEW S, IsFiniteSet(S), NEW Good, {} \in Good,
         \A T \in SUBSET S : T # {} /\ (\A x \in T : T \ {x} \in Good) => T \in Good
  PROVE  \A T \in SUBSET S : T \in Good
<1> DEFINE Bad == {T \in SUBSET S : T \notin Good}
           R == StrictSubsetOrdering(S)
<1>1. SUFFICES ASSUME Bad # {} PROVE FALSE
  OBVIOUS
<1>2. Bad \subseteq FiniteSubsetsOf(S)
  BY FS_FiniteSubsetsOfFinite
<1>3. PICK T \in Bad : \A U \in Bad : ~(<<U, T>> \in R)
  <2> HIDE DEF Bad
  <2> QED BY <1>1, <1>2, FS_StrictSubsetOrderingWellFounded, WFMin
<1>4. T # {} /\ T \in SUBSET S /\ T \notin Good
  BY <1>3
<1>5. ASSUME NEW x \in T PROVE T \ {x} \in Good
  <2>1. <<T \ {x}, T>> \in R /\ T \ {x} \in SUBSET S
    BY <1>4 DEF StrictSubsetOrdering
  <2> QED BY <1>3, <2>1
<1> QED BY <1>4, <1>5

(* Over each x of T a bar of cells lo[x] + 1 .. hi[x].                     *)
Bars(lo, hi, T) == {z \in T \X Nat : lo[z[1]] < z[2] /\ z[2] <= hi[z[1]]}

LEMMA OneBar ==
  ASSUME NEW x, NEW a \in Nat, NEW b \in Nat, a <= b
  PROVE  /\ IsFiniteSet({x} \X ((a + 1)..b))
         /\ Cardinality({x} \X ((a + 1)..b)) = b - a
<1>1. IsFiniteSet((a + 1)..b) /\ Cardinality((a + 1)..b) = b - a
  <2> DEFINE n == a + 1
  <2>1. n \in Int /\ (IF n > b THEN 0 ELSE b - n + 1) = b - a
    OBVIOUS
  <2> HIDE DEF n
  <2>2. IsFiniteSet(n..b) /\ Cardinality(n..b) = b - a
    BY <2>1, FS_Interval
  <2> QED BY <2>2 DEF n
<1>2. IsFiniteSet({x}) /\ Cardinality({x}) = 1
  BY FS_Singleton
<1>3. b - a \in Nat
  OBVIOUS
<1> DEFINE X == {x}
           Y == (a + 1)..b
<1>4. IsFiniteSet(X \X Y) /\ Cardinality(X \X Y) = Cardinality(X) * Cardinality(Y)
  BY <1>1, <1>2, FS_Product
<1> QED BY <1>1, <1>2, <1>3, <1>4

LEMMA BarsSplit ==
  ASSUME NEW S, NEW lo \in [S -> Nat], NEW hi \in [S -> Nat], \A x \in S : lo[x] <= hi[x],
         NEW T \in SUBSET S, NEW x \in T, IsFiniteSet(Bars(lo, hi, T \ {x}))
  PROVE  /\ IsFiniteSet(Bars(lo, hi, T))
         /\ Cardinality(Bars(lo, hi, T)) = Cardinality(Bars(lo, hi, T \ {x})) + (hi[x] - lo[x])
<1> DEFINE B == Bars(lo, hi, T \ {x})
           C == {x} \X ((lo[x] + 1)..hi[x])
<1>1. lo[x] \in Nat /\ hi[x] \in Nat /\ lo[x] <= hi[x]
  OBVIOUS
<1>2. IsFiniteSet(C) /\ Cardinality(C) = hi[x] - lo[x]
  BY <1>1, OneBar
<1>3. Bars(lo, hi, T) = B \cup C
  <2>1. ASSUME NEW z \in Bars(lo, hi, T) PROVE z \in B \cup C
    <3>1. z \in T \X Nat /\ lo[z[1]] < z[2] /\ z[2] <= hi[z[1]]
      BY DEF Bars
    <3>2. CASE z[1] = x
      <4>1. z[2] \in (lo[x] + 1)..hi[x] /\ z = <<x, z[2]>>
        BY <1>1, <3>1, <3>2
      <4> QED BY <4>1
    <3>3. CASE z[1] # x
      <4>1. z \in (T \ {x}) \X Nat
        BY <3>1, <3>3
      <4> QED BY <3>1, <4>1 DEF Bars
    <3> QED BY <3>2, <3>3
  <2>2. ASSUME NEW z \in B PROVE z \in Bars(lo, hi, T)
    BY DEF Bars
  <2>3. ASSUME NEW z \in C PROVE z \in Bars(lo, hi, T)
    <3>1. PICK k \in (lo[x] + 1)..hi[x] : z = <<x, k>>
      OBVIOUS
    <3>2. k \in Nat /\ lo[x] < k /\ k <= hi[x]
      BY <1>1
    <3> QED BY <3>1, <3>2 DEF Bars
  <2> QED BY <2>1, <2>2, <2>3
<1>4. B \cap C = {}
  BY DEF Bars
<1> HIDE DEF B, C
<1>5. Cardinality(B \cap C) = 0
  BY <1>4, FS_EmptySet
<1>6. IsFiniteSet(B \cup C)
      /\ Cardinality(B \cup C) = Cardinality(B) + Cardinality(C) - Cardinality(B \cap C)
  BY <1>2, FS_Union DEF B
<1>7. Cardinality(B) \in Nat
  BY FS_CardinalityType DEF B
<1>8. Cardinality(B \cup C) = Cardinality(B) + (hi[x] - lo[x])
  BY <1>1, <1>2, <1>5, <1>6, <1>7
<1> QED BY <1>3, <1>6, <1>8 DEF B

LEMMA BarsFinite ==
  ASSUME NEW S, IsFiniteSet(S), NEW lo \in [S -> Nat], NEW hi \in [S -> Nat],
         \A x \in S : lo[x] <= hi[x]
  PROVE  \A T \in SUBSET S : /\ IsFiniteSet(Bars(lo, hi, T))
                             /\ Cardinality(Bars(lo, hi, T)) \in Nat
<1> DEFINE Good == {T \in SUBSET S : IsFiniteSet(Bars(lo, hi, T))}
<1>1. {} \in Good
  <2>1. Bars(lo, hi, {}) = {}
    BY DEF Bars
  <2> QED BY <2>1, FS_EmptySet
<1>2. ASSUME NEW T \in SUBSET S, T # {}, \A x \in T : T \ {x} \in Good
      PROVE  T \in Good
  <2>1. PICK x \in T : TRUE
    BY <1>2
  <2>2. IsFiniteSet(Bars(lo, hi, T \ {x}))
    BY <1>2
  <2> QED BY <2>2, BarsSplit
<1>3. \A T \in SUBSET S : T \in Good
  <2> HIDE DEF Good
  <2> QED BY <1>1, <1>2, SubsetInduction
<1> QED BY <1>3, FS_CardinalityType

(* The function MapThenSumSet is the value of.                             *)
First(s) == CHOOSE x \in s : TRUE
IsSum(f, S, g) ==
  g = [s \in SUBSET S |-> IF s = {} THEN 0 ELSE f[First(s)] + g[s \ {First(s)}]]

LEMMA SumExists ==
  ASSUME NEW S, IsFiniteSet(S), NEW f \in [S -> Nat]
  PROVE  \E g : IsSum(f, S, g)
<1> DEFINE zero == [x \in S |-> 0]
           g    == [s \in SUBSET S |-> Cardinality(Bars(zero, f, s))]
<1>1. zero \in [S -> Nat] /\ \A x \in S : zero[x] <= f[x]
  OBVIOUS
<1>2. ASSUME NEW s \in SUBSET S, s # {}
      PROVE  g[s] = f[First(s)] + g[s \ {First(s)}]
  <2>1. First(s) \in s /\ s \ {First(s)} \in SUBSET S
    BY <1>2 DEF First
  <2>2. /\ IsFiniteSet(Bars(zero, f, s \ {First(s)}))
        /\ Cardinality(Bars(zero, f, s \ {First(s)})) \in Nat
    BY <1>1, <2>1, BarsFinite
  <2>3. Cardinality(Bars(zero, f, s))
          = Cardinality(Bars(zero, f, s \ {First(s)})) + (f[First(s)] - zero[First(s)])
    <3> HIDE DEF zero
    <3> QED BY <1>1, <2>1, <2>2, BarsSplit
  <2>4. zero[First(s)] = 0 /\ f[First(s)] \in Nat
    BY <2>1
  <2> HIDE DEF zero
  <2> QED BY <2>1, <2>2, <2>3, <2>4
<1>3. g[{}] = 0
  <2>1. Bars(zero, f, {}) = {}
    BY DEF Bars
  <2> QED BY <2>1, FS_EmptySet
<1>4. g = [s \in SUBSET S |-> IF s = {} THEN 0 ELSE f[First(s)] + g[s \ {First(s)}]]
  <2>1. g = [s \in SUBSET S |-> g[s]]
    OBVIOUS
  <2> HIDE DEF g
  <2> QED BY <1>2, <1>3, <2>1
<1> QED BY <1>4 DEF IsSum

(* If m cells of each bar cost at most what the sum counts for it plus c,  *)
(* all bars cost at most the sum plus c for each of them.                  *)
LEMMA SumCovers ==
  ASSUME NEW S, IsFiniteSet(S), NEW lo \in [S -> Nat], NEW hi \in [S -> Nat],
         NEW f \in [S -> Nat], NEW g, IsSum(f, S, g), NEW m \in Nat, NEW c \in Nat,
         \A x \in S : lo[x] <= hi[x] /\ m * (hi[x] - lo[x]) <= f[x] + c
  PROVE  /\ g[S] \in Nat
         /\ m * Cardinality(Bars(lo, hi, S)) <= g[S] + c * Cardinality(S)
<1> DEFINE Fits(T) == /\ g[T] \in Nat
                      /\ m * Cardinality(Bars(lo, hi, T)) <= g[T] + c * Cardinality(T)
           Good == {T \in SUBSET S : Fits(T)}
<1>1. {} \in Good
  <2>1. Bars(lo, hi, {}) = {} /\ g[{}] = 0
    BY DEF Bars, IsSum
  <2>2. Cardinality({}) = 0
    BY FS_EmptySet
  <2>3. m * 0 = 0 /\ c * 0 = 0
    OBVIOUS
  <2>4. m * Cardinality(Bars(lo, hi, {})) = 0 /\ c * Cardinality({}) = 0
    BY <2>1, <2>2, <2>3
  <2> QED BY <2>1, <2>4
<1>2. ASSUME NEW T \in SUBSET S, T # {}, \A x \in T : T \ {x} \in Good
      PROVE  T \in Good
  <2> DEFINE x == First(T)
             a == Cardinality(Bars(lo, hi, T \ {x}))
             d == hi[x] - lo[x]
             k == Cardinality(T \ {x})
             v == g[T \ {x}]
  <2>1. x \in T /\ T \ {x} \in SUBSET S
    BY <1>2 DEF First
  <2>2. v \in Nat /\ m * a <= v + c * k
    BY <1>2, <2>1
  <2>3. g[T] = f[x] + v
    BY <1>2 DEF IsSum
  <2>4. a \in Nat /\ IsFiniteSet(Bars(lo, hi, T \ {x}))
    BY <2>1, BarsFinite
  <2>5. Cardinality(Bars(lo, hi, T)) = a + d
    BY <2>1, <2>4, BarsSplit
  <2>6. k \in Nat /\ Cardinality(T) = k + 1
    <3>1. IsFiniteSet(T) /\ IsFiniteSet(T \ {x})
      BY <2>1, FS_Subset
    <3>2. k \in Nat /\ Cardinality(T \ {x}) = Cardinality(T) - 1 /\ Cardinality(T) \in Nat
      BY <2>1, <3>1, FS_RemoveElement, FS_CardinalityType
    <3> QED BY <3>2
  <2>7. d \in Nat /\ m * d <= f[x] + c /\ f[x] \in Nat
    BY <2>1
  <2> HIDE DEF x, a, d, k, v
  <2>8. m * (a + d) = m * a + m * d /\ c * (k + 1) = c * k + c
        /\ m * a \in Nat /\ m * d \in Nat /\ c * k \in Nat
    BY <2>4, <2>6, <2>7
  <2>9. m * Cardinality(Bars(lo, hi, T)) <= g[T] + c * Cardinality(T) /\ g[T] \in Nat
    <3> DEFINE p == m * a
               q == m * d
               r == c * k
    <3>1. m * Cardinality(Bars(lo, hi, T)) = p + q /\ c * Cardinality(T) = r + c
      BY <2>5, <2>6, <2>8
    <3>2. p \in Nat /\ q \in Nat /\ r \in Nat /\ p <= v + r /\ q <= f[x] + c
      BY <2>2, <2>7, <2>8
    <3> HIDE DEF p, q, r
    <3> QED BY <2>2, <2>3, <2>7, <3>1, <3>2
  <2> QED BY <2>9
<1>3. \A T \in SUBSET S : T \in Good
  <2> HIDE DEF Good
  <2> QED BY <1>1, <1>2, SubsetInduction
<1> QED BY <1>3

(* The size of a set inside three others, and of an image.                 *)
LEMMA UnionBound ==
  ASSUME NEW A, NEW B, NEW C, NEW D, IsFiniteSet(A), IsFiniteSet(B), IsFiniteSet(C),
         D \subseteq (A \cup B) \cup C
  PROVE  /\ IsFiniteSet(D) /\ Cardinality(D) \in Nat /\ Cardinality(A) \in Nat
         /\ Cardinality(B) \in Nat /\ Cardinality(C) \in Nat
         /\ Cardinality(D) <= Cardinality(A) + Cardinality(B) + Cardinality(C)
<1>1. /\ IsFiniteSet(A \cup B)
      /\ Cardinality(A \cup B) = Cardinality(A) + Cardinality(B) - Cardinality(A \cap B)
  BY FS_Union
<1>2. /\ IsFiniteSet((A \cup B) \cup C)
      /\ Cardinality((A \cup B) \cup C)
           = Cardinality(A \cup B) + Cardinality(C) - Cardinality((A \cup B) \cap C)
  BY <1>1, FS_Union
<1>3. IsFiniteSet(D) /\ Cardinality(D) <= Cardinality((A \cup B) \cup C)
  BY <1>2, FS_Subset
<1>4. IsFiniteSet(A \cap B) /\ IsFiniteSet((A \cup B) \cap C)
  BY <1>1, FS_Intersection
<1>5. /\ Cardinality(A) \in Nat /\ Cardinality(B) \in Nat /\ Cardinality(C) \in Nat
      /\ Cardinality(D) \in Nat /\ Cardinality(A \cap B) \in Nat
      /\ Cardinality((A \cup B) \cap C) \in Nat
  BY <1>3, <1>4, FS_CardinalityType
<1> QED BY <1>1, <1>2, <1>3, <1>5

LEMMA ImageCount ==
  ASSUME NEW S, IsFiniteSet(S), NEW f, DOMAIN f = S
  PROVE  IsFiniteSet({f[x] : x \in S}) /\ Cardinality({f[x] : x \in S}) <= Cardinality(S)
<1> DEFINE T == {f[x] : x \in S}
           g == [x \in S |-> f[x]]
<1>1. g \in Surjection(S, T)
  BY DEF Surjection
<1> HIDE DEF g, T
<1>2. IsFiniteSet(T) /\ Cardinality(T) <= Cardinality(S)
  BY <1>1, FS_Surjection
<1> QED BY <1>2 DEF T
-----------------------------------------------------------------------------
(* Prefixes, pages and locks.                                              *)

(* Token sequences that consist of one or more whole pages.                *)
Aligned(V) == {p \in Seq(V) : \E k \in Nat \ {0} : Len(p) = k * PageSize}

(* Token sequences cut at a page boundary, the empty one included.         *)
Whole(h) == \E k \in Nat : Len(h) = k * PageSize

(* The holders whose handle covers p, when f gives the handle of each.     *)
Covering(f, p) == {r \in DOMAIN f : IsPrefix(p, f[r])}

(* Handles after r got handle h, or gave up its own.                       *)
With(f, r, h) == [q \in DOMAIN f \cup {r} |-> IF q = r THEN h ELSE f[q]]
Without(f, r) == [q \in DOMAIN f \ {r} |-> f[q]]

(* A cache c and the handles f that are locked in it agree: each operator  *)
(* of PrefixTree preserves this by itself.                                 *)
Sound(V, c, f) ==
  /\ DOMAIN c = {"page", "ref"} /\ DOMAIN c.ref = Cached(c)
  /\ Cached(c) \subseteq Aligned(V)
  /\ IsFiniteSet(DOMAIN f)
  /\ f \in [DOMAIN f -> Seq(V)]
  /\ \A r \in DOMAIN f : PagePrefixes(f[r]) \subseteq Cached(c)
  /\ \A p \in Cached(c) : c.ref[p] = Cardinality(Covering(f, p))
  /\ \A p \in Cached(c) : PagePrefixes(p) \subseteq Cached(c)
  /\ CacheType = "naive" => Cached(c) = {}
-----------------------------------------------------------------------------
(* Products with the page size keep the order of the factors.              *)
LEMMA PageProducts ==
  ASSUME NEW j \in Nat, NEW k \in Nat
  PROVE  /\ j * PageSize \in Nat
         /\ j * PageSize <= k * PageSize <=> j <= k
         /\ j > 0 => j * PageSize > 0
<1>1. PageSize \in Nat /\ PageSize > 0
  BY PageSizeAssumption
<1>2. j * PageSize \in Nat
  BY <1>1
<1>3. ASSUME j <= k PROVE j * PageSize <= k * PageSize
  <2>1. PICK d \in Nat : k = j + d
    <3>1. k - j \in Nat /\ k = j + (k - j)
      BY <1>3
    <3> QED BY <3>1
  <2>2. k * PageSize = j * PageSize + d * PageSize /\ d * PageSize \in Nat
    BY <2>1, <1>1
  <2> QED BY <2>2, <1>2
<1>4. ASSUME k < j PROVE k * PageSize < j * PageSize
  <2>1. PICK d \in Nat : j = k + d + 1
    <3>1. j - k - 1 \in Nat /\ j = k + (j - k - 1) + 1
      BY <1>4
    <3> QED BY <3>1
  <2>2. j * PageSize = k * PageSize + d * PageSize + PageSize /\ d * PageSize \in Nat
    BY <2>1, <1>1
  <2>3. k * PageSize \in Nat
    BY <1>1
  <2> QED BY <2>2, <2>3, <1>1
<1>5. ASSUME j > 0 PROVE j * PageSize > 0
  <2>1. PICK d \in Nat : j = d + 1
    <3>1. j - 1 \in Nat /\ j = (j - 1) + 1
      BY <1>5
    <3> QED BY <3>1
  <2>2. j * PageSize = d * PageSize + PageSize /\ d * PageSize \in Nat
    BY <2>1, <1>1
  <2> QED BY <2>2, <1>1
<1>6. k * PageSize \in Nat
  BY <1>1
<1>7. CASE j <= k
  BY <1>7, <1>2, <1>3, <1>5, <1>6
<1>8. CASE k < j
  BY <1>8, <1>2, <1>4, <1>5, <1>6
<1> QED BY <1>7, <1>8

(* PagesDown(n) is the largest number of whole pages in n tokens.          *)
LEMMA WholePages ==
  ASSUME NEW n \in Nat
  PROVE  /\ PagesDown(n) \in Nat
         /\ \A k \in Nat : k * PageSize <= n <=> k <= PagesDown(n)
<1> DEFINE d == PagesDown(n)
<1>1. PageSize \in Nat /\ PageSize > 0
  BY PageSizeAssumption
<1>2. d \in Nat /\ PageSize * d <= n /\ n < PageSize * d + PageSize
  <2>1. ASSUME NEW p \in Nat, p > 0
        PROVE  n \div p \in Nat /\ p * (n \div p) <= n /\ n < p * (n \div p) + p
    <3>1. n \div p \in Nat
      BY <2>1
    <3>2. p * (n \div p) <= n
      BY <2>1
    <3>3. n < p * (n \div p) + p
      BY <2>1
    <3> QED BY <3>1, <3>2, <3>3
  <2> QED BY <1>1, <2>1 DEF PagesDown
<1> HIDE DEF d
<1>3. d * PageSize <= n /\ n < (d + 1) * PageSize /\ d * PageSize \in Nat
  <2>1. PageSize * d = d * PageSize /\ (d + 1) * PageSize = d * PageSize + PageSize
        /\ d * PageSize \in Nat
    BY <1>1, <1>2
  <2> DEFINE x == d * PageSize
             y == PageSize * d
             z == (d + 1) * PageSize
  <2>2. x \in Nat /\ y = x /\ z = x + PageSize /\ y <= n /\ n < y + PageSize
    BY <1>2, <2>1
  <2> HIDE DEF x, y, z
  <2>3. x <= n /\ n < z /\ x \in Nat
    BY <2>2, <1>1
  <2> QED BY <2>3 DEF x, z
<1>4. ASSUME NEW k \in Nat PROVE k * PageSize <= n <=> k <= d
  <2>1. CASE k <= d
    <3>1. k * PageSize <= d * PageSize /\ k * PageSize \in Nat
      BY <2>1, <1>2, PageProducts
    <3>2. k * PageSize <= n
      <4> HIDE DEF d
      <4> DEFINE x == k * PageSize
                 y == d * PageSize
      <4>1. x \in Nat /\ y \in Nat /\ x <= y /\ y <= n
        BY <3>1, <1>3
      <4> HIDE DEF x, y
      <4>2. x <= n
        BY <4>1
      <4> QED BY <4>2 DEF x
    <3> QED BY <3>2, <2>1
  <2>2. CASE d < k
    <3>1. d + 1 \in Nat /\ d + 1 <= k
      BY <2>2, <1>2
    <3>2. (d + 1) * PageSize <= k * PageSize /\ k * PageSize \in Nat /\ (d + 1) * PageSize \in Nat
      BY <3>1, PageProducts
    <3>3. ~(k * PageSize <= n)
      <4> DEFINE x == k * PageSize
                 y == (d + 1) * PageSize
      <4>1. x \in Nat /\ y \in Nat /\ y <= x /\ n < y
        BY <3>2, <1>3
      <4> HIDE DEF x, y
      <4>2. ~(x <= n)
        BY <4>1
      <4> QED BY <4>2 DEF x
    <3> QED BY <3>3, <2>2, <1>2
  <2> QED BY <2>1, <2>2, <1>2
<1> QED BY <1>2, <1>4 DEF d

(* PagesUp(n) is the smallest number of pages that holds n tokens.         *)
LEMMA RoundedPages ==
  ASSUME NEW n \in Nat
  PROVE  /\ PagesUp(n) \in Nat
         /\ \A k \in Nat : n <= k * PageSize <=> PagesUp(n) <= k
<1> DEFINE m == n + PageSize - 1
           e == PagesUp(n)
<1>1. PageSize \in Nat /\ PageSize > 0 /\ m \in Nat
  BY PageSizeAssumption
<1>2. e = PagesDown(m)
  BY DEF PagesUp, PagesDown
<1>3. e \in Nat /\ \A j \in Nat : j * PageSize <= m <=> j <= e
  BY <1>1, <1>2, WholePages
<1> HIDE DEF e
<1>4. ASSUME NEW k \in Nat PROVE n <= k * PageSize <=> e <= k
  <2> DEFINE x == k * PageSize
             y == (k + 1) * PageSize
  <2>1. x \in Nat /\ y = x + PageSize
    BY <1>1
  <2>2. y <= m <=> k + 1 <= e
    BY <1>3
  <2> HIDE DEF x, y
  <2>3. n <= x <=> ~(y <= m)
    BY <1>1, <2>1
  <2>4. n <= x <=> e <= k
    BY <1>3, <2>2, <2>3
  <2> QED BY <2>4 DEF x
<1> QED BY <1>3, <1>4 DEF e

(* Whole pages round to themselves, and both roundings are monotone.       *)
LEMMA WholePagesRound ==
  ASSUME NEW k \in Nat
  PROVE  k * PageSize \in Nat /\ PagesDown(k * PageSize) = k /\ PagesUp(k * PageSize) = k
<1> DEFINE n == k * PageSize
<1>1. n \in Nat /\ \A j \in Nat : j * PageSize <= n <=> j <= k
  BY PageProducts
<1>2. \A j \in Nat : n <= j * PageSize <=> k <= j
  BY PageProducts
<1> HIDE DEF n
<1>3. PagesDown(n) = k
  <2>1. PagesDown(n) \in Nat /\ \A j \in Nat : j <= PagesDown(n) <=> j <= k
    BY <1>1, WholePages
  <2>2. k <= PagesDown(n) /\ PagesDown(n) <= k
    BY <2>1
  <2> QED BY <2>1, <2>2
<1>4. PagesUp(n) = k
  <2>1. PagesUp(n) \in Nat /\ \A j \in Nat : PagesUp(n) <= j <=> k <= j
    BY <1>1, <1>2, RoundedPages
  <2>2. k <= PagesUp(n) /\ PagesUp(n) <= k
    BY <2>1
  <2> QED BY <2>1, <2>2
<1> QED BY <1>1, <1>3, <1>4 DEF n

LEMMA PagesGrow ==
  ASSUME NEW m \in Nat, NEW n \in Nat, m <= n
  PROVE  PagesUp(m) <= PagesUp(n) /\ PagesDown(m) <= PagesUp(n)
<1>1. PagesUp(n) \in Nat /\ n <= PagesUp(n) * PageSize
  BY RoundedPages
<1>2. PagesUp(n) * PageSize \in Nat
  BY <1>1, PageProducts
<1> DEFINE x == PagesUp(n) * PageSize
<1> HIDE DEF x
<1>3. m <= x
  BY <1>1, <1>2 DEF x
<1>4. PagesUp(m) <= PagesUp(n)
  BY <1>1, <1>3, RoundedPages DEF x
<1>5. PagesDown(m) <= PagesUp(n)
  <2>1. PagesDown(m) \in Nat /\ PagesDown(m) * PageSize <= m
    BY WholePages
  <2> DEFINE y == PagesDown(m) * PageSize
  <2>2. y \in Nat
    BY <2>1, PageProducts
  <2> HIDE DEF y
  <2>3. y <= x
    BY <1>2, <1>3, <2>1, <2>2 DEF x, y
  <2> QED BY <1>1, <2>1, <2>3, PageProducts DEF x, y
<1> QED BY <1>4, <1>5
-----------------------------------------------------------------------------
(* A prefix agrees with its sequence position by position.                 *)
LEMMA PrefixPositions ==
  ASSUME NEW V, NEW s \in Seq(V), NEW t \in Seq(V)
  PROVE  IsPrefix(s, t) <=> Len(s) <= Len(t) /\ \A i \in 1..Len(s) : s[i] = t[i]
<1>1. ASSUME Len(s) <= Len(t)
      PROVE  (SubSeq(s, 1, Len(s)) = SubSeq(t, 1, Len(s))) <=> \A i \in 1..Len(s) : s[i] = t[i]
  <2>1. /\ SubSeq(s, 1, Len(s)) \in Seq(V) /\ SubSeq(t, 1, Len(s)) \in Seq(V)
        /\ Len(SubSeq(s, 1, Len(s))) = Len(s) /\ Len(SubSeq(t, 1, Len(s))) = Len(s)
        /\ \A i \in 1..Len(s) : SubSeq(s, 1, Len(s))[i] = s[i] /\ SubSeq(t, 1, Len(s))[i] = t[i]
    BY <1>1
  <2>2. ASSUME \A i \in 1..Len(s) : s[i] = t[i]
        PROVE  SubSeq(s, 1, Len(s)) = SubSeq(t, 1, Len(s))
    BY <2>1, <2>2, SeqEqual
  <2> QED BY <2>1, <2>2
<1> QED BY <1>1 DEF IsPrefix

LEMMA PrefixTransitive ==
  ASSUME NEW V, NEW s \in Seq(V), NEW t \in Seq(V), NEW u \in Seq(V),
         IsPrefix(s, t), IsPrefix(t, u)
  PROVE  IsPrefix(s, u)
BY PrefixPositions

(* Two prefixes of one sequence are prefixes of each other.                *)
LEMMA PrefixesCompare ==
  ASSUME NEW V, NEW s \in Seq(V), NEW t \in Seq(V), NEW u \in Seq(V),
         IsPrefix(s, u), IsPrefix(t, u), Len(s) <= Len(t)
  PROVE  IsPrefix(s, t)
BY PrefixPositions

LEMMA AppendExtends ==
  ASSUME NEW V, NEW s \in Seq(V), NEW x \in V
  PROVE  /\ Append(s, x) \in Seq(V) /\ Len(Append(s, x)) = Len(s) + 1
         /\ IsPrefix(s, Append(s, x))
<1> DEFINE t == Append(s, x)
<1>1. /\ t \in Seq(V) /\ Len(t) = Len(s) + 1 /\ Len(s) \in Nat
      /\ \A i \in 1..Len(s) : t[i] = s[i]
  BY AppendProperties, LenProperties
<1> HIDE DEF t
<1>2. IsPrefix(s, t)
  BY <1>1, PrefixPositions
<1> QED BY <1>1, <1>2 DEF t

(* What SubSeq from the first position returns.                            *)
LEMMA FirstPart ==
  ASSUME NEW V, NEW s \in Seq(V), NEW n \in 0..Len(s)
  PROVE  /\ SubSeq(s, 1, n) \in Seq(V)
         /\ Len(SubSeq(s, 1, n)) = n
         /\ IsPrefix(SubSeq(s, 1, n), s)
<1>1. /\ SubSeq(s, 1, n) \in Seq(V) /\ Len(SubSeq(s, 1, n)) = n
      /\ \A i \in 1..n : SubSeq(s, 1, n)[i] = s[i]
  OBVIOUS
<1>2. n \in Nat /\ n <= Len(s)
  OBVIOUS
<1> DEFINE p == SubSeq(s, 1, n)
<1>3. p \in Seq(V) /\ Len(p) = n /\ \A i \in 1..n : p[i] = s[i]
  BY <1>1
<1> HIDE DEF p
<1>4. IsPrefix(p, s)
  BY <1>2, <1>3, PrefixPositions
<1> QED BY <1>3, <1>4 DEF p

(* The page prefixes of a sequence are its prefixes of whole pages.        *)
LEMMA PagePrefixesAre ==
  ASSUME NEW V, NEW h \in Seq(V)
  PROVE  \A p : p \in PagePrefixes(h) <=> p \in Aligned(V) /\ IsPrefix(p, h)
<1>1. Len(h) \in Nat
  OBVIOUS
<1>2. ASSUME NEW p, p \in PagePrefixes(h) PROVE p \in Aligned(V) /\ IsPrefix(p, h)
  <2>1. PICK k \in 1..PagesDown(Len(h)) : p = SubSeq(h, 1, k * PageSize)
    BY <1>2 DEF PagePrefixes
  <2>2. k \in Nat \ {0} /\ k * PageSize \in Nat /\ k * PageSize <= Len(h)
    BY <1>1, WholePages, PageProducts
  <2>3. /\ p \in Seq(V) /\ Len(p) = k * PageSize /\ IsPrefix(p, h)
    BY <2>1, <2>2, FirstPart
  <2> QED BY <2>2, <2>3 DEF Aligned
<1>3. ASSUME NEW p \in Aligned(V), IsPrefix(p, h) PROVE p \in PagePrefixes(h)
  <2>1. PICK k \in Nat \ {0} : Len(p) = k * PageSize
    BY DEF Aligned
  <2>2. p \in Seq(V) /\ Len(p) <= Len(h) /\ SubSeq(p, 1, Len(p)) = SubSeq(h, 1, Len(p))
    BY <1>3 DEF Aligned, IsPrefix
  <2>3. p = SubSeq(p, 1, Len(p))
    BY <2>2
  <2>4. k \in 1..PagesDown(Len(h))
    BY <1>1, <2>1, <2>2, WholePages
  <2> QED BY <2>1, <2>2, <2>3, <2>4 DEF PagePrefixes
<1> QED BY <1>2, <1>3
-----------------------------------------------------------------------------
(* The handle match_prefix returns is a prefix of what was asked for, cut  *)
(* at a page boundary; all its pages are cached, and no longer prefix has  *)
(* all pages cached.                                                       *)
LEMMA MatchedHandle ==
  ASSUME NEW V, NEW c, NEW ids \in Seq(V)
  PROVE  \E m \in 0..PagesDown(Len(ids)) :
           /\ Len(MatchPrefix(c, ids)) = m * PageSize
           /\ MatchPrefix(c, ids) = SubSeq(ids, 1, m * PageSize)
           /\ MatchPrefix(c, ids) \in Seq(V)
           /\ IsPrefix(MatchPrefix(c, ids), ids)
           /\ PagePrefixes(MatchPrefix(c, ids)) \subseteq Cached(c)
           /\ \A k \in 0..PagesDown(Len(ids)) :
                k <= m <=> \A j \in 1..k : SubSeq(ids, 1, j * PageSize) \in Cached(c)
<1> DEFINE d == PagesDown(Len(ids))
           hits == {k \in 0..d : \A j \in 1..k : SubSeq(ids, 1, j * PageSize) \in Cached(c)}
           m == Max(hits)
           h == SubSeq(ids, 1, m * PageSize)
<1>1. Len(ids) \in Nat /\ d \in Nat
  BY WholePages
<1>2. m \in hits /\ \A k \in hits : k <= m
  <2>1. hits \subseteq 0..d /\ 0 \in hits
    BY <1>1
  <2> HIDE DEF hits
  <2> QED BY <1>1, <2>1, MaxOfBounded
<1>3. m \in Nat /\ m <= d /\ \A j \in 1..m : SubSeq(ids, 1, j * PageSize) \in Cached(c)
  BY <1>1, <1>2
<1>3a. \A k \in 0..d : k <= m <=> \A j \in 1..k : SubSeq(ids, 1, j * PageSize) \in Cached(c)
  <2>1. ASSUME NEW k \in 0..d, k <= m
        PROVE  \A j \in 1..k : SubSeq(ids, 1, j * PageSize) \in Cached(c)
    <3>1. \A j \in 1..k : j \in 1..m
      BY <1>1, <1>3, <2>1
    <3> QED BY <1>3, <3>1
  <2>2. ASSUME NEW k \in 0..d, \A j \in 1..k : SubSeq(ids, 1, j * PageSize) \in Cached(c)
        PROVE  k <= m
    BY <1>2, <2>2
  <2> QED BY <2>1, <2>2
<1> HIDE DEF m
<1>4. m * PageSize \in 0..Len(ids)
  BY <1>1, <1>3, WholePages, PageProducts
<1>5. h \in Seq(V) /\ Len(h) = m * PageSize /\ IsPrefix(h, ids)
  BY <1>4, FirstPart
<1>6. MatchPrefix(c, ids) = h
  BY DEF MatchPrefix, m
<1> HIDE DEF h
<1>7. ASSUME NEW p \in PagePrefixes(h) PROVE p \in Cached(c)
  <2>1. p \in Aligned(V) /\ IsPrefix(p, h)
    BY <1>5, PagePrefixesAre
  <2>2. PICK k \in Nat \ {0} : Len(p) = k * PageSize
    BY <2>1 DEF Aligned
  <2>3. p \in Seq(V) /\ IsPrefix(p, ids) /\ Len(p) <= Len(h)
    BY <2>1, <1>5, PrefixTransitive DEF Aligned, IsPrefix
  <2>4. k \in 1..m
    BY <2>2, <2>3, <1>3, <1>5, PageProducts
  <2>5. p = SubSeq(p, 1, Len(p)) /\ SubSeq(p, 1, Len(p)) = SubSeq(ids, 1, Len(p))
    BY <2>3 DEF IsPrefix
  <2> QED BY <1>3, <2>2, <2>4, <2>5
<1>8. m \in 0..d
  BY <1>1, <1>3
<1>9. h = SubSeq(ids, 1, m * PageSize)
  BY DEF h
<1> QED BY <1>3a, <1>5, <1>6, <1>7, <1>8, <1>9

(* The handle insert_prefix returns covers whole pages of what it cached.  *)
LEMMA InsertedHandleCovers ==
  ASSUME NEW V, NEW ids \in Seq(V)
  PROVE  /\ InsertedHandle(ids) \in Seq(V)
         /\ IsPrefix(InsertedHandle(ids), ids) /\ Whole(InsertedHandle(ids))
         /\ PagePrefixes(InsertedHandle(ids)) \subseteq PagePrefixes(ids)
         /\ CacheType = "naive" => PagePrefixes(InsertedHandle(ids)) = {}
<1>1. InsertedHandle(ids) \in Seq(V) /\ IsPrefix(InsertedHandle(ids), ids)
  <2>1. CASE CacheType = "naive"
    <3> DEFINE e == InsertedHandle(ids)
    <3>1. e = <<>>
      BY <2>1 DEF InsertedHandle
    <3>2. e \in Seq(V) /\ Len(e) = 0
      BY <3>1
    <3> HIDE DEF e
    <3>3. Len(e) <= Len(ids) /\ \A i \in 1..Len(e) : e[i] = ids[i]
      BY <3>2
    <3>4. IsPrefix(e, ids)
      BY <3>2, <3>3, PrefixPositions, Zenon
    <3> QED BY <3>2, <3>4 DEF e
  <2>2. CASE CacheType # "naive"
    <3>1. Len(ids) \in Nat /\ PagesDown(Len(ids)) \in Nat
      BY WholePages
    <3>2. PagesDown(Len(ids)) * PageSize \in 0..Len(ids)
      BY <3>1, WholePages, PageProducts
    <3> QED BY <2>2, <3>2, FirstPart DEF InsertedHandle
  <2> QED BY <2>1, <2>2
<1>2. PagePrefixes(InsertedHandle(ids)) \subseteq PagePrefixes(ids)
  <2>1. SUFFICES ASSUME NEW p \in PagePrefixes(InsertedHandle(ids)) PROVE p \in PagePrefixes(ids)
    OBVIOUS
  <2>2. p \in Aligned(V) /\ IsPrefix(p, InsertedHandle(ids))
    BY <1>1, PagePrefixesAre
  <2>3. IsPrefix(p, ids)
    BY <1>1, <2>2, PrefixTransitive DEF Aligned
  <2> QED BY <2>2, <2>3, PagePrefixesAre
<1>3. ASSUME CacheType = "naive" PROVE PagePrefixes(InsertedHandle(ids)) = {}
  <2>1. InsertedHandle(ids) = <<>>
    BY <1>3 DEF InsertedHandle
  <2>2. ASSUME NEW p \in PagePrefixes(InsertedHandle(ids)) PROVE FALSE
    <3>0. p \in Aligned(V) /\ IsPrefix(p, InsertedHandle(ids))
      BY <1>1, PagePrefixesAre, Zenon
    <3>1. p \in Aligned(V) /\ Len(p) <= 0
      BY <2>1, <3>0 DEF IsPrefix
    <3>2. PICK k \in Nat \ {0} : Len(p) = k * PageSize
      BY <3>1 DEF Aligned
    <3>3. k * PageSize > 0
      BY <3>2, PageProducts
    <3> QED BY <3>1, <3>2, <3>3
  <2> QED BY <2>1, <2>2
<1>4. Whole(InsertedHandle(ids))
  <2>1. CASE CacheType = "naive"
    <3>1. Len(InsertedHandle(ids)) = 0
      BY <2>1 DEF InsertedHandle
    <3>2. 0 = 0 * PageSize
      BY PageSizeAssumption
    <3> QED BY <3>1, <3>2 DEF Whole
  <2>2. CASE CacheType # "naive"
    <3>1. Len(ids) \in Nat /\ PagesDown(Len(ids)) \in Nat
      BY WholePages
    <3>2. PagesDown(Len(ids)) * PageSize \in 0..Len(ids)
      BY <3>1, WholePages, PageProducts
    <3>3. Len(InsertedHandle(ids)) = PagesDown(Len(ids)) * PageSize
      BY <2>2, <3>2, FirstPart DEF InsertedHandle
    <3> QED BY <3>1, <3>3 DEF Whole
  <2> QED BY <2>1, <2>2
<1> QED BY <1>1, <1>2, <1>3, <1>4
-----------------------------------------------------------------------------
(* The holders of a prefix are finitely many.                              *)
LEMMA CoveringFinite ==
  ASSUME NEW f, IsFiniteSet(DOMAIN f), NEW p
  PROVE  IsFiniteSet(Covering(f, p)) /\ Cardinality(Covering(f, p)) \in Nat
<1>1. Covering(f, p) \subseteq DOMAIN f
  BY DEF Covering
<1> QED BY <1>1, FS_Subset, FS_CardinalityType

(* The parts of Sound, for lemmas that take only some of them.             *)
LEMMA SoundParts ==
  ASSUME NEW V, NEW c, NEW f, Sound(V, c, f)
  PROVE  /\ DOMAIN c = {"page", "ref"} /\ DOMAIN c.ref = Cached(c)
         /\ Cached(c) \subseteq Aligned(V) /\ IsFiniteSet(DOMAIN f)
         /\ f \in [DOMAIN f -> Seq(V)]
         /\ \A r \in DOMAIN f : f[r] \in Seq(V) /\ PagePrefixes(f[r]) \subseteq Cached(c)
         /\ \A p \in Cached(c) : c.ref[p] = Cardinality(Covering(f, p))
         /\ \A p \in Cached(c) : PagePrefixes(p) \subseteq Cached(c)
         /\ CacheType = "naive" => Cached(c) = {}
BY DEF Sound

(* Locking a handle for a holder that has none.                            *)
LEMMA LockKeepsSound ==
  ASSUME NEW V, NEW c, NEW f, Sound(V, c, f), NEW r, r \notin DOMAIN f,
         NEW h \in Seq(V), PagePrefixes(h) \subseteq Cached(c)
  PROVE  /\ Sound(V, LockHandle(c, h), With(f, r, h))
         /\ Cached(LockHandle(c, h)) = Cached(c) /\ LockHandle(c, h).page = c.page
<1> DEFINE d == LockHandle(c, h)
           g == With(f, r, h)
<1>0. /\ DOMAIN c = {"page", "ref"} /\ DOMAIN c.ref = Cached(c)
      /\ Cached(c) \subseteq Aligned(V) /\ IsFiniteSet(DOMAIN f)
      /\ \A q \in DOMAIN f : f[q] \in Seq(V) /\ PagePrefixes(f[q]) \subseteq Cached(c)
      /\ \A p \in Cached(c) : c.ref[p] = Cardinality(Covering(f, p))
      /\ \A p \in Cached(c) : PagePrefixes(p) \subseteq Cached(c)
      /\ CacheType = "naive" => Cached(c) = {}
  BY SoundParts
<1>1. /\ DOMAIN d = {"page", "ref"} /\ DOMAIN d.ref = Cached(d) /\ Cached(d) = Cached(c)
      /\ d.page = c.page
      /\ \A p \in Cached(c) : d.ref[p] = IF IsPrefix(p, h) THEN c.ref[p] + 1 ELSE c.ref[p]
  BY <1>0 DEF LockHandle, Cached
<1>2. /\ DOMAIN g = DOMAIN f \cup {r} /\ g[r] = h
      /\ \A q \in DOMAIN f : q # r /\ g[q] = f[q]
      /\ IsFiniteSet(DOMAIN g) /\ g \in [DOMAIN g -> Seq(V)]
  BY <1>0, FS_AddElement DEF With
<1> HIDE DEF d, g
<1>3. \A q \in DOMAIN g : PagePrefixes(g[q]) \subseteq Cached(d)
  BY <1>0, <1>1, <1>2
<1>4. ASSUME NEW p \in Cached(d) PROVE d.ref[p] = Cardinality(Covering(g, p))
  <2>1. c.ref[p] = Cardinality(Covering(f, p)) /\ p \in Cached(c)
    BY <1>0, <1>1
  <2>2. CASE IsPrefix(p, h)
    <3>1. Covering(g, p) = Covering(f, p) \cup {r} /\ r \notin Covering(f, p)
      BY <1>2, <2>2 DEF Covering
    <3>2. Cardinality(Covering(g, p)) = Cardinality(Covering(f, p)) + 1
      BY <1>0, <3>1, CoveringFinite, FS_AddElement, ZenonT(40)
    <3> QED BY <1>1, <2>1, <2>2, <3>2
  <2>3. CASE ~IsPrefix(p, h)
    <3>1. Covering(g, p) = Covering(f, p)
      BY <1>2, <2>3 DEF Covering
    <3> QED BY <1>1, <2>1, <2>3, <3>1
  <2> QED BY <2>2, <2>3
<1>5. Sound(V, d, g)
  BY <1>0, <1>1, <1>2, <1>3, <1>4 DEF Sound
<1> QED BY <1>1, <1>5 DEF d, g

(* Unlocking the handle of a holder that gives it up.                      *)
LEMMA UnlockKeepsSound ==
  ASSUME NEW V, NEW c, NEW f, Sound(V, c, f), NEW r \in DOMAIN f
  PROVE  /\ Sound(V, UnlockHandle(c, f[r]), Without(f, r))
         /\ Cached(UnlockHandle(c, f[r])) = Cached(c) /\ UnlockHandle(c, f[r]).page = c.page
         /\ MayUnlock(c, f[r])
<1> DEFINE h == f[r]
           d == UnlockHandle(c, h)
           g == Without(f, r)
<1>0. /\ DOMAIN c = {"page", "ref"} /\ DOMAIN c.ref = Cached(c)
      /\ Cached(c) \subseteq Aligned(V) /\ IsFiniteSet(DOMAIN f)
      /\ \A q \in DOMAIN f : f[q] \in Seq(V) /\ PagePrefixes(f[q]) \subseteq Cached(c)
      /\ \A p \in Cached(c) : c.ref[p] = Cardinality(Covering(f, p))
      /\ \A p \in Cached(c) : PagePrefixes(p) \subseteq Cached(c)
      /\ CacheType = "naive" => Cached(c) = {}
  BY SoundParts, ZenonT(40)
<1>1. /\ DOMAIN d = {"page", "ref"} /\ DOMAIN d.ref = Cached(d) /\ Cached(d) = Cached(c)
      /\ d.page = c.page
      /\ \A p \in Cached(c) : d.ref[p] = IF IsPrefix(p, h) THEN c.ref[p] - 1 ELSE c.ref[p]
  BY <1>0 DEF UnlockHandle, Cached
<1>2. /\ DOMAIN g = DOMAIN f \ {r}
      /\ \A q \in DOMAIN g : g[q] = f[q]
      /\ IsFiniteSet(DOMAIN g) /\ g \in [DOMAIN g -> Seq(V)]
  BY <1>0, FS_RemoveElement DEF Without
<1> HIDE DEF d, g
<1>3. \A q \in DOMAIN g : PagePrefixes(g[q]) \subseteq Cached(d)
  BY <1>0, <1>1, <1>2
<1>4. ASSUME NEW p \in Cached(d) PROVE d.ref[p] = Cardinality(Covering(g, p))
  <2>1. c.ref[p] = Cardinality(Covering(f, p)) /\ p \in Cached(c)
    BY <1>0, <1>1
  <2>2. CASE IsPrefix(p, h)
    <3>1. Covering(g, p) = Covering(f, p) \ {r} /\ r \in Covering(f, p)
      BY <1>2, <2>2 DEF Covering
    <3>2. Cardinality(Covering(g, p)) = Cardinality(Covering(f, p)) - 1
      BY <1>0, <3>1, CoveringFinite, FS_RemoveElement, ZenonT(40)
    <3> QED BY <1>1, <2>1, <2>2, <3>2
  <2>3. CASE ~IsPrefix(p, h)
    <3>1. Covering(g, p) = Covering(f, p)
      BY <1>2, <2>3 DEF Covering
    <3> QED BY <1>1, <2>1, <2>3, <3>1
  <2> QED BY <2>2, <2>3
<1>5. Sound(V, d, g)
  BY <1>0, <1>1, <1>2, <1>3, <1>4 DEF Sound
<1>6. ASSUME NEW p \in PagePrefixes(h) PROVE p \in Cached(c) /\ c.ref[p] > 0
  <2>1. p \in Cached(c) /\ IsPrefix(p, h)
    BY <1>0, PagePrefixesAre
  <2>2. r \in Covering(f, p)
    BY <2>1 DEF Covering
  <2>3. Cardinality(Covering(f, p)) # 0 /\ Cardinality(Covering(f, p)) \in Nat
    BY <1>0, <2>2, CoveringFinite, FS_EmptySet
  <2> QED BY <1>0, <2>1, <2>3
<1> QED BY <1>1, <1>5, <1>6 DEF d, g, h, MayUnlock

(* Inserting: what is cached anew is covered by no handle.                 *)
LEMMA InsertKeepsSound ==
  ASSUME NEW V, NEW c, NEW f, Sound(V, c, f), NEW ids \in Seq(V), NEW row
  PROVE  /\ Sound(V, InsertPrefix(c, ids, row), f)
         /\ CacheType # "naive" => PagePrefixes(ids) \subseteq Cached(InsertPrefix(c, ids, row))
<1>1. CASE CacheType = "naive"
  BY <1>1 DEF InsertPrefix
<1>2. CASE CacheType # "naive"
  <2> DEFINE d == InsertPrefix(c, ids, row)
  <2>1. /\ DOMAIN d = {"page", "ref"} /\ DOMAIN d.ref = Cached(d)
        /\ Cached(d) = Cached(c) \cup PagePrefixes(ids)
        /\ \A p \in Cached(d) : d.ref[p] = IF p \in Cached(c) THEN c.ref[p] ELSE 0
    BY <1>2 DEF InsertPrefix, Cached
  <2> HIDE DEF d
  <2>2. /\ \A p \in Cached(c) : c.ref[p] = Cardinality(Covering(f, p))
        /\ \A p \in Cached(c) : PagePrefixes(p) \subseteq Cached(c)
        /\ \A q \in DOMAIN f : f[q] \in Seq(V) /\ PagePrefixes(f[q]) \subseteq Cached(c)
        /\ f \in [DOMAIN f -> Seq(V)] /\ IsFiniteSet(DOMAIN f)
        /\ Cached(c) \subseteq Aligned(V)
    BY SoundParts, ZenonT(40)
  <2>3. \A p \in PagePrefixes(ids) : p \in Aligned(V) /\ IsPrefix(p, ids)
    BY PagePrefixesAre
  <2>4. ASSUME NEW p \in PagePrefixes(ids), p \notin Cached(c) PROVE Covering(f, p) = {}
    <3>1. SUFFICES ASSUME NEW q \in DOMAIN f, IsPrefix(p, f[q]) PROVE FALSE
      BY DEF Covering
    <3>2. p \in PagePrefixes(f[q])
      BY <3>1, <2>2, <2>3, PagePrefixesAre
    <3> QED BY <3>1, <3>2, <2>2, <2>4
  <2>5. \A p \in Cached(d) : d.ref[p] = Cardinality(Covering(f, p))
    BY <2>1, <2>2, <2>4, FS_EmptySet
  <2>6. ASSUME NEW p \in PagePrefixes(ids) PROVE PagePrefixes(p) \subseteq PagePrefixes(ids)
    <3>1. SUFFICES ASSUME NEW q \in PagePrefixes(p) PROVE q \in PagePrefixes(ids)
      OBVIOUS
    <3>2. p \in Seq(V) /\ IsPrefix(p, ids)
      BY <2>3 DEF Aligned
    <3>3. q \in Aligned(V) /\ IsPrefix(q, p)
      BY <3>2, PagePrefixesAre
    <3>4. IsPrefix(q, ids)
      BY <3>2, <3>3, PrefixTransitive DEF Aligned
    <3> QED BY <3>3, <3>4, PagePrefixesAre
  <2>7. Sound(V, d, f)
    BY <1>2, <2>1, <2>2, <2>3, <2>5, <2>6 DEF Sound
  <2> QED BY <1>2, <2>1, <2>7 DEF d
<1> QED BY <1>1, <1>2

(* Evicting: a prefix that leaves is covered by no handle, and whatever    *)
(* extends it leaves with it.                                              *)
LEMMA EvictKeepsSound ==
  ASSUME NEW V, NEW c, NEW f, Sound(V, c, f), NEW n, NEW E \in Evictions(c, n)
  PROVE  Sound(V, EvictPrefixes(c, E), f)
<1> DEFINE d == EvictPrefixes(c, E)
<1>1. /\ E \subseteq Evictable(c)
      /\ \A p \in E : \A q \in Cached(c) : IsPrefix(p, q) => q \in E
  BY DEF Evictions
<1>2. /\ DOMAIN d = {"page", "ref"} /\ DOMAIN d.ref = Cached(d)
      /\ Cached(d) = Cached(c) \ E
      /\ \A p \in Cached(d) : d.ref[p] = c.ref[p]
  BY DEF EvictPrefixes, Cached
<1> HIDE DEF d
<1>3. /\ \A p \in Cached(c) : c.ref[p] = Cardinality(Covering(f, p))
      /\ \A p \in Cached(c) : PagePrefixes(p) \subseteq Cached(c)
      /\ \A q \in DOMAIN f : f[q] \in Seq(V) /\ PagePrefixes(f[q]) \subseteq Cached(c)
      /\ f \in [DOMAIN f -> Seq(V)] /\ IsFiniteSet(DOMAIN f)
      /\ Cached(c) \subseteq Aligned(V)
      /\ CacheType = "naive" => Cached(c) = {}
  BY SoundParts, ZenonT(40)
<1>4. ASSUME NEW q \in DOMAIN f PROVE PagePrefixes(f[q]) \subseteq Cached(d)
  <2>1. SUFFICES ASSUME NEW p \in PagePrefixes(f[q]), p \in E PROVE FALSE
    BY <1>2, <1>3, <1>4
  <2>2. IsPrefix(p, f[q])
    BY <1>3, <1>4, <2>1, PagePrefixesAre
  <2>3. q \in Covering(f, p)
    BY <1>4, <2>2 DEF Covering
  <2>4. Cardinality(Covering(f, p)) = 0
    BY <1>1, <1>3, <2>1 DEF Evictable
  <2>5. Covering(f, p) = {}
    BY <1>3, <2>4, CoveringFinite, FS_EmptySet
  <2> QED BY <2>3, <2>5
<1>5. ASSUME NEW p \in Cached(d) PROVE PagePrefixes(p) \subseteq Cached(d)
  <2>1. SUFFICES ASSUME NEW q \in PagePrefixes(p), q \in E PROVE FALSE
    BY <1>2, <1>3, <1>5
  <2>2. IsPrefix(q, p)
    BY <1>2, <1>3, <1>5, PagePrefixesAre DEF Aligned
  <2> QED BY <1>1, <1>2, <2>1, <2>2
<1>6. Sound(V, d, f)
  BY <1>2, <1>3, <1>4, <1>5 DEF Sound
<1> QED BY <1>6 DEF d
=============================================================================
