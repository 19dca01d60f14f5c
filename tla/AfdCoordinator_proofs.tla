------------------------ MODULE AfdCoordinator_proofs ------------------------
(***************************************************************************)
(* Theorems about the AFD coordinator and its workers (AfdPipeline), for   *)
(* any number of lanes, requests, rows and pages, any depth of the         *)
(* pipeline and prompts and answers of any length: the coordinator's       *)
(* ledger of rows and pages balances, every answer ends once, an abort is  *)
(* final; and while no client disconnects every worker's rows are as long  *)
(* as the commands it is sent expect, and every client is sent the tokens  *)
(* of its own request in order.                                            *)
(*                                                                         *)
(* The coordinator launches steps before it has the tokens of the steps in *)
(* flight, and frees a request while later steps of it are in flight.  The *)
(* argument: an entry in flight is current, that is of the generation of   *)
(* its row, only if its request still holds that row (Flying); a request   *)
(* is in one lane at most, which has counted just the tokens its client    *)
(* was sent (Served).  Whoever ends an answer frees the request and gives  *)
(* its row a new generation, so the entries behind are not current and     *)
(* bring nothing.                                                          *)
(*                                                                         *)
(* A worker runs behind the lane that commands it.  The commands on their  *)
(* way to it lead, one by one, from what its store holds to what the lane  *)
(* believes it holds (Track), and each fits the rows it finds.  So do the  *)
(* contents: what a step in flight is to bring is the next token of the    *)
(* request it names (CourseInv, ComeInv).                                  *)
(***************************************************************************)
EXTENDS AfdPipeline, FiniteSetTheorems, SequenceTheorems, WellFoundedInduction, TLAPS

Folded == INSTANCE FoldFacts WITH Op <- TryAddOne

-----------------------------------------------------------------------------
(* Sums over finite sets, as MapThenSumSet computes them.                  *)
First(s) == CHOOSE x \in s : TRUE
IsSum(f, S, g) ==
  g = [s \in SUBSET S |-> IF s = {} THEN 0 ELSE f[First(s)] + g[s \ {First(s)}]]

LEMMA SetInduction ==
  ASSUME NEW S, IsFiniteSet(S), NEW Good, {} \in Good,
         \A T \in SUBSET S : T # {} /\ (\A x \in T : T \ {x} \in Good) => T \in Good
  PROVE  \A T \in SUBSET S : T \in Good
<1> DEFINE Bad == {T \in SUBSET S : T \notin Good}
           R == StrictSubsetOrdering(S)
<1>1. SUFFICES ASSUME Bad # {} PROVE FALSE
  OBVIOUS
<1>2. Bad \subseteq FiniteSubsetsOf(S)
  BY FS_FiniteSubsetsOfFinite
<1>3. PICK T \in Bad : \A U \in Bad : ~(<<U, T>> \in R)
  <2> HIDE DEF Bad
  <2> QED BY <1>1, <1>2, FS_StrictSubsetOrderingWellFounded, WFMin
<1>4. T # {} /\ T \in SUBSET S /\ T \notin Good
  BY <1>3
<1>5. ASSUME NEW x \in T PROVE T \ {x} \in Good
  <2>1. <<T \ {x}, T>> \in R /\ T \ {x} \in SUBSET S
    BY <1>4 DEF StrictSubsetOrdering
  <2> QED BY <1>3, <2>1
<1> QED BY <1>4, <1>5

LEMMA SumParts ==
  ASSUME NEW f, NEW S, NEW g, IsSum(f, S, g)
  PROVE  /\ g[{}] = 0
         /\ \A s \in SUBSET S : s # {} => First(s) \in s /\ g[s] = f[First(s)] + g[s \ {First(s)}]
<1>1. \A s \in SUBSET S : g[s] = IF s = {} THEN 0 ELSE f[First(s)] + g[s \ {First(s)}]
  BY Zenon DEF IsSum
<1>2. {} \in SUBSET S
  OBVIOUS
<1>3. ASSUME NEW s \in SUBSET S, s # {} PROVE First(s) \in s
  BY <1>3 DEF First
<1> QED BY <1>1, <1>2, <1>3

(* The value depends on the summands alone.                                *)
LEMMA SumsAgree ==
  ASSUME NEW S, NEW T, NEW f, NEW h, NEW g, NEW k, IsSum(f, S, g), IsSum(h, T, k),
         NEW U, IsFiniteSet(U), U \subseteq S, U \subseteq T, \A x \in U : f[x] = h[x]
  PROVE  \A s \in SUBSET U : g[s] = k[s]
<1> DEFINE Good == {s \in SUBSET U : g[s] = k[s]}
<1>1. /\ g[{}] = 0
      /\ \A s \in SUBSET S : s # {} => First(s) \in s /\ g[s] = f[First(s)] + g[s \ {First(s)}]
  BY SumParts
<1>2. /\ k[{}] = 0
      /\ \A s \in SUBSET T : s # {} => First(s) \in s /\ k[s] = h[First(s)] + k[s \ {First(s)}]
  BY SumParts
<1>3. {} \in Good
  BY <1>1, <1>2
<1>4. ASSUME NEW s \in SUBSET U, s # {}, \A x \in s : s \ {x} \in Good PROVE s \in Good
  BY <1>1, <1>2, <1>4
<1> HIDE DEF Good
<1>5. \A s \in SUBSET U : s \in Good
  BY <1>3, <1>4, SetInduction
<1> QED BY <1>5 DEF Good

LEMMA SumExists ==
  ASSUME NEW S, IsFiniteSet(S), NEW f
  PROVE  \E g : IsSum(f, S, g)
<1> DEFINE Good == {T \in SUBSET S : \E g : IsSum(f, T, g)}
           SumOf(T) == CHOOSE g : IsSum(f, T, g)
<1>1. {} \in Good
  <2> DEFINE g == [s \in SUBSET {} |-> 0]
  <2>1. g = [s \in SUBSET {} |-> IF s = {} THEN 0 ELSE f[First(s)] + g[s \ {First(s)}]]
    BY \A s \in SUBSET {} : s = {}
  <2> HIDE DEF g
  <2>2. IsSum(f, {}, g)
    BY <2>1 DEF IsSum
  <2> QED BY <2>2
<1>2. ASSUME NEW T \in SUBSET S, T # {}, \A x \in T : T \ {x} \in Good PROVE T \in Good
  <2> DEFINE c == First(T)
             h == SumOf(T \ {c})
             g == [s \in SUBSET T |->
                     IF s = {} THEN 0 ELSE f[First(s)] + SumOf(s \ {First(s)})[s \ {First(s)}]]
  <2>1. ASSUME NEW x \in T PROVE IsSum(f, T \ {x}, SumOf(T \ {x}))
    BY <1>2
  <2>2. ASSUME NEW s \in SUBSET T, s # T
        PROVE  /\ IsSum(f, s, SumOf(s)) /\ IsFiniteSet(s)
    <3>1. PICK x \in T : x \notin s
      BY <2>2
    <3>2. s \subseteq T \ {x} /\ IsSum(f, T \ {x}, SumOf(T \ {x}))
      BY <2>1, <3>1
    <3> DEFINE k == SumOf(T \ {x})
               j == [u \in SUBSET s |-> k[u]]
    <3> HIDE DEF SumOf
    <3>3. \A u \in SUBSET s : u # {} => First(u) \in u /\ k[u] = f[First(u)] + k[u \ {First(u)}]
      BY <3>2, SumParts
    <3>4. k[{}] = 0
      BY <3>2, SumParts
    <3> HIDE DEF k
    <3>5. ASSUME NEW u \in SUBSET s
          PROVE  j[u] = IF u = {} THEN 0 ELSE f[First(u)] + j[u \ {First(u)}]
      BY <3>3, <3>4
    <3>6. j = [u \in SUBSET s |-> j[u]]
      OBVIOUS
    <3> HIDE DEF j
    <3>7. IsSum(f, s, j)
      BY <3>5, <3>6 DEF IsSum
    <3>8. IsSum(f, s, SumOf(s))
      BY <3>7 DEF SumOf
    <3> QED BY <3>8, FS_Subset
  <2> HIDE DEF SumOf
  <2>3. ASSUME NEW s \in SUBSET T, s # T PROVE g[s] = SumOf(s)[s]
    <3>1. IsSum(f, s, SumOf(s))
      BY <2>2, <2>3
    <3>2. CASE s = {}
      BY <3>1, <3>2, SumParts
    <3>3. CASE s # {}
      <4> DEFINE u == s \ {First(s)}
      <4>1. First(s) \in s /\ SumOf(s)[s] = f[First(s)] + SumOf(s)[u]
        <5> DEFINE k == SumOf(s)
        <5>0. IsSum(f, s, k)
          BY <3>1
        <5> HIDE DEF k
        <5>1. /\ k[{}] = 0
              /\ \A v \in SUBSET s : v # {} => First(v) \in v /\ k[v] = f[First(v)] + k[v \ {First(v)}]
          BY <5>0, SumParts
        <5> QED BY <3>3, <5>1 DEF k
      <4>2. u \in SUBSET T /\ u # T /\ u \subseteq s /\ g[s] = f[First(s)] + SumOf(u)[u]
        BY <2>3, <3>3, <4>1
      <4> HIDE DEF u, g
      <4>3. IsSum(f, u, SumOf(u)) /\ IsFiniteSet(u)
        BY <2>2, <4>2
      <4>4. SumOf(u)[u] = SumOf(s)[u]
        BY <3>1, <4>2, <4>3, SumsAgree
      <4> QED BY <4>1, <4>2, <4>4
    <3> QED BY <3>2, <3>3
  <2>4. ASSUME NEW s \in SUBSET T
        PROVE  g[s] = IF s = {} THEN 0 ELSE f[First(s)] + g[s \ {First(s)}]
    <3>1. CASE s = {}
      BY <3>1
    <3>2. CASE s # {}
      <4>1. First(s) \in s
        BY <3>2 DEF First
      <4>2. s \ {First(s)} \in SUBSET T /\ s \ {First(s)} # T
        BY <4>1
      <4>3. g[s] = f[First(s)] + SumOf(s \ {First(s)})[s \ {First(s)}]
        BY <3>2
      <4> HIDE DEF g
      <4> QED BY <2>3, <3>2, <4>2, <4>3
    <3> QED BY <3>1, <3>2
  <2>5. g = [s \in SUBSET T |-> g[s]]
    OBVIOUS
  <2> HIDE DEF g
  <2>6. IsSum(f, T, g)
    BY <2>4, <2>5 DEF IsSum
  <2> QED BY <1>2, <2>6
<1> HIDE DEF Good
<1>3. S \in Good
  <2>1. \A T \in SUBSET S : T \in Good
    BY <1>1, <1>2, SetInduction
  <2> QED BY <2>1
<1> QED BY <1>3 DEF Good

LEMMA SumIsInt ==
  ASSUME NEW S, IsFiniteSet(S), NEW f \in [S -> Int], NEW g, IsSum(f, S, g)
  PROVE  \A s \in SUBSET S : g[s] \in Int
<1> DEFINE Good == {s \in SUBSET S : g[s] \in Int}
<1>1. /\ g[{}] = 0
      /\ \A s \in SUBSET S : s # {} => First(s) \in s /\ g[s] = f[First(s)] + g[s \ {First(s)}]
  BY SumParts
<1>2. {} \in Good
  BY <1>1
<1>3. ASSUME NEW s \in SUBSET S, s # {}, \A x \in s : s \ {x} \in Good PROVE s \in Good
  <2>1. First(s) \in S /\ g[s] = f[First(s)] + g[s \ {First(s)}] /\ g[s \ {First(s)}] \in Int
    BY <1>1, <1>3
  <2>2. f[First(s)] \in Int
    BY <2>1
  <2> QED BY <2>1, <2>2
<1> HIDE DEF Good
<1>4. \A s \in SUBSET S : s \in Good
  BY <1>2, <1>3, SetInduction
<1> QED BY <1>4 DEF Good

(* Any element may be taken out first.                                     *)
LEMMA SumWithout ==
  ASSUME NEW S, IsFiniteSet(S), NEW f \in [S -> Int], NEW g, IsSum(f, S, g)
  PROVE  \A x \in S : g[S] = f[x] + g[S \ {x}]
<1> DEFINE Good == {s \in SUBSET S : \A x \in s : g[s] = f[x] + g[s \ {x}]}
<1>0. \A s \in SUBSET S : g[s] \in Int
  BY SumIsInt
<1>1. /\ g[{}] = 0
      /\ \A s \in SUBSET S : s # {} => First(s) \in s /\ g[s] = f[First(s)] + g[s \ {First(s)}]
  BY SumParts
<1>2. {} \in Good
  OBVIOUS
<1>3. ASSUME NEW s \in SUBSET S, s # {}, \A x \in s : s \ {x} \in Good PROVE s \in Good
  <2> DEFINE y == First(s)
  <2>1. y \in s /\ g[s] = f[y] + g[s \ {y}]
    BY <1>1, <1>3
  <2> HIDE DEF y
  <2>2. ASSUME NEW x \in s PROVE g[s] = f[x] + g[s \ {x}]
    <3>1. CASE x = y
      BY <2>1, <3>1
    <3>2. CASE x # y
      <4> DEFINE z == g[(s \ {y}) \ {x}]
      <4>1. s \ {x} \in Good /\ s \ {y} \in Good /\ y \in s \ {x} /\ x \in s \ {y}
        BY <1>3, <2>1, <3>2
      <4>2. g[s \ {y}] = f[x] + g[(s \ {y}) \ {x}] /\ g[s \ {x}] = f[y] + g[(s \ {x}) \ {y}]
        BY <4>1
      <4>3. (s \ {x}) \ {y} = (s \ {y}) \ {x} /\ (s \ {y}) \ {x} \in SUBSET S /\ y \in S
        BY <2>1
      <4>4. f[x] \in Int /\ f[y] \in Int /\ z \in Int
        BY <1>0, <4>3
      <4>5. g[s \ {y}] = f[x] + z /\ g[s \ {x}] = f[y] + z
        BY <4>2, <4>3
      <4> HIDE DEF z
      <4> QED BY <2>1, <4>4, <4>5
    <3> QED BY <3>1, <3>2
  <2> QED BY <2>2
<1> HIDE DEF Good
<1>4. \A s \in SUBSET S : s \in Good
  BY <1>2, <1>3, SetInduction
<1> QED BY <1>4 DEF Good

-----------------------------------------------------------------------------
(* Lists: the front, an entry more, an entry less.                         *)
LEMMA AppendParts ==
  ASSUME NEW S, NEW s \in Seq(S), NEW x \in S
  PROVE  /\ Append(s, x) \in Seq(S) /\ Len(Append(s, x)) = Len(s) + 1
         /\ DOMAIN Append(s, x) = 1..(Len(s) + 1)
         /\ Append(s, x)[Len(s) + 1] = x
         /\ \A i \in 1..Len(s) : Append(s, x)[i] = s[i]
         /\ Range(Append(s, x)) = Range(s) \cup {x}
<1>1. /\ Append(s, x) \in Seq(S) /\ Len(Append(s, x)) = Len(s) + 1 /\ Len(s) \in Nat
      /\ DOMAIN Append(s, x) = 1..(Len(s) + 1) /\ DOMAIN s = 1..Len(s)
      /\ Append(s, x)[Len(s) + 1] = x
      /\ \A i \in 1..Len(s) : Append(s, x)[i] = s[i]
  OBVIOUS
<1> DEFINE t == Append(s, x)
<1> HIDE DEF t
<1>2. Range(t) \subseteq Range(s) \cup {x}
  BY <1>1 DEF Range, t
<1>3. ASSUME NEW y \in Range(s) PROVE y \in Range(t)
  <2>1. PICK i \in 1..Len(s) : y = s[i]
    BY <1>1 DEF Range
  <2>2. i \in 1..(Len(s) + 1) /\ t[i] = y
    BY <1>1, <2>1 DEF t
  <2> QED BY <1>1, <2>2 DEF Range, t
<1>4. x \in Range(t)
  BY <1>1 DEF t, Range
<1> QED BY <1>1, <1>2, <1>3, <1>4 DEF t

LEMMA FrontParts ==
  ASSUME NEW S, NEW s \in Seq(S), s # <<>>, IsInjective(s)
  PROVE  /\ Front(s) \in Seq(S) /\ IsInjective(Front(s)) /\ Last(s) \in S
         /\ Range(Front(s)) = Range(s) \ {Last(s)} /\ Last(s) \in Range(s)
<1> DEFINE n == Len(s)
           f == Front(s)
<1>1. n \in Nat /\ n > 0 /\ DOMAIN s = 1..n /\ Last(s) = s[n] /\ s[n] \in S
  BY DEF Last
<1>2. f \in Seq(S) /\ Len(f) = n - 1 /\ DOMAIN f = 1..(n - 1) /\ \A i \in 1..(n - 1) : f[i] = s[i]
  BY <1>1 DEF Front
<1> HIDE DEF n, f
<1>3. \A i, j \in 1..n : s[i] = s[j] => i = j
  BY <1>1 DEF IsInjective
<1>4. IsInjective(f)
  <2>1. ASSUME NEW i \in 1..(n - 1), NEW j \in 1..(n - 1), f[i] = f[j] PROVE i = j
    BY <1>1, <1>2, <1>3, <2>1
  <2> QED BY <1>2, <2>1 DEF IsInjective
<1>5. Range(f) = Range(s) \ {Last(s)}
  <2>1. ASSUME NEW y \in Range(f) PROVE y \in Range(s) \ {Last(s)}
    <3>1. PICK i \in 1..(n - 1) : y = s[i]
      BY <1>2 DEF Range
    <3>2. i \in 1..n /\ n \in 1..n /\ i # n
      BY <1>1
    <3> QED BY <1>1, <1>3, <3>1, <3>2 DEF Range
  <2>2. ASSUME NEW y \in Range(s) \ {Last(s)} PROVE y \in Range(f)
    <3>1. PICK i \in 1..n : y = s[i]
      BY <1>1 DEF Range
    <3>2. i \in 1..(n - 1)
      BY <1>1, <2>2, <3>1
    <3> QED BY <1>2, <3>1, <3>2 DEF Range
  <2> QED BY <2>1, <2>2
<1>6. Last(s) \in Range(s)
  BY <1>1 DEF Range
<1> QED BY <1>1, <1>2, <1>4, <1>5, <1>6 DEF f

LEMMA RemoveAtParts ==
  ASSUME NEW S, NEW s \in Seq(S), NEW at \in DOMAIN s, IsInjective(s)
  PROVE  /\ RemoveAt(s, at) \in Seq(S) /\ IsInjective(RemoveAt(s, at))
         /\ Range(RemoveAt(s, at)) = Range(s) \ {s[at]}
<1> DEFINE n == Len(s)
           a == SubSeq(s, 1, at - 1)
           b == SubSeq(s, at + 1, n)
           t == a \o b
<1>1. n \in Nat /\ DOMAIN s = 1..n /\ at \in 1..n /\ at \in Nat
  OBVIOUS
<1>2. a \in Seq(S) /\ Len(a) = at - 1 /\ \A i \in 1..(at - 1) : a[i] = s[i]
  BY <1>1
<1>3. b \in Seq(S) /\ Len(b) = n - at /\ \A i \in 1..(n - at) : b[i] = s[at + i]
  BY <1>1
<1> HIDE DEF n, a, b
<1>4. /\ t \in Seq(S) /\ Len(t) = n - 1 /\ DOMAIN t = 1..(n - 1)
      /\ \A i \in 1..(n - 1) : t[i] = IF i < at THEN a[i] ELSE b[i - (at - 1)]
  <2>1. /\ t \in Seq(S) /\ Len(t) = Len(a) + Len(b)
        /\ \A i \in 1..(Len(a) + Len(b)) : t[i] = IF i <= Len(a) THEN a[i] ELSE b[i - Len(a)]
    <3>1. a \in Seq(S) /\ b \in Seq(S)
      BY <1>2, <1>3
    <3> QED BY <3>1, ConcatProperties, Zenon
  <2> HIDE DEF t
  <2>2. Len(t) = n - 1 /\ DOMAIN t = 1..(n - 1)
    BY <1>1, <1>2, <1>3, <2>1
  <2>3. ASSUME NEW i \in 1..(n - 1) PROVE t[i] = IF i < at THEN a[i] ELSE b[i - (at - 1)]
    BY <1>1, <1>2, <1>3, <2>1
  <2> QED BY <2>1, <2>2, <2>3
<1>5. \A i \in 1..(n - 1) : t[i] = IF i < at THEN s[i] ELSE s[i + 1]
  <2>1. ASSUME NEW i \in 1..(n - 1), i < at PROVE t[i] = s[i]
    BY <1>1, <1>2, <1>4, <2>1
  <2>2. ASSUME NEW i \in 1..(n - 1), ~(i < at) PROVE t[i] = s[i + 1]
    <3>1. i - (at - 1) \in 1..(n - at) /\ at + (i - (at - 1)) = i + 1
      BY <1>1, <2>2
    <3> HIDE DEF t
    <3> QED BY <1>3, <1>4, <2>2, <3>1
  <2> QED BY <2>1, <2>2
<1> HIDE DEF t
<1>6. \A i, j \in 1..n : s[i] = s[j] => i = j
  BY <1>1 DEF IsInjective
<1>7. IsInjective(t)
  <2>1. ASSUME NEW i \in 1..(n - 1), NEW j \in 1..(n - 1), t[i] = t[j] PROVE i = j
    <3>1. /\ i \in 1..n /\ j \in 1..n /\ i + 1 \in 1..n /\ j + 1 \in 1..n
      BY <1>1
    <3>2. CASE i < at /\ j < at
      BY <1>5, <1>6, <2>1, <3>1, <3>2
    <3>3. CASE ~(i < at) /\ ~(j < at)
      BY <1>5, <1>6, <2>1, <3>1, <3>3
    <3>4. CASE i < at /\ ~(j < at)
      BY <1>1, <1>5, <1>6, <2>1, <3>1, <3>4
    <3>5. CASE ~(i < at) /\ j < at
      BY <1>1, <1>5, <1>6, <2>1, <3>1, <3>5
    <3> QED BY <3>2, <3>3, <3>4, <3>5
  <2> QED BY <1>4, <2>1 DEF IsInjective
<1>8. Range(t) = Range(s) \ {s[at]}
  <2>1. ASSUME NEW y \in Range(t) PROVE y \in Range(s) \ {s[at]}
    <3>1. PICK i \in 1..(n - 1) : y = t[i]
      BY <1>4 DEF Range
    <3>2. i \in 1..n /\ i + 1 \in 1..n /\ (i < at => i # at) /\ (~(i < at) => i + 1 # at)
      BY <1>1
    <3> QED BY <1>1, <1>5, <1>6, <3>1, <3>2 DEF Range
  <2>2. ASSUME NEW y \in Range(s) \ {s[at]} PROVE y \in Range(t)
    <3>1. PICK i \in 1..n : y = s[i] /\ i # at
      BY <1>1, <2>2 DEF Range
    <3>2. CASE i < at
      <4>1. i \in 1..(n - 1)
        BY <1>1, <3>2
      <4> QED BY <1>4, <1>5, <3>1, <3>2, <4>1 DEF Range
    <3>3. CASE ~(i < at)
      <4>1. i - 1 \in 1..(n - 1) /\ ~(i - 1 < at) /\ (i - 1) + 1 = i
        BY <1>1, <3>1, <3>3
      <4>2. t[i - 1] = s[(i - 1) + 1]
        BY <1>5, <4>1
      <4> QED BY <1>4, <3>1, <4>1, <4>2 DEF Range
    <3> QED BY <3>2, <3>3
  <2> QED BY <2>1, <2>2
<1>9. RemoveAt(s, at) = t
  BY DEF RemoveAt, t, a, b, n
<1> QED BY <1>4, <1>7, <1>8, <1>9

(* Of lists of which at most one is not empty, joining all gives that one. *)
LEMMA FlattenOne ==
  ASSUME NEW n \in Nat \ {0}, NEW S, NEW seqs \in [1..n -> Seq(S)], NEW k \in 1..n,
         \A i \in 1..n : i # k => seqs[i] = <<>>
  PROVE  FlattenSeq(seqs) = seqs[k]
<1> DEFINE f == [i \in 1..n |-> IF i < k THEN <<>> ELSE seqs[k]]
           Flats(g) == g = [i \in 1..n |-> IF i = 1 THEN seqs[i] ELSE g[i - 1] \o seqs[i]]
           g == CHOOSE h : Flats(h)
<1>1. \A s \in Seq(S) : s \o <<>> = s /\ <<>> \o s = s
  OBVIOUS
<1>2. ASSUME NEW i \in 1..n PROVE f[i] = IF i = 1 THEN seqs[i] ELSE f[i - 1] \o seqs[i]
  <2>1. CASE i = 1
    <3>1. f[1] = IF 1 < k THEN <<>> ELSE seqs[k]
      BY <2>1
    <3>2. 1 < k \/ k = 1
      OBVIOUS
    <3>3. 1 < k => seqs[1] = <<>>
      BY <2>1
    <3> HIDE DEF f
    <3> QED BY <2>1, <3>1, <3>2, <3>3
  <2>2. CASE i # 1
    <3>1. i - 1 \in 1..n
      BY <2>2
    <3>2. f[i] = (IF i < k THEN <<>> ELSE seqs[k]) /\ f[i - 1] = IF i - 1 < k THEN <<>> ELSE seqs[k]
      BY <3>1
    <3> HIDE DEF f
    <3>3. CASE i < k
      BY <1>1, <2>2, <3>2, <3>3
    <3>4. CASE i = k
      BY <1>1, <2>2, <3>2, <3>4
    <3>5. CASE i > k
      BY <1>1, <2>2, <3>2, <3>5
    <3> QED BY <3>3, <3>4, <3>5
  <2> QED BY <2>1, <2>2
<1>3. f = [i \in 1..n |-> f[i]]
  OBVIOUS
<1>4. f[k] = seqs[k] /\ f[n] = seqs[k]
  OBVIOUS
<1> HIDE DEF f
<1>5. Flats(f)
  BY <1>2, <1>3
<1>6. Flats(g)
  BY <1>5, Zenon
<1>7. Len(seqs) = n
  OBVIOUS
<1>8. FlattenSeq(seqs) = g[n]
  BY <1>7 DEF FlattenSeq
<1> HIDE DEF g
<1>9. \A i \in 1..n : g[i] = IF i = 1 THEN seqs[i] ELSE g[i - 1] \o seqs[i]
  BY <1>6
<1> HIDE DEF Flats
<1>10. \A i \in 0..n : i \in {j \in 0..n : j = 0 \/ g[j] = f[j]}
  <2> DEFINE Good == {j \in 0..n : j = 0 \/ g[j] = f[j]}
  <2>1. 0 \in Good
    OBVIOUS
  <2>2. ASSUME NEW i \in 1..n, i - 1 \in Good PROVE i \in Good
    <3>1. CASE i = 1
      BY <1>2, <1>9, <3>1
    <3>2. CASE i # 1
      BY <1>2, <1>9, <2>2, <3>2
    <3> QED BY <3>1, <3>2
  <2> HIDE DEF Good
  <2>3. \A i \in 0..n : i \in Good
    BY <2>1, <2>2, Folded!UpTo
  <2> QED BY <2>3 DEF Good
<1>11. g[n] = f[n]
  BY <1>10
<1> QED BY <1>4, <1>8, <1>11

-----------------------------------------------------------------------------
(* A lane: what the scheduler of one data-parallel lane owns.              *)
Requests == [Reqs -> [slot : 0..NumSlots, cached : Nat, device : Nat, done : Nat]]
Lane ==
  [pending : Seq(Reqs), running : SUBSET Reqs, slots : Seq(Slots), pages : Int,
   finished : SUBSET Reqs, req : Requests]

RowOf(lane) == [r \in Reqs |-> lane.req[r].slot]
Present(lane, r) ==
  r \in Range(lane.pending) \/ r \in lane.running \/ lane.req[r].slot # NoSlot

(* Every row is free or some request's, and none is both or twice either.  *)
Rows(slots, row) ==
  /\ IsInjective(slots)
  /\ \A r, q \in Reqs : row[r] # NoSlot /\ row[r] = row[q] => r = q
  /\ \A r \in Reqs : row[r] \notin Range(slots)
  /\ \A s \in Slots : s \in Range(slots) \/ \E r \in Reqs : row[r] = s

PagesHeld(lane) ==
  [r \in Reqs |-> IF lane.req[r].slot # NoSlot THEN PagesFor(lane.req[r].cached) ELSE 0]
Balance(lane, n) == \E g : IsSum(PagesHeld(lane), Reqs, g) /\ lane.pages + g[Reqs] = n

LaneOK(lane) ==
  /\ lane \in Lane
  /\ IsInjective(lane.pending)
  /\ \A r \in Range(lane.pending) : /\ r \notin lane.running
                                    /\ lane.req[r].cached <= InputLen[r]
                                    /\ lane.req[r].slot = NoSlot => lane.req[r].cached = 0
  /\ \A r \in lane.running : lane.req[r].slot # NoSlot
  /\ \A r \in lane.finished : ~Present(lane, r)
  /\ Rows(lane.slots, RowOf(lane))
  /\ Balance(lane, NumPages)

(* A launched batch of a lane, g the generations of its tables: an entry   *)
(* that is current is of the request that holds its row, and has all of    *)
(* the prompt if it is not a chunk.                                        *)
Entry == [req : Reqs, slot : Slots, start : Nat, ext : Nat, chunked : BOOLEAN, gen : Nat]
Flying(lane, g, batch) ==
  /\ \A i \in DOMAIN batch :
       LET e == batch[i] IN
       /\ e.gen <= g[e.slot]
       /\ e.gen = g[e.slot] => /\ lane.req[e.req].slot = e.slot
                               /\ ~e.chunked => e.req \notin Range(lane.pending)
  /\ \A i, j \in DOMAIN batch : batch[i].req = batch[j].req => i = j

(* A request, as the clients see it.                                       *)
Answer(r) ==
  /\ status[r] \in {"new", "sent"} => out[r] = <<>>
  /\ \A i \in 1..Len(out[r]) :
       /\ out[r][i].finished <=> (out[r][i].token.eos \/ i = OutLen[r])
       /\ out[r][i].finished => i = Len(out[r])
Served(lane, r) ==
  /\ Present(lane, r) => /\ status[r] = "live"
                         /\ lane.req[r].done = Len(out[r]) /\ Len(out[r]) < OutLen[r]
                         /\ \A i \in 1..Len(out[r]) : ~out[r][i].finished
  /\ status[r] \in {"new", "sent"} => /\ lane.req[r].cached = 0 /\ lane.req[r].done = 0
                                      /\ r \notin lane.finished

Message == [type : {"user", "abort", "exit"}, req : Reqs \cup {NoReq}]
Messages ==
  /\ inbox \in Seq(Message)
  /\ \A i \in DOMAIN inbox : inbox[i].type # "exit" => inbox[i].req \in Reqs
  /\ \A i \in DOMAIN inbox : inbox[i].type = "user" => status[inbox[i].req] = "sent"
  /\ \A i, j \in DOMAIN inbox :
       inbox[i].type = "user" /\ inbox[j].type = "user" /\ inbox[i].req = inbox[j].req => i = j

Shapes ==
  /\ lanes = [d \in Dps |-> lanes[d]]
  /\ gens \in [Dps -> [Slots -> Nat]]
  /\ lane_of \in [Reqs -> 0..NumDp] /\ rr \in Nat
  /\ pending \in Seq([step : Nat, batch : [Dps -> Seq(Entry)]]) /\ step \in Nat
  /\ \A r \in Reqs : \E S : out[r] \in Seq(S)
  /\ out = [r \in Reqs |-> out[r]]
  /\ status \in [Reqs -> {"new", "sent", "live", "aborted", "finished"}]

CoordInv ==
  /\ Shapes /\ Messages
  /\ \A d \in Dps : LaneOK(lanes[d])
  /\ \A d \in Dps : \A k \in 1..Len(pending) : Flying(lanes[d], gens[d], pending[k].batch[d])
  /\ \A r \in Reqs : Answer(r)
  /\ \A r \in Reqs : \A d \in Dps : Served(lanes[d], r)
  /\ \A r \in Reqs : \A d, c \in Dps : Present(lanes[d], r) /\ Present(lanes[c], r) => d = c

-----------------------------------------------------------------------------
(* Rows and pages change hands.                                            *)
LEMMA PagesNat ==
  /\ \A n \in Nat : PagesFor(n) \in Nat
  /\ PagesFor(0) = 0
<1>1. PageSize \in Nat \ {0}
  BY SizeAssumption
<1>2. ASSUME NEW n \in Nat PROVE PagesFor(n) \in Nat
  <2> DEFINE m == n + PageSize - 1
  <2>1. m \in Nat
    BY <1>1
  <2> HIDE DEF m
  <2>2. m \div PageSize \in Nat
    BY <1>1, <2>1
  <2> QED BY <2>2 DEF PagesFor, m
<1>3. (PageSize - 1) \div PageSize = 0
  BY <1>1
<1>4. PagesFor(0) = (PageSize - 1) \div PageSize
  BY <1>1 DEF PagesFor
<1> QED BY <1>2, <1>3, <1>4

LEMMA RowTaken ==
  ASSUME NEW slots \in Seq(Slots), NEW row \in [Reqs -> 0..NumSlots], Rows(slots, row),
         slots # <<>>, NEW r \in Reqs, row[r] = NoSlot
  PROVE  /\ Front(slots) \in Seq(Slots) /\ Last(slots) \in Slots
         /\ Rows(Front(slots), [row EXCEPT ![r] = Last(slots)])
<1> DEFINE f == Front(slots)
           x == Last(slots)
           new == [row EXCEPT ![r] = x]
<1>1. /\ f \in Seq(Slots) /\ IsInjective(f) /\ x \in Slots
      /\ Range(f) = Range(slots) \ {x} /\ x \in Range(slots)
  BY FrontParts DEF Rows
<1> HIDE DEF f, x
<1>2. /\ \A q, p \in Reqs : row[q] # NoSlot /\ row[q] = row[p] => q = p
      /\ \A q \in Reqs : row[q] \notin Range(slots)
      /\ \A s \in Slots : s \in Range(slots) \/ \E q \in Reqs : row[q] = s
  BY DEF Rows
<1>3. new[r] = x /\ \A q \in Reqs : q # r => new[q] = row[q]
  OBVIOUS
<1> HIDE DEF new
<1>4. \A q, p \in Reqs : new[q] # NoSlot /\ new[q] = new[p] => q = p
  BY <1>1, <1>2, <1>3
<1>5. \A q \in Reqs : new[q] \notin Range(f)
  BY <1>1, <1>2, <1>3
<1>6. ASSUME NEW s \in Slots PROVE s \in Range(f) \/ \E q \in Reqs : new[q] = s
  <2>1. CASE s = x
    BY <1>3, <2>1
  <2>2. CASE s # x /\ s \in Range(slots)
    BY <1>1, <2>2
  <2>3. CASE s \notin Range(slots)
    <3>1. PICK q \in Reqs : row[q] = s
      BY <1>2, <2>3
    <3>2. s # NoSlot
      BY SizeAssumption DEF Slots, NoSlot
    <3> QED BY <1>3, <3>1, <3>2
  <2> QED BY <2>1, <2>2, <2>3
<1>7. Rows(f, new)
  BY <1>1, <1>4, <1>5, <1>6 DEF Rows
<1> QED BY <1>1, <1>7 DEF f, x, new

LEMMA RowGiven ==
  ASSUME NEW slots \in Seq(Slots), NEW row \in [Reqs -> 0..NumSlots], Rows(slots, row),
         NEW r \in Reqs, row[r] # NoSlot
  PROVE  /\ Append(slots, row[r]) \in Seq(Slots) /\ row[r] \in Slots
         /\ Rows(Append(slots, row[r]), [row EXCEPT ![r] = NoSlot])
<1> DEFINE x == row[r]
           f == Append(slots, x)
           new == [row EXCEPT ![r] = NoSlot]
<1>1. x \in Slots
  BY SizeAssumption DEF Slots, NoSlot
<1> HIDE DEF x
<1>2. /\ f \in Seq(Slots) /\ Range(f) = Range(slots) \cup {x}
      /\ DOMAIN f = 1..(Len(slots) + 1) /\ f[Len(slots) + 1] = x
      /\ \A i \in 1..Len(slots) : f[i] = slots[i]
  BY <1>1, AppendParts
<1>3. /\ \A q, p \in Reqs : row[q] # NoSlot /\ row[q] = row[p] => q = p
      /\ \A q \in Reqs : row[q] \notin Range(slots)
      /\ \A s \in Slots : s \in Range(slots) \/ \E q \in Reqs : row[q] = s
      /\ IsInjective(slots)
  BY DEF Rows
<1>4. new[r] = NoSlot /\ \A q \in Reqs : q # r => new[q] = row[q]
  OBVIOUS
<1> HIDE DEF new, f
<1>5. IsInjective(f)
  <2>1. DOMAIN slots = 1..Len(slots) /\ Len(slots) \in Nat
    OBVIOUS
  <2>2. \A i, j \in 1..Len(slots) : slots[i] = slots[j] => i = j
    BY <1>3, <2>1 DEF IsInjective
  <2>3. \A i \in 1..Len(slots) : slots[i] # x
    BY <1>3, <2>1 DEF Range, x
  <2>4. ASSUME NEW i \in 1..(Len(slots) + 1), NEW j \in 1..(Len(slots) + 1), f[i] = f[j]
        PROVE  i = j
    BY <1>2, <2>1, <2>2, <2>3, <2>4
  <2> QED BY <1>2, <2>4 DEF IsInjective
<1>6. \A q, p \in Reqs : new[q] # NoSlot /\ new[q] = new[p] => q = p
  BY <1>3, <1>4
<1>7. ASSUME NEW q \in Reqs PROVE new[q] \notin Range(f)
  <2>1. CASE q = r
    <3>1. NoSlot \notin Slots
      BY SizeAssumption DEF Slots, NoSlot
    <3>2. Range(f) \subseteq Slots
      BY <1>2 DEF Range
    <3> QED BY <1>4, <2>1, <3>1, <3>2
  <2>2. CASE q # r
    BY <1>2, <1>3, <1>4, <2>2 DEF x
  <2> QED BY <2>1, <2>2
<1>8. ASSUME NEW s \in Slots PROVE s \in Range(f) \/ \E q \in Reqs : new[q] = s
  <2>1. CASE s \in Range(slots) \/ s = x
    BY <1>2, <2>1
  <2>2. CASE s \notin Range(slots) /\ s # x
    <3>1. PICK q \in Reqs : row[q] = s
      BY <1>3, <2>2
    <3>2. q # r
      BY <2>2, <3>1 DEF x
    <3> QED BY <1>4, <3>1, <3>2
  <2> QED BY <2>1, <2>2
<1>9. Rows(f, new)
  BY <1>5, <1>6, <1>7, <1>8 DEF Rows
<1> QED BY <1>1, <1>2, <1>9 DEF x, f, new

LEMMA HeldInts ==
  ASSUME NEW lane \in Lane
  PROVE  PagesHeld(lane) \in [Reqs -> Int]
<1>1. \A r \in Reqs : lane.req[r].cached \in Nat
  BY DEF Lane, Requests
<1> QED BY <1>1, PagesNat DEF PagesHeld

(* One request's pages change: the balance changes by as much.             *)
LEMMA BalanceMoves ==
  ASSUME NEW lane \in Lane, NEW next \in Lane, NEW n \in Int, Balance(lane, n), NEW r \in Reqs,
         \A q \in Reqs : q # r => PagesHeld(next)[q] = PagesHeld(lane)[q]
  PROVE  Balance(next, n + (next.pages - lane.pages)
                          + (PagesHeld(next)[r] - PagesHeld(lane)[r]))
<1> DEFINE f == PagesHeld(lane)
           h == PagesHeld(next)
           U == Reqs \ {r}
<1>1. f \in [Reqs -> Int] /\ h \in [Reqs -> Int] /\ lane.pages \in Int /\ next.pages \in Int
  BY HeldInts DEF Lane
<1>2. IsFiniteSet(Reqs) /\ IsFiniteSet(U) /\ U \subseteq Reqs
  BY RequestAssumption, FS_Subset
<1>3. \A x \in U : f[x] = h[x]
  OBVIOUS
<1>4. PICK g : IsSum(f, Reqs, g) /\ lane.pages + g[Reqs] = n
  BY DEF Balance
<1> HIDE DEF f, h, U
<1>5. PICK k : IsSum(h, Reqs, k)
  BY <1>2, SumExists
<1>6. g[U] = k[U]
  BY <1>2, <1>3, <1>4, <1>5, SumsAgree
<1>7. g[Reqs] = f[r] + g[U] /\ g[U] \in Int
  <2>0. f \in [Reqs -> Int] /\ IsFiniteSet(Reqs) /\ IsSum(f, Reqs, g)
    BY <1>1, <1>2, <1>4
  <2>1. \A s \in SUBSET Reqs : g[s] \in Int
    BY <2>0, SumIsInt
  <2>2. \A x \in Reqs : g[Reqs] = f[x] + g[Reqs \ {x}]
    BY <2>0, SumWithout
  <2> QED BY <1>2, <2>1, <2>2 DEF U
<1>8. k[Reqs] = h[r] + k[U]
  <2>1. \A x \in Reqs : k[Reqs] = h[x] + k[Reqs \ {x}]
    BY <1>1, <1>2, <1>5, SumWithout
  <2> QED BY <2>1 DEF U
<1>9. f[r] \in Int /\ h[r] \in Int
  BY <1>1
<1>10. next.pages + k[Reqs] = n + (next.pages - lane.pages) + (h[r] - f[r])
  BY <1>1, <1>4, <1>6, <1>7, <1>8, <1>9
<1> QED BY <1>5, <1>10 DEF Balance, f, h

LEMMA BalanceStays ==
  ASSUME NEW lane, NEW next, NEW n, Balance(lane, n),
         next.pages = lane.pages, PagesHeld(next) = PagesHeld(lane)
  PROVE  Balance(next, n)
BY DEF Balance
LEMMA LaneWith ==
  ASSUME NEW lane \in Lane
  PROVE  /\ \A q \in Seq(Reqs) : [lane EXCEPT !.pending = q] \in Lane
         /\ \A q \in SUBSET Reqs : [lane EXCEPT !.running = q] \in Lane
         /\ \A q \in SUBSET Reqs : [lane EXCEPT !.finished = q] \in Lane
         /\ \A q \in Seq(Slots) : [lane EXCEPT !.slots = q] \in Lane
         /\ \A q \in Int : [lane EXCEPT !.pages = q] \in Lane
         /\ \A q \in Requests : [lane EXCEPT !.req = q] \in Lane
BY DEF Lane

(* _free_req_resources                                                     *)
LEMMA FreeParts ==
  ASSUME NEW lane \in Lane, NEW r \in Reqs, lane.req[r].slot # NoSlot,
         Rows(lane.slots, RowOf(lane))
  PROVE  LET next == FreeReq(lane, r)
         IN  /\ next \in Lane /\ Rows(next.slots, RowOf(next))
             /\ next.pending = lane.pending /\ next.running = lane.running
             /\ next.finished = lane.finished
             /\ \A q \in Reqs : q # r => next.req[q] = lane.req[q]
             /\ next.req[r].slot = NoSlot /\ next.req[r].cached = lane.req[r].cached
             /\ next.req[r].done = lane.req[r].done
             /\ \A n \in Int : Balance(lane, n) => Balance(next, n)
<1> DEFINE next == FreeReq(lane, r)
           x == lane.req[r].slot
<1>1. /\ lane.slots \in Seq(Slots) /\ RowOf(lane) \in [Reqs -> 0..NumSlots] /\ RowOf(lane)[r] = x
      /\ lane.req[r].cached \in Nat /\ lane.pages \in Int
  BY DEF Lane, Requests, RowOf
<1>2. /\ Append(lane.slots, x) \in Seq(Slots) /\ x \in Slots
      /\ Rows(Append(lane.slots, x), [RowOf(lane) EXCEPT ![r] = NoSlot])
  BY <1>1, RowGiven
<1>3. PagesFor(lane.req[r].cached) \in Nat /\ NoSlot \in 0..NumSlots
  <2>1. NoSlot \in 0..NumSlots
    BY SizeAssumption DEF NoSlot
  <2> QED BY <1>1, <2>1, PagesNat
<1>4. /\ next.slots = Append(lane.slots, x) /\ next.pages = lane.pages + PagesFor(lane.req[r].cached)
      /\ next.pending = lane.pending /\ next.running = lane.running /\ next.finished = lane.finished
      /\ next.req = [lane.req EXCEPT ![r].slot = NoSlot]
      /\ DOMAIN next = DOMAIN lane
  BY DEF Lane, FreeReq
<1>5. next \in Lane
  <2> DEFINE l1 == [lane EXCEPT !.slots = Append(@, x)]
             l2 == [l1 EXCEPT !.pages = @ + PagesFor(lane.req[r].cached)]
             l3 == [l2 EXCEPT !.req[r].slot = NoSlot]
  <2>1. l1 \in Lane /\ l1.req = lane.req /\ l1.pages = lane.pages
    BY <1>2, LaneWith DEF Lane
  <2>2. l1.pages + PagesFor(lane.req[r].cached) \in Int
    BY <1>1, <1>3, <2>1
  <2> HIDE DEF l1
  <2>3. l2 \in Lane /\ l2.req = lane.req
    BY <2>1, <2>2, LaneWith DEF Lane
  <2> HIDE DEF l2
  <2>4. [l2.req EXCEPT ![r].slot = NoSlot] \in Requests
    BY <1>3, <2>3 DEF Lane, Requests
  <2>5. l3 \in Lane
    BY <2>3, <2>4, LaneWith
  <2> QED BY <2>5 DEF FreeReq, l1, l2
<1> HIDE DEF next
<1>6. /\ \A q \in Reqs : q # r => next.req[q] = lane.req[q]
      /\ next.req[r].slot = NoSlot /\ next.req[r].cached = lane.req[r].cached
      /\ next.req[r].done = lane.req[r].done
  BY <1>4 DEF Lane, Requests
<1>7. RowOf(next) = [RowOf(lane) EXCEPT ![r] = NoSlot]
  BY <1>6 DEF RowOf
<1>8. Rows(next.slots, RowOf(next))
  BY <1>2, <1>4, <1>7
<1>9. ASSUME NEW n \in Int, Balance(lane, n) PROVE Balance(next, n)
  <2>1. \A q \in Reqs : q # r => PagesHeld(next)[q] = PagesHeld(lane)[q]
    BY <1>6 DEF PagesHeld
  <2>2. PagesHeld(next)[r] = 0 /\ PagesHeld(lane)[r] = PagesFor(lane.req[r].cached)
    BY <1>6 DEF PagesHeld
  <2>3. Balance(next, n + (next.pages - lane.pages) + (PagesHeld(next)[r] - PagesHeld(lane)[r]))
    BY <1>5, <1>9, <2>1, BalanceMoves
  <2>4. n + (next.pages - lane.pages) + (PagesHeld(next)[r] - PagesHeld(lane)[r]) = n
    BY <1>1, <1>3, <1>4, <2>2
  <2> QED BY <2>3, <2>4
<1> QED BY <1>4, <1>5, <1>6, <1>8, <1>9 DEF next

(* What an abort, or the end of an answer, takes from a lane.              *)
Dropped(lane, next, r) ==
  /\ ~Present(next, r)
  /\ next.finished = lane.finished
  /\ Range(next.pending) = Range(lane.pending) \ {r} /\ next.running = lane.running \ {r}
  /\ \A q \in Reqs : q # r => next.req[q] = lane.req[q]
  /\ next.req[r].cached = lane.req[r].cached /\ next.req[r].done = lane.req[r].done

(* A lane without r in its lists, whose row is still held.                 *)
LEMMA LaneDrops ==
  ASSUME NEW lane, LaneOK(lane), NEW r \in Reqs, NEW cut \in Lane,
         cut.req = lane.req, cut.pages = lane.pages, cut.slots = lane.slots,
         cut.finished = lane.finished,
         IsInjective(cut.pending), Range(cut.pending) = Range(lane.pending) \ {r},
         cut.running = lane.running \ {r},
         NEW next, next = IF lane.req[r].slot # NoSlot THEN FreeReq(cut, r) ELSE cut
  PROVE  LaneOK(next) /\ Dropped(lane, next, r)
<1>0. /\ lane \in Lane
      /\ \A q \in Range(lane.pending) : /\ q \notin lane.running
                                        /\ lane.req[q].cached <= InputLen[q]
                                        /\ lane.req[q].slot = NoSlot => lane.req[q].cached = 0
      /\ \A q \in lane.running : lane.req[q].slot # NoSlot
      /\ \A q \in lane.finished : ~Present(lane, q)
      /\ Rows(lane.slots, RowOf(lane))
      /\ Balance(lane, NumPages)
  BY DEF LaneOK
<1>1. Rows(cut.slots, RowOf(cut))
  BY <1>0 DEF RowOf
<1>2. Balance(cut, NumPages)
  BY <1>0, BalanceStays DEF PagesHeld
<1>3. /\ next \in Lane /\ Rows(next.slots, RowOf(next)) /\ Balance(next, NumPages)
      /\ next.pending = cut.pending /\ next.running = cut.running
      /\ next.finished = cut.finished
      /\ \A q \in Reqs : q # r => next.req[q] = cut.req[q]
      /\ next.req[r].slot = NoSlot /\ next.req[r].cached = cut.req[r].cached
      /\ next.req[r].done = cut.req[r].done
  <2>1. CASE lane.req[r].slot # NoSlot
    BY <1>1, <1>2, <2>1, SizeAssumption, FreeParts
  <2>2. CASE lane.req[r].slot = NoSlot
    BY <1>1, <1>2, <2>2
  <2> QED BY <2>1, <2>2
<1>4. Dropped(lane, next, r)
  BY <1>3 DEF Dropped, Present
<1>5. LaneOK(next)
  <2>1. ASSUME NEW q \in Range(next.pending)
        PROVE  /\ q \notin next.running /\ next.req[q].cached <= InputLen[q]
               /\ next.req[q].slot = NoSlot => next.req[q].cached = 0
    <3>1. q \in Range(lane.pending) /\ q # r /\ q \in Reqs
      <4>1. Range(lane.pending) \subseteq Reqs
        BY <1>0 DEF Lane, Range
      <4> QED BY <1>3, <4>1
    <3> QED BY <1>0, <1>3, <3>1
  <2>2. \A q \in next.running : next.req[q].slot # NoSlot
    BY <1>0, <1>3 DEF Lane
  <2>3. ASSUME NEW q \in next.finished PROVE ~Present(next, q)
    BY <1>0, <1>3 DEF Lane, Present
  <2> QED BY <1>3, <2>1, <2>2, <2>3 DEF LaneOK
<1> QED BY <1>4, <1>5

(* abort_req                                                               *)
LEMMA AbortParts ==
  ASSUME NEW lane, LaneOK(lane), NEW r \in Reqs
  PROVE  LET cut == AbortReq(lane, r)
         IN  /\ cut.found \in BOOLEAN /\ LaneOK(cut.lane)
             /\ cut.found => /\ Present(lane, r) /\ Dropped(lane, cut.lane, r)
                             /\ cut.freed = IF lane.req[r].slot = NoSlot THEN <<>>
                                            ELSE <<lane.req[r].slot>>
             /\ ~cut.found => cut.lane = lane /\ cut.freed = <<>>
<1> DEFINE at == CHOOSE i \in DOMAIN lane.pending : lane.pending[i] = r
           cut1 == [lane EXCEPT !.pending = RemoveAt(@, at)]
           cut2 == [lane EXCEPT !.running = @ \ {r}]
<1>0. /\ lane \in Lane /\ lane.pending \in Seq(Reqs) /\ lane.running \in SUBSET Reqs
      /\ IsInjective(lane.pending)
      /\ \A q \in Range(lane.pending) : q \notin lane.running
      /\ \A q \in lane.running : lane.req[q].slot # NoSlot
  BY DEF LaneOK, Lane
<1>1. CASE r \in Range(lane.pending)
  <2>1. at \in DOMAIN lane.pending /\ lane.pending[at] = r
    BY <1>1 DEF Range
  <2> HIDE DEF at
  <2>2. /\ RemoveAt(lane.pending, at) \in Seq(Reqs) /\ IsInjective(RemoveAt(lane.pending, at))
        /\ Range(RemoveAt(lane.pending, at)) = Range(lane.pending) \ {r}
    BY <1>0, <2>1, RemoveAtParts
  <2> DEFINE p == RemoveAt(lane.pending, at)
  <2> HIDE DEF p
  <2>3. /\ cut1 \in Lane /\ cut1.req = lane.req /\ cut1.pages = lane.pages
        /\ cut1.slots = lane.slots /\ cut1.finished = lane.finished
        /\ cut1.running = lane.running /\ cut1.pending = p
    BY <1>0, <2>2 DEF p, Lane
  <2>4. lane.running = lane.running \ {r}
    BY <1>0, <1>1
  <2> DEFINE next == IF lane.req[r].slot # NoSlot THEN FreeReq(cut1, r) ELSE cut1
  <2>5. AbortReq(lane, r) = IF lane.req[r].slot # NoSlot
          THEN [lane |-> FreeReq(cut1, r), freed |-> <<lane.req[r].slot>>, found |-> TRUE]
          ELSE [lane |-> cut1, freed |-> <<>>, found |-> TRUE]
    BY <1>1 DEF AbortReq, IsChunked, at
  <2> HIDE DEF cut1
  <2>6. LaneOK(next) /\ Dropped(lane, next, r)
    BY <2>2, <2>3, <2>4, LaneDrops DEF p
  <2> QED BY <1>1, <2>5, <2>6 DEF Present
<1>2. CASE r \notin Range(lane.pending) /\ r \in lane.running
  <2>1. /\ cut2 \in Lane /\ cut2.req = lane.req /\ cut2.pages = lane.pages
        /\ cut2.slots = lane.slots /\ cut2.finished = lane.finished
        /\ cut2.running = lane.running \ {r} /\ cut2.pending = lane.pending
    BY <1>0 DEF Lane
  <2>2. lane.req[r].slot # NoSlot
    BY <1>0, <1>2
  <2>4. AbortReq(lane, r) = [lane |-> FreeReq(cut2, r), freed |-> <<lane.req[r].slot>>, found |-> TRUE]
    BY <1>2 DEF AbortReq
  <2> HIDE DEF cut2
  <2>5. LaneOK(FreeReq(cut2, r)) /\ Dropped(lane, FreeReq(cut2, r), r)
    BY <1>0, <1>2, <2>1, <2>2, LaneDrops
  <2> QED BY <1>2, <2>2, <2>4, <2>5 DEF Present
<1>3. CASE r \notin Range(lane.pending) /\ r \notin lane.running
  <2>1. lane.running \ {r} = lane.running
    BY <1>3
  <2>2. cut2 = lane
    BY <1>0, <2>1 DEF Lane
  <2>3. AbortReq(lane, r) = [lane |-> cut2, freed |-> <<>>, found |-> r \in Range(lane.pending)]
    BY <1>3 DEF AbortReq
  <2> DEFINE found == r \in Range(lane.pending)
             cut   == AbortReq(lane, r)
  <2>4. ~found /\ found \in BOOLEAN
    BY <1>3
  <2> HIDE DEF found, cut2
  <2>5. cut.lane = lane /\ cut.freed = <<>> /\ cut.found = found
    BY <2>2, <2>3 DEF found
  <2> HIDE DEF cut
  <2> QED BY <2>4, <2>5 DEF cut
<1> QED BY <1>1, <1>2, <1>3

-----------------------------------------------------------------------------
(* Scheduling: what the adder keeps while it goes through the first k      *)
(* waiting requests of a lane.                                             *)
Unit  == [req : Reqs, slot : Slots, start : Nat, ext : Nat, chunked : BOOLEAN]
Adder(adder) ==
  adder \in [lane : Lane, budget : Int, reserved : {adder.reserved}, entries : Seq(Unit),
             chunked : Seq(Reqs), full : BOOLEAN]

SameLists(lane, next) ==
  /\ next.pending = lane.pending /\ next.running = lane.running
  /\ next.finished = lane.finished /\ next.pages = lane.pages
SameRow(lane, next, r) ==
  /\ next.req[r].cached = lane.req[r].cached /\ next.req[r].done = lane.req[r].done
  /\ lane.req[r].slot # NoSlot => next.req[r].slot = lane.req[r].slot

AdderInv(lane, k, adder) ==
  /\ Adder(adder)
  /\ SameLists(lane, adder.lane)
  /\ \A r \in Reqs : SameRow(lane, adder.lane, r)
  /\ \A r \in Reqs : adder.lane.req[r].slot # NoSlot =>
                       lane.req[r].slot # NoSlot \/ r \in Range(lane.pending)
  /\ Rows(adder.lane.slots, RowOf(adder.lane))
  /\ Len(adder.entries) <= k /\ (~adder.full => Len(adder.entries) = k)
  /\ \A i \in 1..Len(adder.entries) :
       LET e == adder.entries[i] IN
       /\ e.req = lane.pending[i] /\ e.slot = adder.lane.req[e.req].slot
       /\ e.start = lane.req[e.req].cached
       /\ e.chunked => e.start + e.ext <= InputLen[e.req]
  /\ IsInjective(adder.chunked)
  /\ \A r \in Range(adder.chunked) :
       \E i \in 1..Len(adder.entries) : adder.entries[i].req = r /\ adder.entries[i].chunked

LEMMA MinOfTwo ==
  ASSUME NEW a \in Int, NEW b \in Int
  PROVE  Min({a, b}) \in {a, b} /\ Min({a, b}) <= a /\ Min({a, b}) <= b
<1>1. \E x \in {a, b} : \A y \in {a, b} : x <= y
  BY a <= b \/ b <= a
<1> QED BY <1>1 DEF Min

LEMMA AppendDistinct ==
  ASSUME NEW S, NEW s \in Seq(S), NEW x \in S, IsInjective(s), x \notin Range(s)
  PROVE  IsInjective(Append(s, x))
<1> DEFINE f == Append(s, x)
<1>1. /\ DOMAIN f = 1..(Len(s) + 1) /\ f[Len(s) + 1] = x /\ Len(s) \in Nat
      /\ \A i \in 1..Len(s) : f[i] = s[i]
  BY AppendParts
<1>2. DOMAIN s = 1..Len(s)
  OBVIOUS
<1>3. /\ \A i, j \in 1..Len(s) : s[i] = s[j] => i = j
      /\ \A i \in 1..Len(s) : s[i] # x
  BY <1>2 DEF IsInjective, Range
<1> HIDE DEF f
<1>4. ASSUME NEW i \in 1..(Len(s) + 1), NEW j \in 1..(Len(s) + 1), f[i] = f[j]
      PROVE  i = j
  BY <1>1, <1>3, <1>4
<1>5. IsInjective(f)
  BY <1>1, <1>4 DEF IsInjective
<1> QED BY <1>5 DEF f
LEMMA AdderWith ==
  ASSUME NEW adder, NEW a, NEW b, NEW v, NEW e, NEW c, NEW f,
         adder = [lane |-> a, budget |-> b, reserved |-> v, entries |-> e,
                  chunked |-> c, full |-> f],
         NEW a2, NEW x, NEW y, NEW z, NEW q, NEW r, NEW u
  PROVE  [adder EXCEPT !.lane = a2, !.budget = @ - x, !.reserved = @ + y + z,
                       !.chunked = IF q THEN Append(@, r) ELSE @, !.entries = Append(@, u)] =
         [lane |-> a2, budget |-> b - x, reserved |-> v + y + z,
          entries |-> Append(e, u), chunked |-> IF q THEN Append(c, r) ELSE c, full |-> f]
<1> DEFINE a3 == [adder EXCEPT !.lane = a2]
           a4 == [a3 EXCEPT !.budget = @ - x]
           a5 == [a4 EXCEPT !.reserved = @ + y + z]
           a6 == [a5 EXCEPT !.chunked = IF q THEN Append(@, r) ELSE @]
<1>1. a3 = [lane |-> a2, budget |-> b, reserved |-> v, entries |-> e, chunked |-> c, full |-> f]
  OBVIOUS
<1> HIDE DEF a3
<1>2. a4 = [lane |-> a2, budget |-> b - x, reserved |-> v, entries |-> e, chunked |-> c,
            full |-> f]
  BY <1>1
<1> HIDE DEF a4
<1>3. a5 = [lane |-> a2, budget |-> b - x, reserved |-> v + y + z, entries |-> e, chunked |-> c,
            full |-> f]
  BY <1>2
<1> HIDE DEF a5
<1>4. a6 = [lane |-> a2, budget |-> b - x, reserved |-> v + y + z, entries |-> e,
            chunked |-> IF q THEN Append(c, r) ELSE c, full |-> f]
  BY <1>3
<1> HIDE DEF a6
<1> DEFINE w == IF q THEN Append(c, r) ELSE c
           b1 == b - x
           v1 == v + y + z
           e1 == Append(e, u)
<1>5. [a6 EXCEPT !.entries = e1] =
         [lane |-> a2, budget |-> b1, reserved |-> v1, entries |-> e1, chunked |-> w, full |-> f]
  <2>1. a6 = [lane |-> a2, budget |-> b1, reserved |-> v1, entries |-> e, chunked |-> w, full |-> f]
    BY <1>4
  <2> HIDE DEF w, b1, v1, e1
  <2> QED BY <2>1
<1>6. a6.entries = e
  BY <1>4
<1> QED BY <1>5, <1>6 DEF a3, a4, a5, a6

(* The next chunk of r, in a row that is its own or was free.              *)
LEMMA AddOneParts ==
  ASSUME NEW lane, LaneOK(lane), NEW k \in 1..Len(lane.pending), NEW adder,
         AdderInv(lane, k - 1, adder), ~adder.full, adder.budget > 0,
         NEW r, r = lane.pending[k], NEW slot \in Slots,
         NEW from \in Lane, SameLists(adder.lane, from), from.req = adder.lane.req,
         adder.lane.req[r].slot \in {slot, NoSlot},
         Rows(from.slots, [RowOf(from) EXCEPT ![r] = slot])
  PROVE  AdderInv(lane, k, AddOneReq(adder, from, r, slot))
<1> DEFINE old    == adder.lane
           cached == lane.req[r].cached
           rest   == InputLen[r] - cached
           size   == Min({adder.budget, rest})
           unit   == [req |-> r, slot |-> slot, start |-> cached, ext |-> size,
                      chunked |-> size < rest]
           now    == [from EXCEPT !.req[r].slot = slot, !.req[r].device = cached + size]
           next   == AddOneReq(adder, from, r, slot)
           n      == Len(adder.entries)
<1>0. /\ lane \in Lane /\ lane.pending \in Seq(Reqs) /\ IsInjective(lane.pending)
      /\ \A q \in Range(lane.pending) : /\ lane.req[q].cached <= InputLen[q]
                                        /\ lane.req[q].slot = NoSlot => lane.req[q].cached = 0
  BY DEF LaneOK, Lane
<1>1. /\ r \in Reqs /\ r \in Range(lane.pending) /\ cached \in Nat
      /\ InputLen[r] \in Nat /\ rest \in Nat
  <2>1. r \in Reqs /\ r \in Range(lane.pending)
    BY <1>0 DEF Range
  <2>2. cached \in Nat /\ InputLen[r] \in Nat
    BY <1>0, <2>1, RequestAssumption DEF Lane, Requests
  <2>3. cached <= InputLen[r]
    BY <1>0, <2>1
  <2> QED BY <2>1, <2>2, <2>3
<1>2. /\ old \in Lane /\ adder.budget \in Int /\ adder.entries \in Seq(Unit)
      /\ adder.chunked \in Seq(Reqs) /\ n = k - 1 /\ n \in Nat
      /\ adder = [lane |-> old, budget |-> adder.budget, reserved |-> adder.reserved,
                  entries |-> adder.entries, chunked |-> adder.chunked, full |-> adder.full]
  BY DEF AdderInv, Adder
<1>3. /\ SameLists(lane, old) /\ \A q \in Reqs : SameRow(lane, old, q)
      /\ \A q \in Reqs : old.req[q].slot # NoSlot =>
                           lane.req[q].slot # NoSlot \/ q \in Range(lane.pending)
      /\ \A i \in 1..n :
           LET e == adder.entries[i] IN
           /\ e.req = lane.pending[i] /\ e.slot = old.req[e.req].slot
           /\ e.start = lane.req[e.req].cached
           /\ e.chunked => e.start + e.ext <= InputLen[e.req]
      /\ IsInjective(adder.chunked)
      /\ \A q \in Range(adder.chunked) :
           \E i \in 1..n : adder.entries[i].req = q /\ adder.entries[i].chunked
  BY DEF AdderInv
<1>4. from.req[r].cached = cached
  BY <1>1, <1>3 DEF SameRow
<1>5. size \in Nat /\ size <= rest /\ cached + size \in Nat
      /\ (size < rest => cached + size <= InputLen[r])
  <2> HIDE DEF rest
  <2>1. size \in {adder.budget, rest} /\ size <= rest
    BY <1>1, <1>2, MinOfTwo
  <2> HIDE DEF size
  <2>2. size \in Nat
    BY <1>1, <1>2, <2>1
  <2> HIDE DEF cached
  <2> QED BY <1>1, <2>1, <2>2 DEF rest
<1>6. unit \in Unit
  BY <1>1, <1>5 DEF Unit
<1>7. next = [lane |-> now, budget |-> adder.budget - size,
              reserved |-> adder.reserved + rest + OutLen[r],
              entries |-> Append(adder.entries, unit),
              chunked |-> IF size < rest THEN Append(adder.chunked, r) ELSE adder.chunked,
              full |-> adder.full]
  <2> DEFINE c == from.req[r].cached
  <2>1. AddOneReq(adder, from, r, slot) =
          [adder EXCEPT
             !.lane = [from EXCEPT !.req[r].slot = slot,
                                   !.req[r].device = c + Min({adder.budget, InputLen[r] - c})],
             !.budget = @ - Min({adder.budget, InputLen[r] - c}),
             !.reserved = @ + (InputLen[r] - c) + OutLen[r],
             !.chunked = IF Min({adder.budget, InputLen[r] - c}) < InputLen[r] - c
                         THEN Append(@, r) ELSE @,
             !.entries = Append(@, [req |-> r, slot |-> slot, start |-> c,
                                    ext |-> Min({adder.budget, InputLen[r] - c}),
                                    chunked |-> Min({adder.budget, InputLen[r] - c}) < InputLen[r] - c])]
    BY DEF AddOneReq
  <2>2. c = cached
    BY <1>4
  <2> HIDE DEF c, cached
  <2>3. AddOneReq(adder, from, r, slot) =
          [adder EXCEPT !.lane = now, !.budget = @ - size,
             !.reserved = @ + rest + OutLen[r],
             !.chunked = IF size < rest THEN Append(@, r) ELSE @,
             !.entries = Append(@, unit)]
    BY <2>1, <2>2
  <2> HIDE DEF now, size, rest, unit
  <2> QED BY ONLY <1>2, <2>3, AdderWith
<1> HIDE DEF next
<1>8. /\ now \in Lane /\ SameLists(old, now) /\ now.slots = from.slots
      /\ \A q \in Reqs : q # r => now.req[q] = old.req[q]
      /\ now.req[r].slot = slot /\ now.req[r].cached = old.req[r].cached
      /\ now.req[r].done = old.req[r].done
  <2> DEFINE rows == [from.req EXCEPT ![r].slot = slot, ![r].device = cached + size]
  <2>1. from.req \in Requests /\ slot \in 0..NumSlots
    BY SizeAssumption DEF Lane, Slots
  <2> HIDE DEF cached, size
  <2>2. /\ rows \in Requests /\ \A q \in Reqs : q # r => rows[q] = from.req[q]
        /\ rows[r].slot = slot /\ rows[r].cached = from.req[r].cached
        /\ rows[r].done = from.req[r].done
    BY <1>1, <1>5, <2>1, ZenonT(60) DEF Requests
  <2>3. now = [from EXCEPT !.req = rows]
    BY ZenonT(60) DEF Lane
  <2> HIDE DEF rows, now
  <2>4. /\ now \in Lane /\ now.req = rows /\ now.slots = from.slots
        /\ now.pending = from.pending /\ now.running = from.running
        /\ now.finished = from.finished /\ now.pages = from.pages
    BY <2>2, <2>3, LaneWith DEF Lane
  <2> QED BY <2>2, <2>4 DEF SameLists
<1> HIDE DEF now
<1>9. SameLists(lane, now)
  BY <1>3, <1>8 DEF SameLists
<1>10. ASSUME NEW q \in Reqs
       PROVE  /\ SameRow(lane, now, q)
              /\ now.req[q].slot # NoSlot => lane.req[q].slot # NoSlot \/ q \in Range(lane.pending)
  <2>1. CASE q = r
    BY <1>1, <1>3, <1>8, <2>1, ZenonT(60) DEF SameRow
  <2>2. CASE q # r
    BY <1>3, <1>8, <2>2 DEF SameRow
  <2> QED BY <2>1, <2>2
<1>11. Rows(now.slots, RowOf(now))
  BY <1>8 DEF RowOf
<1>12. /\ Append(adder.entries, unit) \in Seq(Unit) /\ Len(Append(adder.entries, unit)) = k
       /\ Append(adder.entries, unit)[k] = unit
       /\ \A i \in 1..n : Append(adder.entries, unit)[i] = adder.entries[i]
  <2> HIDE DEF unit
  <2> QED BY <1>2, <1>6, AppendParts
<1>13. ASSUME NEW i \in 1..k
       PROVE  LET e == Append(adder.entries, unit)[i] IN
              /\ e.req = lane.pending[i] /\ e.slot = now.req[e.req].slot
              /\ e.start = lane.req[e.req].cached
              /\ e.chunked => e.start + e.ext <= InputLen[e.req]
  <2>1. CASE i = k
    <3>1. Append(adder.entries, unit)[i] = unit
      BY <1>12, <2>1
    <3>2. /\ unit.req = r /\ unit.slot = slot /\ unit.start = cached /\ unit.ext = size
          /\ unit.chunked = (size < rest)
      OBVIOUS
    <3> HIDE DEF unit, size
    <3>3. unit.chunked => unit.start + unit.ext <= InputLen[r]
      BY <1>5, <3>2
    <3> QED BY <1>8, <2>1, <3>1, <3>2, <3>3, SMTT(30)
  <2>2. CASE i # k
    <3> DEFINE e == adder.entries[i]
    <3>1. i \in 1..n
      BY <1>2, <2>2, SMTT(30)
    <3>2. Append(adder.entries, unit)[i] = e
      BY <1>12, <3>1
    <3>3. /\ e.req = lane.pending[i] /\ e.slot = old.req[e.req].slot
          /\ e.start = lane.req[e.req].cached
          /\ e.chunked => e.start + e.ext <= InputLen[e.req]
      BY <1>3, <3>1
    <3> HIDE DEF e, unit
    <3>4. e.req # r /\ e.req \in Reqs
      BY <1>0, <2>2, <3>3 DEF IsInjective
    <3> QED BY <1>8, <3>2, <3>3, <3>4
  <2> QED BY <2>1, <2>2
<1>14. r \notin Range(adder.chunked)
  <2>1. SUFFICES ASSUME NEW i \in 1..n, adder.entries[i].req = r PROVE FALSE
    BY <1>3
  <2>2. lane.pending[i] = r /\ i # k /\ i \in DOMAIN lane.pending /\ k \in DOMAIN lane.pending
    BY <1>0, <1>2, <1>3, <2>1
  <2> QED BY <1>0, <2>2 DEF IsInjective
<1>15. /\ next.chunked \in Seq(Reqs) /\ IsInjective(next.chunked)
       /\ \A q \in Range(next.chunked) : \E i \in 1..k :
            next.entries[i].req = q /\ next.entries[i].chunked
  <2>1. next.entries = Append(adder.entries, unit)
    BY <1>7
  <2>2. unit.req = r /\ unit.chunked = (size < rest)
    OBVIOUS
  <2>3. next.chunked = IF size < rest THEN Append(adder.chunked, r) ELSE adder.chunked
    BY <1>7
  <2> HIDE DEF unit, size, rest
  <2>4. \A i \in 1..n : next.entries[i] = adder.entries[i] /\ i \in 1..k
    BY <1>2, <1>12, <2>1
  <2>5. next.entries[k] = unit /\ k \in 1..k
    BY <1>12, <2>1
  <2>6. \A q \in Range(adder.chunked) : \E i \in 1..k :
            next.entries[i].req = q /\ next.entries[i].chunked
    BY <1>3, <2>4
  <2>7. CASE size < rest
    <3>1. /\ Append(adder.chunked, r) \in Seq(Reqs)
          /\ Range(Append(adder.chunked, r)) = Range(adder.chunked) \cup {r}
      BY <1>1, <1>2, AppendParts
    <3>2. IsInjective(Append(adder.chunked, r))
      BY <1>1, <1>2, <1>3, <1>14, AppendDistinct
    <3>3. next.chunked = Append(adder.chunked, r) /\ unit.chunked
      BY <2>2, <2>3, <2>7
    <3> QED BY <2>2, <2>5, <2>6, <3>1, <3>2, <3>3
  <2>8. CASE ~(size < rest)
    BY <1>2, <1>3, <2>3, <2>6, <2>8
  <2> QED BY <2>7, <2>8
<1>16. /\ next.lane = now /\ next.entries = Append(adder.entries, unit)
       /\ next.full = adder.full /\ Len(next.entries) = k
  BY <1>7, <1>12, Zenon
<1>17. Adder(next)
  <2>1. next.budget = adder.budget - size /\ next.budget \in Int
    <3> HIDE DEF size
    <3> QED BY <1>2, <1>5, <1>7
  <2>2. adder.full \in BOOLEAN
    BY DEF AdderInv, Adder
  <2>3. next = [lane |-> next.lane, budget |-> next.budget, reserved |-> next.reserved,
                entries |-> next.entries, chunked |-> next.chunked, full |-> next.full]
    <3> HIDE DEF size, rest, unit
    <3> QED BY <1>7
  <2> HIDE DEF unit
  <2> QED BY <1>8, <1>12, <1>15, <1>16, <2>1, <2>2, <2>3 DEF Adder
<1> HIDE DEF unit
<1>18. k \in Int /\ k <= k
  BY SMTT(30)
<1>19. AdderInv(lane, k, next)
  <2>1. SameLists(lane, next.lane) /\ Rows(next.lane.slots, RowOf(next.lane))
    BY <1>9, <1>11, <1>16
  <2>2. /\ \A q \in Reqs : SameRow(lane, next.lane, q)
        /\ \A q \in Reqs : next.lane.req[q].slot # NoSlot =>
             lane.req[q].slot # NoSlot \/ q \in Range(lane.pending)
    BY <1>10, <1>16
  <2>3. \A i \in 1..k :
          LET e == next.entries[i] IN
          /\ e.req = lane.pending[i] /\ e.slot = next.lane.req[e.req].slot
          /\ e.start = lane.req[e.req].cached
          /\ e.chunked => e.start + e.ext <= InputLen[e.req]
    BY <1>13, <1>16, Zenon
  <2> HIDE DEF now
  <2>4. Len(next.entries) <= k /\ (~next.full => Len(next.entries) = k) /\ Len(next.entries) = k
    BY <1>16, <1>18
  <2> QED BY <1>15, <1>17, <2>1, <2>2, <2>3, <2>4 DEF AdderInv
<1> QED BY <1>19 DEF next
LEMMA TryAddParts ==
  ASSUME NEW lane, LaneOK(lane), NEW k \in 1..Len(lane.pending), NEW adder,
         AdderInv(lane, k - 1, adder)
  PROVE  AdderInv(lane, k, TryAddOne(adder, lane.pending[k]))
<1> DEFINE r    == lane.pending[k]
           old  == adder.lane
           shut == adder.full \/ adder.budget <= 0
           next == TryAddOne(adder, r)
           from == [old EXCEPT !.slots = Front(@)]
           mine == old.req[r].slot
<1>1. r \in Reqs
  BY DEF LaneOK, Lane
<1>2. /\ old \in Lane /\ adder.full \in BOOLEAN /\ Rows(old.slots, RowOf(old))
      /\ adder.budget \in Int /\ old.slots \in Seq(Slots) /\ RowOf(old) \in [Reqs -> 0..NumSlots]
      /\ mine = RowOf(old)[r] /\ mine \in 0..NumSlots
  BY <1>1 DEF AdderInv, Adder, RowOf, Lane, Requests
<1>3. \/ shut /\ next = [adder EXCEPT !.full = TRUE]
      \/ ~shut /\ mine # NoSlot /\ next = AddOneReq(adder, old, r, mine)
      \/ ~shut /\ mine = NoSlot /\ HasRoom(adder, r) /\ next = AddOneReq(adder, from, r, Last(old.slots))
      \/ ~shut /\ mine = NoSlot /\ ~HasRoom(adder, r) /\ next = [adder EXCEPT !.full = TRUE]
  BY DEF TryAddOne, IsChunked
<1> HIDE DEF r, next, mine
<1>4. AdderInv(lane, k, [adder EXCEPT !.full = TRUE])
  <2> DEFINE done == [adder EXCEPT !.full = TRUE]
  <2>1. /\ done.lane = adder.lane /\ done.entries = adder.entries /\ done.full = TRUE
        /\ done.chunked = adder.chunked /\ Adder(done)
    BY DEF AdderInv, Adder
  <2>2. Len(adder.entries) <= k
    <3>1. Len(adder.entries) \in Nat /\ Len(adder.entries) <= k - 1 /\ k \in Int
      BY DEF AdderInv, Adder
    <3> DEFINE m == Len(adder.entries)
    <3> HIDE DEF m
    <3> QED BY <3>1 DEF m
  <2> HIDE DEF done
  <2>3. AdderInv(lane, k, done)
    BY <2>1, <2>2 DEF AdderInv
  <2> QED BY <2>3 DEF done
<1>5. CASE ~shut /\ mine # NoSlot /\ next = AddOneReq(adder, old, r, mine)
  <2>1. mine \in Slots
    BY <1>2, <1>5, SizeAssumption DEF Slots, NoSlot
  <2>2. SameLists(adder.lane, old)
    BY DEF SameLists
  <2>3. Rows(old.slots, [RowOf(old) EXCEPT ![r] = mine])
    BY <1>1, <1>2
  <2>4. ~adder.full /\ adder.budget > 0 /\ adder.lane.req[r].slot \in {mine, NoSlot}
    BY <1>2, <1>5 DEF mine
  <2> HIDE DEF old
  <2>5. old \in Lane /\ old.req = adder.lane.req
    BY <1>2 DEF old
  <2> QED BY <1>2, <1>5, <2>1, <2>2, <2>3, <2>4, <2>5, AddOneParts DEF r, next
<1>6. CASE ~shut /\ mine = NoSlot /\ HasRoom(adder, r) /\ next = AddOneReq(adder, from, r, Last(old.slots))
  <2>1. old.slots # <<>>
    BY <1>6 DEF HasRoom
  <2>2. /\ Front(old.slots) \in Seq(Slots) /\ Last(old.slots) \in Slots
        /\ Rows(Front(old.slots), [RowOf(old) EXCEPT ![r] = Last(old.slots)])
    BY <1>1, <1>2, <1>6, <2>1, RowTaken
  <2>3. /\ from \in Lane /\ from.req = old.req /\ from.slots = Front(old.slots)
        /\ from.pending = old.pending /\ from.running = old.running
        /\ from.finished = old.finished /\ from.pages = old.pages
    BY <1>2, <2>2 DEF Lane
  <2>4. SameLists(adder.lane, from)
    BY <2>3 DEF SameLists
  <2> HIDE DEF from
  <2>5. RowOf(from) = RowOf(old)
    BY <2>3 DEF RowOf
  <2>6. ~adder.full /\ adder.budget > 0 /\ adder.lane.req[r].slot \in {Last(old.slots), NoSlot}
    BY <1>2, <1>6 DEF mine
  <2> DEFINE slot == Last(old.slots)
  <2>7. slot \in Slots /\ Rows(from.slots, [RowOf(from) EXCEPT ![r] = slot])
        /\ adder.lane.req[r].slot \in {slot, NoSlot} /\ from.req = adder.lane.req
        /\ next = AddOneReq(adder, from, r, slot)
    BY <1>6, <2>2, <2>3, <2>5, <2>6
  <2> HIDE DEF slot
  <2> QED BY <2>3, <2>4, <2>6, <2>7, AddOneParts DEF r, next
<1> QED BY <1>3, <1>4, <1>5, <1>6 DEF r, next

(* The requests of a batch and the lane it leaves behind.                  *)
BatchOK(lane, b) ==
  /\ LaneOK(b.lane) /\ b.lane.finished = lane.finished /\ b.lane.running = lane.running
  /\ b.lane.pages = lane.pages
  /\ Range(b.lane.pending) \subseteq Range(lane.pending)
  /\ \A r \in Reqs : SameRow(lane, b.lane, r) /\ (Present(b.lane, r) => Present(lane, r))
  /\ b.entries \in Seq(Unit)
  /\ \A i \in 1..Len(b.entries) :
       LET e == b.entries[i] IN
       /\ e.slot = b.lane.req[e.req].slot /\ e.start = b.lane.req[e.req].cached
       /\ e.chunked => e.start + e.ext <= InputLen[e.req] /\ e.req \notin b.lane.running
       /\ ~e.chunked => e.req \notin Range(b.lane.pending)
  /\ \A i, j \in 1..Len(b.entries) : b.entries[i].req = b.entries[j].req => i = j

LEMMA AdderRuns ==
  ASSUME NEW lane, LaneOK(lane)
  PROVE  AdderInv(lane, Len(lane.pending), FoldLeft(TryAddOne, NewAdder(lane), lane.pending))
<1> DEFINE n == Len(lane.pending)
<1>1. lane \in Lane /\ lane.pending \in Seq(Reqs) /\ n \in Nat /\ Rows(lane.slots, RowOf(lane))
  BY DEF LaneOK, Lane
<1>2. PICK acc : /\ acc[0] = NewAdder(lane)
                 /\ \A i \in 1..n : acc[i] = TryAddOne(acc[i - 1], lane.pending[i])
                 /\ FoldLeft(TryAddOne, NewAdder(lane), lane.pending) = acc[n]
  <2>1. FoldLeft(TryAddOne, NewAdder(lane), lane.pending) =
          Folded!Fold(NewAdder(lane), lane.pending)
    BY DEF FoldLeft, MapThenFoldSet, Max, Folded!Fold, Folded!LastOf
  <2> DEFINE base == NewAdder(lane)
             seq  == lane.pending
  <2> HIDE DEF base
  <2>2. \E acc : /\ acc[0] = base
                 /\ \A i \in 1..Len(seq) : acc[i] = TryAddOne(acc[i - 1], seq[i])
                 /\ Folded!Fold(base, seq) = acc[Len(seq)]
    BY <1>1, Folded!FoldSteps, Zenon
  <2> QED BY <2>1, <2>2, Zenon DEF base
<1>3. AdderInv(lane, 0, NewAdder(lane))
  <2> DEFINE a == NewAdder(lane)
             v == InflightTokens(lane)
  <2>1. /\ a.lane = lane /\ a.budget = PrefillBudget /\ a.entries = <<>> /\ a.chunked = <<>>
        /\ a.full = FALSE /\ a.reserved = v
        /\ a = [lane |-> lane, budget |-> PrefillBudget, reserved |-> v, entries |-> <<>>,
                chunked |-> <<>>, full |-> FALSE]
    BY DEF NewAdder
  <2> HIDE DEF a, v
  <2>2. Adder(a)
    BY <1>1, <2>1, SizeAssumption DEF Adder
  <2>3. Len(a.entries) = 0 /\ Range(a.chunked) = {} /\ IsInjective(a.chunked)
    BY <2>1 DEF Range, IsInjective
  <2> QED BY <1>1, <2>1, <2>2, <2>3 DEF AdderInv, SameLists, SameRow, a
<1> HIDE DEF n
<1> DEFINE Good == {i \in 0..n : AdderInv(lane, i, acc[i])}
<1>4. 0 \in Good
  BY <1>1, <1>2, <1>3
<1>5. ASSUME NEW i \in 1..n, i - 1 \in Good PROVE i \in Good
  BY <1>1, <1>2, <1>5, TryAddParts DEF n
<1> HIDE DEF Good
<1>6. \A i \in 0..n : i \in Good
  BY <1>1, <1>4, <1>5, Folded!UpTo
<1>7. n \in Good /\ n \in 0..n
  BY <1>1, <1>6
<1> QED BY <1>2, <1>7 DEF Good, n

(* PrefillManager.schedule_next_batch                                      *)
LEMMA PrefillParts ==
  ASSUME NEW lane, LaneOK(lane)
  PROVE  BatchOK(lane, PrefillBatch(lane))
<1> DEFINE adder == FoldLeft(TryAddOne, NewAdder(lane), lane.pending)
           old   == adder.lane
           n     == Len(lane.pending)
           m     == Len(adder.entries)
           rest  == SubSeq(lane.pending, m + 1, n)
           now   == [old EXCEPT !.pending = adder.chunked \o rest]
           b     == PrefillBatch(lane)
<1>0. /\ lane \in Lane /\ lane.pending \in Seq(Reqs) /\ n \in Nat /\ DOMAIN lane.pending = 1..n
      /\ IsInjective(lane.pending)
      /\ \A q \in Range(lane.pending) : /\ q \notin lane.running
                                        /\ lane.req[q].cached <= InputLen[q]
                                        /\ lane.req[q].slot = NoSlot => lane.req[q].cached = 0
      /\ \A q \in lane.running : lane.req[q].slot # NoSlot
      /\ \A q \in lane.finished : ~Present(lane, q)
      /\ Balance(lane, NumPages)
      /\ lane.finished \subseteq Reqs /\ lane.running \subseteq Reqs
  BY DEF LaneOK, Lane
<1>1. AdderInv(lane, n, adder)
  BY AdderRuns
<1>2. b = [lane |-> now, entries |-> adder.entries]
  BY DEF PrefillBatch
<1> HIDE DEF adder, b
<1>3. /\ old \in Lane /\ adder.entries \in Seq(Unit) /\ adder.chunked \in Seq(Reqs)
      /\ m \in Nat /\ m <= n /\ SameLists(lane, old)
      /\ \A r \in Reqs : SameRow(lane, old, r)
      /\ \A r \in Reqs : old.req[r].slot # NoSlot =>
                           lane.req[r].slot # NoSlot \/ r \in Range(lane.pending)
      /\ Rows(old.slots, RowOf(old))
      /\ IsInjective(adder.chunked)
      /\ \A r \in Range(adder.chunked) :
           \E i \in 1..m : adder.entries[i].req = r /\ adder.entries[i].chunked
  BY <1>1 DEF AdderInv, Adder
<1>4. \A i \in 1..m :
        /\ adder.entries[i].req = lane.pending[i]
        /\ adder.entries[i].slot = old.req[adder.entries[i].req].slot
        /\ adder.entries[i].start = lane.req[adder.entries[i].req].cached
        /\ adder.entries[i].chunked =>
             adder.entries[i].start + adder.entries[i].ext <= InputLen[adder.entries[i].req]
  BY <1>1 DEF AdderInv
<1> HIDE DEF old, n, m
<1>5. /\ rest \in Seq(Reqs) /\ Len(rest) = n - m
      /\ \A i \in 1..(n - m) : rest[i] = lane.pending[m + i]
  BY <1>0, <1>3
<1>6. /\ \A i, j \in 1..n : lane.pending[i] = lane.pending[j] => i = j
      /\ \A i \in 1..n : lane.pending[i] \in Range(lane.pending) /\ lane.pending[i] \in Reqs
  BY <1>0 DEF IsInjective, Range
<1>7. \A r \in Range(adder.chunked) : \E i \in 1..m : lane.pending[i] = r /\ adder.entries[i].chunked
  BY <1>3, <1>4
<1> HIDE DEF rest
<1> DEFINE p == adder.chunked \o rest
           l == Len(adder.chunked)
<1>8. /\ p \in Seq(Reqs) /\ Len(p) = l + (n - m) /\ l \in Nat
      /\ \A i \in 1..l : p[i] = adder.chunked[i] /\ p[i] \in Range(adder.chunked)
      /\ \A i \in (l + 1)..(l + (n - m)) : p[i] = rest[i - l]
  <2>1. /\ p \in Seq(Reqs) /\ Len(p) = l + (n - m) /\ l \in Nat
        /\ \A i \in 1..l : p[i] = adder.chunked[i]
        /\ \A i \in (l + 1)..(l + (n - m)) : p[i] = rest[i - l]
    <3> DEFINE c == adder.chunked
    <3>1. c \in Seq(Reqs) /\ l = Len(c)
      BY <1>3
    <3> HIDE DEF c
    <3>2. /\ c \o rest \in Seq(Reqs) /\ Len(c \o rest) = Len(c) + Len(rest)
          /\ \A i \in 1..(Len(c) + Len(rest)) :
               (c \o rest)[i] = IF i <= Len(c) THEN c[i] ELSE rest[i - Len(c)]
      BY <1>5, <3>1, ConcatProperties, Zenon
    <3>3. l \in Nat /\ n - m \in Nat
      BY <1>0, <1>3, <3>1
    <3> HIDE DEF l
    <3> DEFINE q == c \o rest
    <3>4. p = q
      BY DEF c
    <3> HIDE DEF q, p
    <3>5. \A i \in 1..(l + (n - m)) : q[i] = IF i <= l THEN c[i] ELSE rest[i - l]
      BY <1>5, <3>1, <3>2 DEF q
    <3>6. q \in Seq(Reqs) /\ Len(q) = l + (n - m)
      BY <1>5, <3>1, <3>2 DEF q
    <3>7. \A i \in 1..l : i \in 1..(l + (n - m)) /\ i <= l
      BY <3>3
    <3>8. \A i \in (l + 1)..(l + (n - m)) : i \in 1..(l + (n - m)) /\ ~(i <= l)
      BY <3>3
    <3> QED BY <3>3, <3>4, <3>5, <3>6, <3>7, <3>8 DEF c
  <2>2. \A i \in 1..l : adder.chunked[i] \in Range(adder.chunked)
    BY <1>3 DEF Range
  <2> QED BY <2>1, <2>2
<1> HIDE DEF p, l
<1>9. ASSUME NEW i \in (l + 1)..(l + (n - m))
      PROVE  /\ m + (i - l) \in 1..n /\ m + (i - l) \notin 1..m
             /\ p[i] = lane.pending[m + (i - l)]
  <2>1. i - l \in 1..(n - m) /\ m + (i - l) \in 1..n /\ m + (i - l) \notin 1..m
    BY <1>0, <1>3, <1>8
  <2> QED BY <1>5, <1>8, <2>1
<1>10. DOMAIN p = 1..(l + (n - m)) /\ \A i \in DOMAIN p : i \in 1..l \/ i \in (l + 1)..(l + (n - m))
  BY <1>0, <1>3, <1>8
<1>11. IsInjective(p)
  <2>1. SUFFICES ASSUME NEW i \in DOMAIN p, NEW j \in DOMAIN p, p[i] = p[j] PROVE i = j
    BY DEF IsInjective
  <2>2. CASE i \in 1..l /\ j \in 1..l
    BY <1>3, <1>8, <2>1, <2>2 DEF l, IsInjective
  <2>3. \A a \in 1..l, c \in (l + 1)..(l + (n - m)) : p[a] # p[c]
    <3>1. SUFFICES ASSUME NEW a \in 1..l, NEW c \in (l + 1)..(l + (n - m)), p[a] = p[c] PROVE FALSE
      OBVIOUS
    <3>2. PICK d \in 1..m : lane.pending[d] = p[a]
      BY <1>7, <1>8
    <3>3. d \in 1..n
      BY <1>0, <1>3
    <3>4. p[c] = lane.pending[m + (c - l)] /\ m + (c - l) \in 1..n /\ m + (c - l) \notin 1..m
      BY <1>9
    <3> QED BY <1>6, <3>1, <3>2, <3>3, <3>4
  <2>4. CASE i \in (l + 1)..(l + (n - m)) /\ j \in (l + 1)..(l + (n - m))
    <3> DEFINE a == m + (i - l)
               c == m + (j - l)
    <3>1. a \in 1..n /\ c \in 1..n /\ p[i] = lane.pending[a] /\ p[j] = lane.pending[c]
      BY <1>9, <2>4
    <3> HIDE DEF a, c
    <3>2. a = c
      BY <1>6, <2>1, <3>1
    <3> QED BY <1>3, <1>8, <2>4, <3>2 DEF a, c
  <2> QED BY <1>10, <2>1, <2>2, <2>3, <2>4
<1>12. ASSUME NEW r \in Range(p)
       PROVE  /\ r \in Range(lane.pending) /\ r \in Reqs
              /\ \A i \in 1..m : lane.pending[i] = r => adder.entries[i].chunked
  <2>1. PICK i \in DOMAIN p : p[i] = r
    BY <1>12 DEF Range
  <2>2. CASE i \in 1..l
    <3>1. PICK d \in 1..m : lane.pending[d] = r /\ adder.entries[d].chunked
      BY <1>7, <1>8, <2>1, <2>2
    <3>2. \A c \in 1..m : c \in 1..n
      BY <1>0, <1>3
    <3> QED BY <1>6, <3>1, <3>2
  <2>3. CASE i \in (l + 1)..(l + (n - m))
    <3> DEFINE c == m + (i - l)
    <3>1. c \in 1..n /\ c \notin 1..m /\ r = lane.pending[c]
      BY <1>9, <2>1, <2>3
    <3>2. \A d \in 1..m : d \in 1..n
      BY <1>0, <1>3
    <3> HIDE DEF c
    <3> QED BY <1>6, <3>1, <3>2
  <2> QED BY <1>10, <2>1, <2>2, <2>3
<1>13. /\ now \in Lane /\ now.pending = p /\ now.req = old.req /\ now.slots = old.slots
       /\ now.running = lane.running /\ now.finished = lane.finished /\ now.pages = lane.pages
  <2>1. now = [old EXCEPT !.pending = p]
    BY DEF p
  <2> HIDE DEF now
  <2> QED BY <1>3, <1>8, <2>1 DEF Lane, SameLists
<1> HIDE DEF now
<1>14. LaneOK(now)
  <2>1. ASSUME NEW q \in Range(now.pending)
        PROVE  /\ q \notin now.running /\ now.req[q].cached <= InputLen[q]
               /\ now.req[q].slot = NoSlot => now.req[q].cached = 0
    BY <1>0, <1>3, <1>12, <1>13, <2>1 DEF SameRow
  <2>2. ASSUME NEW q \in now.running PROVE now.req[q].slot # NoSlot
    BY <1>0, <1>3, <1>13, <2>2 DEF SameRow
  <2>3. ASSUME NEW q \in now.finished PROVE ~Present(now, q)
    BY <1>0, <1>3, <1>12, <1>13, <2>3 DEF Present
  <2>4. Rows(now.slots, RowOf(now))
    BY <1>3, <1>13 DEF RowOf
  <2>5. Balance(now, NumPages)
    <3>1. ASSUME NEW q \in Reqs PROVE PagesHeld(now)[q] = PagesHeld(lane)[q]
      <4>1. SameRow(lane, old, q) /\ (old.req[q].slot # NoSlot =>
                           lane.req[q].slot # NoSlot \/ q \in Range(lane.pending))
        BY <1>3
      <4>2. CASE lane.req[q].slot # NoSlot
        BY <1>13, <4>1, <4>2 DEF SameRow, PagesHeld
      <4>3. CASE old.req[q].slot = NoSlot
        BY <1>13, <4>1, <4>3 DEF SameRow, PagesHeld
      <4>4. CASE lane.req[q].slot = NoSlot /\ old.req[q].slot # NoSlot
        BY <1>0, <1>13, <4>1, <4>4, PagesNat DEF SameRow, PagesHeld
      <4> QED BY <4>2, <4>3, <4>4
    <3>2. PagesHeld(now) = PagesHeld(lane)
      BY <3>1 DEF PagesHeld
    <3> QED BY <1>0, <1>13, <3>2, BalanceStays
  <2> QED BY <1>11, <1>13, <2>1, <2>2, <2>3, <2>4, <2>5 DEF LaneOK
<1>15. ASSUME NEW r \in Reqs
       PROVE  SameRow(lane, now, r) /\ (Present(now, r) => Present(lane, r))
  BY <1>3, <1>12, <1>13 DEF SameRow, Present
<1>16. Range(now.pending) \subseteq Range(lane.pending)
  BY <1>12, <1>13
<1>17. ASSUME NEW i \in 1..m
       PROVE  LET e == adder.entries[i] IN
              /\ e.slot = now.req[e.req].slot /\ e.start = now.req[e.req].cached
              /\ e.chunked => e.start + e.ext <= InputLen[e.req] /\ e.req \notin now.running
              /\ ~e.chunked => e.req \notin Range(now.pending)
  <2> DEFINE e == adder.entries[i]
  <2>1. /\ e.req = lane.pending[i] /\ e.slot = old.req[e.req].slot
        /\ e.start = lane.req[e.req].cached
        /\ e.chunked => e.start + e.ext <= InputLen[e.req]
    BY <1>4
  <2>2. i \in 1..n
    BY <1>0, <1>3
  <2>3. e.req \in Range(lane.pending) /\ e.req \in Reqs
    BY <1>6, <2>1, <2>2
  <2>4. SameRow(lane, old, e.req)
    BY <1>3, <2>3
  <2>5. ~e.chunked => e.req \notin Range(now.pending)
    BY <1>12, <1>13, <2>1
  <2> HIDE DEF e
  <2>6. /\ e.slot = now.req[e.req].slot /\ e.start = now.req[e.req].cached
        /\ e.chunked => e.start + e.ext <= InputLen[e.req] /\ e.req \notin now.running
    BY <1>0, <1>13, <2>1, <2>3, <2>4 DEF SameRow
  <2> QED BY <2>5, <2>6 DEF e
<1>18. ASSUME NEW i \in 1..m, NEW j \in 1..m, adder.entries[i].req = adder.entries[j].req
       PROVE  i = j
  BY <1>0, <1>3, <1>4, <1>6, <1>18
<1>19. b.lane = now /\ b.entries = adder.entries
  BY <1>2
<1>20. BatchOK(lane, b)
  BY <1>3, <1>13, <1>14, <1>15, <1>16, <1>17, <1>18, <1>19 DEF BatchOK, m
<1> QED BY <1>20 DEF b

(* The order of the uids exists, and lists each of them once.              *)
LEMMA OrderParts ==
  ASSUME NEW uids \in SUBSET Reqs
  PROVE  /\ InOrder(uids) \in Seq(uids)
         /\ \A i, j \in 1..Len(InOrder(uids)) : InOrder(uids)[i] = InOrder(uids)[j] => i = j
<1> DEFINE Rising(s) == \A i, j \in DOMAIN s : i < j => s[i] < s[j]
           Good == {U \in SUBSET uids : \E s \in [1..Cardinality(U) -> U] : Rising(s)}
<1>1. IsFiniteSet(uids) /\ uids \in SUBSET Nat
  BY RequestAssumption, FS_Subset
<1>2. {} \in Good
  <2>1. Cardinality({}) = 0
    BY FS_EmptySet
  <2> DEFINE s == [i \in 1..0 |-> 0]
  <2>2. s \in [1..0 -> {}] /\ Rising(s)
    OBVIOUS
  <2> HIDE DEF s
  <2> QED BY <2>1, <2>2
<1>3. ASSUME NEW U \in SUBSET uids, U # {}, \A x \in U : U \ {x} \in Good PROVE U \in Good
  <2>1. PICK m \in U : \A k \in U : m <= k
    BY <1>1, <1>3, Folded!LeastOf
  <2>2. PICK s \in [1..Cardinality(U \ {m}) -> U \ {m}] : Rising(s)
    BY <1>3
  <2> DEFINE c == Cardinality(U)
             t == [i \in 1..c |-> IF i = 1 THEN m ELSE s[i - 1]]
  <2>3. IsFiniteSet(U) /\ IsFiniteSet(U \ {m})
    BY <1>1, FS_Subset
  <2>4. c \in Nat /\ Cardinality(U \ {m}) = c - 1
    BY <2>3, FS_CardinalityType, FS_RemoveElement
  <2> HIDE DEF c
  <2>5. \A i \in 1..c : i # 1 => i - 1 \in DOMAIN s /\ s[i - 1] \in U \ {m} /\ s[i - 1] \in Nat
    <3>1. s \in [1..(c - 1) -> U \ {m}] /\ U \ {m} \subseteq Nat
      BY <1>1, <2>2, <2>4
    <3> HIDE DEF Rising
    <3>2. ASSUME NEW i \in 1..c, i # 1 PROVE i - 1 \in 1..(c - 1)
      BY <2>4, <3>2
    <3> QED BY ONLY <3>1, <3>2
  <2>6. t \in [1..c -> U]
    BY <2>5
  <2>7. ASSUME NEW i \in 1..c, NEW j \in 1..c, i < j PROVE t[i] < t[j]
    <3>1. j # 1 /\ t[j] = s[j - 1] /\ s[j - 1] \in U \ {m} /\ s[j - 1] \in Nat /\ j - 1 \in DOMAIN s
      BY <2>4, <2>5, <2>7
    <3>2. CASE i = 1
      <4>1. t[i] = m /\ m <= s[j - 1] /\ m # s[j - 1] /\ m \in Nat
        BY <1>1, <2>1, <3>1, <3>2
      <4> HIDE DEF t
      <4> QED BY <3>1, <4>1
    <3>3. CASE i # 1
      <4>1. t[i] = s[i - 1] /\ i - 1 \in DOMAIN s /\ i - 1 < j - 1
        BY <2>4, <2>5, <2>7, <3>3
      <4> HIDE DEF t
      <4> QED BY <2>2, <3>1, <4>1
    <3> QED BY <3>2, <3>3
  <2>8. Rising(t)
    <3>1. DOMAIN t = 1..c
      OBVIOUS
    <3> HIDE DEF t
    <3> QED BY <2>7, <3>1
  <2> HIDE DEF t, Rising
  <2> QED BY <2>6, <2>8 DEF c
<1> HIDE DEF Good
<1>4. uids \in Good
  BY <1>1, <1>2, <1>3, SetInduction
<1> DEFINE s == InOrder(uids)
<1>5. s \in [1..Cardinality(uids) -> uids] /\ Rising(s)
  BY <1>4 DEF InOrder, Good
<1> HIDE DEF s
<1>6. Cardinality(uids) \in Nat
  BY <1>1, FS_CardinalityType
<1>7. s \in Seq(uids) /\ Len(s) = Cardinality(uids)
  BY <1>5, <1>6
<1>8. ASSUME NEW i \in 1..Len(s), NEW j \in 1..Len(s), s[i] = s[j] PROVE i = j
  <2>1. s[i] \in Nat /\ s[j] \in Nat
    BY <1>1, <1>5, <1>7
  <2>2. \A a, c \in 1..Len(s) : a < c => s[a] < s[c]
    BY <1>5, <1>7
  <2>3. ~(i < j) /\ ~(j < i)
    BY <1>8, <2>1, <2>2
  <2> QED BY <2>3
<1> QED BY <1>7, <1>8 DEF s

(* DecodeManager.schedule_next_batch                                       *)
LEMMA DecodeParts ==
  ASSUME NEW lane, LaneOK(lane)
  PROVE  BatchOK(lane, DecodeBatch(lane))
<1> DEFINE uids == InOrder(lane.running)
           b    == DecodeBatch(lane)
           n    == Len(uids)
<1>0. /\ lane \in Lane /\ lane.running \subseteq Reqs
      /\ \A q \in Range(lane.pending) : q \notin lane.running
      /\ \A q \in lane.running : lane.req[q].slot # NoSlot
  BY DEF LaneOK, Lane
<1>1. uids \in Seq(lane.running) /\ \A i, j \in 1..n : uids[i] = uids[j] => i = j
  BY <1>0, OrderParts
<1>2. b.lane = lane /\ b.entries = [i \in DOMAIN uids |->
                  [req |-> uids[i], slot |-> lane.req[uids[i]].slot,
                   start |-> lane.req[uids[i]].cached, ext |-> 1, chunked |-> FALSE]]
  BY DEF DecodeBatch
<1> HIDE DEF uids, b, n
<1>3. DOMAIN uids = 1..n /\ n \in Nat /\ \A i \in 1..n : uids[i] \in lane.running
  BY <1>1 DEF n
<1>4. ASSUME NEW i \in 1..n
      PROVE  /\ b.entries[i] = [req |-> uids[i], slot |-> lane.req[uids[i]].slot,
                               start |-> lane.req[uids[i]].cached, ext |-> 1, chunked |-> FALSE]
             /\ b.entries[i] \in Unit
  BY <1>0, <1>2, <1>3, SizeAssumption DEF Lane, Requests, Slots, NoSlot, Unit
<1> DEFINE es == b.entries
<1>5. DOMAIN es = 1..n /\ es = [i \in 1..n |-> es[i]]
  BY <1>2, <1>3
<1>6. \A i \in 1..n :
        /\ es[i] \in Unit /\ es[i].slot = lane.req[es[i].req].slot
        /\ es[i].start = lane.req[es[i].req].cached
        /\ es[i].req = uids[i] /\ es[i].chunked = FALSE
  <2> SUFFICES ASSUME NEW i \in 1..n
               PROVE  /\ es[i] \in Unit /\ es[i].slot = lane.req[es[i].req].slot
                      /\ es[i].start = lane.req[es[i].req].cached
                      /\ es[i].req = uids[i] /\ es[i].chunked = FALSE
    OBVIOUS
  <2>1. es[i] = [req |-> uids[i], slot |-> lane.req[uids[i]].slot,
                 start |-> lane.req[uids[i]].cached, ext |-> 1, chunked |-> FALSE]
        /\ es[i] \in Unit
    BY <1>4
  <2> DEFINE e == es[i]
  <2> HIDE DEF e
  <2>2. /\ e.req = uids[i] /\ e.slot = lane.req[uids[i]].slot
        /\ e.start = lane.req[uids[i]].cached /\ e.chunked = FALSE
    BY <2>1 DEF e
  <2> QED BY <2>1, <2>2 DEF e
<1> HIDE DEF es
<1>7. es \in Seq(Unit) /\ Len(es) = n
  <2>1. \A i \in 1..n : es[i] \in Unit
    BY <1>6
  <2> QED BY ONLY <1>3, <1>5, <2>1
<1>8. \A i \in 1..n : es[i].req \notin Range(lane.pending)
  BY <1>0, <1>3, <1>6
<1>9. \A i, j \in 1..n : es[i].req = es[j].req => i = j
  BY <1>1, <1>6
<1>10. \A r \in Reqs : SameRow(lane, lane, r)
  BY DEF SameRow
<1>11. BatchOK(lane, b)
  BY <1>2, <1>6, <1>7, <1>8, <1>9, <1>10, Zenon DEF BatchOK, es
<1> QED BY <1>11 DEF b

LEMMA ScheduleParts ==
  ASSUME NEW lane, LaneOK(lane), NEW phase
  PROVE  BatchOK(lane, Schedule(lane, phase))
BY PrefillParts, DecodeParts DEF Schedule
-----------------------------------------------------------------------------
(* A launch: the requests of the batch advance, and their pages with them. *)
LEMMA UnitPages ==
  ASSUME NEW e \in Unit
  PROVE  PagesOf(e) \in Int
<1>1. e.start \in Nat /\ e.start + e.ext \in Nat
  BY DEF Unit
<1> QED BY <1>1, PagesNat DEF PagesOf

LEMMA RunOneParts ==
  ASSUME NEW lane \in Lane, NEW e \in Unit, lane.req[e.req].slot # NoSlot
  PROVE  LET next == LaunchedOne(lane, e)
         IN  /\ next \in Lane
             /\ next.pending = lane.pending /\ next.slots = lane.slots
             /\ next.pages = lane.pages /\ next.finished = lane.finished
             /\ \A q \in Reqs : q # e.req => /\ next.req[q] = lane.req[q]
                                             /\ q \in next.running <=> q \in lane.running
             /\ next.req[e.req].slot = lane.req[e.req].slot
             /\ next.req[e.req].done = lane.req[e.req].done
             /\ next.req[e.req].cached = e.start + e.ext
             /\ e.chunked => e.req \notin next.running
             /\ \A n \in Int : Balance(lane, n) /\ lane.req[e.req].cached = e.start =>
                                 Balance(next, n + PagesOf(e))
<1> DEFINE r    == e.req
           len  == e.start + e.ext
           rows == [lane.req EXCEPT ![r].cached = len, ![r].device = len + 1]
           mid  == [lane EXCEPT !.req = rows]
           run  == IF CanDecode(mid, e) THEN mid.running \union {r} ELSE mid.running \ {r}
           next == LaunchedOne(lane, e)
<1>1. r \in Reqs /\ e.start \in Nat /\ len \in Nat /\ len + 1 \in Nat
  BY DEF Unit
<1>2. next = [mid EXCEPT !.running = run]
  <2> DEFINE m == [lane EXCEPT !.req[r].cached = len, !.req[r].device = len + 1]
  <2>1. next = [m EXCEPT !.running = IF CanDecode(m, e) THEN @ \union {r} ELSE @ \ {r}]
    BY DEF LaunchedOne
  <2>2. m = mid
    <3> HIDE DEF len, r
    <3> QED BY DEF Lane
  <2> HIDE DEF m, mid
  <2> QED BY <2>1, <2>2
<1> HIDE DEF len, next
<1>3. /\ rows \in Requests /\ rows[r].cached = len /\ rows[r].slot = lane.req[r].slot
      /\ rows[r].done = lane.req[r].done
      /\ \A q \in Reqs : q # r => rows[q] = lane.req[q]
  BY <1>1 DEF Lane, Requests
<1> HIDE DEF rows
<1>4. /\ mid \in Lane /\ mid.req = rows /\ mid.pending = lane.pending /\ mid.slots = lane.slots
      /\ mid.pages = lane.pages /\ mid.finished = lane.finished /\ mid.running = lane.running
  BY <1>3 DEF Lane
<1>5. e.chunked => ~CanDecode(mid, e)
  BY DEF CanDecode
<1> HIDE DEF mid
<1>6. /\ run \in SUBSET Reqs /\ (e.chunked => r \notin run)
      /\ \A q \in Reqs : q # r => (q \in run <=> q \in lane.running)
  BY <1>1, <1>4, <1>5 DEF Lane
<1> HIDE DEF run
<1>7. /\ next \in Lane /\ next.req = rows /\ next.pending = lane.pending /\ next.slots = lane.slots
      /\ next.pages = lane.pages /\ next.finished = lane.finished /\ next.running = run
  BY <1>2, <1>4, <1>6 DEF Lane
<1>8. ASSUME NEW n \in Int, Balance(lane, n), lane.req[r].cached = e.start
      PROVE  Balance(next, n + PagesOf(e))
  <2>1. \A q \in Reqs : q # r => PagesHeld(next)[q] = PagesHeld(lane)[q]
    BY <1>3, <1>7 DEF PagesHeld
  <2>2. PagesHeld(next)[r] = PagesFor(len) /\ PagesHeld(lane)[r] = PagesFor(e.start)
    BY <1>1, <1>3, <1>7, <1>8 DEF PagesHeld
  <2>3. Balance(next, n + (next.pages - lane.pages) + (PagesHeld(next)[r] - PagesHeld(lane)[r]))
    <3> HIDE DEF r
    <3> QED BY <1>1, <1>7, <1>8, <2>1, BalanceMoves
  <2>4. PagesOf(e) = PagesFor(len) - PagesFor(e.start)
    BY DEF PagesOf, len
  <2>5. PagesFor(len) \in Nat /\ PagesFor(e.start) \in Nat /\ lane.pages \in Int
    BY <1>1, PagesNat DEF Lane
  <2>6. n + (next.pages - lane.pages) + (PagesHeld(next)[r] - PagesHeld(lane)[r]) = n + PagesOf(e)
    BY <1>7, <2>2, <2>4, <2>5
  <2> QED BY <2>3, <2>6
<1> QED BY <1>3, <1>6, <1>7, <1>8 DEF len, next

RunInv(b, k, lane, debt) ==
  /\ lane \in Lane
  /\ lane.pending = b.lane.pending /\ lane.slots = b.lane.slots /\ lane.finished = b.lane.finished
  /\ \A r \in Reqs : lane.req[r].slot = b.lane.req[r].slot /\ lane.req[r].done = b.lane.req[r].done
  /\ \A r \in Reqs :
       \/ /\ lane.req[r].cached = b.lane.req[r].cached
          /\ r \in lane.running <=> r \in b.lane.running
       \/ \E i \in 1..k : /\ b.entries[i].req = r
                          /\ lane.req[r].cached = b.entries[i].start + b.entries[i].ext
                          /\ b.entries[i].chunked => r \notin lane.running
  /\ \A i \in (k + 1)..Len(b.entries) :
       lane.req[b.entries[i].req].cached = b.lane.req[b.entries[i].req].cached
  /\ Balance(lane, NumPages - debt)

LEMMA RunStep ==
  ASSUME NEW lane0, NEW b, BatchOK(lane0, b), NEW k \in 1..Len(b.entries), NEW lane, NEW debt \in Int,
         RunInv(b, k - 1, lane, debt)
  PROVE  RunInv(b, k, LaunchedOne(lane, b.entries[k]), debt - PagesOf(b.entries[k]))
<1> DEFINE e == b.entries[k]
           n == Len(b.entries)
           r == e.req
           next == LaunchedOne(lane, e)
<1>1. /\ e \in Unit /\ n \in Nat /\ \A i \in 1..n : b.entries[i] \in Unit
      /\ e.slot = b.lane.req[r].slot /\ e.start = b.lane.req[r].cached
      /\ \A i \in 1..n : b.entries[i].req = r => i = k
  BY DEF BatchOK
<1>2. /\ lane \in Lane /\ lane.req[r].slot # NoSlot /\ lane.req[r].cached = e.start /\ r \in Reqs
      /\ PagesOf(e) \in Int /\ NumPages - debt \in Int
  <2>1. r \in Reqs /\ e.slot # NoSlot
    BY <1>1, SizeAssumption DEF Unit, Slots, NoSlot
  <2>2. lane \in Lane /\ lane.req[r].slot = b.lane.req[r].slot
    BY <2>1 DEF RunInv
  <2>3. lane.req[r].cached = b.lane.req[r].cached
    BY <1>1 DEF RunInv
  <2> QED BY <1>1, <2>1, <2>2, <2>3, UnitPages, SizeAssumption
<1> HIDE DEF e
<1>3. /\ next \in Lane
      /\ next.pending = lane.pending /\ next.slots = lane.slots
      /\ next.pages = lane.pages /\ next.finished = lane.finished
      /\ \A q \in Reqs : q # r => /\ next.req[q] = lane.req[q]
                                  /\ q \in next.running <=> q \in lane.running
      /\ next.req[r].slot = lane.req[r].slot
      /\ next.req[r].done = lane.req[r].done
      /\ next.req[r].cached = e.start + e.ext
      /\ e.chunked => r \notin next.running
      /\ \A m \in Int : Balance(lane, m) => Balance(next, m + PagesOf(e))
  BY <1>1, <1>2, RunOneParts
<1> HIDE DEF next
<1>4. Balance(next, NumPages - (debt - PagesOf(e)))
  BY <1>2, <1>3, SizeAssumption DEF RunInv
<1>5. /\ next.pending = b.lane.pending /\ next.slots = b.lane.slots
      /\ next.finished = b.lane.finished
      /\ \A q \in Reqs : next.req[q].slot = b.lane.req[q].slot /\ next.req[q].done = b.lane.req[q].done
  BY <1>3 DEF RunInv
<1>6. ASSUME NEW q \in Reqs
      PROVE  \/ /\ next.req[q].cached = b.lane.req[q].cached
                /\ q \in next.running <=> q \in b.lane.running
             \/ \E i \in 1..k : /\ b.entries[i].req = q
                                /\ next.req[q].cached = b.entries[i].start + b.entries[i].ext
                                /\ b.entries[i].chunked => q \notin next.running
  <2>1. CASE q = r
    BY <1>3, <2>1 DEF e
  <2>2. CASE q # r
    <3>1. /\ next.req[q] = lane.req[q] /\ (q \in next.running <=> q \in lane.running)
      BY <1>3, <2>2
    <3>2. \/ /\ lane.req[q].cached = b.lane.req[q].cached
             /\ q \in lane.running <=> q \in b.lane.running
          \/ \E i \in 1..(k - 1) :
               /\ b.entries[i].req = q
               /\ lane.req[q].cached = b.entries[i].start + b.entries[i].ext
               /\ b.entries[i].chunked => q \notin lane.running
      BY DEF RunInv
    <3>3. CASE /\ lane.req[q].cached = b.lane.req[q].cached
               /\ q \in lane.running <=> q \in b.lane.running
      BY <3>1, <3>3
    <3>4. CASE \E i \in 1..(k - 1) :
                 /\ b.entries[i].req = q
                 /\ lane.req[q].cached = b.entries[i].start + b.entries[i].ext
                 /\ b.entries[i].chunked => q \notin lane.running
      <4>1. PICK i \in 1..(k - 1) :
                 /\ b.entries[i].req = q
                 /\ lane.req[q].cached = b.entries[i].start + b.entries[i].ext
                 /\ b.entries[i].chunked => q \notin lane.running
        BY <3>4
      <4>2. i \in 1..k
        OBVIOUS
      <4>3. /\ b.entries[i].req = q
            /\ next.req[q].cached = b.entries[i].start + b.entries[i].ext
            /\ b.entries[i].chunked => q \notin next.running
        BY <3>1, <4>1
      <4> QED BY <4>2, <4>3
    <3> QED BY <3>2, <3>3, <3>4
  <2> QED BY <2>1, <2>2, SMTT(30)
<1>7. ASSUME NEW i \in (k + 1)..n
      PROVE  next.req[b.entries[i].req].cached = b.lane.req[b.entries[i].req].cached
  <2>1. i \in 1..n /\ i # k /\ i \in ((k - 1) + 1)..n
    BY <1>1
  <2>2. b.entries[i].req # r /\ b.entries[i].req \in Reqs
    BY <1>1, <2>1 DEF Unit
  <2>3. lane.req[b.entries[i].req].cached = b.lane.req[b.entries[i].req].cached
    BY <2>1, SMTT(30) DEF RunInv
  <2> QED BY <1>3, <2>2, <2>3
<1>8. RunInv(b, k, next, debt - PagesOf(e))
  BY <1>3, <1>4, <1>5, <1>6, <1>7 DEF RunInv
<1> QED BY <1>8 DEF next, e

Paged == INSTANCE FoldFacts WITH Op <- AddPages
Ran == INSTANCE FoldFacts WITH Op <- LaunchedOne

(* The ledger pays for the pages the rows of the batch grow by.            *)
LEMMA LaunchRuns ==
  ASSUME NEW lane0, NEW b, BatchOK(lane0, b)
  PROVE  RunInv(b, Len(b.entries), Launched(AllocatePaged(b.lane, b.entries), b.entries), 0)
<1> DEFINE es   == b.entries
           n    == Len(es)
           paid == AllocatePaged(b.lane, es)
<1>1. /\ es \in Seq(Unit) /\ n \in Nat /\ b.lane \in Lane /\ b.lane.pages \in Int
      /\ Balance(b.lane, NumPages) /\ \A i \in 1..n : es[i] \in Unit
  BY DEF BatchOK, LaneOK, Lane
<1> HIDE DEF es, n, paid
<1>2. PICK owed : /\ owed[0] = 0
                  /\ \A i \in 1..n : owed[i] = AddPages(owed[i - 1], es[i])
                  /\ Needed(es) = owed[n]
  <2>1. Needed(es) = Paged!Fold(0, es)
    BY DEF Needed, FoldLeft, MapThenFoldSet, Max, Paged!Fold, Paged!LastOf
  <2>2. \E acc : /\ acc[0] = 0
                 /\ \A i \in 1..Len(es) : acc[i] = AddPages(acc[i - 1], es[i])
                 /\ Paged!Fold(0, es) = acc[Len(es)]
    BY <1>1, Paged!FoldSteps, Zenon
  <2> QED BY <2>1, <2>2, Zenon DEF n
<1>3. PICK acc : /\ acc[0] = paid
                 /\ \A i \in 1..n : acc[i] = LaunchedOne(acc[i - 1], es[i])
                 /\ Launched(paid, es) = acc[n]
  <2>1. Launched(paid, es) = Ran!Fold(paid, es)
    BY DEF Launched, FoldLeft, MapThenFoldSet, Max, Ran!Fold, Ran!LastOf
  <2>2. \E acc : /\ acc[0] = paid
                 /\ \A i \in 1..Len(es) : acc[i] = LaunchedOne(acc[i - 1], es[i])
                 /\ Ran!Fold(paid, es) = acc[Len(es)]
    BY <1>1, Ran!FoldSteps, Zenon
  <2> QED BY <2>1, <2>2, Zenon DEF n
<1> DEFINE Owed == {i \in 0..n : owed[i] \in Int}
<1>4. \A i \in 0..n : i \in Owed
  <2>1. 0 \in Owed
    BY <1>1, <1>2
  <2>2. ASSUME NEW i \in 1..n, i - 1 \in Owed PROVE i \in Owed
    <3>1. owed[i] = owed[i - 1] + PagesOf(es[i]) /\ owed[i - 1] \in Int /\ PagesOf(es[i]) \in Int
      BY <1>1, <1>2, <2>2, UnitPages DEF AddPages
    <3>2. owed[i] \in Int
      BY <3>1
    <3> QED BY <1>1, <3>2
  <2> HIDE DEF Owed
  <2> QED BY <1>1, <2>1, <2>2, Folded!UpTo
<1>5. \A i \in 0..n : owed[i] \in Int
  BY <1>4
<1> HIDE DEF Owed
<1> DEFINE Good == {i \in 0..n : RunInv(b, i, acc[i], owed[n] - owed[i])}
<1>6. 0 \in Good
  <2>1. owed[n] \in Int /\ owed[n] - owed[0] = owed[n] /\ 0 \in 0..n
    BY <1>1, <1>2, <1>5
  <2>2. /\ paid \in Lane /\ paid.pending = b.lane.pending /\ paid.slots = b.lane.slots
        /\ paid.finished = b.lane.finished /\ paid.running = b.lane.running
        /\ paid.req = b.lane.req /\ paid.pages = b.lane.pages - owed[n]
    <3>1. paid = [b.lane EXCEPT !.pages = @ - owed[n]]
      BY <1>2 DEF paid, AllocatePaged
    <3>2. b.lane.pages - owed[n] \in Int
      BY <1>1, <2>1
    <3> QED BY <1>1, <3>1, <3>2 DEF Lane
  <2>3. Balance(paid, NumPages - owed[n])
    <3>1. PICK g : IsSum(PagesHeld(b.lane), Reqs, g) /\ b.lane.pages + g[Reqs] = NumPages
      BY <1>1 DEF Balance
    <3>2. g[Reqs] \in Int
      <4>1. PagesHeld(b.lane) \in [Reqs -> Int] /\ IsFiniteSet(Reqs)
        BY <1>1, HeldInts, RequestAssumption
      <4>2. \A s \in SUBSET Reqs : g[s] \in Int
        <5> DEFINE f == PagesHeld(b.lane)
        <5>1. f \in [Reqs -> Int] /\ IsFiniteSet(Reqs) /\ IsSum(f, Reqs, g)
          BY <3>1, <4>1
        <5> HIDE DEF f
        <5> QED BY <5>1, SumIsInt
      <4> QED BY <4>2
    <3>3. PagesHeld(paid) = PagesHeld(b.lane)
      BY <2>2 DEF PagesHeld
    <3>4. paid.pages + g[Reqs] = NumPages - owed[n]
      BY <1>1, <2>1, <2>2, <3>1, <3>2, SizeAssumption
    <3> QED BY <3>1, <3>3, <3>4 DEF Balance
  <2>4. RunInv(b, 0, paid, owed[n])
    BY <2>2, <2>3 DEF RunInv, es
  <2> QED BY <1>3, <2>1, <2>4
<1>7. ASSUME NEW i \in 1..n, i - 1 \in Good PROVE i \in Good
  <2> DEFINE debt == owed[n] - owed[i - 1]
             lane == acc[i - 1]
  <2>1. RunInv(b, i - 1, lane, debt)
    BY <1>7
  <2>2. owed[n] \in Int /\ owed[i - 1] \in Int /\ i \in 0..n
    BY <1>1, <1>5
  <2>3. debt \in Int
    BY <2>2
  <2> HIDE DEF debt, lane
  <2>4. RunInv(b, i, LaunchedOne(lane, es[i]), debt - PagesOf(es[i]))
    BY <2>1, <2>3, RunStep DEF es, n
  <2>5. owed[i] = owed[i - 1] + PagesOf(es[i]) /\ PagesOf(es[i]) \in Int
    BY <1>1, <1>2, UnitPages DEF AddPages
  <2>6. debt - PagesOf(es[i]) = owed[n] - owed[i]
    BY <2>2, <2>5 DEF debt
  <2>7. acc[i] = LaunchedOne(lane, es[i])
    BY <1>3 DEF lane
  <2> QED BY <2>2, <2>4, <2>6, <2>7
<1> HIDE DEF Good
<1>8. n \in Good
  <2>1. \A i \in 0..n : i \in Good
    BY <1>1, <1>6, <1>7, Folded!UpTo
  <2> QED BY <1>1, <2>1
<1>9. owed[n] - owed[n] = 0
  BY <1>1, <1>5
<1>10. RunInv(b, n, Launched(paid, es), 0)
  BY <1>3, <1>8, <1>9 DEF Good
<1> QED BY <1>10 DEF n, es, paid

LEMMA LaunchParts ==
  ASSUME NEW lane, NEW b, BatchOK(lane, b)
  PROVE  LET next == Launched(AllocatePaged(b.lane, b.entries), b.entries)
         IN  /\ LaneOK(next)
             /\ next.pending = b.lane.pending /\ next.finished = b.lane.finished
             /\ \A r \in Reqs : /\ next.req[r].slot = b.lane.req[r].slot
                                /\ next.req[r].done = b.lane.req[r].done
                                /\ Present(next, r) => Present(b.lane, r)
                                /\ ~Present(b.lane, r) => next.req[r].cached = b.lane.req[r].cached
<1> DEFINE next == Launched(AllocatePaged(b.lane, b.entries), b.entries)
           n    == Len(b.entries)
           old  == b.lane
<1>0. RunInv(b, n, next, 0)
  BY LaunchRuns
<1> HIDE DEF next
<1>1. /\ next \in Lane /\ next.pending = old.pending /\ next.slots = old.slots
      /\ next.finished = old.finished
      /\ \A r \in Reqs : next.req[r].slot = old.req[r].slot /\ next.req[r].done = old.req[r].done
      /\ \A r \in Reqs :
           \/ /\ next.req[r].cached = old.req[r].cached
              /\ r \in next.running <=> r \in old.running
           \/ \E i \in 1..n : /\ b.entries[i].req = r
                              /\ next.req[r].cached = b.entries[i].start + b.entries[i].ext
                              /\ b.entries[i].chunked => r \notin next.running
      /\ Balance(next, NumPages)
  BY <1>0, SizeAssumption DEF RunInv
<1>2. /\ LaneOK(old) /\ n \in Nat /\ \A i \in 1..n : b.entries[i] \in Unit
      /\ \A i \in 1..n :
           /\ b.entries[i].slot = old.req[b.entries[i].req].slot
           /\ b.entries[i].chunked => /\ b.entries[i].start + b.entries[i].ext <= InputLen[b.entries[i].req]
                                      /\ b.entries[i].req \notin old.running
           /\ ~b.entries[i].chunked => b.entries[i].req \notin Range(old.pending)
  BY DEF BatchOK
<1> HIDE DEF n, old
<1>3. /\ old \in Lane /\ IsInjective(old.pending)
      /\ \A r \in Range(old.pending) : /\ r \notin old.running
                                       /\ old.req[r].cached <= InputLen[r]
                                       /\ old.req[r].slot = NoSlot => old.req[r].cached = 0
      /\ \A r \in old.running : old.req[r].slot # NoSlot
      /\ \A r \in old.finished : ~Present(old, r)
      /\ Rows(old.slots, RowOf(old)) /\ old.finished \subseteq Reqs /\ next.running \subseteq Reqs
      /\ Range(old.pending) \subseteq Reqs
  BY <1>1, <1>2 DEF LaneOK, Lane, Range
<1>4. ASSUME NEW i \in 1..n PROVE old.req[b.entries[i].req].slot # NoSlot
  BY <1>2, SizeAssumption DEF Unit, Slots, NoSlot
<1>5. ASSUME NEW r \in Reqs
      PROVE  /\ r \in next.running => old.req[r].slot # NoSlot
             /\ Present(next, r) => Present(old, r)
             /\ ~Present(old, r) => next.req[r].cached = old.req[r].cached
  <2>1. CASE next.req[r].cached = old.req[r].cached /\ (r \in next.running <=> r \in old.running)
    BY <1>1, <1>3, <2>1 DEF Present
  <2>2. CASE \E i \in 1..n : b.entries[i].req = r
    BY <1>4, <2>2 DEF Present
  <2> QED BY <1>1, <2>1, <2>2
<1>6. ASSUME NEW r \in Range(next.pending)
      PROVE  /\ r \notin next.running /\ next.req[r].cached <= InputLen[r]
             /\ next.req[r].slot = NoSlot => next.req[r].cached = 0
  <2>1. r \in Range(old.pending) /\ r \in Reqs
    BY <1>1, <1>3
  <2>2. CASE next.req[r].cached = old.req[r].cached /\ (r \in next.running <=> r \in old.running)
    BY <1>1, <1>3, <2>1, <2>2
  <2>3. CASE \E i \in 1..n : /\ b.entries[i].req = r
                             /\ next.req[r].cached = b.entries[i].start + b.entries[i].ext
                             /\ b.entries[i].chunked => r \notin next.running
    <3>1. PICK i \in 1..n : /\ b.entries[i].req = r
                            /\ next.req[r].cached = b.entries[i].start + b.entries[i].ext
                            /\ b.entries[i].chunked => r \notin next.running
      BY <2>3
    <3>2. b.entries[i].chunked
      BY <1>2, <2>1, <3>1
    <3>3. next.req[r].slot # NoSlot
      BY <1>1, <1>4, <2>1, <3>1
    <3> QED BY <1>2, <3>1, <3>2, <3>3
  <2> QED BY <1>1, <2>1, <2>2, <2>3
<1>7. \A r \in next.running : next.req[r].slot # NoSlot
  BY <1>1, <1>3, <1>5
<1>8. \A r \in next.finished : ~Present(next, r)
  BY <1>1, <1>3, <1>5
<1>9. Rows(next.slots, RowOf(next))
  BY <1>1, <1>3 DEF RowOf
<1>10. LaneOK(next)
  BY <1>1, <1>3, <1>6, <1>7, <1>8, <1>9 DEF LaneOK
<1> QED BY <1>1, <1>5, <1>10 DEF next, old

-----------------------------------------------------------------------------
(* A completion: each entry of the batch ends, answers or is passed over.  *)
Told(lane, r) == [lane EXCEPT !.req[r].done = @ + 1]

LEMMA DoneMoves ==
  ASSUME NEW lane, LaneOK(lane), NEW r \in Reqs
  PROVE  LET next == Told(lane, r)
         IN  /\ LaneOK(next)
             /\ next.pending = lane.pending /\ next.running = lane.running
             /\ next.finished = lane.finished /\ next.slots = lane.slots
             /\ next.pages = lane.pages
             /\ \A q \in Reqs : q # r => next.req[q] = lane.req[q]
             /\ next.req[r].slot = lane.req[r].slot /\ next.req[r].cached = lane.req[r].cached
             /\ next.req[r].done = lane.req[r].done + 1
<1> DEFINE rows == [lane.req EXCEPT ![r].done = @ + 1]
           next == Told(lane, r)
<1>0. /\ lane \in Lane
      /\ IsInjective(lane.pending)
      /\ \A q \in Range(lane.pending) : /\ q \notin lane.running
                                        /\ lane.req[q].cached <= InputLen[q]
                                        /\ lane.req[q].slot = NoSlot => lane.req[q].cached = 0
      /\ \A q \in lane.running : lane.req[q].slot # NoSlot
      /\ \A q \in lane.finished : ~Present(lane, q)
      /\ Rows(lane.slots, RowOf(lane))
      /\ Balance(lane, NumPages)
      /\ Range(lane.pending) \subseteq Reqs /\ lane.running \subseteq Reqs /\ lane.finished \subseteq Reqs
  BY DEF LaneOK, Lane, Range
<1>1. /\ rows \in Requests /\ \A q \in Reqs : q # r => rows[q] = lane.req[q]
      /\ rows[r].slot = lane.req[r].slot /\ rows[r].cached = lane.req[r].cached
      /\ rows[r].done = lane.req[r].done + 1
  <2> DEFINE d   == lane.req[r].done + 1
             row == [lane.req[r] EXCEPT !.done = d]
  <2>1. d \in Nat /\ lane.req \in Requests
        /\ lane.req[r] \in [slot : 0..NumSlots, cached : Nat, device : Nat, done : Nat]
    BY <1>0 DEF Lane, Requests
  <2>2. rows = [lane.req EXCEPT ![r] = row]
    OBVIOUS
  <2> HIDE DEF d
  <2>3. /\ row \in [slot : 0..NumSlots, cached : Nat, device : Nat, done : Nat]
        /\ row.slot = lane.req[r].slot /\ row.cached = lane.req[r].cached /\ row.done = d
    BY <2>1
  <2> HIDE DEF row, rows
  <2>4. rows \in Requests /\ rows[r] = row /\ \A q \in Reqs : q # r => rows[q] = lane.req[q]
    BY <2>1, <2>2, <2>3 DEF Requests
  <2> QED BY <2>3, <2>4 DEF d
<1>2. next = [lane EXCEPT !.req = rows]
  BY <1>0 DEF Lane, Told
<1> HIDE DEF rows, next
<1>3. /\ next \in Lane /\ next.pending = lane.pending /\ next.running = lane.running
      /\ next.finished = lane.finished /\ next.slots = lane.slots
      /\ next.pages = lane.pages /\ next.req = rows
  BY <1>0, <1>1, <1>2 DEF Lane
<1>4. \A q \in Reqs : next.req[q].slot = lane.req[q].slot /\ next.req[q].cached = lane.req[q].cached
  BY <1>1, <1>3
<1>5. RowOf(next) = RowOf(lane) /\ PagesHeld(next) = PagesHeld(lane)
  BY <1>4 DEF RowOf, PagesHeld
<1>6. Balance(next, NumPages)
  BY <1>0, <1>3, <1>5, BalanceStays
<1>7. \A q \in next.finished : ~Present(next, q)
  BY <1>0, <1>3, <1>4 DEF Present
<1>8. \A q \in Range(next.pending) : /\ q \notin next.running
                                     /\ next.req[q].cached <= InputLen[q]
                                     /\ next.req[q].slot = NoSlot => next.req[q].cached = 0
  BY <1>0, <1>3, <1>4
<1>9. \A q \in next.running : next.req[q].slot # NoSlot
  BY <1>0, <1>3, <1>4
<1>10. LaneOK(next)
  BY <1>0, <1>3, <1>5, <1>6, <1>7, <1>8, <1>9 DEF LaneOK
<1> QED BY <1>1, <1>3, <1>10 DEF next

Completing(acc) ==
  /\ acc = [lane |-> acc.lane, replies |-> acc.replies, newDone |-> acc.newDone, freed |-> acc.freed]
  /\ LaneOK(acc.lane)
  /\ acc.replies = [r \in Reqs |-> acc.replies[r]]
  /\ acc.newDone \subseteq Reqs /\ acc.freed \in Seq(Slots)
  /\ \A r \in acc.newDone : ~Present(acc.lane, r)

Ends(lane, token, r) == lane.req[r].done + 1 >= OutLen[r] \/ token.eos
Reply(lane, token, r) == [token |-> token, finished |-> Ends(lane, token, r)]

(* The token of one entry that is current and not a chunk.                 *)
Completed(acc, item, next, r) ==
  /\ Completing(next)
  /\ next.lane.pending = acc.lane.pending /\ next.lane.finished = acc.lane.finished
  /\ \A q \in Reqs : q # r => /\ next.lane.req[q] = acc.lane.req[q]
                              /\ q \in next.lane.running <=> q \in acc.lane.running
                              /\ q \in next.newDone <=> q \in acc.newDone
                              /\ next.replies[q] = acc.replies[q]
  /\ Range(acc.freed) \subseteq Range(next.freed)
  /\ next.replies[r] = <<Reply(acc.lane, item.token, r)>>
  /\ next.lane.req[r].done = acc.lane.req[r].done + 1
  /\ next.lane.req[r].cached = acc.lane.req[r].cached
  /\ Ends(acc.lane, item.token, r) =>
       ~Present(next.lane, r) /\ acc.lane.req[r].slot \in Range(next.freed)
  /\ ~Ends(acc.lane, item.token, r) => next.lane.req[r].slot = acc.lane.req[r].slot

LEMMA CompleteOneParts ==
  ASSUME NEW acc, Completing(acc), NEW item,
         NEW r \in Reqs, r = item.entry.req, acc.lane.req[r].slot = item.entry.slot,
         acc.lane.req[r].slot # NoSlot, r \notin Range(acc.lane.pending),
         ~item.entry.chunked, item.current, acc.replies[r] = <<>>
  PROVE  Completed(acc, item, CompleteOne(acc, item), r)
<1> DEFINE lane  == acc.lane
           e     == item.entry
           told  == Told(lane, r)
           cut   == [told EXCEPT !.running = @ \ {r}]
           end   == Ends(lane, item.token, r)
           reply == [acc.replies EXCEPT ![r] = Append(@, [token |-> item.token, finished |-> end])]
           next  == CompleteOne(acc, item)
           x     == lane.req[r].slot
<1>0. /\ LaneOK(lane) /\ acc.newDone \subseteq Reqs /\ acc.freed \in Seq(Slots)
      /\ \A q \in acc.newDone : ~Present(lane, q)
      /\ acc = [lane |-> lane, replies |-> acc.replies, newDone |-> acc.newDone, freed |-> acc.freed]
      /\ acc.replies = [q \in Reqs |-> acc.replies[q]]
  BY DEF Completing
<1>1. /\ LaneOK(told)
      /\ told.pending = lane.pending /\ told.running = lane.running
      /\ told.finished = lane.finished /\ told.slots = lane.slots /\ told.pages = lane.pages
      /\ \A q \in Reqs : q # r => told.req[q] = lane.req[q]
      /\ told.req[r].slot = x /\ told.req[r].cached = lane.req[r].cached
      /\ told.req[r].done = lane.req[r].done + 1
  <2> HIDE DEF lane
  <2> QED BY <1>0, DoneMoves DEF x
<1>2. r \notin lane.finished
  BY <1>0 DEF LaneOK, Present
<1>3. IsFinished(told, e, item.token) = end
  <2> HIDE DEF told
  <2> QED BY <1>1 DEF IsFinished, Ends
<1>4. next = [lane    |-> IF end THEN FreeReq(cut, r) ELSE told,
              replies |-> reply,
              newDone |-> IF end THEN acc.newDone \union {r} ELSE acc.newDone,
              freed   |-> IF end THEN Append(acc.freed, x) ELSE acc.freed]
  <2>1. ~(e.chunked \/ ~item.current)
    OBVIOUS
  <2>2. e.req = r /\ e.slot = x
    OBVIOUS
  <2> DEFINE lane1 == [acc.lane EXCEPT !.req[e.req].done = @ + 1]
             end1  == IsFinished(lane1, e, item.token)
             frees == end1 /\ e.req \notin acc.lane.finished
  <2>3. CompleteOne(acc, item) =
          [lane    |-> IF frees THEN FreeReq([lane1 EXCEPT !.running = @ \ {e.req}], e.req) ELSE lane1,
           replies |-> [acc.replies EXCEPT ![e.req] = Append(@, [token |-> item.token, finished |-> end1])],
           newDone |-> IF frees THEN acc.newDone \union {e.req} ELSE acc.newDone,
           freed   |-> IF frees THEN Append(acc.freed, e.slot) ELSE acc.freed]
    BY <2>1, Zenon DEF CompleteOne
  <2>4. lane1 = told
    BY <2>2 DEF Told
  <2> HIDE DEF lane1, told, end
  <2>5. end1 = end
    BY <1>3, <2>4
  <2> HIDE DEF end1
  <2>6. frees = end
    BY <1>2, <2>2, <2>5 DEF end, Ends
  <2> HIDE DEF frees, e, x
  <2> QED BY <2>2, <2>3, <2>4, <2>5, <2>6
<1>5. /\ told \in Lane /\ told.running \subseteq Reqs /\ told.pending \in Seq(Reqs)
      /\ IsInjective(told.pending)
  BY <1>1, Zenon DEF LaneOK, Lane
<1> HIDE DEF told
<1>6. /\ cut \in Lane /\ cut.req = told.req /\ cut.pages = told.pages /\ cut.slots = told.slots
      /\ cut.finished = told.finished /\ cut.pending = told.pending
      /\ cut.running = told.running \ {r}
  BY <1>5 DEF Lane
<1> HIDE DEF cut
<1>7. LaneOK(FreeReq(cut, r)) /\ Dropped(told, FreeReq(cut, r), r)
  BY <1>1, <1>5, <1>6, LaneDrops
<1>8. /\ Append(acc.freed, x) \in Seq(Slots) /\ Range(Append(acc.freed, x)) = Range(acc.freed) \cup {x}
  <2>1. x \in Slots
    <3>1. lane \in Lane
      BY <1>0 DEF LaneOK
    <3>2. x \in 0..NumSlots /\ x # NoSlot
      BY <3>1 DEF Lane, Requests
    <3> QED BY <3>2, SizeAssumption DEF Slots, NoSlot
  <2> HIDE DEF x
  <2> QED BY <1>0, <2>1, AppendParts
<1>9. /\ reply = [q \in Reqs |-> reply[q]]
      /\ \A q \in Reqs : q # r => reply[q] = acc.replies[q]
      /\ reply[r] = <<Reply(lane, item.token, r)>>
  <2>1. Append(<<>>, Reply(lane, item.token, r)) = <<Reply(lane, item.token, r)>>
    OBVIOUS
  <2>2. Reply(lane, item.token, r) = [token |-> item.token, finished |-> end]
    BY DEF Reply
  <2> DEFINE a == Reply(lane, item.token, r)
  <2> HIDE DEF end, a
  <2>3. reply = [acc.replies EXCEPT ![r] = Append(@, a)]
    BY <2>2 DEF a
  <2>4. reply[r] = Append(<<>>, a)
    BY <1>0, <2>3
  <2> QED BY <1>0, <2>1, <2>3, <2>4 DEF a
<1> HIDE DEF next, reply, x
<1>10. ASSUME end PROVE Completed(acc, item, next, r)
  <2> DEFINE new == FreeReq(cut, r)
             s   == Append(acc.freed, x)
  <2>1. next = [lane |-> new, replies |-> reply, newDone |-> acc.newDone \union {r}, freed |-> s]
    BY <1>4, <1>10
  <2> HIDE DEF new, s
  <2>2. next.lane = new /\ next.replies = reply /\ next.newDone = acc.newDone \union {r} /\ next.freed = s
    BY <2>1, SMTT(30)
  <2>3. /\ ~Present(new, r) /\ new.finished = lane.finished
        /\ new.pending = lane.pending
        /\ \A q \in Reqs : q # r => new.req[q] = lane.req[q] /\ (q \in new.running <=> q \in lane.running)
        /\ new.req[r].cached = lane.req[r].cached /\ new.req[r].done = lane.req[r].done + 1
    <3>1. new.pending = cut.pending
      BY <1>6 DEF new, FreeReq, Lane
    <3> QED BY <1>1, <1>6, <1>7, <3>1 DEF Dropped, new
  <2>4. \A q \in next.newDone : ~Present(new, q)
    <3>1. SUFFICES ASSUME NEW q \in acc.newDone, q # r PROVE ~Present(new, q)
      BY <2>2, <2>3
    <3>2. q \in Reqs /\ ~Present(lane, q)
      BY <1>0, <3>1
    <3> QED BY <2>3, <3>1, <3>2 DEF Present
  <2>5. Completing(next)
    BY <1>0, <1>7, <1>8, <1>9, <2>1, <2>2, <2>4 DEF new, s, Completing
  <2>6. Range(acc.freed) \subseteq Range(s) /\ x \in Range(s)
    BY <1>8, SMTT(30) DEF s
  <2> QED BY <1>9, <1>10, <2>2, <2>3, <2>5, <2>6 DEF Completed, x
<1>11. ASSUME ~end PROVE Completed(acc, item, next, r)
  <2>1. next = [lane |-> told, replies |-> reply, newDone |-> acc.newDone, freed |-> acc.freed]
    BY <1>4, <1>11
  <2>2. next.lane = told /\ next.replies = reply /\ next.newDone = acc.newDone /\ next.freed = acc.freed
    BY <2>1
  <2>3. \A q \in acc.newDone : ~Present(told, q)
    <3>1. SUFFICES ASSUME NEW q \in acc.newDone PROVE ~Present(told, q)
      OBVIOUS
    <3>2. q \in Reqs /\ ~Present(lane, q)
      BY <1>0, <3>1
    <3>3. told.req[q].slot = lane.req[q].slot
      BY <1>1, <3>2 DEF x
    <3> QED BY <1>1, <3>2, <3>3 DEF Present
  <2>4. Completing(next)
    BY <1>0, <1>1, <1>9, <2>1, <2>2, <2>3 DEF Completing
  <2> QED BY <1>1, <1>9, <1>11, <2>2, <2>4 DEF Completed, x
<1> QED BY <1>10, <1>11 DEF next

(* What became of request r of a lane after some entries of a batch.       *)
Untouched(lane, acc, r) ==
  /\ acc.replies[r] = <<>> /\ acc.lane.req[r] = lane.req[r]
  /\ r \in acc.lane.running <=> r \in lane.running
  /\ r \notin acc.newDone
Answered(lane, acc, token, r) ==
  /\ lane.req[r].slot # NoSlot
  /\ acc.replies[r] = <<Reply(lane, token, r)>>
  /\ acc.lane.req[r].done = lane.req[r].done + 1 /\ acc.lane.req[r].cached = lane.req[r].cached
  /\ Ends(lane, token, r) => ~Present(acc.lane, r) /\ lane.req[r].slot \in Range(acc.freed)
  /\ ~Ends(lane, token, r) => acc.lane.req[r].slot = lane.req[r].slot

EndInv(lane, batch, items, k, acc) ==
  /\ Completing(acc)
  /\ acc.lane.pending = lane.pending /\ acc.lane.finished = lane.finished
  /\ \A r \in Reqs :
       \/ Untouched(lane, acc, r)
       \/ \E i \in 1..k : batch[i].req = r /\ Answered(lane, acc, items[i].token, r)

Ended == INSTANCE FoldFacts WITH Op <- CompleteOne

LEMMA EndStep ==
  ASSUME NEW lane, LaneOK(lane), NEW g \in [Slots -> Nat], NEW batch \in Seq(Entry),
         Flying(lane, g, batch), NEW items, NEW k \in 1..Len(batch), NEW acc,
         items[k] = [entry |-> batch[k], token |-> items[k].token,
                     current |-> g[batch[k].slot] = batch[k].gen],
         EndInv(lane, batch, items, k - 1, acc)
  PROVE  EndInv(lane, batch, items, k, CompleteOne(acc, items[k]))
<1> DEFINE e    == batch[k]
           r    == e.req
           item == items[k]
           next == CompleteOne(acc, item)
<1>1. /\ Completing(acc) /\ acc.lane.pending = lane.pending /\ acc.lane.finished = lane.finished
      /\ \A q \in Reqs :
           \/ Untouched(lane, acc, q)
           \/ \E i \in 1..(k - 1) : batch[i].req = q /\ Answered(lane, acc, items[i].token, q)
  BY DEF EndInv
<1>2. /\ item.entry = e /\ item.current = (g[e.slot] = e.gen) /\ r \in Reqs /\ e.slot \in Slots
      /\ DOMAIN batch = 1..Len(batch) /\ k \in Int
  <2>1. e \in Entry /\ DOMAIN batch = 1..Len(batch) /\ k \in Int
    OBVIOUS
  <2> DEFINE tok == items[k].token
             cur == g[e.slot] = e.gen
  <2>2. item = [entry |-> e, token |-> tok, current |-> cur]
    OBVIOUS
  <2> HIDE DEF item, tok, e
  <2>3. item.entry = e /\ item.current = cur
    <3> HIDE DEF cur
    <3> QED BY <2>2
  <2> QED BY <2>1, <2>3 DEF Entry
<1>3. \A i \in 1..(k - 1) : i \in 1..k
  BY <1>2
<1>4. CASE item.entry.chunked \/ ~item.current
  <2>1. next = acc
    BY <1>4, Zenon DEF CompleteOne
  <2>2. EndInv(lane, batch, items, k, acc)
    BY <1>1, <1>3 DEF EndInv
  <2> QED BY <2>1, <2>2
<1>5. CASE ~item.entry.chunked /\ item.current
  <2>1. lane.req[r].slot = e.slot /\ r \notin Range(lane.pending)
    BY <1>2, <1>5 DEF Flying
  <2>2. \A i \in 1..(k - 1) : batch[i].req # r
    <3>1. SUFFICES ASSUME NEW i \in 1..(k - 1), batch[i].req = r PROVE FALSE
      OBVIOUS
    <3>2. i \in DOMAIN batch /\ k \in DOMAIN batch /\ i # k
      BY <1>2
    <3> QED BY <3>1, <3>2 DEF Flying
  <2>3. Untouched(lane, acc, r)
    BY <1>1, <1>2, <2>2
  <2>4. /\ acc.lane.req[r] = lane.req[r] /\ acc.replies[r] = <<>> /\ e.slot # NoSlot
    BY <1>2, <2>3, SizeAssumption DEF Untouched, Slots, NoSlot
  <2> HIDE DEF item, e
  <2>5. /\ acc.lane.req[r].slot = item.entry.slot /\ acc.lane.req[r].slot # NoSlot
        /\ r \notin Range(acc.lane.pending) /\ r = item.entry.req
    BY <1>1, <1>2, <2>1, <2>4
  <2>6. /\ Completing(next)
        /\ next.lane.pending = acc.lane.pending /\ next.lane.finished = acc.lane.finished
        /\ \A q \in Reqs : q # r => /\ next.lane.req[q] = acc.lane.req[q]
                                    /\ q \in next.lane.running <=> q \in acc.lane.running
                                    /\ q \in next.newDone <=> q \in acc.newDone
                                    /\ next.replies[q] = acc.replies[q]
        /\ Range(acc.freed) \subseteq Range(next.freed)
        /\ next.replies[r] = <<Reply(acc.lane, item.token, r)>>
        /\ next.lane.req[r].done = acc.lane.req[r].done + 1
        /\ next.lane.req[r].cached = acc.lane.req[r].cached
        /\ Ends(acc.lane, item.token, r) =>
             ~Present(next.lane, r) /\ acc.lane.req[r].slot \in Range(next.freed)
        /\ ~Ends(acc.lane, item.token, r) => next.lane.req[r].slot = acc.lane.req[r].slot
    <3> HIDE DEF r, next
    <3>1. /\ r \in Reqs /\ r = item.entry.req /\ acc.lane.req[r].slot = item.entry.slot
          /\ acc.lane.req[r].slot # NoSlot /\ r \notin Range(acc.lane.pending)
          /\ ~item.entry.chunked /\ item.current /\ acc.replies[r] = <<>>
      BY <1>2, <1>5, <2>4, <2>5
    <3>2. Completed(acc, item, next, r)
      BY <1>1, <3>1, CompleteOneParts DEF next
    <3> QED BY <3>2 DEF Completed
  <2> HIDE DEF next
  <2>7. Ends(acc.lane, item.token, r) = Ends(lane, item.token, r)
        /\ Reply(acc.lane, item.token, r) = Reply(lane, item.token, r)
    BY <2>4 DEF Ends, Reply
  <2>8. Answered(lane, next, item.token, r)
    BY <2>1, <2>4, <2>6, <2>7 DEF Answered
  <2>9. ASSUME NEW q \in Reqs, q # r
        PROVE  \/ Untouched(lane, next, q)
               \/ \E i \in 1..k : batch[i].req = q /\ Answered(lane, next, items[i].token, q)
    <3>1. /\ next.lane.req[q] = acc.lane.req[q] /\ next.replies[q] = acc.replies[q]
          /\ q \in next.lane.running <=> q \in acc.lane.running
          /\ q \in next.newDone <=> q \in acc.newDone
      BY <2>6, <2>9
    <3>2. CASE Untouched(lane, acc, q)
      BY <3>1, <3>2 DEF Untouched
    <3>3. CASE \E i \in 1..(k - 1) : batch[i].req = q /\ Answered(lane, acc, items[i].token, q)
      <4>1. PICK i \in 1..(k - 1) : batch[i].req = q /\ Answered(lane, acc, items[i].token, q)
        BY <3>3
      <4>2. ~Present(acc.lane, q) => ~Present(next.lane, q)
        BY <2>6, <3>1 DEF Present
      <4>3. Answered(lane, next, items[i].token, q)
        BY <2>6, <3>1, <4>1, <4>2 DEF Answered
      <4> QED BY <1>3, <4>1, <4>3
    <3> QED BY <1>1, <3>2, <3>3
  <2>10. \A q \in Reqs :
           \/ Untouched(lane, next, q)
           \/ \E i \in 1..k : batch[i].req = q /\ Answered(lane, next, items[i].token, q)
    BY <1>2, <2>8, <2>9 DEF e, item
  <2>11. EndInv(lane, batch, items, k, next)
    BY <1>1, <2>6, <2>10 DEF EndInv
  <2> QED BY <2>11 DEF next, item
<1> QED BY <1>4, <1>5

LEMMA EndRuns ==
  ASSUME NEW lane, LaneOK(lane), NEW g \in [Slots -> Nat], NEW batch \in Seq(Entry),
         Flying(lane, g, batch), NEW items,
         items = [i \in DOMAIN batch |-> [entry |-> batch[i], token |-> items[i].token,
                                          current |-> g[batch[i].slot] = batch[i].gen]]
  PROVE  EndInv(lane, batch, items, Len(batch), FoldLeft(CompleteOne, NewCompletion(lane), items))
<1> DEFINE n == Len(batch)
           S == {items[i] : i \in DOMAIN batch}
           base == NewCompletion(lane)
<1>1. n \in Nat /\ DOMAIN batch = 1..n
  OBVIOUS
<1>2. items \in Seq(S) /\ Len(items) = n
  <2>1. items = [i \in 1..n |-> items[i]]
    BY <1>1
  <2>2. \A i \in 1..n : items[i] \in S
    BY <1>1
  <2> HIDE DEF S, n
  <2> QED BY ONLY <1>1, <2>1, <2>2
<1> HIDE DEF S, base
<1>3. PICK acc : /\ acc[0] = base
                 /\ \A i \in 1..n : acc[i] = CompleteOne(acc[i - 1], items[i])
                 /\ FoldLeft(CompleteOne, base, items) = acc[n]
  <2>1. FoldLeft(CompleteOne, base, items) = Ended!Fold(base, items)
    BY DEF FoldLeft, MapThenFoldSet, Max, Ended!Fold, Ended!LastOf
  <2>2. \E acc : /\ acc[0] = base
                 /\ \A i \in 1..Len(items) : acc[i] = CompleteOne(acc[i - 1], items[i])
                 /\ Ended!Fold(base, items) = acc[Len(items)]
    BY <1>2, Ended!FoldSteps, Zenon
  <2> QED BY <1>2, <2>1, <2>2, Zenon
<1> DEFINE Good == {i \in 0..n : EndInv(lane, batch, items, i, acc[i])}
<1>4. 0 \in Good
  <2>1. /\ base = [lane |-> base.lane, replies |-> base.replies, newDone |-> base.newDone,
                   freed |-> base.freed]
        /\ base.lane = lane /\ base.newDone = {} /\ base.freed = <<>>
        /\ base.replies = [r \in Reqs |-> <<>>]
    BY DEF base, NewCompletion
  <2>2. base.replies = [r \in Reqs |-> base.replies[r]] /\ \A r \in Reqs : base.replies[r] = <<>>
    BY <2>1
  <2>3. Completing(base)
    BY <2>1, <2>2 DEF Completing
  <2>4. \A r \in Reqs : Untouched(lane, base, r)
    BY <2>1, <2>2 DEF Untouched
  <2>5. EndInv(lane, batch, items, 0, base)
    BY <2>1, <2>3, <2>4 DEF EndInv
  <2> QED BY <1>1, <1>3, <2>5
<1>5. ASSUME NEW i \in 1..n, i - 1 \in Good PROVE i \in Good
  <2>1. EndInv(lane, batch, items, i - 1, acc[i - 1]) /\ acc[i] = CompleteOne(acc[i - 1], items[i])
        /\ i \in 0..n
    BY <1>1, <1>3, <1>5
  <2>2. items[i] = [entry |-> batch[i], token |-> items[i].token,
                    current |-> g[batch[i].slot] = batch[i].gen]
    BY <1>1
  <2> DEFINE a == acc[i - 1]
  <2> HIDE DEF a
  <2>3. EndInv(lane, batch, items, i, CompleteOne(a, items[i]))
    BY <2>1, <2>2, EndStep DEF a
  <2> QED BY <2>1, <2>3 DEF a
<1> HIDE DEF Good
<1>6. n \in Good
  BY <1>1, <1>4, <1>5, Folded!UpTo
<1> QED BY <1>3, <1>6 DEF Good, base

(* Request r of a lane after a completion.                                 *)
Kept(lane, done, r) ==
  /\ done.replies[r] = <<>> /\ done.lane.req[r] = lane.req[r]
  /\ r \in done.lane.running <=> r \in lane.running
  /\ r \notin done.lane.finished
Completes(lane, done) ==
  /\ LaneOK(done.lane) /\ done.lane.pending = lane.pending
  /\ \A r \in Reqs : Kept(lane, done, r) \/ \E token : Answered(lane, done, token, r)

(* complete_results                                                        *)
LEMMA CompletionParts ==
  ASSUME NEW lane, LaneOK(lane), NEW g \in [Slots -> Nat], NEW batch \in Seq(Entry),
         Flying(lane, g, batch), NEW items,
         items = [i \in DOMAIN batch |-> [entry |-> batch[i], token |-> items[i].token,
                                          current |-> g[batch[i].slot] = batch[i].gen]]
  PROVE  Completes(lane, CompleteResults(lane, items))
<1> DEFINE acc  == FoldLeft(CompleteOne, NewCompletion(lane), items)
           done == CompleteResults(lane, items)
           n    == Len(batch)
<1>1. EndInv(lane, batch, items, n, acc)
  BY EndRuns
<1>2. done = [acc EXCEPT !.lane = [acc.lane EXCEPT !.finished = acc.newDone]]
  BY DEF CompleteResults
<1> HIDE DEF acc, done, n
<1> DEFINE old == acc.lane
           new == [old EXCEPT !.finished = acc.newDone]
<1>3. /\ acc = [lane |-> old, replies |-> acc.replies, newDone |-> acc.newDone, freed |-> acc.freed]
      /\ LaneOK(old) /\ acc.newDone \subseteq Reqs /\ \A r \in acc.newDone : ~Present(old, r)
      /\ old.pending = lane.pending
      /\ \A r \in Reqs :
           \/ Untouched(lane, acc, r)
           \/ \E i \in 1..n : batch[i].req = r /\ Answered(lane, acc, items[i].token, r)
  BY <1>1 DEF EndInv, Completing
<1>4. old \in Lane
  BY <1>3 DEF LaneOK
<1>5. done.lane = new /\ done.replies = acc.replies /\ done.freed = acc.freed
  <2>1. done = [acc EXCEPT !.lane = new]
    BY <1>2
  <2> HIDE DEF old, new
  <2> QED BY <1>3, <2>1
<1> HIDE DEF old
<1>6. /\ new \in Lane /\ new.pending = old.pending /\ new.running = old.running
      /\ new.slots = old.slots /\ new.pages = old.pages /\ new.req = old.req
      /\ new.finished = acc.newDone
  BY <1>3, <1>4 DEF Lane
<1> HIDE DEF new
<1>7. \A r \in Reqs : Present(new, r) <=> Present(old, r)
  BY <1>6 DEF Present
<1>8. LaneOK(new)
  <2>1. RowOf(new) = RowOf(old) /\ PagesHeld(new) = PagesHeld(old)
    BY <1>6 DEF RowOf, PagesHeld
  <2>2. /\ IsInjective(old.pending)
        /\ \A r \in Range(old.pending) : /\ r \notin old.running
                                         /\ old.req[r].cached <= InputLen[r]
                                         /\ old.req[r].slot = NoSlot => old.req[r].cached = 0
        /\ \A r \in old.running : old.req[r].slot # NoSlot
        /\ Rows(old.slots, RowOf(old)) /\ Balance(old, NumPages)
    BY <1>3 DEF LaneOK
  <2>3. Balance(new, NumPages)
    BY <1>6, <2>1, <2>2, BalanceStays
  <2>4. \A r \in new.finished : ~Present(new, r)
    BY <1>3, <1>6, <1>7
  <2> QED BY <1>6, <2>1, <2>2, <2>3, <2>4 DEF LaneOK
<1>9. ASSUME NEW r \in Reqs
      PROVE  Kept(lane, done, r) \/ \E token : Answered(lane, done, token, r)
  <2>1. CASE Untouched(lane, acc, r)
    BY <1>5, <1>6, <2>1 DEF Untouched, Kept, old
  <2>2. CASE \E i \in 1..n : batch[i].req = r /\ Answered(lane, acc, items[i].token, r)
    <3>1. PICK i \in 1..n : Answered(lane, acc, items[i].token, r)
      BY <2>2
    <3> DEFINE t == items[i].token
    <3>2. Answered(lane, acc, t, r)
      BY <3>1
    <3> HIDE DEF t
    <3>3. Answered(lane, done, t, r)
      BY <1>5, <1>6, <1>7, <3>2 DEF Answered, old
    <3> QED BY <3>3
  <2> QED BY <1>3, <2>1, <2>2
<1>10. Completes(lane, done)
  BY <1>3, <1>5, <1>6, <1>8, <1>9 DEF Completes
<1> QED BY <1>10 DEF done

(* A launched batch stays what it is while the rows of its current         *)
(* entries are kept.                                                       *)
LEMMA FlyingStays ==
  ASSUME NEW lane, NEW next, NEW g \in [Slots -> Nat], NEW h \in [Slots -> Nat],
         NEW batch \in Seq(Entry), Flying(lane, g, batch),
         \A s \in Slots : g[s] <= h[s],
         \A r \in Reqs : lane.req[r].slot \in Slots /\ h[lane.req[r].slot] = g[lane.req[r].slot] =>
                           /\ next.req[r].slot = lane.req[r].slot
                           /\ r \in Range(next.pending) => r \in Range(lane.pending)
  PROVE  Flying(next, h, batch)
<1>1. ASSUME NEW i \in DOMAIN batch
      PROVE  LET e == batch[i] IN
             /\ e.gen <= h[e.slot]
             /\ e.gen = h[e.slot] => /\ next.req[e.req].slot = e.slot
                                     /\ ~e.chunked => e.req \notin Range(next.pending)
  <2> DEFINE e == batch[i]
  <2>1. e \in Entry
    OBVIOUS
  <2>2. /\ e.gen <= g[e.slot]
        /\ e.gen = g[e.slot] => /\ lane.req[e.req].slot = e.slot
                                /\ ~e.chunked => e.req \notin Range(lane.pending)
    BY DEF Flying
  <2> HIDE DEF e
  <2>3. e.req \in Reqs /\ e.slot \in Slots /\ e.gen \in Nat
    BY <2>1 DEF Entry
  <2>4. g[e.slot] \in Nat /\ h[e.slot] \in Nat /\ g[e.slot] <= h[e.slot]
    BY <2>3
  <2>5. e.gen = h[e.slot] => e.gen = g[e.slot] /\ h[e.slot] = g[e.slot]
    BY <2>2, <2>3, <2>4
  <2>6. e.gen <= h[e.slot]
    BY <2>2, <2>3, <2>4
  <2> QED BY <2>2, <2>3, <2>5, <2>6 DEF e
<1> QED BY <1>1 DEF Flying

LEMMA ForgetParts ==
  ASSUME NEW g \in [Slots -> Nat], NEW freed
  PROVE  /\ Forget(g, freed) \in [Slots -> Nat]
         /\ \A s \in Slots : /\ g[s] <= Forget(g, freed)[s]
                             /\ Forget(g, freed)[s] = g[s] <=> s \notin Range(freed)
<1>1. \A s \in Slots : Forget(g, freed)[s] = IF s \in Range(freed) THEN g[s] + 1 ELSE g[s]
  BY DEF Forget
<1>2. Forget(g, freed) \in [Slots -> Nat]
  BY DEF Forget
<1> QED BY <1>1, <1>2

-----------------------------------------------------------------------------
(* The coordinator's state: Init.                                          *)
LEMMA NewLaneOK == LaneOK(NewLane)
<1> DEFINE lane  == NewLane
           slots == [i \in 1..NumSlots |-> i - 1]
           rows  == [r \in Reqs |-> NewReq]
<1>1. /\ lane.pending = <<>> /\ lane.running = {} /\ lane.slots = slots /\ lane.pages = NumPages
      /\ lane.finished = {} /\ lane.req = rows
      /\ lane = [pending |-> <<>>, running |-> {}, slots |-> slots, pages |-> NumPages,
                 finished |-> {}, req |-> rows]
  BY DEF NewLane
<1>2. NewReq.slot = NoSlot /\ NewReq.cached = 0 /\ NewReq.done = 0
  BY DEF NewReq
<1>3. NumSlots \in Nat /\ NumPages \in Nat
  BY SizeAssumption
<1>4. rows \in Requests
  BY <1>3 DEF NewReq, Requests, NoSlot
<1>5. slots \in Seq(Slots) /\ DOMAIN slots = 1..NumSlots
  BY <1>3 DEF Slots
<1> HIDE DEF slots, rows, lane
<1>6. lane \in Lane
  BY <1>1, <1>3, <1>4, <1>5 DEF Lane
<1>7. \A r \in Reqs : rows[r] = NewReq
  BY DEF rows
<1>8. Rows(slots, RowOf(lane))
  <2>1. \A r \in Reqs : RowOf(lane)[r] = NoSlot
    BY <1>1, <1>2, <1>7 DEF RowOf
  <2>2. IsInjective(slots)
    BY <1>3, <1>5 DEF IsInjective, slots
  <2>3. NoSlot \notin Slots /\ Range(slots) \subseteq Slots
    BY <1>3, <1>5 DEF NoSlot, Slots, Range
  <2>4. ASSUME NEW s \in Slots PROVE s \in Range(slots)
    BY <1>3, <1>5 DEF Slots, slots, Range
  <2> QED BY <2>1, <2>2, <2>3, <2>4 DEF Rows
<1>9. Balance(lane, NumPages)
  <2> DEFINE g == [s \in SUBSET Reqs |-> 0]
             f == PagesHeld(lane)
  <2>1. \A r \in Reqs : f[r] = 0
    BY <1>1, <1>2, <1>7 DEF PagesHeld
  <2>2. \A s \in SUBSET Reqs : s # {} => First(s) \in s
    BY DEF First
  <2> HIDE DEF f
  <2>3. \A s \in SUBSET Reqs : 0 = IF s = {} THEN 0 ELSE f[First(s)] + g[s \ {First(s)}]
    BY <2>1, <2>2
  <2>4. IsSum(f, Reqs, g)
    BY <2>3 DEF IsSum
  <2>5. g[Reqs] = 0 /\ NumPages + 0 = NumPages
    BY <1>3
  <2> HIDE DEF g
  <2> QED BY <1>1, <2>4, <2>5 DEF Balance, f
<1>10. Range(lane.pending) = {} /\ IsInjective(lane.pending)
  BY <1>1 DEF Range, IsInjective
<1> QED BY <1>1, <1>6, <1>8, <1>9, <1>10 DEF LaneOK, lane

LEMMA FreshLane ==
  ASSUME NEW r \in Reqs
  PROVE  /\ ~Present(NewLane, r) /\ NewLane.req[r].cached = 0 /\ NewLane.req[r].done = 0
         /\ r \notin NewLane.finished
<1>1. /\ NewLane.pending = <<>> /\ NewLane.running = {} /\ NewLane.finished = {}
      /\ NewLane.req[r] = NewReq
  BY DEF NewLane
<1>2. NewReq.slot = NoSlot /\ NewReq.cached = 0 /\ NewReq.done = 0
  BY DEF NewReq
<1>3. Range(<<>>) = {}
  BY DEF Range
<1> QED BY <1>1, <1>2, <1>3 DEF Present

LEMMA CoordInit == Init => CoordInv
<1> SUFFICES ASSUME Init PROVE CoordInv
  OBVIOUS
<1>1. /\ inbox = <<>> /\ lanes = [d \in Dps |-> NewLane] /\ lane_of = [r \in Reqs |-> NumDp]
      /\ rr = 0 /\ gens = [d \in Dps |-> [s \in Slots |-> 0]] /\ pending = <<>> /\ step = 1
      /\ out = [r \in Reqs |-> <<>>] /\ status = [r \in Reqs |-> "new"]
  BY DEF Init
<1>2. NumDp \in Nat
  BY PipelineAssumption
<1>3. Shapes
  <2>1. gens \in [Dps -> [Slots -> Nat]] /\ lane_of \in [Reqs -> 0..NumDp]
    BY <1>1, <1>2
  <2>2. \A r \in Reqs : \E S : out[r] \in Seq(S)
    BY <1>1
  <2>3. /\ lanes = [d \in Dps |-> lanes[d]] /\ out = [r \in Reqs |-> out[r]]
        /\ status \in [Reqs -> {"new", "sent", "live", "aborted", "finished"}]
        /\ rr \in Nat /\ step \in Nat
        /\ pending \in Seq([step : Nat, batch : [Dps -> Seq(Entry)]])
    BY <1>1
  <2> QED BY <2>1, <2>2, <2>3 DEF Shapes
<1>4. Messages
  BY <1>1 DEF Messages
<1>5. \A d \in Dps : LaneOK(lanes[d])
  BY <1>1, NewLaneOK
<1>6. \A d \in Dps : \A k \in 1..Len(pending) : Flying(lanes[d], gens[d], pending[k].batch[d])
  BY <1>1
<1>7. \A r \in Reqs : Answer(r)
  BY <1>1 DEF Answer
<1>8. \A r \in Reqs : \A d \in Dps : Served(lanes[d], r)
  BY <1>1, FreshLane DEF Served
<1>9. \A r \in Reqs : \A d, c \in Dps : Present(lanes[d], r) /\ Present(lanes[c], r) => d = c
  BY <1>1, FreshLane
<1> QED BY <1>3, <1>4, <1>5, <1>6, <1>7, <1>8, <1>9 DEF CoordInv

(* What the coordinator's other steps, the workers and the clients leave.  *)
coreVars == <<lanes, gens, lane_of, rr, pending, step, out>>

LEMMA CoordStays ==
  CoordInv /\ UNCHANGED <<coreVars, status>> /\ Messages' => CoordInv'
<1> SUFFICES ASSUME CoordInv, UNCHANGED <<coreVars, status>>, Messages' PROVE CoordInv'
  OBVIOUS
<1>1. Shapes'
  BY DEF coreVars, CoordInv, Shapes
<1>2. \A d \in Dps : LaneOK(lanes'[d])
  BY DEF coreVars, CoordInv
<1>3. \A d \in Dps : \A k \in 1..Len(pending') : Flying(lanes'[d], gens'[d], pending'[k].batch[d])
  BY DEF coreVars, CoordInv
<1>4. \A r \in Reqs : Answer(r)'
  BY DEF coreVars, CoordInv, Answer
<1>5. \A r \in Reqs : \A d \in Dps : Served(lanes[d], r)'
  BY DEF coreVars, CoordInv, Served
<1>6. \A r \in Reqs : \A d, c \in Dps : Present(lanes'[d], r) /\ Present(lanes'[c], r) => d = c
  BY DEF coreVars, CoordInv
<1> QED BY <1>1, <1>2, <1>3, <1>4, <1>5, <1>6 DEF CoordInv

(* The inbox grows at its end and is read at its head.                     *)
LEMMA TailParts ==
  ASSUME NEW S, NEW s \in Seq(S), s # <<>>
  PROVE  /\ Tail(s) \in Seq(S) /\ Head(s) \in S /\ Len(Tail(s)) = Len(s) - 1
         /\ Head(s) = s[1] /\ 1 \in DOMAIN s
         /\ \A i \in DOMAIN Tail(s) : i + 1 \in DOMAIN s /\ i + 1 # 1 /\ Tail(s)[i] = s[i + 1]
<1>1. Len(s) \in Nat /\ Len(s) # 0 /\ DOMAIN s = 1..Len(s)
  OBVIOUS
<1>2. Tail(s) \in Seq(S) /\ Len(Tail(s)) = Len(s) - 1 /\ Head(s) = s[1]
  OBVIOUS
<1>3. \A i \in 1..(Len(s) - 1) : Tail(s)[i] = s[i + 1]
  OBVIOUS
<1>4. DOMAIN Tail(s) = 1..(Len(s) - 1)
  BY <1>2
<1>5. 1 \in DOMAIN s /\ s[1] \in S
  BY <1>1
<1>6. \A i \in 1..(Len(s) - 1) : i + 1 \in 1..Len(s) /\ i + 1 # 1
  BY <1>1
<1> QED BY <1>1, <1>2, <1>3, <1>4, <1>5, <1>6

LEMMA InboxRead ==
  ASSUME Messages, inbox # <<>>, inbox' = Tail(inbox),
         \A r \in Reqs : status[r] = "sent" /\ status'[r] # "sent" => Head(inbox) = [type |-> "user", req |-> r]
  PROVE  Messages'
<1>1. /\ inbox \in Seq(Message)
      /\ \A i \in DOMAIN inbox : inbox[i].type # "exit" => inbox[i].req \in Reqs
      /\ \A i \in DOMAIN inbox : inbox[i].type = "user" => status[inbox[i].req] = "sent"
      /\ \A i, j \in DOMAIN inbox :
           inbox[i].type = "user" /\ inbox[j].type = "user" /\ inbox[i].req = inbox[j].req => i = j
  BY DEF Messages
<1>2. /\ inbox' \in Seq(Message) /\ Head(inbox) = inbox[1] /\ 1 \in DOMAIN inbox
      /\ \A i \in DOMAIN inbox' : i + 1 \in DOMAIN inbox /\ i + 1 # 1 /\ inbox'[i] = inbox[i + 1] /\ i \in Int
  BY <1>1, TailParts
<1>3. ASSUME NEW i \in DOMAIN inbox', inbox'[i].type = "user" PROVE status'[inbox'[i].req] = "sent"
  <2> DEFINE r == inbox'[i].req
  <2>1. r \in Reqs /\ status[r] = "sent" /\ inbox[i + 1].type = "user" /\ inbox[i + 1].req = r
    BY <1>1, <1>2, <1>3
  <2>2. CASE status'[r] # "sent"
    BY <1>1, <1>2, <2>1, <2>2
  <2> QED BY <2>2
<1>4. ASSUME NEW i \in DOMAIN inbox', NEW j \in DOMAIN inbox', inbox'[i].type = "user",
             inbox'[j].type = "user", inbox'[i].req = inbox'[j].req
      PROVE  i = j
  BY <1>1, <1>2, <1>4
<1>5. \A i \in DOMAIN inbox' : inbox'[i].type # "exit" => inbox'[i].req \in Reqs
  BY <1>1, <1>2
<1> QED BY <1>2, <1>3, <1>4, <1>5 DEF Messages

LEMMA InboxGrows ==
  ASSUME Messages, NEW m \in Message, inbox' = Append(inbox, m),
         m.type # "exit" => m.req \in Reqs,
         m.type = "user" => status[m.req] # "sent" /\ status'[m.req] = "sent",
         \A r \in Reqs : status[r] = "sent" => status'[r] = "sent"
  PROVE  Messages'
<1>1. /\ inbox \in Seq(Message)
      /\ \A i \in DOMAIN inbox : inbox[i].type # "exit" => inbox[i].req \in Reqs
      /\ \A i \in DOMAIN inbox : inbox[i].type = "user" => status[inbox[i].req] = "sent"
      /\ \A i, j \in DOMAIN inbox :
           inbox[i].type = "user" /\ inbox[j].type = "user" /\ inbox[i].req = inbox[j].req => i = j
  BY DEF Messages
<1> DEFINE n == Len(inbox)
<1>2. /\ inbox' \in Seq(Message) /\ DOMAIN inbox' = 1..(n + 1) /\ inbox'[n + 1] = m
      /\ \A i \in 1..n : inbox'[i] = inbox[i]
      /\ DOMAIN inbox = 1..n /\ n \in Nat
  BY <1>1, AppendParts
<1> HIDE DEF n
<1>3. \A i \in DOMAIN inbox' : i \in 1..n \/ i = n + 1
  BY <1>2
<1>4. \A i \in DOMAIN inbox' : inbox'[i].type # "exit" => inbox'[i].req \in Reqs
  BY <1>1, <1>2, <1>3
<1>5. ASSUME NEW i \in DOMAIN inbox', inbox'[i].type = "user"
      PROVE  /\ status'[inbox'[i].req] = "sent"
             /\ i \in 1..n => status[inbox'[i].req] = "sent"
             /\ i = n + 1 => status[inbox'[i].req] # "sent"
  <2>1. CASE i \in 1..n
    BY <1>1, <1>2, <1>5, <2>1
  <2>2. CASE i = n + 1
    BY <1>2, <1>5, <2>2
  <2> QED BY <1>3, <2>1, <2>2
<1>6. ASSUME NEW i \in DOMAIN inbox', NEW j \in DOMAIN inbox', inbox'[i].type = "user",
             inbox'[j].type = "user", inbox'[i].req = inbox'[j].req
      PROVE  i = j
  <2>1. CASE i \in 1..n /\ j \in 1..n
    BY <1>1, <1>2, <1>6, <2>1
  <2>2. (i = n + 1) <=> (j = n + 1)
    BY <1>3, <1>5, <1>6
  <2> QED BY <1>3, <2>1, <2>2
<1> QED BY <1>2, <1>4, <1>5, <1>6 DEF Messages

(* Clients, workers, and the coordinator's steps that touch no request.    *)
LEMMA SendStep ==
  ASSUME CoordInv, NEW r \in Reqs, Send(r)
  PROVE  CoordInv'
<1>1. /\ status[r] = "new" /\ inbox' = Append(inbox, [type |-> "user", req |-> r])
      /\ status' = [status EXCEPT ![r] = "sent"]
      /\ UNCHANGED <<lanes, gens, lane_of, rr, pending, step, out>>
  BY DEF Send, coordVars
<1>2. status \in [Reqs -> {"new", "sent", "live", "aborted", "finished"}] /\ Messages
  BY DEF CoordInv, Shapes
<1>3. /\ status'[r] = "sent" /\ \A q \in Reqs : q # r => status'[q] = status[q]
      /\ status' \in [Reqs -> {"new", "sent", "live", "aborted", "finished"}]
  BY <1>1, <1>2
<1>4. Messages'
  <2> DEFINE m == [type |-> "user", req |-> r]
  <2>1. m \in Message /\ m.type = "user" /\ m.req = r
    BY DEF Message
  <2> HIDE DEF m
  <2>2. /\ m.type # "exit" => m.req \in Reqs
        /\ m.type = "user" => status[m.req] # "sent" /\ status'[m.req] = "sent"
        /\ inbox' = Append(inbox, m) /\ m \in Message
        /\ \A q \in Reqs : status[q] = "sent" => status'[q] = "sent"
    BY <1>1, <1>3, <2>1 DEF m
  <2> QED BY <1>2, <2>2, InboxGrows
<1>5. Shapes'
  BY <1>1, <1>3 DEF CoordInv, Shapes
<1>6. \A d \in Dps : LaneOK(lanes'[d])
  BY <1>1 DEF CoordInv
<1>7. \A d \in Dps : \A k \in 1..Len(pending') : Flying(lanes'[d], gens'[d], pending'[k].batch[d])
  BY <1>1 DEF CoordInv
<1>8. ASSUME NEW q \in Reqs PROVE Answer(q)'
  BY <1>1, <1>3 DEF CoordInv, Answer
<1>9. ASSUME NEW q \in Reqs, NEW d \in Dps PROVE Served(lanes[d], q)'
  <2>1. Served(lanes[d], q)
    BY DEF CoordInv
  <2>2. status'[q] \in {"new", "sent"} => status[q] \in {"new", "sent"}
    BY <1>1, <1>3
  <2>3. status[q] = "live" => status'[q] = "live"
    BY <1>1, <1>3
  <2>4. lanes'[d] = lanes[d] /\ out' = out
    BY <1>1
  <2> QED BY <2>1, <2>2, <2>3, <2>4 DEF Served
<1>10. \A q \in Reqs : \A d, c \in Dps : Present(lanes'[d], q) /\ Present(lanes'[c], q) => d = c
  BY <1>1 DEF CoordInv
<1> QED BY <1>4, <1>5, <1>6, <1>7, <1>8, <1>9, <1>10 DEF CoordInv

OtherStep ==
  \/ SendExit \/ \E r \in Reqs : Disconnect(r)
  \/ ProcessExit \/ EndRecv \/ LaunchFails \/ LaunchNone \/ PipelineFull \/ Return
  \/ \E w \in Workers : WorkerLoop(w)
  \/ UNCHANGED vars

LEMMA OtherSteps ==
  ASSUME CoordInv, OtherStep
  PROVE  CoordInv' /\ status' = status /\ out' = out
<1>0. Messages
  BY DEF CoordInv
<1>1. CASE SendExit
  <2>1. inbox' = Append(inbox, ExitMsg) /\ UNCHANGED <<coreVars, status>>
    BY <1>1 DEF SendExit, coordVars, coreVars
  <2>2. ExitMsg \in Message /\ ExitMsg.type = "exit"
    BY DEF ExitMsg, Message
  <2>3. Messages'
    <3> DEFINE m == ExitMsg
    <3> HIDE DEF m
    <3>1. m \in Message /\ m.type = "exit" /\ inbox' = Append(inbox, m) /\ status' = status
      BY <2>1, <2>2 DEF m
    <3> QED BY <1>0, <3>1, InboxGrows
  <2> QED BY <2>1, <2>3, CoordStays DEF coreVars
<1>2. ASSUME NEW r \in Reqs, Disconnect(r) PROVE CoordInv' /\ status' = status /\ out' = out
  <2>1. inbox' = Append(inbox, AbortMsg(r)) /\ UNCHANGED <<coreVars, status>>
    BY <1>2 DEF Disconnect, coordVars, coreVars
  <2>2. AbortMsg(r) \in Message /\ AbortMsg(r).type = "abort" /\ AbortMsg(r).req = r
    BY DEF AbortMsg, Message
  <2>3. Messages'
    <3> DEFINE m == AbortMsg(r)
    <3> HIDE DEF m
    <3>1. m \in Message /\ m.type = "abort" /\ m.req \in Reqs /\ inbox' = Append(inbox, m) /\ status' = status
      BY <2>1, <2>2 DEF m
    <3> QED BY <1>0, <3>1, InboxGrows
  <2> QED BY <2>1, <2>3, CoordStays DEF coreVars
<1>3. CASE ProcessExit
  BY <1>0, <1>3, InboxRead, CoordStays DEF ProcessExit, workerVars, coreVars
<1>4. CASE UNCHANGED <<inbox, coreVars, status>>
  BY <1>0, <1>4, CoordStays DEF Messages, coreVars
<1>5. CASE EndRecv \/ LaunchFails \/ PipelineFull \/ Return
  BY <1>4, <1>5 DEF EndRecv, LaunchFails, PipelineFull, Return, coreVars
<1>6. CASE LaunchNone
  BY <1>4, <1>6 DEF LaunchNone, Loop, coreVars
<1>7. ASSUME NEW w \in Workers, WorkerLoop(w) PROVE UNCHANGED <<inbox, coreVars, status>>
  <2>1. CASE w = Expert /\ RunExpert
    BY <2>1 DEF RunExpert, coordVars, coreVars
  <2>2. CASE w \in Dps /\ Attention(w)
    BY <2>2 DEF Attention, RunAttention, AttentionFails, coordVars, coreVars
  <2>3. CASE TakeFlush(w) \/ TakeStop(w) \/ Retire(w)
    BY <2>3 DEF TakeFlush, TakeStop, Retire, coordVars, coreVars
  <2> QED BY <1>7, <2>1, <2>2, <2>3 DEF WorkerLoop
<1>8. CASE UNCHANGED vars
  BY <1>4, <1>8 DEF vars, coordVars, coreVars
<1> QED BY <1>1, <1>2, <1>3, <1>4, <1>5, <1>6, <1>7, <1>8 DEF OtherStep

(* A new request joins a lane, at the end of its pending list.             *)
LEMMA AddReqsParts ==
  ASSUME NEW lane, LaneOK(lane), NEW r \in Reqs, ~Present(lane, r), lane.req[r].cached = 0,
         r \notin lane.finished
  PROVE  LET next == AddReqs(lane, r)
         IN  /\ LaneOK(next) /\ next.req = lane.req /\ next.running = lane.running
             /\ next.finished = lane.finished /\ Range(next.pending) = Range(lane.pending) \cup {r}
<1> DEFINE next == AddReqs(lane, r)
<1>1. /\ lane \in Lane /\ lane.pending \in Seq(Reqs) /\ IsInjective(lane.pending)
      /\ \A q \in Range(lane.pending) : /\ q \notin lane.running
                                        /\ lane.req[q].cached <= InputLen[q]
                                        /\ lane.req[q].slot = NoSlot => lane.req[q].cached = 0
      /\ \A q \in lane.running : lane.req[q].slot # NoSlot
      /\ \A q \in lane.finished : ~Present(lane, q)
      /\ Rows(lane.slots, RowOf(lane)) /\ Balance(lane, NumPages)
  BY DEF LaneOK, Lane
<1>2. r \notin Range(lane.pending) /\ r \notin lane.running /\ lane.req[r].slot = NoSlot
  BY DEF Present
<1>3. /\ Append(lane.pending, r) \in Seq(Reqs) /\ Range(Append(lane.pending, r)) = Range(lane.pending) \cup {r}
  BY <1>1, AppendParts
<1>4. IsInjective(Append(lane.pending, r))
  BY <1>1, <1>2, AppendDistinct
<1>5. /\ next \in Lane /\ next.pending = Append(lane.pending, r) /\ next.running = lane.running
      /\ next.slots = lane.slots /\ next.pages = lane.pages /\ next.req = lane.req
      /\ next.finished = lane.finished
  BY <1>1, <1>3 DEF AddReqs, Lane
<1> HIDE DEF next
<1>6. InputLen[r] \in Nat
  BY RequestAssumption
<1>7. RowOf(next) = RowOf(lane) /\ Balance(next, NumPages)
  BY <1>1, <1>5, BalanceStays DEF RowOf, PagesHeld
<1>8. \A q \in next.finished : ~Present(next, q)
  BY <1>1, <1>3, <1>5 DEF Present
<1>9. \A q \in Range(next.pending) : /\ q \notin next.running
                                     /\ next.req[q].cached <= InputLen[q]
                                     /\ next.req[q].slot = NoSlot => next.req[q].cached = 0
  BY <1>1, <1>2, <1>3, <1>5, <1>6
<1>10. LaneOK(next)
  BY <1>1, <1>3, <1>4, <1>5, <1>7, <1>8, <1>9 DEF LaneOK
<1> QED BY <1>3, <1>5, <1>10 DEF next

LEMMA FlyingTypes ==
  ASSUME Shapes, NEW c \in Dps, NEW k \in 1..Len(pending)
  PROVE  gens[c] \in [Slots -> Nat] /\ pending[k].batch[c] \in Seq(Entry)
<1>1. gens \in [Dps -> [Slots -> Nat]] /\ pending \in Seq([step : Nat, batch : [Dps -> Seq(Entry)]])
  BY DEF Shapes
<1>2. pending[k] \in [step : Nat, batch : [Dps -> Seq(Entry)]]
  <2> DEFINE T == [step : Nat, batch : [Dps -> Seq(Entry)]]
  <2>1. pending \in Seq(T)
    BY <1>1
  <2> HIDE DEF T
  <2>2. pending[k] \in T
    BY <2>1
  <2> QED BY <2>2 DEF T
<1>3. pending[k].batch \in [Dps -> Seq(Entry)]
  BY <1>2
<1> QED BY <1>1, <1>3

(* _process_user_msgs: the request waits in one lane and is in no other.   *)
LEMMA ProcessUserStep ==
  ASSUME CoordInv, ProcessUser
  PROVE  CoordInv' /\ (\A q \in Reqs : status[q] = "aborted" => status'[q] = "aborted") /\ out' = out
<1> DEFINE r == Head(inbox).req
           d == rr % NumDp
<1>1. /\ inbox # <<>> /\ Head(inbox).type = "user" /\ inbox' = Tail(inbox)
      /\ lanes' = [lanes EXCEPT ![d] = AddReqs(@, r)]
      /\ lane_of' = [lane_of EXCEPT ![r] = d] /\ status' = [status EXCEPT ![r] = "live"]
      /\ rr' = rr + 1 /\ UNCHANGED <<gens, pending, step, out>>
  BY DEF ProcessUser
<1>2. /\ Shapes /\ Messages
      /\ \A c \in Dps : LaneOK(lanes[c])
      /\ \A c \in Dps : \A k \in 1..Len(pending) : Flying(lanes[c], gens[c], pending[k].batch[c])
      /\ \A q \in Reqs : Answer(q)
      /\ \A q \in Reqs : \A c \in Dps : Served(lanes[c], q)
      /\ \A q \in Reqs : \A a, b \in Dps : Present(lanes[a], q) /\ Present(lanes[b], q) => a = b
  BY DEF CoordInv
<1>3. /\ inbox \in Seq(Message) /\ Head(inbox) = inbox[1] /\ 1 \in DOMAIN inbox
      /\ r \in Reqs /\ status[r] = "sent" /\ Head(inbox) = [type |-> "user", req |-> r]
  <2>1. inbox \in Seq(Message) /\ Head(inbox) = inbox[1] /\ 1 \in DOMAIN inbox /\ Head(inbox) \in Message
    BY <1>1, <1>2, TailParts DEF Messages
  <2>2. r \in Reqs /\ status[r] = "sent"
    BY <1>1, <1>2, <2>1 DEF Messages
  <2>3. Head(inbox) = [type |-> "user", req |-> r]
    BY <1>1, <2>1 DEF Message
  <2> QED BY <2>1, <2>2, <2>3
<1>4. d \in Dps /\ rr \in Nat
  BY <1>2, PipelineAssumption DEF Shapes, Dps
<1> HIDE DEF r, d
<1>5. /\ status \in [Reqs -> {"new", "sent", "live", "aborted", "finished"}]
      /\ status' \in [Reqs -> {"new", "sent", "live", "aborted", "finished"}]
      /\ status'[r] = "live" /\ \A q \in Reqs : q # r => status'[q] = status[q]
  BY <1>1, <1>2, <1>3 DEF Shapes
<1>6. \A c \in Dps : lanes'[c] = IF c = d THEN AddReqs(lanes[d], r) ELSE lanes[c]
  BY <1>1, <1>2, <1>4 DEF Shapes
<1>7. /\ \A c \in Dps : ~Present(lanes[c], r) /\ lanes[c].req[r].cached = 0
                        /\ lanes[c].req[r].done = 0 /\ r \notin lanes[c].finished
      /\ out[r] = <<>>
  BY <1>2, <1>3 DEF Served, Answer
<1> DEFINE new == AddReqs(lanes[d], r)
<1>8. /\ LaneOK(new) /\ new.req = lanes[d].req /\ new.running = lanes[d].running
      /\ new.finished = lanes[d].finished /\ Range(new.pending) = Range(lanes[d].pending) \cup {r}
  BY <1>2, <1>3, <1>4, <1>7, AddReqsParts
<1> HIDE DEF new
<1>9. \A c \in Dps : lanes'[c] = IF c = d THEN new ELSE lanes[c]
  BY <1>6 DEF new
<1>10. Messages'
  BY <1>1, <1>2, <1>3, <1>5, InboxRead
<1>11. Shapes'
  <2>1. lanes' = [c \in Dps |-> lanes'[c]]
    BY <1>1, <1>2 DEF Shapes
  <2>2. lane_of' \in [Reqs -> 0..NumDp]
    <3>1. d \in 0..NumDp
      BY <1>4, PipelineAssumption DEF Dps
    <3> QED BY <1>1, <1>2, <3>1 DEF Shapes
  <2>3. rr' \in Nat
    BY <1>1, <1>4
  <2> QED BY <1>1, <1>2, <1>5, <2>1, <2>2, <2>3 DEF Shapes
<1>12. \A c \in Dps : LaneOK(lanes'[c])
  BY <1>2, <1>8, <1>9
<1>13. ASSUME NEW c \in Dps, NEW k \in 1..Len(pending)
       PROVE  Flying(lanes'[c], gens'[c], pending'[k].batch[c])
  <2>1. Flying(lanes[c], gens[c], pending[k].batch[c]) /\ gens' = gens /\ pending' = pending
    BY <1>1, <1>2
  <2>2. CASE c # d
    BY <1>9, <2>1, <2>2
  <2>3. CASE c = d
    <3> DEFINE g == gens[c]
               batch == pending[k].batch[c]
    <3>1. g \in [Slots -> Nat] /\ batch \in Seq(Entry)
      BY <1>2, FlyingTypes
    <3>2. Flying(lanes[c], g, batch)
      BY <2>1
    <3> HIDE DEF g, batch
    <3>3. \A s \in Slots : g[s] <= g[s]
      BY <3>1
    <3>4. \A q \in Reqs : lanes[c].req[q].slot \in Slots /\ g[lanes[c].req[q].slot] = g[lanes[c].req[q].slot] =>
                           /\ new.req[q].slot = lanes[c].req[q].slot
                           /\ q \in Range(new.pending) => q \in Range(lanes[c].pending)
      <4>1. lanes[c].req[r].slot \notin Slots
        BY <1>7, SizeAssumption DEF Present, NoSlot, Slots
      <4> QED BY <1>8, <2>3, <4>1
    <3>5. Flying(new, g, batch)
      BY <3>1, <3>2, <3>3, <3>4, FlyingStays
    <3> QED BY <1>9, <2>1, <2>3, <3>5 DEF g, batch
  <2> QED BY <2>2, <2>3
<1>14. ASSUME NEW q \in Reqs PROVE Answer(q)'
  BY <1>1, <1>2, <1>5 DEF Answer
<1>15. \A q \in Reqs : \A c \in Dps : Present(lanes'[c], q) => Present(lanes[c], q) \/ (q = r /\ c = d)
  BY <1>8, <1>9 DEF Present
<1>16. ASSUME NEW q \in Reqs, NEW c \in Dps PROVE Served(lanes[c], q)'
  <2>1. Served(lanes[c], q) /\ out' = out
    BY <1>1, <1>2
  <2>2. lanes'[c].req = lanes[c].req /\ lanes'[c].finished = lanes[c].finished
    BY <1>8, <1>9
  <2>3. CASE q # r
    BY <1>5, <1>15, <2>1, <2>2, <2>3 DEF Served
  <2>4. CASE q = r
    BY <1>5, <1>7, <2>1, <2>2, <2>4, RequestAssumption DEF Served
  <2> QED BY <2>3, <2>4
<1>17. ASSUME NEW q \in Reqs, NEW a \in Dps, NEW b \in Dps, Present(lanes'[a], q), Present(lanes'[b], q)
       PROVE  a = b
  BY <1>2, <1>7, <1>15, <1>17
<1>18. \A c \in Dps : \A k \in 1..Len(pending') : Flying(lanes'[c], gens'[c], pending'[k].batch[c])
  BY <1>1, <1>13
<1>19. CoordInv'
  BY <1>10, <1>11, <1>12, <1>14, <1>16, <1>17, <1>18 DEF CoordInv
<1>20. \A q \in Reqs : status[q] = "aborted" => status'[q] = "aborted"
  BY <1>3, <1>5
<1> QED BY <1>1, <1>19, <1>20

(* _process_abort_msg: the request leaves the lane it is found in.         *)
CutIn(r, c) ==
  IF c \in (IF lane_of[r] = NumDp THEN Dps ELSE {lane_of[r]}) THEN AbortReq(lanes[c], r)
  ELSE [lane |-> lanes[c], freed |-> <<>>, found |-> FALSE]

LEMMA CutParts ==
  ASSUME CoordInv, NEW r \in Reqs, NEW c \in Dps
  PROVE  LET cut == CutIn(r, c) IN
         /\ cut.found \in BOOLEAN /\ LaneOK(cut.lane)
         /\ cut.found => /\ Present(lanes[c], r) /\ Dropped(lanes[c], cut.lane, r)
                         /\ cut.freed = IF lanes[c].req[r].slot = NoSlot THEN <<>>
                                        ELSE <<lanes[c].req[r].slot>>
         /\ ~cut.found => cut.lane = lanes[c] /\ cut.freed = <<>>
<1>1. LaneOK(lanes[c])
  BY DEF CoordInv
<1> DEFINE lane == lanes[c]
           cut  == CutIn(r, c)
<1>2. CASE cut = AbortReq(lane, r)
  <2>1. LaneOK(lane)
    BY <1>1
  <2> HIDE DEF lane, cut
  <2>2. /\ cut.found \in BOOLEAN /\ LaneOK(cut.lane)
        /\ cut.found => /\ Present(lane, r) /\ Dropped(lane, cut.lane, r)
                        /\ cut.freed = IF lane.req[r].slot = NoSlot THEN <<>>
                                       ELSE <<lane.req[r].slot>>
        /\ ~cut.found => cut.lane = lane /\ cut.freed = <<>>
    BY <1>2, <2>1, AbortParts
  <2> QED BY <2>2 DEF lane, cut
<1>3. CASE cut = [lane |-> lanes[c], freed |-> <<>>, found |-> FALSE]
  <2> HIDE DEF cut
  <2>1. cut.found = FALSE /\ cut.lane = lanes[c] /\ cut.freed = <<>>
    BY <1>3
  <2>2. /\ cut.found \in BOOLEAN /\ LaneOK(cut.lane)
        /\ cut.found => /\ Present(lanes[c], r) /\ Dropped(lanes[c], cut.lane, r)
                        /\ cut.freed = IF lanes[c].req[r].slot = NoSlot THEN <<>>
                                       ELSE <<lanes[c].req[r].slot>>
        /\ ~cut.found => cut.lane = lanes[c] /\ cut.freed = <<>>
    BY <1>1, <2>1
  <2> QED BY <2>2 DEF cut
<1> QED BY <1>2, <1>3 DEF CutIn

LEMMA FlyingCut ==
  ASSUME NEW lane, NEW next, NEW g \in [Slots -> Nat], NEW batch \in Seq(Entry),
         Flying(lane, g, batch), NEW r \in Reqs, NEW freed,
         \/ next = lane /\ freed = <<>>
         \/ /\ Dropped(lane, next, r)
            /\ freed = IF lane.req[r].slot = NoSlot THEN <<>> ELSE <<lane.req[r].slot>>
  PROVE  Flying(next, Forget(g, freed), batch)
<1> DEFINE h == Forget(g, freed)
<1>1. h \in [Slots -> Nat] /\ \A s \in Slots : g[s] <= h[s] /\ (h[s] = g[s] <=> s \notin Range(freed))
  BY ForgetParts
<1> HIDE DEF h
<1>2. ASSUME NEW q \in Reqs, lane.req[q].slot \in Slots, h[lane.req[q].slot] = g[lane.req[q].slot]
      PROVE  /\ next.req[q].slot = lane.req[q].slot
             /\ q \in Range(next.pending) => q \in Range(lane.pending)
  <2>1. CASE next = lane
    BY <2>1
  <2>2. CASE /\ Dropped(lane, next, r)
             /\ freed = IF lane.req[r].slot = NoSlot THEN <<>> ELSE <<lane.req[r].slot>>
    <3>1. q # r
      <4>1. SUFFICES ASSUME q = r PROVE FALSE
        OBVIOUS
      <4>2. lane.req[r].slot # NoSlot
        BY <1>2, <4>1, SizeAssumption DEF Slots, NoSlot
      <4>3. freed = <<lane.req[r].slot>>
        BY <2>2, <4>2
      <4>4. lane.req[r].slot \in Range(freed)
        BY <4>3 DEF Range
      <4> QED BY <1>1, <1>2, <4>1, <4>4
    <3> QED BY <2>2, <3>1 DEF Dropped
  <2> QED BY <2>1, <2>2
<1>3. Flying(next, h, batch)
  BY <1>1, <1>2, FlyingStays
<1> QED BY <1>3 DEF h

LEMMA ProcessAbortStep ==
  ASSUME CoordInv, ProcessAbort
  PROVE  CoordInv' /\ (\A q \in Reqs : status[q] = "aborted" => status'[q] = "aborted") /\ out' = out
<1> DEFINE r == Head(inbox).req
           found == \E c \in Dps : CutIn(r, c).found
<1>1. /\ inbox # <<>> /\ Head(inbox).type = "abort" /\ inbox' = Tail(inbox)
      /\ lanes' = [c \in Dps |-> CutIn(r, c).lane]
      /\ gens' = [c \in Dps |-> Forget(gens[c], CutIn(r, c).freed)]
      /\ lane_of' = [lane_of EXCEPT ![r] = NumDp]
      /\ status' = IF found THEN [status EXCEPT ![r] = "aborted"] ELSE status
      /\ UNCHANGED <<rr, pending, step, out>>
  BY DEF ProcessAbort, CutIn
<1>2. /\ Shapes /\ Messages
      /\ \A c \in Dps : LaneOK(lanes[c])
      /\ \A c \in Dps : \A k \in 1..Len(pending) : Flying(lanes[c], gens[c], pending[k].batch[c])
      /\ \A q \in Reqs : Answer(q)
      /\ \A q \in Reqs : \A c \in Dps : Served(lanes[c], q)
      /\ \A q \in Reqs : \A a, b \in Dps : Present(lanes[a], q) /\ Present(lanes[b], q) => a = b
  BY DEF CoordInv
<1>3. r \in Reqs
  BY <1>1, <1>2, TailParts DEF Messages
<1> HIDE DEF r
<1>4. \A c \in Dps : /\ lanes'[c] = CutIn(r, c).lane
                     /\ gens'[c] = Forget(gens[c], CutIn(r, c).freed)
  BY <1>1
<1>5. ASSUME NEW c \in Dps
      PROVE  /\ LaneOK(lanes'[c])
             /\ CutIn(r, c).found => Present(lanes[c], r) /\ Dropped(lanes[c], lanes'[c], r)
             /\ ~CutIn(r, c).found => lanes'[c] = lanes[c]
             /\ \/ lanes'[c] = lanes[c] /\ CutIn(r, c).freed = <<>>
                \/ /\ Dropped(lanes[c], lanes'[c], r)
                   /\ CutIn(r, c).freed = IF lanes[c].req[r].slot = NoSlot THEN <<>>
                                          ELSE <<lanes[c].req[r].slot>>
  <2> DEFINE cut == CutIn(r, c)
  <2>1. /\ cut.found \in BOOLEAN /\ LaneOK(cut.lane)
        /\ cut.found => /\ Present(lanes[c], r) /\ Dropped(lanes[c], cut.lane, r)
                        /\ cut.freed = IF lanes[c].req[r].slot = NoSlot THEN <<>>
                                       ELSE <<lanes[c].req[r].slot>>
        /\ ~cut.found => cut.lane = lanes[c] /\ cut.freed = <<>>
    BY <1>3, CutParts
  <2> HIDE DEF cut
  <2>2. lanes'[c] = cut.lane
    BY <1>4 DEF cut
  <2> QED BY <2>1, <2>2 DEF cut
<1>6. ASSUME NEW c \in Dps
      PROVE  /\ lanes'[c].finished = lanes[c].finished
             /\ \A q \in Reqs : /\ Present(lanes'[c], q) => Present(lanes[c], q)
                                /\ lanes'[c].req[q].cached = lanes[c].req[q].cached
                                /\ lanes'[c].req[q].done = lanes[c].req[q].done
  <2>1. CASE lanes'[c] = lanes[c]
    BY <2>1
  <2>2. CASE Dropped(lanes[c], lanes'[c], r)
    BY <2>2 DEF Dropped, Present
  <2> QED BY <1>5, <2>1, <2>2
<1>7. found => /\ status[r] = "live" /\ \A c \in Dps : ~Present(lanes'[c], r)
  <2>1. SUFFICES ASSUME NEW d \in Dps, CutIn(r, d).found
                 PROVE  status[r] = "live" /\ \A c \in Dps : ~Present(lanes'[c], r)
    OBVIOUS
  <2>2. Present(lanes[d], r) /\ Dropped(lanes[d], lanes'[d], r)
    BY <1>5, <2>1
  <2>3. status[r] = "live"
    BY <1>2, <1>3, <2>2 DEF Served
  <2>4. \A c \in Dps : ~Present(lanes'[c], r)
    BY <1>2, <1>3, <1>6, <2>2 DEF Dropped
  <2> QED BY <2>3, <2>4
<1> HIDE DEF found
<1>8. /\ status \in [Reqs -> {"new", "sent", "live", "aborted", "finished"}]
      /\ status' \in [Reqs -> {"new", "sent", "live", "aborted", "finished"}]
      /\ \A q \in Reqs : status'[q] = IF found /\ q = r THEN "aborted" ELSE status[q]
  BY <1>1, <1>2, <1>3 DEF Shapes
<1>9. Messages'
  BY <1>1, <1>2, <1>7, <1>8, InboxRead
<1>10. Shapes'
  <2>1. lanes' = [c \in Dps |-> lanes'[c]]
    BY <1>1
  <2>2. gens' \in [Dps -> [Slots -> Nat]]
    <3>1. ASSUME NEW c \in Dps PROVE gens'[c] \in [Slots -> Nat]
      BY <1>2, <1>4, ForgetParts DEF Shapes
    <3>2. gens' = [c \in Dps |-> gens'[c]]
      BY <1>1
    <3> QED BY <3>1, <3>2
  <2>3. lane_of' \in [Reqs -> 0..NumDp]
    <3>1. NumDp \in 0..NumDp
      BY PipelineAssumption
    <3> QED BY <1>1, <1>2, <3>1 DEF Shapes
  <2> QED BY <1>1, <1>2, <1>8, <2>1, <2>2, <2>3 DEF Shapes
<1>11. ASSUME NEW c \in Dps, NEW k \in 1..Len(pending)
       PROVE  Flying(lanes'[c], gens'[c], pending[k].batch[c])
  <2> DEFINE g == gens[c]
             batch == pending[k].batch[c]
             freed == CutIn(r, c).freed
             lane == lanes[c]
             next == lanes'[c]
  <2>1. g \in [Slots -> Nat] /\ batch \in Seq(Entry)
    BY <1>2, FlyingTypes
  <2>2. Flying(lane, g, batch)
    BY <1>2
  <2>3. \/ next = lane /\ freed = <<>>
        \/ /\ Dropped(lane, next, r)
           /\ freed = IF lane.req[r].slot = NoSlot THEN <<>> ELSE <<lane.req[r].slot>>
    BY <1>5
  <2>4. gens'[c] = Forget(g, freed)
    BY <1>4
  <2> HIDE DEF g, batch, freed, lane, next
  <2>5. Flying(next, Forget(g, freed), batch)
    BY <1>3, <2>1, <2>2, <2>3, FlyingCut
  <2> QED BY <2>4, <2>5 DEF next, batch
<1>12. ASSUME NEW q \in Reqs PROVE Answer(q)'
  BY <1>1, <1>2, <1>8 DEF Answer
<1>13. ASSUME NEW q \in Reqs, NEW c \in Dps PROVE Served(lanes[c], q)'
  BY <1>1, <1>2, <1>6, <1>7, <1>8 DEF Served
<1>14. \A q \in Reqs : \A a, b \in Dps : Present(lanes'[a], q) /\ Present(lanes'[b], q) => a = b
  BY <1>2, <1>6
<1>15. \A c \in Dps : \A k \in 1..Len(pending') : Flying(lanes'[c], gens'[c], pending'[k].batch[c])
  BY <1>1, <1>11
<1>16. CoordInv'
  BY <1>5, <1>9, <1>10, <1>12, <1>13, <1>14, <1>15 DEF CoordInv
<1>17. \A q \in Reqs : status[q] = "aborted" => status'[q] = "aborted"
  BY <1>8
<1> QED BY <1>1, <1>16, <1>17

(* What a launch leaves of a lane, and the batch it starts.                *)
Starts(lane, g, next, batch) ==
  /\ LaneOK(next) /\ next.finished = lane.finished
  /\ Range(next.pending) \subseteq Range(lane.pending)
  /\ \A r \in Reqs : /\ lane.req[r].slot # NoSlot => next.req[r].slot = lane.req[r].slot
                     /\ next.req[r].done = lane.req[r].done
                     /\ Present(next, r) => Present(lane, r)
                     /\ ~Present(lane, r) => next.req[r].cached = lane.req[r].cached
  /\ batch \in Seq(Entry) /\ Flying(next, g, batch)

(* _afd_launch_step: a lane's batch, stamped with the generations of its   *)
(* rows, flies from the moment the requests have advanced.                 *)
LEMMA LaneLaunch ==
  ASSUME NEW lane, NEW b, BatchOK(lane, b), NEW g \in [Slots -> Nat]
  PROVE  Starts(lane, g, Launched(AllocatePaged(b.lane, b.entries), b.entries),
                [i \in DOMAIN b.entries |-> Stamped(b.entries[i], g[b.entries[i].slot])])
<1> DEFINE next  == Launched(AllocatePaged(b.lane, b.entries), b.entries)
           es    == b.entries
           n     == Len(es)
           batch == [i \in DOMAIN es |-> Stamped(es[i], g[es[i].slot])]
<1>1. /\ b.lane.finished = lane.finished
      /\ Range(b.lane.pending) \subseteq Range(lane.pending)
      /\ \A r \in Reqs : SameRow(lane, b.lane, r) /\ (Present(b.lane, r) => Present(lane, r))
      /\ es \in Seq(Unit)
      /\ \A i \in 1..n :
           /\ es[i].slot = b.lane.req[es[i].req].slot
           /\ ~es[i].chunked => es[i].req \notin Range(b.lane.pending)
      /\ \A i, j \in 1..n : es[i].req = es[j].req => i = j
  BY DEF BatchOK
<1>2. /\ LaneOK(next)
      /\ next.pending = b.lane.pending /\ next.finished = b.lane.finished
      /\ \A r \in Reqs : /\ next.req[r].slot = b.lane.req[r].slot
                         /\ next.req[r].done = b.lane.req[r].done
                         /\ Present(next, r) => Present(b.lane, r)
                         /\ ~Present(b.lane, r) => next.req[r].cached = b.lane.req[r].cached
  BY LaunchParts
<1> HIDE DEF next
<1>3. n \in Nat /\ DOMAIN es = 1..n /\ \A i \in 1..n : es[i] \in Unit
  BY <1>1
<1> HIDE DEF es, n
<1>4. ASSUME NEW i \in 1..n
      PROVE  /\ batch[i] \in Entry /\ batch[i].req = es[i].req /\ batch[i].slot = es[i].slot
             /\ batch[i].chunked = es[i].chunked /\ batch[i].gen = g[es[i].slot]
             /\ es[i].slot \in Slots /\ es[i].req \in Reqs /\ g[es[i].slot] \in Nat
  <2> DEFINE e == es[i]
             k == g[e.slot]
  <2>1. batch[i] = Stamped(e, k)
    BY <1>3
  <2>2. e \in Unit
    BY <1>3
  <2> HIDE DEF e, k, batch
  <2>3. e.slot \in Slots /\ e.req \in Reqs
    BY <2>2 DEF Unit
  <2>4. k \in Nat
    BY <2>3 DEF k
  <2> HIDE DEF k
  <2>5. /\ Stamped(e, k) \in Entry /\ Stamped(e, k).req = e.req /\ Stamped(e, k).slot = e.slot
        /\ Stamped(e, k).chunked = e.chunked /\ Stamped(e, k).gen = k
    BY <2>2, <2>4 DEF Stamped, Entry, Unit
  <2> QED BY <2>1, <2>3, <2>4, <2>5 DEF e, k
<1>5. DOMAIN batch = 1..n /\ batch = [i \in 1..n |-> batch[i]]
  BY <1>3
<1> HIDE DEF batch
<1>6. batch \in Seq(Entry)
  BY <1>3, <1>4, <1>5
<1>7. Flying(next, g, batch)
  <2>1. ASSUME NEW i \in DOMAIN batch
        PROVE  LET e == batch[i] IN
               /\ e.gen <= g[e.slot]
               /\ e.gen = g[e.slot] => /\ next.req[e.req].slot = e.slot
                                       /\ ~e.chunked => e.req \notin Range(next.pending)
    BY <1>1, <1>2, <1>4, <1>5
  <2>2. \A i, j \in DOMAIN batch : batch[i].req = batch[j].req => i = j
    BY <1>1, <1>4, <1>5
  <2> QED BY <2>1, <2>2 DEF Flying
<1>8. ASSUME NEW r \in Reqs
      PROVE  /\ lane.req[r].slot # NoSlot => next.req[r].slot = lane.req[r].slot
             /\ next.req[r].done = lane.req[r].done
             /\ Present(next, r) => Present(lane, r)
             /\ ~Present(lane, r) => next.req[r].cached = lane.req[r].cached
  BY <1>1, <1>2 DEF SameRow
<1>9. Starts(lane, g, next, batch)
  BY <1>1, <1>2, <1>6, <1>7, <1>8 DEF Starts
<1> QED BY <1>9 DEF next, batch, es

LEMMA LaunchTyped ==
  ASSUME Shapes, NEW x \in [step : Nat, batch : [Dps -> Seq(Entry)]], pending' = Append(pending, x)
  PROVE  /\ pending' \in Seq([step : Nat, batch : [Dps -> Seq(Entry)]])
         /\ Len(pending) \in Nat
         /\ \A k \in 1..Len(pending') : \/ k \in 1..Len(pending) /\ pending'[k] = pending[k]
                                        \/ pending'[k] = x
<1> DEFINE T == [step : Nat, batch : [Dps -> Seq(Entry)]]
<1>1. pending \in Seq(T) /\ x \in T
  BY DEF Shapes
<1> HIDE DEF T
<1>2. /\ Append(pending, x) \in Seq(T) /\ Len(Append(pending, x)) = Len(pending) + 1
      /\ Append(pending, x)[Len(pending) + 1] = x
      /\ \A i \in 1..Len(pending) : Append(pending, x)[i] = pending[i]
  BY <1>1, AppendParts
<1>3. Len(pending) \in Nat
  BY <1>1
<1>4. \A k \in 1..(Len(pending) + 1) : k \in 1..Len(pending) \/ k = Len(pending) + 1
  BY <1>3
<1>5. \A k \in 1..Len(pending') : \/ k \in 1..Len(pending) /\ pending'[k] = pending[k]
                                  \/ pending'[k] = x
  BY <1>2, <1>4
<1>6. pending' \in Seq(T)
  BY <1>2
<1> QED BY <1>3, <1>5, <1>6 DEF T

LEMMA LaunchStepParts ==
  ASSUME CoordInv, LaunchStep
  PROVE  CoordInv' /\ status' = status /\ out' = out
<1> DEFINE x == [step |-> step, batch |-> [c \in Dps |-> WithGeneration(c)]]
<1>1. /\ lanes' = [c \in Dps |-> Launched(AllocatePaged(Scheduled[c].lane, Scheduled[c].entries),
                                          Scheduled[c].entries)]
      /\ pending' = Append(pending, x) /\ step' = step + 1
      /\ UNCHANGED <<inbox, lane_of, rr, gens, out, status>>
  BY DEF LaunchStep
<1>2. /\ Shapes /\ Messages
      /\ \A c \in Dps : LaneOK(lanes[c])
      /\ \A c \in Dps : \A k \in 1..Len(pending) : Flying(lanes[c], gens[c], pending[k].batch[c])
      /\ \A q \in Reqs : Answer(q)
      /\ \A q \in Reqs : \A c \in Dps : Served(lanes[c], q)
      /\ \A q \in Reqs : \A a, b \in Dps : Present(lanes[a], q) /\ Present(lanes[b], q) => a = b
  BY DEF CoordInv
<1>3. ASSUME NEW c \in Dps
      PROVE  /\ LaneOK(lanes'[c]) /\ lanes'[c].finished = lanes[c].finished
             /\ Range(lanes'[c].pending) \subseteq Range(lanes[c].pending)
             /\ \A r \in Reqs : /\ lanes[c].req[r].slot # NoSlot => lanes'[c].req[r].slot = lanes[c].req[r].slot
                                /\ lanes'[c].req[r].done = lanes[c].req[r].done
                                /\ Present(lanes'[c], r) => Present(lanes[c], r)
                                /\ ~Present(lanes[c], r) => lanes'[c].req[r].cached = lanes[c].req[r].cached
             /\ WithGeneration(c) \in Seq(Entry) /\ Flying(lanes'[c], gens[c], WithGeneration(c))
             /\ gens[c] \in [Slots -> Nat]
  <2> DEFINE lane == lanes[c]
             b == Schedule(lanes[c], NextGlobalPhase)
             g == gens[c]
  <2>1. LaneOK(lane)
    BY <1>2
  <2>2. BatchOK(lane, b)
    <3> DEFINE phase == NextGlobalPhase
    <3> HIDE DEF lane, phase
    <3>1. BatchOK(lane, Schedule(lane, phase))
      BY <2>1, ScheduleParts
    <3> QED BY <3>1 DEF lane, phase
  <2>3. g \in [Slots -> Nat]
    BY <1>2 DEF Shapes
  <2>4. Scheduled[c] = b
    BY DEF Scheduled
  <2>5. lanes'[c] = Launched(AllocatePaged(b.lane, b.entries), b.entries)
    BY <1>1, <2>4
  <2>6. WithGeneration(c) = [i \in DOMAIN b.entries |-> Stamped(b.entries[i], g[b.entries[i].slot])]
    BY <2>4 DEF WithGeneration
  <2> HIDE DEF lane, b, g
  <2> DEFINE next  == Launched(AllocatePaged(b.lane, b.entries), b.entries)
             batch == [i \in DOMAIN b.entries |-> Stamped(b.entries[i], g[b.entries[i].slot])]
  <2>7. Starts(lane, g, next, batch)
    BY <2>2, <2>3, LaneLaunch
  <2>8. next = lanes'[c] /\ batch = WithGeneration(c)
    BY <2>5, <2>6
  <2> HIDE DEF next, batch
  <2> QED BY <2>3, <2>7, <2>8 DEF lane, g, Starts
<1>4. x \in [step : Nat, batch : [Dps -> Seq(Entry)]] /\ x.batch = [c \in Dps |-> WithGeneration(c)]
  BY <1>2, <1>3 DEF Shapes
<1> HIDE DEF x
<1>5. /\ pending' \in Seq([step : Nat, batch : [Dps -> Seq(Entry)]])
      /\ \A k \in 1..Len(pending') : \/ k \in 1..Len(pending) /\ pending'[k] = pending[k]
                                     \/ pending'[k] = x
  BY <1>1, <1>2, <1>4, LaunchTyped
<1>6. Shapes'
  BY <1>1, <1>2, <1>5 DEF Shapes
<1>7. Messages'
  BY <1>1, <1>2 DEF Messages
<1>8. \A c \in Dps : LaneOK(lanes'[c])
  BY <1>3
<1>9. ASSUME NEW c \in Dps, NEW k \in 1..Len(pending')
      PROVE  Flying(lanes'[c], gens'[c], pending'[k].batch[c])
  <2>1. CASE pending'[k] = x
    BY <1>1, <1>3, <1>4, <2>1
  <2>2. CASE k \in 1..Len(pending) /\ pending'[k] = pending[k]
    <3> DEFINE g == gens[c]
               batch == pending[k].batch[c]
               lane == lanes[c]
               next == lanes'[c]
    <3>1. g \in [Slots -> Nat] /\ batch \in Seq(Entry) /\ Flying(lane, g, batch)
      BY <1>2, <2>2, FlyingTypes
    <3>2. Range(next.pending) \subseteq Range(lane.pending)
          /\ \A r \in Reqs : lane.req[r].slot # NoSlot => next.req[r].slot = lane.req[r].slot
      BY <1>3
    <3>3. NoSlot \notin Slots
      BY SizeAssumption DEF NoSlot, Slots
    <3> HIDE DEF g, batch, lane, next
    <3>4. \A s \in Slots : g[s] <= g[s]
      BY <3>1
    <3>5. \A r \in Reqs : lane.req[r].slot \in Slots /\ g[lane.req[r].slot] = g[lane.req[r].slot] =>
                           /\ next.req[r].slot = lane.req[r].slot
                           /\ r \in Range(next.pending) => r \in Range(lane.pending)
      BY <3>2, <3>3
    <3>6. Flying(next, g, batch)
      BY <3>1, <3>4, <3>5, FlyingStays
    <3> QED BY <1>1, <2>2, <3>6 DEF g, next, batch
  <2> QED BY <1>5, <2>1, <2>2
<1>10. \A q \in Reqs : Answer(q)'
  BY <1>1, <1>2 DEF Answer
<1>11. ASSUME NEW q \in Reqs, NEW c \in Dps PROVE Served(lanes[c], q)'
  BY <1>1, <1>2, <1>3 DEF Served
<1>12. \A q \in Reqs : \A a, b \in Dps : Present(lanes'[a], q) /\ Present(lanes'[b], q) => a = b
  BY <1>2, <1>3
<1>13. CoordInv'
  BY <1>6, <1>7, <1>8, <1>9, <1>10, <1>11, <1>12 DEF CoordInv
<1> QED BY <1>1, <1>13

(* A completion: what each lane answers, and to whom.                      *)
LEMMA HeadFlies ==
  ASSUME CoordInv, pending # <<>>, NEW c \in Dps
  PROVE  /\ LaneOK(lanes[c]) /\ gens[c] \in [Slots -> Nat]
         /\ Head(pending).batch[c] \in Seq(Entry)
         /\ Flying(lanes[c], gens[c], Head(pending).batch[c])
         /\ 1 \in 1..Len(pending) /\ Head(pending) = pending[1]
<1>1. Shapes /\ LaneOK(lanes[c])
      /\ \A k \in 1..Len(pending) : Flying(lanes[c], gens[c], pending[k].batch[c])
  BY DEF CoordInv
<1>2. 1 \in 1..Len(pending) /\ Head(pending) = pending[1]
  <2> DEFINE T == [step : Nat, batch : [Dps -> Seq(Entry)]]
  <2>1. pending \in Seq(T)
    BY <1>1 DEF Shapes
  <2> HIDE DEF T
  <2>2. 1 \in DOMAIN pending /\ Head(pending) = pending[1] /\ DOMAIN pending = 1..Len(pending)
    BY <2>1, TailParts
  <2> QED BY <2>2
<1>3. gens[c] \in [Slots -> Nat] /\ pending[1].batch[c] \in Seq(Entry)
  BY <1>1, <1>2, FlyingTypes
<1> QED BY <1>1, <1>2, <1>3

LEMMA LaneCompletes ==
  ASSUME CoordInv, pending # <<>>, NEW c \in Dps
  PROVE  /\ LaneOK(Completion(c).lane) /\ Completion(c).lane.pending = lanes[c].pending
         /\ \A r \in Reqs : \/ Kept(lanes[c], Completion(c), r)
                            \/ \E token : Answered(lanes[c], Completion(c), token, r)
<1> DEFINE lane  == lanes[c]
           g     == gens[c]
           batch == Head(pending).batch[c]
           items == ValidItems(c, batch, LaneTokens(Head(pending).step, c))
<1>1. LaneOK(lane) /\ g \in [Slots -> Nat] /\ batch \in Seq(Entry) /\ Flying(lane, g, batch)
  BY HeadFlies
<1>2. Completion(c) = CompleteResults(lane, items)
  BY DEF Completion
<1> DEFINE tokens == LaneTokens(Head(pending).step, c)
<1> HIDE DEF batch, tokens
<1>3. items = [i \in DOMAIN batch |-> [entry |-> batch[i], token |-> items[i].token,
                                       current |-> g[batch[i].slot] = batch[i].gen]]
  BY DEF ValidItems, tokens
<1> HIDE DEF lane, g, items
<1>4. Completes(lane, CompleteResults(lane, items))
  BY <1>1, <1>3, CompletionParts
<1> QED BY <1>2, <1>4 DEF lane, Completes

LEMMA LaneAfter ==
  ASSUME NEW lane, NEW done, NEW r \in Reqs, done.lane.pending = lane.pending,
         Kept(lane, done, r) \/ \E token : Answered(lane, done, token, r)
  PROVE  /\ done.lane.req[r].cached = lane.req[r].cached
         /\ Present(done.lane, r) => Present(lane, r)
         /\ ~Present(lane, r) => Kept(lane, done, r)
BY DEF Kept, Answered, Present

(* At most one lane answers a request, for only one has it.                *)
AnsweredIn(d, token, r) ==
  /\ Answered(lanes[d], Completion(d), token, r)
  /\ RepliesTo(r) = <<Reply(lanes[d], token, r)>>
  /\ \A c \in Dps \ {d} : Kept(lanes[c], Completion(c), r) /\ ~Present(lanes[c], r)

LEMMA RepliesParts ==
  ASSUME CoordInv, pending # <<>>, NEW r \in Reqs
  PROVE  \/ (\A c \in Dps : Kept(lanes[c], Completion(c), r)) /\ RepliesTo(r) = <<>>
         \/ \E d \in Dps : \E token : AnsweredIn(d, token, r)
<1> DEFINE seqs == [i \in 1..NumDp |-> Completion(i - 1).replies[r]]
<1>1. /\ NumDp \in Nat \ {0} /\ \A i \in 1..NumDp : i - 1 \in Dps
      /\ \A c \in Dps : c + 1 \in 1..NumDp /\ (c + 1) - 1 = c /\ c \in Int
  BY PipelineAssumption DEF Dps
<1>2. \A c \in Dps : \/ Kept(lanes[c], Completion(c), r)
                     \/ \E token : Answered(lanes[c], Completion(c), token, r)
  BY LaneCompletes
<1>3. \A i \in 1..NumDp : seqs[i] = Completion(i - 1).replies[r]
  OBVIOUS
<1>4. RepliesTo(r) = FlattenSeq(seqs)
  BY DEF RepliesTo
<1>5. seqs = [i \in 1..NumDp |-> seqs[i]]
  OBVIOUS
<1> HIDE DEF seqs
<1>6. CASE \A c \in Dps : Kept(lanes[c], Completion(c), r)
  <2>1. \A i \in 1..NumDp : seqs[i] = <<>>
    BY <1>1, <1>3, <1>6 DEF Kept
  <2>2. seqs \in [1..NumDp -> Seq({})] /\ 1 \in 1..NumDp
    <3>1. <<>> \in Seq({})
      OBVIOUS
    <3>2. \A i \in 1..NumDp : seqs[i] \in Seq({})
      BY <2>1, <3>1
    <3> QED BY <1>1, <1>5, <3>2
  <2>3. FlattenSeq(seqs) = seqs[1]
    BY <1>1, <2>1, <2>2, FlattenOne
  <2> QED BY <1>4, <1>6, <2>1, <2>2, <2>3
<1>7. CASE \E c \in Dps : ~Kept(lanes[c], Completion(c), r)
  <2>1. PICK d \in Dps : ~Kept(lanes[d], Completion(d), r)
    BY <1>7
  <2>2. PICK token : Answered(lanes[d], Completion(d), token, r)
    BY <1>2, <2>1
  <2>3. \A c \in Dps \ {d} : ~Present(lanes[c], r)
    BY <2>2 DEF Answered, Present, CoordInv
  <2>4. \A c \in Dps \ {d} : Kept(lanes[c], Completion(c), r)
    BY <1>2, <2>3 DEF Answered, Present
  <2> DEFINE x == Reply(lanes[d], token, r)
             k == d + 1
  <2>5. k \in 1..NumDp /\ seqs[k] = <<x>>
    <3>1. k \in 1..NumDp /\ k - 1 = d
      BY <1>1
    <3> HIDE DEF k
    <3> QED BY <1>3, <2>2, <3>1 DEF Answered
  <2>6. \A i \in 1..NumDp : i # k => seqs[i] = <<>>
    <3>1. \A i \in 1..NumDp : i # k => i - 1 \in Dps \ {d}
      BY <1>1
    <3> HIDE DEF k
    <3> QED BY <1>3, <2>4, <3>1 DEF Kept
  <2> HIDE DEF k, x
  <2>7. seqs \in [1..NumDp -> Seq({x})]
    <3>1. <<>> \in Seq({x}) /\ <<x>> \in Seq({x})
      OBVIOUS
    <3>2. \A i \in 1..NumDp : seqs[i] \in Seq({x})
      BY <2>5, <2>6, <3>1
    <3> QED BY <1>5, <3>2
  <2>8. FlattenSeq(seqs) = seqs[k]
    <3> DEFINE S == {x}
    <3>1. seqs \in [1..NumDp -> Seq(S)] /\ NumDp \in Nat \ {0} /\ k \in 1..NumDp
      BY <1>1, <2>5, <2>7
    <3> HIDE DEF S
    <3> QED BY <2>6, <3>1, FlattenOne
  <2>9. AnsweredIn(d, token, r)
    BY <1>4, <2>2, <2>3, <2>4, <2>5, <2>8 DEF AnsweredIn, x
  <2> QED BY <2>9
<1> QED BY <1>6, <1>7

LEMMA OneMore ==
  ASSUME NEW S, NEW s \in Seq(S), NEW x
  PROVE  /\ s \o <<x>> \in Seq(S \cup {x}) /\ Len(s \o <<x>>) = Len(s) + 1 /\ Len(s) \in Nat
         /\ (s \o <<x>>)[Len(s) + 1] = x
         /\ \A i \in 1..Len(s) : (s \o <<x>>)[i] = s[i]
         /\ \A i \in DOMAIN <<x>> : <<x>>[i] = x
         /\ 1 \in DOMAIN <<x>> /\ s \o <<>> = s
<1> DEFINE T == S \cup {x}
<1>1. s \in Seq(T) /\ <<x>> \in Seq(T) /\ Len(<<x>>) = 1 /\ <<x>>[1] = x /\ DOMAIN <<x>> = {1}
  <2>1. S \subseteq T /\ x \in T
    OBVIOUS
  <2> HIDE DEF T
  <2> QED BY <2>1
<1> HIDE DEF T
<1>2. /\ s \o <<x>> \in Seq(T) /\ Len(s \o <<x>>) = Len(s) + 1 /\ Len(s) \in Nat
      /\ (s \o <<x>>)[Len(s) + 1] = x
      /\ \A i \in 1..Len(s) : (s \o <<x>>)[i] = s[i]
  BY <1>1
<1>3. s \o <<>> = s
  BY <1>1
<1> QED BY <1>1, <1>2, <1>3 DEF T

(* The answer to a request after a completion.                             *)
LEMMA AnswerStep ==
  ASSUME CoordInv, pending # <<>>, NEW r \in Reqs,
         out'[r] = out[r] \o RepliesTo(r),
         status'[r] = IF \E i \in DOMAIN RepliesTo(r) : RepliesTo(r)[i].finished
                      THEN "finished" ELSE status[r],
         \A c \in Dps : lanes'[c] = Completion(c).lane
  PROVE  /\ (\E S : out'[r] \in Seq(S)) /\ Answer(r)' /\ \A c \in Dps : Served(lanes[c], r)'
         /\ status'[r] \in {status[r], "finished"}
         /\ status[r] = "aborted" => status'[r] = "aborted" /\ out'[r] = out[r]
<1>1. /\ Answer(r) /\ \A c \in Dps : Served(lanes[c], r)
      /\ \A a, b \in Dps : Present(lanes[a], r) /\ Present(lanes[b], r) => a = b
  BY DEF CoordInv
<1>2. PICK S : out[r] \in Seq(S)
  BY DEF CoordInv, Shapes
<1>3. ASSUME NEW c \in Dps
      PROVE  /\ lanes'[c].req[r].cached = lanes[c].req[r].cached
             /\ Present(lanes'[c], r) => Present(lanes[c], r)
             /\ Kept(lanes[c], Completion(c), r) => /\ lanes'[c].req[r] = lanes[c].req[r]
                                                    /\ r \notin lanes'[c].finished
             /\ ~Present(lanes[c], r) => Kept(lanes[c], Completion(c), r)
  <2> DEFINE lane == lanes[c]
             done == Completion(c)
  <2>1. done.lane.pending = lane.pending /\ (Kept(lane, done, r) \/ \E token : Answered(lane, done, token, r))
    BY LaneCompletes
  <2>2. lanes'[c] = done.lane
    OBVIOUS
  <2> HIDE DEF lane, done
  <2>3. /\ done.lane.req[r].cached = lane.req[r].cached
        /\ Present(done.lane, r) => Present(lane, r)
        /\ ~Present(lane, r) => Kept(lane, done, r)
    BY <2>1, LaneAfter
  <2>4. Kept(lane, done, r) => done.lane.req[r] = lane.req[r] /\ r \notin done.lane.finished
    BY DEF Kept
  <2> QED BY <2>2, <2>3, <2>4 DEF lane, done
<1>4. CASE (\A c \in Dps : Kept(lanes[c], Completion(c), r)) /\ RepliesTo(r) = <<>>
  <2>1. status'[r] = status[r]
    BY <1>4
  <2>2. out'[r] = out[r]
    BY <1>2, <1>4, OneMore
  <2>3. Answer(r)'
    BY <1>1, <2>1, <2>2 DEF Answer
  <2>4. ASSUME NEW c \in Dps PROVE Served(lanes[c], r)'
    BY <1>1, <1>3, <1>4, <2>1, <2>2 DEF Served
  <2> QED BY <1>2, <2>1, <2>2, <2>3, <2>4
<1>5. ASSUME NEW d \in Dps, NEW token, AnsweredIn(d, token, r)
      PROVE  /\ (\E T : out'[r] \in Seq(T)) /\ Answer(r)' /\ \A c \in Dps : Served(lanes[c], r)'
             /\ status'[r] \in {status[r], "finished"} /\ status[r] = "live"
  <2> DEFINE x    == Reply(lanes[d], token, r)
             n    == Len(out[r])
             ends == Ends(lanes[d], token, r)
  <2>1. /\ lanes[d].req[r].slot # NoSlot
        /\ lanes'[d].req[r].done = lanes[d].req[r].done + 1
        /\ ends => ~Present(lanes'[d], r)
        /\ RepliesTo(r) = <<x>> /\ \A c \in Dps \ {d} : ~Present(lanes[c], r)
    BY <1>5 DEF AnsweredIn, Answered
  <2>2. /\ status[r] = "live" /\ lanes[d].req[r].done = n /\ n < OutLen[r]
        /\ \A i \in 1..n : ~out[r][i].finished
    BY <1>1, <2>1 DEF Present, Served
  <2>3. n \in Nat /\ OutLen[r] \in Nat
    BY <1>2, RequestAssumption
  <2>4. /\ x.token = token /\ (x.finished <=> ends)
        /\ ends <=> (n + 1 = OutLen[r] \/ token.eos)
    <3>1. ends <=> (n + 1 >= OutLen[r] \/ token.eos)
      BY <2>2 DEF Ends
    <3>2. n + 1 >= OutLen[r] <=> n + 1 = OutLen[r]
      BY <2>2, <2>3
    <3>3. x.token = token /\ x.finished = ends
      BY DEF Reply
    <3> QED BY <3>1, <3>2, <3>3
  <2> HIDE DEF x, n, ends
  <2>5. /\ out'[r] \in Seq(S \cup {x}) /\ Len(out'[r]) = n + 1 /\ out'[r][n + 1] = x
        /\ \A i \in 1..n : out'[r][i] = out[r][i]
        /\ \A i \in DOMAIN <<x>> : <<x>>[i] = x
        /\ 1 \in DOMAIN <<x>>
    BY <1>2, <2>1, OneMore DEF n
  <2>6. status'[r] = IF ends THEN "finished" ELSE "live"
    BY <2>1, <2>2, <2>4, <2>5
  <2>7. \A i \in 1..(n + 1) : i \in 1..n \/ i = n + 1
    BY <2>3
  <2>8. Answer(r)'
    <3>1. ASSUME NEW i \in 1..Len(out'[r])
          PROVE  /\ out'[r][i].finished <=> (out'[r][i].token.eos \/ i = OutLen[r])
                 /\ out'[r][i].finished => i = Len(out'[r])
      <4>1. CASE i \in 1..n
        BY <1>1, <2>2, <2>5, <4>1 DEF Answer, n
      <4>2. CASE i = n + 1
        BY <2>4, <2>5, <4>2
      <4> QED BY <2>5, <2>7, <4>1, <4>2
    <3>2. status'[r] \notin {"new", "sent"}
      BY <2>6
    <3> QED BY <3>1, <3>2 DEF Answer
  <2>9. ASSUME NEW c \in Dps PROVE Served(lanes[c], r)'
    <3>1. status'[r] \notin {"new", "sent"}
      BY <2>6
    <3>2. ASSUME Present(lanes'[c], r)
          PROVE  /\ status'[r] = "live"
                 /\ lanes'[c].req[r].done = Len(out'[r]) /\ Len(out'[r]) < OutLen[r]
                 /\ \A i \in 1..Len(out'[r]) : ~out'[r][i].finished
      <4>1. c = d
        BY <1>3, <2>1, <3>2
      <4>2. ~ends
        BY <2>1, <3>2, <4>1
      <4>3. status'[r] = "live" /\ lanes'[c].req[r].done = Len(out'[r])
        BY <2>1, <2>2, <2>5, <2>6, <4>1, <4>2
      <4>4. Len(out'[r]) < OutLen[r]
        BY <2>2, <2>3, <2>4, <2>5, <4>2
      <4>5. \A i \in 1..Len(out'[r]) : ~out'[r][i].finished
        BY <2>2, <2>4, <2>5, <2>7, <4>2
      <4> QED BY <4>3, <4>4, <4>5
    <3> QED BY <3>1, <3>2 DEF Served
  <2> QED BY <2>2, <2>5, <2>6, <2>8, <2>9
<1>6. CASE \E d \in Dps : \E token : AnsweredIn(d, token, r)
  <2>1. PICK d \in Dps : \E token : AnsweredIn(d, token, r)
    BY <1>6
  <2>2. PICK token : AnsweredIn(d, token, r)
    BY <2>1
  <2> QED BY <1>5, <2>2
<1> QED BY <1>4, <1>6, RepliesParts

LEMMA FlyingDone ==
  ASSUME NEW lane, NEW g \in [Slots -> Nat], NEW batch \in Seq(Entry), Flying(lane, g, batch),
         NEW done, Completes(lane, done)
  PROVE  Flying(done.lane, Forget(g, done.freed), batch)
<1> DEFINE next == done.lane
           freed == done.freed
           h == Forget(g, freed)
<1>1. h \in [Slots -> Nat] /\ \A s \in Slots : g[s] <= h[s] /\ (h[s] = g[s] <=> s \notin Range(freed))
  BY ForgetParts
<1> HIDE DEF h
<1>2. ASSUME NEW q \in Reqs, lane.req[q].slot \in Slots, h[lane.req[q].slot] = g[lane.req[q].slot]
      PROVE  /\ next.req[q].slot = lane.req[q].slot
             /\ q \in Range(next.pending) => q \in Range(lane.pending)
  <2>1. lane.req[q].slot \notin Range(freed)
    BY <1>1, <1>2
  <2>2. next.req[q].slot = lane.req[q].slot
    <3>1. CASE Kept(lane, done, q)
      BY <3>1 DEF Kept
    <3>2. ASSUME NEW token, Answered(lane, done, token, q) PROVE next.req[q].slot = lane.req[q].slot
      BY <2>1, <3>2 DEF Answered
    <3> QED BY <3>1, <3>2 DEF Completes
  <2> QED BY <2>2 DEF Completes
<1> HIDE DEF next
<1>3. Flying(next, h, batch)
  BY <1>1, <1>2, FlyingStays
<1> QED BY <1>3 DEF h, next

LEMMA CompleteStepParts ==
  ASSUME CoordInv, CompleteStep
  PROVE  /\ CoordInv'
         /\ \A r \in Reqs : status[r] = "aborted" => status'[r] = "aborted" /\ out'[r] = out[r]
<1>1. /\ pending # <<>> /\ lanes' = [c \in Dps |-> Completion(c).lane]
      /\ gens' = [c \in Dps |-> Forget(gens[c], Completion(c).freed)]
      /\ out' = [r \in Reqs |-> out[r] \o RepliesTo(r)]
      /\ status' = [r \in Reqs |-> IF \E i \in DOMAIN RepliesTo(r) : RepliesTo(r)[i].finished
                                   THEN "finished" ELSE status[r]]
      /\ pending' = Tail(pending)
      /\ UNCHANGED <<inbox, lane_of, rr, step>>
  BY DEF CompleteStep
<1>2. /\ Shapes /\ Messages
      /\ \A c \in Dps : LaneOK(lanes[c])
      /\ \A c \in Dps : \A k \in 1..Len(pending) : Flying(lanes[c], gens[c], pending[k].batch[c])
      /\ \A q \in Reqs : \A a, b \in Dps : Present(lanes[a], q) /\ Present(lanes[b], q) => a = b
      /\ \A q \in Reqs : \A c \in Dps : Served(lanes[c], q)
  BY DEF CoordInv
<1>3. \A c \in Dps : lanes'[c] = Completion(c).lane /\ gens'[c] = Forget(gens[c], Completion(c).freed)
  BY <1>1
<1>4. ASSUME NEW r \in Reqs
      PROVE  /\ (\E S : out'[r] \in Seq(S)) /\ Answer(r)' /\ \A c \in Dps : Served(lanes[c], r)'
             /\ status'[r] \in {status[r], "finished"}
             /\ status[r] = "aborted" => status'[r] = "aborted" /\ out'[r] = out[r]
  BY <1>1, AnswerStep
<1>5. \A c \in Dps : Completes(lanes[c], Completion(c))
  BY <1>1, LaneCompletes DEF Completes
<1>6. \A c \in Dps : LaneOK(lanes'[c])
  BY <1>3, <1>5 DEF Completes
<1>7. /\ pending' \in Seq([step : Nat, batch : [Dps -> Seq(Entry)]])
      /\ \A k \in 1..Len(pending') : k + 1 \in 1..Len(pending) /\ pending'[k] = pending[k + 1]
  <2> DEFINE T == [step : Nat, batch : [Dps -> Seq(Entry)]]
  <2>1. pending \in Seq(T)
    BY <1>2 DEF Shapes
  <2> HIDE DEF T
  <2>2. /\ Tail(pending) \in Seq(T)
        /\ \A k \in DOMAIN Tail(pending) : k + 1 \in DOMAIN pending /\ Tail(pending)[k] = pending[k + 1]
    BY <1>1, <2>1, TailParts
  <2>3. DOMAIN pending = 1..Len(pending) /\ DOMAIN Tail(pending) = 1..Len(Tail(pending))
    BY <2>1, <2>2
  <2>4. pending' \in Seq(T)
    BY <1>1, <2>2
  <2> QED BY <1>1, <2>2, <2>3, <2>4 DEF T
<1>8. Shapes'
  <2>1. lanes' = [c \in Dps |-> lanes'[c]] /\ out' = [r \in Reqs |-> out'[r]]
    BY <1>1
  <2>2. gens' \in [Dps -> [Slots -> Nat]]
    <3>1. ASSUME NEW c \in Dps PROVE gens'[c] \in [Slots -> Nat]
      BY <1>2, <1>3, ForgetParts DEF Shapes
    <3>2. gens' = [c \in Dps |-> gens'[c]]
      BY <1>1
    <3> QED BY <3>1, <3>2
  <2>3. status' \in [Reqs -> {"new", "sent", "live", "aborted", "finished"}]
    BY <1>1, <1>2, <1>4 DEF Shapes
  <2>4. \A r \in Reqs : \E S : out'[r] \in Seq(S)
    BY <1>4
  <2> QED BY <1>1, <1>2, <1>7, <2>1, <2>2, <2>3, <2>4 DEF Shapes
<1>9. Messages'
  <2>1. \A r \in Reqs : status[r] = "sent" => status'[r] = "sent"
    <3> SUFFICES ASSUME NEW r \in Reqs, status[r] = "sent" PROVE status'[r] = "sent"
      OBVIOUS
    <3>1. \A c \in Dps : ~Present(lanes[c], r)
      BY <1>2 DEF Served
    <3>2. RepliesTo(r) = <<>>
      BY <1>1, <3>1, RepliesParts DEF AnsweredIn, Answered, Present
    <3>3. \A i \in DOMAIN <<>> : FALSE
      OBVIOUS
    <3> QED BY <1>1, <3>2, <3>3
  <2>2. \A i \in DOMAIN inbox : inbox[i].type = "user" => inbox[i].req \in Reqs
    BY <1>2 DEF Messages
  <2> QED BY <1>1, <1>2, <2>1, <2>2 DEF Messages
<1>10. ASSUME NEW c \in Dps, NEW k \in 1..Len(pending')
       PROVE  Flying(lanes'[c], gens'[c], pending'[k].batch[c])
  <2> DEFINE lane == lanes[c]
             g == gens[c]
             batch == pending'[k].batch[c]
             done == Completion(c)
  <2>1. g \in [Slots -> Nat] /\ batch \in Seq(Entry) /\ Flying(lane, g, batch)
    BY <1>2, <1>7, FlyingTypes
  <2>2. Completes(lane, done) /\ lanes'[c] = done.lane /\ gens'[c] = Forget(g, done.freed)
    BY <1>3, <1>5
  <2> HIDE DEF lane, g, batch, done
  <2>3. Flying(done.lane, Forget(g, done.freed), batch)
    BY <2>1, <2>2, FlyingDone
  <2> QED BY <2>2, <2>3 DEF batch
<1>11. ASSUME NEW r \in Reqs, NEW a \in Dps, NEW b \in Dps, Present(lanes'[a], r), Present(lanes'[b], r)
       PROVE  a = b
  <2>1. \A c \in Dps : Present(lanes'[c], r) => Present(lanes[c], r)
    <3> SUFFICES ASSUME NEW c \in Dps, Present(lanes'[c], r) PROVE Present(lanes[c], r)
      OBVIOUS
    <3>1. Completes(lanes[c], Completion(c)) /\ lanes'[c] = Completion(c).lane
      BY <1>3, <1>5
    <3> DEFINE lane == lanes[c]
               done == Completion(c)
    <3>2. done.lane.pending = lane.pending /\ (Kept(lane, done, r) \/ \E token : Answered(lane, done, token, r))
          /\ Present(done.lane, r)
      BY <3>1 DEF Completes
    <3> HIDE DEF lane, done
    <3>3. Present(lane, r)
      BY <3>2, LaneAfter
    <3> QED BY <3>3 DEF lane
  <2> QED BY <1>2, <1>11, <2>1
<1>12. CoordInv'
  BY <1>4, <1>6, <1>8, <1>9, <1>10, <1>11 DEF CoordInv
<1> QED BY <1>4, <1>12

(* The steps together: the invariant holds in every state, and no step     *)
(* takes back an abort or answers an aborted request.                      *)
AbortStays == \A r \in Reqs : status[r] = "aborted" => status'[r] = "aborted" /\ out'[r] = out[r]

LEMMA CoordStep ==
  ASSUME CoordInv, [Next]_vars
  PROVE  CoordInv' /\ AbortStays
<1>1. CASE Coordinator
  <2>1. CASE ProcessUser
    BY <2>1, ProcessUserStep DEF AbortStays
  <2>2. CASE ProcessAbort
    BY <2>2, ProcessAbortStep DEF AbortStays
  <2>3. CASE LaunchStep
    BY <2>3, LaunchStepParts DEF AbortStays
  <2>4. CASE CompleteStep
    BY <2>4, CompleteStepParts DEF AbortStays
  <2>5. CASE ProcessExit \/ EndRecv \/ LaunchFails \/ LaunchNone \/ PipelineFull \/ Return
    BY <2>5, OtherSteps DEF AbortStays, OtherStep
  <2> QED BY <1>1, <2>1, <2>2, <2>3, <2>4, <2>5 DEF Coordinator
<1>2. CASE Client
  <2>1. ASSUME NEW r \in Reqs, Send(r) PROVE CoordInv' /\ AbortStays
    BY <2>1, SendStep DEF CoordInv, Shapes, Send, AbortStays
  <2>2. CASE SendExit \/ \E r \in Reqs : Disconnect(r)
    BY <2>2, OtherSteps DEF AbortStays, OtherStep
  <2> QED BY <1>2, <2>1, <2>2 DEF Client
<1>3. CASE (\E w \in Workers : WorkerLoop(w)) \/ UNCHANGED vars
  BY <1>3, OtherSteps DEF AbortStays, OtherStep
<1> QED BY <1>1, <1>2, <1>3 DEF Next

LEMMA CoordInvAlways == Spec => []CoordInv
<1>1. CoordInv /\ [Next]_vars => CoordInv'
  BY CoordStep
<1> QED BY <1>1, CoordInit, PTL DEF Spec

LEMMA SumWithoutIn ==
  ASSUME NEW S, IsFiniteSet(S), NEW f \in [S -> Int], NEW g, IsSum(f, S, g),
         NEW T \in SUBSET S, NEW x \in T
  PROVE  g[T] = f[x] + g[T \ {x}]
<1> DEFINE h == [r \in T |-> f[r]]
<1>1. IsFiniteSet(T) /\ h \in [T -> Int] /\ \A r \in T : f[r] = h[r]
  BY FS_Subset
<1> HIDE DEF h
<1>2. PICK k : IsSum(h, T, k)
  BY <1>1, SumExists
<1>3. \A s \in SUBSET T : g[s] = k[s]
  BY <1>1, <1>2, SumsAgree
<1>4. k[T] = h[x] + k[T \ {x}]
  BY <1>1, <1>2, SumWithout
<1> QED BY <1>1, <1>3, <1>4

(* The pages of the ledger, summed over the requests that hold a row.      *)
LEMMA HolderSum ==
  ASSUME NEW lane \in Lane, NEW H \in SUBSET Reqs, H = {r \in Reqs : lane.req[r].slot # NoSlot},
         NEW g, IsSum(PagesHeld(lane), Reqs, g)
  PROVE  MapThenSumSet(LAMBDA r : PagesFor(lane.req[r].cached), H) = g[Reqs]
<1> DEFINE f == [r \in H |-> PagesFor(lane.req[r].cached)]
           next(k) == [s \in SUBSET H |->
                         IF s = {} THEN 0 ELSE PagesFor(lane.req[First(s)].cached) + k[s \ {First(s)}]]
           k0 == CHOOSE k : k = next(k)
<1>0. IsFiniteSet(Reqs) /\ IsFiniteSet(H)
  BY RequestAssumption, FS_Subset
<1>1. MapThenSumSet(LAMBDA r : PagesFor(lane.req[r].cached), H) = k0[H]
  BY DEF MapThenSumSet, MapThenFoldSet, First
<1>2. ASSUME NEW k PROVE IsSum(f, H, k) <=> k = next(k)
  <2>1. \A s \in SUBSET H : s # {} => PagesFor(lane.req[First(s)].cached) = f[First(s)]
    BY DEF First
  <2>2. next(k) = [s \in SUBSET H |-> IF s = {} THEN 0 ELSE f[First(s)] + k[s \ {First(s)}]]
    BY <2>1
  <2> HIDE DEF next, f
  <2> QED BY <2>2 DEF IsSum
<1>3. \E k : k = next(k)
  <2> HIDE DEF next, f
  <2> QED BY <1>0, <1>2, SumExists
<1>4. IsSum(f, H, k0)
  <2>1. k0 = next(k0)
    <3> HIDE DEF next
    <3> QED BY <1>3
  <2> HIDE DEF next, f
  <2> QED BY <1>2, <2>1
<1> HIDE DEF next, k0
<1>5. g[H] = k0[H]
  <2> DEFINE h == PagesHeld(lane)
  <2>1. \A r \in H : h[r] = f[r]
    BY DEF PagesHeld
  <2>2. IsSum(h, Reqs, g)
    OBVIOUS
  <2> HIDE DEF h, f
  <2>3. \A s \in SUBSET H : g[s] = k0[s]
    BY <1>0, <1>4, <2>1, <2>2, SumsAgree
  <2> QED BY <2>3
<1>6. g[Reqs] = g[H]
  <2> DEFINE h == PagesHeld(lane)
             Good == {s \in SUBSET (Reqs \ H) : g[H \cup s] = g[H]}
  <2>0. h \in [Reqs -> Int] /\ \A r \in Reqs \ H : h[r] = 0
    BY HeldInts DEF PagesHeld
  <2>1. IsSum(h, Reqs, g) /\ IsFiniteSet(Reqs \ H) /\ \A s \in SUBSET Reqs : g[s] \in Int
    BY <1>0, <2>0, FS_Subset, SumIsInt
  <2> HIDE DEF h
  <2>2. {} \in Good
    BY H \cup {} = H
  <2>3. ASSUME NEW s \in SUBSET (Reqs \ H), s # {}, \A x \in s : s \ {x} \in Good PROVE s \in Good
    <3>1. PICK x \in s : TRUE
      BY <2>3
    <3> DEFINE W == H \cup s
    <3>2. W \in SUBSET Reqs /\ x \in W /\ W \ {x} = H \cup (s \ {x})
      OBVIOUS
    <3> HIDE DEF W
    <3>3. g[W] = h[x] + g[W \ {x}]
      BY <1>0, <2>0, <2>1, <3>2, SumWithoutIn
    <3>4. h[x] = 0 /\ g[W \ {x}] = g[H] /\ g[H] \in Int
      BY <2>0, <2>1, <2>3, <3>2
    <3>5. g[W] = g[H]
      BY <3>3, <3>4
    <3> QED BY <3>5 DEF W
  <2> HIDE DEF Good
  <2>4. \A s \in SUBSET (Reqs \ H) : s \in Good
    <3> DEFINE D == Reqs \ H
    <3>1. /\ IsFiniteSet(D) /\ {} \in Good
          /\ \A s \in SUBSET D : s # {} /\ (\A x \in s : s \ {x} \in Good) => s \in Good
      BY <2>1, <2>2, <2>3
    <3> HIDE DEF D
    <3>2. \A s \in SUBSET D : s \in Good
      BY <3>1, SetInduction
    <3> QED BY <3>2 DEF D
  <2>5. H \cup (Reqs \ H) = Reqs
    OBVIOUS
  <2>6. Reqs \ H \in Good
    BY <2>4
  <2> QED BY <2>5, <2>6 DEF Good
<1> QED BY <1>1, <1>5, <1>6

LEMMA LedgerOf ==
  ASSUME CoordInv
  PROVE  LedgerBalances
<1> SUFFICES ASSUME NEW d \in Dps
             PROVE  LET lane == lanes[d] IN
                    /\ IsInjective(lane.slots)
                    /\ \A r1, r2 \in Holders(d) : r1 # r2 => lane.req[r1].slot # lane.req[r2].slot
                    /\ Range(lane.slots) \union {lane.req[r].slot : r \in Holders(d)} = Slots
                    /\ \A r \in Holders(d) : lane.req[r].slot \notin Range(lane.slots)
                    /\ lane.pages + MapThenSumSet(LAMBDA r : PagesFor(lane.req[r].cached), Holders(d)) = NumPages
  BY DEF LedgerBalances
<1> DEFINE lane == lanes[d]
           H == Holders(d)
<1>1. LaneOK(lane)
  BY DEF CoordInv
<1>2. H = {r \in Reqs : lane.req[r].slot # NoSlot}
  BY DEF Holders
<1> HIDE DEF lane, H
<1>3. /\ lane \in Lane /\ Rows(lane.slots, RowOf(lane)) /\ Balance(lane, NumPages)
      /\ \A r \in Reqs : RowOf(lane)[r] = lane.req[r].slot
  BY <1>1 DEF LaneOK, RowOf
<1>4. /\ lane.slots \in Seq(Slots) /\ \A r \in Reqs : lane.req[r].slot \in 0..NumSlots
  BY <1>3 DEF Lane, Requests
<1>5. lane.pages + MapThenSumSet(LAMBDA r : PagesFor(lane.req[r].cached), H) = NumPages
  <2>1. PICK g : IsSum(PagesHeld(lane), Reqs, g) /\ lane.pages + g[Reqs] = NumPages
    BY <1>3 DEF Balance
  <2>2. MapThenSumSet(LAMBDA r : PagesFor(lane.req[r].cached), H) = g[Reqs]
    BY <1>2, <1>3, <2>1, HolderSum
  <2> QED BY <2>1, <2>2
<1>6. Range(lane.slots) \union {lane.req[r].slot : r \in H} = Slots
  <2>1. Range(lane.slots) \subseteq Slots
    BY <1>4 DEF Range
  <2>2. \A r \in H : lane.req[r].slot \in Slots
    BY <1>2, <1>4, SizeAssumption DEF NoSlot, Slots
  <2>3. ASSUME NEW s \in Slots PROVE s \in Range(lane.slots) \union {lane.req[r].slot : r \in H}
    <3>1. CASE s \in Range(lane.slots)
      BY <3>1
    <3>2. CASE \E r \in Reqs : RowOf(lane)[r] = s
      <4>1. PICK r \in Reqs : lane.req[r].slot = s
        BY <1>3, <3>2
      <4>2. r \in H
        BY <1>2, <4>1, SizeAssumption DEF NoSlot, Slots
      <4> QED BY <4>1, <4>2
    <3> QED BY <1>3, <3>1, <3>2 DEF Rows
  <2> QED BY <2>1, <2>2, <2>3
<1>7. /\ IsInjective(lane.slots)
      /\ \A r1, r2 \in H : r1 # r2 => lane.req[r1].slot # lane.req[r2].slot
      /\ \A r \in H : lane.req[r].slot \notin Range(lane.slots)
  BY <1>2, <1>3 DEF Rows
<1> QED BY <1>5, <1>6, <1>7 DEF lane, H

LEMMA AnswersOf ==
  ASSUME CoordInv
  PROVE  EndsOnce
<1> SUFFICES ASSUME NEW r \in Reqs, NEW i \in DOMAIN out[r]
             PROVE  /\ out[r][i].finished <=> (out[r][i].token.eos \/ i = OutLen[r])
                    /\ out[r][i].finished => i = Len(out[r])
  BY DEF EndsOnce
<1>1. Answer(r)
  BY DEF CoordInv
<1>2. PICK S : out[r] \in Seq(S)
  BY DEF CoordInv, Shapes
<1>3. i \in 1..Len(out[r])
  BY <1>2
<1> QED BY <1>1, <1>3 DEF Answer

-----------------------------------------------------------------------------
(* The table rows and the KV pages of a lane's central scheduler: every    *)
(* row is free or one request's, and the pages not free are those of the   *)
(* rows' tokens - whatever is aborted, ends at an end-of-sequence token or *)
(* is completed while later steps of the same request are in flight.       *)
THEOREM LedgerKept == Spec => []LedgerBalances
<1>1. CoordInv => LedgerBalances
  BY LedgerOf
<1> QED BY <1>1, CoordInvAlways, PTL

(* Every answer ends once, with its first end-of-sequence token or at its  *)
(* limit, although the coordinator launches steps of a request before it   *)
(* has seen the tokens of earlier ones: what comes after the end is        *)
(* dropped by _afd_filter_valid_completion_tokens.                         *)
THEOREM AnswersEndOnce == Spec => []EndsOnce
<1>1. CoordInv => EndsOnce
  BY AnswersOf
<1> QED BY <1>1, CoordInvAlways, PTL

(* No step takes back an abort that found its request, or sends a token of *)
(* it afterwards, although its steps are still in flight.                  *)
THEOREM AbortsAreFinal == Spec => AbortIsFinal
<1>1. CoordInv /\ [Next]_vars => [AbortStays]_vars
  BY CoordStep
<1>2. Spec => [][AbortStays]_vars
  BY <1>1, CoordInvAlways, PTL DEF Spec
<1> QED BY <1>2 DEF AbortIsFinal, AbortStays

-----------------------------------------------------------------------------
LEMMA Lengths ==
  ASSUME NEW r \in Reqs
  PROVE  /\ InputLen[r] \in Nat \ {0} /\ OutLen[r] \in Nat \ {0}
         /\ MaxDevLen(r) \in Nat /\ MaxDevLen(r) = InputLen[r] + OutLen[r]
         /\ MaxSeqLen \in Nat /\ MaxDevLen(r) <= MaxSeqLen
<1>1. InputLen[r] \in Nat \ {0} /\ OutLen[r] \in Nat \ {0}
  BY RequestAssumption
<1>2. MaxDevLen(r) \in Nat /\ MaxDevLen(r) = InputLen[r] + OutLen[r]
  BY <1>1 DEF MaxDevLen
<1> QED BY <1>1, <1>2, RowAssumption

(* More of a lane: a waiting request has prompt left and no answer yet, a  *)
(* running one has its next token on its way and is below its limit.       *)
LaneMore(lane) ==
  /\ \A r \in Range(lane.pending) : lane.req[r].cached < InputLen[r] /\ lane.req[r].done = 0
  /\ \A r \in lane.running : /\ lane.req[r].device = lane.req[r].cached + 1
                             /\ lane.req[r].device < MaxDevLen(r)

(* The entries of the adder, and the rows it has handed out.               *)
Sized(e) ==
  /\ e.ext >= 1 /\ e.start + e.ext <= InputLen[e.req]
  /\ e.chunked <=> e.start + e.ext < InputLen[e.req]
AdderMore(lane, adder) ==
  /\ Range(adder.lane.slots) \subseteq Range(lane.slots)
  /\ \A r \in Reqs : adder.lane.req[r].slot = lane.req[r].slot
                     \/ adder.lane.req[r].slot \in Range(lane.slots)
  /\ \A r \in Reqs : \/ adder.lane.req[r] = lane.req[r]
                     \/ \E i \in 1..Len(adder.entries) : adder.entries[i].req = r
  /\ \A i \in 1..Len(adder.entries) :
       LET e == adder.entries[i] IN
       /\ Sized(e) /\ adder.lane.req[e.req].device = e.start + e.ext

LEMMA AddOneMore ==
  ASSUME NEW lane, LaneOK(lane), LaneMore(lane), NEW k \in 1..Len(lane.pending), NEW adder,
         AdderInv(lane, k - 1, adder), AdderMore(lane, adder), ~adder.full, adder.budget > 0,
         NEW r, r = lane.pending[k], NEW slot \in Slots,
         slot = lane.req[r].slot \/ slot \in Range(lane.slots),
         NEW from \in Lane, Range(from.slots) \subseteq Range(lane.slots),
         from.req = adder.lane.req
  PROVE  AdderMore(lane, AddOneReq(adder, from, r, slot))
<1> DEFINE old    == adder.lane
           cached == from.req[r].cached
           rest   == InputLen[r] - cached
           size   == Min({adder.budget, rest})
           unit   == [req |-> r, slot |-> slot, start |-> cached, ext |-> size,
                      chunked |-> size < rest]
           now    == [from EXCEPT !.req[r].slot = slot, !.req[r].device = cached + size]
           next   == AddOneReq(adder, from, r, slot)
           n      == Len(adder.entries)
<1>1. /\ r \in Reqs /\ r \in Range(lane.pending) /\ old \in Lane /\ n \in Nat
      /\ adder.budget \in Int /\ adder.entries \in Seq(Unit)
      /\ cached = lane.req[r].cached /\ cached \in Nat /\ rest \in Nat \ {0} /\ InputLen[r] \in Nat
  <2>1. lane \in Lane /\ lane.pending \in Seq(Reqs)
    BY DEF LaneOK, Lane
  <2>2. r \in Reqs /\ r \in Range(lane.pending)
    BY <2>1 DEF Range
  <2>3. old \in Lane /\ adder.budget \in Int /\ adder.entries \in Seq(Unit)
    BY DEF AdderInv, Adder
  <2>4. cached = lane.req[r].cached
    BY <2>2 DEF AdderInv, SameRow
  <2>5. lane.req[r].cached \in Nat /\ InputLen[r] \in Nat
    BY <2>1, <2>2, RequestAssumption DEF Lane, Requests
  <2>6. lane.req[r].cached < InputLen[r]
    BY <2>2 DEF LaneMore
  <2>7. n \in Nat
    BY <2>3
  <2> HIDE DEF old, n, cached
  <2> QED BY <2>2, <2>3, <2>4, <2>5, <2>6, <2>7
<1>2. size \in Nat /\ size >= 1 /\ size <= rest /\ cached + size \in Nat
      /\ cached + size <= InputLen[r] /\ (size < rest <=> cached + size < InputLen[r])
  <2>1. size \in {adder.budget, rest} /\ size <= rest
    <3>1. rest \in Int /\ adder.budget \in Int
      BY <1>1
    <3> HIDE DEF rest
    <3> QED BY <3>1, MinOfTwo
  <2>2. rest = InputLen[r] - cached /\ adder.budget > 0
    OBVIOUS
  <2> HIDE DEF size, cached, rest
  <2>3. size \in Nat /\ size >= 1
    BY <1>1, <2>1, <2>2
  <2>4. cached \in Nat /\ InputLen[r] \in Nat
    BY <1>1
  <2> QED BY ONLY <2>1, <2>2, <2>3, <2>4
<1>3. next.lane = now /\ next.entries = Append(adder.entries, unit)
  <2>1. next = [adder EXCEPT
             !.lane = now, !.budget = @ - size, !.reserved = @ + rest + OutLen[r],
             !.chunked = IF size < rest THEN Append(@, r) ELSE @,
             !.entries = Append(@, unit)]
    BY DEF AddOneReq
  <2>2. adder = [lane |-> old, budget |-> adder.budget, reserved |-> adder.reserved,
                 entries |-> adder.entries, chunked |-> adder.chunked, full |-> adder.full]
    BY DEF AdderInv, Adder
  <2> HIDE DEF now, size, rest, unit, next, old
  <2>3. next = [lane |-> now, budget |-> adder.budget - size,
                reserved |-> adder.reserved + rest + OutLen[r],
                entries |-> Append(adder.entries, unit),
                chunked |-> IF size < rest THEN Append(adder.chunked, r) ELSE adder.chunked,
                full |-> adder.full]
    BY ONLY <2>1, <2>2, AdderWith
  <2> QED BY <2>3
<1>4. /\ unit.req = r /\ unit.start = cached /\ unit.ext = size
      /\ unit.chunked = (size < rest) /\ unit \in Unit
  <2>1. unit \in Unit
    <3> HIDE DEF cached, size, rest
    <3> QED BY <1>1, <1>2 DEF Unit
  <2> QED BY <2>1
<1>5. /\ now.slots = from.slots
      /\ \A q \in Reqs : q # r => now.req[q] = old.req[q]
      /\ now.req[r].slot = slot /\ now.req[r].device = cached + size
  <2> DEFINE len == cached + size
  <2>1. from.req = old.req /\ from.req \in Requests
    BY DEF Lane
  <2> DEFINE rows == [from.req EXCEPT ![r].slot = slot, ![r].device = len]
  <2>2. now = [from EXCEPT !.req = rows]
    BY ZenonT(60) DEF Lane
  <2>3. now.slots = from.slots /\ now.req = rows
    <3> HIDE DEF rows, now
    <3> QED BY <2>2 DEF Lane
  <2> HIDE DEF len, now
  <2>4. \A q \in Reqs : q # r => rows[q] = old.req[q]
    BY <2>1 DEF Requests
  <2>5. rows[r].slot = slot /\ rows[r].device = len
    BY <1>1, <2>1 DEF Requests
  <2> HIDE DEF rows
  <2> QED BY <2>3, <2>4, <2>5 DEF len
<1> HIDE DEF now, next, unit, size, rest, cached
<1>6. /\ Len(Append(adder.entries, unit)) = n + 1
      /\ Append(adder.entries, unit)[n + 1] = unit
      /\ \A i \in 1..n : Append(adder.entries, unit)[i] = adder.entries[i]
  BY <1>1, <1>4, AppendParts
<1>7. \A i \in 1..n : adder.entries[i].req # r
  <2>1. SUFFICES ASSUME NEW i \in 1..n, adder.entries[i].req = r PROVE FALSE
    OBVIOUS
  <2>2. adder.entries[i].req = lane.pending[i] /\ n <= k - 1
    BY DEF AdderInv
  <2>3. lane.pending \in Seq(Reqs) /\ IsInjective(lane.pending)
    BY DEF LaneOK, Lane
  <2>4. DOMAIN lane.pending = 1..Len(lane.pending) /\ Len(lane.pending) \in Nat
    BY <2>3
  <2> HIDE DEF n
  <2>5. i \in DOMAIN lane.pending /\ k \in DOMAIN lane.pending /\ i # k
    BY <1>1, <2>2, <2>4
  <2> QED BY <2>1, <2>2, <2>3, <2>5 DEF IsInjective
<1>8. /\ Range(old.slots) \subseteq Range(lane.slots)
      /\ \A q \in Reqs : old.req[q].slot = lane.req[q].slot \/ old.req[q].slot \in Range(lane.slots)
      /\ \A q \in Reqs : \/ old.req[q] = lane.req[q]
                         \/ \E i \in 1..n : adder.entries[i].req = q
      /\ \A i \in 1..n :
           LET e == adder.entries[i] IN
           /\ Sized(e) /\ old.req[e.req].device = e.start + e.ext
      /\ \A i \in 1..n : adder.entries[i] \in Unit
  BY <1>1 DEF AdderMore
<1>9. Sized(unit) /\ now.req[unit.req].device = unit.start + unit.ext
  BY <1>1, <1>2, <1>4, <1>5 DEF Sized, rest
<1> HIDE DEF old, n
<1> DEFINE es == Append(adder.entries, unit)
<1>10. \A i \in 1..(n + 1) : i \in 1..n \/ i = n + 1
  BY <1>1
<1>11. \A i \in 1..(n + 1) : Sized(es[i]) /\ now.req[es[i].req].device = es[i].start + es[i].ext
  <2>1. ASSUME NEW i \in 1..n
        PROVE  Sized(es[i]) /\ now.req[es[i].req].device = es[i].start + es[i].ext
    <3>1. es[i] = adder.entries[i] /\ adder.entries[i].req # r /\ adder.entries[i].req \in Reqs
      BY <1>6, <1>7, <1>8 DEF Unit
    <3> QED BY <1>5, <1>8, <3>1
  <2> QED BY <1>6, <1>9, <1>10, <2>1
<1>12. \A q \in Reqs : \/ now.req[q] = lane.req[q]
                       \/ \E i \in 1..(n + 1) : es[i].req = q
  <2>1. es[n + 1].req = r /\ n + 1 \in 1..(n + 1)
    BY <1>1, <1>4, <1>6
  <2>2. \A i \in 1..n : i \in 1..(n + 1) /\ es[i] = adder.entries[i]
    BY <1>1, <1>6
  <2> HIDE DEF es
  <2> QED BY <1>5, <1>8, <2>1, <2>2
<1>13. \A q \in Reqs : now.req[q].slot = lane.req[q].slot \/ now.req[q].slot \in Range(lane.slots)
  BY <1>5, <1>8
<1>14. AdderMore(lane, next)
  BY <1>3, <1>5, <1>6, <1>11, <1>12, <1>13 DEF AdderMore
<1> QED BY <1>14 DEF next

LEMMA TryAddMore ==
  ASSUME NEW lane, LaneOK(lane), LaneMore(lane), NEW k \in 1..Len(lane.pending), NEW adder,
         AdderInv(lane, k - 1, adder), AdderMore(lane, adder)
  PROVE  AdderMore(lane, TryAddOne(adder, lane.pending[k]))
<1> DEFINE r    == lane.pending[k]
           old  == adder.lane
           shut == adder.full \/ adder.budget <= 0
           next == TryAddOne(adder, r)
           from == [old EXCEPT !.slots = Front(@)]
           mine == old.req[r].slot
<1>1. r \in Reqs
  BY DEF LaneOK, Lane
<1>2. /\ old \in Lane /\ Rows(old.slots, RowOf(old)) /\ adder.budget \in Int
      /\ old.slots \in Seq(Slots) /\ mine \in 0..NumSlots
      /\ Range(old.slots) \subseteq Range(lane.slots)
      /\ mine = lane.req[r].slot \/ mine \in Range(lane.slots)
  BY <1>1 DEF AdderInv, Adder, AdderMore, Lane, Requests
<1>3. \/ next = [adder EXCEPT !.full = TRUE]
      \/ ~shut /\ mine # NoSlot /\ next = AddOneReq(adder, old, r, mine)
      \/ ~shut /\ mine = NoSlot /\ HasRoom(adder, r) /\ next = AddOneReq(adder, from, r, Last(old.slots))
  BY DEF TryAddOne, IsChunked
<1> HIDE DEF r, next, mine
<1>4. AdderMore(lane, [adder EXCEPT !.full = TRUE])
  <2> DEFINE done == [adder EXCEPT !.full = TRUE]
  <2>1. done.lane = adder.lane /\ done.entries = adder.entries
    BY DEF AdderInv, Adder
  <2> HIDE DEF done
  <2>2. AdderMore(lane, done)
    BY <2>1 DEF AdderMore
  <2> QED BY <2>2 DEF done
<1>5. CASE ~shut /\ mine # NoSlot /\ next = AddOneReq(adder, old, r, mine)
  <2>1. mine \in Slots /\ ~adder.full /\ adder.budget > 0
    BY <1>2, <1>5, SizeAssumption DEF Slots, NoSlot
  <2>2. old.req = adder.lane.req
    OBVIOUS
  <2> HIDE DEF old
  <2>3. AdderMore(lane, AddOneReq(adder, old, r, mine))
    BY <1>2, <2>1, <2>2, AddOneMore DEF r
  <2> QED BY <1>5, <2>3 DEF r, next
<1>6. CASE ~shut /\ mine = NoSlot /\ HasRoom(adder, r) /\ next = AddOneReq(adder, from, r, Last(old.slots))
  <2> DEFINE slot == Last(old.slots)
  <2>1. old.slots # <<>> /\ ~adder.full /\ adder.budget > 0
    BY <1>2, <1>6 DEF HasRoom
  <2>2. /\ Front(old.slots) \in Seq(Slots) /\ slot \in Slots /\ slot \in Range(old.slots)
        /\ Range(Front(old.slots)) \subseteq Range(old.slots)
    BY <1>2, <2>1, FrontParts DEF Rows
  <2>3. from \in Lane /\ from.req = adder.lane.req /\ from.slots = Front(old.slots)
    BY <1>2, <2>2 DEF Lane
  <2> HIDE DEF from, slot
  <2>4. Range(from.slots) \subseteq Range(lane.slots) /\ slot \in Range(lane.slots)
    BY <1>2, <2>2, <2>3
  <2>5. AdderMore(lane, AddOneReq(adder, from, r, slot))
    BY <2>1, <2>2, <2>3, <2>4, AddOneMore DEF r
  <2> QED BY <1>6, <2>5 DEF r, next, slot
<1> QED BY <1>3, <1>4, <1>5, <1>6 DEF r, next

LEMMA AdderRunsMore ==
  ASSUME NEW lane, LaneOK(lane), LaneMore(lane)
  PROVE  LET adder == FoldLeft(TryAddOne, NewAdder(lane), lane.pending)
         IN  AdderInv(lane, Len(lane.pending), adder) /\ AdderMore(lane, adder)
<1> DEFINE n == Len(lane.pending)
           base == NewAdder(lane)
<1>1. lane \in Lane /\ lane.pending \in Seq(Reqs) /\ n \in Nat
  BY DEF LaneOK, Lane
<1>2. PICK acc : /\ acc[0] = base
                 /\ \A i \in 1..n : acc[i] = TryAddOne(acc[i - 1], lane.pending[i])
                 /\ FoldLeft(TryAddOne, base, lane.pending) = acc[n]
  <2>1. FoldLeft(TryAddOne, base, lane.pending) = Folded!Fold(base, lane.pending)
    BY DEF FoldLeft, MapThenFoldSet, Max, Folded!Fold, Folded!LastOf
  <2> DEFINE seq == lane.pending
  <2> HIDE DEF base
  <2>2. \E acc : /\ acc[0] = base
                 /\ \A i \in 1..Len(seq) : acc[i] = TryAddOne(acc[i - 1], seq[i])
                 /\ Folded!Fold(base, seq) = acc[Len(seq)]
    BY <1>1, Folded!FoldSteps, Zenon
  <2> QED BY <2>1, <2>2, Zenon
<1>3. AdderInv(lane, 0, base) /\ AdderMore(lane, base)
  <2> DEFINE v == InflightTokens(lane)
  <2>1. /\ base.lane = lane /\ base.entries = <<>> /\ base.chunked = <<>>
        /\ base.full = FALSE /\ base.reserved = v
        /\ base = [lane |-> lane, budget |-> PrefillBudget, reserved |-> v, entries |-> <<>>,
                   chunked |-> <<>>, full |-> FALSE]
    BY DEF NewAdder
  <2> HIDE DEF base, v
  <2>2. Adder(base)
    BY <1>1, <2>1, SizeAssumption DEF Adder
  <2>3. Len(base.entries) = 0 /\ Range(base.chunked) = {} /\ IsInjective(base.chunked)
    BY <2>1 DEF Range, IsInjective
  <2>4. Rows(lane.slots, RowOf(lane))
    BY DEF LaneOK
  <2>5. AdderInv(lane, 0, base)
    BY <1>1, <2>1, <2>2, <2>3, <2>4 DEF AdderInv, SameLists, SameRow
  <2>6. AdderMore(lane, base)
    BY <2>1, <2>3 DEF AdderMore
  <2> QED BY <2>5, <2>6
<1> HIDE DEF n, base
<1> DEFINE Good == {i \in 0..n : AdderInv(lane, i, acc[i]) /\ AdderMore(lane, acc[i])}
<1>4. 0 \in Good
  BY <1>1, <1>2, <1>3
<1>5. ASSUME NEW i \in 1..n, i - 1 \in Good PROVE i \in Good
  <2>1. AdderInv(lane, i - 1, acc[i - 1]) /\ AdderMore(lane, acc[i - 1]) /\ i \in 1..Len(lane.pending)
    BY <1>5 DEF n
  <2> DEFINE a == acc[i - 1]
             b == TryAddOne(a, lane.pending[i])
  <2> HIDE DEF a
  <2>2. AdderInv(lane, i, b)
    BY <2>1, TryAddParts DEF a
  <2>3. AdderMore(lane, b)
    BY <2>1, TryAddMore DEF a
  <2>4. acc[i] = b /\ i \in 0..n
    BY <1>1, <1>2 DEF a
  <2> HIDE DEF b
  <2> QED BY <2>2, <2>3, <2>4
<1> HIDE DEF Good
<1>6. \A i \in 0..n : i \in Good
  BY <1>1, <1>4, <1>5, Folded!UpTo
<1>7. n \in Good /\ n \in 0..n
  BY <1>1, <1>6
<1> QED BY <1>2, <1>7 DEF Good, n, base

(* What a scheduled batch is made of.                                      *)
Goes(lane, b, phase) ==
  /\ Range(b.lane.slots) \subseteq Range(lane.slots)
  /\ \A r \in Reqs : \/ b.lane.req[r].slot = lane.req[r].slot
                     \/ b.lane.req[r].slot \in Range(lane.slots)
  /\ \A r \in Reqs : \/ b.lane.req[r] = lane.req[r]
                     \/ \E i \in 1..Len(b.entries) : b.entries[i].req = r
  /\ \A i \in 1..Len(b.entries) :
       LET e == b.entries[i] IN
       /\ e.ext >= 1 /\ e.start + e.ext <= MaxDevLen(e.req)
       /\ b.lane.req[e.req].device = e.start + e.ext
       /\ e.chunked => e.start + e.ext < InputLen[e.req]
       /\ phase = "prefill" /\ ~e.chunked => /\ e.start + e.ext = InputLen[e.req]
                                             /\ lane.req[e.req].done = 0
       /\ phase # "prefill" => ~e.chunked /\ e.ext = 1 /\ e.req \in lane.running

LEMMA ScheduleMore ==
  ASSUME NEW lane, LaneOK(lane), LaneMore(lane), NEW phase
  PROVE  Goes(lane, Schedule(lane, phase), phase)
<1>1. CASE phase = "prefill"
  <2> DEFINE adder == FoldLeft(TryAddOne, NewAdder(lane), lane.pending)
             old   == adder.lane
             rest  == SubSeq(lane.pending, Len(adder.entries) + 1, Len(lane.pending))
             now   == [old EXCEPT !.pending = adder.chunked \o rest]
             b     == Schedule(lane, phase)
  <2>1. b.lane = now /\ b.entries = adder.entries
    BY <1>1 DEF Schedule, PrefillBatch
  <2>2. AdderInv(lane, Len(lane.pending), adder) /\ AdderMore(lane, adder)
    BY AdderRunsMore
  <2> HIDE DEF adder, b
  <2>3. old \in Lane /\ adder.entries \in Seq(Unit) /\ Len(adder.entries) \in Nat
    BY <2>2 DEF AdderInv, Adder
  <2>4. now.slots = old.slots /\ now.req = old.req
    <3> HIDE DEF old, rest
    <3> QED BY <2>3 DEF Lane
  <2> HIDE DEF now
  <2>5. ASSUME NEW i \in 1..Len(adder.entries)
        PROVE  LET e == adder.entries[i] IN
               /\ e.ext >= 1 /\ e.start + e.ext <= MaxDevLen(e.req)
               /\ old.req[e.req].device = e.start + e.ext
               /\ e.chunked => e.start + e.ext < InputLen[e.req]
               /\ ~e.chunked => e.start + e.ext = InputLen[e.req] /\ lane.req[e.req].done = 0
    <3> DEFINE e == adder.entries[i]
    <3>1. Sized(e) /\ old.req[e.req].device = e.start + e.ext
      BY <2>2 DEF AdderMore
    <3>2. e \in Unit
      BY <2>3
    <3>3. e.req = lane.pending[i] /\ i \in 1..Len(lane.pending)
      <4>1. e.req = lane.pending[i] /\ Len(adder.entries) <= Len(lane.pending)
        BY <2>2 DEF AdderInv
      <4>2. lane.pending \in Seq(Reqs)
        BY DEF LaneOK, Lane
      <4>3. Len(lane.pending) \in Nat
        BY <4>2
      <4> HIDE DEF e
      <4> QED BY <2>3, <4>1, <4>3
    <3>4. lane.req[e.req].done = 0
      BY <3>3 DEF LaneOK, Lane, Range, LaneMore
    <3> HIDE DEF e, old
    <3>5. e.start + e.ext \in Nat /\ InputLen[e.req] \in Nat /\ OutLen[e.req] \in Nat
      BY <3>2, RequestAssumption DEF Unit
    <3>6. e.start + e.ext <= MaxDevLen(e.req)
      BY <3>1, <3>5 DEF Sized, MaxDevLen
    <3>7. ~e.chunked => e.start + e.ext = InputLen[e.req]
      BY <3>1, <3>5 DEF Sized
    <3> QED BY <3>1, <3>4, <3>6, <3>7 DEF e, Sized
  <2> HIDE DEF old
  <2>6. Goes(lane, b, phase)
    BY <1>1, <2>1, <2>2, <2>4, <2>5, Zenon DEF Goes, AdderMore, old
  <2> QED BY <2>6 DEF b
<1>2. CASE phase # "prefill"
  <2> DEFINE b == Schedule(lane, phase)
             uids == InOrder(lane.running)
             n == Len(uids)
  <2>1. b.lane = lane /\ b.entries = [i \in DOMAIN uids |->
                    [req |-> uids[i], slot |-> lane.req[uids[i]].slot,
                     start |-> lane.req[uids[i]].cached, ext |-> 1, chunked |-> FALSE]]
    BY <1>2 DEF Schedule, DecodeBatch
  <2>2. lane.running \subseteq Reqs /\ lane \in Lane
    BY DEF LaneOK, Lane
  <2>3. uids \in Seq(lane.running)
    BY <2>2, OrderParts
  <2> HIDE DEF b, uids, n
  <2>4. DOMAIN uids = 1..n /\ n \in Nat /\ \A i \in 1..n : uids[i] \in lane.running
    BY <2>3 DEF n
  <2>5. Len(b.entries) = n
    BY <2>1, <2>4
  <2>6. ASSUME NEW i \in 1..n
        PROVE  LET e == b.entries[i] IN
               /\ e.ext >= 1 /\ e.start + e.ext <= MaxDevLen(e.req)
               /\ b.lane.req[e.req].device = e.start + e.ext
               /\ e.chunked = FALSE /\ e.ext = 1 /\ e.req \in lane.running
    <3> DEFINE e == b.entries[i]
    <3>1. e = [req |-> uids[i], slot |-> lane.req[uids[i]].slot,
               start |-> lane.req[uids[i]].cached, ext |-> 1, chunked |-> FALSE]
      BY <2>1, <2>4
    <3> HIDE DEF e
    <3>2. e.req = uids[i] /\ e.start = lane.req[uids[i]].cached /\ e.ext = 1 /\ e.chunked = FALSE
      BY <3>1
    <3>3. uids[i] \in lane.running /\ uids[i] \in Reqs
      BY <2>2, <2>4
    <3>4. /\ lane.req[uids[i]].device = lane.req[uids[i]].cached + 1
          /\ lane.req[uids[i]].device < MaxDevLen(uids[i])
      BY <3>3 DEF LaneMore
    <3>5. /\ lane.req[uids[i]].device \in Nat /\ lane.req[uids[i]].cached \in Nat
      BY <2>2, <3>3 DEF Lane, Requests
    <3>6. MaxDevLen(uids[i]) \in Nat
      BY <3>3, Lengths
    <3> DEFINE q == uids[i]
               row == lane.req[q]
               top == MaxDevLen(q)
    <3>7. /\ row.device = row.cached + 1 /\ row.device < top /\ row.device \in Nat
          /\ row.cached \in Nat /\ top \in Nat
      BY <3>4, <3>5, <3>6
    <3> HIDE DEF row, top
    <3>8. row.cached + 1 <= top
      BY <3>7
    <3>9. e.start + e.ext = row.cached + 1 /\ e.req = q
      BY <3>2 DEF row
    <3> HIDE DEF q
    <3>10. /\ e.ext >= 1 /\ e.start + e.ext <= MaxDevLen(e.req)
           /\ b.lane.req[e.req].device = e.start + e.ext
      BY <2>1, <3>2, <3>7, <3>8, <3>9 DEF row, top
    <3> QED BY <3>2, <3>3, <3>10 DEF e
  <2>7. Goes(lane, b, phase)
    BY <1>2, <2>1, <2>5, <2>6, Zenon DEF Goes
  <2> QED BY <2>7 DEF b
<1> QED BY <1>1, <1>2

(* What a launch makes of the requests of a batch.                         *)
Advanced(e, lane) ==
  /\ lane.req[e.req].cached = e.start + e.ext /\ lane.req[e.req].device = e.start + e.ext + 1
  /\ e.req \in lane.running <=> ~e.chunked /\ e.start + e.ext + 1 < MaxDevLen(e.req)
RunMore(b, k, lane) ==
  /\ lane \in Lane /\ lane.slots = b.lane.slots
  /\ \A r \in Reqs : \/ /\ lane.req[r] = b.lane.req[r]
                        /\ r \in lane.running <=> r \in b.lane.running
                     \/ \E i \in 1..k : b.entries[i].req = r
  /\ \A i \in 1..k : Advanced(b.entries[i], lane)

LEMMA RunOneMore ==
  ASSUME NEW lane \in Lane, NEW e \in Unit
  PROVE  LET next == LaunchedOne(lane, e)
         IN  /\ next \in Lane /\ next.slots = lane.slots /\ Advanced(e, next)
             /\ \A q \in Reqs : q # e.req => /\ next.req[q] = lane.req[q]
                                             /\ q \in next.running <=> q \in lane.running
<1> DEFINE r    == e.req
           len  == e.start + e.ext
           rows == [lane.req EXCEPT ![r].cached = len, ![r].device = len + 1]
           mid  == [lane EXCEPT !.req = rows]
           run  == IF CanDecode(mid, e) THEN mid.running \union {r} ELSE mid.running \ {r}
           next == LaunchedOne(lane, e)
<1>1. r \in Reqs /\ e.start \in Nat /\ len \in Nat /\ len + 1 \in Nat
  BY DEF Unit
<1>2. next = [mid EXCEPT !.running = run]
  <2> DEFINE m == [lane EXCEPT !.req[r].cached = len, !.req[r].device = len + 1]
  <2>1. next = [m EXCEPT !.running = IF CanDecode(m, e) THEN @ \union {r} ELSE @ \ {r}]
    BY DEF LaunchedOne
  <2>2. m = mid
    <3> HIDE DEF len, r
    <3> QED BY DEF Lane
  <2> HIDE DEF m, mid
  <2> QED BY <2>1, <2>2
<1> HIDE DEF len, next
<1>3. /\ rows \in Requests /\ rows[r].cached = len /\ rows[r].device = len + 1
      /\ \A q \in Reqs : q # r => rows[q] = lane.req[q]
  BY <1>1 DEF Lane, Requests
<1> HIDE DEF rows
<1>4. /\ mid \in Lane /\ mid.req = rows /\ mid.pending = lane.pending /\ mid.slots = lane.slots
      /\ mid.running = lane.running
  BY <1>3 DEF Lane
<1>5. CanDecode(mid, e) <=> ~e.chunked /\ len + 1 < MaxDevLen(r)
  <2>1. MaxDevLen(r) \in Nat
    BY <1>1, Lengths
  <2>2. RemainLen(mid, r) = MaxDevLen(r) - (len + 1)
    BY <1>3, <1>4 DEF RemainLen
  <2> DEFINE top == MaxDevLen(r)
  <2> HIDE DEF top, r
  <2>3. top - (len + 1) > 0 <=> len + 1 < top
    BY <1>1, <2>1 DEF top
  <2> QED BY <2>2, <2>3 DEF CanDecode, top, r
<1> HIDE DEF mid
<1>6. /\ run \in SUBSET Reqs /\ (r \in run <=> CanDecode(mid, e))
      /\ \A q \in Reqs : q # r => (q \in run <=> q \in lane.running)
  BY <1>1, <1>4 DEF Lane
<1> HIDE DEF run
<1>7. /\ next \in Lane /\ next.req = rows /\ next.slots = lane.slots /\ next.running = run
  BY <1>2, <1>4, <1>6 DEF Lane
<1>8. Advanced(e, next)
  BY <1>3, <1>5, <1>6, <1>7 DEF Advanced, len
<1> QED BY <1>3, <1>6, <1>7, <1>8 DEF next

LEMMA LaunchMore ==
  ASSUME NEW lane, NEW b, BatchOK(lane, b)
  PROVE  RunMore(b, Len(b.entries), Launched(AllocatePaged(b.lane, b.entries), b.entries))
<1> DEFINE es   == b.entries
           n    == Len(es)
           paid == AllocatePaged(b.lane, es)
<1>1. /\ es \in Seq(Unit) /\ n \in Nat /\ b.lane \in Lane /\ \A i \in 1..n : es[i] \in Unit
      /\ \A i, j \in 1..n : es[i].req = es[j].req => i = j
  BY DEF BatchOK, LaneOK, Lane
<1>2. /\ paid.slots = b.lane.slots /\ paid.running = b.lane.running /\ paid.req = b.lane.req
      /\ paid \in Lane
  <2> DEFINE owed == Needed(es)
  <2>1. paid = [b.lane EXCEPT !.pages = @ - owed]
    BY DEF AllocatePaged
  <2>2. paid \in Lane
    <3>1. owed \in Int
      <4>1. PICK acc : /\ acc[0] = 0
                       /\ \A i \in 1..n : acc[i] = AddPages(acc[i - 1], es[i])
                       /\ owed = acc[n]
        <5>1. owed = Paged!Fold(0, es)
          BY DEF Needed, FoldLeft, MapThenFoldSet, Max, Paged!Fold, Paged!LastOf
        <5> HIDE DEF es, owed
        <5>2. \E acc : /\ acc[0] = 0
                       /\ \A i \in 1..Len(es) : acc[i] = AddPages(acc[i - 1], es[i])
                       /\ Paged!Fold(0, es) = acc[Len(es)]
          BY <1>1, Paged!FoldSteps, Zenon
        <5> QED BY <5>1, <5>2, Zenon
      <4> HIDE DEF es, n, owed
      <4> DEFINE Good == {i \in 0..n : acc[i] \in Int}
      <4>2. 0 \in Good
        BY <1>1, <4>1
      <4>3. ASSUME NEW i \in 1..n, i - 1 \in Good PROVE i \in Good
        BY <1>1, <4>1, <4>3, UnitPages DEF AddPages
      <4> HIDE DEF Good
      <4>4. \A i \in 0..n : i \in Good
        BY <1>1, <4>2, <4>3, Folded!UpTo
      <4> QED BY <1>1, <4>1, <4>4 DEF Good
    <3> HIDE DEF owed
    <3>2. b.lane.pages - owed \in Int
      BY <1>1, <3>1 DEF Lane
    <3> QED BY <1>1, <2>1, <3>2 DEF Lane
  <2> HIDE DEF owed, paid
  <2> QED BY <1>1, <2>1, <2>2 DEF Lane
<1> HIDE DEF es, n, paid
<1>3. PICK acc : /\ acc[0] = paid
                 /\ \A i \in 1..n : acc[i] = LaunchedOne(acc[i - 1], es[i])
                 /\ Launched(paid, es) = acc[n]
  <2>1. Launched(paid, es) = Ran!Fold(paid, es)
    BY DEF Launched, FoldLeft, MapThenFoldSet, Max, Ran!Fold, Ran!LastOf
  <2>2. \E acc : /\ acc[0] = paid
                 /\ \A i \in 1..Len(es) : acc[i] = LaunchedOne(acc[i - 1], es[i])
                 /\ Ran!Fold(paid, es) = acc[Len(es)]
    BY <1>1, Ran!FoldSteps, Zenon
  <2> QED BY <2>1, <2>2, Zenon DEF n
<1> DEFINE Good == {i \in 0..n : RunMore(b, i, acc[i])}
<1>4. 0 \in Good
  BY <1>1, <1>2, <1>3 DEF RunMore
<1>5. ASSUME NEW k \in 1..n, k - 1 \in Good PROVE k \in Good
  <2> DEFINE a == acc[k - 1]
             e == es[k]
             next == LaunchedOne(a, e)
  <2>1. /\ a \in Lane /\ a.slots = b.lane.slots
        /\ \A r \in Reqs : \/ /\ a.req[r] = b.lane.req[r]
                              /\ r \in a.running <=> r \in b.lane.running
                           \/ \E i \in 1..(k - 1) : es[i].req = r
        /\ \A i \in 1..(k - 1) : Advanced(es[i], a)
    BY <1>5 DEF RunMore, es
  <2>2. e \in Unit /\ e.req \in Reqs
    BY <1>1 DEF Unit
  <2> HIDE DEF a, e
  <2>3. /\ next \in Lane /\ next.slots = a.slots /\ Advanced(e, next)
        /\ \A q \in Reqs : q # e.req => /\ next.req[q] = a.req[q]
                                        /\ q \in next.running <=> q \in a.running
    BY <2>1, <2>2, RunOneMore
  <2> HIDE DEF next
  <2>4. \A i \in 1..k : i \in 1..(k - 1) \/ i = k
    BY <1>1
  <2>5. k \in 1..k /\ k \in 0..n /\ \A i \in 1..(k - 1) : i \in 1..k /\ i \in 1..n /\ i # k
    BY <1>1
  <2>6. \A i \in 1..k : Advanced(es[i], next)
    <3>1. ASSUME NEW i \in 1..(k - 1) PROVE Advanced(es[i], next)
      <4>1. es[i].req # e.req /\ es[i].req \in Reqs
        BY <1>1, <2>5 DEF e, Unit
      <4>2. Advanced(es[i], a)
        BY <2>1
      <4> DEFINE u == es[i]
      <4> HIDE DEF u
      <4>3. next.req[u.req] = a.req[u.req] /\ (u.req \in next.running <=> u.req \in a.running)
        BY <2>3, <4>1 DEF u
      <4> QED BY <4>2, <4>3 DEF Advanced, u
    <3> QED BY <2>3, <2>4, <3>1 DEF e
  <2>7. \A r \in Reqs : \/ /\ next.req[r] = b.lane.req[r]
                           /\ r \in next.running <=> r \in b.lane.running
                        \/ \E i \in 1..k : es[i].req = r
    BY <2>1, <2>3, <2>5 DEF e
  <2>8. RunMore(b, k, next)
    BY <2>1, <2>3, <2>6, <2>7 DEF RunMore, es
  <2>9. acc[k] = next
    BY <1>3 DEF next, a, e
  <2> QED BY <2>5, <2>8, <2>9
<1> HIDE DEF Good
<1>6. n \in Good
  <2>1. \A i \in 0..n : i \in Good
    BY <1>1, <1>4, <1>5, Folded!UpTo
  <2> QED BY <1>1, <2>1
<1> QED BY <1>3, <1>6 DEF Good, n, es, paid

-----------------------------------------------------------------------------
(* A completion, once more: a row it frees is free afterwards, and whoever *)
(* gets an answer has a current entry that is not a chunk.                 *)
Brings(item) == ~item.entry.chunked /\ item.current
Leaves(lane, acc) ==
  /\ Range(acc.freed) \subseteq Range(acc.lane.slots)
  /\ acc.lane.running \subseteq lane.running
  /\ \A r \in Reqs : acc.lane.req[r].device = lane.req[r].device

LEMMA CompleteOneMore ==
  ASSUME NEW acc, Completing(acc), NEW item, NEW r \in Reqs, r = item.entry.req,
         acc.lane.req[r].slot = item.entry.slot, acc.lane.req[r].slot # NoSlot, Brings(item),
         NEW lane, Leaves(lane, acc)
  PROVE  Leaves(lane, CompleteOne(acc, item))
<1> DEFINE old   == acc.lane
           x     == old.req[r].slot
           told  == [old EXCEPT !.req[r].done = @ + 1]
           cut   == [told EXCEPT !.running = @ \ {r}]
           rows  == [old.req EXCEPT ![r].done = @ + 1]
           end   == IsFinished(told, item.entry, item.token)
           frees == end /\ r \notin old.finished
           next  == CompleteOne(acc, item)
<1>1. old \in Lane /\ acc.freed \in Seq(Slots) /\ old.slots \in Seq(Slots) /\ x \in Slots
  <2>1. old \in Lane /\ acc.freed \in Seq(Slots)
    BY DEF Completing, LaneOK
  <2>2. x \in 0..NumSlots /\ x # NoSlot
    BY <2>1 DEF Lane, Requests
  <2>3. old.slots \in Seq(Slots)
    BY <2>1 DEF Lane
  <2> QED BY <2>1, <2>2, <2>3, SizeAssumption DEF Slots, NoSlot
<1>2. next = [lane    |-> IF frees THEN FreeReq(cut, r) ELSE told,
              replies |-> [acc.replies EXCEPT ![r] = Append(@, [token |-> item.token, finished |-> end])],
              newDone |-> IF frees THEN acc.newDone \union {r} ELSE acc.newDone,
              freed   |-> IF frees THEN Append(acc.freed, x) ELSE acc.freed]
  <2> DEFINE q     == item.entry.req
             lane1 == [acc.lane EXCEPT !.req[q].done = @ + 1]
             end1  == IsFinished(lane1, item.entry, item.token)
             free1 == end1 /\ q \notin acc.lane.finished
  <2>1. ~(item.entry.chunked \/ ~item.current) /\ q = r /\ item.entry.slot = x
    BY DEF Brings
  <2>2. next = [lane    |-> IF free1 THEN FreeReq([lane1 EXCEPT !.running = @ \ {q}], q) ELSE lane1,
                replies |-> [acc.replies EXCEPT ![q] = Append(@, [token |-> item.token, finished |-> end1])],
                newDone |-> IF free1 THEN acc.newDone \union {q} ELSE acc.newDone,
                freed   |-> IF free1 THEN Append(acc.freed, item.entry.slot) ELSE acc.freed]
    BY <2>1, Zenon DEF CompleteOne
  <2>3. lane1 = told
    BY <2>1
  <2> HIDE DEF lane1, told
  <2>4. end1 = end /\ free1 = frees
    BY <2>1, <2>3
  <2> HIDE DEF end1, free1, end, frees, q, x
  <2> QED BY <2>1, <2>2, <2>3, <2>4
<1>3. /\ next.lane = (IF frees THEN FreeReq(cut, r) ELSE told)
      /\ next.freed = (IF frees THEN Append(acc.freed, x) ELSE acc.freed)
  <2> HIDE DEF next, frees, end, told, cut, x
  <2> QED BY <1>2
<1> HIDE DEF next, frees
<1>4. told = [old EXCEPT !.req = rows]
  BY <1>1, ZenonT(60) DEF Lane
<1> HIDE DEF told
<1>5. told.slots = old.slots /\ told.running = old.running /\ told.req = rows
  <2> HIDE DEF rows, old
  <2> QED BY <1>1, <1>4 DEF Lane
<1>6. \A q \in Reqs : rows[q].device = old.req[q].device /\ rows[q].slot = old.req[q].slot
  <2>1. old.req \in Requests
    BY <1>1 DEF Lane
  <2> HIDE DEF old
  <2> QED BY <2>1 DEF Requests
<1> HIDE DEF rows
<1>7. /\ Range(acc.freed) \subseteq Range(old.slots) /\ old.running \subseteq lane.running
      /\ \A q \in Reqs : old.req[q].device = lane.req[q].device
  BY DEF Leaves
<1>8. ASSUME ~frees PROVE Leaves(lane, next)
  BY <1>3, <1>5, <1>6, <1>7, <1>8 DEF Leaves
<1>9. ASSUME frees PROVE Leaves(lane, next)
  <2>1. /\ cut.slots = told.slots /\ cut.running = told.running \ {r} /\ cut.req = told.req
    BY <1>1, <1>4, <1>5 DEF Lane
  <2> DEFINE new == FreeReq(cut, r)
  <2>2. cut = [pending |-> old.pending, running |-> cut.running, slots |-> old.slots,
               pages |-> old.pages, finished |-> old.finished, req |-> told.req]
    <3>1. told = [pending |-> old.pending, running |-> old.running, slots |-> old.slots,
                  pages |-> old.pages, finished |-> old.finished, req |-> told.req]
      <4> HIDE DEF old
      <4> QED BY <1>1, <1>4, <1>5 DEF Lane
    <3> HIDE DEF old
    <3> QED BY <3>1
  <2>3. /\ new.slots = Append(cut.slots, cut.req[r].slot) /\ new.running = cut.running
        /\ \A q \in Reqs : new.req[q].device = cut.req[q].device
    <3>1. new = [cut EXCEPT !.slots = Append(cut.slots, cut.req[r].slot),
                            !.pages = cut.pages + PagesFor(cut.req[r].cached),
                            !.req = [cut.req EXCEPT ![r].slot = NoSlot]]
      <4> HIDE DEF cut
      <4>1. new = [cut EXCEPT !.slots = Append(@, cut.req[r].slot),
                              !.pages = @ + PagesFor(cut.req[r].cached), !.req[r].slot = NoSlot]
        BY DEF FreeReq
      <4> DEFINE n == PagesFor(cut.req[r].cached)
                 y == cut.req[r].slot
      <4> HIDE DEF new, n, y
      <4>2. new = [cut EXCEPT !.slots = Append(@, y), !.pages = @ + n, !.req[r].slot = NoSlot]
        BY <4>1 DEF n, y
      <4> HIDE DEF old
      <4>3. new = [cut EXCEPT !.slots = Append(cut.slots, y), !.pages = cut.pages + n,
                              !.req = [cut.req EXCEPT ![r].slot = NoSlot]]
        BY <2>2, <4>2
      <4> QED BY <4>3 DEF n, y
    <3>2. cut.req \in Requests
      <4>1. old.req \in Requests /\ NoSlot \in 0..NumSlots
        BY <1>1, SizeAssumption DEF Lane, NoSlot
      <4>2. rows \in Requests
        <5>1. old.req[r] \in [slot : 0..NumSlots, cached : Nat, device : Nat, done : Nat]
          BY <4>1 DEF Requests
        <5> DEFINE n == old.req[r].done + 1
        <5>2. n \in Nat
          BY <5>1
        <5>3. rows = [old.req EXCEPT ![r] = [old.req[r] EXCEPT !.done = n]]
          BY DEF rows
        <5> HIDE DEF n, old
        <5>4. [old.req[r] EXCEPT !.done = n] \in [slot : 0..NumSlots, cached : Nat, device : Nat, done : Nat]
          BY <5>1, <5>2
        <5> QED BY <4>1, <5>3, <5>4 DEF Requests
      <4> QED BY <1>5, <2>1, <4>2
    <3> HIDE DEF new, cut, told
    <3>3. \A q \in Reqs : [cut.req EXCEPT ![r].slot = NoSlot][q].device = cut.req[q].device
      BY <3>2 DEF Requests
    <3> DEFINE fresh == [cut.req EXCEPT ![r].slot = NoSlot]
               n == cut.pages + PagesFor(cut.req[r].cached)
               sl == Append(cut.slots, cut.req[r].slot)
    <3> HIDE DEF fresh
    <3>4. new.slots = sl /\ new.running = cut.running /\ new.req = fresh
      <4>1. new = [cut EXCEPT !.slots = sl, !.pages = n, !.req = fresh]
        BY <3>1 DEF fresh
      <4> HIDE DEF sl, n
      <4> QED BY <2>2, <4>1
    <3> QED BY <3>3, <3>4 DEF fresh
  <2> HIDE DEF new, cut
  <2>4. cut.slots = old.slots /\ cut.req[r].slot = x
    BY <1>5, <1>6, <2>1
  <2>5. /\ Range(Append(old.slots, x)) = Range(old.slots) \cup {x}
        /\ Range(Append(acc.freed, x)) = Range(acc.freed) \cup {x}
    <3> HIDE DEF x, old
    <3> QED BY <1>1, AppendParts
  <2>6. next.lane = new /\ next.freed = Append(acc.freed, x)
    BY <1>3, <1>9 DEF new
  <2>7. Range(next.freed) \subseteq Range(new.slots)
    BY <1>7, <2>3, <2>4, <2>5, <2>6
  <2>8. new.running \subseteq lane.running /\ \A q \in Reqs : new.req[q].device = lane.req[q].device
    BY <1>5, <1>6, <1>7, <2>1, <2>3
  <2> QED BY <2>6, <2>7, <2>8 DEF Leaves
<1> QED BY <1>8, <1>9 DEF next

EndMore(lane, items, k, acc) ==
  /\ Leaves(lane, acc)
  /\ \A i \in 1..k : Brings(items[i]) => acc.replies[items[i].entry.req] # <<>>
  /\ \A r \in Reqs : acc.replies[r] # <<>> =>
       \E i \in 1..k : Brings(items[i]) /\ items[i].entry.req = r

LEMMA EndStepMore ==
  ASSUME NEW lane, LaneOK(lane), NEW g \in [Slots -> Nat], NEW batch \in Seq(Entry),
         Flying(lane, g, batch), NEW items, NEW k \in 1..Len(batch), NEW acc,
         \A i \in 1..k : items[i] = [entry |-> batch[i], token |-> items[i].token,
                                     current |-> g[batch[i].slot] = batch[i].gen],
         EndInv(lane, batch, items, k - 1, acc), EndMore(lane, items, k - 1, acc)
  PROVE  EndMore(lane, items, k, CompleteOne(acc, items[k]))
<1> DEFINE e    == batch[k]
           r    == e.req
           item == items[k]
           next == CompleteOne(acc, item)
<1>1. /\ Completing(acc) /\ acc.lane.pending = lane.pending
      /\ \A q \in Reqs :
           \/ Untouched(lane, acc, q)
           \/ \E i \in 1..(k - 1) : batch[i].req = q /\ Answered(lane, acc, items[i].token, q)
  BY DEF EndInv
<1>2. /\ r \in Reqs /\ e.slot \in Slots
      /\ DOMAIN batch = 1..Len(batch) /\ k \in Int /\ k \in 1..k
      /\ \A i \in 1..(k - 1) : i \in 1..k /\ i \in DOMAIN batch /\ i # k
      /\ \A i \in 1..k : i \in 1..(k - 1) \/ i = k
  <2>1. e \in Entry /\ DOMAIN batch = 1..Len(batch) /\ k \in Int /\ Len(batch) \in Nat
    OBVIOUS
  <2> HIDE DEF e
  <2>2. /\ k \in 1..k /\ \A i \in 1..(k - 1) : i \in 1..k /\ i \in DOMAIN batch /\ i # k
        /\ \A i \in 1..k : i \in 1..(k - 1) \/ i = k
    BY <2>1
  <2> QED BY <2>1, <2>2 DEF Entry
<1>3. \A i \in 1..k : items[i].entry = batch[i] /\ items[i].current = (g[batch[i].slot] = batch[i].gen)
  <2> SUFFICES ASSUME NEW i \in 1..k
               PROVE  items[i].entry = batch[i] /\ items[i].current = (g[batch[i].slot] = batch[i].gen)
    OBVIOUS
  <2> DEFINE x == items[i]
             y == batch[i]
             t == x.token
             c == g[y.slot] = y.gen
  <2>1. x = [entry |-> y, token |-> t, current |-> c]
    OBVIOUS
  <2> HIDE DEF x, y, t
  <2>2. x.entry = y /\ x.current = c
    <3> HIDE DEF c
    <3> QED BY <2>1
  <2> QED BY <2>2 DEF x, y
<1>4. \A i \in 1..(k - 1) : batch[i].req # r
  <2>1. SUFFICES ASSUME NEW i \in 1..(k - 1), batch[i].req = r PROVE FALSE
    OBVIOUS
  <2>2. i \in DOMAIN batch /\ k \in DOMAIN batch /\ i # k
    BY <1>2
  <2> QED BY <2>1, <2>2 DEF Flying
<1>5. Untouched(lane, acc, r)
  BY <1>1, <1>2, <1>4
<1>6. /\ Leaves(lane, acc)
      /\ \A i \in 1..(k - 1) : Brings(items[i]) => acc.replies[items[i].entry.req] # <<>>
      /\ \A q \in Reqs : acc.replies[q] # <<>> =>
           \E i \in 1..(k - 1) : Brings(items[i]) /\ items[i].entry.req = q
  BY DEF EndMore
<1>7. CASE ~Brings(item)
  <2>1. next = acc
    BY <1>7, Zenon DEF CompleteOne, Brings
  <2>2. EndMore(lane, items, k, acc)
    BY <1>2, <1>6, <1>7 DEF EndMore
  <2> QED BY <2>1, <2>2
<1>8. CASE Brings(item)
  <2>1. item.entry = e /\ item.current = (g[e.slot] = e.gen)
    BY <1>2, <1>3
  <2>2. lane.req[r].slot = e.slot /\ r \notin Range(lane.pending)
    BY <1>2, <1>8, <2>1 DEF Flying, Brings
  <2>3. acc.lane.req[r] = lane.req[r] /\ acc.replies[r] = <<>> /\ e.slot # NoSlot
    BY <1>2, <1>5, SizeAssumption DEF Untouched, Slots, NoSlot
  <2> HIDE DEF item, e
  <2>4. /\ acc.lane.req[r].slot = item.entry.slot /\ acc.lane.req[r].slot # NoSlot
        /\ r \notin Range(acc.lane.pending) /\ r = item.entry.req
    BY <1>1, <2>1, <2>2, <2>3
  <2> HIDE DEF r
  <2>5. ~item.entry.chunked /\ item.current
    BY <1>8 DEF Brings
  <2>6. Completed(acc, item, next, r)
    BY <1>1, <1>2, <2>3, <2>4, <2>5, CompleteOneParts
  <2>7. Leaves(lane, next)
    BY <1>1, <1>2, <1>6, <1>8, <2>4, CompleteOneMore
  <2> HIDE DEF next
  <2>8. next.replies[r] # <<>> /\ \A q \in Reqs : q # r => next.replies[q] = acc.replies[q]
    BY <2>6 DEF Completed
  <2>9. \A i \in 1..k : Brings(items[i]) => next.replies[items[i].entry.req] # <<>>
    <3>1. ASSUME NEW i \in 1..(k - 1), Brings(items[i]) PROVE next.replies[items[i].entry.req] # <<>>
      <4>1. items[i].entry = batch[i] /\ batch[i].req # r /\ batch[i] \in Entry
        BY <1>2, <1>3, <1>4
      <4>2. items[i].entry.req # r /\ items[i].entry.req \in Reqs
        BY <4>1 DEF Entry
      <4> QED BY <1>6, <2>8, <3>1, <4>2
    <3>2. next.replies[items[k].entry.req] # <<>>
      BY <2>4, <2>8 DEF item
    <3> QED BY <1>2, <3>1, <3>2
  <2>10. ASSUME NEW q \in Reqs, next.replies[q] # <<>>
         PROVE  \E i \in 1..k : Brings(items[i]) /\ items[i].entry.req = q
    <3>1. CASE q = r
      BY <1>2, <1>8, <2>4, <3>1 DEF item
    <3>2. CASE q # r
      <4>1. PICK i \in 1..(k - 1) : Brings(items[i]) /\ items[i].entry.req = q
        BY <1>6, <2>8, <2>10, <3>2
      <4> QED BY <1>2, <4>1
    <3> QED BY <3>1, <3>2
  <2>11. EndMore(lane, items, k, next)
    BY <2>7, <2>9, <2>10 DEF EndMore
  <2> QED BY <2>11 DEF next, item
<1> QED BY <1>7, <1>8

(* Request r of a lane after a completion, and the token it got.           *)
Got(lane, batch, items, done, r) ==
  \/ Kept(lane, done, r) /\ \A i \in 1..Len(batch) : Brings(items[i]) => batch[i].req # r
  \/ \E i \in 1..Len(batch) : /\ batch[i].req = r /\ Brings(items[i])
                              /\ Answered(lane, done, items[i].token, r)

LEMMA CompletionMore ==
  ASSUME NEW lane, LaneOK(lane), NEW g \in [Slots -> Nat], NEW batch \in Seq(Entry),
         Flying(lane, g, batch), NEW items,
         items = [i \in DOMAIN batch |-> [entry |-> batch[i], token |-> items[i].token,
                                          current |-> g[batch[i].slot] = batch[i].gen]]
  PROVE  LET done == CompleteResults(lane, items)
         IN  /\ Completes(lane, done) /\ Leaves(lane, done) /\ done.freed \in Seq(Slots)
             /\ \A r \in Reqs : Got(lane, batch, items, done, r)
<1> DEFINE n    == Len(batch)
           S    == {items[i] : i \in DOMAIN batch}
           base == NewCompletion(lane)
           done == CompleteResults(lane, items)
<1>1. n \in Nat /\ DOMAIN batch = 1..n
  OBVIOUS
<1>2. items \in Seq(S) /\ Len(items) = n
  <2>1. items = [i \in 1..n |-> items[i]]
    BY <1>1
  <2>2. \A i \in 1..n : items[i] \in S
    BY <1>1
  <2> HIDE DEF S, n
  <2> QED BY ONLY <1>1, <2>1, <2>2
<1> HIDE DEF S, base
<1>3. PICK acc : /\ acc[0] = base
                 /\ \A i \in 1..n : acc[i] = CompleteOne(acc[i - 1], items[i])
                 /\ FoldLeft(CompleteOne, base, items) = acc[n]
  <2>1. FoldLeft(CompleteOne, base, items) = Ended!Fold(base, items)
    BY DEF FoldLeft, MapThenFoldSet, Max, Ended!Fold, Ended!LastOf
  <2>2. \E acc : /\ acc[0] = base
                 /\ \A i \in 1..Len(items) : acc[i] = CompleteOne(acc[i - 1], items[i])
                 /\ Ended!Fold(base, items) = acc[Len(items)]
    BY <1>2, Ended!FoldSteps, Zenon
  <2> QED BY <1>2, <2>1, <2>2, Zenon
<1>4. \A i \in 1..n : items[i] = [entry |-> batch[i], token |-> items[i].token,
                                  current |-> g[batch[i].slot] = batch[i].gen]
  BY <1>1
<1> DEFINE Good == {i \in 0..n : EndInv(lane, batch, items, i, acc[i]) /\ EndMore(lane, items, i, acc[i])}
<1>5. 0 \in Good
  <2>1. /\ base = [lane |-> base.lane, replies |-> base.replies, newDone |-> base.newDone,
                   freed |-> base.freed]
        /\ base.lane = lane /\ base.newDone = {} /\ base.freed = <<>>
        /\ base.replies = [r \in Reqs |-> <<>>]
    BY DEF base, NewCompletion
  <2>2. base.replies = [r \in Reqs |-> base.replies[r]] /\ \A r \in Reqs : base.replies[r] = <<>>
    BY <2>1
  <2>3. Completing(base)
    BY <2>1, <2>2 DEF Completing
  <2>4. \A r \in Reqs : Untouched(lane, base, r)
    BY <2>1, <2>2 DEF Untouched
  <2>5. EndInv(lane, batch, items, 0, base)
    BY <2>1, <2>3, <2>4 DEF EndInv
  <2>6. Range(base.freed) = {}
    BY <2>1 DEF Range
  <2>7. EndMore(lane, items, 0, base)
    BY <2>1, <2>2, <2>6 DEF EndMore, Leaves
  <2> QED BY <1>1, <1>3, <2>5, <2>7
<1>6. ASSUME NEW i \in 1..n, i - 1 \in Good PROVE i \in Good
  <2>1. /\ EndInv(lane, batch, items, i - 1, acc[i - 1]) /\ EndMore(lane, items, i - 1, acc[i - 1])
        /\ acc[i] = CompleteOne(acc[i - 1], items[i]) /\ i \in 0..n
        /\ \A j \in 1..i : j \in 1..n
    BY <1>1, <1>3, <1>6
  <2> DEFINE a == acc[i - 1]
  <2> HIDE DEF a
  <2>2. /\ items[i] = [entry |-> batch[i], token |-> items[i].token,
                       current |-> g[batch[i].slot] = batch[i].gen]
        /\ \A j \in 1..i : items[j] = [entry |-> batch[j], token |-> items[j].token,
                                       current |-> g[batch[j].slot] = batch[j].gen]
    BY <1>4, <2>1
  <2>3. EndInv(lane, batch, items, i, CompleteOne(a, items[i]))
    BY <2>1, <2>2, EndStep DEF a
  <2>4. EndMore(lane, items, i, CompleteOne(a, items[i]))
    BY <2>1, <2>2, EndStepMore DEF a
  <2> QED BY <2>1, <2>3, <2>4 DEF a
<1> HIDE DEF Good
<1>7. n \in Good
  BY <1>1, <1>5, <1>6, Folded!UpTo
<1> DEFINE end == acc[n]
<1>8. EndInv(lane, batch, items, n, end) /\ EndMore(lane, items, n, end)
  BY <1>7 DEF Good
<1> HIDE DEF end
<1>9. done = [end EXCEPT !.lane = [end.lane EXCEPT !.finished = end.newDone]]
  BY <1>3 DEF CompleteResults, base, end
<1> DEFINE old == end.lane
           new == [old EXCEPT !.finished = end.newDone]
<1>10. /\ done.lane = new /\ done.freed = end.freed /\ done.replies = end.replies
  <2>1. end = [lane |-> old, replies |-> end.replies, newDone |-> end.newDone, freed |-> end.freed]
    BY <1>8 DEF EndInv, Completing
  <2>2. done = [end EXCEPT !.lane = new]
    BY <1>9
  <2> HIDE DEF done, new, old
  <2> QED BY <2>1, <2>2
<1>11. /\ new.running = old.running /\ new.slots = old.slots /\ new.req = old.req
  <2>1. old \in Lane
    BY <1>8 DEF EndInv, Completing, LaneOK
  <2> HIDE DEF old
  <2> QED BY <2>1 DEF Lane
<1>12. Completes(lane, done)
  BY CompletionParts, Zenon
<1> HIDE DEF done, new
<1>13. Leaves(lane, done)
  BY <1>8, <1>10, <1>11 DEF EndMore, Leaves
<1>14. ASSUME NEW r \in Reqs PROVE Got(lane, batch, items, done, r)
  <2>1. \A i \in 1..n : items[i].entry = batch[i] /\ batch[i].req \in Reqs
    <3> SUFFICES ASSUME NEW i \in 1..n PROVE items[i].entry = batch[i] /\ batch[i].req \in Reqs
      OBVIOUS
    <3>0. batch[i] \in Entry
      BY <1>1
    <3>1. batch[i].req \in Reqs
      BY <3>0 DEF Entry
    <3> DEFINE x == items[i]
               t == x.token
               y == batch[i]
               c == g[y.slot] = y.gen
    <3>2. x = [entry |-> y, token |-> t, current |-> c]
      BY <1>4
    <3> HIDE DEF x, t, c, y
    <3>3. x.entry = y
      BY <3>2
    <3> QED BY <3>1, <3>3 DEF x, y
  <2>0. /\ \A i \in 1..n : Brings(items[i]) => end.replies[items[i].entry.req] # <<>>
        /\ end.replies[r] # <<>> => \E i \in 1..n : Brings(items[i]) /\ items[i].entry.req = r
        /\ done.replies[r] = end.replies[r]
    BY <1>8, <1>10, Zenon DEF EndMore
  <2> HIDE DEF n
  <2>2. CASE done.replies[r] = <<>>
    <3>1. Kept(lane, done, r)
      <4>1. ~\E token : Answered(lane, done, token, r)
        BY <2>2 DEF Answered
      <4> QED BY <1>12, <4>1 DEF Completes
    <3>2. \A i \in 1..n : Brings(items[i]) => batch[i].req # r
      <4> SUFFICES ASSUME NEW i \in 1..n, Brings(items[i]), batch[i].req = r PROVE FALSE
        BY Zenon
      <4>1. end.replies[items[i].entry.req] # <<>> /\ items[i].entry = batch[i]
        BY <2>0, <2>1, Zenon
      <4> QED BY <2>0, <2>2, <4>1, Zenon
    <3> QED BY <3>1, <3>2 DEF Got, n
  <2>3. CASE done.replies[r] # <<>>
    <3>1. PICK i \in 1..n : Brings(items[i]) /\ batch[i].req = r
      BY <2>0, <2>1, <2>3, Zenon
    <3>2. PICK j \in 1..n : batch[j].req = r /\ Answered(lane, end, items[j].token, r)
      BY <1>8, <1>10, <2>3 DEF EndInv, Untouched
    <3>3. i = j
      BY <1>1, <3>1, <3>2 DEF Flying, n
    <3> DEFINE t == items[j].token
    <3> HIDE DEF t
    <3>4. Answered(lane, end, t, r)
      BY <3>2 DEF t
    <3>5. Present(done.lane, r) <=> Present(old, r)
      BY <1>8, <1>10, <1>11, <1>12 DEF Completes, EndInv, Present
    <3>6. Answered(lane, done, t, r)
      BY <1>10, <1>11, <3>4, <3>5 DEF Answered
    <3> QED BY <3>1, <3>3, <3>6 DEF Got, t, n
  <2> QED BY <2>2, <2>3
<1>15. done.freed \in Seq(Slots)
  BY <1>8, <1>10 DEF EndInv, Completing
<1> QED BY <1>12, <1>13, <1>14, <1>15 DEF done

-----------------------------------------------------------------------------
Clearing  == INSTANCE FoldFacts WITH Op <- FreeTable
Writing   == INSTANCE FoldFacts WITH Op <- WriteBlock
Extending == INSTANCE FoldFacts WITH Op <- MaterializeReq
Returning == INSTANCE FoldFacts WITH Op <- WritebackOne

(* What a worker's store is, and the entries of a command.                 *)
Pool  == [0..(MaxSeqLen - 1) -> Token]
Store == [freePages : Int, pages : [Slots -> Int], kv : [Slots -> Seq(Token)],
          pool : [Slots -> Pool]]
Order == [req : Reqs, slot : Slots, start : Nat, ext : Nat, writeback : BOOLEAN]

(* A row each of whose entries changes another slot.                       *)
Turns(n, f, q, S) ==
  /\ \A i, j \in 1..n : q[i] = q[j] => i = j
  /\ \A k \in 1..n : \A s \in S : s # q[k] => f[k][s] = f[k - 1][s]
Settled(n, f, q, S) ==
  \A s \in S : /\ (\A i \in 1..n : q[i] # s) => f[n][s] = f[0][s]
               /\ \A i \in 1..n : q[i] = s => f[i - 1][s] = f[0][s] /\ f[n][s] = f[i][s]
LEMMA EachOnce ==
  ASSUME NEW n \in Nat, NEW f, NEW q, NEW S, Turns(n, f, q, S)
  PROVE  Settled(n, f, q, S)
<1> DEFINE Same(m, s) == (\A i \in 1..m : q[i] # s) => f[m][s] = f[0][s]
           Once(m, s) == \A i \in 1..m : q[i] = s => f[i - 1][s] = f[0][s] /\ f[m][s] = f[i][s]
           Good == {m \in 0..n : \A s \in S : Same(m, s) /\ Once(m, s)}
<1>0. /\ \A i, j \in 1..n : q[i] = q[j] => i = j
      /\ \A k \in 1..n : \A s \in S : s # q[k] => f[k][s] = f[k - 1][s]
  BY DEF Turns
<1>1. 0 \in Good
  OBVIOUS
<1>2. ASSUME NEW m \in 1..n, m - 1 \in Good PROVE m \in Good
  <2>1. /\ m \in Nat /\ m - 1 \in Nat /\ m \in 0..n /\ m \in 1..m
        /\ \A i \in 1..(m - 1) : i \in 1..m /\ i \in 1..n /\ i # m
        /\ \A i \in 1..m : i = m \/ i \in 1..(m - 1)
    OBVIOUS
  <2>2. ASSUME NEW s \in S PROVE Same(m, s) /\ Once(m, s)
    <3>1. Same(m - 1, s) /\ Once(m - 1, s)
      BY <1>2
    <3>2. CASE q[m] = s
      BY <1>0, <2>1, <3>1, <3>2
    <3>3. CASE q[m] # s
      BY <1>0, <2>1, <3>1, <3>3
    <3> QED BY <3>2, <3>3
  <2> QED BY <2>1, <2>2
<1> HIDE DEF Good
<1>3. \A m \in 0..n : m \in Good
  BY <1>1, <1>2, Folded!UpTo
<1>4. n \in 0..n
  OBVIOUS
<1> QED BY <1>3, <1>4 DEF Good, Settled

LEMMA TokenFacts ==
  /\ MaxSeqLen \in Nat /\ ZeroToken \in Token /\ ZeroToken.of = NoReq
  /\ \A r \in Reqs, p \in 0..MaxSeqLen : PromptToken(r, p) \in Token
  /\ \A r \in Reqs, p \in 0..MaxSeqLen : PromptToken(r, p).of = r /\ PromptToken(r, p).at = p
BY RowAssumption DEF Token, ZeroToken, PromptToken

(* _free_tables *)
LEMMA FreeTableParts ==
  ASSUME NEW store \in Store, NEW slot \in Slots
  PROVE  LET next == FreeTable(store, slot) IN
         /\ next \in Store /\ next.pool = store.pool
         /\ next.kv = [store.kv EXCEPT ![slot] = <<>>]
<1> DEFINE kv    == [store.kv EXCEPT ![slot] = <<>>]
           pages == [store.pages EXCEPT ![slot] = 0]
           n     == store.freePages + store.pages[slot]
           next  == FreeTable(store, slot)
<1>1. store.kv \in [Slots -> Seq(Token)] /\ store.pages \in [Slots -> Int] /\ store.freePages \in Int
      /\ store.pool \in [Slots -> Pool]
  BY DEF Store
<1>2. kv \in [Slots -> Seq(Token)] /\ pages \in [Slots -> Int] /\ n \in Int
  BY <1>1
<1>3. next = [store EXCEPT !.freePages = n, !.pages = pages, !.kv = kv]
  BY ZenonT(60) DEF FreeTable, Store
<1> HIDE DEF kv, pages, n, next
<1>4. next \in Store /\ next.kv = kv /\ next.pool = store.pool
  BY <1>1, <1>2, <1>3 DEF Store
<1> QED BY <1>4 DEF next, kv

LEMMA FreeTablesParts ==
  ASSUME NEW store \in Store, NEW free \in Seq(Slots)
  PROVE  LET next == FreeTables(store, free) IN
         /\ next \in Store /\ next.pool = store.pool
         /\ \A s \in Slots : next.kv[s] = IF s \in Range(free) THEN <<>> ELSE store.kv[s]
<1> DEFINE n == Len(free)
<1>1. n \in Nat /\ DOMAIN free = 1..n /\ \A i \in 1..n : free[i] \in Slots
  OBVIOUS
<1>2. PICK acc : /\ acc[0] = store
                 /\ \A i \in 1..n : acc[i] = FreeTable(acc[i - 1], free[i])
                 /\ FoldLeft(FreeTable, store, free) = acc[n]
  <2>1. FoldLeft(FreeTable, store, free) = Clearing!Fold(store, free)
    BY DEF FoldLeft, MapThenFoldSet, Max, Clearing!Fold, Clearing!LastOf
  <2>2. \E acc : /\ acc[0] = store
                 /\ \A i \in 1..Len(free) : acc[i] = FreeTable(acc[i - 1], free[i])
                 /\ Clearing!Fold(store, free) = acc[Len(free)]
    BY Clearing!FoldSteps, Zenon
  <2> QED BY <2>1, <2>2, Zenon
<1> DEFINE Gone(i) == {free[j] : j \in 1..i}
           Good == {i \in 0..n : /\ acc[i] \in Store /\ acc[i].pool = store.pool
                                 /\ \A s \in Slots :
                                      acc[i].kv[s] = IF s \in Gone(i) THEN <<>> ELSE store.kv[s]}
<1>3. 0 \in Good
  BY <1>1, <1>2
<1>4. ASSUME NEW i \in 1..n, i - 1 \in Good PROVE i \in Good
  <2> DEFINE a == acc[i - 1]
             b == FreeTable(a, free[i])
  <2>1. /\ a \in Store /\ a.pool = store.pool
        /\ \A s \in Slots : a.kv[s] = IF s \in Gone(i - 1) THEN <<>> ELSE store.kv[s]
    BY <1>4
  <2>2. Gone(i) = Gone(i - 1) \cup {free[i]}
    BY <1>1
  <2>3. acc[i] = b /\ free[i] \in Slots /\ i \in 0..n
    BY <1>1, <1>2
  <2> HIDE DEF a, Gone
  <2>4. b \in Store /\ b.pool = a.pool /\ b.kv = [a.kv EXCEPT ![free[i]] = <<>>]
    BY <2>1, <2>3, FreeTableParts
  <2>5. \A s \in Slots : b.kv[s] = IF s = free[i] THEN <<>> ELSE a.kv[s]
    BY <2>1, <2>4 DEF Store
  <2> HIDE DEF b
  <2>6. \A s \in Slots : b.kv[s] = IF s \in Gone(i) THEN <<>> ELSE store.kv[s]
    BY <2>1, <2>2, <2>5
  <2> QED BY <2>1, <2>3, <2>4, <2>6
<1> HIDE DEF Good
<1>5. n \in Good
  <2>1. \A i \in 0..n : i \in Good
    BY <1>1, <1>3, <1>4, Clearing!UpTo
  <2> QED BY <1>1, <2>1
<1>6. Gone(n) = Range(free)
  BY <1>1 DEF Range
<1> QED BY <1>2, <1>5, <1>6 DEF Good, FreeTables

-----------------------------------------------------------------------------
(* The rows of a command's entries are different ones.                     *)
Distinct(es) == \A i, j \in 1..Len(es) : es[i].slot = es[j].slot => i = j

LEMMA OrderOf ==
  ASSUME NEW es \in Seq(Order)
  PROVE  /\ Len(es) \in Nat /\ DOMAIN es = 1..Len(es)
         /\ \A i \in 1..Len(es) : es[i] \in Order /\ es[i].slot \in Slots
<1>1. Len(es) \in Nat /\ DOMAIN es = 1..Len(es) /\ \A i \in 1..Len(es) : es[i] \in Order
  OBVIOUS
<1>2. \A e \in Order : e.slot \in Slots
  BY DEF Order
<1> QED BY <1>1, <1>2

(* _write_token_blocks_ag *)
Block(row, e) ==
  [p \in 0..(MaxSeqLen - 1) |-> IF p \in e.start..(e.start + e.ext - 1) THEN PromptToken(e.req, p)
                                ELSE row[p]]

LEMMA WriteBlockParts ==
  ASSUME NEW store \in Store, NEW e \in Order
  PROVE  LET next == WriteBlock(store, e) IN
         /\ next \in Store /\ next.kv = store.kv
         /\ next.pool = [store.pool EXCEPT ![e.slot] = Block(@, e)]
<1> DEFINE s    == e.slot
           row  == store.pool[s]
           b    == Block(row, e)
           pool == [store.pool EXCEPT ![s] = b]
           next == WriteBlock(store, e)
<1>1. /\ store.pool \in [Slots -> Pool] /\ s \in Slots /\ row \in Pool
      /\ e.start \in Nat /\ e.ext \in Nat /\ e.req \in Reqs
  BY DEF Store, Order
<1>2. DOMAIN row = 0..(MaxSeqLen - 1) /\ \A p \in 0..(MaxSeqLen - 1) : row[p] \in Token
  BY <1>1 DEF Pool
<1>3. b \in Pool
  <2>1. \A p \in 0..(MaxSeqLen - 1) : PromptToken(e.req, p) \in Token
    BY <1>1, TokenFacts
  <2> HIDE DEF row
  <2> QED BY <1>2, <2>1 DEF Block, Pool
<1>4. next = [store EXCEPT !.pool = pool]
  <2>1. next = [store EXCEPT !.pool[s] =
                 [p \in DOMAIN @ |-> IF p \in e.start..(e.start + e.ext - 1) THEN PromptToken(e.req, p)
                                     ELSE @[p]]]
    BY DEF WriteBlock
  <2>2. b = [p \in DOMAIN row |-> IF p \in e.start..(e.start + e.ext - 1) THEN PromptToken(e.req, p)
                                  ELSE row[p]]
    BY <1>2 DEF Block
  <2> QED BY <2>1, <2>2, ZenonT(60) DEF Store
<1> HIDE DEF b, next
<1>5. pool \in [Slots -> Pool]
  BY <1>1, <1>3
<1> HIDE DEF pool
<1>6. next \in Store /\ next.kv = store.kv /\ next.pool = pool
  BY <1>4, <1>5 DEF Store
<1> QED BY <1>6 DEF next, pool, b

LEMMA WriteParts ==
  ASSUME NEW store \in Store, NEW es \in Seq(Order), Distinct(es)
  PROVE  LET next == FoldLeft(WriteBlock, store, es) IN
         /\ next \in Store /\ next.kv = store.kv
         /\ \A i \in 1..Len(es) : next.pool[es[i].slot] = Block(store.pool[es[i].slot], es[i])
         /\ \A s \in Slots : (\A i \in 1..Len(es) : es[i].slot # s) => next.pool[s] = store.pool[s]
<1> DEFINE n == Len(es)
<1>1. n \in Nat /\ \A i \in 1..n : es[i] \in Order /\ es[i].slot \in Slots
  BY OrderOf
<1>2. PICK acc : /\ acc[0] = store
                 /\ \A i \in 1..n : acc[i] = WriteBlock(acc[i - 1], es[i])
                 /\ FoldLeft(WriteBlock, store, es) = acc[n]
  <2>1. FoldLeft(WriteBlock, store, es) = Writing!Fold(store, es)
    BY DEF FoldLeft, MapThenFoldSet, Max, Writing!Fold, Writing!LastOf
  <2>2. \E acc : /\ acc[0] = store
                 /\ \A i \in 1..Len(es) : acc[i] = WriteBlock(acc[i - 1], es[i])
                 /\ Writing!Fold(store, es) = acc[Len(es)]
    BY Writing!FoldSteps, Zenon
  <2> QED BY <2>1, <2>2, Zenon
<1> DEFINE Good == {i \in 0..n : acc[i] \in Store /\ acc[i].kv = store.kv}
<1>3. 0 \in Good
  BY <1>1, <1>2
<1>4. ASSUME NEW i \in 1..n, acc[i - 1] \in Store
      PROVE  /\ acc[i] \in Store /\ acc[i].kv = acc[i - 1].kv
             /\ acc[i].pool = [acc[i - 1].pool EXCEPT ![es[i].slot] = Block(@, es[i])]
  <2> DEFINE a == acc[i - 1]
             e == es[i]
  <2>1. a \in Store /\ e \in Order /\ acc[i] = WriteBlock(a, e)
    BY <1>1, <1>2, <1>4
  <2> HIDE DEF a, e
  <2>2. /\ WriteBlock(a, e) \in Store /\ WriteBlock(a, e).kv = a.kv
        /\ WriteBlock(a, e).pool = [a.pool EXCEPT ![e.slot] = Block(@, e)]
    BY <2>1, WriteBlockParts
  <2> QED BY <2>1, <2>2 DEF a, e
<1>5. ASSUME NEW i \in 1..n, i - 1 \in Good PROVE i \in Good
  <2>1. acc[i - 1] \in Store /\ acc[i - 1].kv = store.kv
    BY <1>5
  <2>2. acc[i] \in Store /\ acc[i].kv = acc[i - 1].kv
    BY <1>4, <2>1
  <2>3. i \in 0..n
    BY <1>1
  <2> QED BY <2>1, <2>2, <2>3
<1>6. \A i \in 0..n : i \in Good
  <2> HIDE DEF Good
  <2> QED BY <1>1, <1>3, <1>5, Writing!UpTo
<1> DEFINE f == [i \in 0..n |-> acc[i].pool]
           q == [i \in 1..n |-> es[i].slot]
<1>7. \A k \in 1..n : k - 1 \in 0..n /\ k \in 0..n
  BY <1>1
<1>8. \A k \in 1..n : \A s \in Slots : /\ s # q[k] => f[k][s] = f[k - 1][s]
                                       /\ s = q[k] => f[k][s] = Block(f[k - 1][s], es[k])
  <2> SUFFICES ASSUME NEW k \in 1..n, NEW s \in Slots
               PROVE  /\ s # q[k] => f[k][s] = f[k - 1][s]
                      /\ s = q[k] => f[k][s] = Block(f[k - 1][s], es[k])
    OBVIOUS
  <2>1. acc[k - 1] \in Store
    BY <1>6, <1>7
  <2> DEFINE a == acc[k - 1].pool
             b == acc[k].pool
  <2>2. b = [a EXCEPT ![es[k].slot] = Block(@, es[k])] /\ a \in [Slots -> Pool]
    BY <1>4, <2>1 DEF Store
  <2>3. f[k] = b /\ f[k - 1] = a /\ q[k] = es[k].slot /\ q[k] \in Slots
    BY <1>1, <1>7
  <2> HIDE DEF a, b, f, q
  <2> QED BY <2>2, <2>3
<1>9. \A i, j \in 1..n : q[i] = q[j] => i = j
  BY DEF Distinct
<1>10. f[0] = store.pool /\ f[n] = acc[n].pool /\ n \in 0..n /\ acc[n] \in Store /\ acc[n].kv = store.kv
  BY <1>1, <1>2, <1>6
<1> HIDE DEF f, Good
<1>11. \A s \in Slots : /\ (\A i \in 1..n : q[i] # s) => f[n][s] = f[0][s]
                        /\ \A i \in 1..n : q[i] = s => f[i - 1][s] = f[0][s] /\ f[n][s] = f[i][s]
  <2> HIDE DEF q, n
  <2>1. n \in Nat /\ Turns(n, f, q, Slots)
    BY <1>1, <1>8, <1>9 DEF Turns
  <2>2. Settled(n, f, q, Slots)
    BY ONLY <2>1, EachOnce
  <2> QED BY ONLY <2>2 DEF Settled
<1>12. \A i \in 1..n : acc[n].pool[es[i].slot] = Block(store.pool[es[i].slot], es[i])
  BY <1>1, <1>8, <1>10, <1>11
<1> QED BY <1>2, <1>10, <1>11, <1>12

-----------------------------------------------------------------------------
(* _make_stateful_req: what a row is extended by.                          *)
More(cells, row, e) ==
  [i \in 1..e.ext |-> IF Len(cells) + i - 1 \in 0..(MaxSeqLen - 1) THEN row[Len(cells) + i - 1]
                      ELSE ZeroToken]

LEMMA ExtendOneParts ==
  ASSUME NEW store \in Store, NEW e \in Order
  PROVE  LET next == MaterializeReq(store, e)
             s    == e.slot
         IN
         /\ next \in Store /\ next.pool = store.pool
         /\ next.kv = [store.kv EXCEPT ![s] = @ \o More(store.kv[s], store.pool[s], e)]
<1> DEFINE s     == e.slot
           cells == store.kv[s]
           row   == store.pool[s]
           m     == More(cells, row, e)
           kv    == [store.kv EXCEPT ![s] = cells \o m]
           p     == LocalPages(store, e)
           n     == store.freePages - p
           pages == [store.pages EXCEPT ![s] = @ + p]
           next  == MaterializeReq(store, e)
<1>1. /\ store.pool \in [Slots -> Pool] /\ store.kv \in [Slots -> Seq(Token)]
      /\ store.pages \in [Slots -> Int] /\ store.freePages \in Int
      /\ s \in Slots /\ row \in Pool /\ cells \in Seq(Token) /\ e.ext \in Nat
  BY DEF Store, Order
<1>2. p \in Int
  <2>1. Len(cells) \in Nat /\ Len(cells) + e.ext \in Nat
    BY <1>1
  <2>2. PagesFor(Len(cells)) \in Nat /\ PagesFor(Len(cells) + e.ext) \in Nat
    BY <2>1, PagesNat
  <2>3. p = PagesFor(Len(cells) + e.ext) - PagesFor(Len(cells))
    BY DEF LocalPages, LocalLen
  <2> QED BY <2>2, <2>3
<1>3. m \in Seq(Token)
  <2>1. DOMAIN row = 0..(MaxSeqLen - 1) /\ \A k \in 0..(MaxSeqLen - 1) : row[k] \in Token
    BY <1>1 DEF Pool
  <2>2. \A k : (IF k \in 0..(MaxSeqLen - 1) THEN row[k] ELSE ZeroToken) \in Token
    BY <2>1, TokenFacts
  <2> DEFINE g(i) == IF Len(cells) + i - 1 \in 0..(MaxSeqLen - 1) THEN row[Len(cells) + i - 1]
                     ELSE ZeroToken
  <2>3. \A i \in 1..e.ext : g(i) \in Token
    BY <2>2
  <2>4. m = [i \in 1..e.ext |-> g(i)]
    BY DEF More
  <2> HIDE DEF g, m
  <2> QED BY <1>1, <2>3, <2>4
<1>4. cells \o m \in Seq(Token)
  <2> HIDE DEF m, cells
  <2> QED BY <1>1, <1>3
<1>5. next = [store EXCEPT !.freePages = n, !.pages = pages, !.kv = kv]
  <2>1. DOMAIN row = 0..(MaxSeqLen - 1)
    BY <1>1 DEF Pool
  <2>2. m = [i \in 1..e.ext |-> IF Len(cells) + i - 1 \in DOMAIN row THEN row[Len(cells) + i - 1]
                                ELSE ZeroToken]
    BY <2>1 DEF More
  <2>3. next = [store EXCEPT
        !.freePages = @ - p, !.pages[s] = @ + p,
        !.kv[s] = @ \o [i \in 1..e.ext |-> IF Len(cells) + i - 1 \in DOMAIN row
                                           THEN row[Len(cells) + i - 1] ELSE ZeroToken]]
    BY DEF MaterializeReq, LocalLen
  <2>4. next = [store EXCEPT !.freePages = @ - p, !.pages[s] = @ + p, !.kv[s] = @ \o m]
    BY <2>2, <2>3
  <2> HIDE DEF next, m, p, row
  <2> QED BY <2>4, ZenonT(60) DEF Store
<1>6. /\ kv \in [Slots -> Seq(Token)] /\ pages \in [Slots -> Int] /\ n \in Int
  <2>1. kv \in [Slots -> Seq(Token)]
    <3> DEFINE c == cells \o m
    <3> HIDE DEF c
    <3>1. [store.kv EXCEPT ![s] = c] \in [Slots -> Seq(Token)]
      BY <1>1, <1>4 DEF c
    <3> QED BY <3>1 DEF c
  <2> HIDE DEF p
  <2> QED BY <1>1, <1>2, <2>1
<1> HIDE DEF kv, pages, n, next
<1>7. next \in Store /\ next.kv = kv /\ next.pool = store.pool
  BY <1>1, <1>5, <1>6 DEF Store
<1> QED BY <1>7 DEF next, kv

LEMMA ExtendParts ==
  ASSUME NEW store \in Store, NEW es \in Seq(Order), Distinct(es)
  PROVE  LET next == FoldLeft(MaterializeReq, store, es) IN
         /\ next \in Store /\ next.pool = store.pool
         /\ \A i \in 1..Len(es) :
              LET s == es[i].slot IN
              next.kv[s] = store.kv[s] \o More(store.kv[s], store.pool[s], es[i])
         /\ \A s \in Slots : (\A i \in 1..Len(es) : es[i].slot # s) => next.kv[s] = store.kv[s]
<1> DEFINE n == Len(es)
<1>1. n \in Nat /\ \A i \in 1..n : es[i] \in Order /\ es[i].slot \in Slots
  BY OrderOf
<1>2. PICK acc : /\ acc[0] = store
                 /\ \A i \in 1..n : acc[i] = MaterializeReq(acc[i - 1], es[i])
                 /\ FoldLeft(MaterializeReq, store, es) = acc[n]
  <2>1. FoldLeft(MaterializeReq, store, es) = Extending!Fold(store, es)
    BY DEF FoldLeft, MapThenFoldSet, Max, Extending!Fold, Extending!LastOf
  <2>2. \E acc : /\ acc[0] = store
                 /\ \A i \in 1..Len(es) : acc[i] = MaterializeReq(acc[i - 1], es[i])
                 /\ Extending!Fold(store, es) = acc[Len(es)]
    BY Extending!FoldSteps, Zenon
  <2> QED BY <2>1, <2>2, Zenon
<1> DEFINE Good == {i \in 0..n : acc[i] \in Store /\ acc[i].pool = store.pool}
<1>3. 0 \in Good
  BY <1>1, <1>2
<1>4. ASSUME NEW i \in 1..n, acc[i - 1] \in Store
      PROVE  LET a == acc[i - 1]
                 s == es[i].slot
             IN  /\ acc[i] \in Store /\ acc[i].pool = a.pool
                 /\ acc[i].kv = [a.kv EXCEPT ![s] = @ \o More(a.kv[s], a.pool[s], es[i])]
  <2> DEFINE a == acc[i - 1]
             e == es[i]
             b == acc[i]
  <2>1. a \in Store /\ e \in Order /\ b = MaterializeReq(a, e)
    BY <1>1, <1>2, <1>4
  <2> HIDE DEF a, e, b
  <2>2. /\ b \in Store /\ b.pool = a.pool
        /\ b.kv = [a.kv EXCEPT ![e.slot] = @ \o More(a.kv[e.slot], a.pool[e.slot], e)]
    BY <2>1, ExtendOneParts
  <2> QED BY <2>2 DEF a, e, b
<1>5. ASSUME NEW i \in 1..n, i - 1 \in Good PROVE i \in Good
  <2>1. acc[i - 1] \in Store /\ acc[i - 1].pool = store.pool
    BY <1>5
  <2>2. acc[i] \in Store /\ acc[i].pool = acc[i - 1].pool
    BY <1>4, <2>1
  <2>3. i \in 0..n
    BY <1>1
  <2> QED BY <2>1, <2>2, <2>3
<1>6. \A i \in 0..n : i \in Good
  <2> HIDE DEF Good
  <2> QED BY <1>1, <1>3, <1>5, Extending!UpTo
<1> DEFINE f == [i \in 0..n |-> acc[i].kv]
           q == [i \in 1..n |-> es[i].slot]
<1>7. \A k \in 1..n : k - 1 \in 0..n /\ k \in 0..n
  BY <1>1
<1>8. \A k \in 1..n : \A s \in Slots :
         /\ s # q[k] => f[k][s] = f[k - 1][s]
         /\ s = q[k] => f[k][s] = f[k - 1][s] \o More(f[k - 1][s], store.pool[s], es[k])
  <2> SUFFICES ASSUME NEW k \in 1..n, NEW s \in Slots
               PROVE  /\ s # q[k] => f[k][s] = f[k - 1][s]
                      /\ s = q[k] => f[k][s] = f[k - 1][s] \o More(f[k - 1][s], store.pool[s], es[k])
    OBVIOUS
  <2>1. acc[k - 1] \in Store /\ acc[k - 1].pool = store.pool
    BY <1>6, <1>7
  <2> DEFINE a == acc[k - 1].kv
             b == acc[k].kv
             t == es[k].slot
             m == a[t] \o More(a[t], store.pool[t], es[k])
  <2>2. b = [a EXCEPT ![t] = m] /\ a \in [Slots -> Seq(Token)]
    BY <1>4, <2>1, Zenon DEF Store
  <2>3. f[k] = b /\ f[k - 1] = a /\ q[k] = t /\ q[k] \in Slots
    BY <1>1, <1>7
  <2> HIDE DEF m, t
  <2>4. s # t => b[s] = a[s]
    BY <2>2
  <2>5. s = t => b[s] = m
    BY <2>2, <2>3
  <2> HIDE DEF a, b, f, q
  <2> QED BY <2>3, <2>4, <2>5, Zenon DEF m
<1>9. \A i, j \in 1..n : q[i] = q[j] => i = j
  BY DEF Distinct
<1>10. f[0] = store.kv /\ f[n] = acc[n].kv /\ n \in 0..n /\ acc[n] \in Store /\ acc[n].pool = store.pool
  BY <1>1, <1>2, <1>6
<1> HIDE DEF f, Good
<1>11. \A s \in Slots : /\ (\A i \in 1..n : q[i] # s) => f[n][s] = f[0][s]
                        /\ \A i \in 1..n : q[i] = s => f[i - 1][s] = f[0][s] /\ f[n][s] = f[i][s]
  <2> HIDE DEF q, n
  <2>1. n \in Nat /\ Turns(n, f, q, Slots)
    BY <1>1, <1>8, <1>9, Zenon DEF Turns
  <2>2. Settled(n, f, q, Slots)
    BY ONLY <2>1, EachOnce
  <2> QED BY ONLY <2>2 DEF Settled
<1>12. ASSUME NEW i \in 1..n
       PROVE  LET s == es[i].slot
              IN  acc[n].kv[s] = store.kv[s] \o More(store.kv[s], store.pool[s], es[i])
  <2> DEFINE s == es[i].slot
  <2>1. q[i] = s /\ s \in Slots
    BY <1>1
  <2> HIDE DEF q, s, n
  <2>2. f[n][s] = f[i][s] /\ f[i - 1][s] = f[0][s]
    BY <1>11, <2>1
  <2>3. f[i][s] = f[i - 1][s] \o More(f[i - 1][s], store.pool[s], es[i])
    BY <1>8, <2>1
  <2> QED BY <1>10, <2>2, <2>3, Zenon DEF s
<1> QED BY <1>2, <1>10, <1>11, <1>12

(* writeback_tokens_ag *)
Item == [entry : Order, token : Token]
Returned(row, item) ==
  IF item.entry.writeback THEN [row EXCEPT ![item.entry.start + item.entry.ext] = item.token] ELSE row
Fitting(item) == item.entry.writeback => item.entry.start + item.entry.ext < MaxSeqLen

LEMMA ReturnOneParts ==
  ASSUME NEW store \in Store, NEW item \in Item, Fitting(item)
  PROVE  LET next == WritebackOne(store, item) IN
         /\ next \in Store /\ next.kv = store.kv
         /\ next.pool = [store.pool EXCEPT ![item.entry.slot] = Returned(@, item)]
<1> DEFINE e    == item.entry
           s    == e.slot
           p    == e.start + e.ext
           row  == store.pool[s]
           b    == Returned(row, item)
           pool == [store.pool EXCEPT ![s] = b]
           next == WritebackOne(store, item)
<1>1. /\ store.pool \in [Slots -> Pool] /\ s \in Slots /\ row \in Pool
      /\ item.token \in Token /\ p \in Nat /\ e.writeback \in BOOLEAN
  BY DEF Store, Order, Item
<1>2. CASE ~e.writeback
  BY <1>1, <1>2 DEF WritebackOne, Returned
<1>3. CASE e.writeback
  <2>1. b = [row EXCEPT ![p] = item.token]
    BY <1>3 DEF Returned
  <2>2. b \in Pool
    BY <1>1, <2>1 DEF Pool
  <2>3. next = [store EXCEPT !.pool[s][p] = item.token]
    BY <1>3 DEF WritebackOne
  <2>4. next = [store EXCEPT !.pool = [store.pool EXCEPT ![s] = [row EXCEPT ![p] = item.token]]]
    <3> HIDE DEF p, s, next
    <3> QED BY <2>3, ZenonT(60) DEF Store
  <2>5. next = [store EXCEPT !.pool = pool]
    BY <2>1, <2>4
  <2> HIDE DEF b, next
  <2>6. pool \in [Slots -> Pool]
    BY <1>1, <2>2
  <2> HIDE DEF pool
  <2>7. next \in Store /\ next.kv = store.kv /\ next.pool = pool
    BY <2>5, <2>6 DEF Store
  <2> QED BY <2>7 DEF next, pool, b
<1> QED BY <1>1, <1>2, <1>3

LEMMA ReturnParts ==
  ASSUME NEW store \in Store, NEW items \in Seq(Item),
         \A i \in 1..Len(items) : Fitting(items[i]),
         \A i, j \in 1..Len(items) : items[i].entry.slot = items[j].entry.slot => i = j
  PROVE  LET next == FoldLeft(WritebackOne, store, items) IN
         /\ next \in Store /\ next.kv = store.kv
         /\ \A i \in 1..Len(items) :
              LET s == items[i].entry.slot IN next.pool[s] = Returned(store.pool[s], items[i])
         /\ \A s \in Slots : (\A i \in 1..Len(items) : items[i].entry.slot # s) =>
              next.pool[s] = store.pool[s]
<1> DEFINE n == Len(items)
<1>1. n \in Nat /\ \A i \in 1..n : items[i] \in Item /\ items[i].entry.slot \in Slots
  <2>1. n \in Nat /\ \A i \in 1..n : items[i] \in Item
    OBVIOUS
  <2>2. \A item \in Item : item.entry.slot \in Slots
    BY DEF Item, Order
  <2> QED BY <2>1, <2>2
<1>2. PICK acc : /\ acc[0] = store
                 /\ \A i \in 1..n : acc[i] = WritebackOne(acc[i - 1], items[i])
                 /\ FoldLeft(WritebackOne, store, items) = acc[n]
  <2>1. FoldLeft(WritebackOne, store, items) = Returning!Fold(store, items)
    BY DEF FoldLeft, MapThenFoldSet, Max, Returning!Fold, Returning!LastOf
  <2>2. \E acc : /\ acc[0] = store
                 /\ \A i \in 1..Len(items) : acc[i] = WritebackOne(acc[i - 1], items[i])
                 /\ Returning!Fold(store, items) = acc[Len(items)]
    BY Returning!FoldSteps, Zenon
  <2> QED BY <2>1, <2>2, Zenon
<1> DEFINE Good == {i \in 0..n : acc[i] \in Store /\ acc[i].kv = store.kv}
<1>3. 0 \in Good
  BY <1>1, <1>2
<1>4. ASSUME NEW i \in 1..n, acc[i - 1] \in Store
      PROVE  /\ acc[i] \in Store /\ acc[i].kv = acc[i - 1].kv
             /\ acc[i].pool = [acc[i - 1].pool EXCEPT ![items[i].entry.slot] = Returned(@, items[i])]
  <2> DEFINE a == acc[i - 1]
             e == items[i]
  <2>1. a \in Store /\ e \in Item /\ acc[i] = WritebackOne(a, e) /\ Fitting(e)
    BY <1>1, <1>2, <1>4
  <2> HIDE DEF a, e
  <2>2. /\ WritebackOne(a, e) \in Store /\ WritebackOne(a, e).kv = a.kv
        /\ WritebackOne(a, e).pool = [a.pool EXCEPT ![e.entry.slot] = Returned(@, e)]
    BY <2>1, ReturnOneParts
  <2> QED BY <2>1, <2>2 DEF a, e
<1>5. ASSUME NEW i \in 1..n, i - 1 \in Good PROVE i \in Good
  <2>1. acc[i - 1] \in Store /\ acc[i - 1].kv = store.kv
    BY <1>5
  <2>2. acc[i] \in Store /\ acc[i].kv = acc[i - 1].kv
    BY <1>4, <2>1
  <2>3. i \in 0..n
    BY <1>1
  <2> QED BY <2>1, <2>2, <2>3
<1>6. \A i \in 0..n : i \in Good
  <2> HIDE DEF Good
  <2> QED BY <1>1, <1>3, <1>5, Returning!UpTo
<1> DEFINE f == [i \in 0..n |-> acc[i].pool]
           q == [i \in 1..n |-> items[i].entry.slot]
<1>7. \A k \in 1..n : k - 1 \in 0..n /\ k \in 0..n
  BY <1>1
<1>8. \A k \in 1..n : \A s \in Slots : /\ s # q[k] => f[k][s] = f[k - 1][s]
                                       /\ s = q[k] => f[k][s] = Returned(f[k - 1][s], items[k])
  <2> SUFFICES ASSUME NEW k \in 1..n, NEW s \in Slots
               PROVE  /\ s # q[k] => f[k][s] = f[k - 1][s]
                      /\ s = q[k] => f[k][s] = Returned(f[k - 1][s], items[k])
    OBVIOUS
  <2>1. acc[k - 1] \in Store
    BY <1>6, <1>7
  <2> DEFINE a == acc[k - 1].pool
             b == acc[k].pool
             t == items[k].entry.slot
             m == Returned(a[t], items[k])
  <2>2. b = [a EXCEPT ![t] = m] /\ a \in [Slots -> Pool]
    BY <1>4, <2>1 DEF Store
  <2>3. f[k] = b /\ f[k - 1] = a /\ q[k] = t /\ q[k] \in Slots
    BY <1>1, <1>7
  <2> HIDE DEF m, t
  <2>4. s # t => b[s] = a[s]
    BY <2>2
  <2>5. s = t => b[s] = m
    BY <2>2, <2>3
  <2> HIDE DEF a, b, f, q
  <2> QED BY <2>3, <2>4, <2>5 DEF m
<1>9. \A i, j \in 1..n : q[i] = q[j] => i = j
  OBVIOUS
<1>10. f[0] = store.pool /\ f[n] = acc[n].pool /\ n \in 0..n /\ acc[n] \in Store /\ acc[n].kv = store.kv
  BY <1>1, <1>2, <1>6
<1> HIDE DEF f, Good
<1>11. \A s \in Slots : /\ (\A i \in 1..n : q[i] # s) => f[n][s] = f[0][s]
                        /\ \A i \in 1..n : q[i] = s => f[i - 1][s] = f[0][s] /\ f[n][s] = f[i][s]
  <2> HIDE DEF q, n
  <2>1. n \in Nat /\ Turns(n, f, q, Slots)
    BY <1>1, <1>8, <1>9 DEF Turns
  <2>2. Settled(n, f, q, Slots)
    BY ONLY <2>1, EachOnce
  <2> QED BY ONLY <2>2 DEF Settled
<1>12. ASSUME NEW i \in 1..n
       PROVE  LET s == items[i].entry.slot
              IN  acc[n].pool[s] = Returned(store.pool[s], items[i])
  <2> DEFINE s == items[i].entry.slot
  <2>1. q[i] = s /\ s \in Slots
    BY <1>1
  <2> HIDE DEF q, s, n
  <2>2. f[n][s] = f[i][s] /\ f[i - 1][s] = f[0][s]
    BY <1>11, <2>1
  <2>3. f[i][s] = Returned(f[i - 1][s], items[i])
    BY <1>8, <2>1
  <2> QED BY <1>10, <2>2, <2>3 DEF s
<1> QED BY <1>2, <1>10, <1>11, <1>12

-----------------------------------------------------------------------------
(* What a row is: how many tokens of which request, and whether its next   *)
(* token id is in the pool.                                                *)
View == [Slots -> [len : Nat, of : Reqs \cup {NoReq}, next : BOOLEAN]]
IsRow(cells, row, x) ==
  /\ Len(cells) = x.len
  /\ \A j \in 1..x.len : cells[j].of = x.of /\ cells[j].at = j - 1
  /\ x.next => x.len < MaxSeqLen /\ row[x.len].of = x.of /\ row[x.len].at = x.len
Means(store, v) == \A s \in Slots : IsRow(store.kv[s], store.pool[s], v[s])

Clean == [len |-> 0, of |-> NoReq, next |-> FALSE]
Cleared(v, free) == [s \in Slots |-> IF s \in Range(free) THEN Clean ELSE v[s]]

(* An entry continues the row it is to extend.                             *)
Continues(x, e, phase) ==
  /\ x.len = e.start /\ (e.start > 0 => x.of = e.req)
  /\ e.ext >= 1 /\ e.start + e.ext <= MaxSeqLen
  /\ phase = "prefill" \/ (e.ext = 1 /\ x.next /\ x.of = e.req)
  /\ e.writeback => e.start + e.ext < MaxSeqLen
Fits(u, es, phase) ==
  /\ Distinct(es)
  /\ \A i \in 1..Len(es) : Continues(u[es[i].slot], es[i], phase)
After(e) == [len |-> e.start + e.ext, of |-> e.req, next |-> e.writeback]
Moves(u, es, w) ==
  /\ \A i \in 1..Len(es) : w[es[i].slot] = After(es[i])
  /\ \A s \in Slots : (\A i \in 1..Len(es) : es[i].slot # s) => w[s] = u[s]

LEMMA ClearedParts ==
  ASSUME NEW v \in View, NEW free
  PROVE  Cleared(v, free) \in View
BY DEF Cleared, Clean, View

LEMMA ClearedMeans ==
  ASSUME NEW store \in Store, NEW v \in View, NEW free \in Seq(Slots), Means(store, v)
  PROVE  Means(FreeTables(store, free), Cleared(v, free))
<1> DEFINE next == FreeTables(store, free)
<1>1. /\ next \in Store /\ next.pool = store.pool
      /\ \A s \in Slots : next.kv[s] = IF s \in Range(free) THEN <<>> ELSE store.kv[s]
  BY FreeTablesParts
<1> HIDE DEF next
<1>2. ASSUME NEW s \in Slots PROVE IsRow(next.kv[s], next.pool[s], Cleared(v, free)[s])
  <2>1. IsRow(store.kv[s], store.pool[s], v[s])
    BY DEF Means
  <2>2. CASE s \in Range(free)
    BY <1>1, <2>2 DEF Cleared, IsRow, Clean
  <2>3. CASE s \notin Range(free)
    BY <1>1, <2>1, <2>3 DEF Cleared
  <2> QED BY <2>2, <2>3
<1>3. Means(next, Cleared(v, free))
  BY <1>2 DEF Means
<1> QED BY <1>3 DEF next

(* A row extended by an entry that continues it is the request's text.     *)
IsUpTo(cells, e) ==
  /\ Len(cells) = e.start + e.ext
  /\ \A j \in 1..(e.start + e.ext) : cells[j].of = e.req /\ cells[j].at = j - 1
LEMMA RowExtends ==
  ASSUME NEW cells \in Seq(Token), NEW row \in Pool, NEW x, IsRow(cells, row, x), NEW e \in Order,
         NEW phase, Continues(x, e, phase), NEW now,
         now = IF phase = "prefill" THEN Block(row, e) ELSE row
  PROVE  IsUpTo(cells \o More(cells, now, e), e)
<1> DEFINE more == More(cells, now, e)
           next == cells \o more
           n    == e.start
           k    == e.ext
<1>1. /\ n \in Nat /\ k \in Nat /\ e.req \in Reqs /\ MaxSeqLen \in Nat
      /\ Len(cells) = n /\ x.len = n /\ k >= 1 /\ n + k <= MaxSeqLen
      /\ \A j \in 1..n : cells[j].of = x.of /\ cells[j].at = j - 1
      /\ n > 0 => x.of = e.req
  BY TokenFacts DEF Order, IsRow, Continues
<1>2. ASSUME NEW j \in 1..k
      PROVE  /\ more[j] = now[n + j - 1] /\ now[n + j - 1] \in Token
             /\ now[n + j - 1].of = e.req /\ now[n + j - 1].at = n + j - 1
  <2> DEFINE p == n + j - 1
  <2>1. p \in 0..(MaxSeqLen - 1) /\ p \in n..(n + k - 1) /\ p \in 0..MaxSeqLen
    BY <1>1
  <2>2. more[j] = now[p]
    BY <1>1, <2>1 DEF More
  <2> HIDE DEF more, p
  <2>3. CASE phase = "prefill"
    BY <1>1, <2>1, <2>2, <2>3, TokenFacts DEF Block, p
  <2>4. CASE phase # "prefill"
    <3>1. now = row /\ k = 1 /\ x.next /\ x.of = e.req
      BY <2>4 DEF Continues
    <3>2. row[n].of = e.req /\ row[n].at = n
      BY <1>1, <3>1 DEF IsRow
    <3>3. p = n
      BY <1>1, <3>1 DEF p
    <3>4. row[p] \in Token
      BY <2>1 DEF Pool
    <3> QED BY <2>2, <3>1, <3>2, <3>3, <3>4 DEF p
  <2> QED BY <2>3, <2>4
<1>3. more \in Seq(Token) /\ Len(more) = k
  <2>1. more = [j \in 1..k |-> more[j]]
    BY DEF More
  <2>2. \A j \in 1..k : more[j] \in Token
    BY <1>2
  <2>3. k \in Nat
    BY <1>1
  <2> HIDE DEF more, k
  <2> QED BY ONLY <2>1, <2>2, <2>3
<1> HIDE DEF more
<1>4. Len(next) = n + k /\ \A j \in 1..(n + k) : next[j] = IF j <= n THEN cells[j] ELSE more[j - n]
  <2>1. cells \in Seq(Token) /\ Len(cells) = n /\ n \in Nat /\ k \in Nat
    BY <1>1
  <2> HIDE DEF n, k
  <2> QED BY ONLY <1>3, <2>1
<1>5. ASSUME NEW j \in 1..(n + k) PROVE next[j].of = e.req /\ next[j].at = j - 1
  <2> HIDE DEF next
  <2>1. CASE j <= n
    BY <1>1, <1>4, <2>1
  <2>2. CASE ~(j <= n)
    <3> DEFINE i == j - n
    <3>1. i \in 1..k /\ n + i - 1 = j - 1
      BY <1>1, <2>2
    <3> HIDE DEF i
    <3>2. more[i].of = e.req /\ more[i].at = n + i - 1
      BY <1>2, <3>1
    <3>3. next[j] = more[i]
      BY <1>4, <2>2 DEF i
    <3> QED BY <3>1, <3>2, <3>3
  <2> QED BY <2>1, <2>2
<1> QED BY <1>4, <1>5 DEF more, IsUpTo

LEMMA SampleParts ==
  ASSUME NEW r \in Reqs, NEW n \in Nat, n >= 1, n <= MaxSeqLen, NEW cells, Len(cells) = n,
         DOMAIN cells = 1..n,
         \A j \in 1..n : cells[j].of = r /\ cells[j].at = j - 1, NEW eos \in BOOLEAN
  PROVE  Sample(cells, eos) \in Token /\ Sample(cells, eos).of = r /\ Sample(cells, eos).at = n
<1>1. IsTextOf(cells, r)
  BY DEF IsTextOf
<1>2. ASSUME NEW q \in Reqs, IsTextOf(cells, q) PROVE q = r
  BY <1>2 DEF IsTextOf
<1>3. (CHOOSE q \in Reqs : IsTextOf(cells, q)) = r
  BY <1>1, <1>2
<1>4. Min({n, MaxSeqLen}) = n
  BY TokenFacts DEF Min
<1>5. Sample(cells, eos) = [of |-> r, at |-> n, eos |-> eos]
  BY <1>1, <1>3, <1>4 DEF Sample
<1>6. n \in 0..MaxSeqLen
  BY TokenFacts
<1> QED BY <1>5, <1>6 DEF Token

(* _run_afd_ag_step                                                        *)
RanStep(store, plan, w, eos) ==
  LET mat    == Materialized(store, plan)
      tokens == Sampled(mat, plan, eos)
      next   == Writeback(mat, plan, tokens)
  IN  /\ next \in Store /\ Means(next, w)
      /\ tokens \in Seq(Token) /\ Len(tokens) = Len(plan.entries)
      /\ \A i \in 1..Len(plan.entries) :
           /\ tokens[i].of = plan.entries[i].req
           /\ tokens[i].at = plan.entries[i].start + plan.entries[i].ext
LEMMA RunParts ==
  ASSUME NEW store \in Store, NEW v \in View, Means(store, v), NEW plan,
         plan.free \in Seq(Slots), plan.entries \in Seq(Order),
         Fits(Cleared(v, plan.free), plan.entries, plan.phase),
         NEW w, Moves(Cleared(v, plan.free), plan.entries, w), NEW eos
  PROVE  RanStep(store, plan, w, eos)
<1> DEFINE es     == plan.entries
           n      == Len(es)
           u      == Cleared(v, plan.free)
           f      == FreeTables(store, plan.free)
           g      == WriteTokenBlocks(f, plan)
           mat    == FoldLeft(MaterializeReq, g, es)
           tokens == Sampled(mat, plan, eos)
           items  == [i \in DOMAIN es |-> [entry |-> es[i], token |-> tokens[i]]]
           next   == FoldLeft(WritebackOne, mat, items)
           fresh(i) == IF plan.phase = "prefill" THEN Block(f.pool[es[i].slot], es[i])
                       ELSE f.pool[es[i].slot]
<1>1. /\ n \in Nat /\ DOMAIN es = 1..n /\ \A i \in 1..n : es[i] \in Order /\ es[i].slot \in Slots
      /\ Distinct(es) /\ \A i \in 1..n : Continues(u[es[i].slot], es[i], plan.phase)
  BY OrderOf DEF Fits
<1>2. f \in Store /\ Means(f, u)
  BY FreeTablesParts, ClearedMeans
<1> HIDE DEF f, u, n
<1>3. /\ g \in Store /\ g.kv = f.kv
      /\ \A i \in 1..n : g.pool[es[i].slot] = fresh(i)
      /\ \A s \in Slots : (\A i \in 1..n : es[i].slot # s) => g.pool[s] = f.pool[s]
  <2>1. CASE plan.phase = "prefill"
    <3>1. g = FoldLeft(WriteBlock, f, es)
      BY <2>1 DEF WriteTokenBlocks
    <3> DEFINE h == FoldLeft(WriteBlock, f, es)
    <3>2. /\ h \in Store /\ h.kv = f.kv
          /\ \A i \in 1..n : h.pool[es[i].slot] = Block(f.pool[es[i].slot], es[i])
          /\ \A s \in Slots : (\A i \in 1..n : es[i].slot # s) => h.pool[s] = f.pool[s]
      BY <1>1, <1>2, WriteParts DEF n
    <3> HIDE DEF h, g
    <3> QED BY <2>1, <3>1, <3>2 DEF h
  <2>2. CASE plan.phase # "prefill"
    <3>1. g = f
      BY <2>2 DEF WriteTokenBlocks
    <3> HIDE DEF g
    <3> QED BY <1>2, <2>2, <3>1
  <2> QED BY <2>1, <2>2
<1> HIDE DEF g
<1>4. /\ mat \in Store /\ mat.pool = g.pool
      /\ \A i \in 1..n :
           LET s == es[i].slot IN mat.kv[s] = g.kv[s] \o More(g.kv[s], g.pool[s], es[i])
      /\ \A s \in Slots : (\A i \in 1..n : es[i].slot # s) => mat.kv[s] = g.kv[s]
  BY <1>1, <1>3, ExtendParts, Zenon DEF n
<1> HIDE DEF mat
<1>5. ASSUME NEW i \in 1..n
      PROVE  LET e == es[i] IN
             /\ Len(mat.kv[e.slot]) = e.start + e.ext
             /\ \A j \in 1..(e.start + e.ext) :
                  mat.kv[e.slot][j].of = e.req /\ mat.kv[e.slot][j].at = j - 1
  <2> DEFINE e     == es[i]
             s     == e.slot
             cells == f.kv[s]
             row   == f.pool[s]
             now   == fresh(i)
             x     == u[s]
  <2>1. /\ e \in Order /\ s \in Slots /\ Continues(x, e, plan.phase)
        /\ cells \in Seq(Token) /\ row \in Pool /\ IsRow(cells, row, x)
    BY <1>1, <1>2 DEF Store, Means
  <2>2. now = IF plan.phase = "prefill" THEN Block(row, e) ELSE row
    OBVIOUS
  <2>3. mat.kv[s] = cells \o More(cells, now, e)
    <3>1. mat.kv[s] = g.kv[s] \o More(g.kv[s], g.pool[s], es[i])
      BY <1>4, Zenon
    <3>2. g.kv[s] = cells /\ g.pool[s] = now
      BY <1>3
    <3> HIDE DEF now, s, cells
    <3> QED BY <3>1, <3>2
  <2> HIDE DEF e, s, cells, row, now, x
  <2>4. IsUpTo(cells \o More(cells, now, e), e)
    BY ONLY <2>1, <2>2, RowExtends
  <2>5. IsUpTo(mat.kv[s], e)
    BY <2>3, <2>4
  <2> QED BY <2>5 DEF e, s, IsUpTo
<1>6. ASSUME NEW i \in 1..n
      PROVE  /\ tokens[i] \in Token /\ tokens[i].of = es[i].req
             /\ tokens[i].at = es[i].start + es[i].ext
  <2> DEFINE e     == es[i]
             cells == mat.kv[e.slot]
             k     == e.start + e.ext
             b     == i \in eos
  <2>1. /\ e \in Order /\ e.req \in Reqs /\ k \in Nat /\ k >= 1 /\ k <= MaxSeqLen
        /\ cells \in Seq(Token)
    <3>1. e \in Order /\ e.slot \in Slots /\ Continues(u[e.slot], e, plan.phase)
      BY <1>1
    <3>2. cells \in Seq(Token)
      BY <1>4, <3>1, Zenon DEF Store
    <3>3. e.ext >= 1 /\ k <= MaxSeqLen
      BY <3>1 DEF Continues
    <3>4. e.req \in Reqs /\ e.start \in Nat /\ e.ext \in Nat
      BY <3>1 DEF Order
    <3> HIDE DEF e, cells
    <3> QED BY <3>1, <3>2, <3>3, <3>4
  <2>2. /\ Len(cells) = k /\ \A j \in 1..k : cells[j].of = e.req /\ cells[j].at = j - 1
    BY <1>5
  <2>3. tokens[i] = Sample(cells, b)
    BY <1>1 DEF Sampled
  <2>4. b \in BOOLEAN
    OBVIOUS
  <2> HIDE DEF e, cells, k, b, tokens
  <2>5. DOMAIN cells = 1..k
    BY <2>1, <2>2
  <2>6. /\ Sample(cells, b) \in Token /\ Sample(cells, b).of = e.req
        /\ Sample(cells, b).at = k
    BY <2>1, <2>2, <2>4, <2>5, SampleParts
  <2> QED BY <2>3, <2>6 DEF e, k
<1>7. tokens \in Seq(Token) /\ Len(tokens) = n
  <2>1. tokens = [i \in 1..n |-> tokens[i]]
    BY <1>1 DEF Sampled
  <2>2. \A i \in 1..n : tokens[i] \in Token
    BY <1>6
  <2>3. n \in Nat
    BY <1>1
  <2> HIDE DEF tokens
  <2> QED BY ONLY <2>1, <2>2, <2>3
<1> HIDE DEF tokens
<1>8. items \in Seq(Item) /\ Len(items) = n
  <2>1. items = [i \in 1..n |-> items[i]] /\ n \in Nat
    BY <1>1
  <2>2. \A i \in 1..n : items[i] \in Item
    <3> SUFFICES ASSUME NEW i \in 1..n PROVE items[i] \in Item
      OBVIOUS
    <3>1. es[i] \in Order /\ tokens[i] \in Token /\ items[i] = [entry |-> es[i], token |-> tokens[i]]
      BY <1>1, <1>6
    <3> QED BY <3>1 DEF Item
  <2> HIDE DEF items
  <2> QED BY ONLY <2>1, <2>2
<1>9. \A i \in 1..n : items[i].entry = es[i] /\ items[i].token = tokens[i]
  BY <1>1
<1> HIDE DEF items
<1>10. \A i \in 1..n : Fitting(items[i])
  <2> SUFFICES ASSUME NEW i \in 1..n, es[i].writeback PROVE es[i].start + es[i].ext < MaxSeqLen
    BY <1>9 DEF Fitting
  <2>1. Continues(u[es[i].slot], es[i], plan.phase)
    BY <1>1
  <2> QED BY <2>1 DEF Continues
<1>11. \A i, j \in 1..n : items[i].entry.slot = items[j].entry.slot => i = j
  BY <1>1, <1>9 DEF Distinct, n
<1>12. /\ next \in Store /\ next.kv = mat.kv
       /\ \A i \in 1..n : next.pool[es[i].slot] = Returned(mat.pool[es[i].slot], items[i])
       /\ \A s \in Slots : (\A i \in 1..n : es[i].slot # s) => next.pool[s] = mat.pool[s]
  <2>1. /\ next \in Store /\ next.kv = mat.kv
        /\ \A i \in 1..Len(items) :
              LET s == items[i].entry.slot IN next.pool[s] = Returned(mat.pool[s], items[i])
        /\ \A s \in Slots : (\A i \in 1..Len(items) : items[i].entry.slot # s) =>
              next.pool[s] = mat.pool[s]
    BY <1>4, <1>8, <1>10, <1>11, ReturnParts
  <2> HIDE DEF next
  <2> QED BY <1>8, <1>9, <2>1
<1> HIDE DEF next
<1>13. ASSUME NEW s \in Slots PROVE IsRow(next.kv[s], next.pool[s], w[s])
  <2>1. CASE \A i \in 1..n : es[i].slot # s
    BY <1>2, <1>3, <1>4, <1>12, <2>1 DEF Moves, u, n, Means
  <2>2. CASE \E i \in 1..n : es[i].slot = s
    <3>1. PICK i \in 1..n : es[i].slot = s
      BY <2>2
    <3> DEFINE e == es[i]
               k == e.start + e.ext
               x == w[s]
               row == mat.pool[s]
               t == tokens[i]
    <3>2. x = After(e)
      BY <3>1 DEF Moves, n
    <3>3. x.len = k /\ x.of = e.req /\ x.next = e.writeback
      BY <3>2 DEF After
    <3>4. /\ Len(next.kv[s]) = k
          /\ \A j \in 1..k : next.kv[s][j].of = e.req /\ next.kv[s][j].at = j - 1
      BY <1>5, <1>12, <3>1
    <3>5. ASSUME e.writeback
          PROVE  k < MaxSeqLen /\ next.pool[s][k].of = e.req /\ next.pool[s][k].at = k
      <4>1. Fitting(items[i]) /\ items[i].entry = e /\ items[i].token = t
        BY <1>9, <1>10
      <4>2. k < MaxSeqLen
        BY <3>5, <4>1 DEF Fitting
      <4>3. next.pool[s] = [row EXCEPT ![k] = t]
        BY <1>12, <3>1, <3>5, <4>1 DEF Returned
      <4>4. k \in 0..(MaxSeqLen - 1) /\ row \in Pool
        <5>1. k \in Nat
          BY <1>1 DEF Order
        <5>2. row \in Pool
          BY <1>4 DEF Store
        <5> QED BY <4>2, <5>1, <5>2, TokenFacts
      <4>5. t.of = e.req /\ t.at = k
        BY <1>6
      <4> HIDE DEF e, k, row, t
      <4>6. [row EXCEPT ![k] = t][k] = t
        BY <4>4 DEF Pool
      <4> QED BY <4>2, <4>3, <4>5, <4>6
    <3> HIDE DEF e, k, x, row, t
    <3> QED BY <3>3, <3>4, <3>5 DEF IsRow, x
  <2> QED BY <2>1, <2>2
<1>14. Means(next, w)
  BY <1>13 DEF Means
<1>15. Materialized(store, plan) = mat
  BY DEF Materialized, mat, g, f
<1>16. Writeback(mat, plan, tokens) = next
  BY DEF Writeback, next, items
<1> QED BY <1>6, <1>7, <1>12, <1>14, <1>15, <1>16 DEF tokens, n, RanStep

-----------------------------------------------------------------------------
(* The rows of a worker are those of the lane, once the commands under way *)
(* have been run: a free row is empty, a held one is its request's text up *)
(* to cached_len, and a running request's next token is in the pool.       *)
Agree(lane, u) ==
  /\ \A s \in Range(lane.slots) : u[s].len = 0
  /\ \A r \in Reqs : lane.req[r].slot # NoSlot =>
       LET x == u[lane.req[r].slot] IN
       /\ x.len = lane.req[r].cached /\ (x.len > 0 => x.of = r)
       /\ r \in lane.running => x.next /\ x.of = r

Orders(b) == [i \in DOMAIN b.entries |-> Writes(b.lane, b.entries[i])]

LEMMA LaunchLane ==
  ASSUME NEW lane, LaneOK(lane), LaneMore(lane), NEW phase, NEW b, b = Schedule(lane, phase)
  PROVE  LaneMore(Launched(AllocatePaged(b.lane, b.entries), b.entries))
<1> DEFINE es   == b.entries
           n    == Len(es)
           next == Launched(AllocatePaged(b.lane, es), es)
<1>1. BatchOK(lane, b) /\ Goes(lane, b, phase)
  BY ScheduleParts, ScheduleMore
<1>2. RunMore(b, n, next)
  BY <1>1, LaunchMore
<1>3. /\ LaneOK(next) /\ next.pending = b.lane.pending
      /\ \A r \in Reqs : next.req[r].done = b.lane.req[r].done
  BY <1>1, LaunchParts
<1> HIDE DEF next
<1>4. /\ b.lane.running = lane.running /\ Range(b.lane.pending) \subseteq Range(lane.pending)
      /\ \A r \in Reqs : SameRow(lane, b.lane, r)
      /\ \A i \in 1..n : es[i] \in Unit
      /\ \A i \in 1..n : ~es[i].chunked => es[i].req \notin Range(b.lane.pending)
  BY <1>1 DEF BatchOK
<1>5. /\ \A r \in Reqs : b.lane.req[r] = lane.req[r] \/ \E i \in 1..n : es[i].req = r
      /\ \A i \in 1..n : es[i].chunked => es[i].start + es[i].ext < InputLen[es[i].req]
  BY <1>1 DEF Goes
<1>6. /\ \A r \in Reqs : \/ /\ next.req[r] = b.lane.req[r]
                            /\ r \in next.running <=> r \in b.lane.running
                         \/ \E i \in 1..n : es[i].req = r
      /\ \A i \in 1..n : Advanced(es[i], next)
      /\ next \in Lane
  BY <1>2 DEF RunMore
<1> HIDE DEF es, n
<1>7. ASSUME NEW r \in Reqs
      PROVE  \/ /\ next.req[r] = lane.req[r]
                /\ r \in next.running <=> r \in lane.running
             \/ \E i \in 1..n : es[i].req = r
  BY <1>4, <1>5, <1>6
<1>8. ASSUME NEW r \in Range(next.pending)
      PROVE  next.req[r].cached < InputLen[r] /\ next.req[r].done = 0
  <2>1. r \in Range(lane.pending) /\ r \in Reqs /\ r \in Range(b.lane.pending)
    <3>1. r \in Range(b.lane.pending) /\ r \in Range(lane.pending)
      BY <1>3, <1>4
    <3>2. lane.pending \in Seq(Reqs)
      BY DEF LaneOK, Lane
    <3> QED BY <3>1, <3>2 DEF Range
  <2>2. lane.req[r].cached < InputLen[r] /\ lane.req[r].done = 0
    BY <2>1 DEF LaneMore
  <2>3. next.req[r].done = 0
    BY <1>3, <1>4, <2>1, <2>2 DEF SameRow
  <2>4. CASE next.req[r] = lane.req[r]
    BY <2>2, <2>4
  <2>5. CASE \E i \in 1..n : es[i].req = r
    <3>1. PICK i \in 1..n : es[i].req = r
      BY <2>5
    <3>2. es[i].chunked
      BY <1>4, <2>1, <3>1
    <3>3. next.req[r].cached = es[i].start + es[i].ext
      BY <1>6, <3>1 DEF Advanced
    <3> QED BY <1>5, <2>3, <3>1, <3>2, <3>3
  <2> QED BY <1>7, <2>1, <2>4, <2>5
<1>9. ASSUME NEW r \in next.running
      PROVE  next.req[r].device = next.req[r].cached + 1 /\ next.req[r].device < MaxDevLen(r)
  <2>1. r \in Reqs
    BY <1>6 DEF Lane
  <2>2. CASE next.req[r] = lane.req[r] /\ (r \in next.running <=> r \in lane.running)
    BY <2>2 DEF LaneMore
  <2>3. CASE \E i \in 1..n : es[i].req = r
    <3>1. PICK i \in 1..n : es[i].req = r
      BY <2>3
    <3> DEFINE e == es[i]
               k == e.start + e.ext
    <3>2. /\ next.req[r].cached = k /\ next.req[r].device = k + 1
          /\ k + 1 < MaxDevLen(r)
      BY <1>6, <3>1 DEF Advanced
    <3> QED BY <3>2
  <2> QED BY <1>7, <2>1, <2>2, <2>3
<1>10. LaneMore(next)
  BY <1>8, <1>9 DEF LaneMore
<1> QED BY <1>10 DEF next, es

LEMMA OrdersParts ==
  ASSUME NEW lane, LaneOK(lane), LaneMore(lane), NEW phase, NEW b, b = Schedule(lane, phase),
         NEW u \in View, Agree(lane, u)
  PROVE  /\ Orders(b) \in Seq(Order) /\ Len(Orders(b)) = Len(b.entries) /\ Len(b.entries) \in Nat
         /\ Fits(u, Orders(b), phase)
         /\ \A i \in 1..Len(b.entries) :
              LET e == b.entries[i]
                  o == Orders(b)[i]
              IN  /\ o.req = e.req /\ o.slot = e.slot /\ o.start = e.start /\ o.ext = e.ext
                  /\ o.writeback <=> ~e.chunked /\ e.start + e.ext < MaxDevLen(e.req)
<1> DEFINE es == b.entries
           n  == Len(es)
           os == Orders(b)
<1>1. BatchOK(lane, b) /\ Goes(lane, b, phase)
  BY ScheduleParts, ScheduleMore
<1>2. /\ es \in Seq(Unit) /\ n \in Nat /\ DOMAIN es = 1..n /\ \A i \in 1..n : es[i] \in Unit
  <2>1. es \in Seq(Unit)
    BY <1>1 DEF BatchOK
  <2> HIDE DEF es
  <2> QED BY <2>1
<1>3. /\ \A r \in Reqs : SameRow(lane, b.lane, r)
      /\ \A i \in 1..n : es[i].slot = b.lane.req[es[i].req].slot
                         /\ es[i].start = b.lane.req[es[i].req].cached
      /\ \A i, j \in 1..n : es[i].req = es[j].req => i = j
      /\ \A r \in Reqs : Present(b.lane, r) => Present(lane, r)
      /\ Rows(b.lane.slots, RowOf(b.lane)) /\ b.lane \in Lane
  BY <1>1 DEF BatchOK, LaneOK
<1>4. /\ \A r \in Reqs : b.lane.req[r].slot = lane.req[r].slot
                         \/ b.lane.req[r].slot \in Range(lane.slots)
      /\ \A i \in 1..n :
           LET e == es[i] IN
           /\ e.ext >= 1 /\ e.start + e.ext <= MaxDevLen(e.req)
           /\ b.lane.req[e.req].device = e.start + e.ext
           /\ phase # "prefill" => ~e.chunked /\ e.ext = 1 /\ e.req \in lane.running
  BY <1>1 DEF Goes
<1> HIDE DEF es, n
<1>5. ASSUME NEW i \in 1..n
      PROVE  LET e == es[i]
                 o == os[i]
             IN  /\ o \in Order
                 /\ o.req = e.req /\ o.slot = e.slot /\ o.start = e.start /\ o.ext = e.ext
                 /\ o.writeback <=> ~e.chunked /\ e.start + e.ext < MaxDevLen(e.req)
  <2> DEFINE e == es[i]
             w == CanDecode(b.lane, e)
  <2>1. e \in Unit /\ e.req \in Reqs /\ e.start \in Nat /\ e.ext \in Nat /\ e.chunked \in BOOLEAN
    <3>1. e \in Unit
      BY <1>2
    <3> HIDE DEF e
    <3> QED BY <3>1 DEF Unit
  <2>2. os[i] = Writes(b.lane, e)
    BY <1>2 DEF Orders, es
  <2>3. w <=> ~e.chunked /\ e.start + e.ext < MaxDevLen(e.req)
    <3>1. b.lane.req[e.req].device = e.start + e.ext
      BY <1>4
    <3>2. MaxDevLen(e.req) \in Nat
      BY <2>1, Lengths
    <3>3. w <=> ~e.chunked /\ MaxDevLen(e.req) - b.lane.req[e.req].device > 0
      BY DEF CanDecode, RemainLen
    <3> HIDE DEF e, w
    <3> QED BY <2>1, <3>1, <3>2, <3>3
  <2>4. w \in BOOLEAN
    BY DEF CanDecode
  <2> HIDE DEF e, w
  <2>5. Writes(b.lane, e) = [req |-> e.req, slot |-> e.slot, start |-> e.start, ext |-> e.ext,
                             writeback |-> w]
    BY DEF Writes, w
  <2>6. /\ Writes(b.lane, e) \in Order
        /\ Writes(b.lane, e).req = e.req /\ Writes(b.lane, e).slot = e.slot
        /\ Writes(b.lane, e).start = e.start /\ Writes(b.lane, e).ext = e.ext
        /\ Writes(b.lane, e).writeback = w
    BY <2>1, <2>4, <2>5 DEF Order, Unit
  <2> QED BY <2>2, <2>3, <2>6 DEF e
<1>6. os \in Seq(Order) /\ Len(os) = n
  <2>1. os = [i \in 1..n |-> os[i]]
    BY <1>2 DEF Orders, es
  <2>2. \A i \in 1..n : os[i] \in Order
    BY <1>5
  <2> HIDE DEF os
  <2> QED BY <1>2, <2>1, <2>2
<1> HIDE DEF os
<1>7. Distinct(os)
  <2> SUFFICES ASSUME NEW i \in 1..n, NEW j \in 1..n, os[i].slot = os[j].slot PROVE i = j
    BY <1>6 DEF Distinct
  <2> DEFINE r == es[i].req
             q == es[j].req
             row == RowOf(b.lane)
  <2>1. r \in Reqs /\ q \in Reqs /\ es[i].slot \in Slots
    BY <1>2 DEF Unit
  <2>2. b.lane.req[r].slot = b.lane.req[q].slot /\ b.lane.req[r].slot \in Slots
    BY <1>3, <1>5, <2>1
  <2>3. row[r] = row[q] /\ row[r] # NoSlot
    BY <2>1, <2>2, SizeAssumption DEF RowOf, NoSlot, Slots
  <2>4. r = q
    BY <1>3, <2>1, <2>3 DEF Rows
  <2> QED BY <1>3, <2>4
<1>8. ASSUME NEW i \in 1..n PROVE Continues(u[os[i].slot], os[i], phase)
  <2> DEFINE e == es[i]
             o == os[i]
             r == e.req
             x == u[e.slot]
  <2>1. /\ e \in Unit /\ r \in Reqs /\ e.start \in Nat /\ e.ext \in Nat /\ e.slot \in Slots
        /\ o.req = r /\ o.slot = e.slot /\ o.start = e.start /\ o.ext = e.ext
        /\ e.slot = b.lane.req[r].slot /\ e.start = b.lane.req[r].cached
    BY <1>2, <1>3, <1>5 DEF Unit
  <2>2. e.slot # NoSlot
    BY <2>1, SizeAssumption DEF NoSlot, Slots
  <2>3. e.start = lane.req[r].cached
    BY <1>3, <2>1 DEF SameRow
  <2>4. x.len = e.start /\ (e.start > 0 => x.of = r)
        /\ (r \in lane.running => x.next /\ x.of = r)
    <3>1. CASE lane.req[r].slot # NoSlot
      <4>1. lane.req[r].slot = e.slot
        BY <1>3, <2>1, <3>1 DEF SameRow
      <4> QED BY <2>1, <2>3, <3>1, <4>1, Zenon DEF Agree
    <3>2. CASE lane.req[r].slot = NoSlot
      <4>1. e.slot \in Range(lane.slots)
        BY <1>4, <2>1, <2>2, <3>2
      <4>2. x.len = 0
        BY <4>1 DEF Agree
      <4>3. r \notin lane.running
        BY <3>2 DEF LaneOK
      <4>4. r \in Range(lane.pending)
        BY <1>3, <2>1, <2>2, <3>2, <4>3 DEF Present
      <4>5. lane.req[r].cached = 0
        BY <3>2, <4>4 DEF LaneOK
      <4> QED BY <2>3, <4>2, <4>3, <4>5
    <3> QED BY <3>1, <3>2
  <2>5. /\ e.ext >= 1 /\ e.start + e.ext <= MaxDevLen(r)
        /\ phase # "prefill" => e.ext = 1 /\ r \in lane.running
    BY <1>4
  <2>6. MaxDevLen(r) \in Nat /\ MaxSeqLen \in Nat /\ MaxDevLen(r) <= MaxSeqLen
    BY <2>1, Lengths
  <2>7. o.writeback => e.start + e.ext < MaxDevLen(r)
    BY <1>5
  <2> HIDE DEF e, o, r, x
  <2>8. e.start + e.ext <= MaxSeqLen /\ (o.writeback => e.start + e.ext < MaxSeqLen)
    BY <2>1, <2>5, <2>6, <2>7
  <2>9. Continues(x, o, phase)
    BY <2>1, <2>4, <2>5, <2>8 DEF Continues
  <2>10. x = u[o.slot]
    BY <2>1 DEF x
  <2> QED BY <2>9, <2>10 DEF o
<1>9. Fits(u, os, phase)
  BY <1>6, <1>7, <1>8 DEF Fits
<1> QED BY <1>2, <1>5, <1>6, <1>9 DEF os, es, n

LEMMA LaunchView ==
  ASSUME NEW lane, LaneOK(lane), LaneMore(lane), NEW phase, NEW b, b = Schedule(lane, phase),
         NEW u \in View, Agree(lane, u)
  PROVE  \E w \in View : /\ Moves(u, Orders(b), w)
                         /\ Agree(Launched(AllocatePaged(b.lane, b.entries), b.entries), w)
<1> DEFINE es   == b.entries
           n    == Len(es)
           os   == Orders(b)
           next == Launched(AllocatePaged(b.lane, es), es)
           at(s) == CHOOSE i \in 1..n : os[i].slot = s
           taken(s) == \E i \in 1..n : os[i].slot = s
           w    == [s \in Slots |-> IF taken(s) THEN After(os[at(s)]) ELSE u[s]]
<1>1. BatchOK(lane, b) /\ Goes(lane, b, phase)
  BY ScheduleParts, ScheduleMore
<1>2. RunMore(b, n, next)
  BY <1>1, LaunchMore
<1>3. /\ LaneOK(next) /\ \A r \in Reqs : next.req[r].slot = b.lane.req[r].slot
  BY <1>1, LaunchParts
<1> HIDE DEF next
<1>4. /\ os \in Seq(Order) /\ Len(os) = n /\ n \in Nat /\ Fits(u, os, phase)
      /\ \A i \in 1..n :
           LET e == es[i]
               o == os[i]
           IN  /\ o.req = e.req /\ o.slot = e.slot /\ o.start = e.start /\ o.ext = e.ext
               /\ o.writeback <=> ~e.chunked /\ e.start + e.ext < MaxDevLen(e.req)
  BY OrdersParts
<1>5. \A i \in 1..n : os[i] \in Order /\ os[i].slot \in Slots /\ es[i].req \in Reqs
                      /\ es[i].start \in Nat /\ es[i].ext \in Nat
  <2>1. \A i \in 1..n : os[i] \in Order /\ os[i].slot \in Slots
    BY <1>4, OrderOf
  <2>2. \A o \in Order : o.req \in Reqs /\ o.start \in Nat /\ o.ext \in Nat
    BY DEF Order
  <2> HIDE DEF os, es, n
  <2> QED BY <1>4, <2>1, <2>2
<1>6. /\ \A r \in Reqs : SameRow(lane, b.lane, r)
      /\ b.lane.running = lane.running
      /\ \A i \in 1..n : es[i].slot = b.lane.req[es[i].req].slot
      /\ Rows(b.lane.slots, RowOf(b.lane)) /\ b.lane \in Lane
  BY <1>1 DEF BatchOK, LaneOK
<1>7. /\ \A r \in Reqs : b.lane.req[r] = lane.req[r] \/ \E i \in 1..n : es[i].req = r
      /\ Range(b.lane.slots) \subseteq Range(lane.slots)
  BY <1>1 DEF Goes
<1>8. /\ \A r \in Reqs : \/ /\ next.req[r] = b.lane.req[r]
                            /\ r \in next.running <=> r \in b.lane.running
                         \/ \E i \in 1..n : es[i].req = r
      /\ \A i \in 1..n : Advanced(es[i], next)
      /\ next.slots = b.lane.slots
  BY <1>2 DEF RunMore
<1> HIDE DEF os, es, n
<1>9. \A i \in 1..n : w[os[i].slot] = After(os[i])
  <2> SUFFICES ASSUME NEW i \in 1..n PROVE w[os[i].slot] = After(os[i])
    OBVIOUS
  <2> DEFINE s == os[i].slot
  <2>1. s \in Slots /\ taken(s)
    BY <1>5
  <2>2. \A j \in 1..n : os[j].slot = s => j = i
    BY <1>4 DEF Fits, Distinct
  <2>3. at(s) = i
    BY <2>1, <2>2
  <2> HIDE DEF s, at, taken
  <2>4. w[s] = After(os[at(s)])
    BY <2>1
  <2> QED BY <2>3, <2>4 DEF s
<1>10. \A s \in Slots : (\A i \in 1..n : os[i].slot # s) => w[s] = u[s]
  <2> HIDE DEF at
  <2> QED OBVIOUS
<1>11. w \in View
  <2>1. \A o \in Order : After(o) \in [len : Nat, of : Reqs \cup {NoReq}, next : BOOLEAN]
    BY DEF After, Order
  <2>2. \A s \in Slots : u[s] \in [len : Nat, of : Reqs \cup {NoReq}, next : BOOLEAN]
    BY DEF View
  <2>3. \A s \in Slots : w[s] \in [len : Nat, of : Reqs \cup {NoReq}, next : BOOLEAN]
    <3> SUFFICES ASSUME NEW s \in Slots
                 PROVE  w[s] \in [len : Nat, of : Reqs \cup {NoReq}, next : BOOLEAN]
      OBVIOUS
    <3>1. CASE taken(s)
      <4>1. PICK i \in 1..n : os[i].slot = s
        BY <3>1
      <4>2. w[s] = After(os[i]) /\ os[i] \in Order
        BY <1>5, <1>9, <4>1
      <4> QED BY <2>1, <4>2
    <3>2. CASE ~taken(s)
      BY <1>10, <2>2, <3>2
    <3> QED BY <3>1, <3>2
  <2>4. w = [s \in Slots |-> w[s]]
    OBVIOUS
  <2> HIDE DEF w
  <2> QED BY <2>3, <2>4 DEF View
<1> HIDE DEF w, at, taken
<1>12. Moves(u, os, w)
  BY <1>4, <1>9, <1>10 DEF Moves
<1> DEFINE row == RowOf(b.lane)
<1>13. /\ \A r, q \in Reqs : row[r] # NoSlot /\ row[r] = row[q] => r = q
       /\ \A r \in Reqs : row[r] \notin Range(b.lane.slots) /\ row[r] = b.lane.req[r].slot
  BY <1>6 DEF Rows, RowOf
<1>14. ASSUME NEW s \in Range(next.slots) PROVE w[s].len = 0
  <2>1. s \in Range(b.lane.slots) /\ s \in Range(lane.slots) /\ s \in Slots
    <3>1. lane.slots \in Seq(Slots)
      BY DEF LaneOK, Lane
    <3>2. s \in Range(b.lane.slots) /\ s \in Range(lane.slots)
      BY <1>7, <1>8, Zenon
    <3> QED BY <3>1, <3>2 DEF Range
  <2>2. \A i \in 1..n : os[i].slot # s
    BY <1>4, <1>5, <1>6, <1>13, <2>1
  <2> QED BY <1>10, <2>1, <2>2 DEF Agree
<1>15. ASSUME NEW r \in Reqs, next.req[r].slot # NoSlot
       PROVE  LET x == w[next.req[r].slot] IN
              /\ x.len = next.req[r].cached /\ (x.len > 0 => x.of = r)
              /\ r \in next.running => x.next /\ x.of = r
  <2> DEFINE s == next.req[r].slot
             x == w[s]
  <2>1. s = b.lane.req[r].slot /\ s = row[r]
    BY <1>3, <1>13
  <2>2. CASE \E i \in 1..n : es[i].req = r
    <3>1. PICK i \in 1..n : es[i].req = r
      BY <2>2
    <3> DEFINE e == es[i]
               o == os[i]
               k == e.start + e.ext
    <3>2. s = o.slot /\ x = After(o) /\ o.req = r /\ o.start + o.ext = k
      <4>1. /\ o.req = e.req /\ o.slot = e.slot /\ o.start = e.start /\ o.ext = e.ext
            /\ w[o.slot] = After(o)
        BY <1>4, <1>9
      <4>2. e.slot = b.lane.req[e.req].slot /\ e.req = r
        BY <1>6, <3>1
      <4> HIDE DEF e, o, s
      <4> QED BY <2>1, <4>1, <4>2
    <3>3. x.len = k /\ x.of = r /\ x.next = o.writeback
      BY <3>2 DEF After
    <3>4. next.req[r].cached = k /\ (r \in next.running => ~e.chunked /\ k + 1 < MaxDevLen(r))
      BY <1>8, <3>1 DEF Advanced
    <3>5. (~e.chunked /\ k < MaxDevLen(r)) => o.writeback
      BY <1>4, <3>1
    <3>6. k + 1 < MaxDevLen(r) => k < MaxDevLen(r)
      <4>1. k \in Nat /\ MaxDevLen(r) \in Nat
        BY <1>5, Lengths
      <4> HIDE DEF k
      <4> QED BY <4>1
    <3> QED BY <3>3, <3>4, <3>5, <3>6
  <2>3. CASE ~\E i \in 1..n : es[i].req = r
    <3>1. /\ next.req[r] = lane.req[r] /\ b.lane.req[r] = lane.req[r]
          /\ r \in next.running <=> r \in lane.running
      BY <1>6, <1>7, <1>8, <2>3
    <3>2. s \in Slots
      <4>1. s \in 0..NumSlots
        BY <1>6, <2>1 DEF Lane, Requests
      <4> QED BY <1>15, <4>1, SizeAssumption DEF Slots, NoSlot
    <3>3. \A i \in 1..n : os[i].slot # s
      <4> SUFFICES ASSUME NEW i \in 1..n, os[i].slot = s PROVE FALSE
        OBVIOUS
      <4>1. row[es[i].req] = s
        BY <1>4, <1>5, <1>6, <1>13
      <4> QED BY <1>5, <1>13, <1>15, <2>1, <2>3, <4>1
    <3>4. x = u[s]
      BY <1>10, <3>2, <3>3
    <3> QED BY <1>15, <3>1, <3>4 DEF Agree
  <2> QED BY <2>2, <2>3
<1>16. Agree(next, w)
  BY <1>14, <1>15 DEF Agree
<1> QED BY <1>11, <1>12, <1>16 DEF next, os, es

LEMMA JoinRange ==
  ASSUME NEW S, NEW s \in Seq(S), NEW t \in Seq(S)
  PROVE  Range(s \o t) = Range(s) \cup Range(t)
<1> DEFINE all == s \o t
           n == Len(s)
           m == Len(t)
<1>1. /\ n \in Nat /\ m \in Nat /\ DOMAIN s = 1..n /\ DOMAIN t = 1..m /\ DOMAIN all = 1..(n + m)
      /\ \A i \in 1..(n + m) : all[i] = IF i <= n THEN s[i] ELSE t[i - n]
  OBVIOUS
<1> HIDE DEF all, n, m
<1>2. /\ \A i \in 1..n : i \in 1..(n + m) /\ i <= n
      /\ \A i \in 1..m : n + i \in 1..(n + m) /\ ~(n + i <= n) /\ (n + i) - n = i
      /\ \A i \in 1..(n + m) : (i <= n /\ i \in 1..n) \/ (~(i <= n) /\ i - n \in 1..m)
  BY <1>1
<1>3. Range(all) \subseteq Range(s) \cup Range(t)
  BY <1>1, <1>2 DEF Range
<1>4. \A i \in 1..n : s[i] = all[i] /\ i \in DOMAIN all
  BY <1>1, <1>2
<1>5. \A i \in 1..m : t[i] = all[n + i] /\ n + i \in DOMAIN all
  BY <1>1, <1>2
<1>6. Range(s) \subseteq Range(all)
  BY <1>1, <1>4 DEF Range
<1>7. Range(t) \subseteq Range(all)
  BY <1>1, <1>5 DEF Range
<1> QED BY <1>3, <1>6, <1>7 DEF all

(* A completion frees the rows of the requests that end.                   *)
LEMMA CompleteView ==
  ASSUME NEW lane, LaneOK(lane), NEW done, Completes(lane, done), Leaves(lane, done),
         NEW v \in View, NEW free \in Seq(Slots), Agree(lane, Cleared(v, free)),
         done.freed \in Seq(Slots)
  PROVE  Agree(done.lane, Cleared(v, free \o done.freed))
<1> DEFINE next == done.lane
           u == Cleared(v, free)
           w == Cleared(v, free \o done.freed)
<1>1. Range(free \o done.freed) = Range(free) \cup Range(done.freed)
  BY JoinRange
<1>2. \A s \in Slots : w[s] = IF s \in Range(done.freed) THEN Clean ELSE u[s]
  BY <1>1 DEF Cleared
<1>3. /\ LaneOK(next) /\ next \in Lane /\ lane \in Lane
      /\ Rows(lane.slots, RowOf(lane)) /\ Rows(next.slots, RowOf(next))
      /\ next.pending = lane.pending
  BY DEF Completes, LaneOK
<1>4. /\ Range(done.freed) \subseteq Range(next.slots) /\ next.running \subseteq lane.running
  BY DEF Leaves
<1>5. Clean.len = 0
  BY DEF Clean
<1> HIDE DEF next, u, w
<1>6. ASSUME NEW s \in Range(next.slots) PROVE w[s].len = 0
  <2>1. s \in Slots
    BY <1>3 DEF Lane, Range
  <2>2. CASE s \in Range(done.freed)
    BY <1>2, <1>5, <2>1, <2>2
  <2>3. CASE s \notin Range(done.freed)
    <3>1. s \in Range(lane.slots)
      <4> SUFFICES ASSUME s \notin Range(lane.slots) PROVE FALSE
        OBVIOUS
      <4>1. PICK r \in Reqs : lane.req[r].slot = s
        BY <1>3, <2>1 DEF Rows, RowOf
      <4>2. next.req[r].slot # s
        BY <1>3 DEF Rows, RowOf
      <4>3. ~Kept(lane, done, r)
        BY <4>1, <4>2 DEF Kept, next
      <4>4. PICK token : Answered(lane, done, token, r)
        BY <4>3 DEF Completes
      <4> QED BY <2>3, <4>1, <4>2, <4>4 DEF Answered, next
    <3>2. w[s] = u[s] /\ u[s].len = 0
      BY <1>2, <2>1, <2>3, <3>1 DEF Agree, u
    <3> QED BY <3>2
  <2> QED BY <2>2, <2>3
<1>7. ASSUME NEW r \in Reqs, next.req[r].slot # NoSlot
      PROVE  LET x == w[next.req[r].slot] IN
             /\ x.len = next.req[r].cached /\ (x.len > 0 => x.of = r)
             /\ r \in next.running => x.next /\ x.of = r
  <2>1. next.req[r].slot = lane.req[r].slot /\ next.req[r].cached = lane.req[r].cached
    <3>1. CASE Kept(lane, done, r)
      BY <3>1 DEF Kept, next
    <3>2. ASSUME NEW token, Answered(lane, done, token, r)
          PROVE  next.req[r].slot = lane.req[r].slot /\ next.req[r].cached = lane.req[r].cached
      BY <1>7, <3>2 DEF Answered, Present, next
    <3> QED BY <3>1, <3>2 DEF Completes
  <2> DEFINE s == next.req[r].slot
  <2>2. s \in Slots
    BY <1>3, <1>7, SizeAssumption DEF Lane, Requests, Slots, NoSlot
  <2>3. s \notin Range(done.freed)
    BY <1>3, <1>4 DEF Rows, RowOf
  <2>4. w[s] = u[s]
    BY <1>2, <2>2, <2>3
  <2> QED BY <1>4, <1>7, <2>1, <2>4 DEF Agree, u
<1>8. Agree(next, w)
  BY <1>6, <1>7 DEF Agree
<1> QED BY <1>8 DEF next, w

-----------------------------------------------------------------------------
(* The commands on their way to a worker, and the views they lead through: *)
(* the first is what the store is now, the last, once the tables freed     *)
(* since are cleared too, what the lane believes it to be.                 *)
AgStep == [type : {"step"}, step : Nat, phase : {"prefill", "decode"}, free : Seq(Slots),
           entries : Seq(Order)]
Cmds == {Flush, Stop} \cup AgStep
Passes(v, c, w) ==
  IF c.type = "step"
  THEN /\ Fits(Cleared(v, c.free), c.entries, c.phase)
       /\ Moves(Cleared(v, c.free), c.entries, w)
  ELSE w = v
Track(t, store, q, lane, free) ==
  /\ t \in Seq(View) /\ Len(t) = Len(q) + 1
  /\ Means(store, t[1])
  /\ \A k \in 1..Len(q) : Passes(t[k], q[k], t[k + 1])
  /\ Agree(lane, Cleared(t[Len(q) + 1], free))
Lockstep(lane, store, q, free) ==
  /\ store \in Store /\ q \in Seq(Cmds) /\ free \in Seq(Slots) /\ LaneMore(lane)
  /\ \E t : Track(t, store, q, lane, free)

LEMMA StepCmd ==
  ASSUME NEW c \in Cmds
  PROVE  /\ c.type = "step" => /\ c \in AgStep /\ c.step \in Nat /\ c.phase \in {"prefill", "decode"}
                               /\ c.free \in Seq(Slots) /\ c.entries \in Seq(Order)
         /\ c.type # "step" => c = Flush \/ c = Stop
BY DEF Cmds, AgStep, Flush, Stop

LEMMA TrackHead ==
  ASSUME NEW q \in Seq(Cmds), NEW t, NEW store, NEW lane, NEW free, Track(t, store, q, lane, free)
  PROVE  /\ Len(q) \in Nat /\ \A k \in 1..(Len(q) + 1) : t[k] \in View
         /\ t[1] \in View /\ t[Len(q) + 1] \in View
         /\ q # <<>> => /\ t[2] \in View /\ q[1] \in Cmds /\ Head(q) = q[1]
                        /\ Passes(t[1], q[1], t[2])
<1>1. t \in Seq(View) /\ Len(t) = Len(q) + 1 /\ \A k \in 1..Len(q) : Passes(t[k], q[k], t[k + 1])
  BY DEF Track
<1>2. Len(q) \in Nat
  OBVIOUS
<1>3. \A k \in 1..(Len(q) + 1) : t[k] \in View
  BY <1>1, <1>2
<1>4. 1 \in 1..(Len(q) + 1) /\ Len(q) + 1 \in 1..(Len(q) + 1)
  BY <1>2
<1>5. ASSUME q # <<>> PROVE /\ t[2] \in View /\ q[1] \in Cmds /\ Head(q) = q[1]
                            /\ Passes(t[1], q[1], t[2])
  BY <1>1, <1>2, <1>3, <1>5
<1> QED BY <1>2, <1>3, <1>4, <1>5

(* A worker has run its first command.                                     *)
LEMMA TrackTail ==
  ASSUME NEW q \in Seq(Cmds), q # <<>>, NEW t, NEW store, NEW lane, NEW free,
         Track(t, store, q, lane, free), NEW next, Means(next, t[2])
  PROVE  Track(Tail(t), next, Tail(q), lane, free) /\ Tail(q) \in Seq(Cmds)
<1> DEFINE n == Len(q)
           u == Tail(t)
           p == Tail(q)
<1>1. t \in Seq(View) /\ Len(t) = n + 1 /\ n \in Nat /\ n >= 1
      /\ \A k \in 1..n : Passes(t[k], q[k], t[k + 1])
      /\ Agree(lane, Cleared(t[n + 1], free))
  BY DEF Track
<1>2. p \in Seq(Cmds) /\ Len(p) = n - 1 /\ \A k \in 1..(n - 1) : p[k] = q[k + 1]
  OBVIOUS
<1>3. u \in Seq(View) /\ Len(u) = n /\ \A k \in 1..n : u[k] = t[k + 1]
  BY <1>1
<1> HIDE DEF n, u, p
<1>4. u[1] = t[2] /\ u[n] = t[n + 1]
  BY <1>1, <1>3
<1>5. ASSUME NEW k \in 1..(n - 1) PROVE Passes(u[k], p[k], u[k + 1])
  BY <1>1, <1>2, <1>3
<1>6. Len(p) + 1 = n
  BY <1>1, <1>2
<1>7. Track(u, next, p, lane, free)
  BY <1>1, <1>2, <1>3, <1>4, <1>5, <1>6 DEF Track
<1> QED BY <1>2, <1>7 DEF u, p

(* The coordinator sends one more command.                                 *)
LEMMA TrackMore ==
  ASSUME NEW q \in Seq(Cmds), NEW t, NEW store, NEW lane, NEW free, Track(t, store, q, lane, free),
         NEW c \in Cmds, NEW w \in View, Passes(t[Len(q) + 1], c, w),
         NEW now, NEW rest, Agree(now, Cleared(w, rest))
  PROVE  Track(Append(t, w), store, Append(q, c), now, rest) /\ Append(q, c) \in Seq(Cmds)
<1> DEFINE n == Len(q)
           u == Append(t, w)
           p == Append(q, c)
<1>1. t \in Seq(View) /\ Len(t) = n + 1 /\ n \in Nat /\ Means(store, t[1])
      /\ \A k \in 1..n : Passes(t[k], q[k], t[k + 1])
  BY DEF Track
<1>2. /\ p \in Seq(Cmds) /\ Len(p) = n + 1 /\ p[n + 1] = c
      /\ \A k \in 1..n : p[k] = q[k]
  OBVIOUS
<1>3. /\ u \in Seq(View) /\ Len(u) = (n + 1) + 1 /\ u[(n + 1) + 1] = w
      /\ \A k \in 1..(n + 1) : u[k] = t[k]
  <2> HIDE DEF n
  <2>1. /\ u \in Seq(View) /\ Len(u) = Len(t) + 1 /\ u[Len(t) + 1] = w
        /\ \A k \in 1..Len(t) : u[k] = t[k]
    BY <1>1
  <2> QED BY <1>1, <2>1
<1> HIDE DEF n, u, p
<1>4. u[1] = t[1] /\ u[n + 1] = t[n + 1]
  BY <1>1, <1>3
<1>5. ASSUME NEW k \in 1..(n + 1) PROVE Passes(u[k], p[k], u[k + 1])
  <2>1. CASE k = n + 1
    BY <1>2, <1>3, <1>4, <2>1 DEF n
  <2>2. CASE k # n + 1
    BY <1>1, <1>2, <1>3, <2>2
  <2> QED BY <2>1, <2>2
<1>7. Track(u, store, p, now, rest)
  BY <1>1, <1>2, <1>3, <1>4, <1>5 DEF Track
<1> QED BY <1>2, <1>7 DEF u, p

-----------------------------------------------------------------------------
(* What each step does to one lane and its worker.                         *)
Ask(es, tokens) ==
  /\ Len(tokens) = Len(es)
  /\ \A i \in 1..Len(es) : tokens[i].of = es[i].req /\ tokens[i].at = es[i].start + es[i].ext

LEMMA LockRuns ==
  ASSUME NEW lane, NEW store, NEW q, NEW free, Lockstep(lane, store, q, free),
         q # <<>>, Head(q).type = "step", NEW eos
  PROVE  LET plan   == Head(q)
             mat    == Materialized(store, plan)
             tokens == Sampled(mat, plan, eos)
         IN  /\ Lockstep(lane, Writeback(mat, plan, tokens), Tail(q), free)
             /\ tokens \in Seq(Token) /\ Ask(plan.entries, tokens)
<1> DEFINE plan   == Head(q)
           mat    == Materialized(store, plan)
           tokens == Sampled(mat, plan, eos)
           next   == Writeback(mat, plan, tokens)
<1>1. PICK t : Track(t, store, q, lane, free)
  BY DEF Lockstep
<1>2. store \in Store /\ q \in Seq(Cmds) /\ free \in Seq(Slots) /\ LaneMore(lane)
  BY DEF Lockstep
<1>3. /\ t[1] \in View /\ t[2] \in View /\ plan \in Cmds /\ plan = q[1] /\ Passes(t[1], plan, t[2])
  BY <1>1, <1>2, TrackHead
<1>4. plan.free \in Seq(Slots) /\ plan.entries \in Seq(Order)
  BY <1>3, StepCmd
<1>5. /\ Fits(Cleared(t[1], plan.free), plan.entries, plan.phase)
      /\ Moves(Cleared(t[1], plan.free), plan.entries, t[2])
  BY <1>3 DEF Passes
<1>6. Means(store, t[1])
  BY <1>1 DEF Track
<1> HIDE DEF plan
<1> DEFINE v == t[1]
           w == t[2]
<1>7. v \in View /\ Means(store, v) /\ Fits(Cleared(v, plan.free), plan.entries, plan.phase)
      /\ Moves(Cleared(v, plan.free), plan.entries, w)
  BY <1>3, <1>5, <1>6
<1> HIDE DEF v, w
<1>8. /\ next \in Store /\ Means(next, w)
      /\ tokens \in Seq(Token) /\ Ask(plan.entries, tokens)
  <2>1. RanStep(store, plan, w, eos)
    BY <1>2, <1>4, <1>7, RunParts
  <2> QED BY <2>1 DEF RanStep, Ask
<1> HIDE DEF next, tokens, mat
<1>9. Track(Tail(t), next, Tail(q), lane, free) /\ Tail(q) \in Seq(Cmds)
  BY <1>1, <1>2, <1>8, TrackTail DEF w
<1>10. Lockstep(lane, next, Tail(q), free)
  BY <1>2, <1>8, <1>9 DEF Lockstep
<1> QED BY <1>8, <1>10 DEF next, tokens, mat, plan

LEMMA LockSkips ==
  ASSUME NEW lane, NEW store, NEW q, NEW free, Lockstep(lane, store, q, free),
         q # <<>>, Head(q).type # "step"
  PROVE  Lockstep(lane, store, Tail(q), free)
<1>1. PICK t : Track(t, store, q, lane, free)
  BY DEF Lockstep
<1>2. store \in Store /\ q \in Seq(Cmds) /\ free \in Seq(Slots) /\ LaneMore(lane)
  BY DEF Lockstep
<1>3. Head(q) = q[1] /\ Passes(t[1], q[1], t[2])
  BY <1>1, <1>2, TrackHead
<1>4. t[2] = t[1]
  BY <1>3 DEF Passes
<1>5. Means(store, t[2])
  BY <1>1, <1>4 DEF Track
<1>6. Track(Tail(t), store, Tail(q), lane, free) /\ Tail(q) \in Seq(Cmds)
  BY <1>1, <1>2, <1>5, TrackTail
<1> QED BY <1>2, <1>6 DEF Lockstep

LEMMA LockTells ==
  ASSUME NEW lane, NEW store, NEW q, NEW free, Lockstep(lane, store, q, free),
         NEW c \in {Flush, Stop}
  PROVE  Lockstep(lane, store, Append(q, c), free)
<1>1. PICK t : Track(t, store, q, lane, free)
  BY DEF Lockstep
<1>2. store \in Store /\ q \in Seq(Cmds) /\ free \in Seq(Slots) /\ LaneMore(lane)
  BY DEF Lockstep
<1> DEFINE w == t[Len(q) + 1]
<1>3. w \in View /\ Agree(lane, Cleared(w, free))
  BY <1>1, <1>2, TrackHead DEF Track
<1>4. c \in Cmds /\ Passes(t[Len(q) + 1], c, w)
  BY DEF Cmds, Passes, Flush, Stop
<1> HIDE DEF w
<1>5. Track(Append(t, w), store, Append(q, c), lane, free) /\ Append(q, c) \in Seq(Cmds)
  BY <1>1, <1>2, <1>3, <1>4, TrackMore
<1> QED BY <1>2, <1>5 DEF Lockstep

LEMMA ClearedNone ==
  ASSUME NEW v \in View
  PROVE  Cleared(v, <<>>) = v
<1>1. Range(<<>>) = {}
  BY DEF Range
<1>2. Cleared(v, <<>>) = [s \in Slots |-> v[s]]
  BY <1>1 DEF Cleared
<1> QED BY <1>2 DEF View

LEMMA LockLaunch ==
  ASSUME NEW lane, NEW store, NEW q, NEW free, Lockstep(lane, store, q, free), LaneOK(lane),
         NEW phase \in {"prefill", "decode"}, NEW b, b = Schedule(lane, phase), NEW s \in Nat
  PROVE  Lockstep(Launched(AllocatePaged(b.lane, b.entries), b.entries), store,
                  Append(q, [type |-> "step", step |-> s, phase |-> phase, free |-> free,
                             entries |-> Orders(b)]), <<>>)
<1> DEFINE now == Launched(AllocatePaged(b.lane, b.entries), b.entries)
           es  == Orders(b)
           c   == [type |-> "step", step |-> s, phase |-> phase, free |-> free, entries |-> es]
<1>1. PICK t : Track(t, store, q, lane, free)
  BY DEF Lockstep
<1>2. store \in Store /\ q \in Seq(Cmds) /\ free \in Seq(Slots) /\ LaneMore(lane)
  BY DEF Lockstep
<1> DEFINE v == t[Len(q) + 1]
           u == Cleared(v, free)
<1>3. v \in View /\ u \in View /\ Agree(lane, u)
  BY <1>1, <1>2, TrackHead, ClearedParts DEF Track
<1> HIDE DEF v, u
<1>4. es \in Seq(Order) /\ Fits(u, es, phase)
  BY <1>2, <1>3, OrdersParts
<1>5. PICK w \in View : Moves(u, es, w) /\ Agree(now, w)
  BY <1>2, <1>3, LaunchView
<1>6. LaneMore(now)
  BY <1>2, LaunchLane
<1> HIDE DEF now, es
<1>7. /\ c.type = "step" /\ c.free = free /\ c.entries = es /\ c.phase = phase
      /\ c \in Cmds
  BY <1>2, <1>4 DEF Cmds, AgStep
<1> HIDE DEF c
<1>8. Passes(t[Len(q) + 1], c, w)
  BY <1>4, <1>5, <1>7 DEF Passes, u, v
<1>9. Agree(now, Cleared(w, <<>>))
  BY <1>5, ClearedNone
<1>10. Track(Append(t, w), store, Append(q, c), now, <<>>) /\ Append(q, c) \in Seq(Cmds)
  BY <1>1, <1>2, <1>5, <1>7, <1>8, <1>9, TrackMore
<1>11. <<>> \in Seq(Slots)
  OBVIOUS
<1>12. Lockstep(now, store, Append(q, c), <<>>)
  BY <1>2, <1>6, <1>10, <1>11 DEF Lockstep
<1> QED BY <1>12 DEF now, es, c

LEMMA LockEnds ==
  ASSUME NEW lane, NEW store, NEW q, NEW free, Lockstep(lane, store, q, free), LaneOK(lane),
         NEW done, Completes(lane, done), Leaves(lane, done), done.freed \in Seq(Slots),
         LaneMore(done.lane)
  PROVE  Lockstep(done.lane, store, q, free \o done.freed)
<1>1. PICK t : Track(t, store, q, lane, free)
  BY DEF Lockstep
<1>2. store \in Store /\ q \in Seq(Cmds) /\ free \in Seq(Slots)
  BY DEF Lockstep
<1> DEFINE v == t[Len(q) + 1]
<1>3. v \in View /\ Agree(lane, Cleared(v, free))
  BY <1>1, <1>2, TrackHead DEF Track
<1> HIDE DEF v
<1>4. Agree(done.lane, Cleared(v, free \o done.freed))
  BY <1>2, <1>3, CompleteView
<1>5. free \o done.freed \in Seq(Slots)
  BY <1>2
<1>6. Track(t, store, q, done.lane, free \o done.freed)
  BY <1>1, <1>4 DEF Track, v
<1> QED BY <1>2, <1>5, <1>6 DEF Lockstep

LEMMA LockJoins ==
  ASSUME NEW lane, NEW store, NEW q, NEW free, Lockstep(lane, store, q, free), LaneOK(lane),
         NEW now, LaneMore(now), now.slots = lane.slots, now.req = lane.req,
         now.running = lane.running
  PROVE  Lockstep(now, store, q, free)
<1>1. PICK t : Track(t, store, q, lane, free)
  BY DEF Lockstep
<1>2. Track(t, store, q, now, free)
  BY <1>1 DEF Track, Agree
<1> QED BY <1>2 DEF Lockstep

(* A command extends each row from where the worker has it.                *)
LEMMA LockHolds ==
  ASSUME NEW lane, NEW store, NEW q, NEW free, Lockstep(lane, store, q, free),
         q # <<>>, Head(q).type = "step", NEW i \in DOMAIN Head(q).entries
  PROVE  LocalLen(FreeTables(store, Head(q).free), Head(q).entries[i]) = Head(q).entries[i].start
<1> DEFINE plan == Head(q)
           e    == plan.entries[i]
<1>1. PICK t : Track(t, store, q, lane, free)
  BY DEF Lockstep
<1>2. store \in Store /\ q \in Seq(Cmds)
  BY DEF Lockstep
<1>3. /\ t[1] \in View /\ plan \in Cmds /\ plan = q[1] /\ Passes(t[1], plan, t[2])
  BY <1>1, <1>2, TrackHead
<1>4. plan.free \in Seq(Slots) /\ plan.entries \in Seq(Order)
  BY <1>3, StepCmd
<1>5. Fits(Cleared(t[1], plan.free), plan.entries, plan.phase)
  BY <1>3 DEF Passes
<1> DEFINE f == FreeTables(store, plan.free)
           u == Cleared(t[1], plan.free)
<1>6. Means(f, u)
  BY <1>1, <1>2, <1>3, <1>4, ClearedMeans DEF Track
<1>7. i \in 1..Len(plan.entries) /\ e.slot \in Slots
  BY <1>4, OrderOf
<1>8. u[e.slot].len = e.start
  BY <1>5, <1>7 DEF Fits, Continues
<1> HIDE DEF plan, u, f, e
<1>9. Len(f.kv[e.slot]) = u[e.slot].len
  BY <1>6, <1>7 DEF Means, IsRow
<1> QED BY <1>8, <1>9 DEF LocalLen, e, f, plan

-----------------------------------------------------------------------------
(* A completion leaves the waiting requests and the lengths as they were.  *)
LEMMA CompletionLane ==
  ASSUME NEW lane, LaneOK(lane), LaneMore(lane), NEW g \in [Slots -> Nat],
         NEW batch \in Seq(Entry), Flying(lane, g, batch), NEW items,
         items = [i \in DOMAIN batch |-> [entry |-> batch[i], token |-> items[i].token,
                                          current |-> g[batch[i].slot] = batch[i].gen]],
         NEW done, Completes(lane, done), Leaves(lane, done),
         \A r \in Reqs : Got(lane, batch, items, done, r)
  PROVE  LaneMore(done.lane)
<1> DEFINE next == done.lane
<1>1. /\ next.pending = lane.pending /\ next.running \subseteq lane.running
      /\ \A r \in Reqs : /\ next.req[r].device = lane.req[r].device
                         /\ Kept(lane, done, r) \/ \E token : Answered(lane, done, token, r)
  BY DEF Completes, Leaves
<1>2. lane.pending \in Seq(Reqs) /\ lane.running \subseteq Reqs
  BY DEF LaneOK, Lane
<1> HIDE DEF next
<1>3. \A r \in Reqs : next.req[r].cached = lane.req[r].cached
  BY <1>1 DEF Kept, Answered, next
<1>4. ASSUME NEW r \in Range(next.pending)
      PROVE  next.req[r].cached < InputLen[r] /\ next.req[r].done = 0
  <2>1. r \in Range(lane.pending) /\ r \in Reqs
    BY <1>1, <1>2 DEF Range
  <2>2. ASSUME NEW i \in 1..Len(batch), batch[i].req = r, Brings(items[i]) PROVE FALSE
    <3> DEFINE e == batch[i]
    <3>1. i \in DOMAIN batch
      OBVIOUS
    <3>2. items[i].entry = e /\ (items[i].current <=> g[e.slot] = e.gen)
      <4> DEFINE x == items[i]
                 t == x.token
                 c == g[e.slot] = e.gen
      <4>1. x = [entry |-> e, token |-> t, current |-> c]
        BY <3>1
      <4> HIDE DEF x, t, c, e
      <4>2. x.entry = e /\ x.current = c
        BY <4>1
      <4> QED BY <4>2 DEF x, c
    <3>3. e.gen = g[e.slot] /\ ~e.chunked
      BY <2>2, <3>2 DEF Brings
    <3>4. e.req \notin Range(lane.pending)
      BY <3>1, <3>3 DEF Flying
    <3> QED BY <2>1, <2>2, <3>4
  <2>3. Kept(lane, done, r)
    BY <2>1, <2>2 DEF Got
  <2>4. next.req[r] = lane.req[r]
    BY <2>3 DEF Kept, next
  <2> QED BY <2>1, <2>4 DEF LaneMore
<1>5. ASSUME NEW r \in next.running
      PROVE  next.req[r].device = next.req[r].cached + 1 /\ next.req[r].device < MaxDevLen(r)
  BY <1>1, <1>2, <1>3 DEF LaneMore
<1> QED BY <1>4, <1>5 DEF LaneMore, next

(* complete_results of the oldest step, in one lane.                       *)
HeadItems(c) == ValidItems(c, Head(pending).batch[c], LaneTokens(Head(pending).step, c))
LEMMA LaneEnds ==
  ASSUME CoordInv, pending # <<>>, NEW c \in Dps, LaneMore(lanes[c])
  PROVE  /\ Completes(lanes[c], Completion(c)) /\ Leaves(lanes[c], Completion(c))
         /\ Completion(c).freed \in Seq(Slots) /\ LaneMore(Completion(c).lane)
         /\ \A r \in Reqs : Got(lanes[c], Head(pending).batch[c], HeadItems(c), Completion(c), r)
<1> DEFINE lane  == lanes[c]
           g     == gens[c]
           batch == Head(pending).batch[c]
           items == ValidItems(c, batch, LaneTokens(Head(pending).step, c))
           done  == CompleteResults(lane, items)
<1>1. LaneOK(lane) /\ g \in [Slots -> Nat] /\ batch \in Seq(Entry) /\ Flying(lane, g, batch)
  BY HeadFlies
<1>2. Completion(c) = done /\ HeadItems(c) = items
  BY DEF Completion, HeadItems
<1> DEFINE tokens == LaneTokens(Head(pending).step, c)
<1> HIDE DEF batch, tokens
<1>3. items = [i \in DOMAIN batch |-> [entry |-> batch[i], token |-> items[i].token,
                                       current |-> g[batch[i].slot] = batch[i].gen]]
  BY DEF ValidItems, tokens
<1>4. LaneMore(lane)
  OBVIOUS
<1> HIDE DEF lane, g, items
<1>5. /\ Completes(lane, done) /\ Leaves(lane, done) /\ done.freed \in Seq(Slots)
      /\ \A r \in Reqs : Got(lane, batch, items, done, r)
  BY <1>1, <1>3, CompletionMore
<1> HIDE DEF done
<1>6. LaneMore(done.lane)
  BY <1>1, <1>3, <1>4, <1>5, CompletionLane
<1> QED BY <1>2, <1>5, <1>6 DEF lane, batch

(* _process_user_msgs, in one lane.                                        *)
LEMMA JoinMore ==
  ASSUME NEW lane, LaneOK(lane), LaneMore(lane), NEW r \in Reqs, lane.req[r].cached = 0,
         lane.req[r].done = 0
  PROVE  LET now == AddReqs(lane, r)
         IN  /\ LaneMore(now) /\ now.slots = lane.slots /\ now.req = lane.req
             /\ now.running = lane.running
<1> DEFINE now == AddReqs(lane, r)
<1>1. lane \in Lane /\ lane.pending \in Seq(Reqs)
  BY DEF LaneOK, Lane
<1>2. Range(Append(lane.pending, r)) = Range(lane.pending) \cup {r}
  BY <1>1, AppendParts
<1>3. /\ now.pending = Append(lane.pending, r) /\ now.running = lane.running
      /\ now.slots = lane.slots /\ now.req = lane.req
  BY <1>1 DEF AddReqs, Lane
<1> HIDE DEF now
<1>4. InputLen[r] \in Nat \ {0}
  BY Lengths
<1>5. LaneMore(now)
  BY <1>2, <1>3, <1>4 DEF LaneMore
<1> QED BY <1>3, <1>5 DEF now

-----------------------------------------------------------------------------
(* Every lane and its worker, when no client goes away.                    *)
NoAborts == \A i \in DOMAIN inbox : inbox[i].type # "abort"
LockInv ==
  /\ NoAborts
  /\ stores = [d \in Dps |-> stores[d]] /\ queue = [w \in Workers |-> queue[w]]
  /\ pendingFree = [d \in Dps |-> pendingFree[d]]
  /\ \A d \in Dps : Lockstep(lanes[d], stores[d], queue[d], pendingFree[d])

LEMMA Ranks == Dps \subseteq Workers /\ Expert \notin Dps /\ Expert \in Workers
BY PipelineAssumption DEF Dps, Workers, Expert

LEMMA NewLockstep == Lockstep(NewLane, NewStore, <<>>, <<>>)
<1> DEFINE v == [s \in Slots |-> Clean]
           t == <<v>>
           kv == [s \in Slots |-> <<>>]
           row == [p \in 0..(MaxSeqLen - 1) |-> ZeroToken]
           pool == [s \in Slots |-> row]
           pages == [s \in Slots |-> 0]
<1>1. NewStore \in Store
  <2>1. row \in Pool
    BY TokenFacts DEF Pool
  <2>2. pool \in [Slots -> Pool]
    BY <2>1
  <2>3. <<>> \in Seq(Token)
    OBVIOUS
  <2>4. kv \in [Slots -> Seq(Token)]
    BY <2>3
  <2>5. pages \in [Slots -> Int] /\ NumPages \in Int
    BY SizeAssumption
  <2>6. NewStore = [freePages |-> NumPages, pages |-> pages, kv |-> kv, pool |-> pool]
    BY DEF NewStore
  <2> HIDE DEF pages, kv, pool
  <2> QED BY <2>2, <2>4, <2>5, <2>6 DEF Store
<1>2. NewStore.kv = kv
  BY DEF NewStore
<1>3. v \in View
  BY DEF View, Clean
<1>4. Means(NewStore, v)
  BY <1>2 DEF Means, IsRow, Clean
<1>5. LaneMore(NewLane)
  BY DEF NewLane, Range, LaneMore
<1>6. Agree(NewLane, Cleared(v, <<>>))
  <2>1. Cleared(v, <<>>) = v
    BY <1>3, ClearedNone
  <2>2. \A r \in Reqs : NewLane.req[r].slot = NoSlot
    BY DEF NewLane, NewReq
  <2>3. ASSUME NEW s \in Range(NewLane.slots) PROVE v[s].len = 0
    BY NewLaneOK DEF LaneOK, Lane, Range, Clean
  <2> QED BY <2>1, <2>2, <2>3 DEF Agree
<1> HIDE DEF v
<1>7. t \in Seq(View) /\ Len(t) = 1 /\ t[1] = v
  BY <1>3
<1>8. Len(<<>>) = 0 /\ 0 + 1 = 1 /\ 1..0 = {}
  OBVIOUS
<1> HIDE DEF t
<1>9. Track(t, NewStore, <<>>, NewLane, <<>>)
  BY <1>4, <1>6, <1>7, <1>8 DEF Track
<1>10. <<>> \in Seq(Cmds) /\ <<>> \in Seq(Slots)
  OBVIOUS
<1> QED BY <1>1, <1>5, <1>9, <1>10 DEF Lockstep

LEMMA LockInit == Init => LockInv
<1> SUFFICES ASSUME Init PROVE LockInv
  OBVIOUS
<1>1. /\ inbox = <<>> /\ lanes = [d \in Dps |-> NewLane] /\ pendingFree = [d \in Dps |-> <<>>]
      /\ queue = [w \in Workers |-> <<>>] /\ stores = [d \in Dps |-> NewStore]
  BY DEF Init
<1>2. NoAborts
  BY <1>1 DEF NoAborts
<1>3. ASSUME NEW d \in Dps PROVE Lockstep(lanes[d], stores[d], queue[d], pendingFree[d])
  BY <1>1, Ranks, NewLockstep
<1> QED BY <1>1, <1>2, <1>3 DEF LockInv

LEMMA NoAbortsMore ==
  ASSUME CoordInv, NoAborts,
         \/ inbox' = inbox
         \/ inbox # <<>> /\ inbox' = Tail(inbox)
         \/ \E m \in Message : m.type # "abort" /\ inbox' = Append(inbox, m)
  PROVE  NoAborts'
<1>1. inbox \in Seq(Message)
  BY DEF CoordInv, Messages
<1>2. CASE inbox' = inbox
  BY <1>2 DEF NoAborts
<1>3. CASE inbox # <<>> /\ inbox' = Tail(inbox)
  BY <1>1, <1>3, TailParts DEF NoAborts
<1>4. ASSUME NEW m \in Message, m.type # "abort", inbox' = Append(inbox, m) PROVE NoAborts'
  <2>1. /\ DOMAIN inbox' = 1..(Len(inbox) + 1) /\ inbox'[Len(inbox) + 1] = m
        /\ \A i \in 1..Len(inbox) : inbox'[i] = inbox[i]
        /\ DOMAIN inbox = 1..Len(inbox) /\ Len(inbox) \in Nat
    BY <1>1, <1>4, AppendParts
  <2> DEFINE n == Len(inbox)
  <2>2. n \in Nat
    BY <2>1, Zenon
  <2> HIDE DEF n
  <2>3. \A i \in 1..(n + 1) : i \in 1..n \/ i = n + 1
    BY ONLY <2>2
  <2>4. \A i \in DOMAIN inbox' : i \in 1..Len(inbox) \/ i = Len(inbox) + 1
    BY <2>1, <2>3, Zenon DEF n
  <2> QED BY <1>4, <2>1, <2>4, Zenon DEF NoAborts
<1> QED BY <1>2, <1>3, <1>4

LEMMA LockStays ==
  ASSUME LockInv, NoAborts', UNCHANGED <<lanes, stores, queue, pendingFree>>
  PROVE  LockInv'
BY DEF LockInv

(* The coordinator.                                                        *)
LEMMA LockUser ==
  ASSUME CoordInv, LockInv, ProcessUser
  PROVE  LockInv'
<1> DEFINE r == Head(inbox).req
           d == rr % NumDp
<1>1. /\ inbox # <<>> /\ Head(inbox).type = "user" /\ inbox' = Tail(inbox)
      /\ lanes' = [lanes EXCEPT ![d] = AddReqs(@, r)]
      /\ UNCHANGED <<stores, queue, pendingFree>>
  BY DEF ProcessUser, workerVars
<1>2. Shapes /\ Messages /\ \A c \in Dps : LaneOK(lanes[c])
  BY DEF CoordInv
<1>3. r \in Reqs /\ status[r] = "sent"
  BY <1>1, <1>2, TailParts DEF Messages
<1>4. d \in Dps
  BY <1>2, PipelineAssumption DEF Shapes, Dps
<1>5. lanes[d].req[r].cached = 0 /\ lanes[d].req[r].done = 0
  BY <1>3, <1>4 DEF CoordInv, Served
<1> HIDE DEF r, d
<1>6. \A c \in Dps : lanes'[c] = IF c = d THEN AddReqs(lanes[d], r) ELSE lanes[c]
  BY <1>1, <1>2, <1>4 DEF Shapes
<1>7. Lockstep(lanes[d], stores[d], queue[d], pendingFree[d])
  BY <1>4 DEF LockInv
<1>8. LaneMore(lanes[d])
  BY <1>7 DEF Lockstep
<1> DEFINE lane == lanes[d]
           now  == AddReqs(lane, r)
<1>9. LaneMore(now) /\ now.slots = lane.slots /\ now.req = lane.req /\ now.running = lane.running
  BY <1>2, <1>3, <1>4, <1>5, <1>8, JoinMore
<1>10. LaneOK(lane)
  BY <1>2, <1>4
<1> HIDE DEF now
<1>11. Lockstep(now, stores[d], queue[d], pendingFree[d])
  BY <1>7, <1>9, <1>10, LockJoins
<1>12. ASSUME NEW c \in Dps PROVE Lockstep(lanes'[c], stores'[c], queue'[c], pendingFree'[c])
  <2>1. CASE c = d
    BY <1>1, <1>6, <1>11, <2>1 DEF now
  <2>2. CASE c # d
    BY <1>1, <1>6, <2>2 DEF LockInv
  <2> QED BY <2>1, <2>2
<1>13. NoAborts'
  BY <1>1, NoAbortsMore DEF LockInv
<1> QED BY <1>1, <1>12, <1>13 DEF LockInv

LEMMA LockLaunchStep ==
  ASSUME CoordInv, LockInv, LaunchStep
  PROVE  LockInv'
<1>1. /\ queue' = [w \in Workers |-> Append(queue[w], IF w = Expert THEN EgPlan ELSE AgPlan(w))]
      /\ lanes' = [d \in Dps |-> Launched(AllocatePaged(Scheduled[d].lane, Scheduled[d].entries),
                                          Scheduled[d].entries)]
      /\ pendingFree' = [d \in Dps |-> <<>>]
      /\ UNCHANGED <<inbox, stores>>
  BY DEF LaunchStep, workerVars
<1>2. NextGlobalPhase \in {"prefill", "decode"} /\ step \in Nat
  BY DEF NextGlobalPhase, CoordInv, Shapes
<1>3. ASSUME NEW d \in Dps PROVE Lockstep(lanes'[d], stores'[d], queue'[d], pendingFree'[d])
  <2> DEFINE lane  == lanes[d]
             phase == NextGlobalPhase
             b     == Schedule(lane, phase)
             now   == Launched(AllocatePaged(b.lane, b.entries), b.entries)
             plan  == [type |-> "step", step |-> step, phase |-> phase, free |-> pendingFree[d],
                       entries |-> Orders(b)]
  <2>1. /\ Lockstep(lane, stores[d], queue[d], pendingFree[d]) /\ LaneOK(lane)
        /\ phase \in {"prefill", "decode"}
    BY <1>2 DEF LockInv, CoordInv
  <2>2. Scheduled[d] = b
    BY DEF Scheduled
  <2>3. lanes'[d] = now /\ pendingFree'[d] = <<>> /\ stores'[d] = stores[d]
    BY <1>1, <2>2
  <2>4. AgPlan(d) = plan
    BY <2>2 DEF AgPlan, Orders
  <2>5. queue'[d] = Append(queue[d], plan)
    BY <1>1, <2>4, Ranks
  <2> HIDE DEF lane, phase
  <2>6. Lockstep(now, stores[d], Append(queue[d], plan), <<>>)
    BY <1>2, <2>1, LockLaunch
  <2> QED BY <2>3, <2>5, <2>6
<1>4. NoAborts'
  BY <1>1, NoAbortsMore DEF LockInv
<1> QED BY <1>1, <1>3, <1>4 DEF LockInv

LEMMA LockCompleteStep ==
  ASSUME CoordInv, LockInv, CompleteStep
  PROVE  LockInv'
<1>1. /\ pending # <<>> /\ lanes' = [d \in Dps |-> Completion(d).lane]
      /\ pendingFree' = [d \in Dps |-> pendingFree[d] \o Completion(d).freed]
      /\ UNCHANGED <<inbox, queue, stores>>
  BY DEF CompleteStep, workerVars
<1>2. ASSUME NEW d \in Dps PROVE Lockstep(lanes'[d], stores'[d], queue'[d], pendingFree'[d])
  <2> DEFINE lane == lanes[d]
             done == Completion(d)
  <2>1. Lockstep(lane, stores[d], queue[d], pendingFree[d]) /\ LaneOK(lane)
    BY DEF LockInv, CoordInv
  <2>2. LaneMore(lanes[d])
    BY <2>1 DEF Lockstep
  <2>3. /\ Completes(lane, done) /\ Leaves(lane, done) /\ done.freed \in Seq(Slots)
        /\ LaneMore(done.lane)
    BY <1>1, <2>2, LaneEnds
  <2> HIDE DEF lane, done
  <2>4. Lockstep(done.lane, stores[d], queue[d], pendingFree[d] \o done.freed)
    BY <2>1, <2>3, LockEnds
  <2> QED BY <1>1, <2>4 DEF done
<1>3. NoAborts'
  BY <1>1, NoAbortsMore DEF LockInv
<1> QED BY <1>1, <1>2, <1>3 DEF LockInv

LEMMA JoinOne ==
  ASSUME NEW T, NEW q \in Seq(T), NEW a \in T, NEW b \in T
  PROVE  /\ q \o <<a>> = Append(q, a) /\ q \o <<b>> = Append(q, b)
         /\ q \o <<b, a>> = Append(Append(q, b), a)
OBVIOUS

LEMMA LockToAll ==
  ASSUME LockInv, NEW cmds, cmds \in {<<Flush>>, <<Stop>>, <<Stop, Flush>>}, NEW d \in Dps
  PROVE  Lockstep(lanes[d], stores[d], ToAll(cmds)[d], pendingFree[d])
<1> DEFINE q == queue[d]
<1>1. Lockstep(lanes[d], stores[d], q, pendingFree[d]) /\ ToAll(cmds)[d] = q \o cmds
  BY Ranks DEF LockInv, ToAll
<1>2. q \in Seq(Cmds)
  BY <1>1 DEF Lockstep
<1>3. Flush \in Cmds /\ Stop \in Cmds
  BY DEF Cmds
<1> HIDE DEF q
<1>4. q \o <<Flush>> = Append(q, Flush) /\ q \o <<Stop>> = Append(q, Stop)
      /\ q \o <<Stop, Flush>> = Append(Append(q, Stop), Flush)
  BY <1>2, <1>3, JoinOne
<1>5. /\ Lockstep(lanes[d], stores[d], Append(q, Flush), pendingFree[d])
      /\ Lockstep(lanes[d], stores[d], Append(q, Stop), pendingFree[d])
  BY <1>1, LockTells
<1>6. Lockstep(lanes[d], stores[d], Append(Append(q, Stop), Flush), pendingFree[d])
  BY <1>5, LockTells
<1>7. ToAll(cmds)[d] \in {q \o <<Flush>>, q \o <<Stop>>, q \o <<Stop, Flush>>}
  BY <1>1
<1> QED BY <1>4, <1>5, <1>6, <1>7

LEMMA LockTold ==
  ASSUME CoordInv, LockInv, NoAborts', NEW cmds, cmds \in {<<Flush>>, <<Stop>>, <<Stop, Flush>>},
         queue' = ToAll(cmds), UNCHANGED <<lanes, stores, pendingFree>>
  PROVE  LockInv'
<1>1. ASSUME NEW d \in Dps PROVE Lockstep(lanes'[d], stores'[d], queue'[d], pendingFree'[d])
  BY LockToAll
<1>2. queue' = [w \in Workers |-> queue'[w]]
  BY DEF ToAll
<1> QED BY <1>1, <1>2 DEF LockInv

LEMMA NeverAborts ==
  ASSUME CoordInv, LockInv
  PROVE  ~ProcessAbort
<1> SUFFICES ASSUME ProcessAbort PROVE FALSE
  OBVIOUS
<1>1. inbox # <<>> /\ Head(inbox).type = "abort"
  BY DEF ProcessAbort
<1>2. inbox \in Seq(Message)
  BY DEF CoordInv, Messages
<1>3. Head(inbox) = inbox[1] /\ 1 \in DOMAIN inbox
  BY <1>1, <1>2, TailParts
<1> QED BY <1>1, <1>3 DEF LockInv, NoAborts

LEMMA LockCoordinator ==
  ASSUME CoordInv, LockInv, Coordinator
  PROVE  LockInv'
<1>1. CASE ProcessUser
  BY <1>1, LockUser
<1>2. ~ProcessAbort
  BY NeverAborts
<1>3. CASE ProcessExit
  <2>1. /\ inbox # <<>> /\ inbox' = Tail(inbox) /\ UNCHANGED <<lanes, stores, pendingFree>>
        /\ queue' = ToAll(IF pending # <<>> /\ ~flushed THEN <<Stop, Flush>> ELSE <<Stop>>)
    BY <1>3 DEF ProcessExit, workerVars
  <2>2. NoAborts'
    BY <2>1, NoAbortsMore DEF LockInv
  <2>3. CASE pending # <<>> /\ ~flushed
    BY <2>1, <2>2, <2>3, LockTold
  <2>4. CASE ~(pending # <<>> /\ ~flushed)
    BY <2>1, <2>2, <2>4, LockTold
  <2> QED BY <2>3, <2>4
<1>4. CASE EndRecv \/ LaunchFails \/ PipelineFull \/ Return
  BY <1>4, NoAbortsMore, LockStays DEF EndRecv, LaunchFails, PipelineFull, Return, workerVars,
     LockInv
<1>5. CASE LaunchStep
  BY <1>5, LockLaunchStep
<1>6. CASE LaunchNone
  <2>1. /\ UNCHANGED <<inbox, lanes, stores, pendingFree>>
        /\ queue' = queue \/ queue' = ToAll(<<Flush>>)
    BY <1>6 DEF LaunchNone, workerVars
  <2>2. NoAborts'
    BY <2>1, NoAbortsMore DEF LockInv
  <2>3. CASE queue' = queue
    BY <2>1, <2>2, <2>3, LockStays
  <2>4. CASE queue' = ToAll(<<Flush>>)
    BY <2>1, <2>2, <2>4, LockTold
  <2> QED BY <2>1, <2>3, <2>4
<1>7. CASE CompleteStep
  BY <1>7, LockCompleteStep
<1> QED BY <1>1, <1>2, <1>3, <1>4, <1>5, <1>6, <1>7 DEF Coordinator

(* The workers: only the lane of a worker that takes a command moves.      *)
LEMMA LockTakes ==
  ASSUME CoordInv, LockInv, NEW w \in Workers, queue' = [queue EXCEPT ![w] = Tail(@)],
         UNCHANGED <<inbox, lanes, pendingFree>>, stores' = [d \in Dps |-> stores'[d]],
         \A d \in Dps \ {w} : stores'[d] = stores[d],
         w \in Dps => Lockstep(lanes[w], stores'[w], Tail(queue[w]), pendingFree[w])
  PROVE  LockInv'
<1>1. queue = [v \in Workers |-> queue[v]] /\ Dps \subseteq Workers
  BY Ranks DEF LockInv
<1>2. /\ queue'[w] = Tail(queue[w]) /\ \A v \in Workers \ {w} : queue'[v] = queue[v]
      /\ queue' = [v \in Workers |-> queue'[v]]
  BY <1>1
<1>3. ASSUME NEW d \in Dps PROVE Lockstep(lanes'[d], stores'[d], queue'[d], pendingFree'[d])
  <2>1. CASE d = w
    BY <1>2, <2>1
  <2>2. CASE d # w
    BY <1>1, <1>2, <2>2 DEF LockInv
  <2> QED BY <2>1, <2>2
<1>4. NoAborts'
  BY NoAbortsMore DEF LockInv
<1> QED BY <1>2, <1>3, <1>4 DEF LockInv

LEMMA LockWorker ==
  ASSUME CoordInv, LockInv, NEW w \in Workers, WorkerLoop(w)
  PROVE  LockInv'
<1>1. CASE w = Expert /\ RunExpert
  BY <1>1, Ranks, LockTakes DEF RunExpert, coordVars, LockInv
<1>2. CASE w \in Dps /\ RunAttention(w)
  <2> DEFINE plan == Head(queue[w])
             mat  == Materialized(stores[w], plan)
  <2>1. /\ queue[w] # <<>> /\ Head(queue[w]).type = "step"
        /\ queue' = [queue EXCEPT ![w] = Tail(@)] /\ UNCHANGED <<inbox, lanes, pendingFree>>
    BY <1>2 DEF RunAttention, NextCommand, coordVars
  <2>2. PICK eos : stores' = [stores EXCEPT ![w] = Writeback(mat, plan, Sampled(mat, plan, eos))]
    BY <1>2 DEF RunAttention
  <2>3. Lockstep(lanes[w], stores[w], queue[w], pendingFree[w])
    BY <1>2 DEF LockInv
  <2> DEFINE next == Writeback(mat, plan, Sampled(mat, plan, eos))
  <2>4. Lockstep(lanes[w], next, Tail(queue[w]), pendingFree[w])
    BY <2>1, <2>3, LockRuns
  <2> HIDE DEF next
  <2>5. stores' = [stores EXCEPT ![w] = next]
    BY <2>2 DEF next
  <2>6. /\ stores'[w] = next /\ \A d \in Dps \ {w} : stores'[d] = stores[d]
        /\ stores' = [d \in Dps |-> stores'[d]]
    BY <1>2, <2>5 DEF LockInv
  <2> QED BY <2>1, <2>4, <2>6, LockTakes
<1>3. CASE (w \in Dps /\ AttentionFails(w)) \/ Retire(w)
  BY <1>3, NoAbortsMore, LockStays DEF AttentionFails, Retire, coordVars, LockInv
<1>4. CASE TakeFlush(w) \/ TakeStop(w)
  BY <1>4, LockSkips, LockTakes DEF TakeFlush, TakeStop, NextCommand, coordVars, LockInv
<1> QED BY <1>1, <1>2, <1>3, <1>4 DEF WorkerLoop, Attention

LEMMA LockClient ==
  ASSUME CoordInv, LockInv, MayAbort = {}, Client
  PROVE  LockInv'
<1>1. ASSUME NEW r \in Reqs, Send(r) PROVE LockInv'
  <2> DEFINE m == [type |-> "user", req |-> r]
  <2>1. inbox' = Append(inbox, m) /\ UNCHANGED <<lanes, stores, queue, pendingFree>>
    BY <1>1 DEF Send, coordVars, workerVars
  <2>2. m \in Message /\ m.type # "abort"
    BY DEF Message
  <2>3. NoAborts'
    BY <2>1, <2>2, NoAbortsMore DEF LockInv
  <2> QED BY <2>1, <2>3, LockStays
<1>2. CASE SendExit
  BY <1>2, NoAbortsMore, LockStays DEF SendExit, coordVars, workerVars, ExitMsg, Message, LockInv
<1>3. \A r \in Reqs : ~Disconnect(r)
  BY DEF Disconnect
<1> QED BY <1>1, <1>2, <1>3 DEF Client

LEMMA LockStep ==
  ASSUME MayAbort = {}, CoordInv, LockInv, [Next]_vars
  PROVE  LockInv'
<1>1. CASE UNCHANGED vars
  BY <1>1, NoAbortsMore, LockStays DEF vars, coordVars, workerVars, LockInv
<1> QED BY <1>1, LockCoordinator, LockWorker, LockClient DEF Next

LEMMA LockInvAlways == ASSUME MayAbort = {} PROVE Spec => []LockInv
<1>1. CoordInv /\ LockInv /\ [Next]_vars => LockInv'
  BY LockStep
<1>2. Init => LockInv
  BY LockInit
<1>3. Spec => []CoordInv
  BY CoordInvAlways
<1> QED BY <1>1, <1>2, <1>3, PTL DEF Spec

(* While no client goes away, a worker extends every row of a command from *)
(* where the coordinator says the row ends, with up to MaxPending steps    *)
(* under way and rows handed from one request to the next                  *)
(* (afd_coordinator.py:1246).  With aborts this is not so:                 *)
(* afd_abort_rows.cfg shows a row whose table the worker is not told to    *)
(* free.                                                                   *)
THEOREM WorkersKeepStep == ASSUME MayAbort = {} PROVE Spec => []WorkersInLockstep
<1>1. LockInv => WorkersInLockstep
  <2> SUFFICES ASSUME LockInv, NEW d \in Dps, queue[d] # <<>>, Head(queue[d]).type = "step",
                      NEW i \in DOMAIN Head(queue[d]).entries
               PROVE  LocalLen(FreeTables(stores[d], Head(queue[d]).free), Head(queue[d]).entries[i])
                        = Head(queue[d]).entries[i].start
    BY DEF WorkersInLockstep
  <2>1. Lockstep(lanes[d], stores[d], queue[d], pendingFree[d])
    BY DEF LockInv
  <2> DEFINE q == queue[d]
             store == stores[d]
             Held(x, p) == \A j \in DOMAIN Head(p).entries :
               LocalLen(FreeTables(x, Head(p).free), Head(p).entries[j]) = Head(p).entries[j].start
  <2>2. ASSUME NEW lane, NEW x, NEW p, NEW free, Lockstep(lane, x, p, free), p # <<>>,
               Head(p).type = "step"
        PROVE  Held(x, p)
    BY <2>2, LockHolds
  <2>3. q # <<>> /\ Head(q).type = "step" /\ Lockstep(lanes[d], store, q, pendingFree[d])
    BY <2>1
  <2> HIDE DEF Held
  <2>4. Held(store, q)
    BY <2>2, <2>3
  <2> QED BY <2>4 DEF Held
<1>2. Spec => []LockInv
  BY LockInvAlways
<1> QED BY <1>1, <1>2, PTL

-----------------------------------------------------------------------------
(* The tokens of a request that are under way: the k-th step brings the    *)
(* token after the first x of its text.  They come in order, the first is  *)
(* the next one its client expects, and the last follows all its row has.  *)
Coming(g, batch, r, x) ==
  \E i \in 1..Len(batch) : /\ batch[i].req = r /\ ~batch[i].chunked
                           /\ batch[i].gen = g[batch[i].slot]
                           /\ x = batch[i].start + batch[i].ext
Wanted(lane, r) == InputLen[r] + lane.req[r].done
Comes(lane, g, bs, n, r) ==
  /\ \A k \in 1..n : \A x \in Nat : Coming(g, bs[k], r, x) =>
       Wanted(lane, r) <= x /\ x <= lane.req[r].cached
  /\ \A k, l \in 1..n : \A x, y \in Nat :
       k < l /\ Coming(g, bs[k], r, x) /\ Coming(g, bs[l], r, y) => x < y
  /\ lane.req[r].slot # NoSlot =>
       \A x \in Wanted(lane, r)..lane.req[r].cached : \E k \in 1..n : Coming(g, bs[k], r, x)
  /\ r \in lane.running => Wanted(lane, r) <= lane.req[r].cached + 1

LEMMA RowNats ==
  ASSUME NEW lane, lane \in Lane, NEW r \in Reqs
  PROVE  /\ lane.req[r].cached \in Nat /\ lane.req[r].done \in Nat /\ lane.req[r].slot \in 0..NumSlots
         /\ InputLen[r] \in Nat \ {0} /\ Wanted(lane, r) \in Nat
         /\ Wanted(lane, r) = InputLen[r] + lane.req[r].done
<1>1. lane.req[r].cached \in Nat /\ lane.req[r].done \in Nat /\ lane.req[r].slot \in 0..NumSlots
  BY DEF Lane, Requests
<1>2. InputLen[r] \in Nat \ {0}
  BY Lengths
<1> QED BY <1>1, <1>2 DEF Wanted

(* One more step: r is not in its batch, has a chunk in it, or a token.    *)
LEMMA ComesSame ==
  ASSUME NEW lane, NEW next, NEW g, NEW bs, NEW cs, NEW n \in Nat, NEW r \in Reqs,
         Comes(lane, g, bs, n, r), \A k \in 1..n : cs[k] = bs[k],
         next.req[r] = lane.req[r], r \in next.running <=> r \in lane.running,
         \A x : ~Coming(g, cs[n + 1], r, x)
  PROVE  Comes(next, g, cs, n + 1, r)
<1>1. \A k \in 1..(n + 1) : (k \in 1..n /\ cs[k] = bs[k]) \/ k = n + 1
  OBVIOUS
<1>2. Wanted(next, r) = Wanted(lane, r)
  BY DEF Wanted
<1>3. \A k \in 1..n : k \in 1..(n + 1)
  OBVIOUS
<1>4. \A k \in 1..(n + 1) : \A x : Coming(g, cs[k], r, x) => k \in 1..n /\ Coming(g, bs[k], r, x)
  BY <1>1
<1>5. \A k \in 1..n : \A x : Coming(g, bs[k], r, x) => k \in 1..(n + 1) /\ Coming(g, cs[k], r, x)
  BY <1>3
<1> QED BY <1>2, <1>4, <1>5 DEF Comes

LEMMA ComesChunk ==
  ASSUME NEW lane \in Lane, NEW next \in Lane, NEW g, NEW bs, NEW cs, NEW n \in Nat, NEW r \in Reqs,
         Comes(lane, g, bs, n, r), \A k \in 1..n : cs[k] = bs[k],
         next.req[r].done = lane.req[r].done, lane.req[r].cached <= next.req[r].cached,
         next.req[r].cached < InputLen[r], r \notin next.running,
         \A x : ~Coming(g, cs[n + 1], r, x)
  PROVE  Comes(next, g, cs, n + 1, r)
<1>1. \A k \in 1..(n + 1) : (k \in 1..n /\ cs[k] = bs[k]) \/ k = n + 1
  OBVIOUS
<1>2. Wanted(next, r) = Wanted(lane, r)
  BY DEF Wanted
<1>3. \A k \in 1..(n + 1) : \A x : Coming(g, cs[k], r, x) => k \in 1..n /\ Coming(g, bs[k], r, x)
  BY <1>1
<1>4. /\ next.req[r].cached \in Nat /\ lane.req[r].cached \in Nat
      /\ Wanted(next, r) = InputLen[r] + next.req[r].done
      /\ Wanted(next, r) \in Nat /\ InputLen[r] \in Nat /\ next.req[r].done \in Nat
  BY RowNats
<1>5. \A x \in Nat : x <= lane.req[r].cached => x <= next.req[r].cached
  BY <1>4
<1>6. Wanted(next, r)..next.req[r].cached = {}
  BY <1>4
<1> QED BY <1>2, <1>3, <1>5, <1>6 DEF Comes

LEMMA ComesToken ==
  ASSUME NEW lane \in Lane, NEW next \in Lane, NEW g, NEW bs, NEW cs, NEW n \in Nat, NEW r \in Reqs,
         Comes(lane, g, bs, n, r), \A k \in 1..n : cs[k] = bs[k],
         next.req[r].done = lane.req[r].done, lane.req[r].cached < next.req[r].cached,
         \A x : Coming(g, cs[n + 1], r, x) <=> x = next.req[r].cached,
         \/ lane.req[r].done = 0 /\ next.req[r].cached = InputLen[r]
         \/ r \in lane.running /\ lane.req[r].slot # NoSlot
            /\ next.req[r].cached = lane.req[r].cached + 1
  PROVE  Comes(next, g, cs, n + 1, r)
<1> DEFINE a == lane.req[r].cached
           b == next.req[r].cached
           m == Wanted(next, r)
<1>1. \A k \in 1..(n + 1) : (k \in 1..n /\ cs[k] = bs[k]) \/ k = n + 1
  OBVIOUS
<1>2. Wanted(lane, r) = m
  BY DEF Wanted
<1>3. /\ b \in Nat /\ a \in Nat /\ m = InputLen[r] + next.req[r].done
      /\ m \in Nat /\ InputLen[r] \in Nat /\ next.req[r].done \in Nat
  BY RowNats
<1>4. m <= b
  <2>1. CASE lane.req[r].done = 0 /\ next.req[r].cached = InputLen[r]
    BY <1>3, <2>1
  <2>2. CASE r \in lane.running /\ next.req[r].cached = lane.req[r].cached + 1
    BY <1>2, <2>2 DEF Comes
  <2> QED BY <2>1, <2>2
<1>5. ASSUME NEW k \in 1..(n + 1), NEW x \in Nat, Coming(g, cs[k], r, x)
      PROVE  /\ m <= x /\ x <= b
             /\ k \in 1..n => Coming(g, bs[k], r, x) /\ x < b
             /\ k = n + 1 => x = b
  <2>1. CASE k = n + 1
    BY <1>3, <1>4, <1>5, <2>1
  <2>2. CASE k \in 1..n /\ cs[k] = bs[k]
    <3>1. Coming(g, bs[k], r, x) /\ k # n + 1
      BY <1>5, <2>2
    <3>2. m <= x /\ x <= a
      BY <1>2, <2>2, <3>1 DEF Comes
    <3>3. x < b
      <4>1. a < b
        OBVIOUS
      <4> HIDE DEF a, b
      <4> QED BY <1>3, <3>2, <4>1
    <3> HIDE DEF b
    <3> QED BY <1>3, <3>1, <3>2, <3>3
  <2> QED BY <1>1, <2>1, <2>2
<1>6. ASSUME NEW k \in 1..(n + 1), NEW l \in 1..(n + 1), NEW x \in Nat, NEW y \in Nat,
             k < l, Coming(g, cs[k], r, x), Coming(g, cs[l], r, y)
      PROVE  x < y
  <2>1. k \in 1..n /\ Coming(g, bs[k], r, x) /\ x < b
    BY <1>5, <1>6
  <2>2. CASE l \in 1..n
    BY <1>5, <1>6, <2>1, <2>2 DEF Comes
  <2>3. CASE l = n + 1
    BY <1>5, <1>6, <2>1, <2>3
  <2> QED BY <1>1, <2>2, <2>3
<1>7. ASSUME NEW x \in m..b PROVE \E k \in 1..(n + 1) : Coming(g, cs[k], r, x)
  <2>1. n + 1 \in 1..(n + 1) /\ \A k \in 1..n : k \in 1..(n + 1)
    OBVIOUS
  <2>2. CASE x = b
    BY <2>1, <2>2
  <2>3. CASE x # b
    <3>1. r \in lane.running /\ lane.req[r].slot # NoSlot /\ b = a + 1
      <4> SUFFICES ASSUME lane.req[r].done = 0 /\ b = InputLen[r] PROVE FALSE
        OBVIOUS
      <4>1. m = b
        BY <1>3
      <4> HIDE DEF m, b
      <4> QED BY <1>3, <2>3, <4>1
    <3>2. x \in m..a
      <4> HIDE DEF a, b, m
      <4> QED BY <1>3, <2>3, <3>1
    <3>3. PICK k \in 1..n : Coming(g, bs[k], r, x)
      BY <1>2, <3>1, <3>2 DEF Comes
    <3> QED BY <2>1, <3>3
  <2> QED BY <2>2, <2>3
<1>8. m <= b + 1
  <2> HIDE DEF m, b
  <2> QED BY <1>3, <1>4
<1> QED BY <1>5, <1>6, <1>7, <1>8 DEF Comes

LEMMA ComesLaunch ==
  ASSUME NEW lane, LaneOK(lane), LaneMore(lane), NEW phase, NEW b, b = Schedule(lane, phase),
         NEW g \in [Slots -> Nat], NEW bs, NEW cs, NEW n \in Nat, NEW r \in Reqs,
         Comes(lane, g, bs, n, r), \A k \in 1..n : cs[k] = bs[k],
         cs[n + 1] = [i \in DOMAIN b.entries |-> Stamped(b.entries[i], g[b.entries[i].slot])]
  PROVE  Comes(Launched(AllocatePaged(b.lane, b.entries), b.entries), g, cs, n + 1, r)
<1> DEFINE es   == b.entries
           m    == Len(es)
           next == Launched(AllocatePaged(b.lane, es), es)
           new  == cs[n + 1]
<1>1. BatchOK(lane, b) /\ Goes(lane, b, phase)
  BY ScheduleParts, ScheduleMore
<1>2. RunMore(b, m, next)
  BY <1>1, LaunchMore
<1>3. \A q \in Reqs : next.req[q].done = b.lane.req[q].done
  BY <1>1, LaunchParts
<1> HIDE DEF next
<1>4. /\ b.lane.running = lane.running /\ SameRow(lane, b.lane, r) /\ lane \in Lane
      /\ es \in Seq(Unit)
      /\ \A i \in 1..m : es[i].start = b.lane.req[es[i].req].cached
      /\ \A i, j \in 1..m : es[i].req = es[j].req => i = j
  BY <1>1 DEF BatchOK, LaneOK
<1>5. /\ b.lane.req[r] = lane.req[r] \/ \E i \in 1..m : es[i].req = r
      /\ \A i \in 1..m :
           LET e == es[i] IN
           /\ e.ext >= 1
           /\ e.chunked => e.start + e.ext < InputLen[e.req]
           /\ phase = "prefill" /\ ~e.chunked => /\ e.start + e.ext = InputLen[e.req]
                                                 /\ lane.req[e.req].done = 0
           /\ phase # "prefill" => ~e.chunked /\ e.ext = 1 /\ e.req \in lane.running
  BY <1>1 DEF Goes
<1>6. /\ next \in Lane
      /\ \/ next.req[r] = b.lane.req[r] /\ (r \in next.running <=> r \in b.lane.running)
         \/ \E i \in 1..m : es[i].req = r
      /\ \A i \in 1..m : Advanced(es[i], next)
  BY <1>2 DEF RunMore
<1>7. m \in Nat /\ DOMAIN es = 1..m /\ \A i \in 1..m : es[i] \in Unit
  <2> HIDE DEF es
  <2>1. es \in Seq(Unit)
    BY <1>4
  <2> QED BY <2>1 DEF m
<1> HIDE DEF m
<1>8. Len(new) = m /\ \A i \in 1..m : new[i] = Stamped(es[i], g[es[i].slot])
  <2>1. new = [i \in 1..m |-> Stamped(es[i], g[es[i].slot])]
    BY <1>7
  <2> HIDE DEF new, es
  <2>2. DOMAIN new = 1..m
    BY <2>1
  <2>3. Len(new) = m
    BY <1>7, <2>1
  <2> QED BY <2>1, <2>3
<1> HIDE DEF es, new
<1>9. \A i \in 1..m : /\ new[i].req = es[i].req /\ new[i].chunked = es[i].chunked
                      /\ new[i].slot = es[i].slot /\ new[i].gen = g[es[i].slot]
                      /\ new[i].start = es[i].start /\ new[i].ext = es[i].ext
  BY <1>8 DEF Stamped
<1>10. \A x : Coming(g, new, r, x) <=>
               \E i \in 1..m : es[i].req = r /\ ~es[i].chunked /\ x = es[i].start + es[i].ext
  BY <1>8, <1>9 DEF Coming
<1>11. next.req[r].done = lane.req[r].done
  BY <1>3, <1>4 DEF SameRow
<1>12. CASE ~\E i \in 1..m : es[i].req = r
  BY <1>4, <1>5, <1>6, <1>10, <1>12, ComesSame, ZenonT(30) DEF new, next, es
<1>13. CASE \E i \in 1..m : es[i].req = r
  <2>1. PICK i \in 1..m : es[i].req = r
    BY <1>13
  <2> DEFINE e == es[i]
             k == e.start + e.ext
  <2>2. /\ e.start = lane.req[r].cached /\ e.start \in Nat /\ e.ext \in Nat /\ e.ext >= 1 /\ k \in Nat
        /\ next.req[r].cached = k
        /\ r \in next.running => ~e.chunked
    <3>1. e.start = lane.req[r].cached
      BY <1>4, <2>1 DEF SameRow
    <3>2. e \in Unit
      BY <1>7
    <3>3. e.start \in Nat /\ e.ext \in Nat
      BY <3>2 DEF Unit
    <3>4. next.req[r].cached = k /\ (r \in next.running => ~e.chunked)
      BY <1>6, <2>1 DEF Advanced
    <3> HIDE DEF e
    <3> QED BY <1>5, <3>1, <3>3, <3>4 DEF e
  <2>3. \A x : Coming(g, cs[n + 1], r, x) <=> ~e.chunked /\ x = k
    BY <1>4, <1>10, <2>1 DEF new
  <2>4. lane.req[r].cached < k
    <3> HIDE DEF e
    <3> QED BY <2>2
  <2>5. CASE e.chunked
    <3>1. next.req[r].cached < InputLen[r]
      BY <1>5, <2>1, <2>2, <2>5
    <3>2. lane.req[r].cached <= next.req[r].cached
      <4> HIDE DEF k
      <4> QED BY <1>4, <2>2, <2>4, RowNats
    <3>3. Comes(next, g, cs, n + 1, r)
      BY <1>4, <1>6, <1>11, <2>2, <2>3, <2>5, <3>1, <3>2, ComesChunk
    <3> QED BY <3>3 DEF next, es
  <2>6. CASE ~e.chunked
    <3>1. \/ lane.req[r].done = 0 /\ next.req[r].cached = InputLen[r]
          \/ r \in lane.running /\ lane.req[r].slot # NoSlot
             /\ next.req[r].cached = lane.req[r].cached + 1
      <4>1. CASE phase = "prefill"
        BY <1>5, <2>1, <2>2, <2>6, <4>1
      <4>2. CASE phase # "prefill"
        BY <1>5, <2>1, <2>2, <4>2 DEF LaneOK
      <4> QED BY <4>1, <4>2
    <3>2. /\ \A x : Coming(g, cs[n + 1], r, x) <=> x = next.req[r].cached
          /\ lane.req[r].cached < next.req[r].cached
      BY <2>2, <2>3, <2>4, <2>6
    <3>3. Comes(next, g, cs, n + 1, r)
      BY <1>4, <1>6, <1>11, <3>1, <3>2, ComesToken
    <3> QED BY <3>3 DEF next, es
  <2> QED BY <2>5, <2>6
<1> QED BY <1>12, <1>13

(* A completion: what was under way still is, but for the step completed,  *)
(* whose token was the one wanted.                                         *)
LEMMA ComingStays ==
  ASSUME NEW lane, LaneOK(lane), NEW g \in [Slots -> Nat], NEW batch \in Seq(Entry),
         Flying(lane, g, batch), NEW done, Completes(lane, done), Leaves(lane, done), NEW r \in Reqs
  PROVE  LET h == Forget(g, done.freed)
         IN  /\ \A x : Coming(h, batch, r, x) => Coming(g, batch, r, x)
             /\ done.lane.req[r].slot # NoSlot =>
                  \A x : Coming(g, batch, r, x) => Coming(h, batch, r, x)
<1> DEFINE h == Forget(g, done.freed)
           next == done.lane
<1>1. h \in [Slots -> Nat] /\ \A s \in Slots : g[s] <= h[s] /\ (h[s] = g[s] <=> s \notin Range(done.freed))
  BY ForgetParts
<1> HIDE DEF h
<1>2. ASSUME NEW i \in 1..Len(batch)
      PROVE  /\ batch[i].slot \in Slots /\ batch[i].gen \in Nat
             /\ g[batch[i].slot] \in Nat /\ h[batch[i].slot] \in Nat
             /\ batch[i].gen <= g[batch[i].slot]
             /\ batch[i].gen = g[batch[i].slot] => lane.req[batch[i].req].slot = batch[i].slot
  <2>1. batch[i] \in Entry /\ i \in DOMAIN batch
    OBVIOUS
  <2>2. batch[i].slot \in Slots /\ batch[i].gen \in Nat
    BY <2>1 DEF Entry
  <2>3. g[batch[i].slot] \in Nat /\ h[batch[i].slot] \in Nat
    BY <1>1, <2>2
  <2> QED BY <2>1, <2>2, <2>3 DEF Flying
<1>3. ASSUME NEW i \in 1..Len(batch), batch[i].gen = h[batch[i].slot]
      PROVE  batch[i].gen = g[batch[i].slot]
  BY <1>1, <1>2, <1>3
<1>4. \A x : Coming(h, batch, r, x) => Coming(g, batch, r, x)
  BY <1>3 DEF Coming
<1>5. ASSUME next.req[r].slot # NoSlot, NEW i \in 1..Len(batch), batch[i].req = r,
             batch[i].gen = g[batch[i].slot]
      PROVE  batch[i].gen = h[batch[i].slot]
  <2>1. lane.req[r].slot = batch[i].slot /\ batch[i].slot \in Slots
    BY <1>2, <1>5
  <2>2. next.req[r].slot = batch[i].slot
    <3>1. CASE Kept(lane, done, r)
      BY <2>1, <3>1 DEF Kept
    <3>2. ASSUME NEW token, Answered(lane, done, token, r)
          PROVE  next.req[r].slot = batch[i].slot
      BY <1>5, <2>1, <3>2 DEF Answered, Present
    <3> QED BY <3>1, <3>2 DEF Completes
  <2>3. next.req[r].slot \notin Range(next.slots)
    BY DEF Completes, LaneOK, Rows, RowOf
  <2>4. batch[i].slot \notin Range(done.freed)
    BY <2>2, <2>3 DEF Leaves
  <2> QED BY <1>1, <1>5, <2>1, <2>4
<1>6. next.req[r].slot # NoSlot => \A x : Coming(g, batch, r, x) => Coming(h, batch, r, x)
  BY <1>5 DEF Coming
<1> QED BY <1>4, <1>6 DEF h

LEMMA FirstComes ==
  ASSUME NEW lane \in Lane, NEW g, NEW bs, NEW n \in Nat, NEW r \in Reqs,
         Comes(lane, g, bs, n + 1, r), lane.req[r].slot # NoSlot,
         \A i, j \in 1..Len(bs[1]) : bs[1][i].req = bs[1][j].req => i = j,
         NEW x \in Nat, Coming(g, bs[1], r, x)
  PROVE  x = Wanted(lane, r)
<1> DEFINE m == Wanted(lane, r)
           a == lane.req[r].cached
<1>1. m \in Nat /\ a \in Nat /\ 1 \in 1..(n + 1)
  BY RowNats
<1>2. m <= x /\ x <= a
  BY <1>1 DEF Comes
<1>3. m \in m..a
  <2> HIDE DEF m, a
  <2> QED BY <1>1, <1>2
<1>4. PICK k \in 1..(n + 1) : Coming(g, bs[k], r, m)
  BY <1>3 DEF Comes
<1>5. CASE k = 1
  <2>1. PICK i \in 1..Len(bs[1]) : bs[1][i].req = r /\ x = bs[1][i].start + bs[1][i].ext
    BY DEF Coming
  <2>2. PICK j \in 1..Len(bs[1]) : bs[1][j].req = r /\ m = bs[1][j].start + bs[1][j].ext
    BY <1>4, <1>5 DEF Coming
  <2>3. i = j
    BY <2>1, <2>2
  <2> QED BY <2>1, <2>2, <2>3
<1>6. CASE k # 1
  <2>1. 1 < k
    BY <1>6
  <2>2. x < m
    BY <1>1, <1>4, <2>1 DEF Comes
  <2> HIDE DEF m, a
  <2>3. FALSE
    BY <1>1, <1>2, <2>2
  <2> QED BY <2>3
<1> QED BY <1>5, <1>6

Ending(lane, g, bs, cs, n, items, done, r) ==
  /\ LaneOK(lane) /\ g \in [Slots -> Nat] /\ n \in Nat
  /\ \A k \in 1..(n + 1) : bs[k] \in Seq(Entry) /\ Flying(lane, g, bs[k])
  /\ \A k \in 1..n : cs[k] = bs[k + 1]
  /\ \A i \in 1..Len(bs[1]) : Brings(items[i]) <=>
       ~bs[1][i].chunked /\ g[bs[1][i].slot] = bs[1][i].gen
  /\ Completes(lane, done) /\ Leaves(lane, done)
  /\ Got(lane, bs[1], items, done, r) /\ Comes(lane, g, bs, n + 1, r)

LEMMA ComesEnds ==
  ASSUME NEW lane, NEW g, NEW bs, NEW cs, NEW n, NEW items, NEW done, NEW r \in Reqs,
         Ending(lane, g, bs, cs, n, items, done, r)
  PROVE  /\ Comes(done.lane, Forget(g, done.freed), cs, n, r)
         /\ \A i \in 1..Len(bs[1]) : bs[1][i].req = r /\ Brings(items[i]) /\ lane.req[r].slot # NoSlot =>
              bs[1][i].start + bs[1][i].ext = Wanted(lane, r)
<1> USE DEF Ending
<1> DEFINE h == Forget(g, done.freed)
           next == done.lane
           m == Wanted(lane, r)
           a == lane.req[r].cached
           c == Wanted(next, r)
<1>1. /\ \A k \in 1..n : k + 1 \in 1..(n + 1) /\ k + 1 # 1 /\ 1 < k + 1
      /\ \A k \in 1..(n + 1) : k # 1 => k - 1 \in 1..n /\ (k - 1) + 1 = k
      /\ 1 \in 1..(n + 1)
  OBVIOUS
<1>2. ASSUME NEW k \in 1..n
      PROVE  /\ \A x : Coming(h, cs[k], r, x) => Coming(g, bs[k + 1], r, x)
             /\ next.req[r].slot # NoSlot => \A x : Coming(g, bs[k + 1], r, x) => Coming(h, cs[k], r, x)
  <2> DEFINE b == bs[k + 1]
  <2>1. b \in Seq(Entry) /\ Flying(lane, g, b) /\ cs[k] = b
    BY <1>1
  <2> HIDE DEF b
  <2>2. /\ \A x : Coming(h, b, r, x) => Coming(g, b, r, x)
        /\ next.req[r].slot # NoSlot => \A x : Coming(g, b, r, x) => Coming(h, b, r, x)
    BY <2>1, ComingStays
  <2> QED BY <2>1, <2>2 DEF b
<1> HIDE DEF h
<1>3. /\ lane \in Lane /\ next \in Lane /\ next.running \subseteq lane.running
      /\ m \in Nat /\ a \in Nat /\ c \in Nat /\ next.req[r].cached \in Nat
      /\ m = InputLen[r] + lane.req[r].done /\ c = InputLen[r] + next.req[r].done
      /\ InputLen[r] \in Nat /\ lane.req[r].done \in Nat
  BY RowNats DEF LaneOK, Completes, Leaves
<1>4. \A i, j \in 1..Len(bs[1]) : bs[1][i].req = bs[1][j].req => i = j
  BY <1>1 DEF Flying
<1>5. ASSUME NEW i \in 1..Len(bs[1]), bs[1][i].req = r, Brings(items[i]), lane.req[r].slot # NoSlot
      PROVE  /\ bs[1][i].start + bs[1][i].ext = m /\ Coming(g, bs[1], r, m)
             /\ m <= a
  <2> DEFINE x == bs[1][i].start + bs[1][i].ext
  <2>1. Coming(g, bs[1], r, x)
    BY <1>5 DEF Coming
  <2>2. x \in Nat
    <3> DEFINE e == bs[1][i]
    <3>1. bs[1] \in Seq(Entry)
      BY <1>1
    <3>2. e \in Entry
      BY <3>1
    <3> HIDE DEF e
    <3>3. e.start \in Nat /\ e.ext \in Nat
      BY <3>2 DEF Entry
    <3>4. e.start + e.ext \in Nat
      BY ONLY <3>3
    <3> QED BY <3>4 DEF e
  <2> HIDE DEF x
  <2>3. x = m
    BY <1>3, <1>4, <1>5, <2>1, <2>2, FirstComes
  <2>4. m <= a
    BY <1>1, <1>3, <2>1, <2>3 DEF Comes
  <2> QED BY <2>1, <2>3, <2>4 DEF x
<1>6. ASSUME NEW x \in Nat, NEW y \in Nat, NEW k \in 1..n, NEW l \in 1..n, k < l,
             Coming(h, cs[k], r, x), Coming(h, cs[l], r, y)
      PROVE  x < y
  <2>1. k + 1 < l + 1
    BY <1>6
  <2>2. Coming(g, bs[k + 1], r, x) /\ Coming(g, bs[l + 1], r, y) /\ k + 1 \in 1..(n + 1) /\ l + 1 \in 1..(n + 1)
    BY <1>1, <1>2, <1>6
  <2> QED BY <2>1, <2>2 DEF Comes
<1>7. ASSUME NEW x \in Nat, NEW k \in 1..n, Coming(h, cs[k], r, x)
      PROVE  m <= x /\ x <= a
  BY <1>1, <1>2, <1>7 DEF Comes
<1>8. ASSUME next.req[r].slot # NoSlot, NEW x, NEW k \in 1..(n + 1), k # 1, Coming(g, bs[k], r, x)
      PROVE  \E l \in 1..n : Coming(h, cs[l], r, x)
  BY <1>1, <1>2, <1>8
<1>9. ASSUME Kept(lane, done, r), \A i \in 1..Len(bs[1]) : Brings(items[i]) => bs[1][i].req # r
      PROVE  Comes(next, h, cs, n, r)
  <2>1. next.req[r] = lane.req[r] /\ (r \in next.running => r \in lane.running)
    BY <1>9 DEF Kept
  <2>2. c = m /\ next.req[r].cached = a
    BY <2>1 DEF Wanted
  <2>3. \A x : ~Coming(g, bs[1], r, x)
    BY <1>9 DEF Coming
  <2>4. lane.req[r].slot # NoSlot => \A x \in m..a : \E k \in 1..(n + 1) : Coming(g, bs[k], r, x)
    BY DEF Comes
  <2>5. r \in next.running => m <= a + 1
    BY <2>1 DEF Comes
  <2> HIDE DEF next, m, a, c
  <2>6. ASSUME next.req[r].slot # NoSlot, NEW x \in m..a PROVE \E l \in 1..n : Coming(h, cs[l], r, x)
    <3>1. PICK k \in 1..(n + 1) : Coming(g, bs[k], r, x)
      BY <2>1, <2>4, <2>6
    <3>2. k # 1
      BY <2>3, <3>1
    <3> QED BY <1>8, <2>6, <3>1, <3>2 DEF next
  <2>7. \A x \in m..a : next.req[r].slot # NoSlot => \E l \in 1..n : Coming(h, cs[l], r, x)
    BY <2>6
  <2> QED BY <1>6, <1>7, <2>2, <2>5, <2>7, Zenon DEF Comes, m, a, c, next
<1>10. ASSUME NEW i \in 1..Len(bs[1]), bs[1][i].req = r, Brings(items[i]),
              Answered(lane, done, items[i].token, r)
       PROVE  Comes(next, h, cs, n, r)
  <2>1. lane.req[r].slot # NoSlot /\ next.req[r].cached = a /\ next.req[r].done = lane.req[r].done + 1
    BY <1>10 DEF Answered
  <2>2. Coming(g, bs[1], r, m) /\ c = m + 1 /\ m <= a
    <3>1. Coming(g, bs[1], r, m) /\ m <= a
      BY <1>5, <1>10, <2>1
    <3> HIDE DEF m, c
    <3> QED BY <1>3, <2>1, <3>1
  <2>3. ASSUME NEW x \in Nat, NEW k \in 1..n, Coming(h, cs[k], r, x)
        PROVE  c <= x /\ x <= a
    <3>1. Coming(g, bs[k + 1], r, x) /\ k + 1 \in 1..(n + 1) /\ 1 < k + 1
      BY <1>1, <1>2, <2>3
    <3>2. m < x
      BY <1>1, <1>3, <2>2, <3>1 DEF Comes
    <3>3. x <= a
      BY <1>7, <2>3
    <3> HIDE DEF m, c, a
    <3> QED BY <1>3, <2>2, <3>2, <3>3
  <2>4. ASSUME next.req[r].slot # NoSlot, NEW x \in c..a PROVE \E l \in 1..n : Coming(h, cs[l], r, x)
    <3>1. x \in m..a /\ x # m
      <4> HIDE DEF m, c, a
      <4> QED BY <1>3, <2>2, <2>4
    <3>2. PICK k \in 1..(n + 1) : Coming(g, bs[k], r, x)
      BY <2>1, <3>1 DEF Comes
    <3>3. k # 1
      <4> SUFFICES ASSUME k = 1 PROVE FALSE
        OBVIOUS
      <4>1. x \in Nat /\ Coming(g, bs[1], r, x)
        <5>1. x \in Nat
          <6> HIDE DEF m, a
          <6> QED BY <1>3, <3>1
        <5> QED BY <3>2, <5>1
      <4>2. x = m
        BY <1>3, <1>4, <2>1, <4>1, FirstComes
      <4> QED BY <3>1, <4>2
    <3> QED BY <1>8, <2>4, <3>2, <3>3
  <2>5. c <= a + 1
    <3> HIDE DEF m, c, a
    <3> QED BY <1>3, <2>2
  <2> QED BY <1>6, <2>1, <2>3, <2>4, <2>5 DEF Comes
<1>11. Comes(next, h, cs, n, r)
  <2> HIDE DEF next
  <2> QED BY <1>9, <1>10, Zenon DEF Got
<1> QED BY <1>5, <1>11 DEF h

-----------------------------------------------------------------------------
(* The steps of a worker pass from its queue to those in flight to its     *)
(* replies, in the order of their numbers.                                 *)
EgStep  == [type : {"step"}, step : Nat]
Timed   == AgStep \cup EgStep
Command == Timed \cup {Flush, Stop}
Flight  == [step : Nat, tokens : Seq(Token)]
Arrival == [step : Nat, worker : Workers, tokens : Seq(Token)]

Rising(q, S) ==
  \A i, j \in 1..Len(q) : i < j /\ q[i] \in S /\ q[j] \in S => q[i].step < q[j].step
Paced(q, f, from, s, now) ==
  /\ q \in Seq(Command) /\ Rising(q, Timed) /\ f \in Seq(Flight) /\ Rising(f, Flight)
  /\ s \in Nat /\ s < now
  /\ \A c \in Range(q) : c \in Timed => s < c.step /\ c.step < now
  /\ \A x \in Range(f) : x.step <= s
  /\ \A a \in from : a.step <= s /\ \A x \in Range(f) : a.step < x.step
  /\ \A a, b \in from : a.step = b.step => a = b
Of(w) == {a \in replies : a.worker = w}

LEMMA RisingTail ==
  ASSUME NEW T, NEW q \in Seq(T), q # <<>>, NEW S, Rising(q, S)
  PROVE  /\ Tail(q) \in Seq(T) /\ Rising(Tail(q), S) /\ Head(q) \in T
         /\ Range(q) = Range(Tail(q)) \cup {Head(q)}
         /\ Head(q) \in S => \A x \in Range(Tail(q)) : x \in S => Head(q).step < x.step
<1> DEFINE p == Tail(q)
           n == Len(p)
<1>1. /\ p \in Seq(T) /\ n \in Nat /\ Len(q) = n + 1 /\ Head(q) = q[1]
      /\ DOMAIN q = 1..(n + 1) /\ DOMAIN p = 1..n
      /\ \A i \in 1..n : p[i] = q[i + 1]
  OBVIOUS
<1> HIDE DEF p, n
<1>2. /\ \A i \in 1..n : i + 1 \in 1..(n + 1) /\ 1 < i + 1
      /\ \A i, j \in 1..n : i < j => i + 1 < j + 1
      /\ \A i \in 1..(n + 1) : i # 1 => i - 1 \in 1..n /\ (i - 1) + 1 = i
      /\ 1 \in 1..(n + 1)
  BY <1>1
<1>3. Rising(p, S) /\ \A i \in 1..n : q[1] \in S /\ p[i] \in S => q[1].step < p[i].step
  BY <1>1, <1>2 DEF Rising, n
<1>4. Range(p) = {p[i] : i \in 1..n} /\ Range(q) = {q[i] : i \in 1..(n + 1)}
  BY <1>1 DEF Range
<1>5. Range(q) = Range(p) \cup {q[1]}
  BY <1>1, <1>2, <1>4
<1>6. q[1] \in T
  BY <1>1, <1>2
<1> QED BY <1>1, <1>3, <1>4, <1>5, <1>6 DEF p

LEMMA RisingAppend ==
  ASSUME NEW T, NEW q \in Seq(T), NEW c \in T, NEW S, Rising(q, S),
         c \in S => \A x \in Range(q) : x \in S => x.step < c.step
  PROVE  /\ Append(q, c) \in Seq(T) /\ Rising(Append(q, c), S)
         /\ Range(Append(q, c)) = Range(q) \cup {c}
<1> DEFINE p == Append(q, c)
           n == Len(q)
<1>1. /\ p \in Seq(T) /\ n \in Nat /\ Len(p) = n + 1 /\ p[n + 1] = c
      /\ DOMAIN p = 1..(n + 1) /\ DOMAIN q = 1..n
      /\ \A i \in 1..n : p[i] = q[i]
  BY AppendParts
<1> HIDE DEF p, n
<1>2. /\ \A i \in 1..(n + 1) : i = n + 1 \/ i \in 1..n
      /\ \A i, j \in 1..(n + 1) : i < j => i \in 1..n
      /\ \A i \in 1..n : i \in 1..(n + 1)
      /\ n + 1 \in 1..(n + 1)
  BY <1>1
<1>3. Range(q) = {q[i] : i \in 1..n} /\ Range(p) = {p[i] : i \in 1..(n + 1)}
  BY <1>1 DEF Range
<1>4. Range(p) = Range(q) \cup {c}
  BY <1>1, <1>2, <1>3
<1>5. Rising(p, S)
  BY <1>1, <1>2, <1>3 DEF Rising, n
<1> QED BY <1>1, <1>4, <1>5 DEF p

LEMMA Steps ==
  /\ \A c \in Timed : c.step \in Nat /\ c.type = "step" /\ c \in Command
  /\ \A c \in Command : c \in Timed <=> c.type = "step"
  /\ Flush \in Command /\ Stop \in Command /\ Flush \notin Timed /\ Stop \notin Timed
  /\ \A x \in Flight : x.step \in Nat
  /\ \A a \in Arrival : a.step \in Nat
BY DEF Timed, Command, EgStep, AgStep, Flight, Arrival, Flush, Stop

LEMMA PacedAppend ==
  ASSUME NEW q, NEW f, NEW from, NEW s, NEW now \in Nat, Paced(q, f, from, s, now), NEW c \in Command
  PROVE  /\ c \notin Timed => Paced(Append(q, c), f, from, s, now)
         /\ c \in Timed /\ c.step = now => Paced(Append(q, c), f, from, s, now + 1)
<1> DEFINE p == Append(q, c)
<1>1. /\ q \in Seq(Command) /\ s \in Nat /\ s < now /\ Rising(q, Timed)
      /\ \A x \in Range(q) : x \in Timed => s < x.step /\ x.step < now
  BY DEF Paced
<1>2. CASE c \notin Timed
  <2>1. p \in Seq(Command) /\ Rising(p, Timed) /\ Range(p) = Range(q) \cup {c}
    BY <1>1, <1>2, RisingAppend
  <2> HIDE DEF p
  <2>2. Paced(p, f, from, s, now)
    BY <1>2, <2>1 DEF Paced
  <2> QED BY <1>2, <2>2 DEF p
<1>3. CASE c \in Timed /\ c.step = now
  <2>1. p \in Seq(Command) /\ Rising(p, Timed) /\ Range(p) = Range(q) \cup {c}
    BY <1>1, <1>3, RisingAppend
  <2> HIDE DEF p
  <2>2. \A x \in Range(p) : x \in Timed => s < x.step /\ x.step < now + 1
    BY <1>1, <1>3, <2>1, Steps
  <2>3. s < now + 1
    BY <1>1
  <2>4. Paced(p, f, from, s, now + 1)
    BY <2>1, <2>2, <2>3 DEF Paced
  <2> QED BY <1>3, <2>4 DEF p
<1> QED BY <1>2, <1>3

LEMMA PacedTail ==
  ASSUME NEW q, NEW f, NEW from \in SUBSET Arrival, NEW s, NEW now \in Nat, Paced(q, f, from, s, now),
         q # <<>>
  PROVE  /\ Head(q) \notin Timed => Paced(Tail(q), f, from, s, now)
         /\ Head(q) \in Timed => \A tokens \in Seq(Token) :
              Paced(Tail(q), Append(f, [step |-> Head(q).step, tokens |-> tokens]), from,
                    Head(q).step, now)
<1> DEFINE p == Tail(q)
           n == Head(q).step
<1>1. /\ q \in Seq(Command) /\ s \in Nat /\ s < now /\ Rising(q, Timed) /\ Rising(f, Flight)
      /\ f \in Seq(Flight)
      /\ \A x \in Range(q) : x \in Timed => s < x.step /\ x.step < now
      /\ \A x \in Range(f) : x.step <= s
      /\ \A a \in from : a.step <= s /\ \A x \in Range(f) : a.step < x.step
      /\ \A a, b \in from : a.step = b.step => a = b
  BY DEF Paced
<1>2. /\ p \in Seq(Command) /\ Rising(p, Timed) /\ Range(q) = Range(p) \cup {Head(q)}
      /\ Head(q) \in Timed => \A x \in Range(p) : x \in Timed => n < x.step
  BY <1>1, RisingTail
<1> HIDE DEF p
<1>3. CASE Head(q) \notin Timed
  BY <1>1, <1>2, <1>3 DEF Paced, p
<1>4. ASSUME Head(q) \in Timed, NEW tokens \in Seq(Token)
      PROVE  Paced(p, Append(f, [step |-> n, tokens |-> tokens]), from, n, now)
  <2> DEFINE y == [step |-> n, tokens |-> tokens]
             g == Append(f, y)
  <2>1. n \in Nat /\ s < n /\ n < now
    BY <1>1, <1>2, <1>4, Steps
  <2>2. y \in Flight /\ y.step = n
    BY <2>1 DEF Flight
  <2> HIDE DEF y, n
  <2>3. \A x \in Range(f) : x \in Flight /\ x.step \in Nat
    BY <1>1, Steps DEF Range
  <2>4. \A x \in Range(f) : x.step < y.step
    BY <1>1, <2>1, <2>2, <2>3
  <2>5. g \in Seq(Flight) /\ Rising(g, Flight) /\ Range(g) = Range(f) \cup {y}
    BY <1>1, <2>2, <2>4, RisingAppend
  <2> HIDE DEF g
  <2>6. \A a \in from : a.step \in Nat
    BY Steps
  <2>7. \A a \in from : a.step <= n /\ \A x \in Range(g) : a.step < x.step
    BY <1>1, <2>1, <2>2, <2>5, <2>6
  <2>8. \A x \in Range(g) : x.step <= n
    BY <1>1, <2>1, <2>2, <2>3, <2>5
  <2>9. \A x \in Range(p) : x \in Timed => n < x.step /\ x.step < now
    BY <1>1, <1>2, <1>4 DEF n
  <2>10. Paced(p, g, from, n, now)
    BY <1>1, <1>2, <2>1, <2>5, <2>7, <2>8, <2>9 DEF Paced
  <2> QED BY <2>10 DEF g, y
<1> QED BY <1>3, <1>4 DEF p, n

LEMMA PacedFrom ==
  ASSUME NEW q, NEW f, NEW from \in SUBSET Arrival, NEW s, NEW now \in Nat, Paced(q, f, from, s, now)
  PROVE  /\ \A less \in SUBSET from : Paced(q, f, less, s, now)
         /\ f # <<>> => \A a \in Arrival : a.step = Head(f).step =>
              Paced(q, Tail(f), from \cup {a}, s, now)
<1>1. \A less \in SUBSET from : Paced(q, f, less, s, now)
  BY DEF Paced
<1>2. ASSUME f # <<>>, NEW a \in Arrival, a.step = Head(f).step
      PROVE  Paced(q, Tail(f), from \cup {a}, s, now)
  <2> DEFINE g == Tail(f)
             more == from \cup {a}
  <2>1. /\ f \in Seq(Flight) /\ Rising(f, Flight) /\ s \in Nat
        /\ \A x \in Range(f) : x.step <= s
        /\ \A b \in from : b.step <= s /\ \A x \in Range(f) : b.step < x.step
        /\ \A b, c \in from : b.step = c.step => b = c
    BY DEF Paced
  <2>2. /\ g \in Seq(Flight) /\ Rising(g, Flight) /\ Range(f) = Range(g) \cup {Head(f)}
        /\ \A x \in Range(g) : x \in Flight => a.step < x.step
    BY <1>2, <2>1, RisingTail
  <2> HIDE DEF g
  <2>3. /\ \A x \in Range(g) : x \in Flight
        /\ a.step \in Nat /\ \A b \in from : b.step \in Nat
    BY <2>2, Steps DEF Range
  <2>4. \A b \in more : b.step <= s /\ \A x \in Range(g) : b.step < x.step
    BY <1>2, <2>1, <2>2, <2>3
  <2>5. \A b, c \in more : b.step = c.step => b = c
    BY <1>2, <2>1, <2>2, <2>3
  <2> HIDE DEF more
  <2>6. Paced(q, g, more, s, now)
    BY <2>1, <2>2, <2>4, <2>5 DEF Paced
  <2> QED BY <2>6 DEF g, more
<1> QED BY <1>1, <1>2

(* What a worker does for a step of its lane: its command asks for the     *)
(* tokens of the step's batch, and those under way are of that batch.      *)
Asks(es, batch) ==
  /\ Len(es) = Len(batch)
  /\ \A i \in 1..Len(batch) : /\ es[i].req = batch[i].req
                              /\ es[i].start = batch[i].start /\ es[i].ext = batch[i].ext
Matches(tokens, batch) ==
  /\ Len(tokens) = Len(batch)
  /\ \A i \in 1..Len(batch) : /\ tokens[i].of = batch[i].req
                              /\ tokens[i].at = batch[i].start + batch[i].ext
Linked(q, f, from, x, d) ==
  /\ \A c \in Range(q) : c \in Timed /\ c.step = x.step => Asks(c.entries, x.batch[d])
  /\ \A y \in Range(f) \cup from : y.step = x.step => Matches(y.tokens, x.batch[d])

LEMMA LinkedTail ==
  ASSUME NEW q \in Seq(Command), q # <<>>, NEW f \in Seq(Flight), NEW from, NEW x, NEW d,
         Linked(q, f, from, x, d)
  PROVE  /\ Linked(Tail(q), f, from, x, d)
         /\ Head(q) \in Timed => \A tokens \in Seq(Token) : Ask(Head(q).entries, tokens) =>
              Linked(Tail(q), Append(f, [step |-> Head(q).step, tokens |-> tokens]), from, x, d)
<1>1. Rising(q, {}) /\ Rising(f, {})
  BY DEF Rising
<1>2. Range(q) = Range(Tail(q)) \cup {Head(q)} /\ Head(q) \in Command
  BY <1>1, RisingTail
<1>3. Linked(Tail(q), f, from, x, d)
  BY <1>2 DEF Linked
<1>4. ASSUME Head(q) \in Timed, NEW tokens \in Seq(Token), Ask(Head(q).entries, tokens)
      PROVE  Linked(Tail(q), Append(f, [step |-> Head(q).step, tokens |-> tokens]), from, x, d)
  <2> DEFINE c == Head(q)
             y == [step |-> c.step, tokens |-> tokens]
             p == Tail(q)
             g == Append(f, y)
  <2>1. y.step = c.step /\ y.tokens = tokens /\ y \in Flight
    BY <1>4, Steps DEF Flight
  <2> HIDE DEF y, c
  <2>2. Range(g) = Range(f) \cup {y}
    BY <1>1, <2>1, RisingAppend
  <2> HIDE DEF g, p
  <2>3. y.step = x.step => Matches(y.tokens, x.batch[d])
    <3> SUFFICES ASSUME y.step = x.step PROVE Matches(y.tokens, x.batch[d])
      OBVIOUS
    <3>1. Asks(c.entries, x.batch[d])
      BY <1>2, <1>4, <2>1 DEF Linked, c
    <3> QED BY <1>4, <2>1, <3>1 DEF Asks, Ask, Matches, c
  <2>4. Linked(p, g, from, x, d)
    BY <1>2, <2>2, <2>3 DEF Linked, p
  <2> QED BY <2>4 DEF g, y, c, p
<1> QED BY <1>3, <1>4

LEMMA LinkedFrom ==
  ASSUME NEW q, NEW f \in Seq(Flight), f # <<>>, NEW from, NEW x, NEW d, Linked(q, f, from, x, d),
         NEW a, a.step = Head(f).step, a.tokens = Head(f).tokens
  PROVE  Linked(q, Tail(f), from \cup {a}, x, d)
<1>1. Rising(f, {})
  BY DEF Rising
<1>2. Range(f) = Range(Tail(f)) \cup {Head(f)}
  BY <1>1, RisingTail
<1> QED BY <1>2 DEF Linked

(* Every worker: its commands, its steps in flight and its replies.        *)
Coursing(w) ==
  /\ Paced(queue[w], inflight[w], Of(w), started[w], step)
  /\ w \in Dps => \A k \in 1..Len(pending) : Linked(queue[w], inflight[w], Of(w), pending[k], w)
  /\ draining[w] => inflight[w] # <<>>
CourseInv ==
  /\ inflight = [w \in Workers |-> inflight[w]] /\ started = [w \in Workers |-> started[w]]
  /\ draining = [w \in Workers |-> draining[w]] /\ replies \in SUBSET Arrival
  /\ \A k \in 1..Len(pending) : pending[k].step < step
  /\ \A w \in Workers : Coursing(w)

LEMMA CourseInit == Init => CourseInv
<1> SUFFICES ASSUME Init PROVE CourseInv
  OBVIOUS
<1>1. /\ pending = <<>> /\ step = 1 /\ replies = {} /\ queue = [w \in Workers |-> <<>>]
      /\ inflight = [w \in Workers |-> <<>>] /\ started = [w \in Workers |-> 0]
      /\ draining = [w \in Workers |-> FALSE]
  BY DEF Init
<1>2. /\ Len(pending) = 0 /\ <<>> \in Seq(Command) /\ <<>> \in Seq(Flight)
      /\ Range(<<>>) = {} /\ \A S : Rising(<<>>, S)
  BY <1>1 DEF Range, Rising
<1>3. ASSUME NEW w \in Workers PROVE Coursing(w)
  BY <1>1, <1>2 DEF Of, Paced, Coursing
<1> QED BY <1>1, <1>2, <1>3 DEF CourseInv

LEMMA CourseStays ==
  ASSUME CourseInv, UNCHANGED <<pending, step, queue, inflight, draining, started, replies>>
  PROVE  CourseInv'
BY DEF CourseInv, Coursing, Of

(* A worker moves alone.                                                   *)
LEMMA CourseMoves ==
  ASSUME CourseInv, NEW w \in Workers, UNCHANGED <<pending, step>>,
         inflight' = [v \in Workers |-> inflight'[v]], started' = [v \in Workers |-> started'[v]],
         draining' = [v \in Workers |-> draining'[v]], replies' \in SUBSET Arrival,
         \A v \in Workers \ {w} : /\ queue'[v] = queue[v] /\ inflight'[v] = inflight[v]
                                  /\ started'[v] = started[v] /\ draining'[v] = draining[v]
                                  /\ Of(v)' = Of(v),
         Coursing(w)'
  PROVE  CourseInv'
<1>1. ASSUME NEW v \in Workers PROVE Coursing(v)'
  <2>1. CASE v = w
    BY <2>1
  <2>2. CASE v # w
    BY <2>2 DEF CourseInv, Coursing
  <2> QED BY <2>1, <2>2
<1> QED BY <1>1 DEF CourseInv

LEMMA CourseTakes ==
  ASSUME CoordInv, LockInv, CourseInv, NEW w \in Workers, queue[w] # <<>>,
         queue' = [queue EXCEPT ![w] = Tail(@)], UNCHANGED <<pending, step, replies>>,
         \/ /\ Head(queue[w]).type # "step" /\ UNCHANGED <<inflight, started>>
            /\ draining' = [draining EXCEPT ![w] = inflight[w] # <<>>]
         \/ /\ Head(queue[w]).type = "step" /\ UNCHANGED draining
            /\ \E tokens \in Seq(Token) :
                 /\ inflight' = [inflight EXCEPT ![w] =
                                   Append(@, [step |-> Head(queue[w]).step, tokens |-> tokens])]
                 /\ w \in Dps => Ask(Head(queue[w]).entries, tokens)
            /\ started' = [started EXCEPT ![w] = Head(queue[w]).step]
  PROVE  CourseInv'
<1> DEFINE q == queue[w]
           f == inflight[w]
           s == started[w]
           from == Of(w)
           c == Head(q)
<1>1. /\ queue = [v \in Workers |-> queue[v]] /\ inflight = [v \in Workers |-> inflight[v]]
      /\ started = [v \in Workers |-> started[v]] /\ replies \in SUBSET Arrival
      /\ draining = [v \in Workers |-> draining[v]]
      /\ Coursing(w) /\ step \in Nat
  BY DEF LockInv, CourseInv, CoordInv, Shapes
<1>2. Paced(q, f, from, s, step) /\ (w \in Dps => \A k \in 1..Len(pending) : Linked(q, f, from, pending[k], w))
  BY <1>1 DEF Coursing
<1>3. from \in SUBSET Arrival /\ \A v \in Workers : Of(v)' = Of(v)
  BY <1>1 DEF Of
<1>4. /\ queue'[w] = Tail(q)
      /\ \A v \in Workers \ {w} : queue'[v] = queue[v] /\ inflight'[v] = inflight[v] /\ started'[v] = started[v]
      /\ inflight' = [v \in Workers |-> inflight'[v]] /\ started' = [v \in Workers |-> started'[v]]
      /\ draining' = [v \in Workers |-> draining'[v]]
      /\ \A v \in Workers \ {w} : draining'[v] = draining[v]
  BY <1>1
<1>5. q \in Seq(Command) /\ q # <<>> /\ f \in Seq(Flight) /\ c \in Command
  <2>1. q \in Seq(Command) /\ q # <<>> /\ f \in Seq(Flight)
    BY <1>2 DEF Paced
  <2> HIDE DEF q
  <2> QED BY <2>1
<1>6. CASE c.type # "step" /\ UNCHANGED <<inflight, started>> /\ draining' = [draining EXCEPT ![w] = f # <<>>]
  <2> HIDE DEF q, f, s, from
  <2>1. c \notin Timed
    BY <1>5, <1>6, Steps
  <2>2. Paced(Tail(q), f, from, s, step)
    BY <1>1, <1>2, <1>3, <1>5, <2>1, PacedTail
  <2>3. w \in Dps => \A k \in 1..Len(pending) : Linked(Tail(q), f, from, pending[k], w)
    BY <1>2, <1>5, LinkedTail
  <2>4. inflight'[w] = f /\ started'[w] = s /\ queue'[w] = Tail(q) /\ Of(w)' = from
        /\ draining'[w] = (f # <<>>)
    BY <1>1, <1>3, <1>4, <1>6 DEF f, s, from, q
  <2>5. Coursing(w)'
    BY <2>2, <2>3, <2>4 DEF Coursing
  <2> QED BY <1>1, <1>3, <1>4, <2>5, CourseMoves
<1>7. ASSUME c.type = "step", NEW tokens \in Seq(Token),
             inflight' = [inflight EXCEPT ![w] = Append(@, [step |-> c.step, tokens |-> tokens])],
             w \in Dps => Ask(c.entries, tokens), started' = [started EXCEPT ![w] = c.step],
             UNCHANGED draining
      PROVE  CourseInv'
  <2> DEFINE g == Append(f, [step |-> c.step, tokens |-> tokens])
  <2>1. inflight'[w] = g /\ started'[w] = c.step /\ queue'[w] = Tail(q) /\ Of(w)' = from
    BY <1>1, <1>3, <1>4, <1>7
  <2>2. c \in Timed
    BY <1>5, <1>7, Steps
  <2>6. g # <<>>
    BY <1>5
  <2> HIDE DEF q, f, s, from
  <2>3. Paced(Tail(q), g, from, c.step, step)
    BY <1>1, <1>2, <1>3, <1>5, <2>2, PacedTail
  <2>4. w \in Dps => \A k \in 1..Len(pending) : Linked(Tail(q), g, from, pending[k], w)
    BY <1>2, <1>5, <1>7, <2>2, LinkedTail
  <2> HIDE DEF g, c
  <2>5. Coursing(w)'
    BY <2>1, <2>3, <2>4, <2>6 DEF Coursing
  <2> QED BY <1>1, <1>3, <1>4, <1>7, <2>5, CourseMoves
<1> QED BY <1>6, <1>7

LEMMA CourseRetires ==
  ASSUME CoordInv, CourseInv, NEW w \in Workers, Retire(w)
  PROVE  CourseInv'
<1> DEFINE q == queue[w]
           f == inflight[w]
           s == started[w]
           from == Of(w)
           a == [step |-> Head(f).step, worker |-> w, tokens |-> Head(f).tokens]
<1>1. /\ Retiring(w) /\ replies' = replies \cup {a} /\ inflight' = [inflight EXCEPT ![w] = Tail(@)]
      /\ draining' = [draining EXCEPT ![w] = @ /\ inflight'[w] # <<>>]
      /\ UNCHANGED <<pending, step, queue, started>>
  BY DEF Retire, coordVars
<1>2. /\ inflight = [v \in Workers |-> inflight[v]] /\ started = [v \in Workers |-> started[v]]
      /\ draining = [v \in Workers |-> draining[v]]
      /\ replies \in SUBSET Arrival /\ Coursing(w) /\ step \in Nat
  BY DEF CourseInv, CoordInv, Shapes
<1>3. Paced(q, f, from, s, step) /\ (w \in Dps => \A k \in 1..Len(pending) : Linked(q, f, from, pending[k], w))
  BY <1>2 DEF Coursing
<1>4. f \in Seq(Flight) /\ f # <<>>
  <2>1. f \in Seq(Flight)
    BY <1>3 DEF Paced
  <2>2. CASE Len(f) > Lead
    <3>1. f # <<>>
      <4> HIDE DEF f
      <4> QED BY <2>1, <2>2, PipelineAssumption
    <3> QED BY <2>1, <3>1
  <2>3. CASE draining[w]
    BY <1>2, <2>1, <2>3 DEF Coursing
  <2> QED BY <1>1, <2>2, <2>3 DEF Retiring
<1>5. /\ inflight'[w] = Tail(f) /\ \A v \in Workers \ {w} : inflight'[v] = inflight[v]
      /\ inflight' = [v \in Workers |-> inflight'[v]]
      /\ draining' = [v \in Workers |-> draining'[v]] /\ (draining'[w] => inflight'[w] # <<>>)
      /\ \A v \in Workers \ {w} : draining'[v] = draining[v]
  BY <1>1, <1>2
<1>6. a \in Arrival /\ a.step = Head(f).step /\ a.tokens = Head(f).tokens /\ a.worker = w
  <2>1. Head(f) \in Flight
    <3> HIDE DEF f
    <3> QED BY <1>4
  <2> HIDE DEF f
  <2> QED BY <2>1 DEF Flight, Arrival
<1> HIDE DEF a
<1>7. replies' \in SUBSET Arrival /\ Of(w)' = from \cup {a} /\ \A v \in Workers \ {w} : Of(v)' = Of(v)
  BY <1>1, <1>2, <1>6 DEF Of
<1>8. from \in SUBSET Arrival
  BY <1>2 DEF Of
<1> HIDE DEF q, f, s, from
<1>9. Paced(q, Tail(f), from \cup {a}, s, step)
  BY <1>2, <1>3, <1>4, <1>6, <1>8, PacedFrom
<1>10. w \in Dps => \A k \in 1..Len(pending) : Linked(q, Tail(f), from \cup {a}, pending[k], w)
  BY <1>3, <1>4, <1>6, LinkedFrom
<1>11. Coursing(w)'
  BY <1>1, <1>5, <1>7, <1>9, <1>10 DEF Coursing, q, s
<1> QED BY <1>1, <1>2, <1>5, <1>7, <1>11, CourseMoves

LEMMA CourseWorker ==
  ASSUME CoordInv, LockInv, CourseInv, NEW w \in Workers, WorkerLoop(w)
  PROVE  CourseInv'
<1>1. CASE w = Expert /\ RunExpert
  <2> DEFINE c == Head(queue[w])
  <2>1. /\ queue[w] # <<>> /\ c.type = "step" /\ queue' = [queue EXCEPT ![w] = Tail(@)]
        /\ inflight' = [inflight EXCEPT ![w] = Append(@, [step |-> c.step, tokens |-> <<>>])]
        /\ started' = [started EXCEPT ![w] = c.step]
        /\ UNCHANGED <<pending, step, replies, draining>>
    BY <1>1 DEF RunExpert, NextCommand, coordVars
  <2>2. <<>> \in Seq(Token) /\ w \notin Dps
    BY <1>1, Ranks
  <2> QED BY <2>1, <2>2, CourseTakes
<1>2. CASE w \in Dps /\ RunAttention(w)
  <2> DEFINE c    == Head(queue[w])
             mat  == Materialized(stores[w], c)
             sampled(eos) == Sampled(mat, c, eos)
  <2>1. /\ queue[w] # <<>> /\ c.type = "step" /\ queue' = [queue EXCEPT ![w] = Tail(@)]
        /\ started' = [started EXCEPT ![w] = c.step]
        /\ UNCHANGED <<pending, step, replies, draining>>
    BY <1>2 DEF RunAttention, NextCommand, coordVars
  <2>2. PICK eos : inflight' = [inflight EXCEPT ![w] = Append(@, [step |-> c.step, tokens |-> sampled(eos)])]
    BY <1>2 DEF RunAttention
  <2>3. Lockstep(lanes[w], stores[w], queue[w], pendingFree[w])
    BY <1>2 DEF LockInv
  <2> DEFINE Good(x, p) == LET t == Sampled(Materialized(x, Head(p)), Head(p), eos)
                           IN  t \in Seq(Token) /\ Ask(Head(p).entries, t)
  <2>4. ASSUME NEW lane, NEW x, NEW p, NEW free, Lockstep(lane, x, p, free), p # <<>>,
               Head(p).type = "step"
        PROVE  Good(x, p)
    BY <2>4, LockRuns
  <2> HIDE DEF Good
  <2>5. Good(stores[w], queue[w])
    BY <2>1, <2>3, <2>4
  <2>6. sampled(eos) \in Seq(Token) /\ Ask(c.entries, sampled(eos))
    BY <2>5 DEF Good
  <2> HIDE DEF sampled
  <2> QED BY <2>1, <2>2, <2>6, CourseTakes
<1>3. CASE w \in Dps /\ AttentionFails(w)
  BY <1>3, CourseStays DEF AttentionFails, coordVars
<1>4. CASE TakeFlush(w) \/ TakeStop(w)
  BY <1>4, CourseTakes DEF TakeFlush, TakeStop, NextCommand, coordVars
<1>5. CASE Retire(w)
  BY <1>5, CourseRetires
<1> QED BY <1>1, <1>2, <1>3, <1>4, <1>5 DEF WorkerLoop, Attention

(* The coordinator tells, launches and completes.                          *)
LEMMA LinkedAppend ==
  ASSUME NEW q \in Seq(Command), NEW f, NEW from, NEW x, NEW d, Linked(q, f, from, x, d),
         NEW c \in Command, c \in Timed /\ c.step = x.step => Asks(c.entries, x.batch[d])
  PROVE  Linked(Append(q, c), f, from, x, d)
<1>1. Rising(q, {})
  BY DEF Rising
<1>2. Range(Append(q, c)) = Range(q) \cup {c}
  BY <1>1, RisingAppend
<1> QED BY <1>2 DEF Linked

LEMMA CourseTold ==
  ASSUME CoordInv, CourseInv, NEW cmds, cmds \in {<<Flush>>, <<Stop>>, <<Stop, Flush>>},
         queue' = ToAll(cmds), UNCHANGED <<pending, step, inflight, draining, started, replies>>
  PROVE  CourseInv'
<1>1. ASSUME NEW w \in Workers PROVE Coursing(w)'
  <2> DEFINE OK(p) == /\ Paced(p, inflight[w], Of(w), started[w], step)
                      /\ w \in Dps => \A k \in 1..Len(pending) :
                                        Linked(p, inflight[w], Of(w), pending[k], w)
             q == queue[w]
  <2>1. step \in Nat /\ OK(q) /\ (draining[w] => inflight[w] # <<>>)
    BY DEF CourseInv, Coursing, CoordInv, Shapes
  <2>2. ASSUME NEW p, OK(p), NEW c \in {Flush, Stop}
        PROVE  OK(Append(p, c)) /\ p \in Seq(Command)
    <3>1. c \in Command /\ c \notin Timed /\ p \in Seq(Command)
      BY <2>2, Steps DEF Paced
    <3> QED BY <2>1, <2>2, <3>1, PacedAppend, LinkedAppend
  <2> HIDE DEF OK, q
  <2>3. q \in Seq(Command)
    BY <2>1, <2>2
  <2>4. /\ q \o <<Flush>> = Append(q, Flush) /\ q \o <<Stop>> = Append(q, Stop)
        /\ q \o <<Stop, Flush>> = Append(Append(q, Stop), Flush)
    BY <2>3, Steps, JoinOne
  <2>5. OK(Append(q, Flush)) /\ OK(Append(q, Stop)) /\ OK(Append(Append(q, Stop), Flush))
    BY <2>1, <2>2
  <2>6. queue'[w] \in {q \o <<Flush>>, q \o <<Stop>>, q \o <<Stop, Flush>>}
    BY DEF ToAll, q
  <2>7. OK(queue'[w])
    BY <2>4, <2>5, <2>6
  <2> QED BY <2>1, <2>7 DEF OK, Coursing, Of
<1> QED BY <1>1 DEF CourseInv

LEMMA PendingSteps ==
  ASSUME CoordInv
  PROVE  Len(pending) \in Nat /\ \A k \in 1..Len(pending) : pending[k].step \in Nat
<1> DEFINE T == [step : Nat, batch : [Dps -> Seq(Entry)]]
<1>1. pending \in Seq(T) /\ \A x \in T : x.step \in Nat
  BY DEF CoordInv, Shapes
<1> HIDE DEF T
<1>2. Len(pending) \in Nat /\ \A k \in 1..Len(pending) : pending[k] \in T
  BY <1>1
<1> QED BY <1>1, <1>2

LEMMA CourseLaunches ==
  ASSUME CoordInv, LockInv, CourseInv, LaunchStep
  PROVE  CourseInv'
<1> DEFINE x == [step |-> step, batch |-> [d \in Dps |-> WithGeneration(d)]]
           sent(w) == IF w = Expert THEN EgPlan ELSE AgPlan(w)
<1>1. /\ queue' = [w \in Workers |-> Append(queue[w], sent(w))]
      /\ pending' = Append(pending, x) /\ step' = step + 1
      /\ UNCHANGED <<inflight, draining, started, replies>>
  BY DEF LaunchStep, workerVars
<1>2. step \in Nat /\ Shapes /\ Shapes'
  BY LaunchStepParts DEF CoordInv, Shapes
<1>3. x.step = step /\ \A d \in Dps : x.batch[d] = WithGeneration(d)
  OBVIOUS
<1>4. /\ Len(pending) \in Nat
      /\ \A k \in 1..Len(pending') : \/ k \in 1..Len(pending) /\ pending'[k] = pending[k]
                                     \/ pending'[k] = x
  <2> DEFINE T == [step : Nat, batch : [Dps -> Seq(Entry)]]
             n == Len(pending)
  <2>1. pending \in Seq(T)
    BY <1>2 DEF Shapes
  <2> HIDE DEF T, x
  <2>2. /\ Len(pending') = n + 1 /\ pending'[n + 1] = x /\ n \in Nat
        /\ \A k \in 1..n : pending'[k] = pending[k]
    BY <1>1, <2>1, AppendParts
  <2>3. \A k \in 1..(n + 1) : k \in 1..n \/ k = n + 1
    BY <2>2
  <2> QED BY <2>2, <2>3
<1> HIDE DEF x
<1>5. \A k \in 1..Len(pending') : pending'[k].step < step + 1
  <2>1. ASSUME NEW k \in 1..Len(pending), pending'[k] = pending[k] PROVE pending'[k].step < step + 1
    BY <1>2, <2>1, PendingSteps DEF CourseInv
  <2> QED BY <1>2, <1>3, <1>4, <2>1
<1>6. ASSUME NEW w \in Workers
      PROVE  /\ sent(w) \in Timed /\ sent(w) \in Command /\ sent(w).step = step
             /\ w \in Dps => Asks(sent(w).entries, WithGeneration(w))
  <2>1. CASE w = Expert
    BY <1>2, <2>1, Ranks DEF EgPlan, EgStep, Timed, Command
  <2>2. CASE w # Expert
    <3> DEFINE plan == AgPlan(w)
               b == Scheduled[w]
               es == b.entries
    <3>1. w \in Dps /\ sent(w) = plan
      BY <2>2, PipelineAssumption DEF Workers, Dps, Expert
    <3>2. plan.type = "step" /\ plan.step = step /\ plan.entries = [i \in DOMAIN es |-> Writes(b.lane, es[i])]
      BY DEF AgPlan
    <3> HIDE DEF plan
    <3>3. plan \in Cmds
      <4> DEFINE q == queue[w]
      <4>1. q \in Seq(Cmds) /\ Append(q, plan) \in Seq(Cmds)
        BY <1>1, <3>1, LockLaunchStep DEF LockInv, Lockstep
      <4> HIDE DEF q
      <4>2. Append(q, plan)[Len(q) + 1] = plan /\ Len(q) + 1 \in 1..Len(Append(q, plan))
        BY <4>1
      <4> QED BY <4>1, <4>2
    <3>4. plan \in AgStep
      BY <3>2, <3>3, StepCmd
    <3>5. BatchOK(lanes[w], b)
      BY <3>1, ScheduleParts DEF CoordInv, Scheduled
    <3> HIDE DEF b
    <3>6. DOMAIN es = 1..Len(es) /\ Len(es) \in Nat
      <4>1. es \in Seq(Unit)
        BY <3>5 DEF BatchOK
      <4> HIDE DEF es
      <4> QED BY <4>1
    <3>7. WithGeneration(w) = [i \in DOMAIN es |-> Stamped(es[i], gens[w][es[i].slot])]
      BY DEF WithGeneration, b
    <3> HIDE DEF es
    <3>8. Len(plan.entries) = Len(es) /\ Len(WithGeneration(w)) = Len(es)
      BY <3>2, <3>6, <3>7
    <3>9. Asks(plan.entries, WithGeneration(w))
      BY <3>2, <3>6, <3>7, <3>8 DEF Asks, Writes, Stamped
    <3> QED BY <3>1, <3>2, <3>4, <3>9 DEF Timed, Command
  <2> QED BY <2>1, <2>2
<1>7. ASSUME NEW w \in Workers PROVE Coursing(w)'
  <2> DEFINE q == queue[w]
             f == inflight[w]
             s == started[w]
             from == Of(w)
             c == sent(w)
             p == Append(q, c)
  <2>1. /\ Paced(q, f, from, s, step) /\ (draining[w] => f # <<>>)
        /\ w \in Dps => \A k \in 1..Len(pending) : Linked(q, f, from, pending[k], w)
    BY DEF CourseInv, Coursing
  <2>2. /\ queue'[w] = p /\ inflight'[w] = f /\ started'[w] = s /\ Of(w)' = from
        /\ draining'[w] = draining[w]
    BY <1>1 DEF Of
  <2>3. /\ c \in Timed /\ c \in Command /\ c.step = step
        /\ w \in Dps => Asks(c.entries, x.batch[w])
    BY <1>3, <1>6
  <2>4. from \in SUBSET Arrival
    BY DEF CourseInv, Of
  <2> HIDE DEF q, f, s, from, c
  <2>5. Paced(p, f, from, s, step + 1)
    BY <1>2, <2>1, <2>3, PacedAppend
  <2>6. q \in Seq(Command) /\ f \in Seq(Flight)
    BY <2>1 DEF Paced
  <2>7. ASSUME w \in Dps, NEW k \in 1..Len(pending) PROVE Linked(p, f, from, pending[k], w)
    <3>1. pending[k].step # step
      BY <1>2, PendingSteps DEF CourseInv
    <3>2. Linked(q, f, from, pending[k], w) /\ c.step # pending[k].step
      BY <2>1, <2>3, <2>7, <3>1
    <3> QED BY <2>3, <2>6, <3>2, LinkedAppend
  <2>8. ASSUME w \in Dps PROVE Linked(p, f, from, x, w)
    <3>1. \A y \in Range(q) : y \in Timed => y.step # step
      BY <1>2, <2>1, Steps DEF Paced
    <3>2. \A y \in Range(f) \cup from : y.step # step
      BY <1>2, <2>1, <2>4, <2>6, Steps DEF Paced, Range
    <3>3. Linked(q, f, from, x, w)
      BY <1>3, <3>1, <3>2 DEF Linked
    <3> QED BY <2>3, <2>6, <2>8, <3>3, LinkedAppend
  <2>9. w \in Dps => \A k \in 1..Len(pending') : Linked(p, f, from, pending'[k], w)
    BY <1>4, <2>7, <2>8
  <2> HIDE DEF p
  <2> QED BY <1>1, <2>1, <2>2, <2>5, <2>9 DEF Coursing
<1> QED BY <1>1, <1>5, <1>7 DEF CourseInv

LEMMA CourseCompletes ==
  ASSUME CoordInv, CourseInv, CompleteStep
  PROVE  CourseInv'
<1>1. /\ pending # <<>> /\ pending' = Tail(pending) /\ replies' \subseteq replies
      /\ UNCHANGED <<step, queue, inflight, draining, started>>
  BY DEF CompleteStep, workerVars
<1>2. \A k \in 1..Len(pending') : k + 1 \in 1..Len(pending) /\ pending'[k] = pending[k + 1]
  <2> DEFINE T == [step : Nat, batch : [Dps -> Seq(Entry)]]
  <2>1. pending \in Seq(T)
    BY DEF CoordInv, Shapes
  <2> HIDE DEF T
  <2>2. /\ Tail(pending) \in Seq(T)
        /\ \A k \in DOMAIN Tail(pending) : k + 1 \in DOMAIN pending /\ Tail(pending)[k] = pending[k + 1]
    BY <1>1, <2>1, TailParts
  <2>3. DOMAIN pending = 1..Len(pending) /\ DOMAIN Tail(pending) = 1..Len(Tail(pending))
    BY <2>1, <2>2
  <2> QED BY <1>1, <2>2, <2>3
<1>3. ASSUME NEW w \in Workers PROVE Coursing(w)'
  <2> DEFINE q == queue[w]
             f == inflight[w]
             s == started[w]
             from == Of(w)
             less == Of(w)'
  <2>1. /\ Paced(q, f, from, s, step) /\ (draining[w] => f # <<>>)
        /\ w \in Dps => \A k \in 1..Len(pending) : Linked(q, f, from, pending[k], w)
        /\ from \in SUBSET Arrival /\ step \in Nat
    BY DEF CourseInv, Coursing, Of, CoordInv, Shapes
  <2>2. less \in SUBSET from
    BY <1>1 DEF Of
  <2> HIDE DEF q, f, s, from, less
  <2>3. Paced(q, f, less, s, step)
    BY <2>1, <2>2, PacedFrom
  <2>4. w \in Dps => \A k \in 1..Len(pending') : Linked(q, f, less, pending'[k], w)
    BY <1>2, <2>1, <2>2 DEF Linked
  <2> QED BY <1>1, <2>1, <2>3, <2>4 DEF Coursing, q, f, s, less
<1>4. replies' \in SUBSET Arrival
  BY <1>1 DEF CourseInv
<1> QED BY <1>1, <1>2, <1>3, <1>4 DEF CourseInv

LEMMA CourseStep ==
  ASSUME CoordInv, LockInv, CourseInv, [Next]_vars
  PROVE  CourseInv'
<1>1. CASE UNCHANGED vars \/ Client
  BY <1>1, CourseStays DEF vars, coordVars, workerVars, Client, SendExit, Send, Disconnect
<1>2. CASE ProcessUser \/ ProcessAbort \/ EndRecv \/ LaunchFails \/ PipelineFull \/ Return
  BY <1>2, CourseStays DEF ProcessUser, ProcessAbort, EndRecv, LaunchFails, PipelineFull, Return,
     workerVars
<1>3. CASE ProcessExit
  <2>1. /\ UNCHANGED <<pending, step, inflight, draining, started, replies>>
        /\ queue' = ToAll(IF pending # <<>> /\ ~flushed THEN <<Stop, Flush>> ELSE <<Stop>>)
    BY <1>3 DEF ProcessExit, workerVars
  <2>2. CASE pending # <<>> /\ ~flushed
    BY <2>1, <2>2, CourseTold
  <2>3. CASE ~(pending # <<>> /\ ~flushed)
    BY <2>1, <2>3, CourseTold
  <2> QED BY <2>2, <2>3
<1>4. CASE LaunchNone
  <2>1. /\ UNCHANGED <<pending, step, inflight, draining, started, replies>>
        /\ queue' = queue \/ queue' = ToAll(<<Flush>>)
    BY <1>4 DEF LaunchNone, workerVars
  <2>2. CASE queue' = queue
    BY <2>1, <2>2, CourseStays
  <2>3. CASE queue' = ToAll(<<Flush>>)
    BY <2>1, <2>3, CourseTold
  <2> QED BY <2>1, <2>2, <2>3
<1> QED BY <1>1, <1>2, <1>3, <1>4, CourseLaunches, CourseCompletes, CourseWorker DEF Next, Coordinator

(* A step all workers have replied to: the tokens of a lane are its own.   *)
LEMMA LaneTokensMatch ==
  ASSUME CoordInv, CourseInv, pending # <<>>, HasReplies(Head(pending).step), NEW d \in Dps
  PROVE  Matches(LaneTokens(Head(pending).step, d), Head(pending).batch[d])
<1> DEFINE s == Head(pending).step
           C == Collected(s)
           f == [p \in C |-> p.worker]
<1>1. /\ replies \in SUBSET Arrival /\ \A w \in Workers : Coursing(w)
      /\ C = {p \in replies : p.step = s} /\ Cardinality(C) = Cardinality(Workers)
  BY DEF CourseInv, Collected, HasReplies
<1>2. IsFiniteSet(Workers)
  BY FS_Interval, PipelineAssumption DEF Workers
<1> HIDE DEF s, C
<1>3. \A p \in C : p \in Arrival /\ p.step = s /\ p.worker \in Workers /\ p \in Of(p.worker)
  BY <1>1 DEF Arrival, Of
<1>4. \A p, o \in C : p.worker = o.worker => p = o
  BY <1>1, <1>3 DEF Coursing, Paced
<1>5. f \in Injection(C, Workers)
  BY <1>3, <1>4 DEF Injection, IsInjective
<1> HIDE DEF f
<1>6. f \in Surjection(C, Workers)
  BY <1>1, <1>2, <1>5, FS_Injection
<1>7. \E p \in C : p.worker = d
  BY <1>6, Ranks DEF Surjection, f
<1> DEFINE p == CHOOSE o \in C : o.worker = d
<1>8. p \in C /\ p.worker = d
  BY <1>7
<1>9. LaneTokens(s, d) = p.tokens
  BY DEF LaneTokens, C
<1> HIDE DEF p
<1>10. Linked(queue[d], inflight[d], Of(d), Head(pending), d)
  BY <1>1, HeadFlies, Ranks DEF Coursing
<1> QED BY <1>3, <1>8, <1>9, <1>10 DEF Linked, s

(* What is under way of each request, in its lane.                         *)
Batches(d) == [k \in 1..Len(pending) |-> pending[k].batch[d]]
ComeInv == \A d \in Dps : \A r \in Reqs : Comes(lanes[d], gens[d], Batches(d), Len(pending), r)

LEMMA ComeInit == Init => ComeInv
<1> SUFFICES ASSUME Init, NEW d \in Dps, NEW r \in Reqs
             PROVE  Comes(lanes[d], gens[d], Batches(d), Len(pending), r)
  BY DEF ComeInv
<1>1. /\ lanes[d] = NewLane /\ Len(pending) = 0 /\ 1..0 = {}
      /\ NewLane.req[r].slot = NoSlot /\ NewLane.running = {}
  BY DEF Init, NewLane, NewReq
<1> QED BY <1>1 DEF Comes

LEMMA ComeStays ==
  ASSUME ComeInv, UNCHANGED <<gens, pending>>,
         \A d \in Dps : lanes'[d].req = lanes[d].req /\ lanes'[d].running = lanes[d].running
  PROVE  ComeInv'
<1>1. ASSUME NEW lane, NEW next, next.req = lane.req, next.running = lane.running,
             NEW g, NEW bs, NEW n, NEW r, Comes(lane, g, bs, n, r)
      PROVE  Comes(next, g, bs, n, r)
  BY <1>1 DEF Comes, Wanted
<1>2. \A d \in Dps : Batches(d)' = Batches(d)
  BY DEF Batches
<1> QED BY <1>1, <1>2 DEF ComeInv

LEMMA ComeUser ==
  ASSUME CoordInv, ComeInv, ProcessUser
  PROVE  ComeInv'
<1> DEFINE r == Head(inbox).req
           d == rr % NumDp
<1>1. lanes' = [lanes EXCEPT ![d] = AddReqs(@, r)] /\ UNCHANGED <<gens, pending>>
  BY DEF ProcessUser
<1>2. lanes = [c \in Dps |-> lanes[c]] /\ \A c \in Dps : lanes[c] \in Lane
  BY DEF CoordInv, Shapes, LaneOK
<1> HIDE DEF r, d
<1>3. ASSUME NEW lane \in Lane
      PROVE  AddReqs(lane, r).req = lane.req /\ AddReqs(lane, r).running = lane.running
  BY DEF AddReqs, Lane
<1>4. \A c \in Dps : lanes'[c] = lanes[c] \/ lanes'[c] = AddReqs(lanes[c], r)
  BY <1>1, <1>2
<1>5. \A c \in Dps : lanes'[c].req = lanes[c].req /\ lanes'[c].running = lanes[c].running
  BY <1>2, <1>3, <1>4
<1> QED BY <1>1, <1>5, ComeStays

LEMMA ComeLaunch ==
  ASSUME CoordInv, LockInv, ComeInv, LaunchStep
  PROVE  ComeInv'
<1> DEFINE x == [step |-> step, batch |-> [c \in Dps |-> WithGeneration(c)]]
           n == Len(pending)
<1>1. /\ lanes' = [c \in Dps |-> Launched(AllocatePaged(Scheduled[c].lane, Scheduled[c].entries),
                                          Scheduled[c].entries)]
      /\ pending' = Append(pending, x) /\ gens' = gens
  BY DEF LaunchStep
<1>2. Shapes /\ n \in Nat
  BY PendingSteps DEF CoordInv
<1>3. \A d \in Dps : x.batch[d] = WithGeneration(d)
  OBVIOUS
<1>4. Len(pending') = n + 1 /\ pending'[n + 1] = x /\ \A k \in 1..n : pending'[k] = pending[k]
  <2> DEFINE T == [step : Nat, batch : [Dps -> Seq(Entry)]]
  <2>1. pending \in Seq(T)
    BY <1>2 DEF Shapes
  <2> HIDE DEF T, x
  <2> QED BY <1>1, <2>1, AppendParts
<1> HIDE DEF x, n
<1>5. ASSUME NEW d \in Dps, NEW r \in Reqs
      PROVE  Comes(lanes'[d], gens'[d], Batches(d)', Len(pending'), r)
  <2> DEFINE lane == lanes[d]
             b  == Schedule(lane, NextGlobalPhase)
             g  == gens[d]
             bs == Batches(d)
             cs == Batches(d)'
  <2>1. /\ LaneOK(lane) /\ LaneMore(lane) /\ g \in [Slots -> Nat]
        /\ Comes(lane, g, bs, n, r)
    BY <1>2 DEF CoordInv, LockInv, Lockstep, Shapes, ComeInv, n
  <2>2. Scheduled[d] = b
    BY DEF Scheduled
  <2>3. lanes'[d] = Launched(AllocatePaged(b.lane, b.entries), b.entries) /\ gens'[d] = g
    BY <1>1, <2>2
  <2>4. WithGeneration(d) = [i \in DOMAIN b.entries |-> Stamped(b.entries[i], g[b.entries[i].slot])]
    BY <2>2 DEF WithGeneration
  <2>5. /\ \A k \in 1..n : k \in 1..(n + 1) /\ n + 1 \in 1..(n + 1)
        /\ 1..Len(pending) = 1..n
    BY <1>2 DEF n
  <2>6. n + 1 \in 1..(n + 1)
    BY <1>2
  <2>7. cs[n + 1] = WithGeneration(d) /\ \A k \in 1..n : cs[k] = bs[k]
    BY <1>3, <1>4, <2>5, <2>6 DEF Batches
  <2> DEFINE phase == NextGlobalPhase
  <2> HIDE DEF lane, g, bs, cs, phase
  <2>8. b = Schedule(lane, phase)
    BY DEF phase
  <2> HIDE DEF b
  <2>9. Comes(Launched(AllocatePaged(b.lane, b.entries), b.entries), g, cs, n + 1, r)
    BY <1>2, <2>1, <2>4, <2>7, <2>8, ComesLaunch
  <2> QED BY <1>4, <2>3, <2>9 DEF cs
<1> QED BY <1>5 DEF ComeInv

(* A completion brings the token its client waits for.                     *)
LEMMA ComeComplete ==
  ASSUME CoordInv, LockInv, ComeInv, CompleteStep, NEW d \in Dps, NEW r \in Reqs
  PROVE  LET batch == Head(pending).batch[d]
         IN  /\ Comes(lanes'[d], gens'[d], Batches(d)', Len(pending'), r)
             /\ \A i \in 1..Len(batch) :
                  batch[i].req = r /\ Brings(HeadItems(d)[i]) /\ lanes[d].req[r].slot # NoSlot =>
                    batch[i].start + batch[i].ext = Wanted(lanes[d], r)
<1> DEFINE T == [step : Nat, batch : [Dps -> Seq(Entry)]]
           n == Len(pending) - 1
           lane == lanes[d]
           g == gens[d]
           bs == Batches(d)
           cs == Batches(d)'
           items == HeadItems(d)
           done == Completion(d)
           batch == Head(pending).batch[d]
<1>1. /\ pending # <<>> /\ lanes'[d] = done.lane /\ gens'[d] = Forget(g, done.freed)
      /\ pending' = Tail(pending)
  BY DEF CompleteStep
<1>2. /\ pending \in Seq(T) /\ LaneOK(lane) /\ LaneMore(lanes[d]) /\ g \in [Slots -> Nat]
      /\ Comes(lane, g, bs, Len(pending), r)
      /\ \A k \in 1..Len(pending) : pending[k].batch[d] \in Seq(Entry) /\ Flying(lane, g, pending[k].batch[d])
  BY FlyingTypes DEF CoordInv, Shapes, LockInv, Lockstep, ComeInv
<1>3. /\ Completes(lane, done) /\ Leaves(lane, done) /\ Got(lane, batch, items, done, r)
  BY <1>1, <1>2, LaneEnds
<1> HIDE DEF T
<1>4. /\ n \in Nat /\ Len(pending) = n + 1 /\ Len(pending') = n /\ Head(pending) = pending[1]
      /\ \A k \in 1..n : pending'[k] = pending[k + 1] /\ k + 1 \in 1..(n + 1)
      /\ 1 \in 1..(n + 1)
  BY <1>1, <1>2
<1>5. bs[1] = batch
  BY <1>4 DEF Batches
<1>6. \A k \in 1..n : cs[k] = bs[k + 1]
  BY <1>4 DEF Batches
<1>7. \A k \in 1..(n + 1) : bs[k] \in Seq(Entry) /\ Flying(lane, g, bs[k])
  BY <1>2, <1>4 DEF Batches
<1>8. \A i \in 1..Len(bs[1]) : Brings(items[i]) <=> ~bs[1][i].chunked /\ g[bs[1][i].slot] = bs[1][i].gen
  <2>1. DOMAIN batch = 1..Len(batch)
    BY <1>4, <1>5, <1>7
  <2> QED BY <1>5, <2>1, Zenon DEF HeadItems, ValidItems, Brings
<1> HIDE DEF n, lane, g, bs, cs, items, done, batch
<1>9. /\ Comes(done.lane, Forget(g, done.freed), cs, n, r)
      /\ \A i \in 1..Len(bs[1]) : bs[1][i].req = r /\ Brings(items[i]) /\ lane.req[r].slot # NoSlot =>
           bs[1][i].start + bs[1][i].ext = Wanted(lane, r)
  <2>1. Ending(lane, g, bs, cs, n, items, done, r)
    BY <1>2, <1>3, <1>4, <1>5, <1>6, <1>7, <1>8 DEF Ending, lane
  <2> QED BY <2>1, ComesEnds
<1> QED BY <1>1, <1>4, <1>5, <1>9 DEF cs, lane, g, items, batch

(* Every other step leaves the lanes, the steps on their way and the       *)
(* answers alone.                                                          *)
LEMMA ElseStays ==
  ASSUME [Next]_vars, ~ProcessUser, ~ProcessAbort, ~LaunchStep, ~CompleteStep
  PROVE  UNCHANGED <<lanes, gens, pending, out>>
<1>1. CASE UNCHANGED vars \/ Client
  BY <1>1 DEF vars, coordVars, Client, SendExit, Send, Disconnect
<1>2. CASE ProcessExit \/ EndRecv \/ LaunchFails \/ LaunchNone \/ PipelineFull \/ Return
  BY <1>2 DEF ProcessExit, EndRecv, LaunchFails, LaunchNone, PipelineFull, Return
<1>3. ASSUME NEW w \in Workers, WorkerLoop(w) PROVE UNCHANGED <<lanes, gens, pending, out>>
  BY <1>3 DEF WorkerLoop, RunExpert, Attention, RunAttention, AttentionFails, TakeFlush, TakeStop,
              Retire, coordVars
<1> QED BY <1>1, <1>2, <1>3 DEF Next, Coordinator

LEMMA ComeStep ==
  ASSUME CoordInv, LockInv, ComeInv, [Next]_vars
  PROVE  ComeInv'
<1>1. CASE CompleteStep
  BY <1>1, ComeComplete DEF ComeInv
<1>2. CASE ~ProcessUser /\ ~LaunchStep /\ ~CompleteStep
  BY <1>2, NeverAborts, ElseStays, ComeStays
<1> QED BY <1>1, <1>2, ComeUser, ComeLaunch

LEMMA AnswersComplete ==
  ASSUME CoordInv, LockInv, CourseInv, ComeInv, AnswersAreOwn, CompleteStep
  PROVE  AnswersAreOwn'
<1> SUFFICES ASSUME NEW r \in Reqs
             PROVE  \A i \in DOMAIN out'[r] :
                      out'[r][i].token.of = r /\ out'[r][i].token.at = InputLen[r] + i - 1
  BY DEF AnswersAreOwn
<1>1. /\ pending # <<>> /\ HasReplies(Head(pending).step) /\ out'[r] = out[r] \o RepliesTo(r)
      /\ \A i \in DOMAIN out[r] : out[r][i].token.of = r /\ out[r][i].token.at = InputLen[r] + i - 1
  BY DEF CompleteStep, AnswersAreOwn
<1>2. PICK S : out[r] \in Seq(S)
  BY DEF CoordInv, Shapes
<1>3. CASE RepliesTo(r) = <<>>
  BY <1>1, <1>2, <1>3, OneMore
<1>4. ASSUME NEW d \in Dps, NEW token, AnsweredIn(d, token, r)
      PROVE  \A i \in DOMAIN out'[r] :
               out'[r][i].token.of = r /\ out'[r][i].token.at = InputLen[r] + i - 1
  <2> DEFINE x     == Reply(lanes[d], token, r)
             n     == Len(out[r])
             batch == Head(pending).batch[d]
             toks  == LaneTokens(Head(pending).step, d)
             items == HeadItems(d)
  <2>1. /\ lanes[d].req[r].slot # NoSlot /\ RepliesTo(r) = <<x>> /\ x.token = token
        /\ Completion(d).replies[r] = <<x>>
    BY <1>4 DEF AnsweredIn, Answered, Reply
  <2>2. lanes[d].req[r].done = n /\ n \in Nat
    BY <1>2, <2>1 DEF Present, CoordInv, Served
  <2>3. Got(lanes[d], batch, items, Completion(d), r)
    BY <1>1, LaneEnds DEF LockInv, Lockstep
  <2>4. PICK i \in 1..Len(batch) : /\ batch[i].req = r /\ Brings(items[i])
                                   /\ Answered(lanes[d], Completion(d), items[i].token, r)
    BY <2>1, <2>3 DEF Got, Kept
  <2>5. items[i].token = token
    BY <2>1, <2>4 DEF Answered, Reply
  <2>6. Matches(toks, batch) /\ batch \in Seq(Entry)
    BY <1>1, LaneTokensMatch, HeadFlies
  <2>7. items[i].token = toks[i]
    <3> HIDE DEF batch, toks
    <3>1. i \in DOMAIN batch /\ i <= Len(toks)
      BY <2>4, <2>6 DEF Matches
    <3> QED BY <3>1 DEF HeadItems, ValidItems, TokenAt, batch, toks
  <2>8. token.of = r /\ token.at = InputLen[r] + n
    BY <2>1, <2>2, <2>4, <2>5, <2>6, <2>7, ComeComplete DEF Matches, Wanted
  <2> HIDE DEF x, n
  <2>9. /\ Len(out'[r]) = n + 1 /\ out'[r] \in Seq(S \cup {x}) /\ out'[r][n + 1] = x
        /\ \A k \in 1..n : out'[r][k] = out[r][k] /\ k \in DOMAIN out[r]
    BY <1>1, <1>2, <2>1, OneMore DEF n
  <2>10. ASSUME NEW k \in DOMAIN out'[r]
         PROVE  out'[r][k].token.of = r /\ out'[r][k].token.at = InputLen[r] + k - 1
    <3>1. k \in 1..n \/ k = n + 1
      BY <2>2, <2>9
    <3>2. InputLen[r] \in Nat
      BY RequestAssumption
    <3>3. CASE k = n + 1
      BY <2>1, <2>2, <2>8, <2>9, <3>2, <3>3
    <3> QED BY <1>1, <2>9, <3>1, <3>3
  <2> QED BY <2>10
<1> QED BY <1>1, <1>3, <1>4, RepliesParts

(* While no client goes away, every client is sent the tokens of its own   *)
(* request, in order and from the first one after the prompt, although a   *)
(* token passes through rows handed from one request to the next, through  *)
(* two copies of the row bookkeeping, and through up to MaxPending steps   *)
(* whose tokens the coordinator has not seen (afd_coordinator.py:1246).    *)
THEOREM AnswersAreTheirs == ASSUME MayAbort = {} PROVE Spec => []AnswersAreOwn
<1>1. CoordInv /\ LockInv /\ CourseInv /\ ComeInv /\ AnswersAreOwn /\ [Next]_vars => AnswersAreOwn'
  <2> SUFFICES ASSUME CoordInv, LockInv, CourseInv, ComeInv, AnswersAreOwn, [Next]_vars
               PROVE  AnswersAreOwn'
    OBVIOUS
  <2>1. CASE ~CompleteStep
    BY <2>1, NeverAborts, ElseStays DEF ProcessUser, LaunchStep, AnswersAreOwn
  <2> QED BY <2>1, AnswersComplete
<1>2. CoordInv /\ LockInv /\ CourseInv /\ [Next]_vars => CourseInv'
  BY CourseStep
<1>3. CoordInv /\ LockInv /\ ComeInv /\ [Next]_vars => ComeInv'
  BY ComeStep
<1>4. Init => CourseInv /\ ComeInv /\ AnswersAreOwn
  BY CourseInit, ComeInit DEF Init, AnswersAreOwn
<1>5. (Spec => []CoordInv) /\ (Spec => []LockInv)
  BY CoordInvAlways, LockInvAlways
<1> QED BY <1>1, <1>2, <1>3, <1>4, <1>5, PTL DEF Spec

=============================================================================
