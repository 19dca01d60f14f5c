----------------------------- MODULE FoldFacts -----------------------------
(***************************************************************************)
(* What FoldLeft computes, step by step, for every operator Op: a module   *)
(* that folds with an operator of its own takes an instance of this one.   *)
(* FoldLeft is the value, at the set of all positions, of a function on    *)
(* the sets of positions; that such a function exists is shown by          *)
(* extending it from the sets of the first n positions to those of n + 1.  *)
(* The same is done for FlattenSeq, which joins lists and is a fold in all *)
(* but its definition.                                                     *)
(*                                                                         *)
(* Fold and Flat are the FoldLeft and FlattenSeq of SequencesExt written   *)
(* out, so that an instance brings these two and no copy of that library;  *)
(* whoever takes one shows that they are the same by their definitions.    *)
(***************************************************************************)
EXTENDS Integers, Sequences, TLAPS
LOCAL INSTANCE WellFoundedInduction

CONSTANT Op(_, _)

(* The greatest element of a set of numbers.                               *)
LastOf(S) == CHOOSE x \in S : \A y \in S : x >= y

(* FoldLeft(Op, base, seq) and FlattenSeq(seqs).                           *)
Fold(base, seq) ==
  LET iter[s \in SUBSET (DOMAIN seq)] ==
        IF s = {} THEN base
        ELSE LET x == LastOf(s) IN Op(iter[s \ {x}], seq[x])
  IN  iter[DOMAIN seq]

Flat(seqs) ==
  IF Len(seqs) = 0 THEN seqs
  ELSE LET flat[i \in 1..Len(seqs)] ==
             IF i = 1 THEN seqs[i] ELSE flat[i - 1] \o seqs[i]
       IN  flat[Len(seqs)]

(* The least element of a set of numbers.                                  *)
LEMMA LeastOf ==
  ASSUME NEW T \in SUBSET Nat, T # {}
  PROVE  \E m \in T : \A k \in T : m <= k
<1>1. PICK m \in T : \A k \in T : ~(<<k, m>> \in OpToRel(<, Nat))
  BY NatLessThanWellFounded, WFMin
<1>2. ASSUME NEW k \in T, k < m PROVE FALSE
  <2>1. <<k, m>> \in Nat \X Nat /\ <<k, m>>[1] < <<k, m>>[2]
    BY <1>2
  <2>2. <<k, m>> \in OpToRel(<, Nat)
    BY ONLY <2>1, Zenon DEF OpToRel
  <2> QED BY <1>1, <2>2
<1> QED BY <1>2

(* What holds of 0 and of each number with the one before it holds of all. *)
LEMMA UpTo ==
  ASSUME NEW n \in Nat, NEW Good, 0 \in Good,
         \A k \in 1..n : k - 1 \in Good => k \in Good
  PROVE  \A k \in 0..n : k \in Good
<1> DEFINE Bad == {k \in 0..n : k \notin Good}
<1>1. SUFFICES ASSUME Bad # {} PROVE FALSE
  OBVIOUS
<1>2. PICK m \in Bad : \A k \in Bad : m <= k
  <2>1. Bad \in SUBSET Nat
    OBVIOUS
  <2> HIDE DEF Bad
  <2> QED BY <1>1, <2>1, LeastOf
<1>3. m \in 1..n /\ m - 1 \in 0..n /\ ~(m <= m - 1)
  OBVIOUS
<1>4. m - 1 \in Good
  BY <1>2, <1>3
<1> QED BY <1>3, <1>4

LEMMA LastOfSome ==
  ASSUME NEW n \in Nat, NEW S, S \subseteq 1..n, n \in S
  PROVE  LastOf(S) = n
<1>1. n \in S /\ \A y \in S : n >= y
  OBVIOUS
<1>2. \A m \in S : (\A y \in S : m >= y) => m = n
  BY <1>1
<1> QED BY <1>1, <1>2 DEF LastOf

(* The function Fold takes its value from.                             *)
Iterates(iter, base, seq, n) ==
  iter = [s \in SUBSET (1..n) |->
            IF s = {} THEN base ELSE Op(iter[s \ {LastOf(s)}], seq[LastOf(s)])]

LEMMA IterParts ==
  ASSUME NEW iter, NEW base, NEW seq, NEW n \in Nat, Iterates(iter, base, seq, n)
  PROVE  /\ iter[{}] = base
         /\ \A s \in SUBSET (1..n) : s # {} =>
              iter[s] = Op(iter[s \ {LastOf(s)}], seq[LastOf(s)])
<1>1. \A s \in SUBSET (1..n) :
        iter[s] = IF s = {} THEN base ELSE Op(iter[s \ {LastOf(s)}], seq[LastOf(s)])
  BY Zenon DEF Iterates
<1>2. {} \in SUBSET (1..n)
  OBVIOUS
<1> QED BY <1>1, <1>2, Zenon

LEMMA IterExists ==
  ASSUME NEW base, NEW seq, NEW n \in Nat
  PROVE  \E iter : Iterates(iter, base, seq, n)
<1> DEFINE Good == {k \in 0..n : \E iter : Iterates(iter, base, seq, k)}
<1>1. 0 \in Good
  <2> DEFINE f == [s \in SUBSET (1..0) |-> base]
  <2>1. \A s \in SUBSET (1..0) : s = {}
    OBVIOUS
  <2>2. f = [s \in SUBSET (1..0) |->
              IF s = {} THEN base ELSE Op(f[s \ {LastOf(s)}], seq[LastOf(s)])]
    BY <2>1
  <2> HIDE DEF f
  <2>3. Iterates(f, base, seq, 0)
    BY <2>2 DEF Iterates
  <2> QED BY <2>3
<1>2. ASSUME NEW k \in 1..n, k - 1 \in Good PROVE k \in Good
  <2>1. PICK g : Iterates(g, base, seq, k - 1)
    BY <1>2
  <2> DEFINE f == [s \in SUBSET (1..k) |->
                     IF k \in s THEN Op(g[s \ {k}], seq[k]) ELSE g[s]]
  <2>2. k \in Nat /\ k - 1 \in Nat /\ \A s \in SUBSET (1..k) : s \ {k} \in SUBSET (1..(k - 1))
    OBVIOUS
  <2>3. /\ g[{}] = base
        /\ \A s \in SUBSET (1..(k - 1)) : s # {} =>
              g[s] = Op(g[s \ {LastOf(s)}], seq[LastOf(s)])
    BY <2>1, <2>2, IterParts
  <2>4. ASSUME NEW s \in SUBSET (1..k)
        PROVE  f[s] = IF s = {} THEN base ELSE Op(f[s \ {LastOf(s)}], seq[LastOf(s)])
    <3>1. CASE s = {}
      BY <2>3, <3>1
    <3>2. CASE k \in s
      <4>1. LastOf(s) = k
        BY <2>2, <3>2, LastOfSome
      <4>2. s \ {k} \in SUBSET (1..k) /\ k \notin s \ {k} /\ s # {}
        BY <3>2
      <4>3. f[s] = Op(g[s \ {k}], seq[k]) /\ f[s \ {k}] = g[s \ {k}]
        BY <3>2, <4>2
      <4> HIDE DEF f
      <4> QED BY <4>1, <4>2, <4>3
    <3>3. CASE s # {} /\ k \notin s
      <4>1. s \in SUBSET (1..(k - 1)) /\ s \ {LastOf(s)} \in SUBSET (1..k)
            /\ k \notin s \ {LastOf(s)}
        BY <2>2, <3>3
      <4>2. f[s] = g[s] /\ f[s \ {LastOf(s)}] = g[s \ {LastOf(s)}]
        BY <3>3, <4>1
      <4> HIDE DEF f
      <4> QED BY <2>3, <3>3, <4>1, <4>2
    <3> QED BY <3>1, <3>2, <3>3
  <2>5. f = [s \in SUBSET (1..k) |-> f[s]]
    OBVIOUS
  <2> HIDE DEF f
  <2>6. Iterates(f, base, seq, k)
    BY <2>4, <2>5 DEF Iterates
  <2> QED BY <1>2, <2>6
<1> HIDE DEF Good
<1>3. n \in Good
  BY <1>1, <1>2, UpTo
<1> QED BY <1>3 DEF Good

(* The accumulator before the fold and after each element.                 *)
THEOREM FoldSteps ==
  ASSUME NEW S, NEW seq \in Seq(S), NEW base
  PROVE  \E acc : /\ acc[0] = base
                  /\ \A i \in 1..Len(seq) : acc[i] = Op(acc[i - 1], seq[i])
                  /\ Fold(base, seq) = acc[Len(seq)]
<1> DEFINE n    == Len(seq)
           iter == CHOOSE f : Iterates(f, base, seq, n)
           acc  == [i \in 0..n |-> iter[1..i]]
<1>1. n \in Nat /\ DOMAIN seq = 1..n
  OBVIOUS
<1>2. Iterates(iter, base, seq, n)
  <2> HIDE DEF n
  <2> QED BY <1>1, IterExists
<1>3. Fold(base, seq) = iter[1..n]
  BY <1>1 DEF Fold, Iterates
<1> HIDE DEF n, iter
<1>4. acc[0] = base
  <2>1. acc[0] = iter[1..0] /\ 1..0 = {}
    BY <1>1
  <2> QED BY <1>1, <1>2, <2>1, IterParts
<1>5. ASSUME NEW i \in 1..n PROVE acc[i] = Op(acc[i - 1], seq[i])
  <2>1. 1..i \in SUBSET (1..n) /\ 1..i # {} /\ i \in 1..i /\ i \in Nat /\ i - 1 \in 0..n /\ i \in 0..n
    BY <1>1
  <2>2. LastOf(1..i) = i
    BY <2>1, LastOfSome
  <2>3. (1..i) \ {i} = 1..(i - 1)
    BY <2>1
  <2>4. \A s \in SUBSET (1..n) : s # {} => iter[s] = Op(iter[s \ {LastOf(s)}], seq[LastOf(s)])
    BY <1>1, <1>2, IterParts
  <2>5. iter[1..i] = Op(iter[(1..i) \ {LastOf(1..i)}], seq[LastOf(1..i)])
    BY <2>1, <2>4
  <2>6. iter[1..i] = Op(iter[1..(i - 1)], seq[i])
    BY <2>2, <2>3, <2>5
  <2> QED BY <2>1, <2>6
<1>6. acc[n] = iter[1..n]
  BY <1>1
<1> HIDE DEF acc
<1> QED BY <1>3, <1>4, <1>5, <1>6 DEF n

(* A fold over two sequences joined goes on where the first one ended.     *)
LEMMA FoldJoin ==
  ASSUME NEW S, NEW a \in Seq(S), NEW b \in Seq(S), NEW base
  PROVE  Fold(base, a \o b) = Fold(Fold(base, a), b)
<1> DEFINE c == a \o b
           n == Len(a)
           m == Len(b)
           mid == Fold(base, a)
<1>1. /\ c \in Seq(S) /\ Len(c) = n + m /\ n \in Nat /\ m \in Nat
      /\ \A i \in 1..n : c[i] = a[i]
      /\ \A i \in 1..m : c[n + i] = b[i]
  OBVIOUS
<1> HIDE DEF c, mid
<1>2. PICK f : /\ f[0] = base /\ mid = f[n]
               /\ \A i \in 1..n : f[i] = Op(f[i - 1], a[i])
  <2>1. \E acc : /\ acc[0] = base
                 /\ \A i \in 1..Len(a) : acc[i] = Op(acc[i - 1], a[i])
                 /\ Fold(base, a) = acc[Len(a)]
    BY FoldSteps
  <2> QED BY <2>1, Zenon DEF mid
<1>3. PICK h : /\ h[0] = mid /\ Fold(mid, b) = h[m]
               /\ \A i \in 1..m : h[i] = Op(h[i - 1], b[i])
  <2>1. \E acc : /\ acc[0] = mid
                 /\ \A i \in 1..Len(b) : acc[i] = Op(acc[i - 1], b[i])
                 /\ Fold(mid, b) = acc[Len(b)]
    BY FoldSteps
  <2> QED BY <2>1, Zenon
<1>4. PICK g : /\ g[0] = base /\ Fold(base, c) = g[n + m]
               /\ \A i \in 1..(n + m) : g[i] = Op(g[i - 1], c[i])
  <2>1. \E acc : /\ acc[0] = base
                 /\ \A i \in 1..Len(c) : acc[i] = Op(acc[i - 1], c[i])
                 /\ Fold(base, c) = acc[Len(c)]
    BY <1>1, FoldSteps
  <2> QED BY <1>1, <2>1, Zenon
<1> HIDE DEF n, m
<1>5. \A i \in 0..n : g[i] = f[i]
  <2> DEFINE Good == {i \in 0..n : g[i] = f[i]}
  <2>1. 0 \in Good
    BY <1>1, <1>2, <1>4
  <2>2. ASSUME NEW i \in 1..n, i - 1 \in Good PROVE i \in Good
    <3>1. g[i - 1] = f[i - 1] /\ i \in 0..n /\ i \in 1..(n + m) /\ c[i] = a[i]
      BY <1>1, <2>2
    <3>2. g[i] = f[i]
      BY <1>2, <1>4, <3>1, Zenon
    <3> QED BY <3>1, <3>2
  <2> HIDE DEF Good
  <2>3. \A i \in 0..n : i \in Good
    BY <1>1, <2>1, <2>2, UpTo
  <2> QED BY <2>3 DEF Good
<1>6. \A i \in 0..m : g[n + i] = h[i]
  <2> DEFINE Good == {i \in 0..m : g[n + i] = h[i]}
  <2>1. 0 \in Good
    <3>1. n \in 0..n /\ n + 0 = n /\ 0 \in 0..m
      BY <1>1
    <3>2. g[n + 0] = h[0]
      BY <1>2, <1>3, <1>5, <3>1, Zenon
    <3> QED BY <3>1, <3>2, Zenon
  <2>2. ASSUME NEW i \in 1..m, i - 1 \in Good PROVE i \in Good
    <3>1. g[n + (i - 1)] = h[i - 1]
      BY <2>2, Zenon
    <3>2. /\ i \in 0..m /\ n + i \in 1..(n + m) /\ n + (i - 1) = (n + i) - 1
          /\ c[n + i] = b[i]
      BY <1>1
    <3>3. g[n + i] = h[i]
      BY <1>3, <1>4, <3>1, <3>2, Zenon
    <3> QED BY <3>2, <3>3, Zenon
  <2> HIDE DEF Good
  <2>3. \A i \in 0..m : i \in Good
    BY <1>1, <2>1, <2>2, UpTo
  <2> QED BY <2>3 DEF Good
<1>7. m \in 0..m
  BY <1>1
<1> QED BY <1>3, <1>4, <1>6, <1>7 DEF c, mid

-----------------------------------------------------------------------------
(* What Flat computes, whatever Op is.                                     *)

(* f[i] is the first i of the lists seqs, joined.                          *)
Joined(seqs, f, n) ==
  f = [i \in 1..n |-> IF i = 1 THEN seqs[i] ELSE f[i - 1] \o seqs[i]]

LEMMA JoinedParts ==
  ASSUME NEW seqs, NEW f, NEW n \in Nat, Joined(seqs, f, n)
  PROVE  \A i \in 1..n : f[i] = IF i = 1 THEN seqs[i] ELSE f[i - 1] \o seqs[i]
BY DEF Joined

LEMMA JoinedExists ==
  ASSUME NEW seqs, NEW n \in Nat \ {0}
  PROVE  \E f : Joined(seqs, f, n)
<1> DEFINE Bad == {k \in Nat \ {0} : ~ \E f : Joined(seqs, f, k)}
<1>1. SUFFICES ASSUME Bad # {} PROVE FALSE
  OBVIOUS
<1>2. PICK m \in Bad : \A k \in Bad : m <= k
  <2>1. Bad \in SUBSET Nat
    OBVIOUS
  <2> HIDE DEF Bad
  <2> QED BY <1>1, <2>1, LeastOf
<1>3. m # 1
  <2> DEFINE g == [i \in 1..1 |-> seqs[i]]
  <2>1. g = [i \in 1..1 |-> IF i = 1 THEN seqs[i] ELSE g[i - 1] \o seqs[i]]
    OBVIOUS
  <2> HIDE DEF g
  <2>2. Joined(seqs, g, 1)
    BY <2>1 DEF Joined
  <2> QED BY <2>2
<1>4. m \in Nat /\ m - 1 \in Nat \ {0} /\ ~(m <= m - 1)
  BY <1>3
<1>5. m - 1 \notin Bad
  <2> HIDE DEF Bad
  <2> QED BY <1>2, <1>4
<1>6. PICK f : Joined(seqs, f, m - 1)
  BY <1>4, <1>5
<1> DEFINE g == [i \in 1..m |-> IF i = m THEN f[m - 1] \o seqs[m] ELSE f[i]]
<1>7. \A i \in 1..(m - 1) : f[i] = IF i = 1 THEN seqs[i] ELSE f[i - 1] \o seqs[i]
  BY <1>4, <1>6, JoinedParts
<1>8. ASSUME NEW i \in 1..m PROVE g[i] = IF i = 1 THEN seqs[i] ELSE g[i - 1] \o seqs[i]
  <2>1. CASE i = m
    <3>1. g[m] = f[m - 1] \o seqs[m] /\ g[m - 1] = f[m - 1]
      <4> HIDE DEF Bad
      <4>1. m \in 1..m /\ m - 1 \in 1..m /\ m - 1 # m
        BY <1>4
      <4> QED BY <4>1
    <3> HIDE DEF g
    <3> QED BY <1>3, <2>1, <3>1
  <2>2. CASE i # m /\ i # 1
    <3>1. i \in 1..(m - 1) /\ i - 1 \in 1..m /\ i - 1 # m
      BY <1>4, <2>2
    <3>2. g[i] = f[i] /\ g[i - 1] = f[i - 1]
      BY <2>2, <3>1
    <3> HIDE DEF g
    <3> QED BY <1>7, <2>2, <3>1, <3>2
  <2>3. CASE i # m /\ i = 1
    <3>1. i \in 1..(m - 1)
      BY <1>4, <2>3
    <3>2. g[i] = f[i]
      BY <2>3, <3>1
    <3> HIDE DEF g
    <3> QED BY <1>7, <2>3, <3>1, <3>2
  <2> QED BY <2>1, <2>2, <2>3
<1>9. Joined(seqs, g, m)
  <2>1. g = [i \in 1..m |-> g[i]]
    OBVIOUS
  <2> HIDE DEF g
  <2> QED BY <1>8, <2>1 DEF Joined
<1> QED
  <2> HIDE DEF g
  <2> QED BY <1>9

FlatSteps(flat, seqs, S) ==
  /\ flat[0] = <<>>
  /\ \A i \in 1..Len(seqs) : flat[i] = flat[i - 1] \o seqs[i]
  /\ \A i \in 0..Len(seqs) : flat[i] \in Seq(S)
  /\ Flat(seqs) = flat[Len(seqs)]

LEMMA FlatStepsExist ==
  ASSUME NEW S, NEW seqs \in Seq(Seq(S))
  PROVE  \E flat : FlatSteps(flat, seqs, S)
<1> DEFINE n == Len(seqs)
<1>1. n \in Nat /\ \A i \in 1..n : seqs[i] \in Seq(S) /\ <<>> \o seqs[i] = seqs[i]
  OBVIOUS
<1>2. <<>> \in Seq(S)
  OBVIOUS
<1>3. CASE n = 0
  <2> DEFINE flat == [i \in 0..0 |-> <<>>]
  <2>1. seqs = <<>> /\ Len(seqs) = 0 /\ Flat(seqs) = <<>>
    BY <1>3 DEF Flat
  <2>2. flat[0] = <<>> /\ \A i \in 0..0 : flat[i] \in Seq(S)
    BY <1>2
  <2> HIDE DEF flat
  <2>3. FlatSteps(flat, seqs, S)
    BY <2>1, <2>2 DEF FlatSteps
  <2> QED BY <2>3
<1>4. CASE n # 0
  <2> DEFINE f == CHOOSE g : Joined(seqs, g, n)
             flat == [i \in 0..n |-> IF i = 0 THEN <<>> ELSE f[i]]
  <2>1. n \in Nat \ {0}
    BY <1>1, <1>4
  <2>2. Flat(seqs) = f[n]
    BY <1>4 DEF Flat, Joined
  <2>3. Joined(seqs, f, n)
    <3> HIDE DEF n
    <3> QED BY <2>1, JoinedExists
  <2> HIDE DEF f, n
  <2>4. \A i \in 1..n : f[i] = IF i = 1 THEN seqs[i] ELSE f[i - 1] \o seqs[i]
    BY <2>1, <2>3, JoinedParts
  <2>5. flat[0] = <<>> /\ \A i \in 1..n : flat[i] = f[i]
    BY <2>1
  <2>6. ASSUME NEW i \in 1..n PROVE flat[i] = flat[i - 1] \o seqs[i]
    <3>1. CASE i = 1
      <4>1. flat[1] = f[1] /\ flat[1 - 1] = <<>> /\ f[1] = seqs[1]
        BY <2>1, <2>4, <2>5, <3>1
      <4> HIDE DEF flat
      <4> QED BY <1>1, <3>1, <4>1, Zenon
    <3>2. CASE i # 1
      <4>1. i - 1 \in 1..n
        BY <2>1, <3>2
      <4>2. flat[i] = f[i] /\ flat[i - 1] = f[i - 1]
        BY <2>5, <4>1
      <4> HIDE DEF flat
      <4> QED BY <2>4, <3>2, <4>2, Zenon
    <3> QED BY <3>1, <3>2
  <2> HIDE DEF flat
  <2>7. \A i \in 0..n : flat[i] \in Seq(S)
    <3> DEFINE Good == {i \in 0..n : flat[i] \in Seq(S)}
    <3>1. 0 \in Good
      <4>1. 0 \in 0..n
        BY <2>1
      <4> QED BY <1>2, <2>5, <4>1, Zenon
    <3>2. ASSUME NEW i \in 1..n, i - 1 \in Good PROVE i \in Good
      <4>1. flat[i - 1] \in Seq(S) /\ seqs[i] \in Seq(S) /\ i \in 0..n
        BY <1>1, <2>1, <3>2
      <4> DEFINE x == flat[i - 1]
                 y == seqs[i]
      <4>2. x \o y \in Seq(S)
        <5>1. x \in Seq(S) /\ y \in Seq(S)
          BY <4>1
        <5> HIDE DEF x, y
        <5> QED BY <5>1
      <4> HIDE DEF Good
      <4>3. flat[i] \in Seq(S)
        BY <2>6, <4>2, Zenon
      <4> QED BY <4>1, <4>3 DEF Good
    <3> HIDE DEF Good
    <3>3. \A i \in 0..n : i \in Good
      BY <2>1, <3>1, <3>2, UpTo
    <3> QED BY <3>3 DEF Good
  <2>8. Flat(seqs) = flat[n]
    BY <2>1, <2>2, <2>5
  <2>9. FlatSteps(flat, seqs, S)
    BY <2>5, <2>6, <2>7, <2>8 DEF FlatSteps, n
  <2> QED BY <2>9
<1> QED BY <1>3, <1>4

LEMMA FlatType ==
  ASSUME NEW S, NEW seqs \in Seq(Seq(S))
  PROVE  Flat(seqs) \in Seq(S)
<1>1. PICK flat : FlatSteps(flat, seqs, S)
  BY FlatStepsExist
<1>2. Len(seqs) \in 0..Len(seqs)
  OBVIOUS
<1> QED BY <1>1, <1>2 DEF FlatSteps

LEMMA FlatOne ==
  ASSUME NEW S, NEW x \in Seq(S)
  PROVE  Flat(<<x>>) = x /\ Flat(<<>>) = <<>>
<1>1. <<x>> \in Seq(Seq(S)) /\ Len(<<x>>) = 1 /\ <<x>>[1] = x /\ <<>> \o x = x
  OBVIOUS
<1>2. PICK flat : FlatSteps(flat, <<x>>, S)
  BY <1>1, FlatStepsExist
<1>3. flat[0] = <<>> /\ flat[1] = flat[1 - 1] \o x /\ Flat(<<x>>) = flat[1]
  <2> DEFINE s == <<x>>
  <2>1. Len(s) = 1 /\ s[1] = x /\ 1 \in 1..1
    BY <1>1
  <2> HIDE DEF s
  <2>2. FlatSteps(flat, s, S)
    BY <1>2 DEF s
  <2>3. flat[0] = <<>> /\ flat[1] = flat[1 - 1] \o s[1] /\ Flat(s) = flat[1]
    BY <2>1, <2>2, Zenon DEF FlatSteps
  <2> QED BY <2>1, <2>3, Zenon DEF s
<1>4. 1 - 1 = 0 /\ Flat(<<>>) = <<>>
  BY DEF Flat
<1> QED BY <1>1, <1>3, <1>4, Zenon

LEMMA FlatJoin ==
  ASSUME NEW S, NEW a \in Seq(Seq(S)), NEW b \in Seq(Seq(S))
  PROVE  Flat(a \o b) = Flat(a) \o Flat(b)
<1> DEFINE c == a \o b
           n == Len(a)
           m == Len(b)
<1>1. /\ c \in Seq(Seq(S)) /\ Len(c) = n + m /\ n \in Nat /\ m \in Nat
      /\ \A i \in 1..n : c[i] = a[i]
      /\ \A i \in 1..m : c[n + i] = b[i] /\ b[i] \in Seq(S)
  <2> DEFINE T == Seq(S)
  <2>1. a \in Seq(T) /\ b \in Seq(T)
    OBVIOUS
  <2> HIDE DEF T
  <2>2. c \in Seq(T) /\ Len(c) = n + m /\ n \in Nat /\ m \in Nat
    BY <2>1
  <2>3. \A i \in 1..n : c[i] = a[i]
    BY <2>1
  <2>4. \A i \in 1..m : c[n + i] = b[i] /\ b[i] \in T
    BY <2>1
  <2> QED BY <2>2, <2>3, <2>4 DEF T
<1> HIDE DEF c
<1>2. PICK f : FlatSteps(f, a, S)
  BY FlatStepsExist
<1>3. PICK h : FlatSteps(h, b, S)
  BY FlatStepsExist
<1>4. PICK g : FlatSteps(g, c, S)
  BY <1>1, FlatStepsExist
<1>5. /\ f[0] = <<>> /\ Flat(a) = f[n] /\ \A i \in 0..n : f[i] \in Seq(S)
      /\ \A i \in 1..n : f[i] = f[i - 1] \o a[i]
  BY <1>2 DEF FlatSteps
<1>6. /\ h[0] = <<>> /\ Flat(b) = h[m] /\ \A i \in 0..m : h[i] \in Seq(S)
      /\ \A i \in 1..m : h[i] = h[i - 1] \o b[i]
  BY <1>3 DEF FlatSteps
<1>7. /\ g[0] = <<>> /\ Flat(c) = g[n + m]
      /\ \A i \in 1..(n + m) : g[i] = g[i - 1] \o c[i]
  BY <1>1, <1>4 DEF FlatSteps
<1> HIDE DEF n, m
<1>8. \A i \in 0..n : g[i] = f[i]
  <2> DEFINE Good == {i \in 0..n : g[i] = f[i]}
  <2>1. 0 \in Good
    BY <1>1, <1>5, <1>7
  <2>2. ASSUME NEW i \in 1..n, i - 1 \in Good PROVE i \in Good
    <3>1. g[i - 1] = f[i - 1] /\ i \in 0..n /\ i \in 1..(n + m) /\ c[i] = a[i]
      BY <1>1, <2>2
    <3>2. g[i] = f[i]
      BY <1>5, <1>7, <3>1, Zenon
    <3> QED BY <3>1, <3>2
  <2> HIDE DEF Good
  <2>3. \A i \in 0..n : i \in Good
    BY <1>1, <2>1, <2>2, UpTo
  <2> QED BY <2>3 DEF Good
<1>9. \A i \in 0..m : g[n + i] = f[n] \o h[i]
  <2> DEFINE Good == {i \in 0..m : g[n + i] = f[n] \o h[i]}
  <2>1. 0 \in Good
    <3>1. f[n] \in Seq(S) /\ n \in 0..n /\ n + 0 = n
      BY <1>1, <1>5
    <3>2. f[n] \o <<>> = f[n]
      BY <3>1
    <3>3. g[n + 0] = f[n] \o h[0]
      BY <1>6, <1>8, <3>1, <3>2, Zenon
    <3>4. 0 \in 0..m
      BY <1>1
    <3> QED BY <3>3, <3>4, Zenon
  <2>2. ASSUME NEW i \in 1..m, i - 1 \in Good PROVE i \in Good
    <3>1. g[n + (i - 1)] = f[n] \o h[i - 1] /\ i - 1 \in 0..m
      BY <2>2, Zenon
    <3>2. /\ i \in 0..m /\ n + i \in 1..(n + m) /\ n + (i - 1) = (n + i) - 1
          /\ c[n + i] = b[i] /\ n \in 0..n /\ b[i] \in Seq(S)
      BY <1>1
    <3>3. g[n + i] = g[(n + i) - 1] \o c[n + i]
      BY <1>7, <3>2, Zenon
    <3>4. f[n] \in Seq(S) /\ h[i - 1] \in Seq(S)
      BY <1>5, <1>6, <3>1, <3>2
    <3> DEFINE x == f[n]
               y == h[i - 1]
               z == b[i]
    <3>5. (x \o y) \o z = x \o (y \o z)
      <4>1. x \in Seq(S) /\ y \in Seq(S) /\ z \in Seq(S)
        BY <3>2, <3>4
      <4> HIDE DEF x, y, z
      <4>2. (x \o y) \o z = x \o (y \o z)
        BY <4>1
      <4> QED BY <4>2 DEF x, y, z
    <3>6. g[n + i] = f[n] \o h[i]
      BY <1>6, <3>1, <3>2, <3>3, <3>5, Zenon
    <3> QED BY <3>2, <3>6, Zenon
  <2> HIDE DEF Good
  <2>3. \A i \in 0..m : i \in Good
    BY <1>1, <2>1, <2>2, UpTo
  <2> QED BY <2>3 DEF Good
<1>10. m \in 0..m
  BY <1>1
<1> QED BY <1>5, <1>6, <1>7, <1>9, <1>10 DEF c
=============================================================================
