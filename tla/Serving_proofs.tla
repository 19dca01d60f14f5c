--------------------------- MODULE Serving_proofs ---------------------------
(***************************************************************************)
(* Theorems about Serving, for every number of ranks, requests and         *)
(* tokenizers: the ranks of a tensor-parallel group run the same batches,  *)
(* a client is sent its whole answer in order, and an abort has the last   *)
(* word where there is one tokenizer.                                      *)
(*                                                                         *)
(* A follower is some rounds behind rank 0, and knows how many messages a  *)
(* round took only as a count to which it adds one when it would itself    *)
(* have waited.  The argument: what rank 0 did in those rounds can be told *)
(* from what the follower has not read yet.  There is a history of states, *)
(* the first that of the follower, the last that of rank 0, in which each  *)
(* comes from the one before by taking the messages of its round.          *)
(*                                                                         *)
(* What concerns one request is read off every queue it passes (OfUids):   *)
(* the way to rank 0 through one tokenizer process (Path), and the way     *)
(* back (Coming).  What the client was told, what is coming and what the   *)
(* scheduler will launch next are the tokens 1, 2, 3, ... (Whole), and     *)
(* each action moves messages along, adds the next, or takes the first.    *)
(***************************************************************************)
EXTENDS Serving, FiniteSetTheorems, WellFoundedInduction, TLAPS

OwnF == INSTANCE FoldFacts WITH Op <- AddToUid
Kind == INSTANCE FoldFacts WITH Op <- AddToType
Took == INSTANCE FoldFacts WITH Op <- Handle

-----------------------------------------------------------------------------
(* Lists of anything.                                                      *)

IsList(s) == \E S : s \in Seq(S)

LEMMA ListParts ==
  ASSUME NEW s, IsList(s)
  PROVE  Len(s) \in Nat /\ (s # <<>> => Len(s) > 0)
BY DEF IsList

LEMMA ListJoin ==
  ASSUME NEW s, NEW t, IsList(s), IsList(t)
  PROVE  /\ IsList(s \o t) /\ Len(s \o t) = Len(s) + Len(t)
         /\ \A a, b \in Nat : b <= Len(s) => SubSeq(s \o t, a + 1, b) = SubSeq(s, a + 1, b)
         /\ SubSeq(s \o t, Len(s) + 1, Len(s) + Len(t)) = t
<1>1. PICK S : s \in Seq(S)
  BY DEF IsList
<1>2. PICK T : t \in Seq(T)
  BY DEF IsList
<1> DEFINE U == S \cup T
<1>3. s \in Seq(U) /\ t \in Seq(U)
  BY <1>1, <1>2
<1> HIDE DEF U
<1>4. s \o t \in Seq(U) /\ Len(s \o t) = Len(s) + Len(t)
  BY <1>3
<1>5. ASSUME NEW a \in Nat, NEW b \in Nat, b <= Len(s)
      PROVE  SubSeq(s \o t, a + 1, b) = SubSeq(s, a + 1, b)
  BY <1>3, <1>4, <1>5
<1>6. SubSeq(s \o t, Len(s) + 1, Len(s) + Len(t)) = t
  BY <1>3, <1>4
<1> QED BY <1>4, <1>5, <1>6 DEF IsList

LEMMA ListRest ==
  ASSUME NEW s, IsList(s), NEW n \in Nat, n <= Len(s)
  PROVE  /\ IsList(SubSeq(s, n + 1, Len(s))) /\ Len(SubSeq(s, n + 1, Len(s))) = Len(s) - n
         /\ \A a, b \in Nat : n <= a /\ b <= Len(s) =>
              SubSeq(SubSeq(s, n + 1, Len(s)), a - n + 1, b - n) = SubSeq(s, a + 1, b)
<1>1. PICK S : s \in Seq(S)
  BY DEF IsList
<1> DEFINE t == SubSeq(s, n + 1, Len(s))
<1>2. t \in Seq(S) /\ Len(t) = Len(s) - n
  BY <1>1
<1>3. ASSUME NEW i \in 1..Len(t) PROVE t[i] = s[n + i]
  BY <1>1, <1>2
<1>4. ASSUME NEW a \in Nat, NEW b \in Nat, n <= a, b <= Len(s)
      PROVE  SubSeq(t, a - n + 1, b - n) = SubSeq(s, a + 1, b)
  <2> HIDE DEF t
  <2>1. SubSeq(t, a - n + 1, b - n) = [i \in 1..(b - a) |-> t[a - n + i]]
    BY <1>1, <1>2, <1>4
  <2>2. SubSeq(s, a + 1, b) = [i \in 1..(b - a) |-> s[a + i]]
    BY <1>1, <1>4
  <2>3. ASSUME NEW i \in 1..(b - a) PROVE t[a - n + i] = s[a + i]
    BY <1>2, <1>3, <1>4
  <2> QED BY <2>1, <2>2, <2>3
<1> QED BY <1>2, <1>4 DEF IsList

(* What FoldFacts says of lists of lists holds of them here.               *)
LEMMA SameFlat ==
  ASSUME NEW w
  PROVE  FlattenSeq(w) = OwnF!Flat(w)
BY DEF FlattenSeq, OwnF!Flat

LEMMA FlatType ==
  ASSUME NEW S, NEW seqs \in Seq(Seq(S))
  PROVE  FlattenSeq(seqs) \in Seq(S)
BY OwnF!FlatType, SameFlat, Zenon

LEMMA FlatOne ==
  ASSUME NEW S, NEW x \in Seq(S)
  PROVE  FlattenSeq(<<x>>) = x /\ FlattenSeq(<<>>) = <<>>
<1>1. OwnF!Flat(<<x>>) = x /\ OwnF!Flat(<<>>) = <<>>
  BY OwnF!FlatOne, Zenon
<1> QED BY <1>1, SameFlat, Zenon

LEMMA FlatJoin ==
  ASSUME NEW S, NEW a \in Seq(Seq(S)), NEW b \in Seq(Seq(S))
  PROVE  FlattenSeq(a \o b) = FlattenSeq(a) \o FlattenSeq(b)
<1>1. OwnF!Flat(a \o b) = OwnF!Flat(a) \o OwnF!Flat(b)
  BY OwnF!FlatJoin, Zenon
<1> QED BY <1>1, SameFlat, Zenon

(* What a rank takes from the queues of several tokenizers is a list.      *)
LEMMA FlatIsList ==
  ASSUME NEW n \in Nat, NEW seqs, seqs = [i \in 1..n |-> seqs[i]],
         \A i \in 1..n : IsList(seqs[i])
  PROVE  IsList(FlattenSeq(seqs))
<1> DEFINE U == UNION {{seqs[i][j] : j \in DOMAIN seqs[i]} : i \in 1..n}
<1>1. ASSUME NEW i \in 1..n PROVE seqs[i] \in Seq(U)
  <2>1. PICK S : seqs[i] \in Seq(S)
    BY DEF IsList
  <2> DEFINE s == seqs[i]
             m == Len(s)
  <2>2. m \in Nat /\ s = [j \in 1..m |-> s[j]] /\ DOMAIN s = 1..m
    BY <2>1
  <2>3. ASSUME NEW j \in 1..m PROVE s[j] \in U
    <3>1. seqs[i][j] \in {seqs[i][k] : k \in DOMAIN seqs[i]}
      BY <2>2
    <3> QED BY <3>1
  <2> HIDE DEF U, s, m
  <2>4. s \in Seq(U)
    BY <2>2, <2>3
  <2> QED BY <2>4 DEF s
<1> HIDE DEF U
<1>2. seqs \in Seq(Seq(U))
  <2> DEFINE T == Seq(U)
  <2>1. \A i \in 1..n : seqs[i] \in T
    BY <1>1
  <2> HIDE DEF T
  <2>2. seqs \in Seq(T)
    BY <2>1
  <2> QED BY <2>2 DEF T
<1>3. FlattenSeq(seqs) \in Seq(U)
  BY <1>2, FlatType, Zenon
<1> QED BY <1>3 DEF IsList

-----------------------------------------------------------------------------
(* What a rank does with its requests and batches in one iteration, as     *)
(* functions of its state.                                                 *)

State(r) == [live |-> live[r], data |-> data[r], ongoing |-> ongoing[r]]

Managers(l, raws) == FoldLeft(Handle, l, FlattenSeq(raws))
Received(s, raws) ==
  LET l == Managers(s.live, raws)
      b == Chosen(l)
  IN  [live    |-> [u \in DOMAIN l |-> IF u \in b THEN l[u] + 1 ELSE l[u]],
       data    |-> s.data,
       ongoing |-> SetToSeq({<<u, l[u] + 1>> : u \in b})]

Ended(s) == {s.data[i][1] : i \in {j \in DOMAIN s.data : s.data[j][2] = Need[s.data[j][1]]}}
Processed(s) ==
  [live |-> [u \in DOMAIN s.live \ Ended(s) |-> s.live[u]], data |-> s.ongoing, ongoing |-> <<>>]

After(s, raws) == Processed(Received(s, raws))

Waits(s) == s.data = <<>> /\ ~ \E u \in DOMAIN s.live : CanDecode(u, s.live[u])
Awaited(s) == IF Waits(s) THEN 1 ELSE 0

(* Where rank r is when it asks for messages again.                        *)
Ahead(r) == IF at[r] = "receive" THEN State(r) ELSE Processed(State(r))

(* The messages of the i-th round, when round i ends at end[i] of them.    *)
RoundOf(msgs, end, i) == SubSeq(msgs, end[i - 1] + 1, end[i])

(* hist is what a rank in state hist[0] goes through that takes msgs in    *)
(* rounds of the numbers told by cnts.                                     *)
Replays(cnts, msgs, hist, end) ==
  /\ end \in [0..Len(cnts) -> Nat] /\ end[0] = 0 /\ end[Len(cnts)] = Len(msgs)
  /\ \A i, j \in 0..Len(cnts) : i <= j => end[i] <= end[j]
  /\ \A i \in 1..Len(cnts) :
       /\ end[i] = end[i - 1] + cnts[i] + Awaited(hist[i - 1])
       /\ hist[i] = After(hist[i - 1], RoundOf(msgs, end, i))

LEMMA OperatorsStay ==
  ASSUME UNCHANGED <<eos, tooLong>>
  PROVE  /\ \A s, raws : Received(s, raws)' = Received(s, raws)
         /\ \A s, raws : After(s, raws)' = After(s, raws)
         /\ \A s : Awaited(s)' = Awaited(s)
<1>1. ASSUME NEW l, NEW raws PROVE Managers(l, raws)' = Managers(l, raws)
  BY DEF Managers, Handle, FoldLeft, MapThenFoldSet
<1>2. ASSUME NEW l PROVE Chosen(l)' = Chosen(l)
  BY DEF Chosen, CanDecode
<1>3. ASSUME NEW s, NEW raws PROVE Received(s, raws)' = Received(s, raws)
  BY <1>1, <1>2 DEF Received
<1>4. ASSUME NEW s PROVE Awaited(s)' = Awaited(s)
  BY DEF Awaited, Waits, CanDecode
<1>5. ASSUME NEW s, NEW raws PROVE After(s, raws)' = After(s, raws)
  BY <1>3 DEF After, Processed, Ended
<1> QED BY <1>3, <1>4, <1>5

LEMMA AwaitedIsOne ==
  ASSUME NEW s
  PROVE  Awaited(s) \in {0, 1}
BY DEF Awaited

(* Rank 0 takes and publishes one more round.                              *)
LEMMA RoundAdded ==
  ASSUME NEW cnts \in Seq(Nat), NEW msgs, IsList(msgs), NEW hist, NEW end,
         Replays(cnts, msgs, hist, end), NEW raws, IsList(raws), NEW c \in Nat,
         Len(raws) = c + Awaited(hist[Len(cnts)])
  PROVE  \E h2, e2 :
           /\ Replays(Append(cnts, c), msgs \o raws, h2, e2)
           /\ h2[0] = hist[0] /\ h2[Len(cnts)] = hist[Len(cnts)]
           /\ h2[Len(cnts) + 1] = After(hist[Len(cnts)], raws)
           /\ RoundOf(msgs \o raws, e2, Len(cnts) + 1) = raws
<1> DEFINE n  == Len(cnts)
           cs == Append(cnts, c)
           ms == msgs \o raws
           h2 == [i \in 0..(n + 1) |-> IF i <= n THEN hist[i]
                                       ELSE After(hist[n], raws)]
           e2 == [i \in 0..(n + 1) |-> IF i <= n THEN end[i] ELSE Len(ms)]
<1>1. n \in Nat /\ Len(cs) = n + 1 /\ cs[n + 1] = c /\ \A i \in 1..n : cs[i] = cnts[i]
  OBVIOUS
<1>2. end \in [0..n -> Nat] /\ end[0] = 0 /\ end[n] = Len(msgs)
  BY DEF Replays
<1>m. \A i, j \in 0..n : i <= j => end[i] <= end[j]
  BY DEF Replays
<1>r. \A i \in 1..n : /\ end[i] = end[i - 1] + cnts[i] + Awaited(hist[i - 1])
                      /\ hist[i] = After(hist[i - 1], RoundOf(msgs, end, i))
  BY DEF Replays
<1>3. Len(msgs) \in Nat /\ Len(raws) \in Nat
  BY ListParts
<1>j. /\ IsList(ms) /\ Len(ms) = Len(msgs) + Len(raws)
      /\ \A a, b \in Nat : b <= Len(msgs) => SubSeq(ms, a + 1, b) = SubSeq(msgs, a + 1, b)
      /\ SubSeq(ms, Len(msgs) + 1, Len(msgs) + Len(raws)) = raws
  BY ListJoin
<1>l. Len(ms) = Len(msgs) + Len(raws) /\ Len(ms) \in Nat
  BY <1>3, <1>j
<1>4. /\ \A i \in 0..n : h2[i] = hist[i] /\ e2[i] = end[i]
      /\ h2[n + 1] = After(hist[n], raws) /\ e2[n + 1] = Len(ms)
  <2> HIDE DEF ms
  <2>1. \A i \in 0..n : i \in 0..(n + 1) /\ i <= n
    BY <1>1
  <2>2. n + 1 \in 0..(n + 1) /\ ~(n + 1 <= n)
    BY <1>1
  <2> HIDE DEF n
  <2> QED BY <2>1, <2>2
<1>5. e2 \in [0..(n + 1) -> Nat]
  <2> HIDE DEF n, ms
  <2>1. \A i \in 0..(n + 1) : i <= n => i \in 0..n
    BY <1>1
  <2> QED BY <1>2, <1>l, <2>1
<1> HIDE DEF h2, e2, ms, cs, n
<1>6. \A i, j \in 0..(n + 1) : i <= j => e2[i] <= e2[j]
  <2>1. ASSUME NEW i \in 0..n PROVE e2[i] <= Len(ms) /\ e2[i] \in Nat
    <3>1. n \in 0..n /\ i <= n
      BY <1>1
    <3>2. end[i] <= end[n] /\ end[i] \in Nat
      BY <1>2, <1>m, <3>1
    <3> QED BY <1>2, <1>3, <1>4, <1>l, <3>2
  <2>2. \A i \in 0..(n + 1) : i \in 0..n \/ i = n + 1
    BY <1>1
  <2>3. \A i \in 0..n, j \in 0..n : i <= j => e2[i] <= e2[j]
    BY <1>m, <1>4
  <2>4. e2[n + 1] = Len(ms) /\ Len(ms) <= Len(ms) /\ \A i \in 0..n : ~(n + 1 <= i)
    BY <1>1, <1>4, <1>l
  <2> QED BY <2>1, <2>2, <2>3, <2>4
<1>7. RoundOf(ms, e2, n + 1) = raws
  <2>1. e2[(n + 1) - 1] = Len(msgs) /\ e2[n + 1] = Len(msgs) + Len(raws)
    <3>1. (n + 1) - 1 = n /\ n \in 0..n
      BY <1>1
    <3> QED BY <1>2, <1>4, <1>l, <3>1
  <2> QED BY <1>j, <2>1 DEF RoundOf
<1>8. ASSUME NEW i \in 1..(n + 1)
      PROVE  /\ e2[i] = e2[i - 1] + cs[i] + Awaited(h2[i - 1])
             /\ h2[i] = After(h2[i - 1], RoundOf(ms, e2, i))
  <2>1. CASE i = n + 1
    <3>1. i - 1 = n /\ e2[i - 1] = Len(msgs) /\ h2[i - 1] = hist[n]
      BY <1>1, <1>2, <1>4, <2>1
    <3>2. Len(raws) = c + Awaited(hist[n]) /\ Awaited(hist[n]) \in {0, 1}
      BY AwaitedIsOne DEF n
    <3>3. e2[i] = Len(msgs) + Len(raws) /\ cs[i] = c /\ h2[i] = After(hist[n], raws)
      BY <1>1, <1>4, <1>l, <2>1
    <3>4. e2[i] = e2[i - 1] + cs[i] + Awaited(h2[i - 1])
      BY <1>3, <3>1, <3>2, <3>3
    <3> QED BY <1>7, <2>1, <3>1, <3>3, <3>4
  <2>2. CASE i # n + 1
    <3>1. i \in 1..n /\ i \in 0..n /\ i - 1 \in 0..n
      BY <1>1, <2>2
    <3>2. e2[i] = end[i] /\ e2[i - 1] = end[i - 1] /\ h2[i] = hist[i] /\ h2[i - 1] = hist[i - 1]
      BY <1>4, <3>1
    <3>3. end[i] \in Nat /\ end[i - 1] \in Nat /\ end[i] <= Len(msgs)
      <4>1. n \in 0..n /\ i <= n
        BY <1>1, <3>1
      <4> QED BY <1>2, <1>m, <3>1, <4>1
    <3>4. RoundOf(ms, e2, i) = RoundOf(msgs, end, i)
      BY <1>j, <3>2, <3>3 DEF RoundOf
    <3> QED BY <1>1, <1>r, <3>1, <3>2, <3>4
  <2> QED BY <2>1, <2>2
<1>9. Replays(cs, ms, h2, e2)
  <2>1. e2[0] = 0 /\ e2[n + 1] = Len(ms)
    <3>1. 0 \in 0..n
      BY <1>1
    <3> QED BY <1>2, <1>4, <3>1
  <2> QED BY <1>1, <1>5, <1>6, <1>8, <2>1 DEF Replays
<1>10. h2[0] = hist[0] /\ h2[n] = hist[n]
  BY <1>1, <1>4
<1> QED BY <1>4, <1>7, <1>9, <1>10 DEF cs, ms, n

(* A follower takes the first round.                                       *)
LEMMA RoundTaken ==
  ASSUME NEW cnts \in Seq(Nat), cnts # <<>>, NEW msgs, IsList(msgs), NEW hist, NEW end,
         Replays(cnts, msgs, hist, end), NEW n, n = Head(cnts) + Awaited(hist[0])
  PROVE  /\ n \in Nat /\ n <= Len(msgs) /\ IsList(SubSeq(msgs, n + 1, Len(msgs)))
         /\ hist[1] = After(hist[0], SubSeq(msgs, 1, n))
         /\ RoundOf(msgs, end, 1) = SubSeq(msgs, 1, n)
         /\ \E h2, e2 :
              /\ Replays(Tail(cnts), SubSeq(msgs, n + 1, Len(msgs)), h2, e2)
              /\ \A i \in 0..(Len(cnts) - 1) : h2[i] = hist[i + 1]
              /\ \A i \in 1..(Len(cnts) - 1) :
                   RoundOf(SubSeq(msgs, n + 1, Len(msgs)), e2, i) = RoundOf(msgs, end, i + 1)
<1> DEFINE k  == Len(cnts)
           cs == Tail(cnts)
           ms == SubSeq(msgs, n + 1, Len(msgs))
           h2 == [i \in 0..(k - 1) |-> hist[i + 1]]
           e2 == [i \in 0..(k - 1) |-> end[i + 1] - n]
<1>1. /\ k \in Nat \ {0} /\ Len(cs) = k - 1 /\ Head(cnts) = cnts[1] /\ cnts[1] \in Nat
      /\ \A i \in 1..(k - 1) : cs[i] = cnts[i + 1]
  OBVIOUS
<1>2. end \in [0..k -> Nat] /\ end[0] = 0 /\ end[k] = Len(msgs)
  BY DEF Replays
<1>m. \A i, j \in 0..k : i <= j => end[i] <= end[j]
  BY DEF Replays
<1>r. \A i \in 1..k : /\ end[i] = end[i - 1] + cnts[i] + Awaited(hist[i - 1])
                      /\ hist[i] = After(hist[i - 1], RoundOf(msgs, end, i))
  BY DEF Replays
<1>3. n \in Nat /\ end[1] = n /\ n <= Len(msgs)
  <2>1. Awaited(hist[0]) \in {0, 1}
    BY AwaitedIsOne
  <2>2. 1 \in 1..k /\ 1 - 1 = 0 /\ 1 \in 0..k /\ k \in 0..k /\ 1 <= k
    BY <1>1
  <2> HIDE DEF k
  <2>3. end[1] = end[0] + cnts[1] + Awaited(hist[0]) /\ end[1] <= end[k]
    BY <1>m, <1>r, <2>2
  <2> QED BY <1>1, <1>2, <2>1, <2>3
<1>4. /\ IsList(ms) /\ Len(ms) = Len(msgs) - n /\ Len(msgs) \in Nat
      /\ \A a, b \in Nat : n <= a /\ b <= Len(msgs) =>
           SubSeq(ms, a - n + 1, b - n) = SubSeq(msgs, a + 1, b)
  BY <1>3, ListRest, ListParts
<1>5. \A i \in 0..(k - 1) : h2[i] = hist[i + 1] /\ e2[i] = end[i + 1] - n
  OBVIOUS
<1>6. \A i \in 0..(k - 1) : /\ i + 1 \in 0..k /\ i + 1 \in 1..k
                            /\ end[i + 1] \in Nat /\ n <= end[i + 1] /\ end[i + 1] <= Len(msgs)
  <2> HIDE DEF k
  <2>1. ASSUME NEW i \in 0..(k - 1) PROVE i + 1 \in 0..k /\ i + 1 \in 1..k /\ 1 <= i + 1 /\ i + 1 <= k
    BY <1>1
  <2>2. 1 \in 0..k /\ k \in 0..k
    BY <1>1
  <2> QED BY <1>2, <1>m, <1>3, <2>1, <2>2
<1>7. e2 \in [0..(k - 1) -> Nat]
  <2> HIDE DEF k
  <2> QED BY <1>3, <1>6
<1> HIDE DEF h2, e2, ms, cs, k
<1>8. RoundOf(msgs, end, 1) = SubSeq(msgs, 1, n)
  <2>1. end[1 - 1] + 1 = 1 /\ end[1] = n
    BY <1>2, <1>3
  <2> QED BY <2>1 DEF RoundOf
<1>9. hist[1] = After(hist[0], SubSeq(msgs, 1, n))
  <2>1. 1 \in 1..k /\ 1 - 1 = 0
    BY <1>1
  <2> QED BY <1>r, <1>8, <2>1
<1>10. ASSUME NEW i \in 1..(k - 1)
       PROVE  /\ RoundOf(ms, e2, i) = RoundOf(msgs, end, i + 1)
              /\ e2[i] = e2[i - 1] + cs[i] + Awaited(h2[i - 1])
              /\ h2[i] = After(h2[i - 1], RoundOf(ms, e2, i))
  <2>1. /\ i \in 0..(k - 1) /\ i - 1 \in 0..(k - 1) /\ (i - 1) + 1 = i /\ (i + 1) - 1 = i
        /\ i + 1 \in 1..k
    BY <1>1
  <2>2. e2[i] = end[i + 1] - n /\ e2[i - 1] = end[i] - n /\ h2[i] = hist[i + 1] /\ h2[i - 1] = hist[i]
    BY <1>5, <2>1
  <2>3. end[i] \in Nat /\ n <= end[i] /\ end[i + 1] \in Nat /\ end[i + 1] <= Len(msgs)
    BY <1>6, <2>1
  <2>4. RoundOf(ms, e2, i) = RoundOf(msgs, end, i + 1)
    BY <1>4, <2>1, <2>2, <2>3 DEF RoundOf
  <2>5. /\ end[i + 1] = end[i] + cnts[i + 1] + Awaited(hist[i])
        /\ hist[i + 1] = After(hist[i], RoundOf(msgs, end, i + 1))
    BY <1>r, <2>1
  <2>6. cs[i] = cnts[i + 1] /\ cnts[i + 1] \in Nat /\ Awaited(hist[i]) \in {0, 1}
    BY <1>1, <2>1, AwaitedIsOne DEF k
  <2>7. e2[i] = e2[i - 1] + cs[i] + Awaited(h2[i - 1])
    <3> DEFINE a == Awaited(hist[i])
               b == end[i]
               d == cnts[i + 1]
    <3>1. a \in Int /\ b \in Int /\ d \in Int /\ n \in Int
      BY <1>3, <2>3, <2>6
    <3>2. e2[i] = (b + d + a) - n /\ e2[i - 1] = b - n /\ cs[i] = d /\ Awaited(h2[i - 1]) = a
      BY <2>2, <2>5, <2>6
    <3> HIDE DEF a, b, d
    <3> QED BY <3>1, <3>2
  <2> QED BY <2>2, <2>4, <2>5, <2>7
<1>11. \A i, j \in 0..(k - 1) : i <= j => e2[i] <= e2[j]
  <2>1. ASSUME NEW i \in 0..(k - 1), NEW j \in 0..(k - 1), i <= j PROVE end[i + 1] <= end[j + 1]
    <3>1. i + 1 \in 0..k /\ j + 1 \in 0..k /\ i + 1 <= j + 1
      BY <1>1, <2>1
    <3> QED BY <1>m, <3>1
  <2>2. ASSUME NEW i \in 0..(k - 1), NEW j \in 0..(k - 1), i <= j PROVE e2[i] <= e2[j]
    <3>1. end[i + 1] <= end[j + 1] /\ end[i + 1] \in Nat /\ end[j + 1] \in Nat
      BY <1>6, <2>1, <2>2
    <3>2. e2[i] = end[i + 1] - n /\ e2[j] = end[j + 1] - n
      BY <1>5
    <3> QED BY <1>3, <3>1, <3>2
  <2> QED BY <2>2
<1>12. Replays(cs, ms, h2, e2)
  <2>1. e2[0] = 0 /\ e2[k - 1] = Len(ms)
    <3>1. 0 \in 0..(k - 1) /\ k - 1 \in 0..(k - 1) /\ 0 + 1 = 1 /\ (k - 1) + 1 = k
      BY <1>1
    <3>2. e2[0] = end[1] - n /\ e2[k - 1] = end[k] - n
      BY <1>5, <3>1
    <3> QED BY <1>2, <1>3, <1>4, <3>2
  <2> QED BY <1>1, <1>7, <1>10, <1>11, <2>1 DEF Replays
<1>13. \E hh, ee :
         /\ Replays(cs, ms, hh, ee)
         /\ \A i \in 0..(k - 1) : hh[i] = hist[i + 1]
         /\ \A i \in 1..(k - 1) : RoundOf(ms, ee, i) = RoundOf(msgs, end, i + 1)
  BY <1>5, <1>10, <1>12
<1> QED BY <1>3, <1>4, <1>8, <1>9, <1>13 DEF cs, ms, k

-----------------------------------------------------------------------------
(* The invariant.                                                          *)

Shape ==
  /\ tokenizers \in 0..MaxTokenizers
  /\ DOMAIN toBackend = Procs /\ \A p \in Procs : IsList(toBackend[p])
  /\ DOMAIN live = Ranks /\ DOMAIN data = Ranks /\ DOMAIN ongoing = Ranks
  /\ at \in [Ranks -> {"receive", "process"}]
  /\ counts \in [Ranks -> Seq(Nat)]
  /\ DOMAIN sub = Ranks /\ \A r \in Ranks : IsList(sub[r])

(* Follower q will go through what rank 0 has gone through.                *)
Following(q) ==
  \E hist, end :
    /\ Replays(counts[q], sub[q], hist, end)
    /\ hist[0] = Ahead(q) /\ hist[Lag(q)] = Ahead(0)
    /\ at[0] = "process" /\ Lag(q) > 0 =>
         State(0) = Received(hist[Lag(q) - 1], RoundOf(sub[q], end, Lag(q)))
    /\ at[0] = "process" /\ at[q] = "process" /\ Lag(q) = 0 => State(q) = State(0)

FollowInv == Shape /\ \A q \in Followers : Following(q)

LEMMA IterateParts ==
  ASSUME Shape, NEW r \in Ranks, NEW raws, Iterate(r, raws)
  PROVE  /\ at[r] = "receive" /\ at'[r] = "process"
         /\ State(r)' = Received(State(r), raws)
         /\ \A q \in Ranks : q # r => at'[q] = at[q] /\ State(q)' = State(q)
         /\ DOMAIN live' = Ranks /\ DOMAIN data' = Ranks /\ DOMAIN ongoing' = Ranks
         /\ at' \in [Ranks -> {"receive", "process"}]
<1> DEFINE l == Managers(live[r], raws)
           b == Chosen(l)
<1>1. /\ at[r] = "receive" /\ data' = data /\ at' = [at EXCEPT ![r] = "process"]
      /\ live' = [live EXCEPT ![r] = [u \in DOMAIN l |-> IF u \in b THEN l[u] + 1 ELSE l[u]]]
      /\ ongoing' = [ongoing EXCEPT ![r] = SetToSeq({<<u, l[u] + 1>> : u \in b})]
  BY Zenon DEF Iterate, Managers
<1> DEFINE nl == [u \in DOMAIN l |-> IF u \in b THEN l[u] + 1 ELSE l[u]]
           no == SetToSeq({<<u, l[u] + 1>> : u \in b})
<1>2. Received(State(r), raws) = [live |-> nl, data |-> data[r], ongoing |-> no]
  BY DEF Received, State
<1> HIDE DEF l, b, nl, no
<1>3. live'[r] = nl /\ ongoing'[r] = no /\ data'[r] = data[r]
  BY <1>1 DEF Shape, nl, no
<1>4. State(r)' = [live |-> nl, data |-> data[r], ongoing |-> no]
  BY <1>3 DEF State
<1>5. \A q \in Ranks : q # r => live'[q] = live[q] /\ data'[q] = data[q] /\ ongoing'[q] = ongoing[q]
  BY <1>1 DEF Shape
<1>6. \A q \in Ranks : q # r => State(q)' = State(q)
  BY <1>5 DEF State
<1>7. DOMAIN live' = Ranks /\ DOMAIN data' = Ranks /\ DOMAIN ongoing' = Ranks
  BY <1>1 DEF Shape
<1>8. /\ at' \in [Ranks -> {"receive", "process"}] /\ at'[r] = "process"
      /\ \A q \in Ranks : q # r => at'[q] = at[q]
  BY <1>1 DEF Shape
<1> QED BY <1>1, <1>2, <1>4, <1>6, <1>7, <1>8

LEMMA ProcessParts ==
  ASSUME Shape, NEW r \in Ranks, ProcessLast(r)
  PROVE  /\ at[r] = "process" /\ at'[r] = "receive"
         /\ State(r)' = Processed(State(r))
         /\ \A q \in Ranks : q # r => at'[q] = at[q] /\ State(q)' = State(q)
         /\ DOMAIN live' = Ranks /\ DOMAIN data' = Ranks /\ DOMAIN ongoing' = Ranks
         /\ at' \in [Ranks -> {"receive", "process"}]
<1> DEFINE ended == {data[r][i][1] : i \in {j \in DOMAIN data[r] : data[r][j][2] = Need[data[r][j][1]]}}
           nl    == [u \in DOMAIN live[r] \ ended |-> live[r][u]]
<1>1. /\ at[r] = "process" /\ at' = [at EXCEPT ![r] = "receive"]
      /\ live' = [live EXCEPT ![r] = nl]
      /\ data' = [data EXCEPT ![r] = ongoing[r]] /\ ongoing' = [ongoing EXCEPT ![r] = <<>>]
  BY Zenon DEF ProcessLast
<1>2. Processed(State(r)) = [live |-> nl, data |-> ongoing[r], ongoing |-> <<>>]
  BY DEF Processed, Ended, State
<1> HIDE DEF ended, nl
<1>3. live'[r] = nl /\ ongoing'[r] = <<>> /\ data'[r] = ongoing[r]
  BY <1>1 DEF Shape
<1>4. State(r)' = [live |-> nl, data |-> ongoing[r], ongoing |-> <<>>]
  BY <1>3 DEF State
<1>5. \A q \in Ranks : q # r => live'[q] = live[q] /\ data'[q] = data[q] /\ ongoing'[q] = ongoing[q]
  BY <1>1 DEF Shape
<1>6. \A q \in Ranks : q # r => State(q)' = State(q)
  BY <1>5 DEF State
<1>7. DOMAIN live' = Ranks /\ DOMAIN data' = Ranks /\ DOMAIN ongoing' = Ranks
  BY <1>1 DEF Shape
<1>8. /\ at' \in [Ranks -> {"receive", "process"}] /\ at'[r] = "receive"
      /\ \A q \in Ranks : q # r => at'[q] = at[q]
  BY <1>1 DEF Shape
<1> QED BY <1>1, <1>2, <1>4, <1>6, <1>7, <1>8

LEMMA BlockingIsAwaited ==
  ASSUME NEW r \in Ranks
  PROVE  Awaited(State(r)) = IF Blocking(r) THEN 1 ELSE 0
BY DEF Awaited, Waits, State, Blocking, Runnable

LEMMA ReplaysStay ==
  ASSUME UNCHANGED <<eos, tooLong>>
  PROVE  \A cnts, msgs, hist, end : Replays(cnts, msgs, hist, end)' = Replays(cnts, msgs, hist, end)
BY OperatorsStay DEF Replays, RoundOf

(* Nothing that q has still to read has changed, and neither q nor rank 0  *)
(* has begun an iteration.                                                 *)
LEMMA StillFollowing ==
  ASSUME NEW q, Following(q), UNCHANGED <<eos, tooLong>>,
         counts'[q] = counts[q], sub'[q] = sub[q],
         Ahead(q)' = Ahead(q), Ahead(0)' = Ahead(0),
         at'[0] = "process" => at[0] = "process" /\ State(0)' = State(0),
         at'[q] = "process" => at[q] = "process" /\ State(q)' = State(q)
  PROVE  Following(q)'
<1>1. PICK hist, end :
        /\ Replays(counts[q], sub[q], hist, end)
        /\ hist[0] = Ahead(q) /\ hist[Lag(q)] = Ahead(0)
        /\ at[0] = "process" /\ Lag(q) > 0 =>
             State(0) = Received(hist[Lag(q) - 1], RoundOf(sub[q], end, Lag(q)))
        /\ at[0] = "process" /\ at[q] = "process" /\ Lag(q) = 0 => State(q) = State(0)
  BY DEF Following
<1>2. Lag(q)' = Lag(q)
  BY DEF Lag
<1>3. Replays(counts[q], sub[q], hist, end)'
  <2>1. Replays(counts'[q], sub'[q], hist, end)
    BY <1>1
  <2> QED BY <2>1, OperatorsStay DEF Replays, RoundOf
<1>4. \A s, raws : Received(s, raws)' = Received(s, raws)
  BY OperatorsStay
<1>5. \A i : RoundOf(sub[q], end, i)' = RoundOf(sub[q], end, i)
  BY DEF RoundOf
<1> QED BY <1>1, <1>2, <1>3, <1>4, <1>5 DEF Following

-----------------------------------------------------------------------------
(* Each step keeps the invariant.                                          *)

LEMMA FollowInit ==
  ASSUME Init
  PROVE  FollowInv
<1>1. PICK s \in Settings : tokenizers = s.tokenizers
  BY DEF Init
<1>2. tokenizers \in 0..MaxTokenizers
  BY <1>1, ServingAssumption
<1>3. /\ toBackend = [p \in Procs |-> <<>>] /\ at = [r \in Ranks |-> "receive"]
      /\ counts = [r \in Ranks |-> <<>>] /\ sub = [r \in Ranks |-> <<>>]
      /\ live = [r \in Ranks |-> <<>>] /\ data = [r \in Ranks |-> <<>>]
      /\ ongoing = [r \in Ranks |-> <<>>]
  BY DEF Init
<1>4. IsList(<<>>) /\ <<>> \in Seq(Nat) /\ Len(<<>>) = 0
  <2>1. <<>> \in Seq({})
    OBVIOUS
  <2> QED BY <2>1 DEF IsList
<1>5. Shape
  BY <1>2, <1>3, <1>4 DEF Shape
<1>6. ASSUME NEW q \in Followers PROVE Following(q)
  <2> DEFINE hist == [i \in {0} |-> State(q)]
             ends == [i \in 0..0 |-> 0]
  <2>1. q \in Ranks /\ 0 \in Ranks
    BY ServingAssumption DEF Followers
  <2>2. counts[q] = <<>> /\ sub[q] = <<>> /\ Lag(q) = 0 /\ at[q] = "receive" /\ at[0] = "receive"
    BY <1>3, <1>4, <2>1 DEF Lag
  <2>3. State(q) = State(0)
    BY <1>3, <2>1 DEF State
  <2>4. hist[0] = Ahead(q) /\ hist[0] = Ahead(0)
    BY <2>2, <2>3 DEF Ahead
  <2>5. Replays(<<>>, <<>>, hist, ends)
    <3>1. /\ ends \in [0..0 -> Nat] /\ ends[0] = 0
          /\ \A i, j \in 0..0 : i <= j => ends[i] <= ends[j]
      OBVIOUS
    <3> HIDE DEF hist, ends
    <3> QED BY <1>4, <3>1 DEF Replays
  <2> HIDE DEF hist, ends
  <2> QED BY <2>2, <2>4, <2>5 DEF Following
<1> QED BY <1>5, <1>6 DEF FollowInv

(* Steps of the front end and of the tokenizer processes.                  *)
LEMMA OutsideSteps ==
  ASSUME FollowInv, UNCHANGED <<cfgVars, rankVars>>,
         DOMAIN toBackend' = Procs, \A p \in Procs : IsList(toBackend'[p])
  PROVE  FollowInv'
<1>1. Shape'
  BY DEF FollowInv, Shape, cfgVars, rankVars, Procs
<1>2. ASSUME NEW q \in Followers PROVE Following(q)'
  <2>1. /\ counts'[q] = counts[q] /\ sub'[q] = sub[q] /\ at' = at
        /\ UNCHANGED <<eos, tooLong>>
    BY DEF cfgVars, rankVars
  <2>2. \A r : State(r)' = State(r)
    BY DEF State, rankVars
  <2>3. ASSUME NEW r PROVE Ahead(r)' = Ahead(r)
    <3>1. Processed(State(r))' = Processed(State(r))
      BY <2>2 DEF Processed, Ended
    <3> QED BY <2>1, <2>2, <3>1 DEF Ahead
  <2> QED BY <2>1, <2>2, <2>3, StillFollowing DEF FollowInv
<1> QED BY <1>1, <1>2 DEF FollowInv, Followers

LEMMA ForwardParts ==
  ASSUME Shape, NEW p \in Procs, NEW raw, Forward(p, raw)
  PROVE  DOMAIN toBackend' = Procs /\ \A v \in Procs : IsList(toBackend'[v])
<1> DEFINE a == IfAny(OfTypes(raw)["tokenize"])
           b == IfAny(OfTypes(raw)["abort"])
<1>1. ASSUME NEW m PROVE IsList(IfAny(m))
  <2>1. <<>> \in Seq({}) /\ <<m>> \in Seq({m})
    OBVIOUS
  <2> QED BY <2>1 DEF IsList, IfAny
<1>2. IsList(a) /\ IsList(b)
  BY <1>1
<1>3. toBackend' = [toBackend EXCEPT ![p] = @ \o a \o b]
  BY DEF Forward
<1> HIDE DEF a, b
<1>4. IsList(toBackend[p] \o a)
  BY <1>2, ListJoin DEF Shape
<1>5. IsList((toBackend[p] \o a) \o b)
  BY <1>2, <1>4, ListJoin
<1> QED BY <1>3, <1>5 DEF Shape

(* What rank 0 takes in a round is a list of messages.                     *)
LEMMA RoundIsList ==
  ASSUME Shape, NEW o \in Orders
  PROVE  IsList(FlattenSeq([i \in DOMAIN o |-> toBackend[o[i]]]))
<1>1. IsFiniteSet(Tokenizers) /\ Tokenizers \subseteq Procs
  <2>1. CASE tokenizers = 0
    <3>1. Tokenizers = {0} /\ 0 \in Procs
      BY <2>1, ServingAssumption DEF Tokenizers, Procs
    <3> QED BY <3>1, FS_Singleton
  <2>2. CASE tokenizers # 0
    <3>1. tokenizers \in Int /\ 1 \in Int /\ Tokenizers = 1..tokenizers
      BY <2>2, ServingAssumption DEF Shape, Tokenizers
    <3>2. IsFiniteSet(Tokenizers)
      BY <3>1, FS_Interval
    <3>3. Tokenizers \subseteq Procs
      BY <3>1, ServingAssumption DEF Shape, Procs
    <3> QED BY <3>2, <3>3
  <2> QED BY <2>1, <2>2
<1> DEFINE n == Cardinality(Tokenizers)
<1>2. n \in Nat
  BY <1>1, FS_CardinalityType
<1>3. o \in [1..n -> Tokenizers]
  BY DEF Orders, SetToSeqs
<1> DEFINE seqs == [i \in DOMAIN o |-> toBackend[o[i]]]
<1>4. DOMAIN o = 1..n /\ \A i \in 1..n : o[i] \in Procs
  BY <1>1, <1>3
<1> HIDE DEF n
<1>5. seqs = [i \in 1..n |-> seqs[i]] /\ \A i \in 1..n : IsList(seqs[i])
  BY <1>4 DEF Shape
<1> HIDE DEF seqs
<1>6. IsList(FlattenSeq(seqs))
  BY <1>2, <1>5, FlatIsList
<1> QED BY <1>6 DEF seqs

LEMMA Rank0Receives ==
  ASSUME FollowInv, RecvRank0
  PROVE  FollowInv'
<1> DEFINE raws(o) == FlattenSeq([i \in DOMAIN o |-> toBackend[o[i]]])
           first   == IF Blocking(0) THEN 1 ELSE 0
<1>1. PICK o \in Orders :
        /\ Blocking(0) => raws(o) # <<>>
        /\ toBackend' = [p \in Procs |-> <<>>]
        /\ Publish(raws(o))
        /\ counts' = [r \in Ranks |-> IF r = 0 THEN <<>> ELSE Append(counts[r], Len(raws(o)) - first)]
        /\ Iterate(0, raws(o))
        /\ UNCHANGED cfgVars
  BY Zenon DEF RecvRank0
<1> DEFINE R == raws(o)
           c == Len(R) - first
<1>2. Shape /\ 0 \in Ranks
  BY ServingAssumption DEF FollowInv
<1>3. IsList(R)
  BY <1>2, RoundIsList
<1> HIDE DEF R
<1>4. Iterate(0, R)
  BY <1>1 DEF R
<1>5. first = Awaited(State(0))
  BY <1>2, BlockingIsAwaited
<1>6. c \in Nat /\ Len(R) = c + Awaited(State(0)) /\ Len(R) \in Nat
  <2>1. Len(R) \in Nat /\ (Blocking(0) => Len(R) > 0)
    BY <1>1, <1>3, ListParts DEF R
  <2> QED BY <1>5, <2>1
<1>7. \A r \in Ranks : r # 0 => sub'[r] = sub[r] \o R /\ counts'[r] = Append(counts[r], c)
  BY <1>1 DEF Publish, R
<1>8. sub'[0] = <<>> /\ counts'[0] = <<>> /\ DOMAIN sub' = Ranks /\ DOMAIN counts' = Ranks
  BY <1>1, <1>2 DEF Publish
<1> HIDE DEF c, first
<1>9. /\ at[0] = "receive" /\ at'[0] = "process"
      /\ State(0)' = Received(State(0), R)
      /\ \A q \in Ranks : q # 0 => at'[q] = at[q] /\ State(q)' = State(q)
      /\ DOMAIN live' = Ranks /\ DOMAIN data' = Ranks /\ DOMAIN ongoing' = Ranks
      /\ at' \in [Ranks -> {"receive", "process"}]
  BY <1>2, <1>4, IterateParts
<1>10. Shape'
  <2>1. <<>> \in Seq({}) /\ <<>> \in Seq(Nat) /\ IsList(<<>>)
    BY DEF IsList
  <2>2. tokenizers' \in 0..MaxTokenizers
    BY <1>1, <1>2 DEF Shape, cfgVars
  <2>3. DOMAIN toBackend' = Procs /\ \A p \in Procs : IsList(toBackend'[p])
    BY <1>1, <2>1
  <2>4. \A r \in Ranks : IsList(sub'[r])
    BY <1>2, <1>3, <1>7, <1>8, <2>1, ListJoin DEF Shape
  <2>5. \A r \in Ranks : counts'[r] \in Seq(Nat)
    <3>1. ASSUME NEW r \in Ranks, r # 0 PROVE counts'[r] \in Seq(Nat)
      <4>1. counts[r] \in Seq(Nat) /\ counts'[r] = Append(counts[r], c)
        BY <1>2, <1>7, <3>1 DEF Shape
      <4>2. \A s \in Seq(Nat) : Append(s, c) \in Seq(Nat)
        BY <1>6
      <4> QED BY <4>1, <4>2
    <3> QED BY <1>8, <2>1, <3>1
  <2>6. counts' = [r \in Ranks |-> counts'[r]]
    BY <1>1
  <2>7. counts' \in [Ranks -> Seq(Nat)]
    BY <2>5, <2>6
  <2> QED BY <1>8, <1>9, <2>2, <2>3, <2>4, <2>7 DEF Shape, Procs
<1>11. ASSUME NEW q \in Followers PROVE Following(q)'
  <2>1. q \in Ranks /\ q # 0 /\ Following(q)
    BY DEF FollowInv, Followers
  <2>2. PICK hist, end :
          Replays(counts[q], sub[q], hist, end) /\ hist[0] = Ahead(q) /\ hist[Lag(q)] = Ahead(0)
    BY <2>1 DEF Following
  <2>3. Ahead(0) = State(0) /\ counts[q] \in Seq(Nat) /\ IsList(sub[q])
    BY <1>2, <1>9, <2>1 DEF Ahead, Shape
  <2>4. Len(R) = c + Awaited(hist[Len(counts[q])])
    BY <1>6, <2>2, <2>3 DEF Lag
  <2>5. PICK h2, e2 :
           /\ Replays(Append(counts[q], c), sub[q] \o R, h2, e2)
           /\ h2[0] = hist[0] /\ h2[Len(counts[q])] = hist[Len(counts[q])]
           /\ h2[Len(counts[q]) + 1] = After(hist[Len(counts[q])], R)
           /\ RoundOf(sub[q] \o R, e2, Len(counts[q]) + 1) = R
    <3>1. Replays(counts[q], sub[q], hist, end)
      BY <2>2
    <3> QED BY <1>3, <1>6, <2>3, <2>4, <3>1, RoundAdded
  <2>6. /\ counts'[q] = Append(counts[q], c) /\ sub'[q] = sub[q] \o R
        /\ Lag(q)' = Lag(q) + 1 /\ Lag(q) \in Nat /\ Lag(q) = Len(counts[q])
    BY <1>7, <2>1, <2>3 DEF Lag
  <2>7. Replays(counts[q], sub[q], h2, e2)'
    <3>1. UNCHANGED <<eos, tooLong>>
      BY <1>1 DEF cfgVars
    <3>2. Replays(counts'[q], sub'[q], h2, e2)
      BY <2>5, <2>6
    <3> QED BY <3>1, <3>2, OperatorsStay DEF Replays, RoundOf
  <2>8. Ahead(q)' = Ahead(q)
    BY <1>9, <2>1 DEF Ahead, Processed, Ended
  <2>9. Ahead(0)' = After(State(0), R)
    <3>1. Ahead(0)' = Processed(State(0))'
      BY <1>9 DEF Ahead
    <3>2. Processed(State(0))' = Processed(Received(State(0), R))
      BY <1>9 DEF Processed, Ended
    <3> QED BY <3>1, <3>2 DEF After
  <2>10. h2[0] = Ahead(q)' /\ h2[Lag(q)'] = Ahead(0)'
    BY <2>2, <2>3, <2>5, <2>6, <2>8, <2>9
  <2>11. State(0)' = Received(h2[Lag(q)' - 1], RoundOf(sub'[q], e2, Lag(q)'))
    <3>1. Lag(q)' - 1 = Lag(q) /\ h2[Lag(q)] = State(0)
      BY <2>2, <2>3, <2>5, <2>6
    <3> QED BY <1>9, <2>5, <2>6, <3>1
  <2>12. Lag(q)' # 0
    BY <2>6
  <2>13. Received(h2[Lag(q) - 1], RoundOf(sub[q], e2, Lag(q)))'
           = Received(h2[Lag(q)' - 1], RoundOf(sub'[q], e2, Lag(q)'))
    <3>1. UNCHANGED <<eos, tooLong>>
      BY <1>1 DEF cfgVars
    <3> QED BY <3>1, OperatorsStay DEF RoundOf
  <2> QED BY <2>7, <2>10, <2>11, <2>12, <2>13 DEF Following
<1> QED BY <1>10, <1>11 DEF FollowInv, Followers

LEMMA FollowerReceives ==
  ASSUME FollowInv, NEW r \in Followers, RecvFollower(r)
  PROVE  FollowInv'
<1> DEFINE n    == Head(counts[r]) + (IF Blocking(r) THEN 1 ELSE 0)
           raws == SubSeq(sub[r], 1, n)
<1>1. /\ counts[r] # <<>>
      /\ sub' = [sub EXCEPT ![r] = SubSeq(@, n + 1, Len(@))]
      /\ counts' = [counts EXCEPT ![r] = Tail(@)]
      /\ Iterate(r, raws)
      /\ UNCHANGED <<cfgVars, toBackend>>
  BY Zenon DEF RecvFollower, pipeVars
<1>2. Shape /\ r \in Ranks /\ r # 0 /\ 0 \in Ranks /\ Following(r)
  BY ServingAssumption DEF FollowInv, Followers
<1>3. counts[r] \in Seq(Nat) /\ IsList(sub[r])
  BY <1>2 DEF Shape
<1>4. /\ at[r] = "receive" /\ at'[r] = "process"
      /\ State(r)' = Received(State(r), raws)
      /\ \A q \in Ranks : q # r => at'[q] = at[q] /\ State(q)' = State(q)
      /\ DOMAIN live' = Ranks /\ DOMAIN data' = Ranks /\ DOMAIN ongoing' = Ranks
      /\ at' \in [Ranks -> {"receive", "process"}]
  BY <1>1, <1>2, IterateParts
<1>5. PICK hist, end :
        /\ Replays(counts[r], sub[r], hist, end)
        /\ hist[0] = Ahead(r) /\ hist[Lag(r)] = Ahead(0)
        /\ at[0] = "process" /\ Lag(r) > 0 =>
             State(0) = Received(hist[Lag(r) - 1], RoundOf(sub[r], end, Lag(r)))
  BY <1>2 DEF Following
<1>6. hist[0] = State(r)
  BY <1>4, <1>5 DEF Ahead
<1>7. n = Head(counts[r]) + Awaited(hist[0])
  BY <1>2, <1>6, BlockingIsAwaited
<1> HIDE DEF n
<1>8. /\ n \in Nat /\ n <= Len(sub[r]) /\ IsList(SubSeq(sub[r], n + 1, Len(sub[r])))
      /\ hist[1] = After(hist[0], SubSeq(sub[r], 1, n))
      /\ RoundOf(sub[r], end, 1) = SubSeq(sub[r], 1, n)
      /\ \E h2, e2 :
           /\ Replays(Tail(counts[r]), SubSeq(sub[r], n + 1, Len(sub[r])), h2, e2)
           /\ \A i \in 0..(Len(counts[r]) - 1) : h2[i] = hist[i + 1]
           /\ \A i \in 1..(Len(counts[r]) - 1) :
                RoundOf(SubSeq(sub[r], n + 1, Len(sub[r])), e2, i) = RoundOf(sub[r], end, i + 1)
  <2> DEFINE cs == counts[r]
             ms == sub[r]
  <2>1. /\ cs \in Seq(Nat) /\ cs # <<>> /\ IsList(ms) /\ Replays(cs, ms, hist, end)
        /\ n = Head(cs) + Awaited(hist[0])
    BY <1>1, <1>3, <1>5, <1>7
  <2> HIDE DEF cs, ms
  <2>2. /\ n \in Nat /\ n <= Len(ms) /\ IsList(SubSeq(ms, n + 1, Len(ms)))
        /\ hist[1] = After(hist[0], SubSeq(ms, 1, n))
        /\ RoundOf(ms, end, 1) = SubSeq(ms, 1, n)
        /\ \E h2, e2 :
             /\ Replays(Tail(cs), SubSeq(ms, n + 1, Len(ms)), h2, e2)
             /\ \A i \in 0..(Len(cs) - 1) : h2[i] = hist[i + 1]
             /\ \A i \in 1..(Len(cs) - 1) :
                  RoundOf(SubSeq(ms, n + 1, Len(ms)), e2, i) = RoundOf(ms, end, i + 1)
    BY <2>1, RoundTaken
  <2> QED BY <2>2 DEF cs, ms
<1>9. PICK h2, e2 :
        /\ Replays(Tail(counts[r]), SubSeq(sub[r], n + 1, Len(sub[r])), h2, e2)
        /\ \A i \in 0..(Len(counts[r]) - 1) : h2[i] = hist[i + 1]
        /\ \A i \in 1..(Len(counts[r]) - 1) :
             RoundOf(SubSeq(sub[r], n + 1, Len(sub[r])), e2, i) = RoundOf(sub[r], end, i + 1)
  BY <1>8
<1>10. /\ counts'[r] = Tail(counts[r]) /\ sub'[r] = SubSeq(sub[r], n + 1, Len(sub[r]))
       /\ \A q \in Ranks : q # r => counts'[q] = counts[q] /\ sub'[q] = sub[q]
       /\ DOMAIN sub' = Ranks
  BY <1>1, <1>2 DEF Shape
<1>11. /\ Lag(r) \in Nat \ {0} /\ Lag(r) = Len(counts[r])
       /\ Len(counts'[r]) = Lag(r) - 1 /\ counts'[r] \in Seq(Nat)
  <2>1. \A s \in Seq(Nat) : s # <<>> =>
          Len(s) \in Nat \ {0} /\ Len(Tail(s)) = Len(s) - 1 /\ Tail(s) \in Seq(Nat)
    OBVIOUS
  <2> QED BY <1>1, <1>3, <1>10, <2>1 DEF Lag
<1>12. Shape'
  <2>1. counts' \in [Ranks -> Seq(Nat)]
    <3>1. counts' = [q \in Ranks |-> counts'[q]]
      BY <1>1, <1>2 DEF Shape
    <3>2. \A q \in Ranks : counts'[q] \in Seq(Nat)
      BY <1>2, <1>10, <1>11 DEF Shape
    <3> QED BY <3>1, <3>2
  <2>2. \A q \in Ranks : IsList(sub'[q])
    BY <1>2, <1>8, <1>10 DEF Shape
  <2>3. tokenizers' \in 0..MaxTokenizers /\ toBackend' = toBackend
    BY <1>1, <1>2 DEF Shape, cfgVars
  <2> QED BY <1>2, <1>4, <1>10, <2>1, <2>2, <2>3 DEF Shape, Procs
<1>13. UNCHANGED <<eos, tooLong>>
  BY <1>1 DEF cfgVars
<1>14. Ahead(0)' = Ahead(0)
  BY <1>2, <1>4 DEF Ahead, Processed, Ended
<1>15. ASSUME NEW q \in Followers, q # r PROVE Following(q)'
  <2>1. q \in Ranks /\ Following(q)
    BY DEF FollowInv, Followers
  <2>2. Ahead(q)' = Ahead(q)
    BY <1>4, <1>15, <2>1 DEF Ahead, Processed, Ended
  <2> QED BY <1>2, <1>4, <1>10, <1>13, <1>14, <1>15, <2>1, <2>2, StillFollowing
<1>16. Following(r)'
  <2>1. Ahead(r)' = hist[1]
    <3>1. Ahead(r)' = Processed(State(r))'
      BY <1>4 DEF Ahead
    <3>2. Processed(State(r))' = Processed(Received(State(r), raws))
      BY <1>4 DEF Processed, Ended
    <3> QED BY <1>6, <1>8, <3>1, <3>2 DEF After
  <2>2. 0 \in 0..(Lag(r) - 1) /\ Lag(r) - 1 \in 0..(Lag(r) - 1) /\ (Lag(r) - 1) + 1 = Lag(r)
    BY <1>11
  <2>3. h2[0] = Ahead(r)' /\ h2[Lag(r) - 1] = Ahead(0)'
    BY <1>5, <1>9, <1>11, <1>14, <2>1, <2>2
  <2>4. Lag(r)' = Lag(r) - 1
    BY <1>11 DEF Lag
  <2>5. Replays(counts[r], sub[r], h2, e2)'
    <3>1. Replays(counts'[r], sub'[r], h2, e2)
      BY <1>9, <1>10
    <3> QED BY <1>13, <3>1, OperatorsStay DEF Replays, RoundOf
  <2>6. ASSUME at'[0] = "process" PROVE State(0)' = Received(hist[Lag(r) - 1], RoundOf(sub[r], end, Lag(r)))
    BY <1>2, <1>4, <1>5, <1>11, <2>6
  <2>7. ASSUME at'[0] = "process", Lag(r)' > 0
        PROVE  State(0)' = Received(h2[Lag(r)' - 1], RoundOf(sub[r]', e2, Lag(r)'))
    <3>1. /\ Lag(r) - 1 \in 1..(Len(counts[r]) - 1) /\ Lag(r) - 2 \in 0..(Len(counts[r]) - 1)
          /\ (Lag(r) - 2) + 1 = Lag(r) - 1 /\ Lag(r)' - 1 = Lag(r) - 2
      BY <1>11, <2>4, <2>7
    <3>2. /\ h2[Lag(r) - 2] = hist[Lag(r) - 1]
          /\ RoundOf(sub'[r], e2, Lag(r) - 1) = RoundOf(sub[r], end, Lag(r))
      BY <1>9, <1>10, <2>2, <3>1
    <3> QED BY <2>4, <2>6, <2>7, <3>1, <3>2
  <2>8. Received(h2[Lag(r) - 1], RoundOf(sub[r], e2, Lag(r)))'
          = Received(h2[Lag(r)' - 1], RoundOf(sub[r]', e2, Lag(r)'))
    BY <1>13, OperatorsStay DEF RoundOf
  <2>9. ASSUME at'[0] = "process", Lag(r)' = 0 PROVE State(r)' = State(0)'
    <3>1. Lag(r) = 1 /\ 1 - 1 = 0
      BY <1>11, <2>4, <2>9
    <3>2. State(0)' = Received(hist[0], RoundOf(sub[r], end, 1))
      BY <2>6, <2>9, <3>1
    <3> QED BY <1>4, <1>6, <1>8, <3>2
  <2> QED BY <2>3, <2>4, <2>5, <2>7, <2>8, <2>9 DEF Following
<1> QED BY <1>12, <1>15, <1>16 DEF FollowInv, Followers

LEMMA RankProcesses ==
  ASSUME FollowInv, NEW r \in Ranks, ProcessLast(r)
  PROVE  FollowInv'
<1>1. Shape /\ 0 \in Ranks
  BY ServingAssumption DEF FollowInv
<1>2. /\ at[r] = "process" /\ at'[r] = "receive"
      /\ State(r)' = Processed(State(r))
      /\ \A q \in Ranks : q # r => at'[q] = at[q] /\ State(q)' = State(q)
      /\ DOMAIN live' = Ranks /\ DOMAIN data' = Ranks /\ DOMAIN ongoing' = Ranks
      /\ at' \in [Ranks -> {"receive", "process"}]
  BY <1>1, ProcessParts
<1>3. UNCHANGED <<cfgVars, toBackend, sub, counts>>
  BY DEF ProcessLast
<1>4. Shape'
  BY <1>1, <1>2, <1>3 DEF Shape, Procs, cfgVars
<1>5. \A q \in Ranks : Ahead(q)' = Ahead(q)
  <2>1. Ahead(r)' = Ahead(r)
    BY <1>2 DEF Ahead
  <2>2. ASSUME NEW q \in Ranks, q # r PROVE Ahead(q)' = Ahead(q)
    BY <1>2, <2>2 DEF Ahead, Processed, Ended
  <2> QED BY <2>1, <2>2
<1>6. \A q \in Ranks : at'[q] = "process" => at[q] = "process" /\ State(q)' = State(q)
  BY <1>2
<1>7. ASSUME NEW q \in Followers PROVE Following(q)'
  <2>1. q \in Ranks /\ Following(q) /\ UNCHANGED <<eos, tooLong>>
    BY <1>3 DEF FollowInv, Followers, cfgVars
  <2> QED BY <1>1, <1>3, <1>5, <1>6, <2>1, StillFollowing
<1> QED BY <1>4, <1>7 DEF FollowInv, Followers

LEMMA FollowStep ==
  ASSUME FollowInv, [Next]_vars
  PROVE  FollowInv'
<1>1. Shape
  BY DEF FollowInv
<1>2. CASE Request \/ Listen \/ UNCHANGED vars
  <2>1. UNCHANGED <<cfgVars, rankVars, toBackend>>
    BY <1>2 DEF Request, Listen, vars, pipeVars
  <2> QED BY <1>1, <2>1, OutsideSteps DEF Shape
<1>3. ASSUME NEW u \in Uids, Answer(u) \/ Disconnect(u) PROVE FollowInv'
  <2>1. UNCHANGED <<cfgVars, rankVars, toBackend>>
    BY <1>3 DEF Answer, Wake, Deliver, End, AbortUser, Disconnect, pipeVars
  <2> QED BY <1>1, <2>1, OutsideSteps DEF Shape
<1>4. ASSUME NEW p \in Procs, Tokenize(p) PROVE FollowInv'
  <2>1. Forward(p, Head(toTok[p]))
    BY <1>4 DEF Tokenize
  <2>2. UNCHANGED <<cfgVars, rankVars>>
    BY <2>1 DEF Forward
  <2> QED BY <1>1, <2>1, <2>2, ForwardParts, OutsideSteps
<1>5. CASE Detokenize
  <2>1. Forward(0, Head(toDetok)) /\ 0 \in Procs
    BY <1>5, ServingAssumption DEF Detokenize, Procs
  <2>2. UNCHANGED <<cfgVars, rankVars>>
    BY <2>1 DEF Forward
  <2> QED BY <1>1, <2>1, <2>2, ForwardParts, OutsideSteps
<1>6. ASSUME NEW r \in Ranks, RunRank(r) PROVE FollowInv'
  <2>1. CASE ProcessLast(r)
    BY <2>1, RankProcesses
  <2>2. CASE r = 0 /\ RecvRank0
    BY <2>2, Rank0Receives
  <2>3. CASE r # 0 /\ RecvFollower(r)
    BY <2>3, FollowerReceives DEF Followers
  <2> QED BY <1>6, <2>1, <2>2, <2>3 DEF RunRank
<1> QED BY <1>2, <1>3, <1>4, <1>5, <1>6 DEF Next
-----------------------------------------------------------------------------
(* Lists joined.                                                           *)

LEMMA JoinParts ==
  ASSUME NEW S, NEW a \in Seq(S), NEW b \in Seq(S)
  PROVE  /\ a \o b \in Seq(S) /\ Len(a \o b) = Len(a) + Len(b)
         /\ \A i \in 1..Len(a) : (a \o b)[i] = a[i]
         /\ \A i \in 1..Len(b) : (a \o b)[Len(a) + i] = b[i]
         /\ a \o <<>> = a /\ <<>> \o a = a
<1>1. a \o b \in Seq(S) /\ Len(a \o b) = Len(a) + Len(b)
  OBVIOUS
<1>2. \A i \in 1..Len(a) : (a \o b)[i] = a[i]
  OBVIOUS
<1>3. \A i \in 1..Len(b) : (a \o b)[Len(a) + i] = b[i]
  OBVIOUS
<1>4. a \o <<>> = a /\ <<>> \o a = a
  OBVIOUS
<1> QED BY <1>1, <1>2, <1>3, <1>4

LEMMA JoinAssoc ==
  ASSUME NEW S, NEW a \in Seq(S), NEW b \in Seq(S), NEW c \in Seq(S)
  PROVE  (a \o b) \o c = a \o (b \o c)
OBVIOUS

AppendsLast(a, b, m) == Append(a \o b, m) = a \o Append(b, m)
Regroups(a, b, c) == (a \o b) \o c = a \o (b \o c)
IsJoin(a, b, S) == a \o b \in Seq(S)

LEMMA JoinLaws ==
  /\ \A S : \A a, b \in Seq(S) : \A m \in S : AppendsLast(a, b, m)
  /\ \A S : \A a, b, c \in Seq(S) : Regroups(a, b, c)
  /\ \A S : \A a, b \in Seq(S) : IsJoin(a, b, S)
<1>1. \A S : \A a, b \in Seq(S) : \A m \in S : AppendsLast(a, b, m)
  BY DEF AppendsLast
<1>2. \A S : \A a, b, c \in Seq(S) : Regroups(a, b, c)
  BY DEF Regroups
<1>3. \A S : \A a, b \in Seq(S) : IsJoin(a, b, S)
  BY DEF IsJoin
<1> QED BY <1>1, <1>2, <1>3

LEMMA HeadFirst ==
  ASSUME NEW S, NEW q \in Seq(S), q # <<>>
  PROVE  Head(q) \in S /\ Tail(q) \in Seq(S) /\ <<Head(q)>> \in Seq(S) /\ q = <<Head(q)>> \o Tail(q)
OBVIOUS

-----------------------------------------------------------------------------
(* The messages of one request among those of a list.                      *)

AreMsgs(M) == \A m \in M : m.uid \in Uids
MsgsOf(M, u) == {m \in M : m.uid = u}

OwnSteps(own, raw, u, M) ==
  /\ own[0] = <<>>
  /\ \A i \in 1..Len(raw) :
       own[i] = IF raw[i].uid = u THEN Append(own[i - 1], raw[i]) ELSE own[i - 1]
  /\ \A i \in 0..Len(raw) : own[i] \in Seq(MsgsOf(M, u))
  /\ OfUids(raw)[u] = own[Len(raw)]

LEMMA OwnStepsExist ==
  ASSUME NEW M, AreMsgs(M), NEW raw \in Seq(M), NEW u \in Uids
  PROVE  \E own : OwnSteps(own, raw, u, M)
<1> DEFINE none == [v \in Uids |-> <<>>]
           n == Len(raw)
<1>1. PICK acc : /\ acc[0] = none
                 /\ \A i \in 1..n : acc[i] = AddToUid(acc[i - 1], raw[i])
                 /\ FoldLeft(AddToUid, none, raw) = acc[n]
  <2>1. FoldLeft(AddToUid, none, raw) = OwnF!Fold(none, raw)
    BY DEF FoldLeft, MapThenFoldSet, Max, OwnF!Fold, OwnF!LastOf
  <2> HIDE DEF none
  <2>2. \E acc : /\ acc[0] = none
                 /\ \A i \in 1..Len(raw) : acc[i] = AddToUid(acc[i - 1], raw[i])
                 /\ OwnF!Fold(none, raw) = acc[Len(raw)]
    BY OwnF!FoldSteps, Zenon
  <2> QED BY <2>1, <2>2
<1>2. n \in Nat /\ \A i \in 1..n : raw[i] \in M /\ raw[i].uid \in Uids
  BY DEF AreMsgs
<1>3. \A i \in 0..n : acc[i] = [v \in Uids |-> acc[i][v]]
  <2> DEFINE Good == {i \in 0..n : acc[i] = [v \in Uids |-> acc[i][v]]}
  <2>1. 0 \in Good
    BY <1>1, <1>2
  <2>2. ASSUME NEW i \in 1..n, i - 1 \in Good PROVE i \in Good
    <3>1. acc[i - 1] = [v \in Uids |-> acc[i - 1][v]]
      BY <2>2
    <3>2. acc[i] = [acc[i - 1] EXCEPT ![raw[i].uid] = Append(@, raw[i])]
      BY <1>1 DEF AddToUid
    <3>3. acc[i] = [v \in Uids |-> acc[i][v]]
      BY <3>1, <3>2
    <3> QED BY <1>2, <3>3
  <2> HIDE DEF Good, n
  <2>3. \A i \in 0..n : i \in Good
    BY <1>2, <2>1, <2>2, OwnF!UpTo
  <2> QED BY <2>3 DEF Good
<1> DEFINE own == [i \in 0..n |-> acc[i][u]]
<1>4. own[0] = <<>> /\ OfUids(raw)[u] = own[n]
  BY <1>1, <1>2 DEF OfUids
<1>5. ASSUME NEW i \in 1..n
      PROVE  own[i] = IF raw[i].uid = u THEN Append(own[i - 1], raw[i]) ELSE own[i - 1]
  <2>1. i - 1 \in 0..n /\ i \in 0..n
    BY <1>2
  <2>2. acc[i] = [acc[i - 1] EXCEPT ![raw[i].uid] = Append(@, raw[i])]
    BY <1>1 DEF AddToUid
  <2>3. acc[i - 1] = [v \in Uids |-> acc[i - 1][v]]
    BY <1>3, <2>1
  <2>4. acc[i][u] = IF raw[i].uid = u THEN Append(acc[i - 1][u], raw[i]) ELSE acc[i - 1][u]
    BY <2>2, <2>3
  <2>5. own[i] = acc[i][u] /\ own[i - 1] = acc[i - 1][u]
    BY <2>1
  <2> HIDE DEF own
  <2> QED BY <2>4, <2>5
<1> HIDE DEF own
<1>6. \A i \in 0..n : own[i] \in Seq(MsgsOf(M, u))
  <2> DEFINE Good == {i \in 0..n : own[i] \in Seq(MsgsOf(M, u))}
  <2>1. 0 \in Good
    <3>1. <<>> \in Seq(MsgsOf(M, u)) /\ 0 \in 0..n
      BY <1>2
    <3> QED BY <1>4, <3>1
  <2>2. ASSUME NEW i \in 1..n, i - 1 \in Good PROVE i \in Good
    <3>1. raw[i].uid = u => raw[i] \in MsgsOf(M, u)
      BY <1>2 DEF MsgsOf
    <3>2. own[i - 1] \in Seq(MsgsOf(M, u))
      BY <2>2
    <3>3. Append(own[i - 1], raw[i]) \in Seq(MsgsOf(M, u)) \/ raw[i].uid # u
      <4> DEFINE S == MsgsOf(M, u)
                 s == own[i - 1]
      <4>1. s \in Seq(S) /\ (raw[i] \in S \/ raw[i].uid # u)
        BY <3>1, <3>2
      <4> HIDE DEF S, s
      <4>2. Append(s, raw[i]) \in Seq(S) \/ raw[i].uid # u
        BY <4>1
      <4> QED BY <4>2 DEF S, s
    <3>4. own[i] \in Seq(MsgsOf(M, u))
      BY <1>5, <3>2, <3>3, Zenon
    <3> QED BY <1>2, <3>4
  <2> HIDE DEF Good, n
  <2>3. \A i \in 0..n : i \in Good
    BY <1>2, <2>1, <2>2, OwnF!UpTo
  <2> QED BY <2>3 DEF Good
<1>7. OwnSteps(own, raw, u, M)
  BY <1>4, <1>5, <1>6 DEF OwnSteps
<1> QED BY <1>7

LEMMA OwnType ==
  ASSUME NEW M, AreMsgs(M), NEW raw \in Seq(M)
  PROVE  /\ \A u \in Uids : OfUids(raw)[u] \in Seq(MsgsOf(M, u)) /\ OfUids(raw)[u] \in Seq(M)
         /\ \A u \in Uids : OfUids(<<>>)[u] = <<>>
<1>1. ASSUME NEW u \in Uids PROVE OfUids(raw)[u] \in Seq(MsgsOf(M, u))
  <2>1. PICK own : OwnSteps(own, raw, u, M)
    BY OwnStepsExist
  <2>2. Len(raw) \in 0..Len(raw)
    OBVIOUS
  <2> QED BY <2>1, <2>2 DEF OwnSteps
<1>2. ASSUME NEW u \in Uids PROVE OfUids(raw)[u] \in Seq(M)
  <2> DEFINE s == OfUids(raw)[u]
             S == MsgsOf(M, u)
  <2>1. s \in Seq(S) /\ S \subseteq M
    BY <1>1 DEF MsgsOf
  <2> HIDE DEF s, S
  <2>2. s \in Seq(M)
    BY <2>1
  <2> QED BY <2>2 DEF s
<1>3. ASSUME NEW u \in Uids PROVE OfUids(<<>>)[u] = <<>>
  <2>1. <<>> \in Seq(M) /\ Len(<<>>) = 0
    OBVIOUS
  <2>2. PICK own : OwnSteps(own, <<>>, u, M)
    BY <2>1, OwnStepsExist
  <2> QED BY <2>1, <2>2 DEF OwnSteps
<1> QED BY <1>1, <1>2, <1>3

LEMMA OwnJoin ==
  ASSUME NEW M, AreMsgs(M), NEW a \in Seq(M), NEW b \in Seq(M), NEW u \in Uids
  PROVE  OfUids(a \o b)[u] = OfUids(a)[u] \o OfUids(b)[u]
<1> DEFINE c == a \o b
           n == Len(a)
           m == Len(b)
           S == MsgsOf(M, u)
<1>1. /\ c \in Seq(M) /\ Len(c) = n + m /\ n \in Nat /\ m \in Nat
      /\ \A i \in 1..n : c[i] = a[i]
      /\ \A i \in 1..m : c[n + i] = b[i]
  BY JoinParts
<1> HIDE DEF c
<1>2. PICK f : OwnSteps(f, a, u, M)
  BY OwnStepsExist
<1>3. PICK h : OwnSteps(h, b, u, M)
  BY OwnStepsExist
<1>4. PICK g : OwnSteps(g, c, u, M)
  BY <1>1, OwnStepsExist
<1>5. /\ f[0] = <<>> /\ OfUids(a)[u] = f[n] /\ \A i \in 0..n : f[i] \in Seq(S)
      /\ \A i \in 1..n : f[i] = IF a[i].uid = u THEN Append(f[i - 1], a[i]) ELSE f[i - 1]
  BY <1>2 DEF OwnSteps
<1>6. /\ h[0] = <<>> /\ OfUids(b)[u] = h[m] /\ \A i \in 0..m : h[i] \in Seq(S)
      /\ \A i \in 1..m : h[i] = IF b[i].uid = u THEN Append(h[i - 1], b[i]) ELSE h[i - 1]
  BY <1>3 DEF OwnSteps
<1>7. /\ g[0] = <<>> /\ OfUids(c)[u] = g[n + m]
      /\ \A i \in 1..(n + m) : g[i] = IF c[i].uid = u THEN Append(g[i - 1], c[i]) ELSE g[i - 1]
  BY <1>1, <1>4 DEF OwnSteps
<1> HIDE DEF n, m
<1>8. \A i \in 0..n : g[i] = f[i]
  <2> DEFINE Good == {i \in 0..n : g[i] = f[i]}
  <2>1. 0 \in Good
    BY <1>1, <1>5, <1>7
  <2>2. ASSUME NEW i \in 1..n, i - 1 \in Good PROVE i \in Good
    <3>1. g[i - 1] = f[i - 1] /\ i \in 0..n /\ i \in 1..(n + m) /\ c[i] = a[i]
      BY <1>1, <2>2
    <3>2. g[i] = f[i]
      BY <1>5, <1>7, <3>1
    <3> QED BY <3>1, <3>2
  <2> HIDE DEF Good
  <2>3. \A i \in 0..n : i \in Good
    BY <1>1, <2>1, <2>2, OwnF!UpTo
  <2> QED BY <2>3 DEF Good
<1>9. \A i \in 0..m : g[n + i] = f[n] \o h[i]
  <2> DEFINE Good == {i \in 0..m : g[n + i] = f[n] \o h[i]}
  <2>1. 0 \in Good
    <3>1. f[n] \in Seq(S) /\ n \in 0..n /\ n + 0 = n
      BY <1>1, <1>5
    <3>2. f[n] \o <<>> = f[n]
      <4> HIDE DEF S
      <4> QED BY <3>1
    <3>3. g[n + 0] = f[n] \o h[0]
      BY <1>6, <1>8, <3>1, <3>2, Zenon
    <3>4. 0 \in 0..m
      BY <1>1
    <3> QED BY <3>3, <3>4, Zenon
  <2>2. ASSUME NEW i \in 1..m, i - 1 \in Good PROVE i \in Good
    <3>0. g[n + (i - 1)] = f[n] \o h[i - 1] /\ i - 1 \in 0..m
      BY <2>2, Zenon
    <3>1. /\ i \in 0..m /\ n + i \in 1..(n + m)
          /\ c[n + i] = b[i] /\ n + (i - 1) = (n + i) - 1 /\ i - 1 \in 0..m /\ n \in 0..n
      BY <1>1
    <3>2. g[n + i] = IF b[i].uid = u THEN Append(f[n] \o h[i - 1], b[i]) ELSE f[n] \o h[i - 1]
      <4>1. g[n + i] = IF c[n + i].uid = u THEN Append(g[(n + i) - 1], c[n + i]) ELSE g[(n + i) - 1]
        BY <1>7, <3>1, Zenon
      <4> QED BY <3>0, <3>1, <4>1
    <3>3. f[n] \in Seq(S) /\ h[i - 1] \in Seq(S)
      BY <1>5, <1>6, <3>1
    <3>4. b[i].uid = u => b[i] \in S
      BY DEF MsgsOf, m
    <3>5. b[i].uid = u => Append(f[n] \o h[i - 1], b[i]) = f[n] \o Append(h[i - 1], b[i])
      <4> HIDE DEF S
      <4> SUFFICES ASSUME b[i].uid = u
                   PROVE  Append(f[n] \o h[i - 1], b[i]) = f[n] \o Append(h[i - 1], b[i])
        OBVIOUS
      <4>1. b[i] \in S
        BY <3>4, Zenon
      <4>2. AppendsLast(f[n], h[i - 1], b[i])
        BY <3>3, <4>1, JoinLaws, Zenon
      <4> QED BY <4>2, Zenon DEF AppendsLast
    <3>6. g[n + i] = f[n] \o h[i]
      BY <1>6, <3>2, <3>5, Zenon
    <3> QED BY <3>1, <3>6, Zenon
  <2> HIDE DEF Good
  <2>3. \A i \in 0..m : i \in Good
    BY <1>1, <2>1, <2>2, OwnF!UpTo
  <2> QED BY <2>3 DEF Good
<1>10. m \in 0..m
  BY <1>1
<1> QED BY <1>5, <1>6, <1>7, <1>9, <1>10 DEF c

(* Where a list has at most one message of a request.                      *)
LEMMA OwnNone ==
  ASSUME NEW M, AreMsgs(M), NEW raw \in Seq(M), NEW u \in Uids,
         \A i \in 1..Len(raw) : raw[i].uid # u
  PROVE  OfUids(raw)[u] = <<>>
<1>1. PICK own : OwnSteps(own, raw, u, M)
  BY OwnStepsExist
<1> DEFINE n == Len(raw)
           Good == {i \in 0..n : own[i] = <<>>}
<1>2. n \in Nat
  OBVIOUS
<1>3. 0 \in Good
  BY <1>1, <1>2 DEF OwnSteps
<1>4. ASSUME NEW i \in 1..n, i - 1 \in Good PROVE i \in Good
  <2>1. own[i] = own[i - 1]
    BY <1>1, Zenon DEF OwnSteps
  <2>2. own[i - 1] = <<>>
    BY <1>4, Zenon
  <2>3. i \in 0..n
    BY <1>2
  <2> QED BY <2>1, <2>2, <2>3, Zenon
<1> HIDE DEF Good, n
<1>5. \A i \in 0..n : i \in Good
  BY <1>2, <1>3, <1>4, OwnF!UpTo
<1>6. own[n] = <<>>
  BY <1>2, <1>5 DEF Good
<1> QED BY <1>1, <1>6 DEF OwnSteps, n

LEMMA OwnOnce ==
  ASSUME NEW M, AreMsgs(M), NEW raw \in Seq(M), NEW u \in Uids, NEW k \in 1..Len(raw),
         raw[k].uid = u, \A i \in 1..Len(raw) : raw[i].uid = u => i = k
  PROVE  OfUids(raw)[u] = <<raw[k]>>
<1>1. PICK own : OwnSteps(own, raw, u, M)
  BY OwnStepsExist
<1> DEFINE n == Len(raw)
           Good == {i \in 0..n : own[i] = IF i < k THEN <<>> ELSE <<raw[k]>>}
<1>2. n \in Nat /\ k \in 1..n
  OBVIOUS
<1>3. 0 \in Good
  BY <1>1, <1>2 DEF OwnSteps
<1>4. ASSUME NEW i \in 1..n, i - 1 \in Good PROVE i \in Good
  <2>1. own[i - 1] = IF i - 1 < k THEN <<>> ELSE <<raw[k]>>
    BY <1>4
  <2>2. own[i] = IF raw[i].uid = u THEN Append(own[i - 1], raw[i]) ELSE own[i - 1]
    BY <1>1 DEF OwnSteps
  <2>3. raw[i].uid = u <=> i = k
    OBVIOUS
  <2>4. Append(<<>>, raw[k]) = <<raw[k]>>
    OBVIOUS
  <2> DEFINE one == <<raw[k]>>
  <2>5. own[i] = IF i < k THEN <<>> ELSE one
    <3>1. own[i - 1] = IF i - 1 < k THEN <<>> ELSE one
      BY <2>1
    <3>2. Append(<<>>, raw[k]) = one
      BY <2>4
    <3> HIDE DEF one
    <3>3. CASE i < k
      <4>1. own[i - 1] = <<>> /\ i # k
        BY <1>2, <3>1, <3>3
      <4> QED BY <2>2, <2>3, <3>3, <4>1, Zenon
    <3>4. CASE i = k
      <4>1. own[i - 1] = <<>> /\ ~(i < k)
        BY <1>2, <3>1, <3>4
      <4> QED BY <2>2, <2>3, <3>2, <3>4, <4>1, Zenon
    <3>5. CASE i > k
      <4>1. own[i - 1] = one /\ ~(i < k) /\ i # k
        BY <1>2, <3>1, <3>5
      <4> QED BY <2>2, <2>3, <4>1, Zenon
    <3> QED BY <1>2, <3>3, <3>4, <3>5
  <2> QED BY <1>2, <2>5
<1> HIDE DEF Good, n
<1>5. \A i \in 0..n : i \in Good
  BY <1>2, <1>3, <1>4, OwnF!UpTo
<1>6. own[n] = <<raw[k]>>
  BY <1>2, <1>5 DEF Good
<1> QED BY <1>1, <1>6 DEF OwnSteps, n

-----------------------------------------------------------------------------
(* A queue carries messages, or batches of them; Own(q, u) is what it      *)
(* carries of u, in order.                                                 *)

Own(q, u) == OfUids(FlattenSeq(q))[u]

Adds(q, x, u) ==
  /\ Own(q \o IfAny(x), u) = Own(q, u) \o OfUids(x)[u]
  /\ Own(Append(q, x), u) = Own(q, u) \o OfUids(x)[u]
Takes(q, u) == q # <<>> => Own(q, u) = OfUids(Head(q))[u] \o Own(Tail(q), u)
OwnIs(q, u, M) == Own(q, u) \in Seq(MsgsOf(M, u)) /\ Own(q, u) \in Seq(M)

LEMMA OwnQueue ==
  ASSUME NEW M, AreMsgs(M)
  PROVE  /\ \A u \in Uids : Own(<<>>, u) = <<>>
         /\ \A u \in Uids : \A q \in Seq(Seq(M)) : OwnIs(q, u, M)
         /\ \A u \in Uids : \A q \in Seq(Seq(M)) : Takes(q, u)
         /\ \A u \in Uids : \A q \in Seq(Seq(M)) : \A x \in Seq(M) : Adds(q, x, u)
<1>1. ASSUME NEW u \in Uids PROVE Own(<<>>, u) = <<>>
  <2>1. <<>> \in Seq(M)
    OBVIOUS
  <2>2. FlattenSeq(<<>>) = <<>>
    BY <2>1, FlatOne
  <2>3. OfUids(<<>>)[u] = <<>>
    BY <2>1, OwnType, Zenon
  <2> QED BY <2>2, <2>3, Zenon DEF Own
<1>2. ASSUME NEW u \in Uids, NEW q \in Seq(Seq(M)) PROVE OwnIs(q, u, M)
  <2>1. FlattenSeq(q) \in Seq(M)
    BY FlatType, Zenon
  <2> QED BY <2>1, OwnType, Zenon DEF Own, OwnIs
<1>3. ASSUME NEW u \in Uids, NEW a \in Seq(Seq(M)), NEW b \in Seq(Seq(M))
      PROVE  Own(a \o b, u) = Own(a, u) \o Own(b, u)
  <2>1. FlattenSeq(a) \in Seq(M) /\ FlattenSeq(b) \in Seq(M)
    BY FlatType, Zenon
  <2>2. FlattenSeq(a \o b) = FlattenSeq(a) \o FlattenSeq(b)
    BY FlatJoin, Zenon
  <2>3. OfUids(FlattenSeq(a) \o FlattenSeq(b))[u]
          = OfUids(FlattenSeq(a))[u] \o OfUids(FlattenSeq(b))[u]
    BY <2>1, OwnJoin, Zenon
  <2> QED BY <2>2, <2>3, Zenon DEF Own
<1>4. ASSUME NEW u \in Uids, NEW x \in Seq(M)
      PROVE  Own(<<x>>, u) = OfUids(x)[u] /\ <<x>> \in Seq(Seq(M))
  <2>1. FlattenSeq(<<x>>) = x
    BY FlatOne
  <2>2. <<x>> \in Seq(Seq(M))
    OBVIOUS
  <2> QED BY <2>1, <2>2, Zenon DEF Own
<1>5. ASSUME NEW u \in Uids, NEW q \in Seq(Seq(M)) PROVE Takes(q, u)
  <2> SUFFICES ASSUME q # <<>> PROVE Own(q, u) = OfUids(Head(q))[u] \o Own(Tail(q), u)
    BY DEF Takes
  <2> DEFINE S == Seq(M)
  <2>1. q \in Seq(S)
    OBVIOUS
  <2> HIDE DEF S
  <2>2. Head(q) \in S /\ Tail(q) \in Seq(S) /\ q = <<Head(q)>> \o Tail(q)
    BY <2>1, HeadFirst
  <2> USE DEF S
  <2>3. Own(<<Head(q)>> \o Tail(q), u) = Own(<<Head(q)>>, u) \o Own(Tail(q), u)
    BY <1>3, <1>4, <2>2, Zenon
  <2> QED BY <1>4, <2>2, <2>3, Zenon
<1>6. ASSUME NEW u \in Uids, NEW q \in Seq(Seq(M)), NEW x \in Seq(M) PROVE Adds(q, x, u)
  <2>1. Own(q \o <<x>>, u) = Own(q, u) \o OfUids(x)[u]
    BY <1>3, <1>4, Zenon
  <2>2. Append(q, x) = q \o <<x>>
    <3> DEFINE S == Seq(M)
    <3>1. q \in Seq(S) /\ x \in S
      OBVIOUS
    <3> HIDE DEF S
    <3> QED BY <3>1
  <2>3. CASE x # <<>>
    BY <2>1, <2>2, <2>3, Zenon DEF Adds, IfAny
  <2>4. CASE x = <<>>
    <3>1. q \o <<>> = q
      <4> DEFINE S == Seq(M)
      <4>1. q \in Seq(S)
        OBVIOUS
      <4> HIDE DEF S
      <4> QED BY <4>1
    <3>2. OfUids(x)[u] = <<>>
      BY <2>4, OwnType
    <3>3. Own(q, u) \in Seq(M)
      BY <1>2 DEF OwnIs
    <3>4. Own(q, u) \o <<>> = Own(q, u)
      BY <3>3
    <3> QED BY <2>1, <2>2, <2>4, <3>1, <3>2, <3>4, Zenon DEF Adds, IfAny
  <2> QED BY <2>3, <2>4
<1> QED BY <1>1, <1>2, <1>5, <1>6

-----------------------------------------------------------------------------
(* The kinds of messages.                                                  *)

Types      == {"tokenize", "abort", "detok"}
Tok(u)     == Msg("tokenize", u)
Ab(u)      == Msg("abort", u)
Toks       == {Tok(u) : u \in Uids}
Abs        == {Ab(u) : u \in Uids}
Plain      == Toks \cup Abs
Replies    == {Detok(u, i) : u \in Uids, i \in Nat}
Raws       == Seq(Toks) \cup Seq(Abs)

AllOf(M, t) == \A m \in M : m.type = t

LEMMA Kinds ==
  /\ AreMsgs(Plain) /\ AreMsgs(Toks) /\ AreMsgs(Abs) /\ AreMsgs(Replies)
  /\ AllOf(Toks, "tokenize") /\ AllOf(Abs, "abort") /\ AllOf(Replies, "detok")
  /\ \A u \in Uids : MsgsOf(Toks, u) = {Tok(u)} /\ MsgsOf(Abs, u) = {Ab(u)}
  /\ \A u \in Uids : Tok(u).uid = u /\ Ab(u).uid = u /\ Tok(u) \in Plain /\ Ab(u) \in Plain
  /\ \A u \in Uids : Tok(u).type = "tokenize" /\ Ab(u).type = "abort" /\ Tok(u) # Ab(u)
  /\ \A u \in Uids : \A i \in Nat : Detok(u, i).uid = u /\ Detok(u, i) \in MsgsOf(Replies, u)
  /\ \A m \in Plain : m = Tok(m.uid) \/ m = Ab(m.uid)
  /\ Seq(Toks) \subseteq Seq(Plain) /\ Seq(Abs) \subseteq Seq(Plain) /\ Raws \subseteq Seq(Plain)
<1>1. \A u \in Uids : /\ Tok(u).uid = u /\ Ab(u).uid = u /\ Tok(u) \in Plain /\ Ab(u) \in Plain
                      /\ Tok(u).type = "tokenize" /\ Ab(u).type = "abort" /\ Tok(u) # Ab(u)
  BY DEF Tok, Ab, Msg, Plain, Toks, Abs
<1>2. \A u \in Uids : \A i \in Nat :
        Detok(u, i).uid = u /\ Detok(u, i).type = "detok" /\ Detok(u, i) \in Replies
  BY DEF Detok, Replies
<1>3. ASSUME NEW m \in Replies PROVE m.uid \in Uids /\ m.type = "detok"
  <2>1. PICK u \in Uids, i \in Nat : m = Detok(u, i)
    BY DEF Replies
  <2> QED BY <1>2, <2>1, Zenon
<1>4. ASSUME NEW m \in Toks PROVE m.uid \in Uids /\ m.type = "tokenize" /\ m = Tok(m.uid)
  <2>1. PICK u \in Uids : m = Tok(u)
    BY DEF Toks
  <2> QED BY <1>1, <2>1, Zenon
<1>5. ASSUME NEW m \in Abs PROVE m.uid \in Uids /\ m.type = "abort" /\ m = Ab(m.uid)
  <2>1. PICK u \in Uids : m = Ab(u)
    BY DEF Abs
  <2> QED BY <1>1, <2>1, Zenon
<1>6. \A u \in Uids : MsgsOf(Toks, u) = {Tok(u)} /\ MsgsOf(Abs, u) = {Ab(u)}
  <2>1. \A u \in Uids : Tok(u) \in Toks /\ Ab(u) \in Abs
    BY Zenon DEF Toks, Abs
  <2> HIDE DEF Toks, Abs, Tok, Ab
  <2> QED BY <1>1, <1>4, <1>5, <2>1 DEF MsgsOf
<1>7. \A u \in Uids : \A i \in Nat : Detok(u, i) \in MsgsOf(Replies, u)
  BY <1>2, Zenon DEF MsgsOf
<1>8. Seq(Toks) \subseteq Seq(Plain) /\ Seq(Abs) \subseteq Seq(Plain)
  <2>1. Toks \subseteq Plain /\ Abs \subseteq Plain
    BY DEF Plain
  <2>2. \A A, B : A \subseteq B => Seq(A) \subseteq Seq(B)
    OBVIOUS
  <2> QED BY <2>1, <2>2, Zenon
<1> QED BY <1>1, <1>2, <1>3, <1>4, <1>5, <1>6, <1>7, <1>8, Zenon DEF AreMsgs, AllOf, Plain, Raws

LEMMA AllOneType ==
  ASSUME NEW M, NEW raw \in Seq(M), NEW t \in Types, AllOf(M, t)
  PROVE  /\ OfTypes(raw)[t] = raw
         /\ \A s \in Types \ {t} : OfTypes(raw)[s] = <<>>
<1> DEFINE none == [s \in Types |-> <<>>]
           n == Len(raw)
<1>1. PICK acc : /\ acc[0] = none
                 /\ \A i \in 1..n : acc[i] = AddToType(acc[i - 1], raw[i])
                 /\ OfTypes(raw) = acc[n]
  <2>1. FoldLeft(AddToType, none, raw) = Kind!Fold(none, raw)
    BY DEF FoldLeft, MapThenFoldSet, Max, Kind!Fold, Kind!LastOf
  <2>2. OfTypes(raw) = FoldLeft(AddToType, none, raw)
    BY DEF OfTypes, Types
  <2> HIDE DEF none
  <2>3. \E acc : /\ acc[0] = none
                 /\ \A i \in 1..Len(raw) : acc[i] = AddToType(acc[i - 1], raw[i])
                 /\ Kind!Fold(none, raw) = acc[Len(raw)]
    BY Kind!FoldSteps, Zenon
  <2> QED BY <2>1, <2>2, <2>3
<1>2. n \in Nat /\ \A i \in 1..n : raw[i] \in M /\ raw[i].type = t
  BY DEF AllOf
<1> DEFINE Copied(s, i) == s = [j \in 1..i |-> raw[j]]
           Good == {i \in 0..n : /\ acc[i] = [s \in Types |-> acc[i][s]]
                                 /\ Copied(acc[i][t], i)
                                 /\ \A s \in Types \ {t} : acc[i][s] = <<>>}
<1>3. 0 \in Good
  <2>1. <<>> = [j \in 1..0 |-> raw[j]]
    OBVIOUS
  <2> QED BY <1>1, <1>2, <2>1
<1>4. ASSUME NEW i \in 1..n, i - 1 \in Good PROVE i \in Good
  <2>1. acc[i - 1] = [s \in Types |-> acc[i - 1][s]] /\ Copied(acc[i - 1][t], i - 1)
        /\ \A s \in Types \ {t} : acc[i - 1][s] = <<>>
    BY <1>4
  <2>2. acc[i] = [acc[i - 1] EXCEPT ![t] = Append(acc[i - 1][t], raw[i])]
    BY <1>1, <1>2 DEF AddToType
  <2>3. acc[i] = [s \in Types |-> acc[i][s]] /\ acc[i][t] = Append(acc[i - 1][t], raw[i])
        /\ \A s \in Types \ {t} : acc[i][s] = <<>>
    <3> HIDE DEF Copied
    <3> QED BY <2>1, <2>2
  <2>4. Copied(acc[i][t], i)
    <3>1. i - 1 \in Nat /\ (i - 1) + 1 = i /\ \A j \in 1..(i - 1) : raw[j] \in M
      BY <1>2
    <3> DEFINE f == [j \in 1..(i - 1) |-> raw[j]]
    <3>2. f \in Seq(M) /\ Len(f) = i - 1 /\ \A j \in 1..(i - 1) : f[j] = raw[j]
      BY <3>1
    <3>3. raw[i] \in M
      BY <1>2
    <3> HIDE DEF f
    <3>4. Append(f, raw[i]) = [j \in 1..i |-> raw[j]]
      BY <3>1, <3>2, <3>3
    <3>5. acc[i - 1][t] = f
      BY <2>1 DEF f
    <3> QED BY <2>3, <3>4, <3>5
  <2> QED BY <1>2, <2>3, <2>4
<1> HIDE DEF Good, n
<1>5. \A i \in 0..n : i \in Good
  BY <1>2, <1>3, <1>4, OwnF!UpTo
<1>6. n \in 0..n
  BY <1>2
<1>7. Copied(acc[n][t], n) /\ \A s \in Types \ {t} : acc[n][s] = <<>>
  BY <1>5, <1>6 DEF Good
<1>8. raw = [j \in 1..n |-> raw[j]]
  BY DEF n
<1> QED BY <1>1, <1>7, <1>8

(* A tokenizer process forwards what it drained, unchanged, to where       *)
(* messages of its kind go.                                                *)
LEMMA Forwards ==
  /\ \A raw \in Raws : /\ OfTypes(raw)["detok"] = <<>>
                       /\ \/ OfTypes(raw)["tokenize"] = raw /\ OfTypes(raw)["abort"] = <<>>
                          \/ OfTypes(raw)["tokenize"] = <<>> /\ OfTypes(raw)["abort"] = raw
  /\ \A raw \in Seq(Replies) : /\ OfTypes(raw)["detok"] = raw
                               /\ OfTypes(raw)["tokenize"] = <<>> /\ OfTypes(raw)["abort"] = <<>>
<1>1. {"tokenize", "abort", "detok"} = Types
  BY DEF Types
<1>2. \A raw \in Seq(Toks) : /\ OfTypes(raw)["tokenize"] = raw
                             /\ \A s \in Types \ {"tokenize"} : OfTypes(raw)[s] = <<>>
  BY <1>1, Kinds, AllOneType
<1>3. \A raw \in Seq(Abs) : /\ OfTypes(raw)["abort"] = raw
                            /\ \A s \in Types \ {"abort"} : OfTypes(raw)[s] = <<>>
  BY <1>1, Kinds, AllOneType
<1>4. \A raw \in Seq(Replies) : /\ OfTypes(raw)["detok"] = raw
                                /\ \A s \in Types \ {"detok"} : OfTypes(raw)[s] = <<>>
  BY <1>1, Kinds, AllOneType
<1>5. "tokenize" # "abort" /\ "detok" # "abort" /\ "tokenize" # "detok"
  OBVIOUS
<1>6. /\ "detok" \in Types \ {"tokenize"} /\ "abort" \in Types \ {"tokenize"}
      /\ "detok" \in Types \ {"abort"} /\ "tokenize" \in Types \ {"abort"}
      /\ "tokenize" \in Types \ {"detok"} /\ "abort" \in Types \ {"detok"}
  BY <1>1, <1>5
<1>7. ASSUME NEW raw \in Raws
      PROVE  /\ OfTypes(raw)["detok"] = <<>>
             /\ \/ OfTypes(raw)["tokenize"] = raw /\ OfTypes(raw)["abort"] = <<>>
                \/ OfTypes(raw)["tokenize"] = <<>> /\ OfTypes(raw)["abort"] = raw
  <2>1. raw \in Seq(Toks) \/ raw \in Seq(Abs)
    BY DEF Raws
  <2> QED BY <1>2, <1>3, <1>6, <2>1, Zenon
<1>8. ASSUME NEW raw \in Seq(Replies)
      PROVE  /\ OfTypes(raw)["detok"] = raw
             /\ OfTypes(raw)["tokenize"] = <<>> /\ OfTypes(raw)["abort"] = <<>>
  BY <1>4, <1>6, Zenon
<1> QED BY <1>7, <1>8, Zenon

-----------------------------------------------------------------------------
(* The invariant behind StreamIsWhole and AbortEndsRequest.                *)

(* The messages of u in a batch that was launched: its next tokens.        *)
InBatch(b, u) == OfUids(Reply(b))[u]

(* What is on its way to rank 0 through process p, oldest first.           *)
Path(p, u) == Own(toBackend[p], u) \o Own(toTok[p], u)

(* What the client of u has been told, or will be with the next chunk.     *)
Told(u)     == got[u] \o held[u]

(* The replies on their way to its coroutine, oldest first.                *)
Acked(u)    == IF u \in DOMAIN ackMap THEN ackMap[u] ELSE <<>>
Queued(u)   == Own(toFront[0], u) \o Own(toDetok, u)
Launched(u) == InBatch(data[0], u) \o InBatch(ongoing[0], u)
Coming(u)   == (acks[u] \o Acked(u)) \o (Queued(u) \o Launched(u))
Mine(u)     == Seq(MsgsOf(Replies, u))
Pairs       == Uids \X Nat

FrontTypes ==
  /\ uidCounter \in Nat /\ DOMAIN coro = Uids
  /\ \A u \in Uids : u >= uidCounter => coro[u] = "none"
  /\ DOMAIN ackMap \subseteq Uids /\ DOMAIN eventMap = DOMAIN ackMap
  /\ \A u \in DOMAIN ackMap : ackMap[u] \in Mine(u) /\ coro[u] # "none"
  /\ DOMAIN acks = Uids /\ \A u \in Uids : acks[u] \in Mine(u)
  /\ got \in [Uids -> Seq(Nat)] /\ held \in [Uids -> Seq(Nat)]
  /\ turn \in Nat /\ (tokenizers # 0 => turn < tokenizers)

QueueTypes ==
  /\ toTok \in [Procs -> Seq(Raws)] /\ toBackend \in [Procs -> Seq(Raws)]
  /\ toFront \in [Procs -> Seq(Seq(Replies))] /\ toDetok \in Seq(Seq(Replies))
  /\ \A p \in Procs \ Tokenizers : toTok[p] = <<>> /\ toBackend[p] = <<>>
  /\ \A p \in Procs \ {0} : toFront[p] = <<>>

RankTypes ==
  /\ DOMAIN live[0] \subseteq Uids /\ \A u \in DOMAIN live[0] : live[0][u] \in Nat
  /\ data[0] \in Seq(Pairs) /\ ongoing[0] \in Seq(Pairs)
  /\ at[0] = "receive" => ongoing[0] = <<>>

(* Before it is aborted a request is sent at most once, through one        *)
(* process.                                                                *)
SentOnce(u) ==
  coro[u] # "aborted" =>
    /\ u \notin heard
    /\ \A p \in Procs : Path(p, u) \in {<<>>, <<Tok(u)>>}
    /\ \A p, q \in Procs : Path(p, u) # <<>> /\ Path(q, u) # <<>> => p = q

Unsent(u) ==
  coro[u] = "none" =>
    /\ u \notin DOMAIN live[0] /\ got[u] = <<>> /\ held[u] = <<>> /\ Coming(u) = <<>>
    /\ \A p \in Procs : Path(p, u) = <<>>

(* While its client listens: what it has been told, then what is coming    *)
(* and what the scheduler will launch next are the tokens 1, 2, 3, ... and *)
(* nothing is told before the request arrives.                             *)
Whole(u) ==
  coro[u] \in {"waiting", "yielding"} =>
    /\ u \in DOMAIN ackMap
    /\ coro[u] = "yielding" <=> acks[u] # <<>>
    /\ style[u] # "text" => held[u] = <<>>
    /\ \A i \in 1..Len(Told(u)) : Told(u)[i] = i
    /\ \A i \in 1..Len(Coming(u)) : Coming(u)[i] = Detok(u, Len(Told(u)) + i)
    /\ u \in DOMAIN live[0] => live[0][u] = Len(Told(u)) + Len(Coming(u))
    /\ (\E p \in Procs : Path(p, u) # <<>>) =>
         Told(u) = <<>> /\ Coming(u) = <<>> /\ u \notin DOMAIN live[0]

Complete(u) == coro[u] \in {"ending", "done"} => got[u] = [i \in 1..Need[u] |-> i]

(* With one tokenizer the abort follows the request and nothing follows    *)
(* the abort.                                                              *)
AbortLast(u) ==
  tokenizers <= 1 =>
    /\ u \in heard => u \notin DOMAIN live[0] /\ \A p \in Procs : Path(p, u) = <<>>
    /\ \A p \in Procs : Path(p, u) \in {<<>>, <<Tok(u)>>, <<Ab(u)>>, <<Tok(u), Ab(u)>>}

Journey(u) == SentOnce(u) /\ Unsent(u) /\ Whole(u) /\ Complete(u) /\ AbortLast(u)

StreamTypes == FrontTypes /\ QueueTypes /\ RankTypes
StreamInv   == StreamTypes /\ \A u \in Uids : Journey(u)

LEMMA RepliesTyped ==
  ASSUME NEW b \in Seq(Pairs)
  PROVE  Reply(b) \in Seq(Replies) /\ Len(Reply(b)) = Len(b) /\ (b = <<>> => Reply(b) = <<>>)
<1> DEFINE n == Len(b)
<1>1. n \in Nat /\ DOMAIN b = 1..n /\ \A i \in 1..n : b[i] \in Pairs
  OBVIOUS
<1>2. ASSUME NEW i \in 1..n PROVE Detok(b[i][1], b[i][2]) \in Replies
  <2>1. b[i][1] \in Uids /\ b[i][2] \in Nat
    BY <1>1 DEF Pairs
  <2> QED BY <2>1 DEF Replies
<1>3. Reply(b) = [i \in 1..n |-> Detok(b[i][1], b[i][2])]
  BY <1>1 DEF Reply
<1> DEFINE f == [i \in 1..n |-> Detok(b[i][1], b[i][2])]
<1>4. \A i \in 1..n : f[i] \in Replies
  BY <1>2
<1>5. b = <<>> => n = 0
  OBVIOUS
<1> HIDE DEF n
<1>6. f \in Seq(Replies) /\ Len(f) = n
  BY <1>1, <1>2
<1>7. n = 0 => f = <<>>
  OBVIOUS
<1> QED BY <1>3, <1>5, <1>6, <1>7 DEF n

LEMMA BatchTyped ==
  ASSUME NEW b \in Seq(Pairs), NEW u \in Uids
  PROVE  InBatch(b, u) \in Mine(u) /\ (b = <<>> => InBatch(b, u) = <<>>)
<1>1. Reply(b) \in Seq(Replies) /\ (b = <<>> => Reply(b) = <<>>) /\ AreMsgs(Replies)
  BY RepliesTyped, Kinds
<1> QED BY <1>1, OwnType, Zenon DEF InBatch, Mine

LEMMA Pieces ==
  ASSUME StreamTypes, NEW u \in Uids
  PROVE  /\ acks[u] \in Mine(u) /\ Acked(u) \in Mine(u)
         /\ Own(toFront[0], u) \in Mine(u) /\ Own(toDetok, u) \in Mine(u)
         /\ InBatch(data[0], u) \in Mine(u) /\ InBatch(ongoing[0], u) \in Mine(u)
         /\ Queued(u) \in Mine(u) /\ Launched(u) \in Mine(u) /\ Coming(u) \in Mine(u)
         /\ acks[u] \o Acked(u) \in Mine(u) /\ Queued(u) \o Launched(u) \in Mine(u)
         /\ got[u] \in Seq(Nat) /\ held[u] \in Seq(Nat) /\ Told(u) \in Seq(Nat)
<1>1. \A a, b \in Mine(u) : a \o b \in Mine(u)
  BY JoinLaws, Zenon DEF Mine, IsJoin
<1>2. acks[u] \in Mine(u) /\ Acked(u) \in Mine(u)
  <2>1. <<>> \in Mine(u)
    BY DEF Mine
  <2> QED BY <2>1, Zenon DEF StreamTypes, FrontTypes, Acked
<1>3. Own(toFront[0], u) \in Mine(u) /\ Own(toDetok, u) \in Mine(u)
  <2>1. 0 \in Procs
    BY ServingAssumption DEF Procs
  <2>2. toFront[0] \in Seq(Seq(Replies)) /\ toDetok \in Seq(Seq(Replies))
    BY <2>1, Zenon DEF StreamTypes, QueueTypes
  <2> QED BY <2>2, Kinds, OwnQueue, Zenon DEF OwnIs, Mine
<1>4. InBatch(data[0], u) \in Mine(u) /\ InBatch(ongoing[0], u) \in Mine(u)
  BY BatchTyped, Zenon DEF StreamTypes, RankTypes
<1>5. got[u] \in Seq(Nat) /\ held[u] \in Seq(Nat)
  BY Zenon DEF StreamTypes, FrontTypes
<1>6. Told(u) \in Seq(Nat)
  BY <1>5, JoinLaws, Zenon DEF Told, IsJoin
<1> QED BY <1>1, <1>2, <1>3, <1>4, <1>5, <1>6, Zenon DEF Queued, Launched, Coming

(* A step that leaves the journey of u where it is, or ends it in the      *)
(* scheduler.                                                              *)
Still(u) ==
  /\ UNCHANGED cfgVars
  /\ coro'[u] = coro[u] /\ acks'[u] = acks[u] /\ got'[u] = got[u] /\ held'[u] = held[u]
  /\ \A p \in Procs : Path(p, u)' = Path(p, u)
  /\ coro[u] \in {"none", "waiting", "yielding"} => Coming(u)' = Coming(u)
  /\ u \in heard' <=> u \in heard
  /\ u \in DOMAIN ackMap => u \in DOMAIN ackMap'
  /\ u \in DOMAIN live'[0] => u \in DOMAIN live[0] /\ live'[0][u] = live[0][u]

LEMMA Stays ==
  ASSUME NEW u \in Uids, Journey(u), Still(u)
  PROVE  Journey(u)'
<1>1. tokenizers' = tokenizers /\ style' = style
  BY DEF Still, cfgVars
<1>2. Told(u)' = Told(u)
  BY DEF Still, Told
<1>3. SentOnce(u)'
  BY Zenon DEF Journey, SentOnce, Still
<1>4. Unsent(u)'
  BY Zenon DEF Journey, Unsent, Still
<1>5. Whole(u)'
  BY <1>1, <1>2 DEF Journey, Whole, Still
<1>6. Complete(u)'
  BY Zenon DEF Journey, Complete, Still
<1>7. AbortLast(u)'
  BY <1>1, Zenon DEF Journey, AbortLast, Still
<1> QED BY <1>3, <1>4, <1>5, <1>6, <1>7 DEF Journey

-----------------------------------------------------------------------------
(* The processes: messages go from one queue to the next.                  *)

QueueOf(q, S) ==
  /\ q \o <<>> = q
  /\ q # <<>> => Head(q) \in S /\ Tail(q) \in Seq(S)
  /\ \A x \in S : Append(q, x) \in Seq(S) /\ q \o IfAny(x) \in Seq(S)
BothEmpty(a, b) == a \o b = <<>> => a = <<>> /\ b = <<>>
NoneFirst(a) == <<>> \o a = a /\ a \o <<>> = a

LEMMA QueueLaws ==
  /\ \A S : \A q \in Seq(S) : QueueOf(q, S)
  /\ \A S : \A a, b \in Seq(S) : BothEmpty(a, b)
  /\ \A S : \A a \in Seq(S) : NoneFirst(a)
<1>1. ASSUME NEW S, NEW q \in Seq(S) PROVE QueueOf(q, S)
  <2>1. q \o <<>> = q
    OBVIOUS
  <2>2. q # <<>> => Head(q) \in S /\ Tail(q) \in Seq(S)
    OBVIOUS
  <2>3. ASSUME NEW x \in S PROVE Append(q, x) \in Seq(S) /\ q \o IfAny(x) \in Seq(S)
    <3>1. Append(q, x) \in Seq(S)
      OBVIOUS
    <3>2. q \o <<x>> \in Seq(S)
      OBVIOUS
    <3> QED BY <2>1, <3>1, <3>2, Zenon DEF IfAny
  <2> QED BY <2>1, <2>2, <2>3, Zenon DEF QueueOf
<1>2. ASSUME NEW S, NEW a \in Seq(S), NEW b \in Seq(S) PROVE BothEmpty(a, b)
  BY DEF BothEmpty
<1>3. ASSUME NEW S, NEW a \in Seq(S) PROVE NoneFirst(a)
  BY DEF NoneFirst
<1> QED BY <1>1, <1>2, <1>3, Zenon

(* The parts of Journey a step does not touch.                             *)
LEMMA Untouched ==
  ASSUME NEW u \in Uids
  PROVE  /\ UNCHANGED <<toBackend, toTok>> => \A p \in Procs : Path(p, u)' = Path(p, u)
         /\ UNCHANGED <<ackMap, acks, toFront, toDetok, data, ongoing>> => Coming(u)' = Coming(u)
         /\ UNCHANGED <<toFront, toDetok>> => Queued(u)' = Queued(u)
         /\ UNCHANGED <<data, ongoing>> => Launched(u)' = Launched(u)
<1>1. UNCHANGED <<toBackend, toTok>> => \A p \in Procs : Path(p, u)' = Path(p, u)
  BY DEF Path, Own, Procs
<1>2. UNCHANGED <<toFront, toDetok>> => Queued(u)' = Queued(u)
  BY DEF Queued, Own
<1>3. UNCHANGED <<data, ongoing>> => Launched(u)' = Launched(u)
  BY DEF Launched, InBatch, Reply
<1>4. UNCHANGED ackMap => Acked(u)' = Acked(u)
  BY DEF Acked
<1> QED BY <1>1, <1>2, <1>3, <1>4 DEF Coming

LEMMA TokenizeKeeps ==
  ASSUME StreamInv, NEW p \in Procs, Tokenize(p)
  PROVE  StreamInv'
<1> DEFINE raw == Head(toTok[p])
<1>1. /\ UNCHANGED <<cfgVars, frontVars, rankVars, toDetok>> /\ toTok[p] # <<>>
      /\ toTok' = [toTok EXCEPT ![p] = Tail(@)]
  BY DEF Tokenize, Forward
<1>2. StreamTypes /\ QueueTypes /\ \A u \in Uids : Journey(u)
  BY DEF StreamInv, StreamTypes
<1>3. /\ toTok[p] \in Seq(Raws) /\ toBackend[p] \in Seq(Raws) /\ toFront[p] \in Seq(Seq(Replies))
      /\ p \in Tokenizers
  BY <1>1, <1>2, Zenon DEF QueueTypes
<1>4. raw \in Raws /\ Tail(toTok[p]) \in Seq(Raws)
  BY <1>1, <1>3, QueueLaws, Zenon DEF QueueOf
<1>5. toFront' = toFront
  <2>1. toFront' = [toFront EXCEPT ![p] = toFront[p] \o IfAny(OfTypes(raw)["detok"])]
    BY DEF Tokenize, Forward
  <2>2. IfAny(OfTypes(raw)["detok"]) = <<>>
    BY <1>4, Forwards, Zenon DEF IfAny
  <2>3. toFront[p] \o <<>> = toFront[p]
    BY <1>3, QueueLaws, Zenon DEF QueueOf
  <2>4. toFront' = [toFront EXCEPT ![p] = toFront[p]]
    BY <2>1, <2>2, <2>3, Zenon
  <2> QED BY <1>2, <2>4 DEF QueueTypes
<1>6. toBackend' = [toBackend EXCEPT ![p] = toBackend[p] \o IfAny(raw)]
  <2> DEFINE x == OfTypes(raw)["tokenize"]
             y == OfTypes(raw)["abort"]
             q == toBackend[p]
  <2>1. toBackend' = [toBackend EXCEPT ![p] = (q \o IfAny(x)) \o IfAny(y)]
    BY DEF Tokenize, Forward
  <2>2. (x = raw /\ y = <<>>) \/ (x = <<>> /\ y = raw)
    BY <1>4, Forwards, Zenon
  <2>3. /\ q \o <<>> = q /\ q \o IfAny(raw) \in Seq(Raws)
        /\ (q \o IfAny(raw)) \o <<>> = q \o IfAny(raw)
    BY <1>3, <1>4, QueueLaws, Zenon DEF QueueOf
  <2>4. IfAny(<<>>) = <<>>
    BY DEF IfAny
  <2> HIDE DEF x, y, q
  <2>5. (q \o IfAny(x)) \o IfAny(y) = q \o IfAny(raw)
    BY <2>2, <2>3, <2>4, Zenon
  <2> QED BY <2>1, <2>5, Zenon DEF q
<1>7. toBackend[p] \o IfAny(raw) \in Seq(Raws)
  BY <1>3, <1>4, QueueLaws, Zenon DEF QueueOf
<1> HIDE DEF raw
<1>8. /\ toTok' \in [Procs -> Seq(Raws)] /\ toBackend' \in [Procs -> Seq(Raws)]
      /\ toTok'[p] = Tail(toTok[p]) /\ toBackend'[p] = toBackend[p] \o IfAny(raw)
      /\ \A q \in Procs : q # p => toTok'[q] = toTok[q] /\ toBackend'[q] = toBackend[q]
  BY <1>1, <1>2, <1>4, <1>6, <1>7 DEF QueueTypes
<1>9. Tokenizers' = Tokenizers /\ Procs' = Procs
  BY <1>1 DEF cfgVars, Tokenizers, Procs
<1>10. StreamTypes'
  <2>1. QueueTypes'
    BY <1>1, <1>2, <1>3, <1>5, <1>8, <1>9, Zenon DEF QueueTypes
  <2>2. FrontTypes'
    BY <1>1, <1>2 DEF StreamTypes, FrontTypes, frontVars, cfgVars
  <2>3. RankTypes'
    BY <1>1, <1>2 DEF StreamTypes, RankTypes, rankVars
  <2> QED BY <2>1, <2>2, <2>3 DEF StreamTypes
<1>11. ASSUME NEW u \in Uids PROVE Still(u)
  <2>1. UNCHANGED <<cfgVars, coro, acks, got, held, heard, ackMap, live>>
    BY <1>1 DEF frontVars, rankVars
  <2>2. Coming(u)' = Coming(u)
    BY <1>1, <1>5, Untouched DEF frontVars, rankVars
  <2>3. Path(p, u)' = Path(p, u)
    <3> DEFINE m == OfUids(raw)[u]
    <3>1. toTok[p] \in Seq(Seq(Plain)) /\ toBackend[p] \in Seq(Seq(Plain)) /\ raw \in Seq(Plain)
          /\ Tail(toTok[p]) \in Seq(Seq(Plain))
      <4>1. \A A, B : A \subseteq B => Seq(A) \subseteq Seq(B)
        OBVIOUS
      <4>2. Raws \subseteq Seq(Plain)
        BY Kinds
      <4> QED BY <1>3, <1>4, <4>1, <4>2, Zenon
    <3>2. /\ Own(toBackend'[p], u) = Own(toBackend[p], u) \o m
          /\ Own(toTok[p], u) = m \o Own(toTok'[p], u)
      <4>1. Adds(toBackend[p], raw, u) /\ Takes(toTok[p], u)
        BY <3>1, Kinds, OwnQueue, Zenon
      <4>2. toTok[p] # <<>> /\ raw = Head(toTok[p])
        BY <1>1 DEF raw
      <4> QED BY <1>8, <4>1, <4>2, Zenon DEF Adds, Takes
    <3>3. /\ Own(toBackend[p], u) \in Seq(Plain) /\ m \in Seq(Plain)
          /\ Own(toTok'[p], u) \in Seq(Plain)
      BY <1>8, <3>1, Kinds, OwnQueue, OwnType, Zenon DEF OwnIs
    <3>4. Regroups(Own(toBackend[p], u), m, Own(toTok'[p], u))
      BY <3>3, JoinLaws, Zenon
    <3>5. Path(p, u)' = Own(toBackend'[p], u) \o Own(toTok'[p], u)
      BY DEF Path, Own
    <3> QED BY <3>2, <3>4, <3>5, Zenon DEF Path, Regroups
  <2>4. \A q \in Procs : q # p => Path(q, u)' = Path(q, u)
    BY <1>8, <1>9 DEF Path, Own
  <2> QED BY <2>1, <2>2, <2>3, <2>4 DEF Still
<1> QED BY <1>2, <1>10, <1>11, Stays DEF StreamInv

LEMMA DetokenizeKeeps ==
  ASSUME StreamInv, Detokenize
  PROVE  StreamInv'
<1> DEFINE raw == Head(toDetok)
<1>1. /\ UNCHANGED <<cfgVars, frontVars, rankVars, toTok>> /\ toDetok # <<>>
      /\ toDetok' = Tail(toDetok)
  BY DEF Detokenize, Forward
<1>2. StreamTypes /\ QueueTypes /\ \A u \in Uids : Journey(u)
  BY DEF StreamInv, StreamTypes
<1>3. 0 \in Procs
  BY ServingAssumption DEF Procs
<1>4. /\ toDetok \in Seq(Seq(Replies)) /\ toBackend[0] \in Seq(Raws)
      /\ toFront[0] \in Seq(Seq(Replies))
  BY <1>2, <1>3, Zenon DEF QueueTypes
<1>5. raw \in Seq(Replies) /\ Tail(toDetok) \in Seq(Seq(Replies))
  BY <1>1, <1>4, QueueLaws, Zenon DEF QueueOf
<1>6. toFront' = [toFront EXCEPT ![0] = toFront[0] \o IfAny(raw)]
  <2>1. toFront' = [toFront EXCEPT ![0] = toFront[0] \o IfAny(OfTypes(raw)["detok"])]
    BY DEF Detokenize, Forward
  <2> QED BY <1>5, <2>1, Forwards, Zenon
<1>7. toBackend' = toBackend
  <2> DEFINE q == toBackend[0]
  <2>1. toBackend' = [toBackend EXCEPT ![0] =
                        (q \o IfAny(OfTypes(raw)["tokenize"])) \o IfAny(OfTypes(raw)["abort"])]
    BY DEF Detokenize, Forward
  <2>2. IfAny(OfTypes(raw)["tokenize"]) = <<>> /\ IfAny(OfTypes(raw)["abort"]) = <<>>
    BY <1>5, Forwards, Zenon DEF IfAny
  <2>3. q \o <<>> = q
    BY <1>4, QueueLaws, Zenon DEF QueueOf
  <2>4. toBackend' = [toBackend EXCEPT ![0] = toBackend[0]]
    BY <2>1, <2>2, <2>3, Zenon
  <2> QED BY <1>2, <2>4 DEF QueueTypes
<1>8. toFront[0] \o IfAny(raw) \in Seq(Seq(Replies))
  BY <1>4, <1>5, QueueLaws, Zenon DEF QueueOf
<1> HIDE DEF raw
<1>9. /\ toFront' \in [Procs -> Seq(Seq(Replies))] /\ toFront'[0] = toFront[0] \o IfAny(raw)
      /\ \A q \in Procs \ {0} : toFront'[q] = toFront[q]
  BY <1>2, <1>3, <1>6, <1>8 DEF QueueTypes
<1>10. Tokenizers' = Tokenizers /\ Procs' = Procs
  BY <1>1 DEF cfgVars, Tokenizers, Procs
<1>11. StreamTypes'
  <2>1. QueueTypes'
    BY <1>1, <1>2, <1>5, <1>7, <1>9, <1>10, Zenon DEF QueueTypes
  <2>2. FrontTypes'
    BY <1>1, <1>2 DEF StreamTypes, FrontTypes, frontVars, cfgVars
  <2>3. RankTypes'
    BY <1>1, <1>2 DEF StreamTypes, RankTypes, rankVars
  <2> QED BY <2>1, <2>2, <2>3 DEF StreamTypes
<1>12. ASSUME NEW u \in Uids PROVE Still(u)
  <2>1. UNCHANGED <<cfgVars, coro, acks, got, held, heard, ackMap, live, data, ongoing>>
    BY <1>1 DEF frontVars, rankVars
  <2>2. \A p \in Procs : Path(p, u)' = Path(p, u)
    BY <1>1, <1>7, Untouched
  <2> DEFINE m == OfUids(raw)[u]
  <2>3. Adds(toFront[0], raw, u) /\ Takes(toDetok, u)
    BY <1>4, <1>5, Kinds, OwnQueue, Zenon DEF raw
  <2>4. Own(toFront'[0], u) = Own(toFront[0], u) \o m /\ Own(toDetok, u) = m \o Own(toDetok', u)
    BY <1>1, <1>9, <2>3, Zenon DEF Adds, Takes, raw
  <2>5. /\ Own(toFront[0], u) \in Seq(Replies) /\ m \in Seq(Replies)
        /\ Own(toDetok', u) \in Seq(Replies)
    BY <1>1, <1>4, <1>5, Kinds, OwnQueue, OwnType, Zenon DEF OwnIs, raw
  <2>6. Regroups(Own(toFront[0], u), m, Own(toDetok', u))
    BY <2>5, JoinLaws, Zenon
  <2>7. Queued(u)' = Own(toFront'[0], u) \o Own(toDetok', u)
    BY DEF Queued, Own
  <2>8. Queued(u)' = Queued(u)
    BY <2>4, <2>6, <2>7, Zenon DEF Queued, Regroups
  <2>9. Launched(u)' = Launched(u) /\ Acked(u)' = Acked(u)
    BY <2>1, Untouched DEF Acked
  <2>10. Coming(u)' = Coming(u)
    BY <2>1, <2>8, <2>9 DEF Coming
  <2> QED BY <2>1, <2>2, <2>10 DEF Still
<1> QED BY <1>2, <1>11, <1>12, Stays DEF StreamInv

(* Four lists joined, of which something moves from the third to the       *)
(* second.                                                                 *)
Moved(a, b, m, c, d, e) ==
  (a \o (b \o m)) \o ((c \o d) \o e) = (a \o b) \o (((m \o c) \o d) \o e)

LEMMA MovesUp ==
  ASSUME NEW S, NEW a \in Seq(S), NEW b \in Seq(S), NEW m \in Seq(S), NEW c \in Seq(S),
         NEW d \in Seq(S), NEW e \in Seq(S)
  PROVE  Moved(a, b, m, c, d, e)
<1>1. Regroups(a, b, m) /\ b \o m \in Seq(S) /\ a \o b \in Seq(S) /\ c \o d \in Seq(S)
  BY JoinLaws, Zenon DEF IsJoin
<1>2. Regroups(m, c, d) /\ (c \o d) \o e \in Seq(S)
  BY <1>1, JoinLaws, Zenon DEF IsJoin
<1>3. Regroups(m, c \o d, e) /\ Regroups(a \o b, m, (c \o d) \o e)
  BY <1>1, <1>2, JoinLaws, Zenon
<1> QED BY <1>1, <1>2, <1>3, Zenon DEF Regroups, Moved

LEMMA ListenKeeps ==
  ASSUME StreamInv, Listen
  PROVE  StreamInv'
<1> DEFINE raw == Head(toFront[0])
<1>1. StreamTypes /\ QueueTypes /\ FrontTypes /\ \A u \in Uids : Journey(u)
  BY DEF StreamInv, StreamTypes
<1>2. 0 \in Procs
  BY ServingAssumption DEF Procs
<1>3. /\ toFront[0] # <<>> /\ toFront' = [toFront EXCEPT ![0] = Tail(@)]
      /\ ackMap' = [u \in DOMAIN ackMap |-> ackMap[u] \o OfUids(raw)[u]]
      /\ eventMap' = [u \in DOMAIN eventMap |-> eventMap[u] \/ OfUids(raw)[u] /= <<>>]
      /\ UNCHANGED <<cfgVars, uidCounter, coro, acks, held, got, gone, turn,
                     toTok, toDetok, toBackend, rankVars>>
  <2>1. PICK p \in Procs :
          /\ toFront[p] # <<>> /\ toFront' = [toFront EXCEPT ![p] = Tail(@)]
          /\ ackMap' = [u \in DOMAIN ackMap |-> ackMap[u] \o OfUids(Head(toFront[p]))[u]]
          /\ eventMap' = [u \in DOMAIN eventMap |->
                            eventMap[u] \/ OfUids(Head(toFront[p]))[u] /= <<>>]
          /\ UNCHANGED <<cfgVars, uidCounter, coro, acks, held, got, gone, turn,
                         toTok, toDetok, toBackend, rankVars>>
    BY DEF Listen
  <2>2. p = 0
    BY <1>1, <2>1, Zenon DEF QueueTypes
  <2> QED BY <2>1, <2>2, Zenon
<1>4. toFront[0] \in Seq(Seq(Replies))
  BY <1>1, <1>2, Zenon DEF QueueTypes
<1>5. raw \in Seq(Replies) /\ Tail(toFront[0]) \in Seq(Seq(Replies))
  BY <1>3, <1>4, QueueLaws, Zenon DEF QueueOf
<1>6. /\ toFront' \in [Procs -> Seq(Seq(Replies))] /\ toFront'[0] = Tail(toFront[0])
      /\ \A q \in Procs \ {0} : toFront'[q] = toFront[q]
  BY <1>1, <1>2, <1>3, <1>5 DEF QueueTypes
<1> HIDE DEF raw
<1>7. \A u \in Uids : OfUids(raw)[u] \in Mine(u)
  BY <1>5, Kinds, OwnType, Zenon DEF Mine
<1>8. Tokenizers' = Tokenizers /\ Procs' = Procs
  BY <1>3 DEF cfgVars, Tokenizers, Procs
<1>9. StreamTypes'
  <2>1. QueueTypes'
    BY <1>1, <1>3, <1>6, <1>8, Zenon DEF QueueTypes
  <2>2. FrontTypes'
    <3>1. DOMAIN ackMap' = DOMAIN ackMap /\ DOMAIN eventMap' = DOMAIN eventMap
      BY <1>3
    <3>2. ASSUME NEW u \in DOMAIN ackMap PROVE ackMap'[u] \in Mine(u)
      <4>1. ackMap'[u] = ackMap[u] \o OfUids(raw)[u]
        BY <1>3, Zenon
      <4>2. ackMap[u] \in Mine(u) /\ u \in Uids
        BY <1>1, Zenon DEF FrontTypes
      <4>3. IsJoin(ackMap[u], OfUids(raw)[u], MsgsOf(Replies, u))
        BY <1>7, <4>2, JoinLaws, Zenon DEF Mine
      <4> QED BY <4>1, <4>3, Zenon DEF IsJoin, Mine
    <3> QED BY <1>1, <1>3, <3>1, <3>2 DEF FrontTypes, cfgVars
  <2>3. RankTypes'
    BY <1>1, <1>3 DEF StreamTypes, RankTypes, rankVars
  <2> QED BY <2>1, <2>2, <2>3 DEF StreamTypes
<1>10. ASSUME NEW u \in Uids PROVE Still(u)
  <2>1. /\ UNCHANGED <<cfgVars, coro, acks, got, held, heard, live, data, ongoing>>
        /\ DOMAIN ackMap' = DOMAIN ackMap
    BY <1>3 DEF rankVars
  <2>2. \A p \in Procs : Path(p, u)' = Path(p, u)
    BY <1>3, Untouched
  <2>3. ASSUME coro[u] \in {"none", "waiting", "yielding"} PROVE Coming(u)' = Coming(u)
    <3> DEFINE m == OfUids(raw)[u]
               c == Own(toFront'[0], u)
               d == Own(toDetok, u)
               e == Launched(u)
               S == MsgsOf(Replies, u)
    <3>1. Own(toFront[0], u) = m \o c
      <4>1. Takes(toFront[0], u)
        BY <1>4, Kinds, OwnQueue, Zenon
      <4> QED BY <1>3, <1>6, <4>1, Zenon DEF Takes, raw
    <3>2. /\ acks[u] \in Seq(S) /\ Acked(u) \in Seq(S) /\ m \in Seq(S) /\ d \in Seq(S)
          /\ e \in Seq(S)
      BY <1>1, <1>7, Pieces, Zenon DEF Mine
    <3>3. c \in Seq(S)
      BY <1>5, <1>6, Kinds, OwnQueue, Zenon DEF OwnIs
    <3>4. Coming(u) = (acks[u] \o Acked(u)) \o (((m \o c) \o d) \o e)
      BY <3>1, Zenon DEF Coming, Queued
    <3>5. Coming(u)' = (acks[u] \o Acked(u)') \o ((c \o d) \o e)
      <4>1. Launched(u)' = e
        BY <2>1, Untouched
      <4>2. Own(toDetok, u)' = d
        BY <1>3 DEF Own
      <4>3. Queued(u)' = c \o d
        BY <4>2 DEF Queued, Own
      <4> QED BY <2>1, <4>1, <4>3, Zenon DEF Coming
    <3> HIDE DEF m, c, d, e, S
    <3>6. CASE u \in DOMAIN ackMap
      <4>1. Acked(u)' = Acked(u) \o m
        BY <1>3, <2>1, <3>6, Zenon DEF Acked, m
      <4>2. Moved(acks[u], Acked(u), m, c, d, e)
        BY <3>2, <3>3, MovesUp, Zenon
      <4> QED BY <3>4, <3>5, <4>1, <4>2, Zenon DEF Moved
    <3>7. CASE u \notin DOMAIN ackMap
      <4>1. coro[u] = "none"
        BY <1>1, <2>3, <3>7 DEF Journey, Whole
      <4>2. Coming(u) = <<>>
        BY <1>1, <4>1, Zenon DEF Journey, Unsent
      <4>3. Acked(u) = <<>> /\ Acked(u)' = <<>>
        BY <2>1, <3>7, Zenon DEF Acked
      <4>4. m \o c \in Seq(S) /\ (m \o c) \o d \in Seq(S) /\ ((m \o c) \o d) \o e \in Seq(S)
            /\ acks[u] \o Acked(u) \in Seq(S)
        BY <3>2, <3>3, JoinLaws, Zenon DEF IsJoin
      <4>5. ((m \o c) \o d) \o e = <<>> /\ acks[u] \o Acked(u) = <<>>
        BY <3>4, <4>2, <4>4, QueueLaws, Zenon DEF BothEmpty
      <4>6. (m \o c) \o d = <<>> /\ e = <<>>
        BY <3>2, <4>4, <4>5, QueueLaws, Zenon DEF BothEmpty
      <4>7. m \o c = <<>>
        BY <3>2, <4>4, <4>6, QueueLaws, Zenon DEF BothEmpty
      <4>8. c = <<>>
        BY <3>2, <3>3, <4>7, QueueLaws, Zenon DEF BothEmpty
      <4> QED BY <3>4, <3>5, <4>3, <4>7, <4>8, Zenon
    <3> QED BY <3>6, <3>7
  <2> QED BY <2>1, <2>2, <2>3 DEF Still
<1> QED BY <1>1, <1>9, <1>10, Stays DEF StreamInv

-----------------------------------------------------------------------------
(* The coroutine of u takes its replies.                                   *)

LEMMA OthersStill ==
  ASSUME StreamTypes, NEW v \in Uids, UNCHANGED <<cfgVars, rankVars, toFront, toDetok>>,
         coro'[v] = coro[v], acks'[v] = acks[v], got'[v] = got[v], held'[v] = held[v],
         v \in DOMAIN ackMap' <=> v \in DOMAIN ackMap,
         v \in DOMAIN ackMap => ackMap'[v] = ackMap[v],
         \A p \in Procs : Path(p, v)' = Path(p, v)
  PROVE  Still(v)
<1>1. Acked(v)' = Acked(v)
  BY Zenon DEF Acked
<1>2. Queued(v)' = Queued(v) /\ Launched(v)' = Launched(v)
  BY Untouched DEF rankVars
<1>3. Coming(v)' = Coming(v)
  BY <1>1, <1>2, Zenon DEF Coming
<1> QED BY <1>3 DEF Still, rankVars

LEMMA PathKept ==
  ASSUME NEW u \in Uids, Journey(u), UNCHANGED <<cfgVars, rankVars, toBackend, toTok>>,
         coro[u] # "aborted", coro'[u] # "none"
  PROVE  SentOnce(u)' /\ Unsent(u)' /\ AbortLast(u)'
<1>1. \A p \in Procs : Path(p, u)' = Path(p, u)
  BY Untouched
<1>2. UNCHANGED <<tokenizers, live, heard>> /\ Procs' = Procs
  BY DEF cfgVars, rankVars, Procs
<1>3. SentOnce(u)'
  BY <1>1, <1>2, Zenon DEF Journey, SentOnce
<1>4. Unsent(u)'
  BY DEF Unsent
<1>5. AbortLast(u)'
  BY <1>1, <1>2, Zenon DEF Journey, AbortLast
<1> QED BY <1>3, <1>4, <1>5

(* Types of what a coroutine does not touch.                               *)
LEMMA OtherTypes ==
  ASSUME StreamTypes, UNCHANGED <<cfgVars, rankVars, pipeVars>>
  PROVE  QueueTypes' /\ RankTypes'
<1>1. Tokenizers' = Tokenizers /\ Procs' = Procs
  BY DEF cfgVars, Tokenizers, Procs
<1>2. QueueTypes'
  BY <1>1, Zenon DEF StreamTypes, QueueTypes, pipeVars
<1>3. RankTypes'
  BY DEF StreamTypes, RankTypes, rankVars
<1> QED BY <1>2, <1>3

LEMMA WakeKeeps ==
  ASSUME StreamInv, NEW u \in Uids, Wake(u)
  PROVE  StreamInv'
<1>1. StreamTypes /\ FrontTypes /\ \A v \in Uids : Journey(v)
  BY DEF StreamInv, StreamTypes
<1>2. /\ coro[u] = "waiting" /\ u \in DOMAIN eventMap /\ u \in DOMAIN ackMap
      /\ UNCHANGED <<cfgVars, uidCounter, held, got, gone, turn, pipeVars, rankVars>>
      /\ eventMap' = [eventMap EXCEPT ![u] = FALSE]
  BY <1>1 DEF Wake, FrontTypes
<1>3. /\ DOMAIN acks' = Uids /\ acks'[u] = ackMap[u] /\ \A v \in Uids \ {u} : acks'[v] = acks[v]
      /\ DOMAIN ackMap' = DOMAIN ackMap /\ ackMap'[u] = <<>>
      /\ \A v \in DOMAIN ackMap \ {u} : ackMap'[v] = ackMap[v]
      /\ DOMAIN coro' = Uids /\ coro'[u] = (IF ackMap[u] = <<>> THEN "waiting" ELSE "yielding")
      /\ \A v \in Uids \ {u} : coro'[v] = coro[v]
  <2>1. DOMAIN acks = Uids /\ DOMAIN coro = Uids /\ u \in DOMAIN ackMap
    BY <1>1, <1>2 DEF FrontTypes
  <2> QED BY <2>1 DEF Wake
<1>4. StreamTypes'
  <2>1. <<>> \in Mine(u) /\ ackMap[u] \in Mine(u)
    <3>1. <<>> \in Mine(u)
      BY DEF Mine
    <3> QED BY <1>1, <1>2, <3>1, Zenon DEF FrontTypes
  <2>2. FrontTypes'
    BY <1>1, <1>2, <1>3, <2>1 DEF FrontTypes, cfgVars
  <2> QED BY <1>1, <1>2, <2>2, OtherTypes DEF StreamTypes
<1>5. ASSUME NEW v \in Uids, v # u PROVE Journey(v)'
  <2>1. UNCHANGED <<toFront, toDetok, toTok, toBackend, got, held>>
    BY <1>2 DEF pipeVars
  <2>2. \A p \in Procs : Path(p, v)' = Path(p, v)
    BY <2>1, Untouched
  <2>3. Still(v)
    BY <1>1, <1>2, <1>3, <1>5, <2>1, <2>2, OthersStill
  <2> QED BY <1>1, <2>3, Stays
<1>6. Journey(u)'
  <2>1. SentOnce(u)' /\ Unsent(u)' /\ AbortLast(u)'
    BY <1>1, <1>2, <1>3, PathKept DEF pipeVars
  <2>2. Coming(u)' = Coming(u)
    <3>1. acks[u] = <<>> /\ Acked(u) = ackMap[u] /\ Acked(u)' = <<>>
      BY <1>1, <1>2, <1>3 DEF Journey, Whole, Acked
    <3>2. ackMap[u] \in Mine(u)
      BY <1>1, <1>2 DEF FrontTypes
    <3>3. NoneFirst(ackMap[u])
      BY <3>2, QueueLaws, Zenon DEF Mine
    <3>4. Queued(u)' = Queued(u) /\ Launched(u)' = Launched(u)
      BY <1>2, Untouched DEF pipeVars, rankVars
    <3> QED BY <1>3, <3>1, <3>3, <3>4, Zenon DEF Coming, NoneFirst
  <2>3. Told(u)' = Told(u) /\ (\A p \in Procs : Path(p, u)' = Path(p, u)) /\ Procs' = Procs
    BY <1>2, Untouched DEF Told, pipeVars, Procs
  <2>4. Whole(u)'
    BY <1>1, <1>2, <1>3, <2>2, <2>3 DEF Journey, Whole, rankVars, cfgVars
  <2>5. Complete(u)'
    BY <1>3 DEF Complete
  <2> QED BY <2>1, <2>4, <2>5 DEF Journey
<1> QED BY <1>4, <1>5, <1>6 DEF StreamInv

(* The first of a list is taken.                                           *)
Follows(q, x, t) ==
  /\ Len(q) = Len(t) + 1 /\ Len(t) \in Nat /\ q[1] = x
  /\ \A i \in 1..Len(t) : t[i] = q[1 + i]

LEMMA FirstTaken ==
  ASSUME NEW S, NEW x \in S, NEW t \in Seq(S)
  PROVE  Follows(<<x>> \o t, x, t)
BY DEF Follows

(* The numbers told so far, and the next.                                  *)
Counts(s) == \A i \in 1..Len(s) : s[i] = i

CountsTo(t, n) == t \in Seq(Nat) /\ Len(t) = n /\ Counts(t) /\ t = [i \in 1..n |-> i]

LEMMA CountsOn ==
  ASSUME NEW s \in Seq(Nat), Counts(s), NEW n \in Nat, n = Len(s) + 1
  PROVE  CountsTo(s \o <<n>>, n)
<1> DEFINE t == s \o <<n>>
<1>1. t \in Seq(Nat) /\ Len(t) = n /\ t[n] = n /\ \A i \in 1..Len(s) : t[i] = s[i]
  OBVIOUS
<1>2. \A i \in 1..n : i \in 1..Len(s) \/ i = n
  OBVIOUS
<1>3. \A i \in 1..n : t[i] = i
  <2> HIDE DEF t
  <2> QED BY <1>1, <1>2 DEF Counts
<1>4. t = [i \in 1..n |-> t[i]]
  <2>1. \A q \in Seq(Nat) : q = [i \in 1..Len(q) |-> q[i]]
    OBVIOUS
  <2> HIDE DEF t
  <2> QED BY <1>1, <2>1
<1> HIDE DEF t
<1>5. t = [i \in 1..n |-> i]
  BY <1>3, <1>4
<1>6. Counts(t)
  BY <1>1, <1>3 DEF Counts
<1> QED BY <1>1, <1>5, <1>6 DEF t, CountsTo

(* A list of one is what is left when its rest is empty.                   *)
LEMMA LastTaken ==
  ASSUME NEW S, NEW q \in Seq(S), q # <<>>
  PROVE  Len(q) = 1 <=> Tail(q) = <<>>
<1>1. Tail(q) \in Seq(S) /\ Len(Tail(q)) = Len(q) - 1 /\ Len(q) \in Nat
  OBVIOUS
<1>2. \A s \in Seq(S) : Len(s) = 0 <=> s = <<>>
  OBVIOUS
<1>3. Len(Tail(q)) = 0 <=> Tail(q) = <<>>
  BY <1>1, <1>2, Zenon
<1> QED BY <1>1, <1>3

LEMMA MoreThanNone ==
  \A n \in Nat : 1 \in 1..(n + 1) /\ n + 1 # 0
OBVIOUS

(* The next of the coming replies is the token after those that were told. *)
LEMMA NextReply ==
  ASSUME StreamInv, NEW u \in Uids, coro[u] = "yielding",
         NEW rest, rest = (Tail(acks[u]) \o Acked(u)) \o (Queued(u) \o Launched(u))
  PROVE  /\ acks[u] # <<>> /\ Tail(acks[u]) \in Mine(u) /\ rest \in Mine(u)
         /\ Head(acks[u]) = Detok(u, Len(Told(u)) + 1)
         /\ Len(Coming(u)) = Len(rest) + 1 /\ Len(rest) \in Nat /\ Coming(u) # <<>>
         /\ \A i \in 1..Len(rest) : rest[i] = Coming(u)[1 + i]
<1> DEFINE x == Head(acks[u])
           t == Tail(acks[u])
           S == MsgsOf(Replies, u)
<1>1. StreamTypes /\ Whole(u)
  BY DEF StreamInv, Journey
<1>2. acks[u] # <<>>
  BY <1>1 DEF Whole
<1>3. /\ acks[u] \in Seq(S) /\ Acked(u) \in Seq(S) /\ Queued(u) \o Launched(u) \in Seq(S)
      /\ Coming(u) \in Seq(S)
  BY <1>1, Pieces, Zenon DEF Mine
<1>4. x \in S /\ t \in Seq(S) /\ <<x>> \in Seq(S) /\ acks[u] = <<x>> \o t
  <2> HIDE DEF S
  <2> QED BY <1>2, <1>3, HeadFirst
<1> HIDE DEF x, t, S
<1>5. rest \in Seq(S) /\ t \o Acked(u) \in Seq(S)
  BY <1>3, <1>4, JoinLaws, Zenon DEF IsJoin, t
<1>6. Coming(u) = <<x>> \o rest
  <2>1. Regroups(<<x>>, t, Acked(u)) /\ Regroups(<<x>>, t \o Acked(u), Queued(u) \o Launched(u))
    BY <1>3, <1>4, <1>5, JoinLaws, Zenon
  <2> QED BY <1>4, <2>1, Zenon DEF Regroups, Coming, t
<1>7. Follows(Coming(u), x, rest)
  BY <1>4, <1>5, <1>6, FirstTaken, Zenon
<1>8. Coming(u)[1] = Detok(u, Len(Told(u)) + 1)
  <2>1. \A i \in 1..Len(Coming(u)) : Coming(u)[i] = Detok(u, Len(Told(u)) + i)
    BY <1>1, Zenon DEF Whole
  <2>2. Len(rest) \in Nat /\ Len(Coming(u)) = Len(rest) + 1 /\ Coming(u)[1] = x
    BY <1>7, Zenon DEF Follows
  <2>3. 1 \in 1..Len(Coming(u))
    BY <2>2, MoreThanNone, Zenon
  <2> QED BY <2>1, <2>3, Zenon
<1>9. Coming(u) # <<>>
  <2>1. Len(rest) \in Nat /\ Len(Coming(u)) = Len(rest) + 1
    BY <1>7, Zenon DEF Follows
  <2>2. Len(Coming(u)) # 0
    BY <2>1, MoreThanNone, Zenon
  <2>3. Len(<<>>) = 0
    OBVIOUS
  <2> QED BY <2>2, <2>3, Zenon
<1> QED BY <1>2, <1>4, <1>5, <1>7, <1>8, <1>9 DEF Follows, x, t, S, Mine

LEMMA DeliverKeeps ==
  ASSUME StreamInv, NEW u \in Uids, Deliver(u)
  PROVE  StreamInv'
<1> DEFINE ack == Head(acks[u])
           cut == style[u] /= "batch" /\ u \in gone /\ Chunks(u, ack) /= <<>>
           k == Len(Told(u))
           rest == (Tail(acks[u]) \o Acked(u)) \o (Queued(u) \o Launched(u))
           told == Told(u) \o <<k + 1>>
<1>1. StreamTypes /\ FrontTypes /\ \A v \in Uids : Journey(v)
  BY DEF StreamInv, StreamTypes
<1>2. /\ coro[u] = "yielding"
      /\ acks' = [acks EXCEPT ![u] = IF ack.finished \/ cut THEN <<>> ELSE Tail(@)]
      /\ held' = [held EXCEPT ![u] = IF cut THEN <<>> ELSE Hold(u, ack)]
      /\ got' = [got EXCEPT ![u] = IF cut THEN @ ELSE @ \o Chunks(u, ack)]
      /\ coro' = [coro EXCEPT ![u] = CASE cut -> "aborting"
                                      [] ~cut /\ ack.finished -> "ending"
                                      [] ~cut /\ ~ack.finished /\ Len(acks[u]) = 1 -> "waiting"
                                      [] OTHER -> "yielding"]
      /\ UNCHANGED <<cfgVars, uidCounter, ackMap, eventMap, gone, turn, pipeVars, rankVars>>
  BY DEF Deliver
<1>3. /\ acks[u] # <<>> /\ Tail(acks[u]) \in Mine(u) /\ rest \in Mine(u)
      /\ ack = Detok(u, k + 1)
      /\ Len(Coming(u)) = Len(rest) + 1 /\ Len(rest) \in Nat /\ Coming(u) # <<>>
      /\ \A i \in 1..Len(rest) : rest[i] = Coming(u)[1 + i]
  BY <1>2, NextReply
<1>4. /\ got[u] \in Seq(Nat) /\ held[u] \in Seq(Nat) /\ Told(u) \in Seq(Nat) /\ k \in Nat
      /\ acks[u] \in Mine(u)
  <2>1. got[u] \in Seq(Nat) /\ held[u] \in Seq(Nat) /\ Told(u) \in Seq(Nat) /\ acks[u] \in Mine(u)
    BY <1>1, Pieces
  <2> QED BY <2>1
<1>5. ack.token = k + 1 /\ (ack.finished <=> k + 1 = Need[u])
  <2>1. \A i : Detok(u, i).token = i /\ (Detok(u, i).finished <=> i = Need[u])
    BY DEF Detok
  <2> HIDE DEF ack, k
  <2> QED BY <1>3, <2>1, Zenon
<1> HIDE DEF rest, ack, cut
<1>6. /\ DOMAIN acks' = Uids /\ \A v \in Uids \ {u} : acks'[v] = acks[v]
      /\ DOMAIN coro' = Uids /\ \A v \in Uids \ {u} : coro'[v] = coro[v]
      /\ DOMAIN got' = Uids /\ \A v \in Uids \ {u} : got'[v] = got[v]
      /\ DOMAIN held' = Uids /\ \A v \in Uids \ {u} : held'[v] = held[v]
      /\ acks'[u] = (IF ack.finished \/ cut THEN <<>> ELSE Tail(acks[u]))
      /\ held'[u] = (IF cut THEN <<>> ELSE Hold(u, ack))
      /\ got'[u] = (IF cut THEN got[u] ELSE got[u] \o Chunks(u, ack))
      /\ cut => coro'[u] = "aborting"
      /\ ~cut /\ ack.finished => coro'[u] = "ending"
      /\ ~cut /\ ~ack.finished => coro'[u] = IF Len(acks[u]) = 1 THEN "waiting" ELSE "yielding"
  <2>1. DOMAIN acks = Uids /\ DOMAIN coro = Uids /\ DOMAIN got = Uids /\ DOMAIN held = Uids
    BY <1>1 DEF FrontTypes
  <2> QED BY <1>2, <2>1
<1>7. /\ Hold(u, ack) \in Seq(Nat) /\ Chunks(u, ack) \in Seq(Nat)
      /\ got[u] \o Chunks(u, ack) \in Seq(Nat)
      /\ ~cut /\ ack.finished => got'[u] = told
      /\ ~cut /\ ~ack.finished => Told(u)' = told /\ (style[u] # "text" => held'[u] = <<>>)
  <2> DEFINE one == <<k + 1>>
  <2>1. one \in Seq(Nat) /\ <<>> \in Seq(Nat) /\ k + 1 \in Nat
    BY <1>4
  <2> HIDE DEF k, one
  <2>2. <<ack.token>> = one
    BY <1>5 DEF one
  <2>3. style[u] # "text" => held[u] = <<>>
    BY <1>1, <1>2 DEF Journey, Whole
  <2>4. /\ style[u] = "text" /\ ack.finished => Chunks(u, ack) = held[u] \o one
        /\ style[u] = "text" /\ ~ack.finished => Chunks(u, ack) = held[u]
        /\ style[u] # "text" => Chunks(u, ack) = one
        /\ Hold(u, ack) = IF style[u] = "text" /\ ~ack.finished THEN one ELSE <<>>
    <3>1. \A a : style[u] = "text" /\ a.finished => Chunks(u, a) = held[u] \o <<a.token>>
      BY Zenon DEF Chunks
    <3>2. \A a : style[u] = "text" /\ ~a.finished => Chunks(u, a) = held[u]
      BY Zenon DEF Chunks
    <3>3. \A a : style[u] # "text" => Chunks(u, a) = <<a.token>>
      BY Zenon DEF Chunks
    <3> QED BY <2>2, <3>1, <3>2, <3>3, Zenon DEF Hold
  <2>5. held[u] \o one \in Seq(Nat)
    BY <1>4, <2>1, JoinLaws, Zenon DEF IsJoin
  <2>6. Hold(u, ack) \in Seq(Nat) /\ Chunks(u, ack) \in Seq(Nat)
    BY <1>4, <2>1, <2>4, <2>5, Zenon
  <2>7. got[u] \o Chunks(u, ack) \in Seq(Nat)
    BY <1>4, <2>6, JoinLaws, Zenon DEF IsJoin
  <2>8. Regroups(got[u], held[u], one) /\ NoneFirst(got[u] \o one) /\ NoneFirst(got[u])
    <3>1. got[u] \o one \in Seq(Nat)
      BY <1>4, <2>1, JoinLaws, Zenon DEF IsJoin
    <3> QED BY <1>4, <2>1, <3>1, JoinLaws, QueueLaws, Zenon
  <2>9. told = Told(u) \o one
    BY DEF one
  <2> HIDE DEF told
  <2>10. ASSUME ~cut, ack.finished PROVE got'[u] = told
    <3>1. got'[u] = got[u] \o Chunks(u, ack)
      BY <1>6, <2>10
    <3>2. CASE style[u] = "text"
      BY <2>4, <2>8, <2>9, <2>10, <3>1, <3>2, Zenon DEF Told, Regroups
    <3>3. CASE style[u] # "text"
      BY <2>3, <2>4, <2>8, <2>9, <3>1, <3>3, Zenon DEF Told, NoneFirst
    <3> QED BY <3>2, <3>3
  <2>11. ASSUME ~cut, ~ack.finished
         PROVE  Told(u)' = told /\ (style[u] # "text" => held'[u] = <<>>)
    <3>1. got'[u] = got[u] \o Chunks(u, ack) /\ held'[u] = Hold(u, ack)
      BY <1>6, <2>11
    <3>2. CASE style[u] = "text"
      BY <2>4, <2>9, <2>11, <3>1, <3>2, Zenon DEF Told
    <3>3. CASE style[u] # "text"
      BY <2>3, <2>4, <2>8, <2>9, <3>1, <3>3, Zenon DEF Told, NoneFirst
    <3> QED BY <3>2, <3>3
  <2> QED BY <2>6, <2>7, <2>10, <2>11
<1>8. Counts(Told(u))
  BY <1>1, <1>2 DEF Journey, Whole, Counts
<1>9. told \in Seq(Nat) /\ Len(told) = k + 1 /\ Counts(told) /\ told = [i \in 1..(k + 1) |-> i]
  <2>1. k + 1 \in Nat
    BY <1>4
  <2>2. CountsTo(told, k + 1)
    BY <1>4, <1>8, <2>1, CountsOn, Zenon
  <2> QED BY <2>2, Zenon DEF CountsTo
<1>10. StreamTypes'
  <2>1. <<>> \in Mine(u) /\ <<>> \in Seq(Nat)
    BY DEF Mine
  <2>2. /\ acks'[u] \in Mine(u) /\ got'[u] \in Seq(Nat) /\ held'[u] \in Seq(Nat)
        /\ coro'[u] # "none" /\ ~(u >= uidCounter)
    BY <1>1, <1>2, <1>3, <1>4, <1>6, <1>7, <2>1 DEF FrontTypes
  <2>3. got' \in [Uids -> Seq(Nat)] /\ held' \in [Uids -> Seq(Nat)]
    <3>1. got' = [v \in Uids |-> got'[v]] /\ held' = [v \in Uids |-> held'[v]]
      BY <1>1, <1>2 DEF FrontTypes
    <3>2. \A v \in Uids : got'[v] \in Seq(Nat) /\ held'[v] \in Seq(Nat)
      BY <1>1, <1>6, <2>2 DEF FrontTypes
    <3> QED BY <3>1, <3>2
  <2>4. FrontTypes'
    BY <1>1, <1>2, <1>6, <2>2, <2>3 DEF FrontTypes, cfgVars
  <2> QED BY <1>1, <1>2, <2>4, OtherTypes DEF StreamTypes
<1>11. ASSUME NEW v \in Uids, v # u PROVE Journey(v)'
  <2>1. UNCHANGED <<toFront, toDetok, toTok, toBackend, ackMap>>
    BY <1>2 DEF pipeVars
  <2>2. \A p \in Procs : Path(p, v)' = Path(p, v)
    BY <2>1, Untouched
  <2>3. Still(v)
    BY <1>1, <1>2, <1>6, <1>11, <2>1, <2>2, OthersStill
  <2> QED BY <1>1, <2>3, Stays
<1>12. Journey(u)'
  <2>1. SentOnce(u)' /\ Unsent(u)' /\ AbortLast(u)'
    <3>1. coro'[u] # "none"
      BY <1>6
    <3> QED BY <1>1, <1>2, <3>1, PathKept DEF pipeVars
  <2>2. CASE cut
    BY <1>6, <2>1, <2>2 DEF Journey, Whole, Complete
  <2>3. CASE ~cut /\ ack.finished
    <3>1. got'[u] = [i \in 1..Need[u] |-> i] /\ coro'[u] = "ending"
      BY <1>5, <1>6, <1>7, <1>9, <2>3
    <3> QED BY <2>1, <3>1 DEF Journey, Whole, Complete
  <2>4. CASE ~cut /\ ~ack.finished
    <3>1. Told(u)' = told /\ acks'[u] = Tail(acks[u]) /\ (style[u] # "text" => held'[u] = <<>>)
      BY <1>6, <1>7, <2>4
    <3>2. Coming(u)' = rest
      <4>1. Acked(u)' = Acked(u) /\ Queued(u)' = Queued(u) /\ Launched(u)' = Launched(u)
        BY <1>2, Untouched DEF Acked, pipeVars, rankVars
      <4> QED BY <3>1, <4>1, Zenon DEF Coming, rest
    <3>3. coro'[u] \in {"waiting", "yielding"} /\ (coro'[u] = "yielding" <=> acks'[u] # <<>>)
      <4>1. acks[u] \in Mine(u) /\ acks[u] # <<>>
        BY <1>3, <1>4
      <4>2. Len(acks[u]) = 1 <=> Tail(acks[u]) = <<>>
        BY <4>1, LastTaken, Zenon DEF Mine
      <4> QED BY <1>6, <2>4, <3>1, <4>2
    <3>4. \A p \in Procs : Path(p, u) = <<>> /\ Path(p, u)' = <<>>
      <4>1. \A p \in Procs : Path(p, u) = <<>>
        BY <1>1, <1>2, <1>3, Zenon DEF Journey, Whole
      <4> QED BY <1>2, <4>1, Untouched DEF pipeVars
    <3>5. Procs' = Procs /\ style' = style /\ u \in DOMAIN ackMap' /\ live' = live
      BY <1>1, <1>2 DEF Journey, Whole, cfgVars, Procs, rankVars
    <3>6. u \in DOMAIN live[0] => live[0][u] = k + Len(Coming(u))
      BY <1>1, <1>2 DEF Journey, Whole
    <3>7. \A i \in 1..Len(rest) : rest[i] = Detok(u, Len(told) + i)
      <4>1. \A i \in 1..Len(Coming(u)) : Coming(u)[i] = Detok(u, k + i)
        BY <1>1, <1>2 DEF Journey, Whole
      <4> HIDE DEF k, told
      <4>2. ASSUME NEW i \in 1..Len(rest) PROVE rest[i] = Detok(u, Len(told) + i)
        <5>1. 1 + i \in 1..Len(Coming(u)) /\ Len(told) + i = k + (1 + i)
          BY <1>3, <1>4, <1>9
        <5> QED BY <1>3, <4>1, <5>1
      <4> QED BY <4>2
    <3>8. u \in DOMAIN live'[0] => live'[0][u] = Len(told) + Len(rest)
      <4> HIDE DEF k, told
      <4>1. k + Len(Coming(u)) = Len(told) + Len(rest)
        BY <1>3, <1>4, <1>9
      <4> QED BY <3>5, <3>6, <4>1
    <3>9. \A i \in 1..Len(told) : told[i] = i
      BY <1>9 DEF Counts
    <3> HIDE DEF told, k
    <3>10. Whole(u)'
      BY <3>1, <3>2, <3>3, <3>4, <3>5, <3>7, <3>8, <3>9 DEF Whole
    <3>11. Complete(u)'
      BY <3>3 DEF Complete
    <3> QED BY <2>1, <3>10, <3>11 DEF Journey
  <2> QED BY <2>2, <2>3, <2>4
<1> QED BY <1>10, <1>11, <1>12 DEF StreamInv

-----------------------------------------------------------------------------
(* The coroutine of u ends.                                                *)

LEMMA DisconnectKeeps ==
  ASSUME StreamInv, NEW u \in Uids, Disconnect(u)
  PROVE  StreamInv'
<1>1. StreamTypes /\ FrontTypes /\ \A v \in Uids : Journey(v)
  BY DEF StreamInv, StreamTypes
<1>2. /\ coro[u] \in {"waiting", "yielding", "ending"}
      /\ UNCHANGED <<cfgVars, uidCounter, ackMap, eventMap, acks, got, turn, pipeVars, rankVars>>
  BY DEF Disconnect
<1>3. /\ DOMAIN coro' = Uids /\ held' \in [Uids -> Seq(Nat)]
      /\ \A v \in Uids \ {u} : coro'[v] = coro[v] /\ held'[v] = held[v]
      /\ \/ coro'[u] = coro[u] /\ held'[u] = held[u]
         \/ coro'[u] \in {"aborting", "dropped"}
  <2>1. <<>> \in Seq(Nat) /\ DOMAIN coro = Uids /\ held \in [Uids -> Seq(Nat)]
    BY <1>1 DEF FrontTypes
  <2>2. CASE coro' = coro /\ held' = held
    BY <2>1, <2>2
  <2>3. CASE \E c \in {"aborting", "dropped"} : coro' = [coro EXCEPT ![u] = c]
                                                /\ held' = [held EXCEPT ![u] = <<>>]
    BY <2>1, <2>3
  <2> QED BY <2>2, <2>3 DEF Disconnect
<1>4. StreamTypes'
  <2>1. FrontTypes'
    BY <1>1, <1>2, <1>3 DEF FrontTypes, cfgVars
  <2> QED BY <1>1, <1>2, <2>1, OtherTypes DEF StreamTypes
<1>5. \A v \in Uids : \A p \in Procs : Path(p, v)' = Path(p, v)
  BY <1>2, Untouched DEF pipeVars
<1>6. ASSUME NEW v \in Uids, coro'[v] = coro[v], held'[v] = held[v] PROVE Journey(v)'
  <2>1. Still(v)
    BY <1>1, <1>2, <1>5, <1>6, OthersStill DEF pipeVars
  <2> QED BY <1>1, <2>1, Stays
<1>7. ASSUME coro'[u] \in {"aborting", "dropped"} PROVE Journey(u)'
  <2>1. SentOnce(u)' /\ Unsent(u)' /\ AbortLast(u)'
    BY <1>1, <1>2, <1>7, PathKept DEF pipeVars
  <2> QED BY <1>7, <2>1 DEF Journey, Whole, Complete
<1> QED BY <1>3, <1>4, <1>6, <1>7 DEF StreamInv

LEMMA EndKeeps ==
  ASSUME StreamInv, NEW u \in Uids, End(u)
  PROVE  StreamInv'
<1>1. StreamTypes /\ FrontTypes /\ \A v \in Uids : Journey(v)
  BY DEF StreamInv, StreamTypes
<1>2. /\ coro[u] = "ending"
      /\ UNCHANGED <<cfgVars, uidCounter, ackMap, eventMap, acks, held, got, gone, turn,
                     pipeVars, rankVars>>
  BY DEF End
<1>3. /\ DOMAIN coro' = Uids /\ \A v \in Uids \ {u} : coro'[v] = coro[v]
      /\ coro'[u] \in {"aborting", "done"}
  <2>1. DOMAIN coro = Uids
    BY <1>1 DEF FrontTypes
  <2> QED BY <2>1 DEF End
<1>4. StreamTypes'
  <2>1. FrontTypes'
    BY <1>1, <1>2, <1>3 DEF FrontTypes, cfgVars
  <2> QED BY <1>1, <1>2, <2>1, OtherTypes DEF StreamTypes
<1>5. \A v \in Uids : \A p \in Procs : Path(p, v)' = Path(p, v)
  BY <1>2, Untouched DEF pipeVars
<1>6. ASSUME NEW v \in Uids, v # u PROVE Journey(v)'
  <2>1. coro'[v] = coro[v]
    BY <1>3, <1>6
  <2>2. Still(v)
    BY <1>1, <1>2, <1>5, <2>1, OthersStill DEF pipeVars
  <2> QED BY <1>1, <2>2, Stays
<1>7. Journey(u)'
  <2>1. SentOnce(u)' /\ Unsent(u)' /\ AbortLast(u)'
    <3>1. coro'[u] # "none"
      BY <1>3
    <3> QED BY <1>1, <1>2, <3>1, PathKept DEF pipeVars
  <2>2. got'[u] = [i \in 1..Need[u] |-> i]
    BY <1>1, <1>2 DEF Journey, Complete
  <2> QED BY <1>3, <2>1, <2>2 DEF Journey, Whole, Complete
<1> QED BY <1>4, <1>6, <1>7 DEF StreamInv

(* A message is handed to one tokenizer.                                   *)
LEMMA SendParts ==
  ASSUME StreamTypes, Shape, NEW raw \in Raws, Send(raw), UNCHANGED <<cfgVars, toBackend>>
  PROVE  /\ turn' \in Nat /\ (tokenizers # 0 => turn' < tokenizers)
         /\ toTok' \in [Procs -> Seq(Raws)] /\ \A p \in Procs \ Tokenizers : toTok'[p] = <<>>
         /\ \E p \in Tokenizers \cap Procs : \A u \in Uids :
              /\ Path(p, u)' = Path(p, u) \o OfUids(raw)[u]
              /\ \A q \in Procs \ {p} : Path(q, u)' = Path(q, u)
<1>2. /\ tokenizers \in 0..MaxTokenizers /\ MaxTokenizers \in Nat
      /\ turn \in Nat /\ (tokenizers # 0 => turn < tokenizers)
      /\ toTok \in [Procs -> Seq(Raws)] /\ toBackend \in [Procs -> Seq(Raws)]
      /\ \A q \in Procs \ Tokenizers : toTok[q] = <<>>
  BY ServingAssumption DEF Shape, StreamTypes, FrontTypes, QueueTypes
<1>3. PICK p \in Tokenizers \cap Procs : p = IF tokenizers = 0 THEN 0 ELSE 1 + turn
  <2>1. CASE tokenizers = 0
    BY <1>2, <2>1 DEF Tokenizers, Procs
  <2>2. CASE tokenizers # 0
    <3>1. 1 + turn \in 1..tokenizers /\ 1 + turn \in 0..MaxTokenizers
      BY <1>2, <2>2
    <3> QED BY <2>2, <3>1 DEF Tokenizers, Procs
  <2> QED BY <2>1, <2>2
<1>1. /\ toTok' = [toTok EXCEPT ![p] = Append(@, raw)]
      /\ turn' = IF tokenizers = 0 THEN 0 ELSE (turn + 1) % tokenizers
  BY <1>3 DEF Send
<1>4. turn' \in Nat /\ (tokenizers # 0 => turn' < tokenizers)
  <2>1. CASE tokenizers = 0
    BY <1>1, <2>1
  <2>2. CASE tokenizers # 0
    <3>1. turn + 1 \in Nat /\ tokenizers \in Nat \ {0}
      BY <1>2, <2>2
    <3>2. \A a \in Nat, b \in Nat \ {0} : a % b \in Nat /\ a % b < b
      OBVIOUS
    <3>3. (turn + 1) % tokenizers \in Nat /\ (turn + 1) % tokenizers < tokenizers
      BY <3>1, <3>2
    <3> QED BY <1>1, <2>2, <3>3
  <2> QED BY <2>1, <2>2
<1>5. Append(toTok[p], raw) \in Seq(Raws)
  BY <1>2, <1>3, QueueLaws, Zenon DEF QueueOf
<1>6. /\ toTok' \in [Procs -> Seq(Raws)] /\ toTok'[p] = Append(toTok[p], raw)
      /\ \A q \in Procs \ {p} : toTok'[q] = toTok[q]
  BY <1>1, <1>2, <1>3, <1>5
<1>7. \A q \in Procs \ Tokenizers : toTok'[q] = <<>>
  BY <1>2, <1>3, <1>6
<1>8. ASSUME NEW u \in Uids PROVE Path(p, u)' = Path(p, u) \o OfUids(raw)[u]
  <2>1. toTok[p] \in Seq(Seq(Plain)) /\ toBackend[p] \in Seq(Seq(Plain)) /\ raw \in Seq(Plain)
    <3>1. \A A, B : A \subseteq B => Seq(A) \subseteq Seq(B)
      OBVIOUS
    <3>2. Raws \subseteq Seq(Plain)
      BY Kinds
    <3>3. toTok[p] \in Seq(Raws) /\ toBackend[p] \in Seq(Raws)
      BY <1>2, <1>3
    <3> QED BY <3>1, <3>2, <3>3, Zenon
  <2>2. Adds(toTok[p], raw, u)
    BY <2>1, Kinds, OwnQueue, Zenon
  <2>3. Own(toTok'[p], u) = Own(toTok[p], u) \o OfUids(raw)[u]
    BY <1>6, <2>2, Zenon DEF Adds
  <2>4. Own(toBackend[p], u) \in Seq(Plain) /\ Own(toTok[p], u) \in Seq(Plain)
        /\ OfUids(raw)[u] \in Seq(Plain)
    BY <2>1, Kinds, OwnQueue, OwnType, Zenon DEF OwnIs
  <2>5. Regroups(Own(toBackend[p], u), Own(toTok[p], u), OfUids(raw)[u])
    BY <2>4, JoinLaws, Zenon
  <2>6. Path(p, u)' = Own(toBackend[p], u) \o Own(toTok'[p], u)
    BY DEF Path, Own
  <2> QED BY <2>3, <2>5, <2>6, Zenon DEF Path, Regroups
<1>9. ASSUME NEW u \in Uids, NEW q \in Procs \ {p} PROVE Path(q, u)' = Path(q, u)
  BY <1>6 DEF Path, Own
<1> QED BY <1>3, <1>4, <1>6, <1>7, <1>8, <1>9

LEMMA PathTyped ==
  ASSUME StreamTypes, NEW u \in Uids, NEW p \in Procs
  PROVE  /\ Own(toBackend[p], u) \in Seq(Plain) /\ Own(toTok[p], u) \in Seq(Plain)
         /\ Path(p, u) \in Seq(Plain)
         /\ toBackend[p] \in Seq(Seq(Plain)) /\ toTok[p] \in Seq(Seq(Plain))
         /\ p \notin Tokenizers => Path(p, u) = <<>> /\ Own(toBackend[p], u) = <<>>
<1>1. toTok[p] \in Seq(Seq(Plain)) /\ toBackend[p] \in Seq(Seq(Plain))
  <2>1. \A A, B : A \subseteq B => Seq(A) \subseteq Seq(B)
    OBVIOUS
  <2>2. Raws \subseteq Seq(Plain)
    BY Kinds
  <2>3. toTok[p] \in Seq(Raws) /\ toBackend[p] \in Seq(Raws)
    BY DEF StreamTypes, QueueTypes
  <2> QED BY <2>1, <2>2, <2>3, Zenon
<1>2. Own(toBackend[p], u) \in Seq(Plain) /\ Own(toTok[p], u) \in Seq(Plain)
  BY <1>1, Kinds, OwnQueue, Zenon DEF OwnIs
<1>3. Path(p, u) \in Seq(Plain)
  BY <1>2, JoinLaws, Zenon DEF IsJoin, Path
<1>4. ASSUME p \notin Tokenizers PROVE Path(p, u) = <<>> /\ Own(toBackend[p], u) = <<>>
  <2>1. toTok[p] = <<>> /\ toBackend[p] = <<>>
    BY <1>4 DEF StreamTypes, QueueTypes
  <2>2. Own(<<>>, u) = <<>>
    BY Kinds, OwnQueue, Zenon
  <2>3. <<>> \o <<>> = <<>>
    <3>1. <<>> \in Seq(Plain)
      OBVIOUS
    <3> QED BY <3>1, QueueLaws, Zenon DEF NoneFirst
  <2> QED BY <2>1, <2>2, <2>3, Zenon DEF Path
<1> QED BY <1>1, <1>2, <1>3, <1>4

(* Queues a step of the front end does not touch.                          *)
LEMMA SentTypes ==
  ASSUME StreamTypes, UNCHANGED <<cfgVars, rankVars, toDetok, toBackend, toFront>>,
         toTok' \in [Procs -> Seq(Raws)], \A p \in Procs \ Tokenizers : toTok'[p] = <<>>
  PROVE  QueueTypes' /\ RankTypes'
<1>1. Tokenizers' = Tokenizers /\ Procs' = Procs
  BY DEF cfgVars, Tokenizers, Procs
<1>2. QueueTypes'
  BY <1>1, Zenon DEF StreamTypes, QueueTypes
<1>3. RankTypes'
  BY DEF StreamTypes, RankTypes, rankVars
<1> QED BY <1>2, <1>3

LEMMA TwoJoined ==
  \A S : \A x, y \in S : <<>> \o <<y>> = <<y>> /\ <<x>> \o <<y>> = <<x, y>>
<1>1. ASSUME NEW S, NEW x \in S, NEW y \in S PROVE <<>> \o <<y>> = <<y>>
  OBVIOUS
<1>2. ASSUME NEW S, NEW x \in S, NEW y \in S PROVE <<x>> \o <<y>> = <<x, y>>
  <2> DEFINE s == <<x>> \o <<y>>
  <2>1. s \in Seq(S) /\ Len(s) = 2 /\ s[1] = x /\ s[2] = y
    OBVIOUS
  <2>2. <<x, y>> \in Seq(S) /\ Len(<<x, y>>) = 2 /\ <<x, y>>[1] = x /\ <<x, y>>[2] = y
    OBVIOUS
  <2> HIDE DEF s
  <2>3. \A t \in Seq(S) : Len(t) = 2 => t = [i \in 1..2 |-> t[i]]
    OBVIOUS
  <2>4. s = [i \in 1..2 |-> s[i]] /\ <<x, y>> = [i \in 1..2 |-> <<x, y>>[i]]
    BY <2>1, <2>2, <2>3, Zenon
  <2>5. \A i \in 1..2 : s[i] = <<x, y>>[i]
    <3>1. \A i \in 1..2 : i = 1 \/ i = 2
      OBVIOUS
    <3> QED BY <2>1, <2>2, <3>1, Zenon
  <2>6. s = <<x, y>>
    BY <2>4, <2>5
  <2> QED BY <2>6 DEF s
<1> QED BY <1>1, <1>2, Zenon

LEMMA AbortUserKeeps ==
  ASSUME StreamInv, Shape, NEW u \in Uids, AbortUser(u)
  PROVE  StreamInv'
<1> DEFINE raw == <<Ab(u)>>
<1>1. StreamTypes /\ FrontTypes /\ \A v \in Uids : Journey(v)
  BY DEF StreamInv, StreamTypes
<1>2. /\ coro[u] = "aborting" /\ Send(raw)
      /\ coro' = [coro EXCEPT ![u] = "aborted"]
      /\ ackMap' = [v \in DOMAIN ackMap \ {u} |-> ackMap[v]]
      /\ eventMap' = [v \in DOMAIN eventMap \ {u} |-> eventMap[v]]
      /\ UNCHANGED <<cfgVars, uidCounter, acks, held, got, gone, toDetok, toBackend, toFront,
                     rankVars>>
  BY DEF AbortUser, Ab
<1>3. raw \in Raws /\ raw \in Seq(Plain)
  <2>1. Ab(u) \in Abs /\ Ab(u) \in Plain
    BY DEF Abs, Plain
  <2>2. \A S : \A x \in S : <<x>> \in Seq(S)
    OBVIOUS
  <2> QED BY <2>1, <2>2, Zenon DEF Raws
<1>4. OfUids(raw)[u] = <<Ab(u)>> /\ \A v \in Uids \ {u} : OfUids(raw)[v] = <<>>
  <2>1. Len(raw) = 1 /\ raw[1] = Ab(u) /\ Ab(u).uid = u /\ AreMsgs(Plain)
    BY Kinds
  <2> HIDE DEF raw
  <2>2. 1 \in 1..Len(raw) /\ raw[1].uid = u /\ \A i \in 1..Len(raw) : raw[i].uid = u => i = 1
    BY <2>1
  <2>3. OfUids(raw)[u] = <<raw[1]>>
    BY <1>3, <2>1, <2>2, OwnOnce, Zenon
  <2>4. ASSUME NEW v \in Uids \ {u} PROVE OfUids(raw)[v] = <<>>
    <3>1. \A i \in 1..Len(raw) : raw[i].uid # v
      BY <2>1
    <3> QED BY <1>3, <2>1, <3>1, OwnNone, Zenon
  <2> QED BY <2>1, <2>3, <2>4, Zenon
<1> HIDE DEF raw
<1>5. /\ turn' \in Nat /\ (tokenizers # 0 => turn' < tokenizers)
      /\ toTok' \in [Procs -> Seq(Raws)] /\ \A p \in Procs \ Tokenizers : toTok'[p] = <<>>
      /\ \E p \in Tokenizers \cap Procs : \A v \in Uids :
           /\ Path(p, v)' = Path(p, v) \o OfUids(raw)[v]
           /\ \A q \in Procs \ {p} : Path(q, v)' = Path(q, v)
  BY <1>1, <1>2, <1>3, SendParts
<1>6. /\ DOMAIN coro' = Uids /\ coro'[u] = "aborted"
      /\ \A v \in Uids \ {u} : coro'[v] = coro[v]
  BY <1>1, <1>2 DEF FrontTypes
<1>7. StreamTypes'
  <2>1. FrontTypes'
    BY <1>1, <1>2, <1>5, <1>6 DEF FrontTypes, cfgVars
  <2> QED BY <1>1, <1>2, <1>5, <2>1, SentTypes DEF StreamTypes
<1>8. ASSUME NEW v \in Uids, v # u PROVE Journey(v)'
  <2>1. ASSUME NEW p \in Procs PROVE Path(p, v)' = Path(p, v)
    <3>1. Path(p, v) \o <<>> = Path(p, v)
      BY <1>1, PathTyped, QueueLaws, Zenon DEF NoneFirst
    <3>2. OfUids(raw)[v] = <<>>
      BY <1>4, <1>8
    <3>3. Path(p, v)' = Path(p, v) \o OfUids(raw)[v] \/ Path(p, v)' = Path(p, v)
      BY <1>5, <1>8
    <3> QED BY <3>1, <3>2, <3>3, Zenon
  <2>2. Still(v)
    BY <1>1, <1>2, <1>6, <1>8, <2>1, OthersStill
  <2> QED BY <1>1, <2>2, Stays
<1>9. Journey(u)'
  <2>1. AbortLast(u)'
    <3> SUFFICES ASSUME (tokenizers <= 1)'
                 PROVE  /\ (u \in heard => u \notin DOMAIN live[0] /\ \A p \in Procs : Path(p, u) = <<>>)'
                        /\ (\A p \in Procs : Path(p, u) \in {<<>>, <<Tok(u)>>, <<Ab(u)>>, <<Tok(u), Ab(u)>>})'
      BY DEF AbortLast
    <3>1. u \notin heard' /\ \A p \in Procs : Path(p, u) \in {<<>>, <<Tok(u)>>}
      BY <1>1, <1>2 DEF Journey, SentOnce, rankVars
    <3>2. Procs' = Procs
      BY DEF Procs
    <3>3. <<>> \o <<Ab(u)>> = <<Ab(u)>> /\ <<Tok(u)>> \o <<Ab(u)>> = <<Tok(u), Ab(u)>>
      <4>1. Ab(u) \in Plain /\ Tok(u) \in Plain
        BY Kinds
      <4> QED BY <4>1, TwoJoined, Zenon
    <3>4. ASSUME NEW p \in Procs
          PROVE  Path(p, u)' \in {<<>>, <<Tok(u)>>, <<Ab(u)>>, <<Tok(u), Ab(u)>>}
      <4>1. Path(p, u)' = Path(p, u) \o <<Ab(u)>> \/ Path(p, u)' = Path(p, u)
        BY <1>4, <1>5, Zenon
      <4>2. Path(p, u) = <<>> \/ Path(p, u) = <<Tok(u)>>
        BY <3>1
      <4>3. Path(p, u) \o <<Ab(u)>> \in {<<Ab(u)>>, <<Tok(u), Ab(u)>>}
        BY <3>3, <4>2, Zenon
      <4> QED BY <4>1, <4>2, <4>3, Zenon
    <3> QED BY <3>1, <3>2, <3>4
  <2>2. coro'[u] = "aborted" /\ "aborted" \notin {"none", "waiting", "yielding", "ending", "done"}
    BY <1>6
  <2>3. SentOnce(u)' /\ Unsent(u)' /\ Whole(u)' /\ Complete(u)'
    BY <2>2 DEF SentOnce, Unsent, Whole, Complete
  <2> QED BY <2>1, <2>3 DEF Journey
<1> QED BY <1>7, <1>8, <1>9 DEF StreamInv

LEMMA RequestKeeps ==
  ASSUME StreamInv, Shape, Request
  PROVE  StreamInv'
<1>1. StreamTypes /\ FrontTypes /\ \A v \in Uids : Journey(v)
  BY DEF StreamInv, StreamTypes
<1>2. PICK n \in 1..Cardinality(Uids) :
        /\ uidCounter..(uidCounter + n - 1) \subseteq Uids
        /\ NewUsers(uidCounter..(uidCounter + n - 1))
  BY DEF Request
<1>3. PICK c \in Nat, us \in SUBSET Uids :
        c = uidCounter /\ us = c..(c + n - 1) /\ n \in Nat \ {0}
  <2>1. Cardinality(Uids) \in Nat
    BY ServingAssumption, FS_CardinalityType
  <2>2. uidCounter \in Nat
    BY <1>1 DEF FrontTypes
  <2>3. n \in Nat \ {0}
    BY <2>1
  <2> QED BY <1>2, <2>2, <2>3
<1>4. Cardinality(us) = n
  <2>1. c \in Int /\ c + n - 1 \in Int /\ ~(c > c + n - 1) /\ (c + n - 1) - c + 1 = n
    BY <1>3
  <2> QED BY <1>3, <2>1, FS_Interval
<1> DEFINE raw == [i \in 1..n |-> Tok(c + i - 1)]
<1>5. /\ uidCounter' = c + n
      /\ ackMap' = [u \in us \cup DOMAIN ackMap |-> IF u \in us THEN <<>> ELSE ackMap[u]]
      /\ eventMap' = [u \in us \cup DOMAIN eventMap |-> u \notin us /\ eventMap[u]]
      /\ coro' = [u \in Uids |-> IF u \in us THEN "waiting" ELSE coro[u]]
      /\ Send(raw)
  BY <1>2, <1>3, <1>4, Zenon DEF NewUsers, Tok
<1>6. UNCHANGED <<cfgVars, acks, held, got, gone, toDetok, toBackend, toFront, rankVars>>
  BY DEF Request
<1>7. \A i \in 1..n : c + i - 1 \in us
  BY <1>3
<1>8. raw \in Raws /\ raw \in Seq(Plain)
  <2>1. \A i \in 1..n : Tok(c + i - 1) \in Toks
    BY <1>7 DEF Toks
  <2>2. raw \in Seq(Toks)
    BY <1>3, <2>1
  <2> QED BY <2>2, Kinds, Zenon DEF Raws
<1>9. /\ \A u \in us : OfUids(raw)[u] = <<Tok(u)>>
      /\ \A u \in Uids \ us : OfUids(raw)[u] = <<>>
  <2>1. Len(raw) = n /\ \A i \in 1..n : raw[i] = Tok(c + i - 1) /\ c + i - 1 \in Uids
    BY <1>3, <1>7, <1>8
  <2>2. \A i \in 1..n : raw[i].uid = c + i - 1
    BY <2>1, Kinds, Zenon
  <2> HIDE DEF raw
  <2>3. ASSUME NEW u \in us PROVE OfUids(raw)[u] = <<Tok(u)>>
    <3>1. PICK k \in 1..n : u = c + k - 1
      <4>1. u - c + 1 \in 1..n /\ u = c + (u - c + 1) - 1
        BY <1>3
      <4> QED BY <4>1
    <3>2. ASSUME NEW i \in 1..n, raw[i].uid = u PROVE i = k
      BY <1>3, <2>2, <3>1, <3>2
    <3>3. raw[k] = Tok(u) /\ raw[k].uid = u
      BY <2>1, <2>2, <3>1
    <3>5. k \in 1..Len(raw) /\ \A i \in 1..Len(raw) : raw[i].uid = u => i = k
      BY <2>1, <3>1, <3>2
    <3>6. u \in Uids /\ AreMsgs(Plain)
      BY Kinds
    <3>4. OfUids(raw)[u] = <<raw[k]>>
      BY <1>8, <3>3, <3>5, <3>6, OwnOnce, Zenon
    <3> QED BY <3>3, <3>4, Zenon
  <2>4. ASSUME NEW u \in Uids \ us PROVE OfUids(raw)[u] = <<>>
    <3>1. \A i \in 1..Len(raw) : raw[i].uid # u
      BY <1>7, <2>1, <2>2
    <3> QED BY <1>8, <3>1, Kinds, OwnNone, Zenon
  <2> QED BY <2>3, <2>4
<1> HIDE DEF raw
<1>10. /\ turn' \in Nat /\ (tokenizers # 0 => turn' < tokenizers)
       /\ toTok' \in [Procs -> Seq(Raws)] /\ \A p \in Procs \ Tokenizers : toTok'[p] = <<>>
       /\ \E p \in Tokenizers \cap Procs : \A v \in Uids :
            /\ Path(p, v)' = Path(p, v) \o OfUids(raw)[v]
            /\ \A q \in Procs \ {p} : Path(q, v)' = Path(q, v)
  BY <1>1, <1>5, <1>6, <1>8, SendParts
<1>11. \A u \in us : coro[u] = "none"
  <2>1. \A u \in us : u >= c
    BY <1>3
  <2> QED BY <1>1, <1>3, <2>1 DEF FrontTypes
<1>12. StreamTypes'
  <2>1. <<>> \in Seq(MsgsOf(Replies, 0)) /\ \A u : <<>> \in Mine(u)
    BY DEF Mine
  <2>2. \A u \in Uids : u >= c + n => u >= c /\ u \notin us
    BY <1>3, ServingAssumption
  <2>3. \A u \in Uids : u >= uidCounter' => coro'[u] = "none"
    BY <1>1, <1>3, <1>5, <2>2 DEF FrontTypes
  <2>4. DOMAIN ackMap' \subseteq Uids /\ DOMAIN eventMap' = DOMAIN ackMap'
    BY <1>1, <1>3, <1>5 DEF FrontTypes
  <2>5. \A u \in DOMAIN ackMap' : ackMap'[u] \in Mine(u) /\ coro'[u] # "none"
    BY <1>1, <1>3, <1>5, <2>1 DEF FrontTypes
  <2>7. uidCounter' \in Nat /\ DOMAIN coro' = Uids
    BY <1>3, <1>5
  <2>8. UNCHANGED <<acks, got, held, tokenizers>>
    BY <1>6 DEF cfgVars
  <2>6. FrontTypes'
    BY <1>1, <1>10, <2>3, <2>4, <2>5, <2>7, <2>8 DEF FrontTypes
  <2> QED BY <1>1, <1>6, <1>10, <2>6, SentTypes DEF StreamTypes
<1>13. ASSUME NEW v \in Uids, v \notin us PROVE Journey(v)'
  <2>1. ASSUME NEW p \in Procs PROVE Path(p, v)' = Path(p, v)
    <3>1. Path(p, v) \o <<>> = Path(p, v)
      BY <1>1, PathTyped, QueueLaws, Zenon DEF NoneFirst
    <3>2. OfUids(raw)[v] = <<>>
      BY <1>9, <1>13
    <3>3. Path(p, v)' = Path(p, v) \o OfUids(raw)[v] \/ Path(p, v)' = Path(p, v)
      BY <1>10, <1>13
    <3> QED BY <3>1, <3>2, <3>3, Zenon
  <2>2. coro'[v] = coro[v] /\ (v \in DOMAIN ackMap' <=> v \in DOMAIN ackMap)
        /\ (v \in DOMAIN ackMap => ackMap'[v] = ackMap[v])
    BY <1>5, <1>13
  <2>3. Still(v)
    BY <1>1, <1>6, <2>1, <2>2, OthersStill
  <2> QED BY <1>1, <2>3, Stays
<1>14. ASSUME NEW u \in us PROVE Journey(u)'
  <2>1. /\ coro[u] = "none" /\ u \notin heard /\ u \notin DOMAIN live[0]
        /\ got[u] = <<>> /\ held[u] = <<>> /\ Coming(u) = <<>> /\ \A p \in Procs : Path(p, u) = <<>>
    BY <1>1, <1>11 DEF Journey, Unsent, SentOnce
  <2>2. PICK p \in Procs : Path(p, u)' = <<Tok(u)>> /\ \A q \in Procs \ {p} : Path(q, u)' = <<>>
    <3>1. PICK p \in Procs : /\ Path(p, u)' = Path(p, u) \o OfUids(raw)[u]
                             /\ \A q \in Procs \ {p} : Path(q, u)' = Path(q, u)
      BY <1>10
    <3>2. <<>> \o <<Tok(u)>> = <<Tok(u)>>
      <4>1. Tok(u) \in Plain
        BY Kinds
      <4> QED BY <4>1, TwoJoined, Zenon
    <3>3. Path(p, u)' = <<Tok(u)>>
      BY <1>9, <2>1, <3>1, <3>2, Zenon
    <3>4. \A q \in Procs \ {p} : Path(q, u)' = <<>>
      BY <2>1, <3>1
    <3> QED BY <3>3, <3>4
  <2>3. /\ coro'[u] = "waiting" /\ UNCHANGED <<live, heard>> /\ got'[u] = <<>> /\ held'[u] = <<>>
        /\ acks'[u] = acks[u] /\ u \in DOMAIN ackMap' /\ Procs' = Procs /\ ackMap'[u] = <<>>
    BY <1>5, <1>6, <2>1 DEF rankVars, Procs
  <2>4. \A q \in Procs : Path(q, u)' # <<>> => q = p
    BY <2>2
  <2>5. \A q \in Procs : Path(q, u)' \in {<<>>, <<Tok(u)>>}
    BY <2>2
  <2>6. SentOnce(u)'
    BY <2>1, <2>3, <2>4, <2>5 DEF SentOnce
  <2>7. Unsent(u)' /\ Complete(u)'
    BY <2>3 DEF Unsent, Complete
  <2>8. AbortLast(u)'
    BY <2>1, <2>3, <2>5 DEF AbortLast
  <2>9. acks[u] = <<>> /\ Acked(u) = <<>>
    <3>1. acks[u] \in Mine(u) /\ Acked(u) \in Mine(u) /\ Queued(u) \o Launched(u) \in Mine(u)
          /\ acks[u] \o Acked(u) \in Mine(u)
      BY <1>1, Pieces, Zenon
    <3>2. acks[u] \o Acked(u) = <<>>
      BY <2>1, <3>1, QueueLaws, Zenon DEF BothEmpty, Coming, Mine
    <3> QED BY <3>1, <3>2, QueueLaws, Zenon DEF BothEmpty, Mine
  <2>10. Coming(u)' = <<>>
    <3>1. Acked(u)' = <<>>
      BY <2>3, Zenon DEF Acked
    <3>2. Queued(u)' = Queued(u) /\ Launched(u)' = Launched(u)
      BY <1>6, Untouched DEF rankVars
    <3> QED BY <2>1, <2>3, <2>9, <3>1, <3>2, Zenon DEF Coming
  <2>11. Told(u)' = <<>>
    <3>1. <<>> \in Seq(Plain)
      OBVIOUS
    <3>2. <<>> \o <<>> = <<>>
      BY <3>1, QueueLaws, Zenon DEF NoneFirst
    <3> QED BY <2>3, <3>2, Zenon DEF Told
  <2>12. Len(<<>>) = 0 /\ \A i : i \notin 1..0
    OBVIOUS
  <2>13. Whole(u)'
    BY <2>1, <2>3, <2>9, <2>10, <2>11, <2>12 DEF Whole
  <2> QED BY <2>6, <2>7, <2>8, <2>13 DEF Journey
<1> QED BY <1>12, <1>13, <1>14 DEF StreamInv

-----------------------------------------------------------------------------
(* The ranks.                                                              *)

(* What another rank does changes nothing here.                            *)
LEMMA OtherRank ==
  ASSUME StreamInv, UNCHANGED <<cfgVars, frontVars, pipeVars, heard>>,
         live'[0] = live[0], data'[0] = data[0], ongoing'[0] = ongoing[0], at'[0] = at[0]
  PROVE  StreamInv'
<1>1. StreamTypes /\ \A u \in Uids : Journey(u)
  BY DEF StreamInv
<1>2. Tokenizers' = Tokenizers /\ Procs' = Procs
  BY DEF cfgVars, Tokenizers, Procs
<1>3. StreamTypes'
  <2>1. QueueTypes'
    BY <1>1, <1>2, Zenon DEF StreamTypes, QueueTypes, pipeVars
  <2>2. RankTypes'
    BY <1>1 DEF StreamTypes, RankTypes
  <2>3. FrontTypes'
    BY <1>1 DEF StreamTypes, FrontTypes, frontVars, cfgVars
  <2> QED BY <2>1, <2>2, <2>3 DEF StreamTypes
<1>4. ASSUME NEW u \in Uids PROVE Still(u)
  <2>1. \A p \in Procs : Path(p, u)' = Path(p, u)
    BY Untouched DEF pipeVars
  <2>2. Launched(u)' = Launched(u)
    BY DEF Launched, InBatch, Reply
  <2>3. Queued(u)' = Queued(u)
    BY Untouched DEF pipeVars
  <2>4. Coming(u)' = Coming(u)
    <3>1. UNCHANGED <<ackMap, acks>>
      BY DEF frontVars
    <3>2. Acked(u)' = Acked(u)
      BY <3>1 DEF Acked
    <3> QED BY <2>2, <2>3, <3>1, <3>2, Zenon DEF Coming
  <2>5. UNCHANGED <<cfgVars, coro, acks, got, held, heard, ackMap>>
    BY DEF frontVars
  <2> QED BY <2>1, <2>4, <2>5 DEF Still
<1> QED BY <1>1, <1>3, <1>4, Stays DEF StreamInv

LEMMA FollowerKeeps ==
  ASSUME StreamInv, Shape, NEW r \in Followers, RecvFollower(r) \/ ProcessLast(r)
  PROVE  StreamInv'
<1>1. r \in Ranks /\ r # 0 /\ 0 \in Ranks
  BY ServingAssumption DEF Followers
<1>2. at'[0] = at[0] /\ State(0)' = State(0)
  <2>1. CASE RecvFollower(r)
    <3>1. \E raws : Iterate(r, raws)
      BY <2>1, Zenon DEF RecvFollower
    <3> QED BY <1>1, <3>1, IterateParts
  <2>2. CASE ProcessLast(r)
    BY <1>1, <2>2, ProcessParts
  <2> QED BY <2>1, <2>2
<1>3. live'[0] = live[0] /\ data'[0] = data[0] /\ ongoing'[0] = ongoing[0]
  BY <1>2 DEF State
<1>4. UNCHANGED <<cfgVars, frontVars, pipeVars, heard>>
  <2>1. CASE RecvFollower(r)
    BY <2>1, Zenon DEF RecvFollower
  <2>2. CASE ProcessLast(r)
    <3>1. toDetok' = toDetok /\ UNCHANGED <<cfgVars, frontVars, toTok, toBackend, toFront, heard>>
      BY <1>1, <2>2 DEF ProcessLast
    <3> QED BY <3>1 DEF pipeVars
  <2> QED BY <2>1, <2>2
<1> QED BY <1>2, <1>3, <1>4, OtherRank

(* Rank 0 replies with the tokens of a batch.                              *)
LEMMA RepliesKeep ==
  ASSUME StreamInv, Shape, ProcessLast(0)
  PROVE  StreamInv'
<1>1. StreamTypes /\ \A u \in Uids : Journey(u)
  BY DEF StreamInv
<1>2. 0 \in Ranks
  BY ServingAssumption
<1>3. /\ at'[0] = "receive" /\ State(0)' = Processed(State(0))
      /\ toDetok' = toDetok \o IfAny(Reply(data[0]))
      /\ UNCHANGED <<cfgVars, frontVars, toTok, toBackend, toFront, heard>>
  <2>1. at'[0] = "receive" /\ State(0)' = Processed(State(0))
    BY <1>2, ProcessParts
  <2> QED BY <2>1 DEF ProcessLast
<1>4. /\ data'[0] = ongoing[0] /\ ongoing'[0] = <<>>
      /\ DOMAIN live'[0] \subseteq DOMAIN live[0]
      /\ \A u \in DOMAIN live'[0] : live'[0][u] = live[0][u]
  <2>1. live'[0] = [u \in DOMAIN live[0] \ Ended(State(0)) |-> live[0][u]]
        /\ data'[0] = ongoing[0] /\ ongoing'[0] = <<>>
    BY <1>3 DEF State, Processed
  <2> QED BY <2>1
<1>5. /\ data[0] \in Seq(Pairs) /\ ongoing[0] \in Seq(Pairs) /\ toDetok \in Seq(Seq(Replies))
      /\ Reply(data[0]) \in Seq(Replies)
  BY <1>1, RepliesTyped DEF StreamTypes, RankTypes, QueueTypes
<1>6. toDetok' \in Seq(Seq(Replies))
  BY <1>3, <1>5, QueueLaws, Zenon DEF QueueOf
<1>7. Tokenizers' = Tokenizers /\ Procs' = Procs
  BY <1>3 DEF cfgVars, Tokenizers, Procs
<1>8. StreamTypes'
  <2>1. QueueTypes'
    BY <1>1, <1>3, <1>6, <1>7, Zenon DEF StreamTypes, QueueTypes
  <2>2. RankTypes'
    <3>1. <<>> \in Seq(Pairs)
      OBVIOUS
    <3> QED BY <1>1, <1>3, <1>4, <1>5, <3>1 DEF StreamTypes, RankTypes
  <2>3. FrontTypes'
    BY <1>1, <1>3 DEF StreamTypes, FrontTypes, frontVars, cfgVars
  <2> QED BY <2>1, <2>2, <2>3 DEF StreamTypes
<1>9. ASSUME NEW u \in Uids PROVE Still(u)
  <2> DEFINE f == Own(toFront[0], u)
             d == Own(toDetok, u)
             m == InBatch(data[0], u)
             c == InBatch(ongoing[0], u)
             S == MsgsOf(Replies, u)
  <2>1. f \in Seq(S) /\ d \in Seq(S) /\ m \in Seq(S) /\ c \in Seq(S)
    BY <1>1, Pieces, Zenon DEF Mine
  <2>2. Own(toDetok', u) = d \o m
    <3>1. Adds(toDetok, Reply(data[0]), u)
      BY <1>5, Kinds, OwnQueue, Zenon
    <3> QED BY <1>3, <3>1, Zenon DEF Adds, InBatch
  <2>3. InBatch(<<>>, u) = <<>>
    <3>1. <<>> \in Seq(Pairs)
      OBVIOUS
    <3> QED BY <3>1, BatchTyped, Zenon
  <2>4. Queued(u)' = f \o (d \o m)
    <3>1. Queued(u)' = Own(toFront'[0], u) \o Own(toDetok', u)
      BY DEF Queued, Own
    <3> QED BY <1>3, <2>2, <3>1, Zenon
  <2>5. Launched(u)' = c \o <<>>
    <3>1. Launched(u)' = InBatch(data'[0], u) \o InBatch(ongoing'[0], u)
      BY DEF Launched, InBatch, Reply
    <3> QED BY <1>4, <2>3, <3>1, Zenon
  <2>6. Queued(u)' \o Launched(u)' = Queued(u) \o Launched(u)
    <3>1. Queued(u) = f \o d /\ Launched(u) = m \o c
      BY DEF Queued, Launched
    <3> HIDE DEF f, d, m, c, S
    <3>2. Regroups(f, d, m) /\ NoneFirst(c) /\ f \o d \in Seq(S)
      BY <2>1, JoinLaws, QueueLaws, Zenon DEF IsJoin
    <3>3. Regroups(f \o d, m, c)
      BY <2>1, <3>2, JoinLaws, Zenon
    <3> QED BY <2>4, <2>5, <3>1, <3>2, <3>3, Zenon DEF Regroups, NoneFirst
  <2>7. UNCHANGED <<cfgVars, coro, acks, got, held, heard, ackMap, toTok, toBackend>>
    BY <1>3 DEF frontVars
  <2>8. Coming(u)' = Coming(u)
    <3>1. Acked(u)' = Acked(u)
      BY <2>7 DEF Acked
    <3> QED BY <2>6, <2>7, <3>1, Zenon DEF Coming
  <2>9. \A p \in Procs : Path(p, u)' = Path(p, u)
    BY <2>7, Untouched
  <2> QED BY <1>4, <2>7, <2>8, <2>9 DEF Still
<1> QED BY <1>1, <1>8, <1>9, Stays DEF StreamInv

LEMMA OwnBoth ==
  ASSUME NEW M, AreMsgs(M), NEW u \in Uids, NEW a \in Seq(Seq(M)), NEW b \in Seq(Seq(M))
  PROVE  Own(a \o b, u) = Own(a, u) \o Own(b, u)
<1>1. FlattenSeq(a) \in Seq(M) /\ FlattenSeq(b) \in Seq(M)
  BY FlatType, Zenon
<1>2. FlattenSeq(a \o b) = FlattenSeq(a) \o FlattenSeq(b)
  BY FlatJoin, Zenon
<1>3. OfUids(FlattenSeq(a) \o FlattenSeq(b))[u]
        = OfUids(FlattenSeq(a))[u] \o OfUids(FlattenSeq(b))[u]
  BY <1>1, OwnJoin, Zenon
<1> QED BY <1>2, <1>3, Zenon DEF Own

(* The order rank 0 drains the queues in has each tokenizer once.          *)
LEMMA OrderParts ==
  ASSUME Shape, NEW o \in Orders
  PROVE  \E n \in Nat : /\ o \in [1..n -> Tokenizers] /\ Tokenizers \subseteq Procs
                        /\ \A i, j \in 1..n : o[i] = o[j] => i = j
                        /\ \A p \in Tokenizers : \E i \in 1..n : o[i] = p
<1>1. IsFiniteSet(Tokenizers) /\ Tokenizers \subseteq Procs
  <2>1. CASE tokenizers = 0
    <3>1. Tokenizers = {0} /\ 0 \in Procs
      BY <2>1, ServingAssumption DEF Tokenizers, Procs
    <3> QED BY <3>1, FS_Singleton
  <2>2. CASE tokenizers # 0
    <3>1. tokenizers \in Int /\ 1 \in Int /\ Tokenizers = 1..tokenizers
      BY <2>2, ServingAssumption DEF Shape, Tokenizers
    <3>2. IsFiniteSet(Tokenizers)
      BY <3>1, FS_Interval
    <3>3. Tokenizers \subseteq Procs
      BY <3>1, ServingAssumption DEF Shape, Procs
    <3> QED BY <3>2, <3>3
  <2> QED BY <2>1, <2>2
<1> DEFINE n == Cardinality(Tokenizers)
<1>2. n \in Nat
  BY <1>1, FS_CardinalityType
<1>3. o \in [1..n -> Tokenizers] /\ \A i, j \in 1..n : o[i] = o[j] => i = j
  BY DEF Orders, SetToSeqs
<1>4. o \in Injection(1..n, Tokenizers)
  BY <1>3 DEF Injection, IsInjective
<1>5. Cardinality(1..n) = n
  <2>1. 1 \in Int /\ n \in Int /\ (1 > n => n = 0) /\ n - 1 + 1 = n
    BY <1>2
  <2> HIDE DEF n
  <2>2. Cardinality(1..n) = IF 1 > n THEN 0 ELSE n - 1 + 1
    BY <2>1, FS_Interval, Zenon
  <2> QED BY <2>1, <2>2
<1>6. o \in Surjection(1..n, Tokenizers)
  <2>1. Cardinality(1..n) = Cardinality(Tokenizers)
    BY <1>5
  <2> HIDE DEF n
  <2> QED BY <1>1, <1>4, <2>1, FS_Injection
<1>7. \A p \in Tokenizers : \E i \in 1..n : o[i] = p
  BY <1>6 DEF Surjection
<1> QED BY <1>1, <1>2, <1>3, <1>7

(* When one process at most has messages of u, these are what rank 0 takes *)
(* of u.                                                                   *)
LEMMA Gathered ==
  ASSUME StreamTypes, Shape, NEW o \in Orders, NEW u \in Uids, NEW q \in Procs,
         \A p \in Procs \ {q} : Own(toBackend[p], u) = <<>>
  PROVE  /\ FlattenSeq([i \in DOMAIN o |-> toBackend[o[i]]]) \in Seq(Seq(Plain))
         /\ Own(FlattenSeq([i \in DOMAIN o |-> toBackend[o[i]]]), u) = Own(toBackend[q], u)
<1> DEFINE seqs == [i \in DOMAIN o |-> toBackend[o[i]]]
           B == Seq(Plain)
           own == Own(toBackend[q], u)
<1>1. PICK n \in Nat : /\ o \in [1..n -> Tokenizers] /\ Tokenizers \subseteq Procs
                       /\ \A i, j \in 1..n : o[i] = o[j] => i = j
                       /\ \A p \in Tokenizers : \E i \in 1..n : o[i] = p
  BY OrderParts
<1>2. seqs \in Seq(Seq(B)) /\ Len(seqs) = n /\ \A i \in 1..n : seqs[i] = toBackend[o[i]]
  <2>1. DOMAIN o = 1..n /\ \A i \in 1..n : o[i] \in Procs
    BY <1>1
  <2>2. \A i \in 1..n : toBackend[o[i]] \in Seq(B)
    BY <2>1, PathTyped
  <2> HIDE DEF B
  <2> QED BY <2>1, <2>2
<1>3. \A i \in 1..n : seqs[i] \in Seq(B)
  BY <1>1, <1>2, PathTyped
<1> HIDE DEF seqs
<1>4. PICK flat : OwnF!FlatSteps(flat, seqs, B)
  BY <1>2, OwnF!FlatStepsExist, Zenon
<1>5. /\ flat[0] = <<>> /\ \A i \in 1..n : flat[i] = flat[i - 1] \o seqs[i]
      /\ \A i \in 0..n : flat[i] \in Seq(B)
      /\ FlattenSeq(seqs) = flat[n] /\ n \in 0..n
  <2>1. Len(seqs) = n /\ n \in 0..n
    BY <1>2
  <2> QED BY <1>4, <2>1, SameFlat, Zenon DEF OwnF!FlatSteps
<1>6. AreMsgs(Plain) /\ own \in Seq(Plain) /\ Own(<<>>, u) = <<>>
  BY Kinds, PathTyped, OwnQueue, Zenon
<1>7. \A i \in 1..n : Own(seqs[i], u) = IF o[i] = q THEN own ELSE <<>>
  <2>1. ASSUME NEW i \in 1..n PROVE Own(seqs[i], u) = IF o[i] = q THEN own ELSE <<>>
    <3>1. seqs[i] = toBackend[o[i]] /\ o[i] \in Procs
      BY <1>1, <1>2
    <3>2. CASE o[i] = q
      BY <3>1, <3>2, Zenon
    <3>3. CASE o[i] # q
      <4>1. Own(toBackend[o[i]], u) = <<>>
        BY <3>1, <3>3
      <4> QED BY <3>1, <3>3, <4>1, Zenon
    <3> QED BY <3>2, <3>3
  <2> QED BY <2>1
<1> HIDE DEF own
<1>8. ASSUME NEW i \in 1..n PROVE Own(flat[i], u) = Own(flat[i - 1], u) \o Own(seqs[i], u)
  <2>1. i - 1 \in 0..n
    OBVIOUS
  <2>2. flat[i - 1] \in Seq(B) /\ seqs[i] \in Seq(B)
    BY <1>3, <1>5, <2>1
  <2> QED BY <1>5, <1>6, <2>2, OwnBoth, Zenon
<1>9. NoneFirst(own) /\ NoneFirst(<<>>)
  <2>1. <<>> \in Seq(Plain)
    OBVIOUS
  <2> QED BY <1>6, <2>1, QueueLaws, Zenon
<1>10. CASE q \in Tokenizers
  <2>1. PICK k \in 1..n : o[k] = q
    BY <1>1, <1>10
  <2>2. \A i \in 1..n : o[i] = q <=> i = k
    BY <1>1, <2>1
  <2> DEFINE Good == {i \in 0..n : Own(flat[i], u) = IF i < k THEN <<>> ELSE own}
  <2>3. 0 \in Good
    BY <1>5, <1>6
  <2>4. ASSUME NEW i \in 1..n, i - 1 \in Good PROVE i \in Good
    <3>1. Own(flat[i - 1], u) = (IF i - 1 < k THEN <<>> ELSE own) /\ i \in 0..n
      BY <2>4
    <3>2. Own(seqs[i], u) = IF i = k THEN own ELSE <<>>
      BY <1>7, <2>2
    <3>3. CASE i < k
      <4>1. i - 1 < k /\ i # k
        BY <3>3
      <4> QED BY <1>8, <1>9, <3>1, <3>2, <3>3, <4>1, Zenon DEF NoneFirst
    <3>4. CASE i = k
      <4>1. i - 1 < k /\ ~(i < k)
        BY <3>4
      <4> QED BY <1>8, <1>9, <3>1, <3>2, <3>4, <4>1, Zenon DEF NoneFirst
    <3>5. CASE i > k
      <4>1. ~(i - 1 < k) /\ ~(i < k) /\ i # k
        BY <3>5
      <4> QED BY <1>8, <1>9, <3>1, <3>2, <4>1, Zenon DEF NoneFirst
    <3> QED BY <3>3, <3>4, <3>5
  <2> HIDE DEF Good
  <2>5. \A i \in 0..n : i \in Good
    BY <2>3, <2>4, OwnF!UpTo
  <2>6. Own(flat[n], u) = own
    BY <1>5, <2>5 DEF Good
  <2> QED BY <1>5, <2>6 DEF seqs, own
<1>11. CASE q \notin Tokenizers
  <2>1. own = <<>> /\ \A i \in 1..n : o[i] # q
    BY <1>1, <1>11, PathTyped DEF own
  <2> DEFINE Good == {i \in 0..n : Own(flat[i], u) = <<>>}
  <2>2. 0 \in Good
    BY <1>5, <1>6
  <2>3. ASSUME NEW i \in 1..n, i - 1 \in Good PROVE i \in Good
    <3>1. Own(flat[i - 1], u) = <<>> /\ i \in 0..n
      BY <2>3
    <3>2. Own(seqs[i], u) = <<>>
      BY <1>7, <2>1
    <3> QED BY <1>8, <1>9, <3>1, <3>2, Zenon DEF NoneFirst
  <2> HIDE DEF Good
  <2>4. \A i \in 0..n : i \in Good
    BY <2>2, <2>3, OwnF!UpTo
  <2>5. Own(flat[n], u) = <<>>
    BY <1>5, <2>4 DEF Good
  <2> QED BY <1>5, <2>1, <2>5 DEF seqs, own
<1> QED BY <1>10, <1>11

(* What the messages of a round make of a request.                         *)
IsLive(l)     == DOMAIN l \subseteq Uids /\ \A u \in DOMAIN l : l[u] \in Nat
Same(l, k, u) == (u \in DOMAIN l <=> u \in DOMAIN k) /\ (u \in DOMAIN l => k[u] = l[u])

LEMMA HandleOne ==
  ASSUME NEW l, NEW m \in Plain, NEW u \in Uids
  PROVE  /\ IsLive(l) => IsLive(Handle(l, m))
         /\ m.uid # u => Same(l, Handle(l, m), u)
         /\ m = Tok(u) /\ u \notin tooLong => u \in DOMAIN Handle(l, m) /\ Handle(l, m)[u] = 0
         /\ m = Tok(u) /\ u \in tooLong => Handle(l, m) = l
         /\ m = Ab(u) => u \notin DOMAIN Handle(l, m)
<1>1. PICK v \in Uids : m = Tok(v) \/ m = Ab(v)
  BY DEF Plain, Toks, Abs
<1>2. /\ Tok(v).uid = v /\ Ab(v).uid = v /\ Tok(u).uid = u /\ Ab(u).uid = u
      /\ Tok(v).type = "tokenize" /\ Ab(v).type = "abort" /\ Tok(v) # Ab(v)
      /\ Tok(u).type = "tokenize" /\ Ab(u).type = "abort"
  BY Kinds
<1>3. CASE m = Tok(v) /\ v \notin tooLong
  <2>1. Handle(l, m) = [w \in DOMAIN l \cup {v} |-> IF w = v THEN 0 ELSE l[w]]
    BY <1>2, <1>3 DEF Handle
  <2> QED BY <1>2, <1>3, <2>1 DEF IsLive, Same
<1>4. CASE m = Tok(v) /\ v \in tooLong
  <2>1. Handle(l, m) = l
    BY <1>2, <1>4 DEF Handle
  <2> QED BY <1>2, <1>4, <2>1 DEF Same
<1>5. CASE m = Ab(v)
  <2>1. Handle(l, m) = [w \in DOMAIN l \ {v} |-> l[w]]
    BY <1>2, <1>5 DEF Handle
  <2> QED BY <1>2, <1>5, <2>1 DEF IsLive, Same
<1> QED BY <1>1, <1>3, <1>4, <1>5

EndsWith(s, m) == s # <<>> /\ s[Len(s)] = m
Fate(l0, s, l, u) ==
  /\ s = <<>> => Same(l0, l, u)
  /\ EndsWith(s, Tok(u)) /\ u \notin tooLong => u \in DOMAIN l /\ l[u] = 0
  /\ EndsWith(s, Ab(u)) => u \notin DOMAIN l
  /\ u \in tooLong /\ u \notin DOMAIN l0 => u \notin DOMAIN l

AppendEnds(s, m) == EndsWith(Append(s, m), m)

LEMMA Appended ==
  /\ \A S : \A s \in Seq(S) : \A m \in S : AppendEnds(s, m)
  /\ \A s, x, y : EndsWith(s, x) /\ EndsWith(s, y) => x = y
<1>1. ASSUME NEW S, NEW s \in Seq(S), NEW m \in S PROVE AppendEnds(s, m)
  <2> DEFINE t == Append(s, m)
  <2>1. t # <<>> /\ t[Len(t)] = m
    OBVIOUS
  <2> QED BY <2>1, Zenon DEF AppendEnds, EndsWith
<1>2. \A s, x, y : EndsWith(s, x) /\ EndsWith(s, y) => x = y
  BY DEF EndsWith
<1> QED BY <1>1, <1>2, Zenon

LEMMA Fates ==
  ASSUME NEW raw \in Seq(Plain), NEW l0, IsLive(l0)
  PROVE  /\ IsLive(FoldLeft(Handle, l0, raw))
         /\ \A u \in Uids : Fate(l0, OfUids(raw)[u], FoldLeft(Handle, l0, raw), u)
<1> DEFINE n == Len(raw)
<1>1. PICK acc : /\ acc[0] = l0
                 /\ \A i \in 1..n : acc[i] = Handle(acc[i - 1], raw[i])
                 /\ FoldLeft(Handle, l0, raw) = acc[n]
  <2>1. FoldLeft(Handle, l0, raw) = Took!Fold(l0, raw)
    BY DEF FoldLeft, MapThenFoldSet, Max, Took!Fold, Took!LastOf
  <2>2. \E acc : /\ acc[0] = l0
                 /\ \A i \in 1..Len(raw) : acc[i] = Handle(acc[i - 1], raw[i])
                 /\ Took!Fold(l0, raw) = acc[Len(raw)]
    BY Took!FoldSteps, Zenon
  <2> QED BY <2>1, <2>2
<1>2. n \in Nat /\ (\A i \in 1..n : raw[i] \in Plain) /\ n \in 0..n /\ 0 \in 0..n
  OBVIOUS
<1>3. IsLive(acc[n])
  <2> DEFINE Good == {i \in 0..n : IsLive(acc[i])}
  <2>1. 0 \in Good
    BY <1>1, <1>2
  <2>2. ASSUME NEW i \in 1..n, i - 1 \in Good PROVE i \in Good
    <3>1. IsLive(acc[i - 1])
      BY <2>2
    <3>2. \A u \in Uids : IsLive(Handle(acc[i - 1], raw[i]))
      BY <1>2, <3>1, HandleOne, Zenon
    <3>3. raw[i].uid \in Uids
      BY <1>2, Kinds DEF AreMsgs
    <3>4. i \in 0..n
      BY <1>2
    <3> QED BY <1>1, <3>2, <3>3, <3>4, Zenon
  <2> HIDE DEF Good, n
  <2>3. \A i \in 0..n : i \in Good
    BY <1>2, <2>1, <2>2, OwnF!UpTo
  <2> QED BY <1>2, <2>3 DEF Good
<1>4. ASSUME NEW u \in Uids PROVE Fate(l0, OfUids(raw)[u], acc[n], u)
  <2>1. AreMsgs(Plain)
    BY Kinds
  <2>2. PICK own : OwnSteps(own, raw, u, Plain)
    BY <2>1, OwnStepsExist
  <2>3. /\ own[0] = <<>> /\ OfUids(raw)[u] = own[n]
        /\ \A i \in 1..n : own[i] = IF raw[i].uid = u THEN Append(own[i - 1], raw[i]) ELSE own[i - 1]
        /\ \A i \in 0..n : own[i] \in Seq(MsgsOf(Plain, u))
    BY <2>2, Zenon DEF OwnSteps
  <2> DEFINE Good == {i \in 0..n : Fate(l0, own[i], acc[i], u)}
  <2>4. 0 \in Good
    <3>1. Fate(l0, own[0], acc[0], u)
      BY <1>1, <2>3, Zenon DEF Fate, Same, EndsWith
    <3> QED BY <1>2, <3>1
  <2>5. ASSUME NEW i \in 1..n, i - 1 \in Good PROVE i \in Good
    <3>1. Fate(l0, own[i - 1], acc[i - 1], u) /\ i - 1 \in 0..n /\ i \in 0..n
      BY <1>2, <2>5
    <3>2. acc[i] = Handle(acc[i - 1], raw[i]) /\ raw[i] \in Plain
      BY <1>1, <1>2
    <3>3. CASE raw[i].uid # u
      <4>1. own[i] = own[i - 1]
        BY <2>3, <3>3, Zenon
      <4>2. Same(acc[i - 1], acc[i], u)
        <5>1. Same(acc[i - 1], Handle(acc[i - 1], raw[i]), u)
          BY <3>2, <3>3, HandleOne, Zenon
        <5> QED BY <3>2, <5>1, Zenon
      <4>3. Fate(l0, own[i], acc[i], u)
        BY <3>1, <4>1, <4>2 DEF Fate, Same
      <4> QED BY <3>1, <4>3
    <3>4. CASE raw[i].uid = u
      <4>1. raw[i] = Tok(u) \/ raw[i] = Ab(u)
        BY <3>2, <3>4, Kinds
      <4>2. own[i] = Append(own[i - 1], raw[i]) /\ raw[i] \in MsgsOf(Plain, u)
        BY <2>3, <3>2, <3>4, Zenon DEF MsgsOf
      <4>3. EndsWith(own[i], raw[i])
        <5>1. AppendEnds(own[i - 1], raw[i])
          BY <2>3, <3>1, <4>2, Appended, Zenon
        <5> QED BY <4>2, <5>1, Zenon DEF AppendEnds
      <4>4. own[i] # <<>> /\ \A x : EndsWith(own[i], x) => x = raw[i]
        BY <4>3, Appended, Zenon DEF EndsWith
      <4>5. Tok(u) # Ab(u)
        BY Kinds
      <4>6. CASE raw[i] = Tok(u)
        <5>1. /\ u \notin tooLong => u \in DOMAIN acc[i] /\ acc[i][u] = 0
              /\ u \in tooLong => acc[i] = acc[i - 1]
          <6> DEFINE k == Handle(acc[i - 1], raw[i])
          <6>2. /\ u \notin tooLong => u \in DOMAIN k /\ k[u] = 0
                /\ u \in tooLong => k = acc[i - 1]
            BY <3>2, <4>6, HandleOne
          <6> QED BY <3>2, <6>2
        <5>2. Fate(l0, own[i], acc[i], u)
          BY <3>1, <4>4, <4>5, <4>6, <5>1, Zenon DEF Fate
        <5> QED BY <3>1, <5>2
      <4>7. CASE raw[i] = Ab(u)
        <5>1. u \notin DOMAIN acc[i]
          BY <3>2, <4>7, HandleOne, Zenon
        <5>2. Fate(l0, own[i], acc[i], u)
          BY <4>4, <4>5, <4>7, <5>1, Zenon DEF Fate
        <5> QED BY <3>1, <5>2
      <4> QED BY <4>1, <4>6, <4>7
    <3> QED BY <3>3, <3>4
  <2> HIDE DEF Good, n
  <2>6. \A i \in 0..n : i \in Good
    BY <1>2, <2>4, <2>5, OwnF!UpTo
  <2>7. Fate(l0, own[n], acc[n], u)
    BY <1>2, <2>6 DEF Good
  <2> QED BY <2>3, <2>7
<1> QED BY <1>1, <1>3, <1>4

(* What rank 0 hears of a request is among what it takes of it.            *)
Holds(s, x) == \E j \in 1..Len(s) : s[j] = x
HoldsLaw(s, m) == Holds(Append(s, m), m) /\ \A x : Holds(s, x) => Holds(Append(s, m), x)

LEMMA HoldsLaws ==
  \A S : \A s \in Seq(S) : \A m \in S : HoldsLaw(s, m)
<1>1. ASSUME NEW S, NEW s \in Seq(S), NEW m \in S PROVE HoldsLaw(s, m)
  <2> DEFINE t == Append(s, m)
  <2>1. /\ Len(t) \in 1..Len(t) /\ t[Len(t)] = m
        /\ \A j \in 1..Len(s) : j \in 1..Len(t) /\ t[j] = s[j]
    OBVIOUS
  <2> HIDE DEF t
  <2>2. Holds(t, m) /\ \A x : Holds(s, x) => Holds(t, x)
    BY <2>1, Zenon DEF Holds
  <2> QED BY <2>2, Zenon DEF t, HoldsLaw
<1> QED BY <1>1, Zenon

LEMMA OwnHas ==
  ASSUME NEW M, AreMsgs(M), NEW raw \in Seq(M), NEW u \in Uids,
         NEW k \in 1..Len(raw), raw[k].uid = u
  PROVE  Holds(OfUids(raw)[u], raw[k])
<1> DEFINE n == Len(raw)
<1>1. PICK own : OwnSteps(own, raw, u, M)
  BY OwnStepsExist
<1>2. /\ OfUids(raw)[u] = own[n]
      /\ \A i \in 1..n : own[i] = IF raw[i].uid = u THEN Append(own[i - 1], raw[i]) ELSE own[i - 1]
      /\ \A i \in 0..n : own[i] \in Seq(MsgsOf(M, u))
  BY <1>1, Zenon DEF OwnSteps
<1>3. n \in Nat /\ (\A i \in 1..n : raw[i] \in M) /\ k \in 1..n /\ n \in 0..n
  OBVIOUS
<1> DEFINE Good == {i \in 0..n : k <= i => Holds(own[i], raw[k])}
<1>4. 0 \in Good
  BY <1>3
<1>5. ASSUME NEW i \in 1..n, i - 1 \in Good PROVE i \in Good
  <2>1. i - 1 \in 0..n /\ i \in 0..n
    BY <1>3
  <2>2. raw[i].uid = u => HoldsLaw(own[i - 1], raw[i])
    <3> SUFFICES ASSUME raw[i].uid = u PROVE HoldsLaw(own[i - 1], raw[i])
      OBVIOUS
    <3>1. raw[i] \in MsgsOf(M, u)
      BY <1>3 DEF MsgsOf
    <3>2. own[i - 1] \in Seq(MsgsOf(M, u))
      BY <1>2, <2>1
    <3> QED BY <3>1, <3>2, HoldsLaws, Zenon
  <2>3. CASE k = i
    <3>1. own[i] = Append(own[i - 1], raw[k]) /\ HoldsLaw(own[i - 1], raw[k])
      BY <1>2, <2>2, <2>3, Zenon
    <3> QED BY <2>1, <3>1, Zenon DEF HoldsLaw
  <2>4. CASE k <= i - 1
    <3>1. Holds(own[i - 1], raw[k])
      BY <1>5, <2>4
    <3>2. Holds(own[i], raw[k])
      BY <1>2, <2>2, <3>1, Zenon DEF HoldsLaw
    <3> QED BY <2>1, <3>2
  <2>5. CASE ~(k <= i)
    BY <2>1, <2>5
  <2>6. k = i \/ k <= i - 1 \/ ~(k <= i)
    BY <1>3
  <2> QED BY <2>3, <2>4, <2>5, <2>6
<1> HIDE DEF Good, n
<1>6. \A i \in 0..n : i \in Good
  BY <1>3, <1>4, <1>5, OwnF!UpTo
<1>7. k <= n => Holds(own[n], raw[k])
  BY <1>3, <1>6 DEF Good
<1>8. k <= n
  BY <1>3
<1> QED BY <1>2, <1>7, <1>8

(* A batch has one token of each of its requests.                          *)
BatchIs(b, g, batch) ==
  /\ batch \in Seq(Pairs)
  /\ \A u \in Uids : InBatch(batch, u) = IF u \in b THEN <<Detok(u, g[u])>> ELSE <<>>

LEMMA BatchOf ==
  ASSUME NEW b, b \subseteq Uids, NEW g, \A u \in b : g[u] \in Nat
  PROVE  BatchIs(b, g, SetToSeq({<<u, g[u]>> : u \in b}))
<1> DEFINE T == {<<u, g[u]>> : u \in b}
           n == Cardinality(T)
           s == SetToSeq(T)
           raw == Reply(s)
<1>1. IsFiniteSet(b)
  BY ServingAssumption, FS_Subset
<1>2. IsFiniteSet(T)
  <2> DEFINE f == [u \in b |-> <<u, g[u]>>]
  <2>1. f \in Surjection(b, T)
    BY DEF Surjection
  <2> HIDE DEF f, T
  <2> QED BY <1>1, <2>1, FS_Surjection
<1>3. n \in Nat /\ ExistsBijection(1..n, T)
  <2> HIDE DEF T
  <2> QED BY <1>2, FS_CardinalityType
<1>4. s \in [1..n -> T] /\ IsInjective(s)
  <2>1. \E f \in [1..n -> T] : IsInjective(f)
    <3> HIDE DEF T, n
    <3> QED BY <1>3 DEF ExistsBijection, Bijection, Injection
  <2> HIDE DEF T
  <2> QED BY <2>1 DEF SetToSeq
<1>5. Cardinality(1..n) = n /\ IsFiniteSet(1..n)
  <2>1. 1 \in Int /\ n \in Int /\ (1 > n => n = 0) /\ n - 1 + 1 = n
    BY <1>3
  <2> HIDE DEF n
  <2>2. Cardinality(1..n) = (IF 1 > n THEN 0 ELSE n - 1 + 1) /\ IsFiniteSet(1..n)
    BY <2>1, FS_Interval, Zenon
  <2> QED BY <2>1, <2>2
<1>6. \A t \in T : \E i \in 1..n : s[i] = t
  <2>1. s \in Injection(1..n, T)
    BY <1>4 DEF Injection
  <2>2. Cardinality(1..n) = Cardinality(T)
    BY <1>5
  <2> HIDE DEF T, n, s
  <2>3. s \in Surjection(1..n, T)
    BY <1>2, <2>1, <2>2, FS_Injection
  <2> QED BY <2>3 DEF Surjection
<1>7. T \subseteq Pairs
  BY DEF Pairs
<1>8. /\ s \in Seq(Pairs) /\ Len(s) = n /\ DOMAIN s = 1..n
      /\ \A i, j \in 1..n : s[i] = s[j] => i = j
      /\ \A i \in 1..n : s[i] \in T
  <2> HIDE DEF T, n, s
  <2> QED BY <1>3, <1>4, <1>7 DEF IsInjective
<1>9. \A i \in 1..n : s[i][1] \in b /\ s[i] = <<s[i][1], g[s[i][1]]>>
  <2>1. \A t \in T : t[1] \in b /\ t = <<t[1], g[t[1]]>>
    OBVIOUS
  <2> HIDE DEF T, n, s
  <2> QED BY <1>8, <2>1
<1>10. /\ raw \in Seq(Replies) /\ Len(raw) = n
       /\ \A i \in 1..n : raw[i] = Detok(s[i][1], s[i][2])
  <2> HIDE DEF n, s
  <2>1. raw \in Seq(Replies) /\ Len(raw) = n
    BY <1>8, RepliesTyped
  <2>2. raw = [i \in 1..n |-> Detok(s[i][1], s[i][2])]
    BY <1>8 DEF Reply
  <2> HIDE DEF raw
  <2>3. \A i \in 1..n : raw[i] = Detok(s[i][1], s[i][2])
    BY <2>2
  <2> QED BY <2>1, <2>3
<1> HIDE DEF s, raw, n
<1>11. \A i \in 1..n : raw[i] = Detok(s[i][1], g[s[i][1]]) /\ raw[i].uid = s[i][1]
  <2>1. ASSUME NEW i \in 1..n PROVE raw[i] = Detok(s[i][1], g[s[i][1]])
    <3>1. s[i][2] = g[s[i][1]]
      BY <1>9
    <3> QED BY <1>10, <3>1, Zenon
  <2>2. \A v, j : Detok(v, j).uid = v
    BY DEF Detok
  <2>3. ASSUME NEW i \in 1..n PROVE raw[i].uid = s[i][1]
    <3>1. Detok(s[i][1], g[s[i][1]]).uid = s[i][1]
      BY <2>2, Zenon
    <3> QED BY <2>1, <3>1, Zenon
  <2> QED BY <2>1, <2>3, Zenon
<1>12. AreMsgs(Replies)
  BY Kinds
<1>13. ASSUME NEW u \in b PROVE OfUids(raw)[u] = <<Detok(u, g[u])>>
  <2>1. PICK k \in 1..n : s[k] = <<u, g[u]>>
    BY <1>6
  <2>2. s[k][1] = u
    BY <2>1
  <2>3. \A i \in 1..Len(raw) : raw[i].uid = u => i = k
    <3>1. ASSUME NEW i \in 1..n, raw[i].uid = u PROVE i = k
      <4>1. s[i][1] = u
        BY <1>11, <3>1
      <4>2. s[i] = s[k]
        BY <1>9, <2>1, <4>1, Zenon
      <4> QED BY <1>8, <4>2
    <3> QED BY <1>10, <3>1
  <2>4. k \in 1..Len(raw) /\ raw[k].uid = u /\ raw[k] = Detok(u, g[u]) /\ u \in Uids
    BY <1>10, <1>11, <2>2
  <2>5. OfUids(raw)[u] = <<raw[k]>>
    BY <1>10, <1>12, <2>3, <2>4, OwnOnce, Zenon
  <2> QED BY <2>4, <2>5, Zenon
<1>14. ASSUME NEW u \in Uids, u \notin b PROVE OfUids(raw)[u] = <<>>
  <2>1. \A i \in 1..Len(raw) : raw[i].uid # u
    BY <1>9, <1>10, <1>11, <1>14
  <2> QED BY <1>10, <1>12, <2>1, OwnNone, Zenon
<1>15. \A u \in Uids : InBatch(s, u) = IF u \in b THEN <<Detok(u, g[u])>> ELSE <<>>
  BY <1>13, <1>14, Zenon DEF InBatch, raw
<1>16. BatchIs(b, g, s)
  BY <1>8, <1>15, Zenon DEF BatchIs
<1> QED BY <1>16 DEF s

LEMMA GatheredTyped ==
  ASSUME StreamTypes, Shape, NEW o \in Orders
  PROVE  /\ FlattenSeq([i \in DOMAIN o |-> toBackend[o[i]]]) \in Seq(Seq(Plain))
         /\ FlattenSeq(FlattenSeq([i \in DOMAIN o |-> toBackend[o[i]]])) \in Seq(Plain)
<1> DEFINE seqs == [i \in DOMAIN o |-> toBackend[o[i]]]
           B == Seq(Plain)
<1>1. PICK n \in Nat : /\ o \in [1..n -> Tokenizers] /\ Tokenizers \subseteq Procs
  BY OrderParts
<1>2. \A p \in Procs : toBackend[p] \in Seq(B)
  <2>1. \A A, C : A \subseteq C => Seq(A) \subseteq Seq(C)
    OBVIOUS
  <2>2. Raws \subseteq Seq(Plain)
    BY Kinds
  <2>3. \A p \in Procs : toBackend[p] \in Seq(Raws)
    BY DEF StreamTypes, QueueTypes
  <2> QED BY <2>1, <2>2, <2>3, Zenon
<1>3. seqs \in Seq(Seq(B))
  <2>1. DOMAIN o = 1..n /\ \A i \in 1..n : o[i] \in Procs
    BY <1>1
  <2> HIDE DEF B
  <2> QED BY <1>2, <2>1
<1> HIDE DEF seqs
<1>4. FlattenSeq(seqs) \in Seq(B)
  BY <1>3, FlatType, Zenon
<1>5. FlattenSeq(FlattenSeq(seqs)) \in Seq(Plain)
  BY <1>4, FlatType, Zenon
<1> QED BY <1>4, <1>5 DEF seqs

(* What a round of rank 0 does: it takes the messages, and launches the    *)
(* next token of the requests it chooses.                                  *)
Launches(l, b) ==
  /\ IsLive(l) /\ b \subseteq DOMAIN l
  /\ live'[0] = [u \in DOMAIN l |-> IF u \in b THEN l[u] + 1 ELSE l[u]]
  /\ ongoing'[0] \in Seq(Pairs)
  /\ \A u \in Uids : InBatch(ongoing'[0], u) = IF u \in b THEN <<Detok(u, l[u] + 1)>> ELSE <<>>

OnlyFrom(q, u) == \A p \in Procs \ {q} : Own(toBackend[p], u) = <<>>
TakenFrom(q, u, l) ==
  /\ Fate(live[0], Own(toBackend[q], u), l, u)
  /\ u \in heard' => u \in heard \/ Holds(Own(toBackend[q], u), Ab(u))

LEMMA Rank0Takes ==
  ASSUME StreamInv, Shape, RecvRank0
  PROVE  /\ UNCHANGED <<cfgVars, frontVars, toTok, toDetok, toFront>>
         /\ toBackend' = [p \in Procs |-> <<>>] /\ heard \subseteq heard'
         /\ at'[0] = "process" /\ ongoing[0] = <<>> /\ data'[0] = data[0]
         /\ \E l, b : /\ Launches(l, b)
                      /\ \A u \in Uids, q \in Procs : OnlyFrom(q, u) => TakenFrom(q, u, l)
<1>1. StreamTypes /\ IsLive(live[0]) /\ 0 \in Ranks
  BY ServingAssumption DEF StreamInv, StreamTypes, RankTypes, IsLive
<1>2. PICK o \in Orders :
        LET raws == FlattenSeq([i \in DOMAIN o |-> toBackend[o[i]]]) IN
        /\ toBackend' = [p \in Procs |-> <<>>]
        /\ heard' = heard \cup {m.uid : m \in {x \in Range(FlattenSeq(raws)) : x.type = "abort"}}
        /\ Iterate(0, raws)
        /\ UNCHANGED <<cfgVars, frontVars, toTok, toDetok, toFront>>
  BY Zenon DEF RecvRank0
<1> DEFINE raws == FlattenSeq([i \in DOMAIN o |-> toBackend[o[i]]])
           R == FlattenSeq(raws)
<1>3. /\ toBackend' = [p \in Procs |-> <<>>]
      /\ heard' = heard \cup {m.uid : m \in {x \in Range(R) : x.type = "abort"}}
      /\ Iterate(0, raws)
      /\ UNCHANGED <<cfgVars, frontVars, toTok, toDetok, toFront>>
  BY <1>2
<1>4. R \in Seq(Plain)
  BY <1>1, GatheredTyped
<1>5. \A u \in Uids, q \in Procs : OnlyFrom(q, u) => OfUids(R)[u] = Own(toBackend[q], u)
  <2>1. ASSUME NEW u \in Uids, NEW q \in Procs, OnlyFrom(q, u)
        PROVE  Own(raws, u) = Own(toBackend[q], u)
    BY <1>1, <2>1, Gathered DEF OnlyFrom
  <2> HIDE DEF raws
  <2> QED BY <2>1 DEF Own
<1> HIDE DEF raws
<1>6. /\ at[0] = "receive" /\ at'[0] = "process"
      /\ State(0)' = Received(State(0), raws)
  BY <1>1, <1>3, IterateParts
<1> DEFINE l == Managers(live[0], raws)
           b == Chosen(l)
           g == [u \in b |-> l[u] + 1]
<1>7. IsLive(l) /\ \A u \in Uids : Fate(live[0], OfUids(R)[u], l, u)
  BY <1>1, <1>4, Fates DEF Managers
<1>8. b \subseteq DOMAIN l
  BY DEF Chosen
<1>9. /\ live'[0] = [u \in DOMAIN l |-> IF u \in b THEN l[u] + 1 ELSE l[u]]
      /\ data'[0] = data[0]
      /\ ongoing'[0] = SetToSeq({<<u, l[u] + 1>> : u \in b})
  <2> DEFINE s == State(0)
             t == State(0)'
  <2>1. /\ s.live = live[0] /\ s.data = data[0]
        /\ t.live = live'[0] /\ t.data = data'[0] /\ t.ongoing = ongoing'[0]
    BY DEF State
  <2>2. t = Received(s, raws)
    BY <1>6
  <2> HIDE DEF s, t
  <2>3. t = LET k == Managers(live[0], raws) IN
            [live    |-> [u \in DOMAIN k |-> IF u \in Chosen(k) THEN k[u] + 1 ELSE k[u]],
             data    |-> data[0],
             ongoing |-> SetToSeq({<<u, k[u] + 1>> : u \in Chosen(k)})]
    BY <2>1, <2>2, Zenon DEF Received
  <2> HIDE DEF l
  <2>4. t = [live    |-> [u \in DOMAIN l |-> IF u \in b THEN l[u] + 1 ELSE l[u]],
             data    |-> data[0],
             ongoing |-> SetToSeq({<<u, l[u] + 1>> : u \in b})]
    BY <2>3, Zenon DEF l
  <2> HIDE DEF b
  <2> QED BY <2>1, <2>4
<1>10. /\ ongoing'[0] \in Seq(Pairs)
       /\ \A u \in Uids : InBatch(ongoing'[0], u) = IF u \in b THEN <<Detok(u, l[u] + 1)>> ELSE <<>>
  <2>1. b \subseteq Uids /\ \A u \in b : g[u] \in Nat /\ g[u] = l[u] + 1
    BY <1>7, <1>8 DEF IsLive
  <2>2. {<<u, l[u] + 1>> : u \in b} = {<<u, g[u]>> : u \in b}
    OBVIOUS
  <2> HIDE DEF g, b, l
  <2>3. BatchIs(b, g, SetToSeq({<<u, g[u]>> : u \in b}))
    <3>1. b \subseteq Uids /\ \A u \in b : g[u] \in Nat
      BY <2>1
    <3> QED BY <3>1, BatchOf
  <2>4. BatchIs(b, g, ongoing'[0])
    BY <1>9, <2>2, <2>3, Zenon
  <2> QED BY <2>1, <2>4 DEF BatchIs
<1>11. Launches(l, b)
  BY <1>7, <1>8, <1>9, <1>10, Zenon DEF Launches
<1>12. \A u \in Uids : u \in heard' => u \in heard \/ Holds(OfUids(R)[u], Ab(u))
  <2> HIDE DEF R
  <2> SUFFICES ASSUME NEW u \in Uids, u \in heard', u \notin heard PROVE Holds(OfUids(R)[u], Ab(u))
    OBVIOUS
  <2>1. PICK k \in 1..Len(R) : R[k].type = "abort" /\ R[k].uid = u
    <3>1. PICK m \in Range(R) : m.type = "abort" /\ m.uid = u
      BY <1>3
    <3>2. PICK k \in DOMAIN R : m = R[k]
      BY <3>1 DEF Range
    <3>3. DOMAIN R = 1..Len(R)
      BY <1>4
    <3> QED BY <3>1, <3>2, <3>3
  <2>2. R[k] \in Plain
    BY <1>4
  <2>3. R[k] = Ab(u)
    BY <2>1, <2>2, Kinds
  <2>4. Holds(OfUids(R)[u], R[k])
    BY <1>4, <2>1, Kinds, OwnHas, Zenon
  <2> QED BY <2>3, <2>4, Zenon
<1>13. \A u \in Uids, q \in Procs : OnlyFrom(q, u) => TakenFrom(q, u, l)
  <2> HIDE DEF R, l
  <2> QED BY <1>5, <1>7, <1>12, Zenon DEF TakenFrom
<1>14. ongoing[0] = <<>>
  BY <1>1, <1>6 DEF StreamTypes, RankTypes
<1> QED BY <1>3, <1>6, <1>9, <1>11, <1>13, <1>14

(* Where a list of a request and its abort can be cut.                     *)
ShortIs(s) ==
  /\ Len(s) = 0 => s = <<>>
  /\ Len(s) = 1 => s = <<s[1]>>
  /\ Len(s) = 2 => s = <<s[1], s[2]>>
SplitLaw(x, y, t, a) ==
  /\ x \o y = <<>> => x = <<>> /\ y = <<>>
  /\ x \o y = <<t>> => x = <<>> \/ (x = <<t>> /\ y = <<>>)
  /\ x \o y = <<t, a>> => x = <<>> \/ (x = <<t>> /\ y = <<a>>) \/ (x = <<t, a>> /\ y = <<>>)

LEMMA Shorts ==
  \A S : \A s \in Seq(S) : ShortIs(s)
<1> SUFFICES ASSUME NEW S, NEW s \in Seq(S) PROVE ShortIs(s)
  BY Zenon
<1>1. Len(s) = 0 => s = <<>>
  OBVIOUS
<1>2. ASSUME Len(s) = 1 PROVE s = <<s[1]>>
  <2>1. s[1] \in S
    BY <1>2
  <2> DEFINE r == <<s[1]>>
  <2>2. r \in Seq(S) /\ Len(r) = 1 /\ r[1] = s[1]
    BY <2>1
  <2> HIDE DEF r
  <2>3. s = r
    BY <1>2, <2>2
  <2> QED BY <2>3 DEF r
<1>3. ASSUME Len(s) = 2 PROVE s = <<s[1], s[2]>>
  <2>1. s[1] \in S /\ s[2] \in S
    <3>1. 1 \in 1..Len(s) /\ 2 \in 1..Len(s)
      BY <1>3
    <3> QED BY <3>1
  <2> DEFINE r == <<s[1], s[2]>>
  <2>2. r \in Seq(S) /\ Len(r) = 2 /\ r[1] = s[1] /\ r[2] = s[2]
    BY <2>1
  <2> HIDE DEF r
  <2>3. s = r
    BY <1>3, <2>2
  <2> QED BY <2>3 DEF r
<1> QED BY <1>1, <1>2, <1>3, Zenon DEF ShortIs

LEMMA Splits ==
  \A S : \A x, y \in Seq(S) : \A t, a \in S : SplitLaw(x, y, t, a)
<1> SUFFICES ASSUME NEW S, NEW x \in Seq(S), NEW y \in Seq(S), NEW t \in S, NEW a \in S
             PROVE  SplitLaw(x, y, t, a)
  BY Zenon
<1> DEFINE z == x \o y
<1>1. /\ Len(z) = Len(x) + Len(y) /\ Len(x) \in Nat /\ Len(y) \in Nat
      /\ \A i \in 1..Len(x) : z[i] = x[i]
      /\ \A i \in 1..Len(y) : z[Len(x) + i] = y[i]
  BY JoinParts
<1>2. ShortIs(x) /\ ShortIs(y)
  BY Shorts, Zenon
<1>3. /\ Len(<<>>) = 0 /\ Len(<<t>>) = 1 /\ <<t>>[1] = t
      /\ Len(<<t, a>>) = 2 /\ <<t, a>>[1] = t /\ <<t, a>>[2] = a
  OBVIOUS
<1> HIDE DEF z
<1>4. ASSUME z = <<>> PROVE x = <<>> /\ y = <<>>
  <2>1. Len(x) = 0 /\ Len(y) = 0
    BY <1>1, <1>3, <1>4
  <2> QED BY <1>2, <2>1 DEF ShortIs
<1>5. ASSUME z = <<t>> PROVE x = <<>> \/ (x = <<t>> /\ y = <<>>)
  <2>1. Len(x) = 0 \/ (Len(x) = 1 /\ Len(y) = 0)
    BY <1>1, <1>3, <1>5
  <2>2. CASE Len(x) = 0
    BY <1>2, <2>2 DEF ShortIs
  <2>3. CASE Len(x) = 1 /\ Len(y) = 0
    <3>1. x[1] = t
      BY <1>1, <1>3, <1>5, <2>3
    <3>2. x = <<x[1]>> /\ y = <<>>
      BY <1>2, <2>3 DEF ShortIs
    <3> QED BY <3>1, <3>2, Zenon
  <2> QED BY <2>1, <2>2, <2>3
<1>6. ASSUME z = <<t, a>>
      PROVE  x = <<>> \/ (x = <<t>> /\ y = <<a>>) \/ (x = <<t, a>> /\ y = <<>>)
  <2>0. Len(z) = 2 /\ z[1] = t /\ z[2] = a
    BY <1>3, <1>6, Zenon
  <2>1. Len(x) = 0 \/ (Len(x) = 1 /\ Len(y) = 1) \/ (Len(x) = 2 /\ Len(y) = 0)
    <3>1. \A i, j \in Nat : i + j = 2 => i = 0 \/ (i = 1 /\ j = 1) \/ (i = 2 /\ j = 0)
      OBVIOUS
    <3>2. Len(x) \in Nat /\ Len(y) \in Nat /\ Len(x) + Len(y) = 2
      BY <1>1, <2>0, Zenon
    <3> QED BY <3>1, <3>2, Zenon
  <2>2. CASE Len(x) = 0
    BY <1>2, <2>2 DEF ShortIs
  <2>3. CASE Len(x) = 1 /\ Len(y) = 1
    <3>1. x[1] = t /\ y[1] = a
      BY <1>1, <2>0, <2>3
    <3>2. x = <<x[1]>> /\ y = <<y[1]>>
      BY <1>2, <2>3 DEF ShortIs
    <3> QED BY <3>1, <3>2, Zenon
  <2>4. CASE Len(x) = 2 /\ Len(y) = 0
    <3>1. x[1] = t /\ x[2] = a
      BY <1>1, <2>0, <2>4
    <3>2. x = <<x[1], x[2]>> /\ y = <<>>
      BY <1>2, <2>4 DEF ShortIs
    <3> QED BY <3>1, <3>2, Zenon
  <2> QED BY <2>1, <2>2, <2>3, <2>4
<1> QED BY <1>4, <1>5, <1>6, Zenon DEF SplitLaw, z

LEMMA EndsAndHolds ==
  ASSUME NEW t, NEW a, t # a
  PROVE  /\ EndsWith(<<t>>, t) /\ EndsWith(<<a>>, a) /\ EndsWith(<<t, a>>, a)
         /\ ~Holds(<<>>, a) /\ ~Holds(<<t>>, a)
<1>1. EndsWith(<<t>>, t) /\ EndsWith(<<a>>, a) /\ EndsWith(<<t, a>>, a)
  BY DEF EndsWith
<1>2. ~Holds(<<>>, a) /\ ~Holds(<<t>>, a)
  BY DEF Holds
<1> QED BY <1>1, <1>2

(* What of u is on its way to rank 0 before and after a round that takes   *)
(* x of it.                                                                *)
LEMMA PathsAfter ==
  ASSUME StreamTypes, toBackend' = [p \in Procs |-> <<>>], UNCHANGED <<cfgVars, toTok>>,
         NEW u \in Uids, NEW q \in Procs, OnlyFrom(q, u)
  PROVE  /\ Procs' = Procs
         /\ \A p \in Procs : Path(p, u)' = Own(toTok[p], u)
         /\ \A p \in Procs \ {q} : Path(p, u)' = Path(p, u)
         /\ Own(toBackend[q], u) = <<>> => \A p \in Procs : Path(p, u)' = Path(p, u)
         /\ SplitLaw(Own(toBackend[q], u), Path(q, u)', Tok(u), Ab(u))
         /\ SplitLaw(Own(toBackend[q], u), Path(q, u)', Ab(u), Tok(u))
         /\ Path(q, u) = Own(toBackend[q], u) \o Path(q, u)'
<1>1. Own(<<>>, u) = <<>> /\ AreMsgs(Plain)
  BY Kinds, OwnQueue, Zenon
<1>2. Procs' = Procs
  BY DEF Procs
<1>3. ASSUME NEW p \in Procs PROVE Path(p, u)' = Own(toTok[p], u) /\ Own(toTok[p], u) \in Seq(Plain)
  <2>1. Own(toTok[p], u) \in Seq(Plain)
    BY PathTyped
  <2>2. Path(p, u)' = Own(<<>>, u) \o Own(toTok[p], u)
    <3>1. toBackend'[p] = <<>> /\ toTok' = toTok
      OBVIOUS
    <3> QED BY <3>1, Zenon DEF Path, Own
  <2>3. NoneFirst(Own(toTok[p], u))
    BY <2>1, QueueLaws, Zenon
  <2> QED BY <1>1, <2>1, <2>2, <2>3, Zenon DEF NoneFirst
<1>4. ASSUME NEW p \in Procs, Own(toBackend[p], u) = <<>> PROVE Path(p, u)' = Path(p, u)
  <2>1. NoneFirst(Own(toTok[p], u))
    BY <1>3, QueueLaws, Zenon
  <2> QED BY <1>3, <1>4, <2>1, Zenon DEF NoneFirst, Path
<1>5. Own(toBackend[q], u) \in Seq(Plain) /\ Path(q, u)' \in Seq(Plain)
  BY <1>3, PathTyped
<1>6. Tok(u) \in Plain /\ Ab(u) \in Plain
  BY Kinds
<1>7. SplitLaw(Own(toBackend[q], u), Path(q, u)', Tok(u), Ab(u))
  BY <1>5, <1>6, Splits
<1>8. SplitLaw(Own(toBackend[q], u), Path(q, u)', Ab(u), Tok(u))
  BY <1>5, <1>6, Splits
<1>9. \A p \in Procs \ {q} : Path(p, u)' = Path(p, u)
  BY <1>4 DEF OnlyFrom
<1>10. Own(toBackend[q], u) = <<>> => \A p \in Procs : Path(p, u)' = Path(p, u)
  BY <1>4, <1>9
<1> QED BY <1>2, <1>3, <1>7, <1>8, <1>9, <1>10, Zenon DEF Path

GrowsLast(e, f, g, k) == e \o (f \o (g \o <<k>>)) = Append(e \o (f \o (g \o <<>>)), k)

LEMMA GrowLast ==
  \A S : \A e, f, g \in Seq(S) : \A k \in S : GrowsLast(e, f, g, k)
BY DEF GrowsLast

(* A request that is not aborted, in a round of rank 0.                    *)
LEMMA Rank0Whole ==
  ASSUME StreamTypes, NEW u \in Uids, Journey(u), coro[u] # "aborted",
         UNCHANGED <<cfgVars, frontVars, toTok, toDetok, toFront>>,
         toBackend' = [p \in Procs |-> <<>>], ongoing[0] = <<>>, data'[0] = data[0],
         NEW l, NEW b, Launches(l, b),
         \A q \in Procs : OnlyFrom(q, u) => TakenFrom(q, u, l)
  PROVE  Journey(u)'
<1>1. PICK q \in Procs : /\ OnlyFrom(q, u)
                         /\ \/ Own(toBackend[q], u) = <<>>
                            \/ Own(toBackend[q], u) = <<Tok(u)>> /\ Path(q, u) = <<Tok(u)>>
                               /\ Path(q, u)' = <<>> /\ \A p \in Procs \ {q} : Path(p, u) = <<>>
  <2>1. \A p \in Procs : Path(p, u) \in {<<>>, <<Tok(u)>>}
    BY DEF Journey, SentOnce
  <2>2. ASSUME NEW p \in Procs, Path(p, u) = <<>> PROVE Own(toBackend[p], u) = <<>>
    <3>1. Own(toBackend[p], u) \in Seq(Plain) /\ Own(toTok[p], u) \in Seq(Plain)
      BY PathTyped
    <3>2. BothEmpty(Own(toBackend[p], u), Own(toTok[p], u))
      BY <3>1, QueueLaws, Zenon
    <3> QED BY <2>2, <3>2, Zenon DEF BothEmpty, Path
  <2>3. CASE \A p \in Procs : Path(p, u) = <<>>
    <3>1. 0 \in Procs
      BY ServingAssumption DEF Procs
    <3>2. OnlyFrom(0, u) /\ Own(toBackend[0], u) = <<>>
      BY <2>2, <2>3, <3>1 DEF OnlyFrom
    <3> QED BY <3>1, <3>2
  <2>4. ASSUME NEW q \in Procs, Path(q, u) # <<>>
        PROVE  \E p \in Procs : /\ OnlyFrom(p, u)
                 /\ \/ Own(toBackend[p], u) = <<>>
                    \/ Own(toBackend[p], u) = <<Tok(u)>> /\ Path(p, u) = <<Tok(u)>>
                       /\ Path(p, u)' = <<>> /\ \A r \in Procs \ {p} : Path(r, u) = <<>>
    <3>1. \A r \in Procs \ {q} : Path(r, u) = <<>>
      BY <2>4 DEF Journey, SentOnce
    <3>2. OnlyFrom(q, u)
      BY <2>2, <3>1 DEF OnlyFrom
    <3>3. /\ SplitLaw(Own(toBackend[q], u), Path(q, u)', Tok(u), Ab(u))
          /\ Path(q, u) = Own(toBackend[q], u) \o Path(q, u)'
      BY <3>2, PathsAfter
    <3>4. Path(q, u) = <<Tok(u)>>
      BY <2>1, <2>4, Zenon
    <3>5. \/ Own(toBackend[q], u) = <<>>
          \/ Own(toBackend[q], u) = <<Tok(u)>> /\ Path(q, u)' = <<>>
      BY <3>3, <3>4, Zenon DEF SplitLaw
    <3> QED BY <3>1, <3>2, <3>4, <3>5, Zenon
  <2> QED BY <2>3, <2>4
<1> DEFINE x == Own(toBackend[q], u)
<1>2. /\ Procs' = Procs /\ \A p \in Procs \ {q} : Path(p, u)' = Path(p, u)
      /\ x = <<>> => \A p \in Procs : Path(p, u)' = Path(p, u)
  BY <1>1, PathsAfter
<1>3. TakenFrom(q, u, l) /\ x \in {<<>>, <<Tok(u)>>} /\ Tok(u) # Ab(u)
  BY <1>1, Kinds
<1>4. EndsWith(<<Tok(u)>>, Tok(u)) /\ ~Holds(<<>>, Ab(u)) /\ ~Holds(<<Tok(u)>>, Ab(u))
  BY <1>3, EndsAndHolds
<1>5. u \notin heard'
  <2>1. u \notin heard
    BY DEF Journey, SentOnce
  <2> QED BY <1>3, <1>4, <2>1, Zenon DEF TakenFrom
<1>6. /\ x = <<>> => Same(live[0], l, u)
      /\ x = <<Tok(u)>> => \/ u \in DOMAIN l /\ l[u] = 0
                           \/ u \in DOMAIN live[0] \/ u \notin DOMAIN l
  BY <1>3, <1>4, Zenon DEF TakenFrom, Fate
<1>7. /\ coro' = coro /\ acks' = acks /\ ackMap' = ackMap /\ got' = got /\ held' = held
      /\ style' = style /\ tokenizers' = tokenizers /\ Told(u)' = Told(u) /\ Acked(u)' = Acked(u)
  BY DEF frontVars, cfgVars, Told, Acked
<1>8. Path(q, u)' = <<>> \/ \A p \in Procs : Path(p, u)' = Path(p, u)
  BY <1>1, <1>2
<1> HIDE DEF x
<1>9. (\E p \in Procs : Path(p, u)' # <<>>) => x = <<>>
  BY <1>1, <1>2 DEF x
<1>10. /\ \A p \in Procs : Path(p, u)' \in {<<>>, Path(p, u)}
  BY <1>1, <1>2 DEF x
<1>11. SentOnce(u)'
  <2>1. \A p \in Procs : Path(p, u)' \in {<<>>, <<Tok(u)>>}
    BY <1>10 DEF Journey, SentOnce
  <2>2. \A p, r \in Procs : Path(p, u)' # <<>> /\ Path(r, u)' # <<>> => p = r
    BY <1>10 DEF Journey, SentOnce
  <2> QED BY <1>2, <1>5, <2>1, <2>2 DEF SentOnce
<1>12. AbortLast(u)'
  <2>1. \A p \in Procs : Path(p, u)' \in {<<>>, <<Tok(u)>>}
    BY <1>10 DEF Journey, SentOnce
  <2> QED BY <1>2, <1>5, <2>1 DEF AbortLast
<1>13. Complete(u)'
  BY <1>7 DEF Complete, Journey
<1>14. /\ u \in b \/ Coming(u)' = Coming(u)
       /\ u \in b => Coming(u)' = Append(Coming(u), Detok(u, l[u] + 1))
       /\ l[u] \in Nat \/ u \notin DOMAIN l
       /\ u \in b => u \in DOMAIN l
       /\ DOMAIN live'[0] = DOMAIN l
       /\ u \in DOMAIN l => live'[0][u] = IF u \in b THEN l[u] + 1 ELSE l[u]
  <2>1. /\ b \subseteq DOMAIN l /\ IsLive(l)
        /\ live'[0] = [v \in DOMAIN l |-> IF v \in b THEN l[v] + 1 ELSE l[v]]
        /\ InBatch(ongoing'[0], u) = IF u \in b THEN <<Detok(u, l[u] + 1)>> ELSE <<>>
    BY DEF Launches
  <2>2. l[u] \in Nat \/ u \notin DOMAIN l
    BY <2>1 DEF IsLive
  <2> DEFINE d == InBatch(data[0], u)
             a == acks[u] \o Acked(u)
             c == Queued(u)
  <2>3. d \in Mine(u) /\ a \in Mine(u) /\ c \in Mine(u) /\ InBatch(ongoing[0], u) = <<>>
    <3>1. InBatch(ongoing[0], u) = <<>>
      BY BatchTyped DEF StreamTypes, RankTypes
    <3> QED BY <3>1, Pieces, Zenon
  <2>4. Queued(u)' = c
    BY Zenon DEF Queued, Own
  <2>5. InBatch(data'[0], u) = d
    BY Zenon
  <2>6. Coming(u) = a \o (c \o (d \o <<>>))
    BY <2>3, Zenon DEF Coming, Launched
  <2>7. Coming(u)' = a \o (c \o (d \o InBatch(ongoing'[0], u)))
    <3>1. Launched(u)' = d \o InBatch(ongoing'[0], u)
      BY <2>5, Zenon DEF Launched, InBatch, Reply, Detok
    <3> QED BY <1>7, <2>4, <3>1, Zenon DEF Coming
  <2>8. u \notin b => Coming(u)' = Coming(u)
    BY <2>1, <2>6, <2>7, Zenon
  <2>9. u \in b => Coming(u)' = Append(Coming(u), Detok(u, l[u] + 1))
    <3> SUFFICES ASSUME u \in b PROVE Coming(u)' = Append(Coming(u), Detok(u, l[u] + 1))
      OBVIOUS
    <3> DEFINE m == Detok(u, l[u] + 1)
               S == MsgsOf(Replies, u)
    <3>1. m \in S
      BY <2>1, <2>2, Kinds
    <3>2. Coming(u)' = a \o (c \o (d \o <<m>>))
      BY <2>1, <2>7, Zenon
    <3>3. d \in Seq(S) /\ a \in Seq(S) /\ c \in Seq(S)
      BY <2>3 DEF Mine
    <3> HIDE DEF m, S, a, c, d
    <3>4. GrowsLast(a, c, d, m)
      BY <3>1, <3>3, GrowLast, Zenon
    <3>5. a \o (c \o (d \o <<m>>)) = Append(a \o (c \o (d \o <<>>)), m)
      BY <3>4, Zenon DEF GrowsLast
    <3> QED BY <2>6, <3>2, <3>5, Zenon DEF m
  <2> QED BY <2>1, <2>2, <2>8, <2>9, Zenon
<1>15. Unsent(u)'
  <2> SUFFICES ASSUME coro[u] = "none"
               PROVE  /\ u \notin DOMAIN live'[0] /\ got[u] = <<>> /\ held[u] = <<>>
                      /\ Coming(u)' = <<>> /\ \A p \in Procs : Path(p, u)' = <<>>
    BY <1>2, <1>7 DEF Unsent
  <2>1. /\ u \notin DOMAIN live[0] /\ got[u] = <<>> /\ held[u] = <<>> /\ Coming(u) = <<>>
        /\ \A p \in Procs : Path(p, u) = <<>>
    BY DEF Journey, Unsent
  <2>2. x = <<>>
    <3>1. <<Tok(u)>> # <<>>
      OBVIOUS
    <3> QED BY <1>1, <2>1, <3>1, Zenon DEF x
  <2>3. u \notin DOMAIN l
    BY <1>6, <2>1, <2>2 DEF Same
  <2> QED BY <1>10, <1>14, <2>1, <2>3
<1>16. Whole(u)'
  <2> SUFFICES ASSUME coro[u] \in {"waiting", "yielding"} PROVE Whole(u)'
    BY <1>7 DEF Whole
  <2>1. /\ u \in DOMAIN ackMap
        /\ coro[u] = "yielding" <=> acks[u] # <<>>
        /\ style[u] # "text" => held[u] = <<>>
        /\ \A i \in 1..Len(Told(u)) : Told(u)[i] = i
        /\ \A i \in 1..Len(Coming(u)) : Coming(u)[i] = Detok(u, Len(Told(u)) + i)
        /\ u \in DOMAIN live[0] => live[0][u] = Len(Told(u)) + Len(Coming(u))
        /\ (\E p \in Procs : Path(p, u) # <<>>) =>
             Told(u) = <<>> /\ Coming(u) = <<>> /\ u \notin DOMAIN live[0]
    BY DEF Journey, Whole
  <2>2. x = <<Tok(u)>> => Told(u) = <<>> /\ Coming(u) = <<>> /\ u \notin DOMAIN live[0]
    <3>1. <<Tok(u)>> # <<>>
      OBVIOUS
    <3> QED BY <1>1, <2>1, <3>1, Zenon DEF x
  <2>3. u \in DOMAIN l => l[u] = Len(Told(u)) + Len(Coming(u))
    <3>1. CASE x = <<>>
      BY <1>6, <2>1, <3>1 DEF Same
    <3>2. CASE x = <<Tok(u)>>
      <4>1. Len(Told(u)) = 0 /\ Len(Coming(u)) = 0
        BY <2>2, <3>2
      <4> QED BY <1>6, <2>2, <3>2, <4>1
    <3> QED BY <1>3, <3>1, <3>2 DEF x
  <2>4. (\E p \in Procs : Path(p, u)' # <<>>) =>
             Told(u) = <<>> /\ Coming(u) = <<>> /\ u \notin DOMAIN l
    <3>1. (\E p \in Procs : Path(p, u)' # <<>>) => x = <<>> /\ \E p \in Procs : Path(p, u) # <<>>
      BY <1>9, <1>10
    <3> QED BY <1>6, <2>1, <3>1 DEF Same
  <2>5. Coming(u) \in Seq(MsgsOf(Replies, u)) /\ Len(Told(u)) \in Nat
    <3>1. Coming(u) \in Mine(u) /\ Told(u) \in Seq(Nat)
      BY Pieces
    <3>2. \A s \in Seq(Nat) : Len(s) \in Nat
      OBVIOUS
    <3> QED BY <3>1, <3>2, Zenon DEF Mine
  <2> DEFINE n == Len(Told(u))
             c == Coming(u)
             k == Coming(u)'
  <2>6. /\ \A i \in 1..Len(k) : k[i] = Detok(u, n + i)
        /\ u \in DOMAIN live'[0] => live'[0][u] = n + Len(k)
    <3>1. /\ u \in b \/ k = c
          /\ u \in b => k = Append(c, Detok(u, l[u] + 1))
          /\ \A i \in 1..Len(c) : c[i] = Detok(u, n + i)
          /\ u \in DOMAIN l => l[u] = n + Len(c)
          /\ c \in Seq(MsgsOf(Replies, u)) /\ n \in Nat
      BY <1>14, <2>1, <2>3, <2>5
    <3> HIDE DEF k, c, n
    <3>2. CASE u \notin b
      BY <1>14, <3>1, <3>2
    <3>3. CASE u \in b
      <4>1. u \in DOMAIN l /\ l[u] = n + Len(c) /\ l[u] \in Nat /\ k = Append(c, Detok(u, l[u] + 1))
        BY <1>14, <3>1, <3>3
      <4>2. Detok(u, l[u] + 1) \in MsgsOf(Replies, u)
        BY <4>1, Kinds
      <4>3. /\ Len(k) = Len(c) + 1 /\ \A i \in 1..Len(c) : k[i] = c[i]
            /\ k[Len(c) + 1] = Detok(u, l[u] + 1) /\ Len(c) \in Nat
        BY <3>1, <4>1, <4>2
      <4>4. ASSUME NEW i \in 1..Len(k) PROVE k[i] = Detok(u, n + i)
        <5>1. CASE i \in 1..Len(c)
          BY <3>1, <4>3, <5>1
        <5>2. CASE i = Len(c) + 1
          <6>1. l[u] + 1 = n + i
            BY <3>1, <4>1, <4>3, <5>2
          <6> QED BY <4>3, <5>2, <6>1
        <5> QED BY <4>3, <5>1, <5>2
      <4>5. u \in DOMAIN live'[0] => live'[0][u] = n + Len(k)
        BY <1>14, <3>1, <3>3, <4>1, <4>3
      <4> QED BY <4>4, <4>5
    <3> QED BY <3>2, <3>3
  <2>7. (\E p \in Procs : Path(p, u)' # <<>>) =>
             Told(u) = <<>> /\ Coming(u)' = <<>> /\ u \notin DOMAIN live'[0]
    BY <1>14, <2>4
  <2> QED BY <1>2, <1>7, <2>1, <2>6, <2>7 DEF Whole
<1> QED BY <1>11, <1>12, <1>13, <1>15, <1>16 DEF Journey

(* A request that is aborted, in a round of rank 0.                        *)
LEMMA Rank0Aborts ==
  ASSUME StreamTypes, Shape, NEW u \in Uids, Journey(u), coro[u] = "aborted",
         UNCHANGED <<cfgVars, frontVars, toTok>>, toBackend' = [p \in Procs |-> <<>>],
         NEW l, NEW b, Launches(l, b),
         \A q \in Procs : OnlyFrom(q, u) => TakenFrom(q, u, l)
  PROVE  Journey(u)'
<1>1. coro'[u] = "aborted" /\ tokenizers' = tokenizers /\ Procs' = Procs
  BY DEF frontVars, cfgVars, Procs
<1>2. DOMAIN live'[0] = DOMAIN l
  BY DEF Launches
<1>3. AbortLast(u)'
  <2> SUFFICES ASSUME tokenizers <= 1
               PROVE  /\ u \in heard' => u \notin DOMAIN l /\ \A p \in Procs : Path(p, u)' = <<>>
                      /\ \A p \in Procs : Path(p, u)' \in {<<>>, <<Tok(u)>>, <<Ab(u)>>, <<Tok(u), Ab(u)>>}
    BY <1>1, <1>2 DEF AbortLast
  <2>1. /\ u \in heard => u \notin DOMAIN live[0] /\ \A p \in Procs : Path(p, u) = <<>>
        /\ \A p \in Procs : Path(p, u) \in {<<>>, <<Tok(u)>>, <<Ab(u)>>, <<Tok(u), Ab(u)>>}
    BY DEF Journey, AbortLast
  <2>2. PICK q \in Procs : \A p \in Procs \ {q} : p \notin Tokenizers
    <3>1. tokenizers = 0 \/ tokenizers = 1
      BY ServingAssumption DEF Shape
    <3>2. CASE tokenizers = 0
      BY <3>2, ServingAssumption DEF Tokenizers, Procs
    <3>3. CASE tokenizers = 1
      BY <3>3, ServingAssumption DEF Tokenizers, Procs, Shape
    <3> QED BY <3>1, <3>2, <3>3
  <2>3. OnlyFrom(q, u) /\ \A p \in Procs \ {q} : Path(p, u) = <<>>
    BY <2>2, PathTyped DEF OnlyFrom
  <2> DEFINE x == Own(toBackend[q], u)
             y == Path(q, u)'
             t == Tok(u)
             a == Ab(u)
  <2>4. /\ \A p \in Procs \ {q} : Path(p, u)' = Path(p, u)
        /\ SplitLaw(x, y, t, a) /\ SplitLaw(x, y, a, t) /\ Path(q, u) = x \o y
    BY <2>3, PathsAfter
  <2>5. TakenFrom(q, u, l) /\ t # a
    BY <2>3, Kinds
  <2>6. EndsWith(<<a>>, a) /\ EndsWith(<<t, a>>, a) /\ ~Holds(<<>>, a) /\ ~Holds(<<t>>, a)
    BY <2>5, EndsAndHolds
  <2>7. x \o y \in {<<>>, <<t>>, <<a>>, <<t, a>>}
    BY <2>1, <2>4
  <2>8. /\ EndsWith(x, a) => u \notin DOMAIN l
        /\ x = <<>> /\ u \notin DOMAIN live[0] => u \notin DOMAIN l
        /\ u \in heard' => u \in heard \/ Holds(x, a)
    BY <2>5, Zenon DEF TakenFrom, Fate, Same
  <2> HIDE DEF x, y, t, a
  <2>9. \/ x = <<>> /\ y = x \o y
        \/ x = <<t>> /\ y \in {<<>>, <<a>>}
        \/ x \in {<<a>>, <<t, a>>} /\ y = <<>>
    <3>1. x = <<>> => y = x \o y
      <4>1. NoneFirst(y)
        <5>1. Path(q, u)' \in Seq(Plain)
          BY <2>3, PathsAfter, PathTyped
        <5> QED BY <5>1, QueueLaws, Zenon DEF y
      <4> QED BY <4>1, Zenon DEF NoneFirst
    <3> QED BY <2>4, <2>7, <3>1, Zenon DEF SplitLaw
  <2>10. y \in {<<>>, <<t>>, <<a>>, <<t, a>>}
    BY <2>7, <2>9, Zenon
  <2>11. ASSUME u \in heard' PROVE u \notin DOMAIN l /\ y = <<>>
    <3>1. CASE u \in heard
      <4>1. u \notin DOMAIN live[0] /\ x \o y = <<>>
        BY <2>1, <2>4, <3>1, Zenon
      <4>2. x = <<>> /\ y = <<>>
        BY <2>4, <4>1, Zenon DEF SplitLaw
      <4> QED BY <2>8, <4>1, <4>2
    <3>2. CASE Holds(x, a)
      <4>1. x # <<>> /\ x # <<t>>
        BY <2>6, <3>2, Zenon
      <4>2. x \in {<<a>>, <<t, a>>} /\ y = <<>>
        BY <2>9, <4>1, Zenon
      <4> QED BY <2>6, <2>8, <4>2, Zenon
    <3> QED BY <2>8, <2>11, <3>1, <3>2
  <2>12. ASSUME NEW p \in Procs
         PROVE  /\ u \in heard' => Path(p, u)' = <<>>
                /\ Path(p, u)' \in {<<>>, <<t>>, <<a>>, <<t, a>>}
    <3>1. CASE p = q
      BY <2>10, <2>11, <3>1, Zenon DEF y
    <3>2. CASE p # q
      <4>1. Path(p, u)' = <<>>
        BY <2>3, <2>4, <3>2
      <4> QED BY <4>1, Zenon
    <3> QED BY <3>1, <3>2
  <2> QED BY <2>11, <2>12 DEF t, a
<1>4. "aborted" \notin {"none", "waiting", "yielding", "ending", "done"}
  OBVIOUS
<1>5. SentOnce(u)' /\ Unsent(u)' /\ Whole(u)' /\ Complete(u)'
  BY <1>1, <1>4 DEF SentOnce, Unsent, Whole, Complete
<1> QED BY <1>3, <1>5 DEF Journey

LEMMA Rank0Keeps ==
  ASSUME StreamInv, Shape, RecvRank0
  PROVE  StreamInv'
<1>1. StreamTypes /\ \A u \in Uids : Journey(u)
  BY DEF StreamInv
<1>2. /\ UNCHANGED <<cfgVars, frontVars, toTok, toDetok, toFront>>
      /\ toBackend' = [p \in Procs |-> <<>>] /\ at'[0] = "process"
      /\ ongoing[0] = <<>> /\ data'[0] = data[0]
  BY Rank0Takes
<1>3. PICK l, b : /\ Launches(l, b)
                  /\ \A u \in Uids, q \in Procs : OnlyFrom(q, u) => TakenFrom(q, u, l)
  BY Rank0Takes
<1>4. ASSUME NEW u \in Uids PROVE Journey(u)'
  <2>1. CASE coro[u] = "aborted"
    BY <1>1, <1>2, <1>3, <2>1, Rank0Aborts
  <2>2. CASE coro[u] # "aborted"
    BY <1>1, <1>2, <1>3, <2>2, Rank0Whole
  <2> QED BY <2>1, <2>2
<1>5. Tokenizers' = Tokenizers /\ Procs' = Procs
  BY <1>2 DEF cfgVars, Tokenizers, Procs
<1>6. QueueTypes'
  <2>1. toBackend' \in [Procs -> Seq(Raws)]
    <3>1. <<>> \in Seq(Raws)
      OBVIOUS
    <3> QED BY <1>2, <3>1
  <2>2. \A p \in Procs : toBackend'[p] = <<>>
    BY <1>2
  <2> QED BY <1>1, <1>2, <1>5, <2>1, <2>2 DEF StreamTypes, QueueTypes
<1>7. FrontTypes'
  BY <1>1, <1>2 DEF StreamTypes, FrontTypes, frontVars, cfgVars
<1>8. RankTypes'
  <2>1. DOMAIN live'[0] \subseteq Uids /\ \A u \in DOMAIN live'[0] : live'[0][u] \in Nat
    BY <1>3 DEF Launches, IsLive
  <2>2. ongoing'[0] \in Seq(Pairs) /\ data'[0] \in Seq(Pairs)
    BY <1>1, <1>2, <1>3 DEF Launches, StreamTypes, RankTypes
  <2> QED BY <1>2, <2>1, <2>2 DEF RankTypes
<1> QED BY <1>4, <1>6, <1>7, <1>8 DEF StreamInv, StreamTypes

-----------------------------------------------------------------------------
(* What is in flight, from the invariant.                                  *)

NumberedFrom(m, u, n) == \A i \in 1..Len(m) : m[i] = Detok(u, n + i)

(* Two lists numbered on are each numbered, and the second on from the     *)
(* first.                                                                  *)
LEMMA NumberedParts ==
  ASSUME NEW u, NEW S, NEW x \in Seq(S), NEW y \in Seq(S), NEW n \in Nat,
         NumberedFrom(x \o y, u, n)
  PROVE  NumberedFrom(x, u, n) /\ NumberedFrom(y, u, n + Len(x)) /\ n + Len(x) \in Nat
<1> DEFINE z == x \o y
<1>1. /\ Len(z) = Len(x) + Len(y) /\ Len(x) \in Nat /\ Len(y) \in Nat
      /\ \A i \in 1..Len(x) : z[i] = x[i]
      /\ \A i \in 1..Len(y) : z[Len(x) + i] = y[i]
  BY JoinParts
<1>2. \A i \in 1..Len(z) : z[i] = Detok(u, n + i)
  BY DEF NumberedFrom
<1> HIDE DEF z
<1>3. NumberedFrom(x, u, n)
  BY <1>1, <1>2 DEF NumberedFrom
<1>4. ASSUME NEW i \in 1..Len(y) PROVE y[i] = Detok(u, n + Len(x) + i)
  <2>1. Len(x) + i \in 1..Len(z) /\ n + (Len(x) + i) = n + Len(x) + i
    BY <1>1
  <2>2. z[Len(x) + i] = Detok(u, n + (Len(x) + i))
    BY <1>2, <2>1
  <2> QED BY <1>1, <2>1, <2>2
<1>5. NumberedFrom(y, u, n + Len(x))
  BY <1>4, Zenon DEF NumberedFrom
<1>6. n + Len(x) \in Nat
  BY <1>1
<1> QED BY <1>3, <1>5, <1>6

(* Their tokens after the tokens before them.                              *)
CountedTo(s, n) == s \in Seq(Nat) /\ Counts(s) /\ Len(s) = n

LEMMA TokensCount ==
  ASSUME NEW u \in Uids, NEW s, NEW n \in Nat, CountedTo(s, n), NEW m \in Mine(u),
         NumberedFrom(m, u, n)
  PROVE  CountedTo(s \o Tokens(m), n + Len(m))
<1> DEFINE t == Tokens(m)
           z == s \o t
<1>1. m \in Seq(MsgsOf(Replies, u)) /\ Len(m) \in Nat /\ DOMAIN m = 1..Len(m)
  BY DEF Mine
<1>2. \A i \in 1..Len(m) : Detok(u, n + i).token = n + i
  BY DEF Detok
<1>3. t = [i \in 1..Len(m) |-> n + i]
  <2>1. \A i \in 1..Len(m) : m[i].token = n + i
    BY <1>2 DEF NumberedFrom
  <2> QED BY <1>1, <2>1 DEF Tokens
<1>4. t \in Seq(Nat) /\ Len(t) = Len(m) /\ \A i \in 1..Len(m) : t[i] = n + i
  BY <1>1, <1>3
<1>5. s \in Seq(Nat) /\ Len(s) = n /\ \A i \in 1..n : s[i] = i
  BY DEF CountedTo, Counts
<1> HIDE DEF t
<1>6. /\ z \in Seq(Nat) /\ Len(z) = n + Len(m)
      /\ \A i \in 1..n : z[i] = s[i]
      /\ \A i \in 1..Len(m) : z[n + i] = t[i]
  <2>1. t \in Seq(Nat) /\ s \in Seq(Nat)
    BY <1>4, <1>5
  <2>2. /\ z \in Seq(Nat) /\ Len(z) = Len(s) + Len(t)
        /\ \A i \in 1..Len(s) : z[i] = s[i]
        /\ \A i \in 1..Len(t) : z[Len(s) + i] = t[i]
    BY <2>1, JoinParts
  <2> HIDE DEF z
  <2> QED BY <1>4, <1>5, <2>2, Zenon
<1> HIDE DEF z
<1>7. ASSUME NEW i \in 1..Len(z) PROVE z[i] = i
  <2>1. CASE i \in 1..n
    BY <1>5, <1>6, <2>1
  <2>2. CASE i \notin 1..n
    <3>1. i - n \in 1..Len(m) /\ n + (i - n) = i
      BY <1>1, <1>6, <2>2
    <3>2. z[n + (i - n)] = t[i - n] /\ t[i - n] = n + (i - n)
      BY <1>4, <1>6, <3>1, Zenon
    <3> QED BY <3>1, <3>2
  <2> QED BY <2>1, <2>2
<1> QED BY <1>6, <1>7 DEF CountedTo, Counts, z, t

LEMMA InFlightCounts ==
  ASSUME StreamInv, NEW u \in Uids, coro[u] \in {"waiting", "yielding"}
  PROVE  \A i \in DOMAIN InFlight(u) : InFlight(u)[i] = i
<1> DEFINE a == acks[u]
           b == Acked(u)
           c == Own(toFront[0], u)
           d == Own(toDetok, u)
           n == Len(Told(u))
<1>1. StreamTypes /\ Whole(u)
  BY DEF StreamInv, Journey
<1>2. /\ a \in Mine(u) /\ b \in Mine(u) /\ c \in Mine(u) /\ d \in Mine(u)
      /\ Launched(u) \in Mine(u) /\ Queued(u) \in Mine(u)
      /\ a \o b \in Mine(u) /\ Queued(u) \o Launched(u) \in Mine(u) /\ Told(u) \in Seq(Nat)
  BY <1>1, Pieces
<1>3. n \in Nat /\ CountedTo(Told(u), n)
  BY <1>1, <1>2 DEF Whole, CountedTo, Counts
<1>4. NumberedFrom((a \o b) \o (Queued(u) \o Launched(u)), u, n)
  BY <1>1, Zenon DEF Whole, NumberedFrom, Coming
<1> HIDE DEF n
<1>5. /\ NumberedFrom(a \o b, u, n)
      /\ NumberedFrom(Queued(u) \o Launched(u), u, n + Len(a \o b)) /\ n + Len(a \o b) \in Nat
  BY <1>2, <1>3, <1>4, NumberedParts, Zenon DEF Mine
<1>6. NumberedFrom(Queued(u), u, n + Len(a \o b))
  BY <1>2, <1>5, NumberedParts, Zenon DEF Mine
<1>7. NumberedFrom(a, u, n) /\ NumberedFrom(b, u, n + Len(a)) /\ n + Len(a) \in Nat
  BY <1>2, <1>3, <1>5, NumberedParts, Zenon DEF Mine
<1>8. NumberedFrom(c \o d, u, n + Len(a \o b))
  BY <1>6, Zenon DEF Queued
<1>9. /\ NumberedFrom(c, u, n + Len(a \o b)) /\ NumberedFrom(d, u, n + Len(a \o b) + Len(c))
      /\ n + Len(a \o b) + Len(c) \in Nat
  BY <1>2, <1>5, <1>8, NumberedParts, Zenon DEF Mine
<1>10. n + Len(a \o b) = n + Len(a) + Len(b)
  <2> HIDE DEF a, b
  <2>1. Len(a \o b) = Len(a) + Len(b) /\ Len(a) \in Nat /\ Len(b) \in Nat
    <3>1. a \in Seq(MsgsOf(Replies, u)) /\ b \in Seq(MsgsOf(Replies, u))
      BY <1>2 DEF Mine
    <3> QED BY <3>1
  <2> QED BY <1>3, <2>1
<1> HIDE DEF a, b, c, d
<1> DEFINE s == Told(u) \o Tokens(a)
           t == s \o Tokens(b)
           r == t \o Tokens(c)
<1>11. CountedTo(s, n + Len(a))
  BY <1>2, <1>3, <1>7, TokensCount, Zenon
<1> HIDE DEF s
<1>12. CountedTo(t, n + Len(a) + Len(b))
  BY <1>2, <1>7, <1>11, TokensCount, Zenon
<1> HIDE DEF t
<1>13. CountedTo(t, n + Len(a \o b))
  BY <1>10, <1>12, Zenon
<1>14. CountedTo(r, n + Len(a \o b) + Len(c))
  BY <1>2, <1>5, <1>9, <1>13, TokensCount, Zenon
<1> HIDE DEF r
<1>15. CountedTo(r \o Tokens(d), n + Len(a \o b) + Len(c) + Len(d))
  BY <1>2, <1>9, <1>14, TokensCount, Zenon
<1>16. InFlight(u) = r \o Tokens(d)
  <2>1. (IF u \in DOMAIN ackMap THEN Tokens(ackMap[u]) ELSE <<>>) = Tokens(b)
    <3>1. u \in DOMAIN ackMap
      BY <1>1 DEF Whole
    <3> QED BY <3>1, Zenon DEF Acked, b
  <2> QED BY <2>1, Zenon DEF InFlight, Told, Own, a, c, d, s, t, r
<1>17. \A q : CountedTo(q, Len(q)) => \A i \in DOMAIN q : q[i] = i
  BY DEF CountedTo, Counts
<1>18. \A q, k : CountedTo(q, k) => CountedTo(q, Len(q))
  BY DEF CountedTo
<1> QED BY <1>15, <1>16, <1>17, <1>18, Zenon

LEMMA WholeStreams ==
  ASSUME StreamInv
  PROVE  StreamIsWhole
<1>1. ASSUME NEW u \in Uids, coro[u] \in {"ending", "done"} PROVE got[u] = [i \in 1..Need[u] |-> i]
  BY <1>1 DEF StreamInv, Journey, Complete
<1> QED BY <1>1, InFlightCounts DEF StreamIsWhole

-----------------------------------------------------------------------------
(* The invariant holds at the start and is kept.                           *)

LEMMA StreamInit ==
  ASSUME Init
  PROVE  StreamInv
<1>1. PICK s \in Settings : tokenizers = s.tokenizers
  BY DEF Init
<1>2. tokenizers \in 0..MaxTokenizers /\ 0 \in Ranks
  BY <1>1, ServingAssumption
<1>3. /\ uidCounter = 0 /\ turn = 0 /\ ackMap = <<>> /\ eventMap = <<>> /\ heard = {}
      /\ coro = [u \in Uids |-> "none"] /\ acks = [u \in Uids |-> <<>>]
      /\ held = [u \in Uids |-> <<>>] /\ got = [u \in Uids |-> <<>>]
      /\ toTok = [p \in Procs |-> <<>>] /\ toBackend = [p \in Procs |-> <<>>]
      /\ toFront = [p \in Procs |-> <<>>] /\ toDetok = <<>>
      /\ live[0] = <<>> /\ data[0] = <<>> /\ ongoing[0] = <<>>
  BY <1>2 DEF Init
<1>4. /\ \A S : <<>> \in Seq(S)
      /\ DOMAIN <<>> = {} /\ 0 \in Procs
      /\ \A S, T : T = [p \in Procs |-> <<>>] => T \in [Procs -> Seq(S)]
  <2>1. \A S : <<>> \in Seq(S)
    OBVIOUS
  <2>2. DOMAIN <<>> = {} /\ 0 \in Procs
    BY ServingAssumption DEF Procs
  <2>3. ASSUME NEW S, NEW T, T = [p \in Procs |-> <<>>] PROVE T \in [Procs -> Seq(S)]
    BY <2>1, <2>3
  <2> QED BY <2>1, <2>2, <2>3, Zenon
<1>5. FrontTypes
  <2>1. \A u \in Uids : coro[u] = "none" /\ acks[u] \in Mine(u)
    BY <1>3 DEF Mine
  <2>2. got \in [Uids -> Seq(Nat)] /\ held \in [Uids -> Seq(Nat)]
    BY <1>3
  <2>3. turn \in Nat /\ (tokenizers # 0 => turn < tokenizers) /\ uidCounter \in Nat
    BY <1>2, <1>3, ServingAssumption
  <2>4. DOMAIN ackMap = {} /\ DOMAIN eventMap = {} /\ DOMAIN coro = Uids /\ DOMAIN acks = Uids
    BY <1>3
  <2> QED BY <2>1, <2>2, <2>3, <2>4 DEF FrontTypes
<1>6. QueueTypes
  <2>1. toTok \in [Procs -> Seq(Raws)] /\ toBackend \in [Procs -> Seq(Raws)]
    BY <1>3, <1>4, Zenon
  <2>2. toFront \in [Procs -> Seq(Seq(Replies))] /\ toDetok \in Seq(Seq(Replies))
    BY <1>3, <1>4, Zenon
  <2>3. \A p \in Procs : toTok[p] = <<>> /\ toBackend[p] = <<>> /\ toFront[p] = <<>>
    BY <1>3
  <2> QED BY <2>1, <2>2, <2>3, Zenon DEF QueueTypes
<1>7. RankTypes
  BY <1>3 DEF RankTypes
<1>8. StreamTypes
  BY <1>5, <1>6, <1>7 DEF StreamTypes
<1>9. ASSUME NEW u \in Uids PROVE Journey(u)
  <2>1. Own(<<>>, u) = <<>>
    BY Kinds, OwnQueue, Zenon
  <2>2. <<>> \o <<>> = <<>>
    <3>1. <<>> \in Seq(Plain)
      OBVIOUS
    <3> QED BY <3>1, QueueLaws, Zenon DEF NoneFirst
  <2>3. \A p \in Procs : Path(p, u) = <<>>
    <3>1. ASSUME NEW p \in Procs PROVE Path(p, u) = <<>>
      <4>1. toBackend[p] = <<>> /\ toTok[p] = <<>>
        BY <1>3
      <4> QED BY <2>1, <2>2, <4>1, Zenon DEF Path
    <3> QED BY <3>1
  <2>4. Coming(u) = <<>>
    <3>1. acks[u] = <<>> /\ Acked(u) = <<>>
      BY <1>3, <1>4 DEF Acked
    <3>2. Queued(u) = <<>>
      <4>1. toFront[0] = <<>> /\ toDetok = <<>>
        BY <1>3, <1>4
      <4> QED BY <2>1, <2>2, <4>1, Zenon DEF Queued
    <3>3. Launched(u) = <<>>
      <4>1. InBatch(data[0], u) = <<>> /\ InBatch(ongoing[0], u) = <<>>
        BY <1>3, <1>7, BatchTyped DEF RankTypes
      <4> QED BY <2>2, <4>1, Zenon DEF Launched
    <3> QED BY <2>2, <3>1, <3>2, <3>3, Zenon DEF Coming
  <2>5. /\ coro[u] = "none" /\ u \notin heard /\ u \notin DOMAIN live[0]
        /\ got[u] = <<>> /\ held[u] = <<>>
    BY <1>3, <1>4
  <2>6. "none" # "aborted" /\ "none" \notin {"waiting", "yielding", "ending", "done"}
    OBVIOUS
  <2> QED BY <2>3, <2>4, <2>5, <2>6
          DEF Journey, SentOnce, Unsent, Whole, Complete, AbortLast
<1> QED BY <1>8, <1>9 DEF StreamInv

LEMMA StreamStep ==
  ASSUME StreamInv, FollowInv, [Next]_vars
  PROVE  StreamInv'
<1>1. Shape
  BY DEF FollowInv
<1>2. CASE Request
  BY <1>1, <1>2, RequestKeeps
<1>3. CASE Listen
  BY <1>3, ListenKeeps
<1>4. ASSUME NEW u \in Uids, Answer(u) \/ Disconnect(u) PROVE StreamInv'
  <2>1. CASE Wake(u)
    BY <2>1, WakeKeeps
  <2>2. CASE Deliver(u)
    BY <2>2, DeliverKeeps
  <2>3. CASE End(u)
    BY <2>3, EndKeeps
  <2>4. CASE AbortUser(u)
    BY <1>1, <2>4, AbortUserKeeps
  <2>5. CASE Disconnect(u)
    BY <2>5, DisconnectKeeps
  <2> QED BY <1>4, <2>1, <2>2, <2>3, <2>4, <2>5 DEF Answer
<1>5. ASSUME NEW p \in Procs, Tokenize(p) PROVE StreamInv'
  BY <1>5, TokenizeKeeps
<1>6. CASE Detokenize
  BY <1>6, DetokenizeKeeps
<1>7. ASSUME NEW r \in Ranks, RunRank(r) PROVE StreamInv'
  <2>1. CASE r = 0 /\ ProcessLast(r)
    BY <1>1, <2>1, RepliesKeep
  <2>2. CASE r = 0 /\ RecvRank0
    BY <1>1, <2>2, Rank0Keeps
  <2>3. CASE r # 0 /\ (RecvFollower(r) \/ ProcessLast(r))
    BY <1>1, <2>3, FollowerKeeps DEF Followers
  <2> QED BY <1>7, <2>1, <2>2, <2>3 DEF RunRank
<1>8. CASE UNCHANGED vars
  <2>1. UNCHANGED <<cfgVars, frontVars, pipeVars, heard, live, data, ongoing, at>>
    BY <1>8 DEF vars, rankVars
  <2> QED BY <2>1, OtherRank
<1> QED BY <1>2, <1>3, <1>4, <1>5, <1>6, <1>7, <1>8 DEF Next
-----------------------------------------------------------------------------
(* Theorems.                                                               *)

LEMMA FollowingAgrees ==
  ASSUME FollowInv
  PROVE  RanksAgree
<1> SUFFICES ASSUME NEW r \in Followers, Lag(r) = 0, at[r] = at[0]
             PROVE  live[r] = live[0] /\ data[r] = data[0] /\ ongoing[r] = ongoing[0]
  BY DEF RanksAgree
<1>1. State(r) = State(0)
  <2>1. r \in Ranks /\ 0 \in Ranks /\ Shape /\ Following(r)
    BY ServingAssumption DEF FollowInv, Followers
  <2>2. at[0] = "receive" \/ at[0] = "process"
    BY <2>1 DEF Shape
  <2>3. Ahead(r) = Ahead(0)
    BY <2>1 DEF Following
  <2>4. at[0] = "process" => State(r) = State(0)
    BY <2>1 DEF Following
  <2> QED BY <2>2, <2>3, <2>4 DEF Ahead
<1> QED BY <1>1 DEF State

(* Whatever the number of ranks, and however far a rank is behind, ranks   *)
(* that have finished the same rounds hold the same requests and the same  *)
(* batches: the count rank 0 broadcasts, and the message a rank takes      *)
(* because it would have waited too, always name rank 0's own round.       *)
THEOREM RanksRunTheSame == Spec => []RanksAgree
<1>1. Init => FollowInv
  BY FollowInit
<1>2. FollowInv /\ [Next]_vars => FollowInv'
  BY FollowStep
<1>3. FollowInv => RanksAgree
  BY FollowingAgrees
<1> QED BY <1>1, <1>2, <1>3, PTL DEF Spec

(* A follower that knows the number of messages of a round finds them all: *)
(* it never waits for one that rank 0 did not send (_recv_msg_multi_rank1, *)
(* whose get blocks).                                                      *)
RoundsArrive ==
  \A r \in Followers : counts[r] # <<>> /\ at[r] = "receive" =>
    Len(sub[r]) >= Head(counts[r]) + (IF Blocking(r) THEN 1 ELSE 0)

THEOREM FollowersNeverStarve == Spec => []RoundsArrive
<1>1. Init => FollowInv
  BY FollowInit
<1>2. FollowInv /\ [Next]_vars => FollowInv'
  BY FollowStep
<1>3. FollowInv => RoundsArrive
  <2> SUFFICES ASSUME FollowInv, NEW r \in Followers, counts[r] # <<>>, at[r] = "receive"
               PROVE  Len(sub[r]) >= Head(counts[r]) + (IF Blocking(r) THEN 1 ELSE 0)
    BY DEF RoundsArrive
  <2>1. r \in Ranks /\ Following(r) /\ counts[r] \in Seq(Nat) /\ IsList(sub[r])
    BY DEF FollowInv, Followers, Shape
  <2>2. PICK hist, end : Replays(counts[r], sub[r], hist, end) /\ hist[0] = Ahead(r)
    BY <2>1 DEF Following
  <2>3. Awaited(hist[0]) = IF Blocking(r) THEN 1 ELSE 0
    BY <2>1, <2>2, BlockingIsAwaited DEF Ahead
  <2> DEFINE n == Head(counts[r]) + Awaited(hist[0])
  <2>4. n \in Nat /\ n <= Len(sub[r])
    BY <2>1, <2>2, RoundTaken
  <2>5. Len(sub[r]) \in Nat
    BY <2>1, ListParts
  <2>6. Len(sub[r]) >= n
    BY <2>4, <2>5
  <2> QED BY <2>3, <2>6
<1> QED BY <1>1, <1>2, <1>3, PTL DEF Spec

(* For every number of requests, tokenizers and ranks, and however the     *)
(* queues, the coroutines and the ranks interleave, a client that listens  *)
(* is sent the tokens of its answer in order, and one that was told the    *)
(* end has all of them (FrontendManager.wait_for_ack, the streams of       *)
(* api_server.py, and every queue between rank 0 and the client).          *)
THEOREM StreamsAreWhole == Spec => []StreamIsWhole
<1>1. Init => StreamInv /\ FollowInv
  BY StreamInit, FollowInit
<1>2. StreamInv /\ FollowInv /\ [Next]_vars => (StreamInv /\ FollowInv)'
  BY StreamStep, FollowStep
<1>3. StreamInv => StreamIsWhole
  BY WholeStreams
<1> QED BY <1>1, <1>2, <1>3, PTL DEF Spec

(* With at most one tokenizer process, the abort of a request follows the  *)
(* request through the queues, so that a request whose abort rank 0 has    *)
(* taken is in no manager again (abort_user and _process_one_msg).  With   *)
(* two it may (run serving_two_tokenizers).                                *)
OneTokenizer == \A s \in Settings : s.tokenizers <= 1

THEOREM AbortsLast ==
  ASSUME OneTokenizer
  PROVE  Spec => []AbortEndsRequest
<1>1. Init => StreamInv /\ FollowInv /\ tokenizers <= 1
  <2>1. Init => tokenizers <= 1
    BY DEF Init, OneTokenizer
  <2> QED BY <2>1, StreamInit, FollowInit
<1>2. ASSUME StreamInv /\ FollowInv /\ tokenizers <= 1, [Next]_vars
      PROVE  (StreamInv /\ FollowInv /\ tokenizers <= 1)'
  <2>1. StreamInv' /\ FollowInv'
    BY <1>2, StreamStep, FollowStep
  <2>2. tokenizers' = tokenizers
    <3>1. CASE Request \/ Listen \/ UNCHANGED vars
      BY <3>1 DEF Request, Listen, vars, cfgVars
    <3>2. CASE \E u \in Uids : Answer(u) \/ Disconnect(u)
      BY <3>2 DEF Answer, Wake, Deliver, End, AbortUser, Disconnect, cfgVars
    <3>3. CASE Detokenize \/ \E p \in Procs : Tokenize(p)
      BY <3>3 DEF Detokenize, Tokenize, Forward, cfgVars
    <3>4. CASE \E r \in Ranks : RunRank(r)
      BY <3>4 DEF RunRank, ProcessLast, RecvRank0, RecvFollower, cfgVars
    <3> QED BY <1>2, <3>1, <3>2, <3>3, <3>4 DEF Next
  <2> QED BY <1>2, <2>1, <2>2
<1>3. ASSUME StreamInv, tokenizers <= 1 PROVE AbortEndsRequest
  BY <1>3 DEF StreamInv, StreamTypes, RankTypes, Journey, AbortLast, AbortEndsRequest
<1> QED BY <1>1, <1>2, <1>3, PTL DEF Spec
=============================================================================
