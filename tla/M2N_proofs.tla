----------------------------- MODULE M2N_proofs -----------------------------
(***************************************************************************)
(* Theorems about M2NPipeline, for every number of layers, micro-batches,  *)
(* lanes and ranks: the ranks that meet in a collective of a lane mean the *)
(* same one, where no layer is dense.                                      *)
(*                                                                         *)
(* Put(w) is what the work w leaves on each stream.  The argument: the two *)
(* host programs are Alike, they leave the same work on every lane,        *)
(* although they are put together from different parts; and what has left  *)
(* a lane is the same on every rank, because only a collective of all      *)
(* ranks takes work off a lane.  So what is first on a lane is, on every   *)
(* rank, the same piece of one common list.                                *)
(***************************************************************************)
EXTENDS M2NPipeline, SequenceTheorems, TLAPS

Onto == INSTANCE FoldFacts WITH Op <- Enqueue

(* Work, the parts of a program, and the streams of a rank.                *)
Jobs     == [do : {"compute", "counts", "rows", "expert", "combine"}, layer : Layers, mb : Mbs]
Programs == Seq(Seq(Jobs))
Loads    == [Streams -> Seq(Jobs)]
Nothing  == [s \in Streams |-> <<>>]

Put(w)          == FoldLeft(Enqueue, Nothing, w)
OnLane(prog, s) == Put(FlattenSeq(prog))[s]
Alike(a, b)     == \A s \in Lanes : OnLane(a, s) = OnLane(b, s)
-----------------------------------------------------------------------------
(* The constants and what is a piece of work.                              *)
LEMMA Numbers ==
  /\ NumLayers \in Nat \ {0} /\ NumMb \in Nat \ {0} /\ NumLanes \in Nat \ {0}
  /\ Engine \notin Lanes /\ Engine \in Streams /\ Lanes \subseteq Streams
BY PipelineAssumption DEF Engine, Lanes, Streams

LEMMA StreamsOf ==
  ASSUME NEW e \in Jobs
  PROVE  /\ StreamOf(e) \in Streams
         /\ e.do \in {"compute", "expert"} => StreamOf(e) \notin Lanes
<1>1. e.mb \in Nat
  BY DEF Jobs, Mbs
<1>2. e.mb % NumLanes \in 0..(NumLanes - 1)
  BY <1>1, Numbers
<1> QED BY <1>2, Numbers DEF StreamOf, Lane, Lanes, Streams

LEMMA WorkIsJob ==
  ASSUME NEW l \in Layers, NEW mb \in Mbs,
         NEW do \in {"compute", "counts", "rows", "expert", "combine"}
  PROVE  Work(do, l, mb) \in Jobs /\ Work(do, l, mb).do = do
BY DEF Work, Jobs

(* The instance folds and flattens as this module does.                    *)
LEMMA SameFolds ==
  ASSUME NEW base, NEW w
  PROVE  FoldLeft(Enqueue, base, w) = Onto!Fold(base, w)
BY DEF FoldLeft, MapThenFoldSet, Max, Onto!Fold, Onto!LastOf

LEMMA SameFlat ==
  ASSUME NEW w
  PROVE  FlattenSeq(w) = Onto!Flat(w)
BY DEF FlattenSeq, Onto!Flat

(* One piece of work goes to the end of its stream.                        *)
LEMMA EnqueueOne ==
  ASSUME NEW q \in Loads, NEW e \in Jobs
  PROVE  /\ Enqueue(q, e) \in Loads
         /\ \A s \in Streams : Enqueue(q, e)[s] = IF s = StreamOf(e) THEN Append(q[s], e) ELSE q[s]
<1>1. StreamOf(e) \in Streams
  BY StreamsOf
<1>2. Append(q[StreamOf(e)], e) \in Seq(Jobs)
  <2>1. q[StreamOf(e)] \in Seq(Jobs)
    BY <1>1 DEF Loads
  <2> HIDE DEF Jobs
  <2> QED BY <2>1
<1> QED BY <1>1, <1>2 DEF Enqueue, Loads

(* Work put on streams follows what is there.                              *)
LEMMA PutOnto ==
  ASSUME NEW q \in Loads, NEW w \in Seq(Jobs)
  PROVE  /\ FoldLeft(Enqueue, q, w) \in Loads /\ Put(w) \in Loads
         /\ \A s \in Streams : FoldLeft(Enqueue, q, w)[s] = q[s] \o Put(w)[s]
<1> DEFINE n == Len(w)
<1>1. PICK f : /\ f[0] = q /\ \A i \in 1..n : f[i] = Enqueue(f[i - 1], w[i])
               /\ FoldLeft(Enqueue, q, w) = f[n]
  <2>1. \E acc : /\ acc[0] = q
                 /\ \A i \in 1..Len(w) : acc[i] = Enqueue(acc[i - 1], w[i])
                 /\ Onto!Fold(q, w) = acc[Len(w)]
    BY Onto!FoldSteps, Zenon
  <2> QED BY <2>1, SameFolds, Zenon
<1>2. PICK h : /\ h[0] = Nothing /\ \A i \in 1..n : h[i] = Enqueue(h[i - 1], w[i])
               /\ Put(w) = h[n]
  <2>1. \E acc : /\ acc[0] = Nothing
                 /\ \A i \in 1..Len(w) : acc[i] = Enqueue(acc[i - 1], w[i])
                 /\ Onto!Fold(Nothing, w) = acc[Len(w)]
    BY Onto!FoldSteps, Zenon
  <2> QED BY <2>1, SameFolds, Zenon DEF Put
<1>3. n \in Nat /\ \A i \in 1..n : w[i] \in Jobs
  <2> HIDE DEF Jobs
  <2> QED OBVIOUS
<1> HIDE DEF n
<1> DEFINE Good == {i \in 0..n : /\ f[i] \in Loads /\ h[i] \in Loads
                                 /\ \A s \in Streams : f[i][s] = q[s] \o h[i][s]}
<1>4. 0 \in Good
  <2>1. Nothing \in Loads /\ \A s \in Streams : Nothing[s] = <<>> /\ q[s] \in Seq(Jobs)
    <3>1. <<>> \in Seq(Jobs)
      OBVIOUS
    <3> HIDE DEF Jobs
    <3> QED BY <3>1 DEF Nothing, Loads
  <2>2. \A x \in Seq(Jobs) : x \o <<>> = x
    <3> HIDE DEF Jobs
    <3> QED OBVIOUS
  <2>3. \A s \in Streams : q[s] = q[s] \o Nothing[s]
    BY <2>1, <2>2, Zenon
  <2>4. 0 \in 0..n
    BY <1>3
  <2> QED BY <1>1, <1>2, <2>1, <2>3, <2>4, Zenon
<1>5. ASSUME NEW i \in 1..n, i - 1 \in Good PROVE i \in Good
  <2> DEFINE a == f[i - 1]
             b == h[i - 1]
             e == w[i]
  <2>1. /\ a \in Loads /\ b \in Loads /\ e \in Jobs /\ i \in 0..n
        /\ \A s \in Streams : a[s] = q[s] \o b[s]
    <3>1. w[i] \in Jobs /\ i \in 0..n
      BY <1>3
    <3> QED BY <1>5, <3>1, Zenon
  <2>2. f[i] = Enqueue(a, e) /\ h[i] = Enqueue(b, e)
    BY <1>1, <1>2, Zenon
  <2> HIDE DEF a, b, e
  <2>3. \A s \in Streams : Enqueue(a, e)[s] = q[s] \o Enqueue(b, e)[s]
    <3>1. TAKE s \in Streams
    <3>2. q[s] \in Seq(Jobs) /\ b[s] \in Seq(Jobs) /\ e \in Jobs
      BY <2>1 DEF Loads
    <3>3. Append(q[s] \o b[s], e) = q[s] \o Append(b[s], e)
      <4> DEFINE x == q[s]
                 y == b[s]
      <4>1. x \in Seq(Jobs) /\ y \in Seq(Jobs) /\ e \in Jobs
        BY <3>2
      <4> HIDE DEF x, y
      <4>2. Append(x \o y, e) = x \o Append(y, e)
        <5>1. Append(x \o y, e) = (x \o y) \o <<e>> /\ Append(y, e) = y \o <<e>>
          BY <4>1
        <5>2. (x \o y) \o <<e>> = x \o (y \o <<e>>)
          BY <4>1
        <5> QED BY <5>1, <5>2, Zenon
      <4> QED BY <4>2 DEF x, y
    <3>4. Append(a[s], e) = q[s] \o Append(b[s], e)
      BY <2>1, <3>3, Zenon
    <3>5. CASE s = StreamOf(e)
      BY <2>1, <3>4, <3>5, EnqueueOne, Zenon
    <3>6. CASE s # StreamOf(e)
      BY <2>1, <3>6, EnqueueOne, Zenon
    <3> QED BY <3>5, <3>6
  <2>4. Enqueue(a, e) \in Loads /\ Enqueue(b, e) \in Loads
    BY <2>1, EnqueueOne, Zenon
  <2> QED BY <2>1, <2>2, <2>3, <2>4, Zenon
<1> HIDE DEF Good
<1>6. \A i \in 0..n : i \in Good
  BY <1>3, <1>4, <1>5, Onto!UpTo
<1>7. n \in Good
  BY <1>3, <1>6
<1> QED BY <1>1, <1>2, <1>7, Zenon DEF Good

LEMMA PutJoin ==
  ASSUME NEW a \in Seq(Jobs), NEW b \in Seq(Jobs), NEW s \in Streams
  PROVE  /\ Put(a \o b)[s] = Put(a)[s] \o Put(b)[s]
         /\ Put(a)[s] \in Seq(Jobs) /\ Put(b)[s] \in Seq(Jobs)
<1>1. Nothing \in Loads
  <2>1. <<>> \in Seq(Jobs)
    OBVIOUS
  <2> QED BY <2>1 DEF Nothing, Loads
<1>2. Put(a) \in Loads /\ Put(b) \in Loads
  BY <1>1, PutOnto, Zenon
<1>3. Put(a \o b) = FoldLeft(Enqueue, Put(a), b)
  <2>1. Onto!Fold(Nothing, a \o b)
          = Onto!Fold(Onto!Fold(Nothing, a), b)
    BY Onto!FoldJoin, Zenon
  <2> QED BY <2>1, SameFolds, Zenon DEF Put
<1>4. FoldLeft(Enqueue, Put(a), b)[s] = Put(a)[s] \o Put(b)[s]
  BY <1>2, PutOnto, Zenon
<1>5. \A q \in Loads : q[s] \in Seq(Jobs)
  BY DEF Loads
<1> QED BY <1>2, <1>3, <1>4, <1>5, Zenon

(* What one piece of work leaves on the lanes: nothing if it is for the    *)
(* engine stream.                                                          *)
LEMMA PutEngine ==
  ASSUME NEW e \in Jobs, e.do \in {"compute", "expert"}, NEW s \in Lanes
  PROVE  Put(<<e>>)[s] = <<>> /\ Put(<<>>)[s] = <<>>
<1>1. Nothing \in Loads /\ s \in Streams /\ Nothing[s] = <<>>
  <2>1. <<>> \in Seq(Jobs) /\ s \in Streams
    BY Numbers
  <2> QED BY <2>1 DEF Nothing, Loads
<1> DEFINE w == <<e>>
<1>2. w \in Seq(Jobs) /\ Len(w) = 1 /\ w[1] = e /\ <<>> \in Seq(Jobs) /\ Len(<<>>) = 0
  OBVIOUS
<1> HIDE DEF w
<1>3. PICK f : /\ f[0] = Nothing
               /\ \A i \in 1..Len(w) : f[i] = Enqueue(f[i - 1], w[i])
               /\ Onto!Fold(Nothing, w) = f[Len(w)]
  BY <1>2, Onto!FoldSteps, Zenon
<1>4. PICK h : /\ h[0] = Nothing
               /\ \A i \in 1..Len(<<>>) : h[i] = Enqueue(h[i - 1], <<>>[i])
               /\ Onto!Fold(Nothing, <<>>) = h[Len(<<>>)]
  BY <1>2, Onto!FoldSteps, Zenon
<1>5. Put(<<>>) = Nothing
  BY <1>2, <1>4, SameFolds, Zenon DEF Put
<1>6. Put(w) = Enqueue(Nothing, e)
  <2>1. 1 \in 1..1 /\ 1 - 1 = 0
    OBVIOUS
  <2>2. f[1] = Enqueue(f[0], e)
    BY <1>2, <1>3, <2>1, Zenon
  <2>3. Onto!Fold(Nothing, w) = Enqueue(Nothing, e)
    BY <1>2, <1>3, <2>2
  <2> QED BY <2>3, SameFolds, Zenon DEF Put
<1>7. s # StreamOf(e)
  BY StreamsOf, Zenon
<1>8. Enqueue(Nothing, e)[s] = Nothing[s]
  <2>1. Enqueue(Nothing, e)[s] = IF s = StreamOf(e) THEN Append(Nothing[s], e) ELSE Nothing[s]
    BY <1>1, EnqueueOne
  <2> QED BY <1>7, <2>1
<1> QED BY <1>1, <1>5, <1>6, <1>8, Zenon DEF w

-----------------------------------------------------------------------------
(* What a program leaves on a lane.                                        *)
LEMMA OnLaneType ==
  ASSUME NEW a \in Programs, NEW s \in Lanes
  PROVE  OnLane(a, s) \in Seq(Jobs) /\ FlattenSeq(a) \in Seq(Jobs)
<1>1. FlattenSeq(a) \in Seq(Jobs)
  <2>1. Onto!Flat(a) \in Seq(Jobs)
    BY Onto!FlatType, Zenon DEF Programs
  <2> QED BY <2>1, SameFlat, Zenon
<1>2. s \in Streams
  BY Numbers
<1> QED BY <1>1, <1>2, PutJoin, Zenon DEF OnLane

LEMMA OnLaneJoin ==
  ASSUME NEW a \in Programs, NEW b \in Programs, NEW s \in Lanes
  PROVE  OnLane(a \o b, s) = OnLane(a, s) \o OnLane(b, s)
<1>1. FlattenSeq(a \o b) = FlattenSeq(a) \o FlattenSeq(b)
  <2>1. Onto!Flat(a \o b) = Onto!Flat(a) \o Onto!Flat(b)
    BY Onto!FlatJoin, Zenon DEF Programs
  <2> QED BY <2>1, SameFlat, Zenon
<1>2. s \in Streams /\ FlattenSeq(a) \in Seq(Jobs) /\ FlattenSeq(b) \in Seq(Jobs)
  BY Numbers, OnLaneType
<1> DEFINE x == FlattenSeq(a)
           y == FlattenSeq(b)
<1>3. Put(x \o y)[s] = Put(x)[s] \o Put(y)[s]
  <2>1. s \in Streams /\ x \in Seq(Jobs) /\ y \in Seq(Jobs)
    BY <1>2
  <2> HIDE DEF x, y
  <2> QED BY <2>1, PutJoin
<1> QED BY <1>1, <1>3, Zenon DEF OnLane

LEMMA OnLaneOne ==
  ASSUME NEW w \in Seq(Jobs), NEW s \in Lanes
  PROVE  /\ <<w>> \in Programs /\ OnLane(<<w>>, s) = Put(w)[s]
         /\ <<>> \in Programs /\ OnLane(<<>>, s) = Put(<<>>)[s]
<1>1. FlattenSeq(<<w>>) = w /\ FlattenSeq(<<>>) = <<>>
  <2>1. Onto!Flat(<<w>>) = w /\ Onto!Flat(<<>>) = <<>>
    BY Onto!FlatOne, Zenon
  <2> QED BY <2>1, SameFlat, Zenon
<1>2. <<w>> \in Programs /\ <<>> \in Programs
  BY DEF Programs
<1> QED BY <1>1, <1>2, Zenon DEF OnLane

LEMMA AlikeJoin ==
  ASSUME NEW a \in Programs, NEW b \in Programs, NEW c \in Programs, NEW d \in Programs,
         Alike(a, b), Alike(c, d)
  PROVE  Alike(a \o c, b \o d) /\ a \o c \in Programs /\ b \o d \in Programs
<1>1. a \o c \in Programs /\ b \o d \in Programs
  BY DEF Programs
<1>2. ASSUME NEW s \in Lanes PROVE OnLane(a \o c, s) = OnLane(b \o d, s)
  <2>1. OnLane(a, s) = OnLane(b, s) /\ OnLane(c, s) = OnLane(d, s)
    BY Zenon DEF Alike
  <2>2. OnLane(a \o c, s) = OnLane(a, s) \o OnLane(c, s)
    BY OnLaneJoin
  <2>3. OnLane(b \o d, s) = OnLane(b, s) \o OnLane(d, s)
    BY OnLaneJoin
  <2> QED BY <2>1, <2>2, <2>3
<1> QED BY <1>1, <1>2 DEF Alike

(* Programs put together from parts that are alike, one by one.            *)
LEMMA AlikeFlat ==
  ASSUME NEW n \in Nat, NEW p \in [1..n -> Programs], NEW q \in [1..n -> Programs],
         \A i \in 1..n : Alike(p[i], q[i])
  PROVE  /\ Alike(FlattenSeq(p), FlattenSeq(q))
         /\ FlattenSeq(p) \in Programs /\ FlattenSeq(q) \in Programs
<1>1. p \in Seq(Programs) /\ q \in Seq(Programs) /\ Len(p) = n /\ Len(q) = n
  OBVIOUS
<1>2. PICK f : Onto!FlatSteps(f, p, Seq(Jobs))
  BY <1>1, Onto!FlatStepsExist, Zenon DEF Programs
<1>3. PICK h : Onto!FlatSteps(h, q, Seq(Jobs))
  BY <1>1, Onto!FlatStepsExist, Zenon DEF Programs
<1>4. /\ f[0] = <<>> /\ FlattenSeq(p) = f[n]
      /\ \A i \in 1..n : f[i] = f[i - 1] \o p[i]
      /\ \A i \in 0..n : f[i] \in Programs
  BY <1>1, <1>2, SameFlat, Zenon DEF Onto!FlatSteps, Programs
<1>5. /\ h[0] = <<>> /\ FlattenSeq(q) = h[n]
      /\ \A i \in 1..n : h[i] = h[i - 1] \o q[i]
      /\ \A i \in 0..n : h[i] \in Programs
  BY <1>1, <1>3, SameFlat, Zenon DEF Onto!FlatSteps, Programs
<1> DEFINE Good == {i \in 0..n : Alike(f[i], h[i])}
<1>6. 0 \in Good
  <2>1. 0 \in 0..n
    OBVIOUS
  <2> QED BY <1>4, <1>5, <2>1, Zenon DEF Alike
<1>7. ASSUME NEW i \in 1..n, i - 1 \in Good PROVE i \in Good
  <2>1. i - 1 \in 0..n /\ i \in 0..n /\ p[i] \in Programs /\ q[i] \in Programs
    OBVIOUS
  <2>2. f[i - 1] \in Programs /\ h[i - 1] \in Programs /\ Alike(f[i - 1], h[i - 1])
    BY <1>4, <1>5, <1>7, <2>1, Zenon
  <2>3. Alike(f[i - 1] \o p[i], h[i - 1] \o q[i])
    BY <2>1, <2>2, AlikeJoin, Zenon
  <2>4. f[i] = f[i - 1] \o p[i] /\ h[i] = h[i - 1] \o q[i]
    BY <1>4, <1>5, Zenon
  <2> QED BY <2>1, <2>3, <2>4, Zenon
<1> HIDE DEF Good
<1>8. \A i \in 0..n : i \in Good
  BY <1>6, <1>7, Onto!UpTo
<1>9. n \in 0..n
  OBVIOUS
<1> QED BY <1>4, <1>5, <1>8, <1>9, Zenon DEF Good

-----------------------------------------------------------------------------
(* The parts of the two programs.                                          *)
LEMMA EngineFirst ==
  ASSUME NEW e \in Jobs, e.do \in {"compute", "expert"}, NEW x \in Jobs, NEW s \in Lanes
  PROVE  /\ Put(<<e>> \o <<x>>)[s] = Put(<<x>>)[s]
         /\ <<e>> \o <<x>> \in Seq(Jobs) /\ <<e>> \in Seq(Jobs) /\ <<x>> \in Seq(Jobs)
<1> DEFINE a == <<e>>
           b == <<x>>
<1>1. s \in Streams /\ a \in Seq(Jobs) /\ b \in Seq(Jobs) /\ a \o b \in Seq(Jobs)
  BY Numbers
<1>2. Put(a)[s] = <<>>
  BY PutEngine
<1> HIDE DEF a, b
<1>3. Put(a \o b)[s] = Put(a)[s] \o Put(b)[s] /\ Put(b)[s] \in Seq(Jobs)
  BY <1>1, PutJoin
<1>4. \A y \in Seq(Jobs) : <<>> \o y = y
  OBVIOUS
<1> QED BY <1>1, <1>2, <1>3, <1>4, Zenon DEF a, b

LEMMA OneStep ==
  ASSUME NEW a, NEW b, a \in Seq(Jobs), b \in Seq(Jobs), \A s \in Lanes : Put(a)[s] = Put(b)[s]
  PROVE  Alike(<<a>>, <<b>>) /\ <<a>> \in Programs /\ <<b>> \in Programs
<1>1. <<a>> \in Programs /\ <<b>> \in Programs
  BY DEF Programs
<1>2. ASSUME NEW s \in Lanes PROVE OnLane(<<a>>, s) = OnLane(<<b>>, s)
  <2>1. OnLane(<<a>>, s) = Put(a)[s]
    BY OnLaneOne
  <2>2. OnLane(<<b>>, s) = Put(b)[s]
    BY OnLaneOne
  <2>3. Put(a)[s] = Put(b)[s]
    OBVIOUS
  <2> QED BY <2>1, <2>2, <2>3
<1> QED BY <1>1, <1>2, Zenon DEF Alike

LEMMA PairOf ==
  ASSUME NEW x, NEW y
  PROVE  <<x>> \o <<y>> = <<x, y>>
<1> DEFINE a == <<x>>
           b == <<y>>
           c == <<x, y>>
           S == {x, y}
<1>1. a \in Seq(S) /\ Len(a) = 1 /\ a[1] = x /\ b \in Seq(S) /\ Len(b) = 1 /\ b[1] = y
  OBVIOUS
<1>2. c \in Seq(S) /\ Len(c) = 2 /\ c[1] = x /\ c[2] = y
  OBVIOUS
<1> HIDE DEF a, b, c, S
<1> DEFINE d == a \o b
<1>3. d \in Seq(S) /\ Len(d) = 2 /\ d[1] = x /\ d[2] = y
  <2>1. /\ d \in Seq(S) /\ Len(d) = Len(a) + Len(b)
        /\ \A i \in 1..(Len(a) + Len(b)) : d[i] = IF i <= Len(a) THEN a[i] ELSE b[i - Len(a)]
    BY <1>1, ConcatProperties
  <2> HIDE DEF d
  <2> QED BY <1>1, <2>1
<1> HIDE DEF d
<1>4. Len(d) = Len(c) /\ \A i \in 1..Len(d) : d[i] = c[i]
  BY <1>2, <1>3
<1>5. d = c
  BY <1>2, <1>3, <1>4, SeqEqual
<1> QED BY <1>5 DEF a, b, c, d

LEMMA DispatchAlike ==
  ASSUME FirstDense = 0, NEW l \in Layers, NEW mb \in Mbs, NEW fx \in BOOLEAN
  PROVE  /\ Alike(AgDispatch(l, mb, fx), EgDispatch(l, mb, fx))
         /\ AgDispatch(l, mb, fx) \in Programs /\ EgDispatch(l, mb, fx) \in Programs
<1> DEFINE c == Work("compute", l, mb)
           n == Work("counts", l, mb)
           r == Work("rows", l, mb)
<1>1. c \in Jobs /\ n \in Jobs /\ r \in Jobs /\ c.do = "compute"
  BY WorkIsJob
<1>2. ~IsDense(l)
  BY DEF IsDense, Layers
<1> HIDE DEF c, n, r
<1>3. ASSUME NEW x \in Jobs
      PROVE  /\ Alike(<< <<c>> \o <<x>> >>, << <<x>> >>)
             /\ << <<c>> \o <<x>> >> \in Programs /\ << <<x>> >> \in Programs
  <2> DEFINE a == <<c>> \o <<x>>
             b == <<x>>
  <2>1. a \in Seq(Jobs) /\ b \in Seq(Jobs)
    BY <1>1
  <2>2. \A s \in Lanes : Put(a)[s] = Put(b)[s]
    BY <1>1, EngineFirst
  <2> HIDE DEF a, b
  <2>3. Alike(<<a>>, <<b>>) /\ <<a>> \in Programs /\ <<b>> \in Programs
    BY <2>1, <2>2, OneStep
  <2> QED BY <2>3 DEF a, b
<1>4. CASE fx
  <2>1. AgDispatch(l, mb, fx) = << <<c>> \o <<r>> >>
    BY <1>2, <1>4 DEF AgDispatch, Exchange, c, r
  <2>2. EgDispatch(l, mb, fx) = << <<r>> >>
    <3>1. <<>> \o <<r>> = <<r>>
      OBVIOUS
    <3> QED BY <1>4, <3>1 DEF EgDispatch, Exchange, r
  <2> QED BY <1>1, <1>3, <2>1, <2>2
<1>5. CASE ~fx
  <2> DEFINE cn == <<c>> \o <<n>>
             n1 == <<n>>
             r1 == <<r>>
  <2>1. AgDispatch(l, mb, fx) = <<cn, r1>>
    BY <1>2, <1>5 DEF AgDispatch, Exchange, c, r, n
  <2>2. EgDispatch(l, mb, fx) = <<n1, r1>>
    <3>1. <<>> \o <<n>> = <<n>>
      OBVIOUS
    <3> QED BY <1>5, <3>1 DEF EgDispatch, Exchange, r, n
  <2>3. r1 \in Seq(Jobs)
    BY <1>1
  <2>4. Alike(<<cn>>, <<n1>>) /\ <<cn>> \in Programs /\ <<n1>> \in Programs
    BY <1>1, <1>3
  <2> HIDE DEF cn, n1, r1
  <2>5. Alike(<<r1>>, <<r1>>) /\ <<r1>> \in Programs
    BY <2>3, OneStep
  <2> DEFINE x == <<cn>>
             y == <<n1>>
             z == <<r1>>
  <2>6. AgDispatch(l, mb, fx) = x \o z /\ EgDispatch(l, mb, fx) = y \o z
    <3>1. x \o z = <<cn, r1>> /\ y \o z = <<n1, r1>>
      BY PairOf
    <3> QED BY <2>1, <2>2, <3>1
  <2>7. /\ Alike(x, y) /\ Alike(z, z)
        /\ x \in Programs /\ y \in Programs /\ z \in Programs
    BY <2>4, <2>5
  <2> HIDE DEF x, y, z
  <2>8. Alike(x \o z, y \o z) /\ x \o z \in Programs /\ y \o z \in Programs
    BY <2>7, AlikeJoin
  <2> QED BY <2>6, <2>8
<1> QED BY <1>4, <1>5

LEMMA ExpertAlike ==
  ASSUME NEW l \in Layers, NEW mb \in Mbs
  PROVE  /\ Alike(Combine(l, mb), Expert(l, mb) \o Combine(l, mb))
         /\ Combine(l, mb) \in Programs /\ Expert(l, mb) \o Combine(l, mb) \in Programs
<1> DEFINE e == <<Work("expert", l, mb)>>
           c == <<Work("combine", l, mb)>>
           x == <<e>>
           y == <<c>>
<1>1. /\ Work("expert", l, mb) \in Jobs /\ Work("combine", l, mb) \in Jobs
      /\ Work("expert", l, mb).do = "expert"
  BY WorkIsJob
<1>2. e \in Seq(Jobs) /\ c \in Seq(Jobs)
  BY <1>1
<1>3. \A s \in Lanes : Put(e)[s] = <<>>
  BY <1>1, PutEngine
<1>4. Combine(l, mb) = y /\ Expert(l, mb) = x
  BY DEF Combine, Expert
<1> HIDE DEF e, c
<1>5. \A s \in Lanes : OnLane(x, s) = <<>> /\ x \in Programs
  BY <1>2, <1>3, OnLaneOne
<1>6. y \in Programs
  BY <1>2 DEF Programs
<1> HIDE DEF x, y
<1>7. x \in Programs \/ Lanes = {}
  BY <1>5
<1>8. 0 \in Lanes
  BY Numbers DEF Lanes
<1>9. ASSUME NEW s \in Lanes PROVE OnLane(y, s) = OnLane(x \o y, s)
  <2>1. OnLane(x \o y, s) = OnLane(x, s) \o OnLane(y, s)
    BY <1>5, <1>6, OnLaneJoin
  <2>2. OnLane(x, s) = <<>> /\ OnLane(y, s) \in Seq(Jobs)
    BY <1>5, <1>6, OnLaneType
  <2>3. \A z \in Seq(Jobs) : <<>> \o z = z
    OBVIOUS
  <2> QED BY <2>1, <2>2, <2>3, Zenon
<1>10. x \o y \in Programs
  BY <1>5, <1>6, <1>8 DEF Programs
<1> QED BY <1>4, <1>6, <1>9, <1>10, Zenon DEF Alike

(* The two programs leave the same on every lane.                          *)
LEMMA ProgramsAlike ==
  ASSUME FirstDense = 0, NEW fx \in BOOLEAN, NEW n \in 1..NumMb
  PROVE  /\ Alike(AgProgram[n][fx], EgProgram[n][fx])
         /\ AgProgram[n][fx] \in Programs /\ EgProgram[n][fx] \in Programs
<1> DEFINE ag0 == [m \in 1..n |-> AgDispatch(0, m - 1, fx)]
           eg0 == [m \in 1..n |-> EgDispatch(0, m - 1, fx)]
           agNext(l, mb) == IF l + 1 < NumLayers THEN AgDispatch(l + 1, mb, fx) ELSE <<>>
           egNext(l, mb) == IF l + 1 < NumLayers THEN EgDispatch(l + 1, mb, fx) ELSE <<>>
           agOf(l, mb) == Combine(l, mb) \o agNext(l, mb)
           egOf(l, mb) == (Expert(l, mb) \o Combine(l, mb)) \o egNext(l, mb)
           agAt(l) == [m \in 1..n |-> agOf(l, m - 1)]
           egAt(l) == [m \in 1..n |-> egOf(l, m - 1)]
           ags == [l \in 1..NumLayers |-> FlattenSeq(agAt(l - 1))]
           egs == [l \in 1..NumLayers |-> FlattenSeq(egAt(l - 1))]
<1>1. AgProgram[n][fx] = FlattenSeq(ag0) \o FlattenSeq(ags)
  <2>1. \A l \in 1..NumLayers : ~IsDense(l - 1)
    BY DEF IsDense
  <2> QED BY <2>1 DEF AgProgram, PerMb, PerLayer
<1>2. EgProgram[n][fx] = FlattenSeq(eg0) \o FlattenSeq(egs)
  BY DEF EgProgram, PerMb, PerLayer
<1>3. /\ n \in Nat /\ NumLayers \in Nat /\ 0 \in Layers
      /\ \A m \in 1..n : m - 1 \in Mbs
      /\ \A l \in 1..NumLayers : l - 1 \in Layers
      /\ \A l \in Layers : l + 1 < NumLayers => l + 1 \in Layers
  BY Numbers DEF Mbs, Layers
<1>4. Alike(FlattenSeq(ag0), FlattenSeq(eg0)) /\ FlattenSeq(ag0) \in Programs /\ FlattenSeq(eg0) \in Programs
  <2>1. \A m \in 1..n : /\ AgDispatch(0, m - 1, fx) \in Programs
                            /\ EgDispatch(0, m - 1, fx) \in Programs
                            /\ Alike(AgDispatch(0, m - 1, fx), EgDispatch(0, m - 1, fx))
    BY <1>3, DispatchAlike
  <2>2. ag0 \in [1..n -> Programs] /\ eg0 \in [1..n -> Programs]
        /\ \A m \in 1..n : Alike(ag0[m], eg0[m])
    BY <2>1
  <2> HIDE DEF ag0, eg0
  <2> QED BY <1>3, <2>2, AlikeFlat
<1>5. ASSUME NEW l \in Layers, NEW mb \in Mbs
      PROVE  Alike(agOf(l, mb), egOf(l, mb)) /\ agOf(l, mb) \in Programs /\ egOf(l, mb) \in Programs
  <2> DEFINE a == Combine(l, mb)
             b == Expert(l, mb) \o Combine(l, mb)
             c == agNext(l, mb)
             d == egNext(l, mb)
  <2>1. Alike(a, b) /\ a \in Programs /\ b \in Programs
    BY ExpertAlike
  <2>2. Alike(c, d) /\ c \in Programs /\ d \in Programs
    <3>1. CASE l + 1 < NumLayers
      <4>1. l + 1 \in Layers
        BY <1>3, <3>1
      <4>2. c = AgDispatch(l + 1, mb, fx) /\ d = EgDispatch(l + 1, mb, fx)
        BY <3>1
      <4> HIDE DEF c, d
      <4> QED BY <4>1, <4>2, DispatchAlike
    <3>2. CASE ~(l + 1 < NumLayers)
      <4>1. c = <<>> /\ d = <<>> /\ <<>> \in Programs
        BY <3>2 DEF Programs
      <4> HIDE DEF c, d
      <4> QED BY <4>1 DEF Alike
    <3> QED BY <3>1, <3>2
  <2> HIDE DEF a, b, c, d
  <2>3. Alike(a \o c, b \o d) /\ a \o c \in Programs /\ b \o d \in Programs
    BY <2>1, <2>2, AlikeJoin
  <2> QED BY <2>3 DEF a, b, c, d
<1> HIDE DEF agOf, egOf
<1>6. ASSUME NEW l \in 1..NumLayers
      PROVE  /\ Alike(FlattenSeq(agAt(l - 1)), FlattenSeq(egAt(l - 1)))
             /\ FlattenSeq(agAt(l - 1)) \in Programs /\ FlattenSeq(egAt(l - 1)) \in Programs
  <2> DEFINE p == agAt(l - 1)
             q == egAt(l - 1)
  <2>1. \A m \in 1..n : /\ agOf(l - 1, m - 1) \in Programs /\ egOf(l - 1, m - 1) \in Programs
                            /\ Alike(agOf(l - 1, m - 1), egOf(l - 1, m - 1))
    BY <1>3, <1>5
  <2>2. p \in [1..n -> Programs] /\ q \in [1..n -> Programs]
        /\ \A m \in 1..n : Alike(p[m], q[m])
    BY <2>1
  <2> HIDE DEF p, q
  <2>3. Alike(FlattenSeq(p), FlattenSeq(q)) /\ FlattenSeq(p) \in Programs /\ FlattenSeq(q) \in Programs
    BY <1>3, <2>2, AlikeFlat
  <2> QED BY <2>3 DEF p, q
<1> HIDE DEF agAt, egAt
<1>7. Alike(FlattenSeq(ags), FlattenSeq(egs)) /\ FlattenSeq(ags) \in Programs /\ FlattenSeq(egs) \in Programs
  <2>1. ags \in [1..NumLayers -> Programs] /\ egs \in [1..NumLayers -> Programs]
        /\ \A l \in 1..NumLayers : Alike(ags[l], egs[l])
    BY <1>6
  <2> HIDE DEF ags, egs
  <2> QED BY <1>3, <2>1, AlikeFlat
<1> HIDE DEF ag0, eg0, ags, egs
<1> QED BY <1>1, <1>2, <1>4, <1>7, AlikeJoin

-----------------------------------------------------------------------------
(* The invariant: what has left a lane, the same gone on every rank, and   *)
(* what is on it, is what the rank's host has put there; and the mode of   *)
(* the step, from which every host has its program, is a mode.             *)
Issued(r, s) == OnLane(SubSeq(Program(r), 1, pc[r] - 1), s)

LaneInv ==
  /\ step.fixed \in BOOLEAN /\ step.num_mb \in 1..NumMb
  /\ pc \in [Ranks -> Nat] /\ \A r \in Ranks : pc[r] \in 1..(Len(Program(r)) + 1)
  /\ queue \in [Ranks -> Loads]
  /\ \A s \in Lanes : \E gone \in Seq(Jobs) : \A r \in Ranks : Issued(r, s) = gone \o queue[r][s]

LEMMA ProgramTypes ==
  ASSUME FirstDense = 0, step.fixed \in BOOLEAN, step.num_mb \in 1..NumMb
  PROVE  /\ \A r \in Ranks : Program(r) \in Programs
         /\ \A r, q \in Ranks : Alike(Program(r), Program(q))
<1>1. /\ Alike(AgProgram[step.num_mb][step.fixed], EgProgram[step.num_mb][step.fixed])
      /\ AgProgram[step.num_mb][step.fixed] \in Programs
      /\ EgProgram[step.num_mb][step.fixed] \in Programs
  BY ProgramsAlike
<1> QED BY <1>1, Zenon DEF Program, Alike

(* The work of a program's first parts, of one more, and of the rest.      *)
LEMMA PrefixParts ==
  ASSUME NEW p \in Programs, NEW n \in 1..(Len(p) + 1), NEW s \in Lanes
  PROVE  /\ OnLane(p, s) = OnLane(SubSeq(p, 1, n - 1), s) \o OnLane(SubSeq(p, n, Len(p)), s)
         /\ SubSeq(p, 1, n - 1) \in Programs /\ SubSeq(p, n, Len(p)) \in Programs
         /\ n <= Len(p) => /\ p[n] \in Seq(Jobs)
                           /\ OnLane(SubSeq(p, 1, n), s)
                                = OnLane(SubSeq(p, 1, n - 1), s) \o Put(p[n])[s]
<1> DEFINE a == SubSeq(p, 1, n - 1)
           b == SubSeq(p, n, Len(p))
<1>1. a \in Programs /\ b \in Programs /\ p = a \o b
  <2> DEFINE S == Seq(Jobs)
  <2>1. p \in Seq(S) /\ Len(p) \in Nat /\ n \in Nat /\ n - 1 \in Nat
        /\ \A i \in 1..Len(p) : p[i] \in S
    BY LenProperties, ElementOfSeq DEF Programs
  <2> HIDE DEF S
  <2>2. a \in Seq(S)
    <3>1. \A i \in 1..(n - 1) : p[i] \in S
      BY <2>1
    <3> QED BY <2>1, <3>1, SubSeqProperties
  <2>3. b \in Seq(S)
    <3>1. \A i \in n..Len(p) : p[i] \in S
      BY <2>1
    <3> QED BY <2>1, <3>1, SubSeqProperties
  <2>4. SubSeq(p, 1, n - 1) \o SubSeq(p, (n - 1) + 1, Len(p)) = SubSeq(p, 1, Len(p))
    <3>1. 1 \in 1..(Len(p) + 1) /\ n - 1 \in (1 - 1)..Len(p) /\ Len(p) \in (n - 1)..Len(p)
      BY <2>1
    <3> QED BY <2>1, <3>1, ConcatAdjacentSubSeq
  <2>5. SubSeq(p, 1, Len(p)) = p /\ (n - 1) + 1 = n
    BY <2>1, SubSeqFull
  <2> QED BY <2>2, <2>3, <2>4, <2>5 DEF S, Programs
<1>2. OnLane(a \o b, s) = OnLane(a, s) \o OnLane(b, s)
  <2> HIDE DEF a, b
  <2> QED BY <1>1, OnLaneJoin
<1>3. ASSUME n <= Len(p)
      PROVE  p[n] \in Seq(Jobs) /\ OnLane(SubSeq(p, 1, n), s) = OnLane(a, s) \o Put(p[n])[s]
  <2> DEFINE w == p[n]
             c == <<w>>
  <2>1. w \in Seq(Jobs) /\ SubSeq(p, 1, n) = a \o c
    BY <1>3 DEF Programs
  <2> HIDE DEF a, w
  <2>2. c \in Programs /\ OnLane(c, s) = Put(w)[s]
    BY <2>1, OnLaneOne
  <2> HIDE DEF c
  <2>3. OnLane(a \o c, s) = OnLane(a, s) \o OnLane(c, s)
    BY <1>1, <2>2, OnLaneJoin
  <2> QED BY <2>1, <2>2, <2>3, Zenon DEF w
<1> QED BY <1>1, <1>2, <1>3

LEMMA LaneInit ==
  ASSUME FirstDense = 0, Init
  PROVE  LaneInv
<1>1. step.fixed \in BOOLEAN /\ step.num_mb \in 1..NumMb
  BY PipelineAssumption DEF Init
<1>2. \A r \in Ranks : pc[r] = 1 /\ pc[r] \in Nat /\ Program(r) \in Programs
  BY <1>1, ProgramTypes DEF Init
<1>3. pc \in [Ranks -> Nat] /\ \A r \in Ranks : pc[r] \in 1..(Len(Program(r)) + 1)
  <2>1. \A p \in Programs : Len(p) \in Nat
    BY LenProperties DEF Programs
  <2>2. \A r \in Ranks : Len(Program(r)) \in Nat
    BY <1>2, <2>1, Zenon
  <2>3. pc \in [Ranks -> Nat]
    BY DEF Init
  <2> QED BY <1>2, <2>2, <2>3
<1>4. /\ queue \in [Ranks -> Loads]
      /\ \A r \in Ranks : \A s \in Streams : queue[r][s] = <<>>
  <2>1. <<>> \in Seq(Jobs)
    OBVIOUS
  <2> QED BY <2>1 DEF Init, Loads
<1>5. ASSUME NEW s \in Lanes
      PROVE  \E gone \in Seq(Jobs) : \A r \in Ranks : Issued(r, s) = gone \o queue[r][s]
  <2>1. Put(<<>>)[s] = <<>>
    <3>1. 0 \in Layers /\ 0 \in Mbs
      BY Numbers DEF Layers, Mbs
    <3>2. Work("compute", 0, 0) \in Jobs /\ Work("compute", 0, 0).do = "compute"
      BY <3>1, WorkIsJob
    <3> QED BY <3>2, PutEngine
  <2>2. <<>> \in Seq(Jobs) /\ <<>> \o <<>> = <<>>
    OBVIOUS
  <2>3. OnLane(<<>>, s) = <<>>
    BY <2>1, <2>2, OnLaneOne, Zenon
  <2>4. ASSUME NEW r \in Ranks PROVE Issued(r, s) = <<>> \o queue[r][s]
    <3>1. pc[r] - 1 = 0 /\ SubSeq(Program(r), 1, 0) = <<>>
      BY <1>2, SubSeqEmpty
    <3>2. s \in Streams
      BY Numbers
    <3>3. queue[r][s] = <<>>
      BY <1>4, <3>2, Zenon
    <3> QED BY <2>2, <2>3, <3>1, <3>3, Zenon DEF Issued
  <2> QED BY <2>2, <2>4, Zenon
<1> QED BY <1>1, <1>3, <1>4, <1>5, Zenon DEF LaneInv

(* A step that changes neither a program position nor a lane.              *)
LEMMA LaneKept ==
  ASSUME FirstDense = 0, LaneInv, step' = step, pc' = pc, queue' \in [Ranks -> Loads],
         \A r \in Ranks : \A s \in Lanes : queue'[r][s] = queue[r][s]
  PROVE  LaneInv'
<1>1. \A r \in Ranks : Program(r)' = Program(r)
  BY DEF Program
<1>2. \A r \in Ranks : \A s \in Lanes : Issued(r, s)' = Issued(r, s)
  BY <1>1 DEF Issued
<1>3. ASSUME NEW s \in Lanes
      PROVE  \E gone \in Seq(Jobs) : \A r \in Ranks : Issued(r, s)' = gone \o queue'[r][s]
  <2>1. PICK gone \in Seq(Jobs) : \A r \in Ranks : Issued(r, s) = gone \o queue[r][s]
    BY DEF LaneInv
  <2>2. \A r \in Ranks : Issued(r, s)' = gone \o queue'[r][s]
    BY <1>2, <2>1, Zenon
  <2> QED BY <2>2
<1> QED BY <1>1, <1>3 DEF LaneInv

(* What an engine stream does leaves the lanes alone.                      *)
LEMMA RanKeeps ==
  ASSUME LaneInv, NEW r \in Ranks, Ready(r, Engine), Ran(r, Engine)
  PROVE  /\ queue' \in [Ranks -> Loads]
         /\ \A q \in Ranks : \A s \in Lanes : queue'[q][s] = queue[q][s]
<1>1. queue \in [Ranks -> Loads] /\ Engine \in Streams /\ \A s \in Lanes : s \in Streams /\ s # Engine
  BY Numbers DEF LaneInv
<1>2. queue[r] \in Loads /\ queue[r][Engine] \in Seq(Jobs)
  BY <1>1 DEF Loads
<1>3. Tail(queue[r][Engine]) \in Seq(Jobs)
  BY <1>2, HeadTailProperties DEF Ready
<1> DEFINE rest == Tail(queue[r][Engine])
           left == [queue[r] EXCEPT ![Engine] = rest]
<1>4. queue' = [queue EXCEPT ![r] = left]
  BY DEF Ran
<1> HIDE DEF rest
<1>5. left \in Loads /\ \A s \in Lanes : left[s] = queue[r][s]
  BY <1>1, <1>2, <1>3 DEF Loads, rest
<1> HIDE DEF left
<1> QED BY <1>1, <1>4, <1>5

(* The next part of a program goes onto the streams.                       *)
LEMMA LaneIssue ==
  ASSUME FirstDense = 0, LaneInv, NEW h \in Ranks, Issue(h)
  PROVE  LaneInv'
<1> DEFINE p == Program(h)
           n == pc[h]
           part == p[n]
<1>1. /\ step.fixed \in BOOLEAN /\ step.num_mb \in 1..NumMb /\ step' = step
      /\ pc' = [pc EXCEPT ![h] = n + 1]
      /\ queue' = [queue EXCEPT ![h] = FoldLeft(Enqueue, queue[h], part)]
  BY DEF LaneInv, Issue
<1>2. /\ pc \in [Ranks -> Nat] /\ queue \in [Ranks -> Loads]
      /\ \A r \in Ranks : pc[r] \in 1..(Len(Program(r)) + 1)
  BY DEF LaneInv
<1>3. \A r \in Ranks : Program(r)' = Program(r) /\ Program(r) \in Programs
  BY <1>1, ProgramTypes DEF Program
<1>4. p \in Programs /\ n \in 1..(Len(p) + 1) /\ n <= Len(p) /\ Len(p) \in Nat /\ n \in Nat
  <2>1. Len(p) \in Nat
    BY <1>3, LenProperties DEF Programs
  <2> QED BY <1>2, <1>3, <2>1 DEF Issue, AtEnd
<1> HIDE DEF p, n
<1>5. part \in Seq(Jobs)
  <2>1. 0 \in Lanes
    BY Numbers DEF Lanes
  <2> QED BY <1>4, <2>1, PrefixParts
<1>6. queue[h] \in Loads
  BY <1>2
<1> HIDE DEF part
<1>7. queue' \in [Ranks -> Loads]
  <2>1. FoldLeft(Enqueue, queue[h], part) \in Loads
    BY <1>5, <1>6, PutOnto
  <2> QED BY <1>1, <1>2, <2>1
<1>8. pc' \in [Ranks -> Nat] /\ \A r \in Ranks : pc'[r] \in 1..(Len(Program(r)') + 1)
  BY <1>1, <1>2, <1>3, <1>4 DEF p
<1>9. ASSUME NEW s \in Lanes
      PROVE  \E gone \in Seq(Jobs) : \A r \in Ranks : Issued(r, s)' = gone \o queue'[r][s]
  <2>1. PICK gone \in Seq(Jobs) : \A r \in Ranks : Issued(r, s) = gone \o queue[r][s]
    BY DEF LaneInv
  <2>2. ASSUME NEW r \in Ranks, r # h PROVE Issued(r, s)' = gone \o queue'[r][s]
    <3>1. pc'[r] = pc[r] /\ queue'[r] = queue[r] /\ Program(r)' = Program(r)
      BY <1>1, <1>2, <1>3, <2>2
    <3>2. Issued(r, s)' = Issued(r, s)
      BY <3>1, Zenon DEF Issued
    <3> QED BY <2>1, <3>1, <3>2, Zenon
  <2>3. Issued(h, s)' = gone \o queue'[h][s]
    <3> DEFINE x == queue[h][s]
               y == Put(part)[s]
    <3>1. x \in Seq(Jobs) /\ y \in Seq(Jobs) /\ s \in Streams
      <4>1. s \in Streams
        BY Numbers
      <4> QED BY <1>5, <1>6, <4>1, PutJoin DEF Loads
    <3>2. queue'[h][s] = x \o y
      <4>1. FoldLeft(Enqueue, queue[h], part)[s] = x \o y
        BY <1>5, <1>6, <3>1, PutOnto
      <4>2. queue'[h] = FoldLeft(Enqueue, queue[h], part)
        BY <1>1, <1>2
      <4> QED BY <4>1, <4>2, Zenon
    <3>3. Issued(h, s) = OnLane(SubSeq(p, 1, n - 1), s) /\ Issued(h, s) = gone \o x
      BY <2>1 DEF Issued, p, n
    <3>4. Issued(h, s)' = OnLane(SubSeq(p, 1, n), s)
      <4>1. pc'[h] = n + 1 /\ (n + 1) - 1 = n /\ Program(h)' = p
        BY <1>1, <1>2, <1>3, <1>4 DEF p
      <4>2. Issued(h, s)' = OnLane(SubSeq(Program(h)', 1, pc'[h] - 1), s)
        BY DEF Issued
      <4> QED BY <4>1, <4>2
    <3>5. OnLane(SubSeq(p, 1, n), s) = OnLane(SubSeq(p, 1, n - 1), s) \o y
      BY <1>4, PrefixParts DEF part
    <3> HIDE DEF x, y
    <3>6. (gone \o x) \o y = gone \o (x \o y)
      BY <3>1, ConcatAssociative
    <3> QED BY <3>2, <3>3, <3>4, <3>5, <3>6, Zenon
  <2>4. \A r \in Ranks : Issued(r, s)' = gone \o queue'[r][s]
    BY <2>2, <2>3
  <2> QED BY <2>4
<1> QED BY <1>1, <1>7, <1>8, <1>9 DEF LaneInv

(* A collective takes the same piece off its lane on every rank.           *)
LEMMA LaneCollect ==
  ASSUME FirstDense = 0, LaneInv, NEW c \in Lanes, Collect(c)
  PROVE  LaneInv'
<1> DEFINE e == First(0, c)
           taken == [r \in Ranks |-> [queue[r] EXCEPT ![c] = Tail(queue[r][c])]]
<1>1. /\ \A r \in Ranks : queue[r][c] # <<>> /\ Head(queue[r][c]) = e
      /\ queue' = taken /\ step' = step /\ pc' = pc
  BY DEF Collect, Gathered, Ready, First
<1>2. queue \in [Ranks -> Loads] /\ \A s \in Lanes : s \in Streams
  BY Numbers DEF LaneInv
<1>3. ASSUME NEW r \in Ranks
      PROVE  /\ queue[r][c] \in Seq(Jobs) /\ Tail(queue[r][c]) \in Seq(Jobs) /\ e \in Jobs
             /\ queue[r][c] = <<e>> \o Tail(queue[r][c])
  <2> DEFINE x == queue[r][c]
  <2>1. x \in Seq(Jobs) /\ x # <<>> /\ Head(x) = e
    BY <1>1, <1>2 DEF Loads
  <2> HIDE DEF x, e
  <2>2. Tail(x) \in Seq(Jobs) /\ e \in Jobs
    BY <2>1, HeadTailProperties
  <2>3. x = <<e>> \o Tail(x)
    <3>1. /\ Len(x) \in Nat /\ 1 \in 1..Len(x) /\ Len(x) \in 1..Len(x)
          /\ SubSeq(x, 1, Len(x)) = x
      BY <2>1, EmptySeq, SubSeqFull
    <3>2. x = <<x[1]>> \o SubSeq(x, 2, Len(x))
      BY <2>1, <3>1, SubSeqRecursiveFirst
    <3>3. Tail(x) = SubSeq(x, 2, Len(x)) /\ Head(x) = x[1]
      BY <2>1, TailIsSubSeq
    <3> QED BY <2>1, <3>2, <3>3
  <2> QED BY <2>1, <2>2, <2>3 DEF x
<1> HIDE DEF e
<1>4. /\ \A r \in Ranks : queue'[r][c] = Tail(queue[r][c])
      /\ \A r \in Ranks : \A s \in Lanes : s # c => queue'[r][s] = queue[r][s]
  BY <1>1, <1>2 DEF Loads
<1>5. queue' \in [Ranks -> Loads]
  BY <1>1, <1>2, <1>3 DEF Loads
<1>6. \A r \in Ranks : Program(r)' = Program(r)
  BY <1>1 DEF Program
<1>7. \A r \in Ranks : \A s \in Lanes : Issued(r, s)' = Issued(r, s)
  BY <1>1, <1>6 DEF Issued
<1>8. ASSUME NEW s \in Lanes
      PROVE  \E gone \in Seq(Jobs) : \A r \in Ranks : Issued(r, s)' = gone \o queue'[r][s]
  <2>1. PICK gone \in Seq(Jobs) : \A r \in Ranks : Issued(r, s) = gone \o queue[r][s]
    BY DEF LaneInv
  <2>2. CASE s # c
    <3>1. \A r \in Ranks : Issued(r, s)' = gone \o queue'[r][s]
      BY <1>4, <1>7, <2>1, <2>2, Zenon
    <3> QED BY <3>1
  <2>3. CASE s = c
    <3> DEFINE one == <<e>>
               next == gone \o one
    <3>1. 0 \in Ranks
      BY DispatchAssumption DEF Ranks, World
    <3>2. one \in Seq(Jobs)
      BY <1>3, <3>1
    <3>3. next \in Seq(Jobs)
      <4> HIDE DEF one
      <4> QED BY <3>2, ConcatProperties
    <3>4. ASSUME NEW r \in Ranks PROVE Issued(r, s)' = next \o queue'[r][s]
      <4> DEFINE y == Tail(queue[r][c])
      <4>1. y \in Seq(Jobs) /\ queue[r][c] = one \o y /\ queue'[r][c] = y
        BY <1>3, <1>4
      <4>2. Issued(r, s)' = gone \o queue[r][c]
        BY <1>7, <2>1, <2>3, Zenon
      <4> HIDE DEF one, y
      <4>3. (gone \o one) \o y = gone \o (one \o y)
        BY <3>2, <4>1, ConcatAssociative
      <4> QED BY <2>3, <4>1, <4>2, <4>3, Zenon
    <3> HIDE DEF next
    <3> QED BY <3>3, <3>4, Zenon
  <2> QED BY <2>2, <2>3
<1> QED BY <1>1, <1>5, <1>6, <1>8 DEF LaneInv

LEMMA LaneNext ==
  ASSUME FirstDense = 0, LaneInv, [Next]_vars
  PROVE  LaneInv'
<1>q. queue \in [Ranks -> Loads]
  BY DEF LaneInv
<1>1. CASE \E r \in Ranks : Issue(r)
  BY <1>1, LaneIssue
<1>2. CASE \E r \in Ranks : ForceRetire(r)
  <2>1. step' = step /\ pc' = pc /\ queue' = queue
    BY <1>2 DEF ForceRetire
  <2> QED BY <1>q, <2>1, LaneKept
<1>3. CASE \E r \in Ranks : RunCompute(r)
  <2>1. PICK r \in Ranks : RunCompute(r)
    BY <1>3
  <2>2. Ready(r, Engine) /\ Ran(r, Engine) /\ step' = step /\ pc' = pc
    BY <2>1 DEF RunCompute
  <2>3. /\ queue' \in [Ranks -> Loads]
        /\ \A q \in Ranks : \A s \in Lanes : queue'[q][s] = queue[q][s]
    BY <2>2, RanKeeps
  <2> QED BY <2>2, <2>3, LaneKept
<1>4. CASE \E r \in Ranks : RunExpert(r)
  <2>1. PICK r \in Ranks : RunExpert(r)
    BY <1>4
  <2>2. Ready(r, Engine) /\ Ran(r, Engine) /\ step' = step /\ pc' = pc
    BY <2>1 DEF RunExpert
  <2>3. /\ queue' \in [Ranks -> Loads]
        /\ \A q \in Ranks : \A s \in Lanes : queue'[q][s] = queue[q][s]
    BY <2>2, RanKeeps
  <2> QED BY <2>2, <2>3, LaneKept
<1>5. CASE \E s \in Lanes : Collect(s)
  BY <1>5, LaneCollect
<1>6. CASE Done \/ UNCHANGED vars
  <2>1. step' = step /\ pc' = pc /\ queue' = queue
    BY <1>6 DEF Done, vars
  <2> QED BY <1>q, <2>1, LaneKept
<1> QED BY <1>1, <1>2, <1>3, <1>4, <1>5, <1>6 DEF Next, HostStep, DeviceStep

(* What is first on a lane is the next piece of the list all ranks share.  *)
LEMMA LaneMatch ==
  ASSUME FirstDense = 0, LaneInv
  PROVE  CollectivesMatch
<1>1. SUFFICES ASSUME NEW s \in Lanes, Gathered(s), NEW r \in Ranks
               PROVE  First(r, s) = First(0, s)
  BY DEF CollectivesMatch
<1>2. PICK gone \in Seq(Jobs) : \A q \in Ranks : Issued(q, s) = gone \o queue[q][s]
  BY DEF LaneInv
<1>3. 0 \in Ranks /\ s \in Streams /\ Len(gone) \in Nat
  BY DispatchAssumption, Numbers, LenProperties DEF Ranks, World
<1> DEFINE all(q) == OnLane(Program(q), s)
<1>4. ASSUME NEW q \in Ranks PROVE all(q)[Len(gone) + 1] = First(q, s)
  <2> DEFINE p == Program(q)
             n == pc[q]
             x == queue[q][s]
             y == OnLane(SubSeq(p, n, Len(p)), s)
  <2>1. p \in Programs /\ n \in 1..(Len(p) + 1)
    BY ProgramTypes DEF LaneInv
  <2>2. x \in Seq(Jobs) /\ x # <<>> /\ First(q, s) = Head(x)
    BY <1>1, <1>3 DEF LaneInv, Loads, Gathered, Ready, First
  <2>3. Issued(q, s) = OnLane(SubSeq(p, 1, n - 1), s) /\ Issued(q, s) = gone \o x
    BY <1>2 DEF Issued
  <2> HIDE DEF p, n
  <2>4. all(q) = OnLane(SubSeq(p, 1, n - 1), s) \o y /\ y \in Seq(Jobs)
    BY <2>1, PrefixParts, OnLaneType DEF p
  <2> HIDE DEF x, y
  <2>5. all(q) = (gone \o x) \o y
    BY <2>3, <2>4, Zenon
  <2> DEFINE gx == gone \o x
             g == Len(gone)
  <2>6. Len(x) \in Nat \ {0} /\ Head(x) = x[1] /\ Len(y) \in Nat
    BY <2>2, <2>4, EmptySeq, LenProperties
  <2>7. gx \in Seq(Jobs) /\ Len(gx) = g + Len(x) /\ gx[g + 1] = x[1]
    <3>1. /\ gx \in Seq(Jobs) /\ Len(gx) = g + Len(x)
          /\ \A i \in 1..(g + Len(x)) : gx[i] = IF i <= g THEN gone[i] ELSE x[i - g]
      BY <2>2, ConcatProperties
    <3> HIDE DEF gx, g
    <3>2. g \in Nat
      BY <1>3 DEF g
    <3>3. g + 1 \in 1..(g + Len(x)) /\ ~(g + 1 <= g) /\ (g + 1) - g = 1
      BY <2>6, <3>2
    <3> QED BY <3>1, <3>3
  <2> HIDE DEF gx
  <2>8. (gx \o y)[g + 1] = gx[g + 1]
    <3>1. /\ \A i \in 1..(Len(gx) + Len(y)) :
               (gx \o y)[i] = IF i <= Len(gx) THEN gx[i] ELSE y[i - Len(gx)]
      BY <2>4, <2>7, ConcatProperties
    <3>2. g + 1 \in 1..(Len(gx) + Len(y)) /\ g + 1 <= Len(gx)
      BY <1>3, <2>6, <2>7
    <3> QED BY <3>1, <3>2
  <2> QED BY <2>2, <2>5, <2>6, <2>7, <2>8 DEF gx
<1>5. all(r) = all(0)
  <2>1. Alike(Program(r), Program(0))
    BY <1>3, ProgramTypes DEF LaneInv
  <2> QED BY <2>1, Zenon DEF Alike
<1> HIDE DEF all
<1> QED BY <1>3, <1>4, <1>5, Zenon

(* "This mirrors the AG pipeline order without a separate schedule object" *)
(* (afd_expert_worker.py:214), for every number of layers, micro-batches,  *)
(* lanes and ranks, both modes of exchange and every interleaving of hosts *)
(* and streams: where no layer is dense, ranks that meet in a collective   *)
(* mean the same exchange of the same layer and micro-batch.  (Where a     *)
(* layer is dense they do not.)                                            *)
THEOREM CollectivesMean ==
  ASSUME FirstDense = 0
  PROVE  Spec => []CollectivesMatch
<1>1. Init => LaneInv
  BY LaneInit
<1>2. LaneInv /\ [Next]_vars => LaneInv'
  BY LaneNext
<1>3. LaneInv => CollectivesMatch
  BY LaneMatch
<1> QED BY <1>1, <1>2, <1>3, PTL DEF Spec
=============================================================================
