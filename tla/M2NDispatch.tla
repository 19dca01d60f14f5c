----------------------------- MODULE M2NDispatch -----------------------------
(***************************************************************************)
(* The attention-to-expert transport of RcclM2NAdapter as operators: which *)
(* row each rank sends where (the send plan), how an expert rank groups    *)
(* what arrives, and how combine brings each result back to its token.     *)
(*                                                                         *)
(* Ranks are 0..World-1, attention ranks first.  A batch of T tokens with  *)
(* TopK choices each is its flat sequence of T * TopK expert ids, -1 for a *)
(* slot that is not routed; slot i belongs to token (i - 1) \div TopK.     *)
(* A row that travels names its source rank, slot and expert (the hidden   *)
(* vector and the weight of that slot travel with it).  Dynamic exchanges  *)
(* use split sizes agreed by an exchange of counts; fixed-shape exchanges  *)
(* pad every block to Capacity rows and need no counts.                    *)
(***************************************************************************)
EXTENDS Integers, Sequences, FiniteSets, SequencesExt, FiniteSetsExt

CONSTANTS
  AgSize, EgSize,   \* attention ranks, expert ranks
  NumExperts,       \* real experts
  TopK,             \* num_experts_per_tok
  Bucket            \* dispatch_bucket of the step: tokens per rank at most

ASSUME DispatchAssumption ==
  /\ AgSize \in Nat \ {0} /\ EgSize \in Nat \ {0} /\ NumExperts \in Nat \ {0}
  /\ TopK \in Nat \ {0} /\ Bucket \in Nat \ {0}

(* DeepEPUnionM2NLayout *)
World          == AgSize + EgSize
Ranks          == 0..(World - 1)
AgRanks        == 0..(AgSize - 1)
EgRanks        == AgSize..(World - 1)
ExpertsPerRank == (NumExperts + EgSize - 1) \div EgSize
DummyOffset    == AgSize * ExpertsPerRank
FirstLocal(r)  == (r - AgSize) * ExpertsPerRank

(* remap_real_to_deepep_experts, and its inverse at the top of dispatch *)
Remap(id)   == IF id >= 0 THEN id + DummyOffset ELSE id
Unremap_Clipped(id) == IF id >= DummyOffset + ExpertsPerRank             \* mutant
                       THEN id - ExpertsPerRank - DummyOffset ELSE id - DummyOffset
Unremap(id) == IF id >= 0 THEN id - DummyOffset ELSE id
RealIds(ids) == [i \in DOMAIN ids |-> Unremap(Remap(ids[i]))]

Capacity  == Bucket * TopK
NumSlots  == World * Capacity
Token(i)  == (i - 1) \div TopK
Padding   == [src |-> -1, slot |-> 0, expert |-> -1, good |-> TRUE]
-----------------------------------------------------------------------------
(* torch.argsort(key, stable=True): the positions of key in sorted order.  *)
Argsort(key) ==
  SortSeq([i \in DOMAIN key |-> i],
          LAMBDA i, j : key[i] < key[j] \/ (key[i] = key[j] /\ i < j))

(* _plan_kernel and _group_kernel: element i is stored at the number of    *)
(* smaller keys plus the number of earlier equal ones.                     *)
KernelPos(key, i) == 1 + Cardinality({j \in DOMAIN key : key[j] < key[i]})
                       + Cardinality({j \in DOMAIN key : key[j] = key[i] /\ j < i})
KernelSort_Unranked(key) ==                                             \* mutant
  LET start(i) == 1 + Cardinality({j \in DOMAIN key : key[j] < key[i]})
      stored(p) == {i \in DOMAIN key : start(i) = p}
  IN [p \in DOMAIN key |-> IF stored(p) = {} THEN 1 ELSE Max(stored(p))]
KernelSort(key) ==
  [p \in DOMAIN key |-> CHOOSE i \in DOMAIN key : KernelPos(key, i) = p]

Sort(key, fused) == IF fused THEN KernelSort(key) ELSE Argsort(key)

(* The send plan of dispatch: destination rank of every slot (World for a  *)
(* slot that is not routed, so that it sorts last) and the sorted order.   *)
DestOf_Interleaved(id) == IF id >= 0 THEN AgSize + (id % EgSize) ELSE World  \* mutant
DestOf(id)       == IF id >= 0 THEN AgSize + id \div ExpertsPerRank ELSE World
Keys(ids)        == [i \in DOMAIN ids |-> DestOf(ids[i])]
SendCount(ids, d) == Cardinality({i \in DOMAIN ids : DestOf(ids[i]) = d})
SendOrder(ids, fused) == Sort(Keys(ids), fused)
Before(ids, d)   == MapThenSumSet(LAMBDA e : SendCount(ids, e), 0..(d - 1))
NumValid(ids)    == Before(ids, World)

Row(src, ids, i, good) == [src |-> src, slot |-> i, expert |-> ids[i], good |-> good]

(* The block rank src sends to rank d: a slice of the sorted rows, or      *)
(* Capacity rows of the staging buffer with padding behind the real ones.  *)
SendBlock(src, ids, d, fused, good) ==
  LET order == SendOrder(ids, fused)
  IN [p \in 1..SendCount(ids, d) |-> Row(src, ids, order[Before(ids, d) + p], good)]
StagedBlock(src, ids, d, fused, good) ==
  LET real == SendBlock(src, ids, d, fused, good)
  IN [p \in 1..Capacity |-> IF p <= Len(real) THEN real[p] ELSE Padding]
Block(src, ids, d, fused, fixed, good) ==
  IF fixed THEN StagedBlock(src, ids, d, fused, good) ELSE SendBlock(src, ids, d, fused, good)

(* all_to_all_single: rank d receives the blocks sent to it in rank order. *)
Received(send, d) == FlattenSeq([s \in 1..World |-> send[s - 1][d]])
-----------------------------------------------------------------------------
(* Grouping by expert at rank r: the order of the rows (padding last) and  *)
(* recv_count, the inclusive prefix sums of the rows of each local expert. *)
LocalOf(r, row) == row.expert - FirstLocal(r)
Clamped(r, row) == Max({0, Min({LocalOf(r, row), ExpertsPerRank - 1})})
GroupKey(r, row, fixed) ==
  IF ~fixed THEN row.expert
  ELSE IF row.expert >= 0 THEN LocalOf(r, row) ELSE ExpertsPerRank
GroupOrder(r, rows, fused, fixed) ==
  Sort([p \in DOMAIN rows |-> GroupKey(r, rows[p], fixed)], fused /\ ~fixed)
Counted(r, row, fixed) == IF fixed THEN GroupKey(r, row, fixed) ELSE Clamped(r, row)
RecvCount_Exclusive(r, rows, fixed) ==                                  \* mutant
  [e \in 0..(ExpertsPerRank - 1) |-> Cardinality({p \in DOMAIN rows : Counted(r, rows[p], fixed) < e})]
RecvCount(r, rows, fixed) ==
  [e \in 0..(ExpertsPerRank - 1) |-> Cardinality({p \in DOMAIN rows : Counted(r, rows[p], fixed) <= e})]
Grouped(r, rows, fused, fixed) ==
  LET order == GroupOrder(r, rows, fused, fixed) IN [p \in DOMAIN rows |-> rows[order[p]]]

(* The Triton expert runner: every row is a token whose one expert is its  *)
(* local id; moe_align_block_size counts ids from -1, a row that is not    *)
(* routed, to the last local expert, and below -1 it counts outside its    *)
(* array, after which its results are right or all lost (Miscounted).      *)
Unwritten  == [src |-> -1, slot |-> 0, expert |-> -1, good |-> FALSE]
Miscounted == [src |-> -2, slot |-> 0, expert |-> -1, good |-> FALSE]
CountsInside(r, rows) == \A p \in DOMAIN rows : LocalOf(r, rows[p]) \in -1..(ExpertsPerRank - 1)
RunExperts(r, rows) ==
  [p \in DOMAIN rows |-> IF LocalOf(r, rows[p]) >= 0 THEN rows[p] ELSE Unwritten]
-----------------------------------------------------------------------------
(* combine at rank r: undo the grouping, so that the rows are in arrival   *)
(* order again, and cut them into the blocks of their senders.             *)
Ungrouped(out, order) == [q \in DOMAIN out |-> out[CHOOSE p \in DOMAIN order : order[p] = q]]
ReturnBlock(rows, sizes, s) ==
  LET start == MapThenSumSet(LAMBDA e : sizes[e], 0..(s - 1))
  IN SubSeq(rows, start + 1, start + sizes[s])

(* The rows that come back to rank src, in the order it sent them, added   *)
(* to the tokens of their slots: for each token, what was added.           *)
Back(ret, src) == FlattenSeq([d \in 1..World |-> ret[d - 1][src]])
FixedDst(ids, order, p) ==
  LET d == DestOf(ids[order[p]]) IN d * Capacity + (p - Before(ids, d))
Sums(ids, back, fused, fixed) ==
  LET order == SendOrder(ids, fused)
      part  == 1..NumValid(ids)
      row(p) == IF fixed THEN back[FixedDst(ids, order, p)] ELSE back[p]
  IN [t \in 0..((Len(ids) \div TopK) - 1) |->
        LET ps == SelectSeq([p \in part |-> p], LAMBDA p : Token(order[p]) = t)
        IN [n \in DOMAIN ps |-> row(ps[n])]]

(* What a token should get: one result of every expert it was routed to,   *)
(* computed from its own hidden vector.                                    *)
RoutedTo(src, ids, t) == {Row(src, ids, i, TRUE) : i \in {j \in DOMAIN ids : ids[j] >= 0 /\ Token(j) = t}}
IsSumOf(sum, rows) == Range(sum) = rows /\ Len(sum) = Cardinality(rows)
=============================================================================
