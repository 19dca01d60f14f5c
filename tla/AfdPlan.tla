------------------------------- MODULE AfdPlan -------------------------------
(***************************************************************************)
(* What one global AFD step tells its workers: how the launch sizes its    *)
(* decode graphs, how the central scheduler of a lane pads a batch and     *)
(* splits it into micro-batches, how the coordinator gives the lanes one   *)
(* dispatch bucket and fills idle lanes, and how the attention workers     *)
(* rebuild from the plan the order of rows the coordinator meant.          *)
(*                                                                         *)
(* A lane is one attention data-parallel rank.  A batch is the sequence of *)
(* its requests' extend lengths; a padded batch is a sequence of indices   *)
(* into it, 0 for the dummy request, which is one token long.              *)
(***************************************************************************)
EXTENDS Integers, Sequences, FiniteSets, SequencesExt, FiniteSetsExt

CONSTANTS
  Launches,    \* the server arguments tried (see Sizing)
  MaxLen,      \* longest chunk of a prompt
  MaxBatch     \* requests of a lane in a step

VARIABLES
  launch,      \* the arguments of this server
  step         \* the last step: [phase, batches, plans, bucket, graph], or Idle

vars == <<launch, step>>
Idle == [phase |-> "none"]
CeilDiv(a, b) == (a + b - 1) \div b
Sum(s) == FoldSeq(+, 0, s)
-----------------------------------------------------------------------------
(* AfdTopology: lanes and ranks.                                           *)
Divides(a, b) == Max({a, b}) % Min({a, b}) = 0
MlpWorld(t)   == t.mlpDp * t.mlpTp
Supported(t) ==
  /\ Divides(t.attnDp, t.mlpDp) /\ Divides(t.attnTp, t.mlpTp)
  /\ MlpWorld(t) % t.ep = 0
  /\ t.ep \in {1, t.mlpTp, MlpWorld(t)}
Fanout(t)     == Max({1, t.mlpDp \div t.attnDp})
AttnRank(t, a, i) == a * t.attnTp + i
MlpRank(t, d, i)  == t.attnDp * t.attnTp + d * t.mlpTp + i
AttnGroup(t, a) == {AttnRank(t, a, i) : i \in 0..(t.attnTp - 1)}
MlpGroup(t, d)  == {MlpRank(t, d, i) : i \in 0..(t.mlpTp - 1)}
Groups(t) == {AttnGroup(t, a) : a \in 0..(t.attnDp - 1)}
             \union {MlpGroup(t, d) : d \in 0..(t.mlpDp - 1)}

(* Whom the coordinator sends the commands of a step to.                   *)
AgTargets(t, a) == (a * t.attnTp)..((a + 1) * t.attnTp - 1)
EgTargets(t)    == UNION {MlpGroup(t, d) : d \in 0..(t.mlpDp - 1)}
-----------------------------------------------------------------------------
(* build_runtime_sizing and _refresh_runtime_sizing: the buckets to        *)
(* capture, in requests of a micro-batch, and the requests a lane holds.   *)
Captures(l) == /\ l.cache = "naive"
               /\ \/ l.backend \in {"fi", "triton_decode"} /\ l.page = 1
                  \/ l.backend = "trtllm" /\ l.page \in {16, 32, 64}
DefaultBuckets(most) ==
  {b \in {1, 2, 4} \union {8 * k : k \in 1..32} \union {256 + 16 * k : k \in 1..most} : b <= most}
Requested(l) == IF l.explicit # {} THEN {b \in l.explicit : b > 0} ELSE DefaultBuckets(l.graphMax)
PerMicroBatch(l) ==
  Max({1, CeilDiv(IF l.maxRunning > 0 THEN l.maxRunning ELSE Max({l.batch, 1}), l.mb)})
Buckets(l) ==
  {b \in Requested(l) : Captures(l) /\ (l.mb > 1 => b <= PerMicroBatch(l))}
MaxGraph(l)   == Max(Buckets(l) \union {0})
MaxRunning(l) == IF l.maxRunning > 0 THEN l.maxRunning ELSE Max({l.batch, MaxGraph(l), 1})
LaneRunning(l) == Max({1, CeilDiv(MaxRunning(l), l.topology.attnDp)})
-----------------------------------------------------------------------------
(* _select_padded_size.  A bucket that covers a micro-batch pads it; a     *)
(* batch no bucket covers stays as it is, or becomes equal micro-batches   *)
(* where a lane feeds several expert lanes.                                *)
PaddedSize(l, phase, n) ==
  LET perMb    == CeilDiv(n, l.mb)
      covering == {b \in Buckets(l) : b >= perMb}
  IN CASE phase = "prefill"  -> Max({n, l.mb})
       [] covering # {}      -> Min(covering) * l.mb
       [] Buckets(l) # {} /\ Fanout(l.topology) > 1 -> perMb * l.mb
       [] OTHER              -> n

(* n things in m nearly equal parts, the larger ones first.                *)
Parts(n, m) == [i \in 1..m |-> n \div m + (IF i <= n % m THEN 1 ELSE 0)]
Starts(parts) == [i \in 1..(Len(parts) + 1) |-> Sum(SubSeq(parts, 1, i - 1))]

(* _pad_and_split_batch: a decode batch gives each micro-batch its share   *)
(* of requests and then its dummies; other padding goes to the end.        *)
Filled(counts, spans) ==
  FlattenSeq([i \in DOMAIN counts |->
    [j \in 1..spans[i] |-> IF j <= counts[i] THEN Starts(counts)[i] + j ELSE 0]])
AtEnd(n, size) == [j \in 1..size |-> IF j <= n THEN j ELSE 0]
Padded_AtEnd(l, phase, n) == AtEnd(n, PaddedSize(l, phase, n))          \* mutant
Padded(l, phase, n) ==
  LET size == PaddedSize(l, phase, n)
  IN IF phase = "decode" /\ l.mb > 1 /\ size > n
     THEN Filled(Parts(n, l.mb), Parts(size, l.mb)) ELSE AtEnd(n, size)

(* _compute_microbatch_offsets: requests before each micro-batch.  Prompts *)
(* are cut where the tokens come nearest to equal shares, the first time   *)
(* that one more request brings them no nearer.                            *)
Cut(tokens, target, lo, hi) ==
  LET far(i) == IF tokens[i + 1] > target THEN tokens[i + 1] - target ELSE target - tokens[i + 1]
  IN Min({i \in lo..hi : i = hi \/ far(i + 1) >= far(i)})
Offsets(l, phase, lens) ==
  LET n == Len(lens)
      tokens == Starts(lens)
      next(offs, b) == Append(offs, Cut(tokens, (tokens[n + 1] * b) \div l.mb, Last(offs) + 1, n - (l.mb - b)))
  IN IF l.mb = 1 \/ n < l.mb THEN <<0, n>>
     ELSE IF phase = "decode" THEN Starts(Parts(n, l.mb))
     ELSE Append(FoldLeft(next, <<0>>, [b \in 1..(l.mb - 1) |-> b]), n)
-----------------------------------------------------------------------------
(* AfdModelPlan.from_batch, with either builder: the execution spans in    *)
(* padded order, the offsets in requests and in tokens, and the tokens of  *)
(* real requests in each micro-batch.  sample is the index of the request  *)
(* in the batch, from 0, or -1.                                            *)
LenOf(batch, i) == IF i = 0 THEN 1 ELSE batch[i]
Plan(l, phase, batch, padded) ==
  LET lens == [j \in DOMAIN padded |-> LenOf(batch, padded[j])]
      offs == Offsets(l, phase, lens)
      inMb(b) == SubSeq(padded, offs[b] + 1, offs[b + 1])
  IN [phase |-> phase, size |-> Len(batch), offs |-> offs,
      tokenOffs |-> [b \in DOMAIN offs |-> Starts(lens)[offs[b] + 1]],
      real |-> [b \in 1..(Len(offs) - 1) |->
                  Sum([j \in DOMAIN inMb(b) |-> IF inMb(b)[j] = 0 THEN 0 ELSE batch[inMb(b)[j]]])],
      exec |-> [j \in DOMAIN padded |-> [len |-> lens[j], sample |-> padded[j] - 1]],
      lens |-> batch]
NumMb(plan)  == Len(plan.offs) - 1
Tokens(plan) == Last(plan.tokenOffs)
Scheduled(l, phase, batch) == Plan(l, phase, batch, Padded(l, phase, Len(batch)))
DummyPlan_Small(l, size) == Plan(l, "decode", <<>>, AtEnd(0, l.mb))     \* mutant
DummyPlan(l, size) == Plan(l, "decode", <<>>, AtEnd(0, Max({l.mb, size})))

(* The checks of AfdModelPlan and AfdAGStepPlan.  The decode builders make *)
(* their plans without them.                                               *)
Increasing(s) == \A i \in 1..(Len(s) - 1) : s[i] <= s[i + 1]
Valid(p) ==
  /\ NumMb(p) >= 1 /\ Len(p.tokenOffs) = Len(p.offs) /\ Len(p.real) = NumMb(p)
  /\ p.offs[1] = 0 /\ p.tokenOffs[1] = 0 /\ Increasing(p.offs) /\ Increasing(p.tokenOffs)
  /\ \A b \in DOMAIN p.real : p.real[b] \in 0..(p.tokenOffs[b + 1] - p.tokenOffs[b])
  /\ p.size <= Last(p.offs)
  /\ Sum([j \in DOMAIN p.exec |-> p.exec[j].len]) = Tokens(p)
  /\ \A i \in 0..(p.size - 1) : Cardinality({j \in DOMAIN p.exec : p.exec[j].sample = i}) = 1
  /\ \A j \in DOMAIN p.exec : p.exec[j].sample < p.size
-----------------------------------------------------------------------------
(* _afd_prepare_step_launch: the bucket covers every lane with work; the   *)
(* others take part with dummies.  The launch fails when lanes would run   *)
(* different numbers of micro-batches.                                     *)
LaneBucket(plan) == Max({1, Tokens(plan), Last(plan.offs)})
Bucket(plans) == Max({LaneBucket(p) : p \in plans})
Prepare(l, phase, batches) ==
  LET busy   == {a \in DOMAIN batches : batches[a] # <<>>}
      plan   == [a \in busy |-> Scheduled(l, phase, batches[a])]
      bucket == Bucket({plan[a] : a \in busy})
      filler == DummyPlan(l, IF phase = "decode" THEN bucket ELSE Max({1, l.mb}))
  IN [phase |-> phase, batches |-> batches, bucket |-> bucket,
      plans |-> [a \in DOMAIN batches |-> IF a \in busy THEN plan[a] ELSE filler]]

UsesGraph(l, plan, bucket) ==
  /\ plan.phase = "decode"
  /\ l.graphs
  /\ bucket % NumMb(plan) = 0
  /\ bucket \div NumMb(plan) \in Buckets(l)

(* The runners keep a graph for each captured size of a whole batch; the   *)
(* attention ranks look theirs up by their padded batch, the experts by    *)
(* the bucket.  A graph holds the blocks it was captured with; an eager    *)
(* rank takes the bucket of the step.                                      *)
HasGraph(l, size)    == size % l.mb = 0 /\ size \div l.mb \in Buckets(l)
AgReplays(l, s, a)   == s.graph /\ HasGraph(l, Last(s.plans[a].offs))
EgReplays(l, s)      == s.graph /\ HasGraph(l, s.bucket)
AgBlock(l, s, a)     == IF AgReplays(l, s, a) THEN Last(s.plans[a].offs) \div l.mb ELSE s.bucket
EgBlock(l, s)        == IF EgReplays(l, s) THEN s.bucket \div l.mb ELSE s.bucket
-----------------------------------------------------------------------------
(* The attention worker: the rows of its hidden states, rebuilt from the   *)
(* real requests and the counts in the plan, and the row its sampler reads *)
(* for each request, taken from the execution spans.                       *)
Rebuilt_AtEnd(p) == AtEnd(p.size, Max({p.size, Last(p.offs)}))          \* mutant
Rebuilt(p) ==
  LET size  == Last(p.offs)
      spans == [b \in 1..NumMb(p) |-> p.offs[b + 1] - p.offs[b]]
      fits  == /\ p.phase = "decode" /\ NumMb(p) > 1
               /\ Sum(p.real) = p.size /\ \A i \in DOMAIN p.lens : p.lens[i] = 1
               /\ \A b \in DOMAIN spans : p.real[b] <= spans[b]
  IN IF size <= p.size THEN AtEnd(p.size, p.size)
     ELSE IF fits THEN Filled(p.real, spans) ELSE AtEnd(p.size, size)
RowsOf(p, order) ==
  FlattenSeq([j \in DOMAIN order |->
    [k \in 1..LenOf(p.lens, order[j]) |-> <<order[j], k>>]])
SampleRow(p, i) ==
  LET j == CHOOSE j \in DOMAIN p.exec : p.exec[j].sample = i
  IN Sum([k \in 1..j |-> p.exec[k].len])
-----------------------------------------------------------------------------
Lanes(l) == 0..(l.topology.attnDp - 1)

(* Arguments AfdTopology refuses never become a server.                    *)
Init == /\ launch \in {l \in Launches : Supported(l.topology)}
        /\ step = Idle

(* The batches the lanes have: at least one, of one phase.  A decode batch *)
(* is as large as the lane's running requests.                             *)
BatchesOf(l, phase) ==
  LET lens == IF phase = "decode" THEN {1} ELSE 1..MaxLen
  IN SeqOf(lens, Min({MaxBatch, LaneRunning(l)}))

Launch(phase) ==
  /\ step = Idle
  /\ \E batches \in [Lanes(launch) -> BatchesOf(launch, phase)] :
       /\ \E a \in Lanes(launch) : batches[a] # <<>>
       /\ LET s == Prepare(launch, phase, batches)
          IN step' = s @@ [graph |-> \A a \in DOMAIN s.plans : UsesGraph(launch, s.plans[a], s.bucket)]
  /\ UNCHANGED launch

Collect == step # Idle /\ step' = Idle /\ UNCHANGED launch

Next == Collect \/ \E phase \in {"prefill", "decode"} : Launch(phase)
Spec == Init /\ [][Next]_vars
-----------------------------------------------------------------------------
Plans == IF step = Idle THEN {} ELSE {step.plans[a] : a \in DOMAIN step.plans}

(* Every plan, those the decode builders make unchecked included, passes   *)
(* the checks the prefill builders make; a micro-batch is real requests    *)
(* and then dummies, micro-batches of a decode batch share its requests    *)
(* evenly, and none is empty.  (The docstring of                           *)
(* _balanced_decode_padded_reqs.)                                          *)
PlansAreSound ==
  \A p \in Plans :
    /\ Valid(p)
    /\ \A b \in 1..NumMb(p) :
         LET mb == SubSeq(p.exec, p.offs[b] + 1, p.offs[b + 1])
         IN mb # <<>> /\ \A j \in 1..(Len(mb) - 1) : mb[j].sample < 0 => mb[j + 1].sample < 0
    /\ p.phase = "decode" => \A b, c \in 1..NumMb(p) : p.real[b] <= p.real[c] + 1

(* The row a worker samples a request's token from is that request's last: *)
(* the order of rows is computed twice, by the coordinator and by every    *)
(* attention worker, and never sent.                                       *)
SamplesOwnRow ==
  \A p \in Plans : \A i \in 0..(p.size - 1) :
    RowsOf(p, Rebuilt(p))[SampleRow(p, i)] = <<i + 1, p.lens[i + 1]>>

(* The step is one sequence of collectives that every rank joins: each     *)
(* rank of the union gets one command, and either every attention lane and *)
(* the experts replay a graph or none; a rank looks its graph up by a size *)
(* of its own, and one that missed would run other exchanges.              *)
CollectiveIsWhole ==
  step # Idle =>
    LET t == launch.topology
    IN /\ \A a \in DOMAIN step.plans : AgReplays(launch, step, a) <=> EgReplays(launch, step)
       /\ \A a \in DOMAIN step.plans : Last(step.plans[a].offs) <= step.bucket
       /\ UNION {AgTargets(t, a) : a \in Lanes(launch)} \union EgTargets(t) = UNION Groups(t)
       /\ \A a \in Lanes(launch) : AgTargets(t, a) \in Groups(t) /\ AgTargets(t, a) \cap EgTargets(t) = {}

(* "AFD requires all attention DP lanes to use the same num_mb within one  *)
(* collective step": the error the coordinator raises otherwise ends it.   *)
LanesSameNumMb == \A p, q \in Plans : NumMb(p) = NumMb(q)

(* Ranks that replay graphs exchange blocks of one size: "AFD decode is    *)
(* graph-first: fixed bucket padding is required so the captured graph's   *)
(* static shapes match replay."                                            *)
BlocksMatch ==
  step # Idle => \A a \in DOMAIN step.plans : AgBlock(launch, step, a) = EgBlock(launch, step)
=============================================================================
