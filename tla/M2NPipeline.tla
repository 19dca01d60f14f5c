----------------------------- MODULE M2NPipeline -----------------------------
(***************************************************************************)
(* One step of the attention ranks and the expert ranks over the M2N       *)
(* transport: _run_ag_pipeline_body and _run_eg_deepep_pipeline_body.      *)
(*                                                                         *)
(* A rank's host runs through its program and puts work on its streams:    *)
(* the engine stream (attention, experts) and one communication stream per *)
(* lane.  A stream runs its work in order, behind events of the other      *)
(* streams; work on a lane is a collective that every rank of the union    *)
(* joins.  The host blocks where it reads the split sizes of a dynamic     *)
(* exchange and where it forces the retirement of old dispatches.          *)
(***************************************************************************)
EXTENDS M2NDispatch

CONSTANTS
  NumLayers, NumMb, NumLanes,
  FirstDense,       \* first_k_dense_replace: layers below it have no experts
  Steps             \* the steps tried: their routing, and how they are exchanged

ASSUME PipelineAssumption ==
  /\ NumLayers \in Nat \ {0} /\ NumMb \in Nat \ {0} /\ NumLanes \in 1..NumMb
  /\ FirstDense \in 0..NumLayers
  /\ \A s \in Steps : s.fixed \in BOOLEAN /\ s.fused \in BOOLEAN /\ s.num_mb \in 1..NumMb

(* A step has num_mb micro-batches; route[a][mb] is the flat expert ids of *)
(* attention rank a; fixed is MINISGL_M2N_FIXED_SHAPE; fused is            *)
(* MINISGL_M2N_FUSED_PLAN and _FUSED_GROUP (where not, torch sorts).       *)
VARIABLES
  step,                  \* the step that runs
  pc,                    \* rank -> position in its host program
  retired,               \* rank -> combines whose objects are still held
  queue,                 \* rank -> stream -> work not done yet
  done,                  \* rank -> work done, which is also the events recorded
  hidden,                \* rank -> micro-batch -> [layer, good]
  recv, outs, sums       \* rank -> micro-batch -> what arrived, was computed, was added

data  == <<hidden, recv, outs, sums>>
vars  == <<step, pc, retired, queue, done, hidden, recv, outs, sums>>

Mbs     == 0..(NumMb - 1)
Layers  == 0..(NumLayers - 1)
Engine  == NumLanes
Lanes   == 0..(NumLanes - 1)
Streams == {Engine} \union Lanes
Lane(mb) == mb % NumLanes
StreamOf(e) == IF e.do \in {"compute", "expert"} THEN Engine ELSE Lane(e.mb)
Work(do, layer, mb) == [do |-> do, layer |-> layer, mb |-> mb]
Enqueue(streams, e) == [streams EXCEPT ![StreamOf(e)] = Append(@, e)]
-----------------------------------------------------------------------------
(* The host programs, in parts: the work of a part is put on the streams   *)
(* without waiting.  launch_dispatch: a dynamic exchange is the exchange   *)
(* of counts, whose result the host reads, and the exchange of rows; a     *)
(* fixed-shape one is the exchange of rows alone.  A dense layer of an     *)
(* attention rank (skip_moe) has no exchange and its combine does nothing. *)
Exchange(before, layer, mb, fx) ==
  IF fx THEN <<before \o <<Work("rows", layer, mb)>> >>
  ELSE <<before \o <<Work("counts", layer, mb)>>, <<Work("rows", layer, mb)>> >>
IsDense(layer) == layer < FirstDense
AgDispatch(layer, mb, fx) ==
  LET compute == <<Work("compute", layer, mb)>>
  IN IF IsDense(layer) THEN <<compute>> ELSE Exchange(compute, layer, mb, fx)
EgDispatch(layer, mb, fx) == Exchange(<<>>, layer, mb, fx)
Combine(layer, mb) == << <<Work("combine", layer, mb)>> >>
Expert(layer, mb)  == << <<Work("expert", layer, mb)>> >>

PerMb(n, f(_)) == FlattenSeq([m \in 1..n |-> f(m - 1)])
PerLayer(n, f(_, _)) ==
  FlattenSeq([l \in 1..NumLayers |-> PerMb(n, LAMBDA mb : f(l - 1, mb))])
AgProgram[n \in 1..NumMb] == [fx \in BOOLEAN |->
  LET next(l, mb)    == IF l + 1 < NumLayers THEN AgDispatch(l + 1, mb, fx) ELSE <<>>
      combine(l, mb) == IF IsDense(l) THEN <<>> ELSE Combine(l, mb)
  IN PerMb(n, LAMBDA mb : AgDispatch(0, mb, fx))
     \o PerLayer(n, LAMBDA l, mb : combine(l, mb) \o next(l, mb))]
EgProgram[n \in 1..NumMb] == [fx \in BOOLEAN |->
  LET next(l, mb) == IF l + 1 < NumLayers THEN EgDispatch(l + 1, mb, fx) ELSE <<>>
  IN PerMb(n, LAMBDA mb : EgDispatch(0, mb, fx))
     \o PerLayer(n, LAMBDA l, mb : Expert(l, mb) \o Combine(l, mb) \o next(l, mb))]
Program_DispatchFirst(r) ==                                             \* mutant
  LET n == step.num_mb
      next(l, mb) == IF l + 1 < NumLayers THEN EgDispatch(l + 1, mb, step.fixed) ELSE <<>>
  IN IF r \in AgRanks THEN AgProgram[n][step.fixed]
     ELSE PerMb(n, LAMBDA mb : EgDispatch(0, mb, step.fixed))
          \o PerLayer(n, LAMBDA l, mb : Expert(l, mb) \o next(l, mb) \o Combine(l, mb))
Program(r) == IF r \in AgRanks THEN AgProgram[step.num_mb][step.fixed]
              ELSE EgProgram[step.num_mb][step.fixed]

(* The events a piece of work waits for on its stream (wait_event).        *)
Waits_SameLayer(r, e) ==                                                \* mutant
  CASE e.do = "compute" -> {Work(d, e.layer, e.mb) : d \in {"combine"}}
    [] e.do \in {"counts", "rows"} /\ r \in AgRanks -> {Work("compute", e.layer, e.mb)}
    [] e.do = "expert" -> {Work("rows", e.layer, e.mb)}
    [] e.do = "combine" /\ r \in EgRanks -> {Work("expert", e.layer, e.mb)}
    [] OTHER -> {}
Waits(r, e) ==
  CASE e.do = "compute" /\ e.layer > 0 ->
         {Work(IF IsDense(e.layer - 1) THEN "compute" ELSE "combine", e.layer - 1, e.mb)}
    [] e.do \in {"counts", "rows"} /\ r \in AgRanks -> {Work("compute", e.layer, e.mb)}
    [] e.do = "expert" -> {Work("rows", e.layer, e.mb)}
    [] e.do = "combine" /\ r \in EgRanks -> {Work("expert", e.layer, e.mb)}
    [] OTHER -> {}
-----------------------------------------------------------------------------
Start == [layer |-> 0, good |-> TRUE]
Init ==
  /\ step \in Steps
  /\ pc = [r \in Ranks |-> 1] /\ retired = [r \in Ranks |-> {}]
  /\ queue = [r \in Ranks |-> [s \in Streams |-> <<>>]] /\ done = [r \in Ranks |-> {}]
  /\ hidden = [r \in AgRanks |-> [mb \in Mbs |-> Start]]
  /\ recv = [r \in Ranks |-> [mb \in Mbs |-> [layer |-> -1]]]
  /\ outs = [r \in Ranks |-> [mb \in Mbs |-> <<>>]]
  /\ sums = [r \in AgRanks |-> [mb \in Mbs |-> [layer |-> -1]]]

HeldMost == 4    \* len(retired) at which the host waits
Blocked(r) == Cardinality(retired[r]) >= HeldMost
AtEnd(r)   == pc[r] > Len(Program(r))

(* The host puts the next part on its streams.  It issues the exchange of  *)
(* rows only with the counts in hand, and an attention rank drops what is  *)
(* complete (retire()) before each combine.                                *)
Held(r) == IF r \in AgRanks THEN retired[r] \ done[r] ELSE retired[r]
Issue(r) ==
  /\ ~AtEnd(r) /\ ~Blocked(r)
  /\ LET part  == Program(r)[pc[r]]
         first == Head(part)
     IN /\ first.do = "rows" /\ ~step.fixed => Work("counts", first.layer, first.mb) \in done[r]
        /\ queue' = [queue EXCEPT ![r] = FoldLeft(Enqueue, @, part)]
        /\ retired' = [retired EXCEPT ![r] = IF first.do = "combine" THEN Held(r) \union {first} ELSE @]
  /\ pc' = [pc EXCEPT ![r] = @ + 1]
  /\ UNCHANGED <<step, done, data>>

(* retire(force=True): at four held dispatches, and at the end.            *)
ForceRetire(r) ==
  /\ Blocked(r) \/ (AtEnd(r) /\ retired[r] # {})
  /\ retired[r] \subseteq done[r]
  /\ retired' = [retired EXCEPT ![r] = {}]
  /\ UNCHANGED <<step, pc, queue, done, data>>

First(r, s)  == Head(queue[r][s])
Ready(r, s)  == queue[r][s] # <<>> /\ Waits(r, First(r, s)) \subseteq done[r]
Ran(r, s)    == /\ queue' = [queue EXCEPT ![r][s] = Tail(@)]
                /\ done' = [done EXCEPT ![r] = @ \union {First(r, s)}]

(* Attention and routing of a layer read what the layer before left.       *)
RunCompute(a) ==
  /\ a \in AgRanks /\ Ready(a, Engine) /\ Ran(a, Engine)
  /\ LET e == First(a, Engine) IN
     hidden' = [hidden EXCEPT ![a][e.mb].good  = @ /\ hidden[a][e.mb].layer = e.layer,
                              ![a][e.mb].layer = IF IsDense(e.layer) THEN @ + 1 ELSE @]
  /\ UNCHANGED <<step, pc, retired, recv, outs, sums>>

(* The expert ranks compute the rows that arrived for their layer.         *)
Results(r, in, layer) ==
  IF in.layer # layer THEN {<<Unwritten>>}
  ELSE {RunExperts(r, in.rows)} \union
       (IF CountsInside(r, in.rows) THEN {} ELSE {[p \in DOMAIN in.rows |-> Miscounted]})
RunExpert(r) ==
  /\ r \in EgRanks /\ Ready(r, Engine) /\ Ran(r, Engine)
  /\ LET e == First(r, Engine) IN
     \E out \in Results(r, recv[r][e.mb], e.layer) : outs' = [outs EXCEPT ![r][e.mb] = out]
  /\ UNCHANGED <<step, pc, retired, hidden, recv, sums>>
-----------------------------------------------------------------------------
(* What rank r sends in the exchange of rows of (layer, mb), and what the  *)
(* grouping makes of what it receives.  Expert ranks source nothing.       *)
Ids(r, mb) == IF r \in AgRanks THEN RealIds(step.route[r][mb]) ELSE <<>>
Sent(mb) ==
  [r \in Ranks |-> [d \in Ranks |->
     Block(r, Ids(r, mb), d, step.fused, step.fixed, r \in AgRanks /\ hidden[r][mb].good)]]
Sizes(mb, r) == [s \in Ranks |-> IF step.fixed THEN Capacity ELSE SendCount(Ids(s, mb), r)]
Arrived(layer, mb, r) ==
  LET rows == Received(Sent(mb), r)
  IN [layer |-> layer, rows |-> Grouped(r, rows, step.fused, step.fixed),
      order |-> GroupOrder(r, rows, step.fused, step.fixed)]

(* combine: what rank r returns to each source, and what a source adds up. *)
Returned(mb) ==
  [r \in Ranks |->
     LET rows == IF r \in EgRanks THEN outs[r][mb] ELSE recv[r][mb].rows
         flat == Ungrouped(rows, recv[r][mb].order)
     IN [s \in Ranks |-> ReturnBlock(flat, Sizes(mb, r), s)]]
Added(mb, a) == Sums(Ids(a, mb), Back(Returned(mb), a), step.fused, step.fixed)

(* A collective runs when every rank has reached it on the lane's stream.  *)
Collective == {"counts", "rows", "combine"}
Gathered(s) == \A r \in Ranks : Ready(r, s) /\ First(r, s).do \in Collective
Collect(s) ==
  /\ Gathered(s)
  /\ \A r \in Ranks : First(r, s) = First(0, s)
  /\ queue' = [r \in Ranks |-> [queue[r] EXCEPT ![s] = Tail(@)]]
  /\ done' = [r \in Ranks |-> done[r] \union {First(r, s)}]
  /\ LET e == First(0, s) mb == e.mb IN
     \/ e.do = "counts" /\ UNCHANGED data
     \/ /\ e.do = "rows"
        /\ recv' = [r \in Ranks |-> [recv[r] EXCEPT ![mb] = Arrived(e.layer, mb, r)]]
        /\ UNCHANGED <<hidden, outs, sums>>
     \/ /\ e.do = "combine"
        /\ sums' = [a \in AgRanks |->
                      [sums[a] EXCEPT ![mb] = [layer |-> e.layer, of |-> Added(mb, a)]]]
        /\ hidden' = [a \in AgRanks |-> [hidden[a] EXCEPT ![mb].layer = @ + 1]]
        /\ UNCHANGED <<recv, outs>>
  /\ UNCHANGED <<step, pc, retired>>

Finished ==
  \A r \in Ranks : AtEnd(r) /\ retired[r] = {} /\ \A s \in Streams : queue[r][s] = <<>>
Done == Finished /\ UNCHANGED vars

HostStep == \E r \in Ranks : Issue(r) \/ ForceRetire(r)
DeviceStep ==
  \/ \E r \in Ranks : RunCompute(r) \/ RunExpert(r)
  \/ \E s \in Lanes : Collect(s)
Next == HostStep \/ DeviceStep \/ Done

(* Weak fairness of the hosts and of the devices; ENABLED DeviceStep is    *)
(* written out (evaluating it would run every exchange).                   *)
DeviceCan ==
  \/ \E r \in Ranks, s \in Streams : Ready(r, s) /\ First(r, s).do \notin Collective
  \/ \E s \in Lanes : Gathered(s) /\ \A r \in Ranks : First(r, s) = First(0, s)
Fairness ==
  /\ WF_vars(HostStep)
  /\ []<>~DeviceCan \/ []<><<done' # done>>_vars
Spec == Init /\ [][Next]_vars /\ Fairness
-----------------------------------------------------------------------------
(* "This mirrors the AG pipeline order without a separate schedule object" *)
(* (afd_expert_worker.py:214): the ranks that meet in a collective of a    *)
(* lane mean the same exchange of the same layer and micro-batch, although *)
(* each derives its order from its own program.                            *)
CollectivesMatch ==
  \A s \in Lanes : Gathered(s) => \A r \in Ranks : First(r, s) = First(0, s)

(* Every token of every attention rank gets, at every layer, the sum over  *)
(* exactly the experts it was routed to, each computed from its own hidden *)
(* vector of that layer, whatever the ranks send to which expert rank, in  *)
(* dynamic exchanges and in padded ones, planned by torch or by the fused  *)
(* kernels; except a sum that holds a row the runner miscounted, which is  *)
(* what PaddingIsSkipped is about.                                         *)
RoutedSums ==
  \A a \in AgRanks, mb \in Mbs : sums[a][mb].layer >= 0 =>
    \A t \in DOMAIN sums[a][mb].of :
      \/ IsSumOf(sums[a][mb].of[t], RoutedTo(a, step.route[a][mb], t))
      \/ Miscounted \in Range(sums[a][mb].of[t])

(* "Padding sorts after every real expert, so it falls outside the counted *)
(* range and the grouped GEMM never touches it"                            *)
(* (rccl_m2n_adapter.py:777): the expert runner is handed no id that it    *)
(* cannot count.                                                           *)
PaddingIsSkipped ==
  \A r \in EgRanks, mb \in Mbs : recv[r][mb].layer >= 0 => CountsInside(r, recv[r][mb].rows)

(* The step ends on every rank: no host waits for an exchange that another *)
(* rank issues only after this one.                                        *)
EveryStepEnds == <>Finished
=============================================================================
