------------------------- MODULE KVScheduler_proofs -------------------------
(***************************************************************************)
(* Proofs about KVScheduler, for all requests, prompts, table sizes, page  *)
(* sizes and prefill budgets.                                              *)
(*                                                                         *)
(* SlotSafety: no table slot is ever lost, given to two requests, or put   *)
(* back twice - provided no client disconnects while batches overlap.      *)
(* The run kv_abort_inflight shows that the proviso is needed.             *)
(*                                                                         *)
(* The proof follows a request through the lists that may free it.  An     *)
(* admitted request (owners) is waiting for its next chunk, or running, or *)
(* its steps are in a batch; a step in a batch whose request was freed     *)
(* belongs to a request that the finished set of the last processed batch  *)
(* remembers (BatchesKnowFreed).  That is why "req not in finished_reqs"   *)
(* suffices to skip the second free.                                       *)
(*                                                                         *)
(* NoOwnerIsLost: under the same proviso, whoever holds a slot is pending, *)
(* running or in a batch not processed yet.  A request leaves the running  *)
(* set when its last step is launched, and is freed a batch later: MetInv  *)
(* counts the tokens the batches still owe it.                             *)
(***************************************************************************)
EXTENDS KVScheduler, PrefixFacts

NoLateAbort == Overlap => Abortable = {}

(* Shapes of the values the argument takes apart.                          *)
IsReq(r) == DOMAIN r = {"slot", "ids", "clen", "dlen", "handle"}

IsBatch(b) ==
  /\ DOMAIN b = {"phase", "ran", "reqs", "tokens"}
  /\ b.reqs \in Seq(ToSet(b.reqs))
  /\ \A i \in 1..Len(b.reqs) : b.reqs[i].uid \in received
  /\ \A i, j \in 1..Len(b.reqs) : b.reqs[i].uid = b.reqs[j].uid => i = j
  /\ b.phase = "none" => b.reqs = <<>>

LoopTypes ==
  /\ pc \in {"recv", "admit", "process"}
  /\ received \subseteq Reqs
  /\ pending \in Seq(received)
  /\ running \subseteq received
  /\ owners \subseteq received
  /\ DOMAIN req = Reqs
  /\ \A u \in Reqs : IsReq(req[u]) /\ req[u].clen \in Nat /\ req[u].dlen \in Nat
  /\ freeSlots \in Seq(Slots)
  /\ IsBatch(inflight)
  /\ IsBatch(todo)
  /\ adder.budget \in Nat
  /\ adder.reqs \in Seq([uid : Reqs, chunk : BOOLEAN])

(* pending_list against the other places a request can be in.              *)
PendingApart ==
  /\ \A i, j \in 1..Len(pending) : pending[i] = pending[j] => i = j
  /\ chunked \subseteq ToSet(pending) \cap owners
  /\ running \subseteq owners \ ToSet(pending)
  /\ owners \cap ToSet(pending) \subseteq chunked \cup UidsOf(adder.reqs)

(* What PrefillAdder added is a front part of pending_list, and only the   *)
(* last entry can be cut: it used up the budget.                           *)
AdderFollowsPending ==
  /\ pc # "admit" => adder.reqs = <<>>
  /\ Len(adder.reqs) <= Len(pending)
  /\ \A i \in 1..Len(adder.reqs) :
       /\ adder.reqs[i].uid = pending[i]
       /\ pending[i] \in owners
       /\ adder.reqs[i].chunk <=> pending[i] \in chunked
       /\ adder.reqs[i].chunk => i = Len(adder.reqs) /\ adder.budget = 0

(* The requests a batch may still free are admitted or remembered as       *)
(* freed, and no longer pending.                                           *)
Known(b, freed) ==
  \A i \in 1..Len(b.reqs) :
    ~b.reqs[i].chunk => b.reqs[i].uid \in (owners \cup freed) \ ToSet(pending)

BatchesKnowFreed ==
  /\ pc # "process" => todo.reqs = <<>> /\ newFinished = {} /\ Known(inflight, finishedReqs)
  /\ pc = "process" => Known(todo, finishedReqs) /\ Known(inflight, newFinished)
  /\ todo.phase = "none" => newFinished = {}
  /\ ~Overlap => inflight.reqs = <<>>

SlotInv ==
  /\ LoopTypes
  /\ PendingApart
  /\ AdderFollowsPending
  /\ BatchesKnowFreed
  /\ SlotPartition
-----------------------------------------------------------------------------
(* The variables SlotInv speaks of, and what a step that leaves them alone *)
(* (every failed assertion among them) does to it.                         *)
slotVars == <<received, pending, chunked, running, req, owners, freeSlots, inflight,
              finishedReqs, adder, todo, newFinished, pc>>

LEMMA SlotInvStutters ==
  ASSUME SlotInv, UNCHANGED slotVars
  PROVE  SlotInv'
<1>0. /\ received' = received /\ pending' = pending /\ chunked' = chunked /\ running' = running
      /\ req' = req /\ owners' = owners /\ freeSlots' = freeSlots /\ inflight' = inflight
      /\ finishedReqs' = finishedReqs /\ adder' = adder /\ todo' = todo
      /\ newFinished' = newFinished /\ pc' = pc
  BY DEF slotVars
<1>1. LoopTypes'
  <2>1. IsBatch(inflight)' /\ IsBatch(todo)'
    BY <1>0 DEF SlotInv, LoopTypes, IsBatch
  <2> QED BY <1>0, <2>1 DEF SlotInv, LoopTypes
<1>2. PendingApart' /\ AdderFollowsPending'
  BY <1>0 DEF SlotInv, PendingApart, AdderFollowsPending
<1>3. BatchesKnowFreed' /\ SlotPartition'
  BY <1>0 DEF SlotInv, BatchesKnowFreed, Known, SlotPartition
<1> QED BY <1>1, <1>2, <1>3 DEF SlotInv

LEMMA FailStutters ==
  ASSUME SlotInv, NEW a, Fail(a)
  PROVE  SlotInv'
BY SlotInvStutters DEF Fail, slotVars, reqVars, memVars, loopVars

(* The initial state.                                                      *)
LEMMA InitSlotInv ==
  ASSUME Init
  PROVE  SlotInv
<1>0. /\ freeSlots \in [1..Cardinality(Slots) -> Slots]
      /\ Cardinality(Slots) \in Nat
      /\ \A i, j \in 1..Cardinality(Slots) : freeSlots[i] = freeSlots[j] => i = j
      /\ \A x \in Slots : \E i \in 1..Cardinality(Slots) : freeSlots[i] = x
  <2>1. freeSlots = SetToSeq(Slots)
    BY DEF Init
  <2> QED BY <2>1, SetToSeqLists, CapacityAssumption, Zenon
<1> USE DEF Init
<1>1. LoopTypes
  <2>1. freeSlots \in Seq(Slots)
    BY <1>0, SeqDef
  <2>2. NewAdder = [budget |-> PrefillBudget, reqs |-> <<>>] /\ PrefillBudget \in Nat
    BY CapacityAssumption DEF NewAdder
  <2>3. IsBatch(NoBatch)
    BY DEF IsBatch, NoBatch, ToSet
  <2>4. DOMAIN req = Reqs /\ \A u \in Reqs : IsReq(req[u]) /\ req[u].clen = 0 /\ req[u].dlen = 0
    BY DEF IsReq
  <2> QED BY <2>1, <2>2, <2>3, <2>4 DEF LoopTypes
<1>2. PendingApart /\ AdderFollowsPending
  BY DEF PendingApart, AdderFollowsPending, NewAdder
<1>3. BatchesKnowFreed
  BY DEF BatchesKnowFreed, NoBatch, Known
<1>4. SlotPartition
  <2>1. ToSet(freeSlots) = Slots
    <3> HIDE DEF Init
    <3> QED BY <1>0 DEF ToSet
  <2>2. \A i, j \in DOMAIN freeSlots : freeSlots[i] = freeSlots[j] => i = j
    <3> HIDE DEF Init
    <3> QED BY <1>0
  <2> QED BY <2>1, <2>2 DEF SlotPartition
<1> QED BY <1>1, <1>2, <1>3, <1>4 DEF SlotInv

(* A new request is in none of the lists.                                  *)
LEMMA RecvUserKeepsSlots ==
  ASSUME SlotInv, NEW u \in Reqs, RecvUser(u)
  PROVE  SlotInv'
<1> USE DEF SlotInv
<1>0. /\ received' = received \cup {u}
      /\ u \notin received
      /\ pending' = pending \/ pending' = Append(pending, u)
      /\ UNCHANGED <<chunked, running, req, owners, freeSlots, inflight, finishedReqs, adder,
                     todo, newFinished, pc>>
      /\ pc = "recv"
  BY DEF RecvUser, loopVars, memVars
<1>1. /\ pending' \in Seq(received')
      /\ ToSet(pending') \subseteq ToSet(pending) \cup {u}
      /\ ToSet(pending) \subseteq ToSet(pending')
      /\ \A i, j \in 1..Len(pending') : pending'[i] = pending'[j] => i = j
      /\ Len(pending) <= Len(pending')
      /\ \A i \in 1..Len(pending) : pending'[i] = pending[i]
  <2>1. CASE pending' = pending
    BY <1>0, <2>1, SeqMonotonic DEF LoopTypes, PendingApart
  <2>2. CASE pending' = Append(pending, u)
    <3>1. pending \in Seq(received') /\ pending \in Seq(received)
      BY <1>0, SeqMonotonic DEF LoopTypes
    <3>2. ToSet(pending') = ToSet(pending) \cup {u}
      BY <2>2, <3>1, AppendElements
    <3>3. /\ pending' \in Seq(received')
          /\ Len(pending') = Len(pending) + 1
          /\ \A i \in 1..Len(pending) : pending'[i] = pending[i]
          /\ pending'[Len(pending) + 1] = u
      BY <1>0, <2>2, <3>1, AppendProperties
    <3>4. \A i \in 1..Len(pending) : pending[i] # u
      BY <1>0, <3>1, ElementOfSeq
    <3>5. Len(pending) \in Nat
      BY <3>1, LenProperties
    <3>6. \A i, j \in 1..Len(pending') : pending'[i] = pending'[j] => i = j
      BY <3>3, <3>4, <3>5 DEF PendingApart
    <3> QED BY <3>2, <3>3, <3>5, <3>6
  <2> QED BY <1>0, <2>1, <2>2
<1>2. LoopTypes'
  <2>1. IsBatch(inflight)' /\ IsBatch(todo)'
    BY <1>0 DEF LoopTypes, IsBatch
  <2> QED BY <1>0, <1>1, <2>1 DEF LoopTypes
<1>3. PendingApart'
  BY <1>0, <1>1 DEF LoopTypes, PendingApart
<1>4. AdderFollowsPending'
  BY <1>0, <1>1 DEF LoopTypes, AdderFollowsPending
<1>5. BatchesKnowFreed'
  <2>1. \A b, freed : IsBatch(b) /\ Known(b, freed) => Known(b, freed)'
    BY <1>0, <1>1 DEF IsBatch, Known
  <2> QED BY <1>0, <2>1 DEF LoopTypes, BatchesKnowFreed
<1>6. SlotPartition'
  BY <1>0 DEF SlotPartition
<1> QED BY <1>2, <1>3, <1>4, <1>5, <1>6

(* A step that moves no slot.                                              *)
LEMMA SlotsStay ==
  ASSUME SlotPartition, freeSlots' = freeSlots, owners' = owners,
         \A v \in owners : req'[v].slot = req[v].slot
  PROVE  SlotPartition'
<1>1. {req'[v].slot : v \in owners'} = {req[v].slot : v \in owners}
  OBVIOUS
<1> QED BY <1>1 DEF SlotPartition

(* Giving back the slot of an admitted request.                            *)
LEMMA FreeingSlot ==
  ASSUME SlotPartition, freeSlots \in Seq(Slots), NEW u \in owners,
         freeSlots' = Append(freeSlots, req[u].slot),
         owners' = owners \ {u},
         \A v \in owners : req'[v].slot = req[v].slot
  PROVE  SlotPartition' /\ freeSlots' \in Seq(Slots)
<1>1. req[u].slot \in Slots /\ req[u].slot \notin ToSet(freeSlots)
  BY DEF SlotPartition
<1>2. freeSlots' \in Seq(Slots) /\ ToSet(freeSlots') = ToSet(freeSlots) \cup {req[u].slot}
  BY <1>1, AppendElements, AppendProperties
<1>3. \A i, j \in DOMAIN freeSlots' : freeSlots'[i] = freeSlots'[j] => i = j
  <2>1. DOMAIN freeSlots = 1..Len(freeSlots) /\ Len(freeSlots) \in Nat
    BY LenProperties
  <2>2. /\ DOMAIN freeSlots' = 1..(Len(freeSlots) + 1)
        /\ \A i \in 1..Len(freeSlots) : freeSlots'[i] = freeSlots[i]
        /\ freeSlots'[Len(freeSlots) + 1] = req[u].slot
    BY <1>1, AppendProperties
  <2>3. \A i \in 1..Len(freeSlots) : freeSlots[i] # req[u].slot
    BY <1>1, <2>1 DEF ToSet
  <2> QED BY <2>1, <2>2, <2>3 DEF SlotPartition
<1>4. \A v, w \in owners' : req'[v].slot = req'[w].slot => v = w
  BY DEF SlotPartition
<1>5. \A v \in owners' : req'[v].slot \notin ToSet(freeSlots')
  BY <1>2 DEF SlotPartition
<1>6. ToSet(freeSlots') \cup {req'[v].slot : v \in owners'} = Slots
  BY <1>2 DEF SlotPartition
<1> QED BY <1>2, <1>3, <1>4, <1>5, <1>6 DEF SlotPartition

(* Dropping a request from pending_list.                                   *)
LEMMA DroppedPending ==
  ASSUME SlotInv, NEW u
  PROVE  /\ DropPending(u) \in Seq(received)
         /\ \A i, j \in 1..Len(DropPending(u)) : DropPending(u)[i] = DropPending(u)[j] => i = j
         /\ ToSet(DropPending(u)) = ToSet(pending) \ {u}
<1>1. CASE u \notin ToSet(pending)
  BY <1>1 DEF DropPending, SlotInv, LoopTypes, PendingApart
<1>2. CASE u \in ToSet(pending)
  <2> DEFINE at == CHOOSE i \in DOMAIN pending : pending[i] = u
             t  == SubSeq(pending, 1, at - 1) \o SubSeq(pending, at + 1, Len(pending))
  <2>1. at \in 1..Len(pending) /\ pending[at] = u
    BY <1>2 DEF ToSet, SlotInv, LoopTypes
  <2>2. DropPending(u) = t
    BY <1>2 DEF DropPending
  <2> HIDE DEF at
  <2>3. pending \in Seq(received) /\ \A i, j \in 1..Len(pending) : pending[i] = pending[j] => i = j
    BY DEF SlotInv, LoopTypes, PendingApart
  <2>4. /\ t \in Seq(received)
        /\ \A i, j \in 1..Len(t) : t[i] = t[j] => i = j
        /\ ToSet(t) = ToSet(pending) \ {pending[at]}
    BY <2>1, <2>3, RemovedElements, Zenon
  <2> HIDE DEF t
  <2> QED BY <2>1, <2>2, <2>4
<1> QED BY <1>1, <1>2

(* An aborted request leaves every list; without overlap no batch holds it. *)
LEMMA RecvAbortKeepsSlots ==
  ASSUME NoLateAbort, SlotInv, NEW u \in Reqs, RecvAbort(u)
  PROVE  SlotInv'
<1> USE DEF SlotInv
<1>1. CASE AbortFinds(u) /\ ~CacheReqSafe(req[u])
  BY <1>1, FailStutters DEF RecvAbort
<1>2. CASE ~(AbortFinds(u) /\ ~CacheReqSafe(req[u]))
  <2>0. /\ pc = "recv" /\ u \in Abortable
        /\ pending' = DropPending(u)
        /\ chunked' = chunked \ {u}
        /\ running' = IF u \in ToSet(pending) THEN running ELSE running \ {u}
        /\ IF AbortFinds(u)
           THEN freeSlots' = Append(freeSlots, req[u].slot) /\ owners' = owners \ {u}
           ELSE UNCHANGED <<freeSlots, owners>>
        /\ UNCHANGED <<received, req, inflight, finishedReqs, adder, todo, newFinished, pc>>
    BY <1>2 DEF RecvAbort, loopVars
  <2>1. inflight.reqs = <<>> /\ adder.reqs = <<>> /\ todo.reqs = <<>>
    BY <2>0 DEF NoLateAbort, BatchesKnowFreed, AdderFollowsPending
  <2>2. /\ pending' \in Seq(received)
        /\ \A i, j \in 1..Len(pending') : pending'[i] = pending'[j] => i = j
        /\ ToSet(pending') = ToSet(pending) \ {u}
    BY <2>0, DroppedPending
  <2>3. running' = running \ {u}
    BY <2>0 DEF PendingApart
  <2>4. AbortFinds(u) => u \in owners
    BY DEF AbortFinds, PendingApart
  <2>5. SlotPartition' /\ freeSlots' \in Seq(Slots) /\ owners' \subseteq owners
    <3>1. CASE AbortFinds(u)
      <4>1. /\ freeSlots' = Append(freeSlots, req[u].slot) /\ owners' = owners \ {u}
            /\ req' = req /\ u \in owners
        BY <2>0, <2>4, <3>1
      <4>2. freeSlots \in Seq(Slots)
        BY DEF LoopTypes
      <4> QED BY <4>1, <4>2, FreeingSlot
    <3>2. CASE ~AbortFinds(u)
      <4>1. freeSlots' = freeSlots /\ owners' = owners /\ req' = req
        BY <2>0, <3>2
      <4> QED BY <4>1, SlotsStay DEF LoopTypes
    <3> QED BY <3>1, <3>2
  <2>6. LoopTypes'
    <3>1. received' = received /\ inflight' = inflight /\ todo' = todo
      BY <2>0
    <3>2. IsBatch(inflight)' /\ IsBatch(todo)'
      BY <3>1 DEF LoopTypes, IsBatch
    <3>3. owners \subseteq received /\ running \subseteq received
      BY DEF LoopTypes
    <3>4. owners' \subseteq received' /\ running' \subseteq received'
      BY <2>3, <2>5, <3>1, <3>3
    <3>5. pending' \in Seq(received')
      BY <2>2, <3>1
    <3> QED BY <2>0, <2>5, <3>2, <3>4, <3>5 DEF LoopTypes
  <2>7. PendingApart'
    <3>1. owners' = owners \ {u} \/ owners' = owners
      BY <2>0
    <3>2. UidsOf(adder.reqs) = {}
      BY <2>1 DEF UidsOf
    <3>3. chunked' \subseteq ToSet(pending') \cap owners'
      BY <2>0, <2>2, <3>1 DEF PendingApart
    <3>4. running' \subseteq owners' \ ToSet(pending')
      BY <2>2, <2>3, <3>1 DEF PendingApart
    <3>5. owners' \cap ToSet(pending') \subseteq chunked'
      BY <2>0, <2>2, <3>1, <3>2 DEF PendingApart
    <3> QED BY <2>2, <3>3, <3>4, <3>5 DEF PendingApart
  <2>8. AdderFollowsPending'
    <3>1. Len(adder.reqs) = 0 /\ Len(pending') \in Nat
      BY <2>1, <2>2, LenProperties
    <3> QED BY <2>0, <2>1, <3>1 DEF AdderFollowsPending
  <2>9. BatchesKnowFreed'
    <3>1. Known(inflight, finishedReqs)'
      BY <2>0, <2>1 DEF Known
    <3> QED BY <2>0, <3>1 DEF BatchesKnowFreed
  <2> QED BY <2>5, <2>6, <2>7, <2>8, <2>9
<1> QED BY <1>1, <1>2

(* Steps that only move the program point.                                 *)
LEMMA IdleKeepsSlots ==
  ASSUME SlotInv, Idle
  PROVE  SlotInv'
<1>1. CASE Integrity
  BY <1>1, SlotInvStutters DEF Idle, vars, slotVars, reqVars, memVars, loopVars
<1>2. CASE ~Integrity
  BY <1>2, FailStutters DEF Idle
<1> QED BY <1>1, <1>2

LEMMA BeginRoundKeepsSlots ==
  ASSUME SlotInv, BeginRound
  PROVE  SlotInv'
<1> USE DEF SlotInv
<1>0. /\ pc = "recv" /\ pc' = "admit"
      /\ UNCHANGED <<received, pending, chunked, running, req, owners, freeSlots, inflight,
                     finishedReqs, adder, todo, newFinished>>
  BY DEF BeginRound, reqVars, memVars, loopVars
<1>1. LoopTypes'
  <2>1. IsBatch(inflight)' /\ IsBatch(todo)'
    BY <1>0 DEF LoopTypes, IsBatch
  <2> QED BY <1>0, <2>1 DEF LoopTypes
<1>2. PendingApart' /\ AdderFollowsPending'
  BY <1>0 DEF PendingApart, AdderFollowsPending
<1>3. BatchesKnowFreed'
  BY <1>0 DEF BatchesKnowFreed, Known
<1>4. SlotPartition'
  BY <1>0, SlotsStay
<1> QED BY <1>1, <1>2, <1>3, <1>4

(* The finished set of the batch just processed takes over.                *)
LEMMA EndRoundKeepsSlots ==
  ASSUME SlotInv, EndRound
  PROVE  SlotInv'
<1> USE DEF SlotInv
<1>0. /\ pc = "process" /\ pc' = "recv"
      /\ todo.reqs = <<>> /\ todo' = NoBatch
      /\ newFinished' = {}
      /\ finishedReqs' = IF todo.phase = "none" THEN finishedReqs ELSE newFinished
      /\ UNCHANGED <<received, pending, chunked, running, req, owners, freeSlots, inflight,
                     adder>>
  BY DEF EndRound, reqVars
<1>1. LoopTypes'
  <2>1. IsBatch(inflight)'
    BY <1>0 DEF LoopTypes, IsBatch
  <2>2. IsBatch(todo)'
    BY <1>0 DEF IsBatch, NoBatch, ToSet
  <2> QED BY <1>0, <2>1, <2>2 DEF LoopTypes
<1>2. PendingApart' /\ AdderFollowsPending'
  BY <1>0 DEF PendingApart, AdderFollowsPending
<1>3. BatchesKnowFreed'
  <2>1. newFinished \subseteq finishedReqs'
    BY <1>0 DEF BatchesKnowFreed
  <2>2. Known(inflight, newFinished)
    BY <1>0 DEF BatchesKnowFreed
  <2>3. Known(inflight, finishedReqs)'
    BY <1>0, <2>1, <2>2 DEF Known
  <2>4. NoBatch.reqs = <<>>
    BY DEF NoBatch
  <2> QED BY <1>0, <2>3, <2>4 DEF BatchesKnowFreed
<1>4. SlotPartition'
  BY <1>0, SlotsStay
<1> QED BY <1>1, <1>2, <1>3, <1>4

(* Updates of a batch, field by field.                                     *)
LEMMA BatchUpdates ==
  ASSUME NEW b, IsBatch(b), NEW tokens
  PROVE  /\ DOMAIN WithTokens(b, tokens) = DOMAIN b
         /\ WithTokens(b, tokens).phase = b.phase
         /\ WithTokens(b, tokens).reqs = b.reqs
         /\ DOMAIN RestOf(b) = DOMAIN b
         /\ RestOf(b).phase = b.phase
         /\ RestOf(b).reqs = Tail(b.reqs)
BY DEF IsBatch, WithTokens, RestOf

(* A batch that runs keeps its entries.                                    *)
LEMMA GpuRunKeepsSlots ==
  ASSUME SlotInv, GpuRun
  PROVE  SlotInv'
<1> USE DEF SlotInv
<1>0. /\ UNCHANGED <<received, pending, chunked, running, req, owners, freeSlots,
                     finishedReqs, adder, newFinished, pc>>
      /\ \/ inflight' = inflight /\ \E tokens : todo' = WithTokens(todo, tokens)
         \/ todo' = todo /\ \E tokens : inflight' = WithTokens(inflight, tokens)
  BY DEF GpuRun, reqVars
<1>1. /\ todo'.reqs = todo.reqs /\ todo'.phase = todo.phase /\ DOMAIN todo' = DOMAIN todo
      /\ inflight'.reqs = inflight.reqs /\ inflight'.phase = inflight.phase
      /\ DOMAIN inflight' = DOMAIN inflight
  BY <1>0, BatchUpdates DEF LoopTypes
<1>2. LoopTypes'
  <2>1. IsBatch(inflight)' /\ IsBatch(todo)'
    BY <1>0, <1>1 DEF LoopTypes, IsBatch
  <2> QED BY <1>0, <2>1 DEF LoopTypes
<1>3. PendingApart' /\ AdderFollowsPending'
  BY <1>0 DEF PendingApart, AdderFollowsPending
<1>4. BatchesKnowFreed'
  BY <1>0, <1>1 DEF BatchesKnowFreed, Known
<1>5. SlotPartition'
  BY <1>0, SlotsStay
<1> QED BY <1>2, <1>3, <1>4, <1>5

(* What is left of a batch after its first entry was handled.              *)
LEMMA RestOfBatch ==
  ASSUME NEW b, IsBatch(b), b.reqs # <<>>, NEW freed
  PROVE  /\ IsBatch(RestOf(b)) /\ RestOf(b).phase = b.phase
         /\ Known(b, freed) => Known(RestOf(b), freed)
         /\ \A i \in 1..Len(RestOf(b).reqs) : RestOf(b).reqs[i].uid # Head(b.reqs).uid
         /\ Head(b.reqs) = b.reqs[1] /\ 1 \in 1..Len(b.reqs)
<1> DEFINE q == b.reqs
           c == RestOf(b)
           n == Len(q)
<1>1. q \in Seq(ToSet(q)) /\ q # <<>>
  BY DEF IsBatch
<1>2. c.reqs = Tail(q) /\ c.phase = b.phase /\ DOMAIN c = {"phase", "ran", "reqs", "tokens"}
  BY BatchUpdates DEF IsBatch
<1>3. n \in Nat /\ n > 0 /\ Head(q) = q[1]
  BY <1>1, LenProperties, EmptySeq
<1>4. Len(c.reqs) = n - 1 /\ \A i \in 1..(n - 1) : c.reqs[i] = q[i + 1]
  BY <1>1, <1>2, TailElements
<1>5. c.reqs \in Seq(ToSet(c.reqs))
  BY <1>1, <1>2, TailElements, SeqOfOwnElements
<1>6. \A i, j \in 1..n : q[i].uid = q[j].uid => i = j
  BY DEF IsBatch
<1>7. \A i \in 1..n : q[i].uid \in received
  BY DEF IsBatch
<1>8. b.phase # "none"
  BY DEF IsBatch
<1>9. Known(b, freed) =>
        \A i \in 1..n : ~q[i].chunk => q[i].uid \in (owners \cup freed) \ ToSet(pending)
  BY DEF Known
<1> HIDE DEF q, c, n
<1>10. \A i \in 1..(n - 1) : i + 1 \in 1..n /\ i + 1 # 1 /\ 1 \in 1..n
  BY <1>3
<1>11. IsBatch(c)
  BY <1>2, <1>3, <1>4, <1>5, <1>6, <1>7, <1>8, <1>10 DEF IsBatch
<1>12. Known(b, freed) => Known(c, freed)
  BY <1>4, <1>9, <1>10 DEF Known
<1>13. \A i \in 1..Len(c.reqs) : c.reqs[i].uid # q[1].uid
  BY <1>4, <1>6, <1>10
<1>14. 1 \in 1..n
  BY <1>3
<1> QED BY <1>2, <1>3, <1>11, <1>12, <1>13, <1>14 DEF q, c, n

LEMMA SkipChunkKeepsSlots ==
  ASSUME SlotInv, SkipChunk
  PROVE  SlotInv'
<1> USE DEF SlotInv
<1>0. /\ pc = "process" /\ todo.reqs # <<>> /\ todo' = RestOf(todo)
      /\ UNCHANGED <<received, pending, chunked, running, req, owners, freeSlots, inflight,
                     finishedReqs, adder, newFinished, pc>>
  BY DEF SkipChunk, reqVars, memVars
<1>1. /\ IsBatch(todo') /\ todo'.phase = todo.phase
      /\ Known(todo, finishedReqs) => Known(todo', finishedReqs)
  BY <1>0, RestOfBatch DEF LoopTypes
<1>2. LoopTypes'
  <2>1. IsBatch(inflight) /\ inflight' = inflight
    BY <1>0 DEF LoopTypes
  <2>1a. received' = received
    BY <1>0
  <2>2. IsBatch(inflight)' /\ IsBatch(todo)'
    <3> HIDE DEF SlotInv
    <3>1. IsBatch(inflight)'
      BY <2>1, <2>1a DEF IsBatch
    <3>2. IsBatch(todo)'
      BY <1>1, <2>1a DEF IsBatch
    <3> QED BY <3>1, <3>2
  <2> QED BY <1>0, <2>2 DEF LoopTypes
<1>3. PendingApart' /\ AdderFollowsPending'
  BY <1>0 DEF PendingApart, AdderFollowsPending
<1>4. BatchesKnowFreed'
  BY <1>0, <1>1 DEF BatchesKnowFreed, Known
<1>5. SlotPartition'
  BY <1>0, SlotsStay
<1> QED BY <1>2, <1>3, <1>4, <1>5

(* A finished request that finished_reqs does not remember is admitted, so *)
(* its slot is given back once; new_finished_reqs remembers it.            *)
LEMMA CompleteReqKeepsSlots ==
  ASSUME SlotInv, CompleteReq
  PROVE  SlotInv'
<1> USE DEF SlotInv
<1> DEFINE u     == Head(todo.reqs).uid
           token == Head(todo.tokens)
           r     == [req[u] EXCEPT !.ids = Append(@, token)]
           free  == FreesNow(r, u, token)
           keep  == ~free /\ todo.phase = "prefill"
<1>1. CASE (free \/ keep) /\ ~CacheReqSafe(r)
  BY <1>1, FailStutters DEF CompleteReq
<1>2. CASE ~((free \/ keep) /\ ~CacheReqSafe(r))
  <2>0. /\ pc = "process" /\ todo.reqs # <<>> /\ ~Head(todo.reqs).chunk
        /\ req' = [req EXCEPT ![u] = IF keep THEN [r EXCEPT !.handle = NewHandle(r)] ELSE r]
        /\ IF free
           THEN /\ running' = running \ {u}
                /\ freeSlots' = Append(freeSlots, r.slot)
                /\ newFinished' = newFinished \cup {u}
                /\ owners' = owners \ {u}
           ELSE UNCHANGED <<running, freeSlots, newFinished, owners>>
        /\ todo' = RestOf(todo)
        /\ UNCHANGED <<received, pending, chunked, inflight, finishedReqs, adder, pc>>
    BY <1>2 DEF CompleteReq, RemoveReq
  <2>1. free => u \notin finishedReqs
    BY DEF FreesNow
  <2>2. /\ IsBatch(todo') /\ todo'.phase = todo.phase
        /\ Known(todo', finishedReqs)
        /\ \A i \in 1..Len(todo'.reqs) : todo'.reqs[i].uid # u
        /\ u = todo.reqs[1].uid /\ ~todo.reqs[1].chunk /\ 1 \in 1..Len(todo.reqs)
    BY <2>0, RestOfBatch DEF LoopTypes, BatchesKnowFreed
  <2>3. u \in Reqs /\ u \in (owners \cup finishedReqs) \ ToSet(pending)
    BY <2>0, <2>2 DEF LoopTypes, IsBatch, BatchesKnowFreed, Known
  <2>4. todo.phase # "none"
    BY <2>0 DEF LoopTypes, IsBatch
  <2>5. /\ DOMAIN req' = Reqs
        /\ \A v \in Reqs : /\ req'[v].slot = req[v].slot
                           /\ req'[v].clen = req[v].clen /\ req'[v].dlen = req[v].dlen
                           /\ IsReq(req'[v])
        /\ r.slot = req[u].slot
    <3>1. DOMAIN req = Reqs /\ IsReq(req[u])
      BY <2>3 DEF LoopTypes
    <3>2. /\ IsReq(r) /\ r.slot = req[u].slot /\ r.clen = req[u].clen /\ r.dlen = req[u].dlen
      BY <3>1 DEF IsReq
    <3> DEFINE k == [r EXCEPT !.handle = NewHandle(r)]
    <3>3. IsReq(k) /\ k.slot = r.slot /\ k.clen = r.clen /\ k.dlen = r.dlen
      <4> HIDE DEF r
      <4> QED BY <3>2 DEF IsReq
    <3>4. req'[u] = k \/ req'[u] = r
      BY <2>0, <2>3, <3>1
    <3>5. DOMAIN req' = Reqs /\ \A v \in Reqs : v # u => req'[v] = req[v]
      BY <2>0, <3>1
    <3> HIDE DEF k, r
    <3> QED BY <3>2, <3>3, <3>4, <3>5 DEF LoopTypes
  <2> HIDE DEF r
  <2>6. CASE free
    <3>0. /\ u \in owners
          /\ running' = running \ {u}
          /\ freeSlots' = Append(freeSlots, req[u].slot)
          /\ newFinished' = newFinished \cup {u}
          /\ owners' = owners \ {u}
      BY <2>0, <2>1, <2>3, <2>5, <2>6
    <3> HIDE DEF free, keep, u
    <3>1. SlotPartition' /\ freeSlots' \in Seq(Slots)
      <4>1. \A v \in owners : req'[v].slot = req[v].slot
        BY <2>5 DEF LoopTypes
      <4> QED BY <3>0, <4>1, FreeingSlot DEF LoopTypes
    <3>2. LoopTypes'
      <4>1. IsBatch(inflight)' /\ IsBatch(todo)'
        BY <2>0, <2>2 DEF LoopTypes, IsBatch
      <4> QED BY <2>0, <2>5, <3>0, <3>1, <4>1 DEF LoopTypes
    <3>3. PendingApart'
      BY <2>0, <2>3, <3>0 DEF PendingApart
    <3>4. AdderFollowsPending'
      <4>1. adder.reqs = <<>>
        BY <2>0 DEF AdderFollowsPending
      <4> QED BY <2>0, <4>1 DEF AdderFollowsPending
    <3>5. BatchesKnowFreed'
      <4>1. Known(todo, finishedReqs)'
        BY <2>0, <2>2, <3>0 DEF Known
      <4>2. Known(inflight, newFinished)'
        BY <2>0, <3>0 DEF BatchesKnowFreed, Known
      <4> QED BY <2>0, <2>2, <2>4, <4>1, <4>2 DEF BatchesKnowFreed
    <3> QED BY <3>1, <3>2, <3>3, <3>4, <3>5
  <2>7. CASE ~free
    <3>0. UNCHANGED <<running, freeSlots, newFinished, owners>>
      BY <2>0, <2>7
    <3> HIDE DEF free, keep, u
    <3>1. SlotPartition'
      BY <2>5, <3>0, SlotsStay DEF LoopTypes
    <3>2. LoopTypes'
      <4>1. IsBatch(inflight)' /\ IsBatch(todo)'
        BY <2>0, <2>2 DEF LoopTypes, IsBatch
      <4> QED BY <2>0, <2>5, <3>0, <4>1 DEF LoopTypes
    <3>3. PendingApart' /\ AdderFollowsPending'
      BY <2>0, <3>0 DEF PendingApart, AdderFollowsPending
    <3>4. BatchesKnowFreed'
      BY <2>0, <2>2, <3>0 DEF BatchesKnowFreed, Known
    <3> QED BY <3>1, <3>2, <3>3, <3>4
  <2> QED BY <2>6, <2>7
<1> QED BY <1>1, <1>2

(* PrefillAdder looks at the first pending request it did not add yet, and *)
(* only while its token budget lasts: no request added so far was cut.     *)
LEMMA NextIsPending ==
  ASSUME SlotInv, MorePending, NEW u, u = NextPending, adder.budget > 0
  PROVE  LET n == Len(adder.reqs)
         IN  /\ n \in Nat /\ Len(pending) \in Nat /\ n + 1 \in 1..Len(pending)
             /\ u = pending[n + 1] /\ u \in received
             /\ \A i \in 1..n : /\ adder.reqs[i].uid = pending[i] /\ pending[i] # u
                                /\ pending[i] \in owners /\ pending[i] \notin chunked
                                /\ ~adder.reqs[i].chunk
<1> DEFINE n == Len(adder.reqs)
           m == Len(pending)
<1>1. n \in Nat /\ m \in Nat
  BY LenProperties DEF SlotInv, LoopTypes
<1>2. n < m /\ u = pending[n + 1]
  BY DEF MorePending, NextPending
<1>3. /\ \A i, j \in 1..m : pending[i] = pending[j] => i = j
      /\ \A i \in 1..m : pending[i] \in received
  BY ElementOfSeq DEF SlotInv, LoopTypes, PendingApart
<1>4. \A i \in 1..n : /\ adder.reqs[i].uid = pending[i]
                      /\ pending[i] \in owners
                      /\ adder.reqs[i].chunk <=> pending[i] \in chunked
                      /\ ~adder.reqs[i].chunk
  BY DEF SlotInv, AdderFollowsPending
<1> HIDE DEF n, m
<1>5. n + 1 \in 1..m
  BY <1>1, <1>2
<1>6. \A i \in 1..n : i \in 1..m /\ i # n + 1
  BY <1>1, <1>2
<1>7. \A i \in 1..n : pending[i] # u
  BY <1>2, <1>3, <1>5, <1>6
<1> QED BY <1>1, <1>2, <1>3, <1>4, <1>5, <1>7 DEF n, m

(* The chunk fits the budget, and uses it up when it cuts the prompt.      *)
LEMMA ChunkFits ==
  ASSUME NEW u \in Reqs, NEW clen \in Nat, adder.budget \in Nat
  PROVE  LET size == ChunkSize(u, clen)
         IN  /\ adder.budget - size \in Nat /\ clen + size \in Nat
             /\ size < InputLen(u) - clen => adder.budget - size = 0
<1> DEFINE len == InputLen(u)
<1>1. len \in Nat
  BY RequestAssumption, LenProperties DEF InputLen
<1>2. ChunkSize(u, clen) =
        IF adder.budget <= len - clen THEN adder.budget ELSE len - clen
  BY <1>1, MinOfTwo DEF ChunkSize
<1> HIDE DEF len
<1> QED BY <1>1, <1>2 DEF len

(* What _add_one_req does to everything but the slots.                     *)
LEMMA AddingKeepsRest ==
  ASSUME SlotInv, MorePending, NEW u, u = NextPending, adder.budget > 0,
         NEW slot, NEW clen \in Nat, NEW handle, NEW from,
         AddOneReq(u, slot, clen, handle, from),
         pc = "admit", owners' = owners \cup {u}, freeSlots' \in Seq(Slots),
         UNCHANGED <<received, pending, running, inflight, finishedReqs, pc, todo, newFinished>>
  PROVE  /\ LoopTypes' /\ PendingApart' /\ AdderFollowsPending' /\ BatchesKnowFreed'
         /\ req'[u].slot = slot /\ \A v \in Reqs \ {u} : req'[v] = req[v]
<1> DEFINE n    == Len(adder.reqs)
           m    == Len(pending)
           size == ChunkSize(u, clen)
           cut  == size < InputLen(u) - clen
           q    == adder.reqs
           e    == [uid |-> u, chunk |-> cut]
           x    == [slot |-> slot, ids |-> SubSeq(Prompt[u], 1, clen + size), clen |-> clen,
                    dlen |-> clen + size, handle |-> handle]
<1>1. /\ n \in Nat /\ m \in Nat /\ n + 1 \in 1..m
      /\ u = pending[n + 1] /\ u \in received
      /\ \A i \in 1..n : /\ q[i].uid = pending[i] /\ pending[i] # u
                         /\ pending[i] \in owners /\ pending[i] \notin chunked
                         /\ ~q[i].chunk
  BY NextIsPending, Zenon
<1>2. u \in Reqs /\ adder.budget \in Nat /\ DOMAIN req = Reqs
  BY <1>1 DEF SlotInv, LoopTypes
<1>3. /\ adder.budget - size \in Nat /\ clen + size \in Nat
      /\ cut => adder.budget - size = 0
  BY <1>2, ChunkFits, Zenon
<1>4. /\ adder'.budget = adder.budget - size
      /\ adder'.reqs = Append(q, e)
      /\ chunked' = IF cut THEN chunked \cup {u} ELSE chunked \ {u}
      /\ req' = [req EXCEPT ![u] = x]
  BY DEF AddOneReq
<1>5. cut \in BOOLEAN /\ e.uid = u /\ e.chunk = cut
  OBVIOUS
<1>6. IsReq(x) /\ x.slot = slot /\ x.clen = clen /\ x.dlen = clen + size
  BY DEF IsReq
<1>7. q \in Seq([uid : Reqs, chunk : BOOLEAN]) /\ e \in [uid : Reqs, chunk : BOOLEAN]
  BY <1>2, <1>5 DEF SlotInv, LoopTypes
<1> HIDE DEF size, cut, e, x
<1>8. /\ adder'.reqs \in Seq([uid : Reqs, chunk : BOOLEAN])
      /\ Len(adder'.reqs) = n + 1
      /\ \A i \in 1..n : adder'.reqs[i] = q[i]
      /\ adder'.reqs[n + 1] = e
  BY <1>4, <1>7, AppendProperties
<1>9. UidsOf(adder'.reqs) = UidsOf(q) \cup {u}
  <2>1. DOMAIN adder'.reqs = 1..(n + 1) /\ DOMAIN q = 1..n
    BY <1>7, <1>8
  <2> HIDE DEF n, q
  <2>2. 1..(n + 1) = 1..n \cup {n + 1}
    BY <1>1
  <2> QED BY <1>5, <1>8, <2>1, <2>2 DEF UidsOf
<1>10. u \in ToSet(pending)
  <2>1. DOMAIN pending = 1..m
    BY DEF SlotInv, LoopTypes
  <2> QED BY <1>1, <2>1 DEF ToSet
<1> HIDE DEF n, m, q
<1>11. /\ req'[u] = x /\ DOMAIN req' = Reqs
       /\ \A v \in Reqs \ {u} : req'[v] = req[v]
  BY <1>2, <1>4
<1>12. LoopTypes'
  <2>0. IsBatch(inflight) /\ IsBatch(todo)
    BY DEF SlotInv, LoopTypes
  <2>1. IsBatch(inflight)' /\ IsBatch(todo)'
    BY <2>0 DEF IsBatch
  <2>2. \A v \in Reqs : IsReq(req'[v]) /\ req'[v].clen \in Nat /\ req'[v].dlen \in Nat
    BY <1>3, <1>6, <1>11 DEF SlotInv, LoopTypes
  <2>3. adder'.budget \in Nat
    BY <1>3, <1>4
  <2> QED BY <1>1, <1>8, <1>11, <2>1, <2>2, <2>3 DEF SlotInv, LoopTypes
<1>13. PendingApart'
  <2>1. chunked' \subseteq ToSet(pending') \cap owners'
    BY <1>4, <1>10 DEF SlotInv, PendingApart
  <2>2. running' \subseteq owners' \ ToSet(pending')
    BY DEF SlotInv, PendingApart
  <2>3. owners' \cap ToSet(pending') \subseteq chunked' \cup UidsOf(adder'.reqs)
    BY <1>4, <1>9 DEF SlotInv, PendingApart, q
  <2> QED BY <2>1, <2>2, <2>3 DEF SlotInv, PendingApart
<1>14. AdderFollowsPending'
  <2>1. Len(adder'.reqs) <= Len(pending')
    BY <1>1, <1>8 DEF m
  <2>2. ASSUME NEW i \in 1..Len(adder'.reqs)
        PROVE  /\ adder'.reqs[i].uid = pending'[i]
               /\ pending'[i] \in owners'
               /\ adder'.reqs[i].chunk <=> pending'[i] \in chunked'
               /\ adder'.reqs[i].chunk => i = Len(adder'.reqs) /\ adder'.budget = 0
    <3>1. CASE i = n + 1
      BY <1>1, <1>3, <1>4, <1>5, <1>8, <3>1
    <3>2. CASE i \in 1..n
      BY <1>1, <1>4, <1>8, <3>2
    <3> QED BY <1>1, <1>8, <3>1, <3>2
  <2> QED BY <2>1, <2>2 DEF AdderFollowsPending
<1>15. BatchesKnowFreed'
  BY DEF SlotInv, BatchesKnowFreed, Known
<1> QED BY <1>6, <1>11, <1>12, <1>13, <1>14, <1>15

(* A handle that matches a prompt has a length.                            *)
LEMMA MatchLength ==
  ASSUME NEW u \in Reqs
  PROVE  Len(MatchReq(u)) \in Nat
<1> DEFINE ids  == SubSeq(Prompt[u], 1, InputLen(u) - 1)
           hits == {k \in 0..PagesDown(Len(ids)) :
                      \A j \in 1..k : SubSeq(ids, 1, j * PageSize) \in Cached(kv)}
<1>1. Prompt[u] \in Seq(Token) /\ InputLen(u) \in Nat
  BY RequestAssumption, LenProperties DEF InputLen
<1>2. ids \in Seq(Token) /\ Len(ids) \in Nat
  <2>1. \A i \in 1..(InputLen(u) - 1) : Prompt[u][i] \in Token
    BY <1>1, ElementOfSeq DEF InputLen
  <2>2. ids \in Seq(Token)
    BY <1>1, <2>1, SubSeqProperties
  <2> QED BY <2>2, LenProperties
<1> DEFINE n == PagesDown(Len(ids))
<1>3. n \in Nat
  <2> HIDE DEF ids
  <2> QED BY <1>2, PageSizeAssumption DEF PagesDown
<1>4. hits \subseteq 0..n /\ 0 \in hits
  <2> HIDE DEF ids
  <2>1. 0 \in 0..n
    BY <1>3
  <2> HIDE DEF n
  <2> QED BY <2>1 DEF n
<1>5. Max(hits) \in 0..n
  <2> HIDE DEF hits, n
  <2> QED BY <1>3, <1>4, MaxOfBounded
<1>6. MatchReq(u) = SubSeq(ids, 1, Max(hits) * PageSize)
  BY DEF MatchReq, MatchPrefix
<1> HIDE DEF ids, hits, n
<1>7. Max(hits) * PageSize \in Nat /\ Max(hits) * PageSize <= Len(ids)
  <2>1. Max(hits) <= n /\ Max(hits) \in Nat
    BY <1>3, <1>5
  <2>2. n * PageSize <= Len(ids)
    BY <1>2, PageSizeAssumption DEF n, PagesDown
  <2>3. Max(hits) * PageSize <= n * PageSize
    BY <1>3, <2>1, PageSizeAssumption
  <2> QED BY <1>2, <1>3, <2>1, <2>2, <2>3, PageSizeAssumption
<1>8. MatchReq(u) \in Seq(Token)
  <2>1. \A i \in 1..(Max(hits) * PageSize) : ids[i] \in Token
    BY <1>2, <1>7, ElementOfSeq
  <2> QED BY <1>6, <1>7, <2>1, SubSeqProperties
<1> QED BY <1>8, LenProperties

(* A further chunk keeps the slot of the request.                          *)
LEMMA AddChunkKeepsSlots ==
  ASSUME SlotInv, NEW u \in Reqs, AddChunk(u)
  PROVE  SlotInv'
<1>1. /\ pc = "admit" /\ MorePending /\ u = NextPending /\ adder.budget > 0 /\ u \in chunked
      /\ AddOneReq(u, req[u].slot, req[u].clen, req[u].handle, req[u].clen)
      /\ UNCHANGED <<received, pending, running, owners, freeSlots, inflight, finishedReqs, pc,
                     todo, newFinished>>
  BY DEF AddChunk, CanAdd
<1>2. u \in owners /\ req[u].clen \in Nat /\ freeSlots \in Seq(Slots) /\ owners \subseteq Reqs
  BY <1>1 DEF SlotInv, LoopTypes, PendingApart
<1>3. owners' = owners \cup {u} /\ freeSlots' \in Seq(Slots)
  BY <1>1, <1>2
<1>4. /\ LoopTypes' /\ PendingApart' /\ AdderFollowsPending' /\ BatchesKnowFreed'
      /\ req'[u].slot = req[u].slot /\ \A v \in Reqs \ {u} : req'[v] = req[v]
  BY <1>1, <1>2, <1>3, AddingKeepsRest
<1>5. SlotPartition'
  BY <1>1, <1>2, <1>4, SlotsStay DEF SlotInv
<1> QED BY <1>4, <1>5 DEF SlotInv

(* A new request takes a slot no one holds.                                *)
LEMMA AddNewKeepsSlots ==
  ASSUME SlotInv, NEW u \in Reqs, AddNew(u)
  PROVE  SlotInv'
<1> DEFINE h    == MatchReq(u)
           slot == Last(freeSlots)
<1>1. /\ pc = "admit" /\ MorePending /\ u = NextPending /\ adder.budget > 0 /\ u \notin chunked
      /\ freeSlots # <<>> /\ freeSlots' = Front(freeSlots)
      /\ AddOneReq(u, slot, Len(h), h, 0)
      /\ owners' = owners \cup {u}
      /\ UNCHANGED <<received, pending, running, inflight, finishedReqs, pc, todo, newFinished>>
  BY DEF AddNew, CanAdd, HasRoom
<1>2. Len(h) \in Nat
  BY MatchLength
<1> HIDE DEF h
<1>3. /\ freeSlots \in Seq(Slots) /\ owners \subseteq Reqs
      /\ freeSlots' \in Seq(Slots) /\ slot \in Slots
      /\ ToSet(freeSlots) = ToSet(freeSlots') \cup {slot}
      /\ Len(freeSlots') = Len(freeSlots) - 1
      /\ \A i \in 1..(Len(freeSlots) - 1) : freeSlots'[i] = freeSlots[i]
  <2>1. freeSlots \in Seq(Slots) /\ owners \subseteq Reqs
    BY DEF SlotInv, LoopTypes
  <2> QED BY <1>1, <2>1, FrontElements
<1>4. slot = freeSlots[Len(freeSlots)]
  BY DEF Last
<1> HIDE DEF slot
<1>5. /\ LoopTypes' /\ PendingApart' /\ AdderFollowsPending' /\ BatchesKnowFreed'
      /\ req'[u].slot = slot /\ \A v \in Reqs \ {u} : req'[v] = req[v]
  BY <1>1, <1>2, <1>3, AddingKeepsRest
<1>6. u \notin owners
  <2>1. /\ u = pending[Len(adder.reqs) + 1] /\ Len(adder.reqs) + 1 \in 1..Len(pending)
        /\ \A i \in 1..Len(adder.reqs) : adder.reqs[i].uid # u
    BY <1>1, NextIsPending
  <2>2. u \notin UidsOf(adder.reqs)
    <3>1. DOMAIN adder.reqs = 1..Len(adder.reqs)
      BY DEF SlotInv, LoopTypes
    <3> QED BY <2>1, <3>1 DEF UidsOf
  <2>3. u \in ToSet(pending)
    <3>1. DOMAIN pending = 1..Len(pending)
      BY DEF SlotInv, LoopTypes
    <3> QED BY <2>1, <3>1 DEF ToSet
  <2> QED BY <1>1, <2>2, <2>3 DEF SlotInv, PendingApart
<1>7. SlotPartition'
  <2> DEFINE n == Len(freeSlots)
  <2>1. /\ n \in Nat /\ DOMAIN freeSlots = 1..n /\ Len(freeSlots') \in Nat
        /\ DOMAIN freeSlots' = 1..Len(freeSlots') /\ n # 0
    BY <1>1, <1>3, LenProperties, EmptySeq
  <2>2. /\ \A i, j \in 1..n : freeSlots[i] = freeSlots[j] => i = j
        /\ \A v, w \in owners : req[v].slot = req[w].slot => v = w
        /\ \A v \in owners : req[v].slot \notin ToSet(freeSlots)
        /\ ToSet(freeSlots) \cup {req[v].slot : v \in owners} = Slots
    BY <2>1 DEF SlotInv, SlotPartition
  <2> HIDE DEF n
  <2>3. DOMAIN freeSlots' = 1..(n - 1) /\ \A i \in 1..(n - 1) : freeSlots'[i] = freeSlots[i]
    BY <1>3, <2>1 DEF n
  <2>4. slot = freeSlots[n] /\ n \in 1..n /\ \A i \in 1..(n - 1) : i \in 1..n /\ i # n
    <3>1. slot = freeSlots[n]
      BY <1>4 DEF n
    <3>2. n \in Nat /\ n # 0
      BY <2>1
    <3> QED BY <3>1, <3>2
  <2>5. slot \notin ToSet(freeSlots') /\ slot \in ToSet(freeSlots)
    BY <2>1, <2>2, <2>3, <2>4 DEF ToSet
  <2>6. \A v \in owners : req'[v].slot = req[v].slot
    BY <1>3, <1>5, <1>6
  <2>7. \A i, j \in DOMAIN freeSlots' : freeSlots'[i] = freeSlots'[j] => i = j
    BY <2>2, <2>3, <2>4
  <2>8. \A v, w \in owners' : req'[v].slot = req'[w].slot => v = w
    BY <1>1, <1>5, <2>2, <2>5, <2>6
  <2>9. \A v \in owners' : req'[v].slot \notin ToSet(freeSlots')
    BY <1>1, <1>3, <1>5, <2>2, <2>5, <2>6
  <2>10. ToSet(freeSlots') \cup {req'[v].slot : v \in owners'} = Slots
    <3>1. {req'[v].slot : v \in owners'} = {req[v].slot : v \in owners} \cup {slot}
      BY <1>1, <1>5, <2>6
    <3> QED BY <1>3, <2>2, <3>1
  <2> QED BY <2>7, <2>8, <2>9, <2>10 DEF SlotPartition
<1> QED BY <1>5, <1>7 DEF SlotInv

(* What stays in pending_list when the prefill batch is taken from it: the *)
(* cut request, and no other that was added.                               *)
LEMMA RestOfPending ==
  ASSUME SlotInv
  PROVE  /\ RestPending \in Seq(received)
         /\ \A i, j \in 1..Len(RestPending) : RestPending[i] = RestPending[j] => i = j
         /\ ToSet(RestPending) \subseteq ToSet(pending)
         /\ chunked \subseteq ToSet(RestPending)
         /\ owners \cap ToSet(RestPending) \subseteq chunked
         /\ \A i \in 1..Len(adder.reqs) :
              ~adder.reqs[i].chunk => adder.reqs[i].uid \in owners \ ToSet(RestPending)
<1> DEFINE q    == adder.reqs
           n    == Len(q)
           m    == Len(pending)
           cut  == n > 0 /\ q[n].chunk
           k    == IF cut THEN n ELSE n + 1
           rest == RestPending
<1>1. n \in Nat /\ m \in Nat /\ n <= m /\ DOMAIN pending = 1..m /\ DOMAIN q = 1..n
  BY LenProperties DEF SlotInv, LoopTypes, AdderFollowsPending
<1>2. \A i, j \in 1..m : pending[i] = pending[j] => i = j
  BY DEF SlotInv, PendingApart
<1>3. \A i \in 1..n : /\ q[i].uid = pending[i] /\ pending[i] \in owners
                      /\ q[i].chunk <=> pending[i] \in chunked
                      /\ q[i].chunk => i = n
  BY DEF SlotInv, AdderFollowsPending
<1>4. pending \in Seq(received)
  BY DEF SlotInv, LoopTypes
<1>5. rest = SubSeq(pending, k, m)
  BY DEF RestPending
<1> HIDE DEF q, n, m, rest
<1>6. k \in 1..(m + 1)
  BY <1>1
<1>7. k \in 1..(Len(pending) + 1) /\ rest = SubSeq(pending, k, Len(pending))
  BY <1>5, <1>6 DEF m
<1> HIDE DEF k
<1>8. /\ rest \in Seq(received)
      /\ \A i, j \in 1..Len(rest) : rest[i] = rest[j] => i = j
      /\ ToSet(rest) = {pending[i] : i \in k..Len(pending)}
  <2> DEFINE t == SubSeq(pending, k, Len(pending))
  <2>1. \A i, j \in 1..Len(pending) : pending[i] = pending[j] => i = j
    BY <1>2 DEF m
  <2>2. /\ t \in Seq(received)
        /\ \A i, j \in 1..Len(t) : t[i] = t[j] => i = j
        /\ ToSet(t) = {pending[i] : i \in k..Len(pending)}
    <3>1. k \in 1..(Len(pending) + 1)
      BY <1>7
    <3> QED BY <1>4, <2>1, <3>1, SuffixElements
  <2>3. rest = t
    BY <1>7
  <2> HIDE DEF t
  <2> QED BY <2>2, <2>3
<1>9. ToSet(rest) = {pending[i] : i \in k..m}
  BY <1>8 DEF m
<1>10. \A i \in k..m : i \in 1..m
  BY <1>1, <1>6
<1>11. ToSet(pending) = {pending[i] : i \in 1..m}
  BY <1>1 DEF ToSet
<1>12. ToSet(rest) \subseteq ToSet(pending)
  BY <1>9, <1>10, <1>11
<1> DEFINE chunk(i) == q[i].chunk
<1>13. \/ n > 0 /\ chunk(n) /\ k = n
       \/ ~(n > 0 /\ chunk(n)) /\ k = n + 1
  BY DEF k
<1>14. \A i \in 1..n : chunk(i) => i = n
  BY <1>3
<1> HIDE DEF chunk
<1>15. \A i \in 1..m : i \in k..m \/ (i \in 1..n /\ ~chunk(i))
  BY <1>1, <1>13, <1>14
<1>16. \A i \in 1..n : ~chunk(i) => i \notin k..m /\ i \in 1..m
  BY <1>1, <1>13, <1>14
<1>17. \A i \in 1..m : i \in k..m \/ (i \in 1..n /\ ~q[i].chunk)
  BY <1>15 DEF chunk
<1>18. \A i \in 1..n : ~q[i].chunk => i \notin k..m /\ i \in 1..m
  BY <1>16 DEF chunk
<1>19. chunked \subseteq ToSet(rest)
  <2>1. ASSUME NEW v \in chunked PROVE v \in ToSet(rest)
    <3>1. PICK i \in 1..m : v = pending[i]
      BY <1>11 DEF SlotInv, PendingApart
    <3> QED BY <1>3, <1>9, <1>17, <3>1
  <2> QED BY <2>1
<1>20. \A i \in 1..n : ~q[i].chunk => q[i].uid \in owners \ ToSet(rest)
  BY <1>2, <1>3, <1>9, <1>10, <1>18
<1>21. owners \cap ToSet(rest) \subseteq chunked
  <2>1. ASSUME NEW v \in owners \cap ToSet(rest), v \notin chunked PROVE FALSE
    <3>1. v \in UidsOf(q)
      BY <1>12, <2>1 DEF SlotInv, PendingApart, q
    <3>2. PICK i \in 1..n : q[i].uid = v
      BY <1>1, <3>1 DEF UidsOf
    <3> QED BY <1>3, <1>20, <2>1, <3>2
  <2> QED BY <2>1
<1> QED BY <1>8, <1>12, <1>19, <1>20, <1>21 DEF rest, n, q

(* The batch of a round: each request once, and those that will decode are *)
(* admitted and no longer pending.                                         *)
LEMMA NextReqsFacts ==
  ASSUME SlotInv
  PROVE  LET q == NextReqs
         IN  /\ Len(q) \in Nat /\ DOMAIN q = 1..Len(q)
             /\ \A i \in 1..Len(q) : q[i].uid \in received
             /\ \A i, j \in 1..Len(q) : q[i].uid = q[j].uid => i = j
             /\ \A i \in 1..Len(q) : ~q[i].chunk => q[i].uid \in owners \ ToSet(RestPending)
             /\ NextPhase = "none" => q = <<>>
<1>1. CASE adder.reqs # <<>>
  <2> DEFINE q == adder.reqs
             n == Len(q)
             m == Len(pending)
  <2>1. NextReqs = q /\ NextPhase = "prefill"
    BY <1>1 DEF NextReqs, NextPhase
  <2>2. n \in Nat /\ m \in Nat /\ DOMAIN q = 1..n /\ n <= m
    BY LenProperties DEF SlotInv, LoopTypes, AdderFollowsPending
  <2>3. \A i \in 1..n : q[i].uid = pending[i]
    BY DEF SlotInv, AdderFollowsPending
  <2>4. /\ \A i, j \in 1..m : pending[i] = pending[j] => i = j
        /\ \A i \in 1..m : pending[i] \in received
    BY ElementOfSeq DEF SlotInv, LoopTypes, PendingApart
  <2>5. \A i \in 1..n : ~q[i].chunk => q[i].uid \in owners \ ToSet(RestPending)
    BY RestOfPending
  <2> HIDE DEF q, n, m
  <2>6. \A i \in 1..n : i \in 1..m
    BY <2>2
  <2>7. /\ \A i \in 1..n : q[i].uid \in received
        /\ \A i, j \in 1..n : q[i].uid = q[j].uid => i = j
    BY <2>3, <2>4, <2>6
  <2> QED BY <2>1, <2>2, <2>5, <2>7 DEF n
<1>2. CASE adder.reqs = <<>>
  <2> DEFINE order == SetToSeq(running)
             c     == Cardinality(running)
             q     == [i \in 1..c |-> [uid |-> order[i], chunk |-> FALSE]]
  <2>1. NextReqs = q /\ (NextPhase = "none" => running = {})
    BY <1>2 DEF NextReqs, NextPhase
  <2>2. IsFiniteSet(running)
    <3>1. running \in SUBSET Reqs
      BY DEF SlotInv, LoopTypes
    <3> QED BY <3>1, FS_Subset, RequestAssumption
  <2>3. /\ c \in Nat
        /\ \A i \in 1..c : order[i] \in running
        /\ \A i, j \in 1..c : order[i] = order[j] => i = j
    BY <2>2, SetToSeqLists
  <2>4. running = {} => c = 0
    BY FS_EmptySet
  <2> HIDE DEF order, c
  <2>5. /\ Len(q) = c /\ DOMAIN q = 1..c
        /\ \A i \in 1..c : q[i].uid = order[i] /\ q[i].chunk = FALSE
    BY <2>3
  <2>6. running = {} => q = <<>>
    BY <2>4
  <2> HIDE DEF q
  <2>7. running \subseteq received /\ running \subseteq owners \ ToSet(RestPending)
    BY RestOfPending DEF SlotInv, LoopTypes, PendingApart
  <2> QED BY <2>1, <2>3, <2>5, <2>6, <2>7
<1> QED BY <1>1, <1>2

(* The forward input has one entry per request of the batch.               *)
LEMMA BatchEntries ==
  ASSUME SlotInv, NEW rows
  PROVE  LET q     == NextReqs
             batch == ForwardInput(q, rows)
         IN  /\ DOMAIN batch = {"phase", "ran", "reqs", "tokens"}
             /\ batch.phase = NextPhase
             /\ batch.reqs \in Seq(ToSet(batch.reqs)) /\ Len(batch.reqs) = Len(q)
             /\ \A i \in 1..Len(q) : /\ batch.reqs[i].uid = q[i].uid
                                     /\ batch.reqs[i].chunk = q[i].chunk
<1> DEFINE q     == NextReqs
           batch == ForwardInput(q, rows)
<1>1. Len(q) \in Nat /\ DOMAIN q = 1..Len(q)
  BY NextReqsFacts, Zenon
<1>2. /\ DOMAIN batch = {"phase", "ran", "reqs", "tokens"}
      /\ batch.phase = NextPhase
      /\ batch.reqs = [i \in DOMAIN q |-> ForwardEntry(q[i], rows)]
      /\ \A i \in DOMAIN q : /\ ForwardEntry(q[i], rows).uid = q[i].uid
                             /\ ForwardEntry(q[i], rows).chunk = q[i].chunk
  BY DEF ForwardInput, ForwardEntry
<1> DEFINE n == Len(q)
           b == batch.reqs
<1> HIDE DEF q, batch
<1>3. b = [i \in 1..n |-> ForwardEntry(q[i], rows)] /\ n \in Nat
  BY <1>1, <1>2
<1>4. \A i \in 1..n : b[i].uid = q[i].uid /\ b[i].chunk = q[i].chunk
  BY <1>1, <1>2, <1>3
<1> HIDE DEF n, b
<1>5. DOMAIN b = 1..n /\ ToSet(b) = {b[i] : i \in 1..n}
  BY <1>3 DEF ToSet
<1>6. Len(b) = n /\ b \in Seq(ToSet(b))
  BY <1>3, <1>5
<1> QED BY <1>2, <1>4, <1>6 DEF n, b, q, batch

(* The launched batch goes behind the one in flight; its finished requests *)
(* are still admitted.                                                     *)
LEMMA LaunchKeepsSlots ==
  ASSUME SlotInv, Launch
  PROVE  SlotInv'
<1> DEFINE q     == NextReqs
           batch == ForwardInput(q, table')
           short == Max({0, Cardinality(NeededPages(q)) - Len(freePages)})
<1>1. CASE short > Cardinality(Evictable(kv))
  BY <1>1, FailStutters DEF Launch
<1>2. CASE ~(short > Cardinality(Evictable(kv)))
  <2>0. /\ pc = "admit" /\ pc' = "process"
        /\ HandOver(batch)
        /\ req' = [u \in Reqs |-> IF u \in UidsOf(q) THEN CompleteOne(req[u]) ELSE req[u]]
        /\ running' = FilterReqs(q)
        /\ pending' = RestPending
        /\ adder' = NewAdder
        /\ UNCHANGED <<received, chunked, owners, freeSlots, finishedReqs, newFinished>>
    BY <1>2 DEF Launch
  <2>1. /\ Len(q) \in Nat /\ DOMAIN q = 1..Len(q)
        /\ \A i \in 1..Len(q) : q[i].uid \in received
        /\ \A i, j \in 1..Len(q) : q[i].uid = q[j].uid => i = j
        /\ \A i \in 1..Len(q) : ~q[i].chunk => q[i].uid \in owners \ ToSet(RestPending)
        /\ NextPhase = "none" => q = <<>>
    BY NextReqsFacts, Zenon
  <2>2. DOMAIN batch = {"phase", "ran", "reqs", "tokens"} /\ batch.phase = NextPhase
    BY BatchEntries, Zenon
  <2>3. /\ batch.reqs \in Seq(ToSet(batch.reqs)) /\ Len(batch.reqs) = Len(q)
        /\ \A i \in 1..Len(q) : /\ batch.reqs[i].uid = q[i].uid
                                /\ batch.reqs[i].chunk = q[i].chunk
    BY BatchEntries, Zenon
  <2> HIDE DEF q, batch
  <2>4. NextPhase = "none" => batch.reqs = <<>>
    <3>1. NextPhase = "none" => Len(q) = 0
      BY <2>1, EmptySeq
    <3>2. batch.reqs # <<>> => Len(batch.reqs) # 0
      BY <2>3, EmptySeq
    <3> QED BY <2>3, <3>1, <3>2
  <2>5. /\ RestPending \in Seq(received)
        /\ \A i, j \in 1..Len(RestPending) : RestPending[i] = RestPending[j] => i = j
        /\ ToSet(RestPending) \subseteq ToSet(pending)
        /\ chunked \subseteq ToSet(RestPending)
        /\ owners \cap ToSet(RestPending) \subseteq chunked
    BY RestOfPending
  <2>6. /\ DOMAIN req' = Reqs
        /\ \A u \in Reqs : /\ IsReq(req'[u]) /\ req'[u].slot = req[u].slot
                           /\ req'[u].clen \in Nat /\ req'[u].dlen \in Nat
    <3>1. \A r : IsReq(r) /\ r.clen \in Nat /\ r.dlen \in Nat =>
            LET c == CompleteOne(r)
            IN  IsReq(c) /\ c.slot = r.slot /\ c.clen \in Nat /\ c.dlen \in Nat
      BY DEF IsReq, CompleteOne
    <3> QED BY <2>0, <3>1 DEF SlotInv, LoopTypes
  <2>7. NewAdder.reqs = <<>> /\ NewAdder.budget \in Nat
    BY CapacityAssumption DEF NewAdder
  <2>8. running' \subseteq owners \ ToSet(RestPending)
    <3>1. ASSUME NEW u \in UidsOf(q), ~q[PosOf(q, u)].chunk
          PROVE  u \in owners \ ToSet(RestPending)
      <4>1. \E i \in DOMAIN q : q[i].uid = u
        BY DEF UidsOf
      <4>2. PosOf(q, u) \in DOMAIN q /\ q[PosOf(q, u)].uid = u
        BY <4>1, Zenon DEF PosOf
      <4> QED BY <2>1, <3>1, <4>2
    <3>2. running \subseteq owners \ ToSet(RestPending)
      BY <2>5 DEF SlotInv, PendingApart
    <3> QED BY <2>0, <3>1, <3>2 DEF FilterReqs
  <2>9. IsBatch(batch) /\ IsBatch(NoBatch) /\ NoBatch.reqs = <<>>
    <3>1. IsBatch(batch)
      BY <2>1, <2>2, <2>3, <2>4 DEF IsBatch
    <3>2. IsBatch(NoBatch) /\ NoBatch.reqs = <<>>
      BY DEF IsBatch, NoBatch, ToSet
    <3> QED BY <3>1, <3>2
  <2>10. \/ Overlap /\ todo' = inflight /\ inflight' = batch
         \/ ~Overlap /\ todo' = batch /\ inflight' = NoBatch
    BY <2>0 DEF HandOver
  <2>11. LoopTypes'
    <3>1. IsBatch(todo)' /\ IsBatch(inflight)'
      BY <2>0, <2>9, <2>10 DEF SlotInv, LoopTypes, IsBatch
    <3>2. running' \subseteq received'
      BY <2>0, <2>8 DEF SlotInv, LoopTypes
    <3> QED BY <2>0, <2>5, <2>6, <2>7, <3>1, <3>2 DEF SlotInv, LoopTypes
  <2>12. PendingApart'
    <3>1. chunked' \subseteq ToSet(pending') \cap owners'
      BY <2>0, <2>5 DEF SlotInv, PendingApart
    <3>2. owners' \cap ToSet(pending') \subseteq chunked' \cup UidsOf(adder'.reqs)
      BY <2>0, <2>5
    <3>3. running' \subseteq owners' \ ToSet(pending')
      BY <2>0, <2>8
    <3> QED BY <2>0, <2>5, <3>1, <3>2, <3>3 DEF PendingApart
  <2>13. AdderFollowsPending'
    <3>1. Len(pending') \in Nat
      BY <2>0, <2>5, LenProperties
    <3>2. adder'.reqs = <<>> /\ Len(<<>>) = 0
      BY <2>0, <2>7
    <3> QED BY <2>0, <3>1, <3>2 DEF AdderFollowsPending
  <2>14. BatchesKnowFreed'
    <3>1. newFinished = {} /\ Known(inflight, finishedReqs)
      BY <2>0 DEF SlotInv, BatchesKnowFreed
    <3>2. \A i \in 1..Len(inflight.reqs) :
            ~inflight.reqs[i].chunk =>
              inflight.reqs[i].uid \in (owners \cup finishedReqs) \ ToSet(RestPending)
      BY <2>5, <3>1 DEF Known
    <3>3. \A i \in 1..Len(batch.reqs) :
            ~batch.reqs[i].chunk => batch.reqs[i].uid \in owners \ ToSet(RestPending)
      BY <2>1, <2>3
    <3>4. Known(todo, finishedReqs)' /\ Known(inflight, newFinished)'
      BY <2>0, <2>9, <2>10, <3>2, <3>3 DEF Known
    <3> QED BY <2>0, <2>9, <2>10, <3>1, <3>4 DEF BatchesKnowFreed
  <2>15. SlotPartition'
    BY <2>0, <2>6, SlotsStay DEF SlotInv, LoopTypes
  <2> QED BY <2>11, <2>12, <2>13, <2>14, <2>15 DEF SlotInv
<1> QED BY <1>1, <1>2
-----------------------------------------------------------------------------
(* Every step of the scheduler keeps the invariant.                        *)
LEMMA SlotInvStep ==
  ASSUME NoLateAbort, SlotInv, [Next]_vars
  PROVE  SlotInv'
<1>1. CASE BeginRound
  BY <1>1, BeginRoundKeepsSlots
<1>2. ASSUME NEW u \in Reqs, AddChunk(u) PROVE SlotInv'
  BY <1>2, AddChunkKeepsSlots
<1>3. ASSUME NEW u \in Reqs, AddNew(u) PROVE SlotInv'
  BY <1>3, AddNewKeepsSlots
<1>4. CASE Launch
  BY <1>4, LaunchKeepsSlots
<1>5. CASE SkipChunk
  BY <1>5, SkipChunkKeepsSlots
<1>6. CASE CompleteReq
  BY <1>6, CompleteReqKeepsSlots
<1>7. CASE EndRound
  BY <1>7, EndRoundKeepsSlots
<1>8. CASE GpuRun
  BY <1>8, GpuRunKeepsSlots
<1>9. CASE Idle
  BY <1>9, IdleKeepsSlots
<1>10. ASSUME NEW u \in Reqs, RecvUser(u) PROVE SlotInv'
  BY <1>10, RecvUserKeepsSlots
<1>11. ASSUME NEW u \in Reqs, RecvAbort(u) PROVE SlotInv'
  BY <1>11, RecvAbortKeepsSlots
<1>12. CASE UNCHANGED vars
  BY <1>12, SlotInvStutters DEF vars, slotVars, reqVars, memVars, loopVars
<1> QED
  BY <1>1, <1>2, <1>3, <1>4, <1>5, <1>6, <1>7, <1>8, <1>9, <1>10, <1>11, <1>12
     DEF Next, Round

(* Every table slot is always free, once, or held by one admitted request, *)
(* as long as no client disconnects while batches overlap: TableManager    *)
(* hands each slot out and takes it back once, through chunked prefill,    *)
(* the second report of a finished request and aborts of idle batches.     *)
THEOREM SlotSafety ==
  ASSUME NoLateAbort
  PROVE  Spec => []SlotPartition
<1>1. Init => SlotInv
  BY InitSlotInv
<1>2. SlotInv /\ [Next]_vars => SlotInv'
  BY SlotInvStep
<1>3. SlotInv => SlotPartition
  BY DEF SlotInv
<1> QED BY <1>1, <1>2, <1>3, PTL DEF Spec
-----------------------------------------------------------------------------
(* Nobody who holds a slot and pages is forgotten.  An admitted request    *)
(* that left pending_list is running, or has no room for a further step    *)
(* and a step whose token is still owed: device_len counts the tokens the  *)
(* host has and those of the steps not processed yet, so the token that    *)
(* makes the request finished is always the last one owed.                 *)
Steps(u, b) ==
  IF \E i \in 1..Len(b.reqs) : b.reqs[i].uid = u /\ ~b.reqs[i].chunk THEN 1 ELSE 0
Owed(u) == Steps(u, todo) + Steps(u, inflight)

FreedStayFreed ==
  finishedReqs \cup newFinished \subseteq received \ (owners \cup ToSet(pending))

AddedAreEven ==
  \A i \in 1..Len(adder.reqs) :
    LET u == adder.reqs[i].uid IN Len(req[u].ids) = req[u].dlen

TokensOwed ==
  \A u \in owners \ ToSet(pending) :
    /\ Len(req[u].ids) + Owed(u) = req[u].dlen
    /\ u \in running \/ (req[u].dlen >= MaxDevLen(u) /\ Owed(u) > 0)

MetInv ==
  /\ \A u \in Reqs : req[u].ids \in Seq(ToSet(req[u].ids))
  /\ FreedStayFreed
  /\ AddedAreEven
  /\ TokensOwed

LEMMA MaxDevLenType ==
  ASSUME NEW u \in Reqs
  PROVE  MaxDevLen(u) \in Int
<1>1. InputLen(u) \in Nat /\ MaxTokens[u] \in Int /\ MaxSeqLen \in Int
  BY RequestAssumption, CapacityAssumption, PageSizeAssumption, LenProperties DEF InputLen
<1>2. OutLen(u) \in {MaxTokens[u], MaxSeqLen - InputLen(u)}
  BY <1>1, MinOfTwo DEF OutLen
<1> QED BY <1>1, <1>2 DEF MaxDevLen

(* Steps that move no request.                                             *)
LEMMA MetStays ==
  ASSUME MetInv, UNCHANGED <<received, pending, running, req, owners, adder>>,
         finishedReqs' \cup newFinished' \subseteq finishedReqs \cup newFinished,
         \A u : Steps(u, todo') + Steps(u, inflight') = Steps(u, todo) + Steps(u, inflight)
  PROVE  MetInv'
<1>1. FreedStayFreed'
  BY DEF MetInv, FreedStayFreed
<1>2. AddedAreEven'
  BY DEF MetInv, AddedAreEven
<1>3. TokensOwed'
  BY DEF MetInv, TokensOwed, Owed, MaxDevLen
<1> QED BY <1>1, <1>2, <1>3 DEF MetInv

LEMMA MetStutters ==
  ASSUME MetInv, UNCHANGED slotVars
  PROVE  MetInv'
BY MetStays DEF slotVars

LEMMA FailKeepsMet ==
  ASSUME MetInv, NEW a, Fail(a)
  PROVE  MetInv'
BY MetStutters DEF Fail, slotVars, reqVars, memVars, loopVars

LEMMA NoSteps ==
  ASSUME NEW b, b.reqs = <<>>, NEW u
  PROVE  Steps(u, b) = 0
BY DEF Steps

LEMMA SameSteps ==
  ASSUME NEW b, NEW c, c.reqs = b.reqs, NEW u
  PROVE  Steps(u, c) = Steps(u, b)
BY DEF Steps

LEMMA SkipChunkSteps ==
  ASSUME NEW b, IsBatch(b), b.reqs # <<>>, Head(b.reqs).chunk, NEW u
  PROVE  Steps(u, RestOf(b)) = Steps(u, b)
<1> DEFINE q == b.reqs
           n == Len(q)
<1>1. q \in Seq(ToSet(q)) /\ q # <<>>
  BY DEF IsBatch
<1>2. n \in Nat /\ n > 0 /\ q[1].chunk
  BY <1>1, LenProperties, EmptySeq
<1>3. RestOf(b).reqs = Tail(q)
  BY BatchUpdates
<1>4. Len(Tail(q)) = n - 1 /\ \A i \in 1..(n - 1) : Tail(q)[i] = q[i + 1]
  BY <1>1, TailElements
<1> HIDE DEF q, n
<1>5. \A i \in 1..n : ~q[i].chunk => i - 1 \in 1..(n - 1) /\ Tail(q)[i - 1] = q[i]
  <2>1. ASSUME NEW i \in 1..n, ~q[i].chunk
        PROVE  i - 1 \in 1..(n - 1) /\ (i - 1) + 1 = i
    BY <1>2, <2>1
  <2> QED BY <1>4, <2>1
<1>6. \A i \in 1..(n - 1) : i + 1 \in 1..n /\ Tail(q)[i] = q[i + 1]
  BY <1>2, <1>4
<1>7. (\E i \in 1..n : q[i].uid = u /\ ~q[i].chunk)
        <=> (\E i \in 1..(n - 1) : Tail(q)[i].uid = u /\ ~Tail(q)[i].chunk)
  BY <1>5, <1>6
<1> QED BY <1>3, <1>4, <1>7 DEF Steps, q, n

(* The entry that was handled owed one token to its request, and the rest  *)
(* of the batch owes what it owed to the others.                           *)
LEMMA CompleteSteps ==
  ASSUME NEW b, IsBatch(b), b.reqs # <<>>, ~Head(b.reqs).chunk, NEW u
  PROVE  /\ Steps(Head(b.reqs).uid, b) = 1
         /\ Steps(Head(b.reqs).uid, RestOf(b)) = 0
         /\ u # Head(b.reqs).uid => Steps(u, RestOf(b)) = Steps(u, b)
<1> DEFINE q == b.reqs
           n == Len(q)
           h == Head(q).uid
<1>1. q \in Seq(ToSet(q)) /\ q # <<>>
  BY DEF IsBatch
<1>2. n \in Nat /\ n > 0 /\ ~q[1].chunk /\ h = q[1].uid
  BY <1>1, LenProperties, EmptySeq
<1>3. RestOf(b).reqs = Tail(q)
  BY BatchUpdates
<1>4. Len(Tail(q)) = n - 1 /\ \A i \in 1..(n - 1) : Tail(q)[i] = q[i + 1]
  BY <1>1, TailElements
<1>5. \A i, j \in 1..n : q[i].uid = q[j].uid => i = j
  BY DEF IsBatch
<1> HIDE DEF q, n, h
<1>6. 1 \in 1..n /\ \A i \in 1..(n - 1) : i + 1 \in 1..n /\ i + 1 # 1
  BY <1>2
<1>7. \A i \in 1..(n - 1) : Tail(q)[i].uid # h
  BY <1>2, <1>4, <1>5, <1>6
<1>8. Steps(h, b) = 1
  BY <1>2, <1>6 DEF Steps, q, n
<1>9. Steps(h, RestOf(b)) = 0
  BY <1>3, <1>4, <1>7 DEF Steps
<1>10. ASSUME u # h PROVE Steps(u, RestOf(b)) = Steps(u, b)
  <2>1. \A i \in 1..n : q[i].uid = u => i - 1 \in 1..(n - 1) /\ Tail(q)[i - 1] = q[i]
    <3>1. ASSUME NEW i \in 1..n, q[i].uid = u PROVE i # 1
      BY <1>2, <1>10, <3>1
    <3>2. ASSUME NEW i \in 1..n, i # 1 PROVE i - 1 \in 1..(n - 1) /\ (i - 1) + 1 = i
      BY <1>2, <3>2
    <3> QED BY <1>4, <3>1, <3>2
  <2>2. (\E i \in 1..n : q[i].uid = u /\ ~q[i].chunk)
          <=> (\E i \in 1..(n - 1) : Tail(q)[i].uid = u /\ ~Tail(q)[i].chunk)
    BY <1>4, <1>6, <2>1
  <2> QED BY <1>3, <1>4, <2>2 DEF Steps, q, n
<1> QED BY <1>8, <1>9, <1>10 DEF h, q

(* The rounds in which no request moves.                                   *)
LEMMA QuietStepsKeepMet ==
  ASSUME SlotInv, MetInv, BeginRound \/ EndRound \/ GpuRun \/ SkipChunk \/ Idle
  PROVE  MetInv'
<1>1. CASE BeginRound
  BY <1>1, MetStays DEF BeginRound, reqVars, memVars, loopVars
<1>2. CASE EndRound
  <2>0. /\ todo.reqs = <<>> /\ todo' = NoBatch /\ newFinished' = {} /\ inflight' = inflight
        /\ finishedReqs' = IF todo.phase = "none" THEN finishedReqs ELSE newFinished
        /\ UNCHANGED <<received, pending, running, req, owners, adder>>
    BY <1>2 DEF EndRound, reqVars
  <2>1. NoBatch.reqs = <<>>
    BY DEF NoBatch
  <2>2. \A u : Steps(u, todo') + Steps(u, inflight') = Steps(u, todo) + Steps(u, inflight)
    BY <2>0, <2>1, NoSteps
  <2>3. finishedReqs' \cup newFinished' \subseteq finishedReqs \cup newFinished
    BY <2>0
  <2> QED BY <2>0, <2>2, <2>3, MetStays
<1>3. CASE GpuRun
  <2>0. /\ UNCHANGED <<received, pending, running, req, owners, finishedReqs, adder, newFinished>>
        /\ \/ inflight' = inflight /\ \E tokens : todo' = WithTokens(todo, tokens)
           \/ todo' = todo /\ \E tokens : inflight' = WithTokens(inflight, tokens)
    BY <1>3 DEF GpuRun, reqVars
  <2>1. todo'.reqs = todo.reqs /\ inflight'.reqs = inflight.reqs
    BY <2>0, BatchUpdates DEF SlotInv, LoopTypes
  <2>2. \A u : Steps(u, todo') = Steps(u, todo) /\ Steps(u, inflight') = Steps(u, inflight)
    BY <2>1, SameSteps
  <2> QED BY <2>0, <2>2, MetStays
<1>4. CASE SkipChunk
  <2>0. /\ todo.reqs # <<>> /\ Head(todo.reqs).chunk /\ todo' = RestOf(todo)
        /\ UNCHANGED <<received, pending, running, req, owners, inflight, finishedReqs, adder,
                       newFinished>>
    BY <1>4 DEF SkipChunk, reqVars, memVars
  <2>1. \A u : Steps(u, todo') = Steps(u, todo)
    BY <2>0, SkipChunkSteps DEF SlotInv, LoopTypes
  <2> QED BY <2>0, <2>1, MetStays
<1>5. CASE Idle
  <2>1. CASE Integrity
    BY <1>5, <2>1, MetStutters DEF Idle, vars, slotVars, reqVars, memVars, loopVars
  <2>2. CASE ~Integrity
    BY <1>5, <2>2, FailKeepsMet DEF Idle
  <2> QED BY <2>1, <2>2
<1> QED BY <1>1, <1>2, <1>3, <1>4, <1>5

LEMMA RecvUserKeepsMet ==
  ASSUME SlotInv, MetInv, NEW u \in Reqs, RecvUser(u)
  PROVE  MetInv'
<1>0. /\ received' = received \cup {u} /\ u \notin received
      /\ pending' = pending \/ pending' = Append(pending, u)
      /\ UNCHANGED <<running, req, owners, inflight, finishedReqs, adder, todo, newFinished>>
  BY DEF RecvUser, loopVars, memVars
<1>1. ToSet(pending) \subseteq ToSet(pending') /\ ToSet(pending') \subseteq ToSet(pending) \cup {u}
  BY <1>0, AppendElements DEF SlotInv, LoopTypes
<1>2. owners \subseteq received
  BY DEF SlotInv, LoopTypes
<1>3. FreedStayFreed'
  BY <1>0, <1>1, <1>2 DEF MetInv, FreedStayFreed
<1>4. AddedAreEven'
  BY <1>0 DEF MetInv, AddedAreEven
<1>5. TokensOwed'
  <2>1. \A v : Owed(v)' = Owed(v)
    BY <1>0 DEF Owed
  <2>2. owners' \ ToSet(pending') \subseteq owners \ ToSet(pending)
    BY <1>0, <1>1
  <2> QED BY <1>0, <2>1, <2>2 DEF MetInv, TokensOwed, MaxDevLen
<1> QED BY <1>0, <1>3, <1>4, <1>5 DEF MetInv

(* An abort found nobody it leaves behind: without overlap, at the drain,  *)
(* an owner is chunked or running.                                         *)
LEMMA RecvAbortKeepsMet ==
  ASSUME NoLateAbort, SlotInv, MetInv, NEW u \in Reqs, RecvAbort(u)
  PROVE  MetInv'
<1>1. CASE AbortFinds(u) /\ ~CacheReqSafe(req[u])
  BY <1>1, FailKeepsMet DEF RecvAbort
<1>2. CASE ~(AbortFinds(u) /\ ~CacheReqSafe(req[u]))
  <2>0. /\ pc = "recv" /\ u \in Abortable
        /\ pending' = DropPending(u)
        /\ running' = IF u \in ToSet(pending) THEN running ELSE running \ {u}
        /\ IF AbortFinds(u) THEN owners' = owners \ {u} ELSE owners' = owners
        /\ UNCHANGED <<received, req, inflight, finishedReqs, adder, todo, newFinished>>
    BY <1>2 DEF RecvAbort, loopVars
  <2>1. adder.reqs = <<>>
    BY <2>0 DEF SlotInv, AdderFollowsPending
  <2>2. ToSet(pending') = ToSet(pending) \ {u}
    BY <2>0, DroppedPending
  <2>3. u \notin owners' \cap ToSet(pending)
    <3>1. UidsOf(adder.reqs) = {}
      BY <2>1 DEF UidsOf
    <3> QED BY <2>0, <3>1 DEF AbortFinds, SlotInv, PendingApart
  <2>4. FreedStayFreed'
    BY <2>0, <2>2 DEF MetInv, FreedStayFreed
  <2>5. AddedAreEven'
    BY <2>0, <2>1 DEF AddedAreEven
  <2>6. TokensOwed'
    <3>1. ASSUME NEW v \in owners' \ ToSet(pending')
          PROVE  /\ v \in owners \ ToSet(pending)
                 /\ v \in running => v \in running'
      BY <2>0, <2>2, <2>3 DEF AbortFinds, SlotInv, PendingApart
    <3>2. \A v : Owed(v)' = Owed(v)
      BY <2>0 DEF Owed
    <3> QED BY <2>0, <3>1, <3>2 DEF MetInv, TokensOwed, MaxDevLen
  <2> QED BY <2>0, <2>4, <2>5, <2>6 DEF MetInv
<1> QED BY <1>1, <1>2

LEMMA AppendOwn ==
  ASSUME NEW s, s \in Seq(ToSet(s)), NEW x
  PROVE  /\ Append(s, x) \in Seq(ToSet(Append(s, x)))
         /\ Len(Append(s, x)) = Len(s) + 1 /\ Len(s) \in Nat
<1> DEFINE S == ToSet(s) \cup {x}
<1>1. s \in Seq(S) /\ x \in S
  BY SeqMonotonic
<1> HIDE DEF S
<1> QED BY <1>1, AppendProperties, SeqOfOwnElements, LenProperties

(* The token of a step reaches a request that still runs, is still owed    *)
(* another one, or ends with it.                                           *)
LEMMA CompleteReqKeepsMet ==
  ASSUME SlotInv, MetInv, CompleteReq
  PROVE  MetInv'
<1> DEFINE u     == Head(todo.reqs).uid
           token == Head(todo.tokens)
           r     == [req[u] EXCEPT !.ids = Append(@, token)]
           free  == FreesNow(r, u, token)
           keep  == ~free /\ todo.phase = "prefill"
           k     == [r EXCEPT !.handle = NewHandle(r)]
<1>1. CASE (free \/ keep) /\ ~CacheReqSafe(r)
  BY <1>1, FailKeepsMet DEF CompleteReq
<1>2. CASE ~((free \/ keep) /\ ~CacheReqSafe(r))
  <2>0. /\ pc = "process" /\ todo.reqs # <<>> /\ ~Head(todo.reqs).chunk
        /\ req' = [req EXCEPT ![u] = IF keep THEN k ELSE r]
        /\ IF free
           THEN /\ running' = running \ {u}
                /\ newFinished' = newFinished \cup {u}
                /\ owners' = owners \ {u}
           ELSE UNCHANGED <<running, newFinished, owners>>
        /\ todo' = RestOf(todo)
        /\ UNCHANGED <<received, pending, inflight, finishedReqs, adder>>
    BY <1>2 DEF CompleteReq, RemoveReq
  <2>1. /\ u \in received /\ u \in Reqs
        /\ u \in (owners \cup finishedReqs) \ ToSet(pending)
    <3>1. u = todo.reqs[1].uid /\ ~todo.reqs[1].chunk /\ 1 \in 1..Len(todo.reqs)
      BY <2>0, RestOfBatch DEF SlotInv, LoopTypes
    <3> QED BY <2>0, <3>1 DEF SlotInv, LoopTypes, IsBatch, BatchesKnowFreed, Known
  <2>2. /\ r.ids = Append(req[u].ids, token) /\ r.dlen = req[u].dlen
        /\ k.ids = r.ids /\ k.dlen = r.dlen
    <3>1. IsReq(req[u])
      BY <2>1 DEF SlotInv, LoopTypes
    <3>2. r.ids = Append(req[u].ids, token) /\ r.dlen = req[u].dlen /\ IsReq(r)
      BY <3>1 DEF IsReq
    <3> HIDE DEF r
    <3> QED BY <3>2 DEF IsReq
  <2>3. /\ req'[u].ids = r.ids /\ req'[u].dlen = req[u].dlen
        /\ \A v \in Reqs \ {u} : req'[v] = req[v]
    <3>1. DOMAIN req = Reqs
      BY DEF SlotInv, LoopTypes
    <3> HIDE DEF r, k, keep
    <3> QED BY <2>0, <2>1, <2>2, <3>1
  <2>4. r.ids \in Seq(ToSet(r.ids)) /\ Len(r.ids) = Len(req[u].ids) + 1 /\ Len(req[u].ids) \in Nat
    <3>1. req[u].ids \in Seq(ToSet(req[u].ids))
      BY <2>1 DEF MetInv
    <3> HIDE DEF r, k, u, token
    <3>2. /\ Append(req[u].ids, token) \in Seq(ToSet(Append(req[u].ids, token)))
          /\ Len(Append(req[u].ids, token)) = Len(req[u].ids) + 1 /\ Len(req[u].ids) \in Nat
      BY <3>1, AppendOwn
    <3> QED BY <2>2, <3>2
  <2>5. /\ Steps(u, todo) = 1 /\ Steps(u, todo') = 0
        /\ \A v : v # u => Steps(v, todo') = Steps(v, todo)
    BY <2>0, CompleteSteps DEF SlotInv, LoopTypes
  <2>6. ~free => Len(r.ids) < MaxDevLen(u) \/ u \in finishedReqs
    <3>1. Len(r.ids) \in Nat /\ MaxDevLen(u) \in Int
      BY <2>1, <2>4, MaxDevLenType
    <3> QED BY <3>1 DEF FreesNow, IsFinished
  <2> HIDE DEF r, k, keep, free, u
  <2>7. FreedStayFreed'
    BY <2>0, <2>1 DEF MetInv, FreedStayFreed
  <2>8. AddedAreEven'
    <3>1. Len(adder.reqs) = 0
      BY <2>0 DEF SlotInv, AdderFollowsPending
    <3> QED BY <2>0, <3>1 DEF AddedAreEven
  <2>9. ASSUME NEW v \in owners' \ ToSet(pending')
        PROVE  /\ Len(req'[v].ids) + (Steps(v, todo') + Steps(v, inflight')) = req'[v].dlen
               /\ \/ v \in running'
                  \/ req'[v].dlen >= MaxDevLen(v) /\ Steps(v, todo') + Steps(v, inflight') > 0
    <3>0. /\ v \in owners \ ToSet(pending) /\ v \in Reqs
          /\ Len(req[v].ids) + (Steps(v, todo) + Steps(v, inflight)) = req[v].dlen
          /\ v \in running \/ (req[v].dlen >= MaxDevLen(v) /\ Steps(v, todo) + Steps(v, inflight) > 0)
      BY <2>0, <2>9 DEF MetInv, TokensOwed, Owed, SlotInv, LoopTypes
    <3>1. CASE v # u
      BY <2>0, <2>3, <2>5, <3>0, <3>1
    <3>2. CASE v = u
      <4>1. ~free /\ Len(r.ids) < MaxDevLen(u)
        BY <2>0, <2>6, <2>9, <3>0, <3>2 DEF MetInv, FreedStayFreed
      <4>2. /\ Steps(u, inflight) \in {0, 1} /\ Len(r.ids) = Len(req[u].ids) + 1
            /\ Len(req[u].ids) \in Nat /\ MaxDevLen(u) \in Int
        BY <2>1, <2>4, MaxDevLenType DEF Steps
      <4>3. Len(r.ids) + Steps(u, inflight) = req[u].dlen
        BY <2>5, <3>0, <3>2, <4>2
      <4>4. u \in running \/ (req[u].dlen >= MaxDevLen(u) /\ Steps(u, inflight) > 0)
        BY <3>0, <3>2, <4>1, <4>2, <4>3
      <4> QED BY <2>0, <2>3, <2>5, <3>2, <4>1, <4>2, <4>3, <4>4
    <3> QED BY <3>1, <3>2
  <2>10. TokensOwed'
    BY <2>9 DEF TokensOwed, Owed, MaxDevLen
  <2>11. \A v \in Reqs : req'[v].ids \in Seq(ToSet(req'[v].ids))
    BY <2>3, <2>4 DEF MetInv
  <2> QED BY <2>7, <2>8, <2>10, <2>11 DEF MetInv
<1> QED BY <1>1, <1>2

(* A request is added with as many tokens on the host as on the device.    *)
LEMMA AddingKeepsMet ==
  ASSUME SlotInv, MetInv, MorePending, NEW u, u = NextPending, adder.budget > 0,
         NEW slot, NEW clen \in Nat, NEW handle, NEW from,
         AddOneReq(u, slot, clen, handle, from),
         owners' \subseteq owners \cup {u},
         UNCHANGED <<received, pending, running, inflight, finishedReqs, todo, newFinished>>
  PROVE  MetInv'
<1> DEFINE n    == Len(adder.reqs)
           size == ChunkSize(u, clen)
           cut  == size < InputLen(u) - clen
           q    == adder.reqs
           e    == [uid |-> u, chunk |-> cut]
           ids  == SubSeq(Prompt[u], 1, clen + size)
           x    == [slot |-> slot, ids |-> ids, clen |-> clen,
                    dlen |-> clen + size, handle |-> handle]
<1>1. /\ n \in Nat /\ Len(pending) \in Nat /\ n + 1 \in 1..Len(pending)
      /\ u = pending[n + 1] /\ u \in received
      /\ \A i \in 1..n : q[i].uid # u
  BY NextIsPending, Zenon
<1>2. /\ u \in Reqs /\ adder.budget \in Nat /\ DOMAIN req = Reqs
      /\ q \in Seq([uid : Reqs, chunk : BOOLEAN]) /\ DOMAIN pending = 1..Len(pending)
  BY <1>1 DEF SlotInv, LoopTypes
<1>3. clen + size \in Nat
  BY <1>2, ChunkFits, Zenon
<1>4. /\ adder'.reqs = Append(q, e)
      /\ req' = [req EXCEPT ![u] = x]
  BY DEF AddOneReq
<1>5. x.ids = ids /\ x.dlen = clen + size /\ e.uid = u
  OBVIOUS
<1>6. Len(ids) = clen + size /\ ids \in Seq(ToSet(ids))
  <2> HIDE DEF size
  <2>1. ids = [i \in 1..(clen + size) |-> Prompt[u][i]]
    BY <1>3
  <2> HIDE DEF ids
  <2>2. DOMAIN ids = 1..(clen + size) /\ ToSet(ids) = {ids[i] : i \in 1..(clen + size)}
    BY <2>1 DEF ToSet
  <2> QED BY <1>3, <2>1, <2>2
<1>7. e \in [uid : Reqs, chunk : BOOLEAN]
  BY <1>2
<1> HIDE DEF e, x, ids, size, cut
<1>8. /\ Len(adder'.reqs) = n + 1
      /\ \A i \in 1..n : adder'.reqs[i] = q[i]
      /\ adder'.reqs[n + 1] = e
  BY <1>2, <1>4, <1>7, AppendProperties
<1>9. req'[u] = x /\ \A v \in Reqs \ {u} : req'[v] = req[v]
  BY <1>2, <1>4
<1>10. u \in ToSet(pending)
  BY <1>1, <1>2 DEF ToSet
<1>11. \A i \in 1..n : q[i].uid \in Reqs
  <2> HIDE DEF n, q
  <2>1. Len(q) = n
    BY DEF n, q
  <2>2. \A i \in 1..n : q[i] \in [uid : Reqs, chunk : BOOLEAN]
    BY <1>2, <2>1, ElementOfSeq
  <2> QED BY <2>2
<1>12. AddedAreEven'
  <2>1. ASSUME NEW i \in 1..Len(adder'.reqs)
        PROVE  Len(req'[adder'.reqs[i].uid].ids) = req'[adder'.reqs[i].uid].dlen
    <3>1. CASE i = n + 1
      BY <1>5, <1>6, <1>8, <1>9, <3>1
    <3>2. CASE i \in 1..n
      <4> DEFINE v == q[i].uid
      <4>1. Len(req[v].ids) = req[v].dlen
        BY <3>2 DEF MetInv, AddedAreEven
      <4>2. v \in Reqs \ {u} /\ adder'.reqs[i].uid = v
        BY <1>1, <1>8, <1>11, <3>2
      <4> HIDE DEF v
      <4> QED BY <1>9, <4>1, <4>2
    <3> QED BY <1>1, <1>8, <3>1, <3>2
  <2> QED BY <2>1 DEF AddedAreEven
<1>13. FreedStayFreed'
  BY <1>10 DEF MetInv, FreedStayFreed
<1>14. TokensOwed'
  <2>1. \A v : Owed(v)' = Owed(v)
    BY DEF Owed
  <2>2. \A v \in owners' \ ToSet(pending') : v \in owners \ ToSet(pending) /\ req'[v] = req[v]
    BY <1>9, <1>10 DEF SlotInv, LoopTypes
  <2> QED BY <2>1, <2>2 DEF MetInv, TokensOwed, MaxDevLen
<1>15. \A v \in Reqs : req'[v].ids \in Seq(ToSet(req'[v].ids))
  BY <1>5, <1>6, <1>9 DEF MetInv
<1> QED BY <1>12, <1>13, <1>14, <1>15 DEF MetInv

LEMMA AddKeepsMet ==
  ASSUME SlotInv, MetInv, NEW u \in Reqs, AddChunk(u) \/ AddNew(u)
  PROVE  MetInv'
<1>1. CASE AddChunk(u)
  <2>1. /\ MorePending /\ u = NextPending /\ adder.budget > 0
        /\ AddOneReq(u, req[u].slot, req[u].clen, req[u].handle, req[u].clen)
        /\ UNCHANGED <<received, pending, running, owners, inflight, finishedReqs, todo,
                       newFinished>>
    BY <1>1 DEF AddChunk, CanAdd
  <2>2. req[u].clen \in Nat
    BY DEF SlotInv, LoopTypes
  <2> QED BY <2>1, <2>2, AddingKeepsMet
<1>2. CASE AddNew(u)
  <2> DEFINE h    == MatchReq(u)
             slot == Last(freeSlots)
  <2>1. /\ MorePending /\ u = NextPending /\ adder.budget > 0
        /\ AddOneReq(u, slot, Len(h), h, 0)
        /\ owners' = owners \cup {u}
        /\ UNCHANGED <<received, pending, running, inflight, finishedReqs, todo, newFinished>>
    BY <1>2 DEF AddNew, CanAdd, HasRoom
  <2>2. Len(h) \in Nat
    BY MatchLength
  <2> HIDE DEF h, slot
  <2> QED BY <2>1, <2>2, AddingKeepsMet
<1> QED BY <1>1, <1>2

(* A launched batch owes one token to each request that is not cut; the    *)
(* requests it takes had all their tokens on the host, or one of them in   *)
(* the batch in flight.                                                    *)
LEMMA LaunchKeepsMet ==
  ASSUME SlotInv, MetInv, Launch
  PROVE  MetInv'
<1> DEFINE q     == NextReqs
           batch == ForwardInput(q, table')
           short == Max({0, Cardinality(NeededPages(q)) - Len(freePages)})
<1>1. CASE short > Cardinality(Evictable(kv))
  BY <1>1, FailKeepsMet DEF Launch
<1>2. CASE ~(short > Cardinality(Evictable(kv)))
  <2>0. /\ pc = "admit"
        /\ HandOver(batch)
        /\ req' = [u \in Reqs |-> IF u \in UidsOf(q) THEN CompleteOne(req[u]) ELSE req[u]]
        /\ running' = FilterReqs(q)
        /\ pending' = RestPending
        /\ adder' = NewAdder
        /\ UNCHANGED <<received, owners, finishedReqs, newFinished>>
    BY <1>2 DEF Launch
  <2>1. /\ Len(q) \in Nat /\ DOMAIN q = 1..Len(q)
        /\ \A i, j \in 1..Len(q) : q[i].uid = q[j].uid => i = j
    BY NextReqsFacts, Zenon
  <2>2. /\ Len(batch.reqs) = Len(q)
        /\ \A i \in 1..Len(q) : /\ batch.reqs[i].uid = q[i].uid
                                /\ batch.reqs[i].chunk = q[i].chunk
    BY BatchEntries, Zenon
  <2>3. /\ ToSet(RestPending) \subseteq ToSet(pending)
        /\ chunked \subseteq ToSet(RestPending)
    BY RestOfPending
  <2>4. \A v : Steps(v, todo) = 0 /\ (~Overlap => Steps(v, inflight) = 0)
    <3>1. todo.reqs = <<>> /\ (~Overlap => inflight.reqs = <<>>)
      BY <2>0 DEF SlotInv, BatchesKnowFreed
    <3> QED BY <3>1, NoSteps
  <2>5. NoBatch.reqs = <<>> /\ NewAdder.reqs = <<>>
    BY DEF NoBatch, NewAdder
  <2> HIDE DEF batch
  <2>6. \A v : Steps(v, todo') + Steps(v, inflight') = Steps(v, inflight) + Steps(v, batch)
    <3>1. \/ Overlap /\ todo' = inflight /\ inflight' = batch
          \/ ~Overlap /\ todo' = batch /\ inflight' = NoBatch
      BY <2>0 DEF HandOver
    <3>2. \A v : Steps(v, NoBatch) = 0 /\ Steps(v, batch) \in Int /\ Steps(v, inflight) \in Int
      BY <2>5, NoSteps DEF Steps
    <3> QED BY <2>4, <3>1, <3>2
  \* a request that stays admitted and is not in the batch
  <2>7. ASSUME NEW v \in owners \ ToSet(pending), v \notin UidsOf(q)
        PROVE  /\ Steps(v, batch) = 0 /\ req'[v] = req[v]
               /\ v \in running => v \in running'
    <3>1. \A i \in 1..Len(q) : q[i].uid # v
      BY <2>1, <2>7 DEF UidsOf
    <3>2. Steps(v, batch) = 0
      BY <2>2, <3>1 DEF Steps
    <3>3. v \in Reqs
      BY DEF SlotInv, LoopTypes
    <3> QED BY <2>0, <2>7, <3>2, <3>3 DEF FilterReqs
  \* a request of the batch that leaves pending_list or was not in it
  <2>8. ASSUME NEW v \in owners \ ToSet(RestPending),
               v \in ToSet(pending) \/ v \in UidsOf(q)
        PROVE  /\ \E i \in 1..Len(q) : q[i].uid = v /\ ~q[i].chunk
               /\ Len(req[v].ids) + Steps(v, inflight) = req[v].dlen
    <3>1. CASE adder.reqs # <<>>
      <4>1. q = adder.reqs
        BY <3>1 DEF NextReqs
      <4>2. \A i \in 1..Len(q) : /\ q[i].uid \in ToSet(pending)
                                 /\ q[i].chunk <=> q[i].uid \in chunked
        <5>1. /\ Len(q) <= Len(pending) /\ Len(pending) \in Nat
              /\ DOMAIN pending = 1..Len(pending)
              /\ \A i \in 1..Len(q) : /\ q[i].uid = pending[i]
                                      /\ q[i].chunk <=> pending[i] \in chunked
          BY <4>1, LenProperties DEF SlotInv, LoopTypes, AdderFollowsPending
        <5>2. \A i \in 1..Len(q) : i \in 1..Len(pending)
          BY <2>1, <5>1
        <5> HIDE DEF q
        <5> QED BY <5>1, <5>2 DEF ToSet
      <4>3. v \in ToSet(pending)
        <5>1. CASE v \in UidsOf(q)
          <6> HIDE DEF q
          <6> QED BY <2>1, <4>2, <5>1 DEF UidsOf
        <5> QED BY <2>8, <5>1
      <4>4. v \notin chunked
        BY <2>3, <2>8
      <4>5. v \in UidsOf(q)
        BY <2>8, <4>1, <4>3, <4>4 DEF SlotInv, PendingApart
      <4>6. PICK i \in 1..Len(q) : q[i].uid = v
        <5> HIDE DEF q
        <5> QED BY <2>1, <4>5 DEF UidsOf
      <4>7. Len(req[v].ids) = req[v].dlen /\ req[v].dlen \in Nat
        BY <4>1, <4>6 DEF MetInv, AddedAreEven, SlotInv, LoopTypes
      <4>8. Steps(v, inflight) = 0
        <5>1. Known(inflight, finishedReqs)
          BY <2>0 DEF SlotInv, BatchesKnowFreed
        <5> QED BY <4>3, <5>1 DEF Known, Steps
      <4> HIDE DEF q
      <4> QED BY <4>2, <4>4, <4>6, <4>7, <4>8
    <3>2. CASE adder.reqs = <<>>
      <4> DEFINE order == SetToSeq(running)
      <4>1. q = [i \in 1..Cardinality(running) |-> [uid |-> order[i], chunk |-> FALSE]]
        BY <3>2 DEF NextReqs
      <4> HIDE DEF q, order
      <4>2. \A i \in 1..Len(q) : ~q[i].chunk
        BY <2>1, <4>1
      <4>3. v \notin ToSet(pending)
        <5>1. UidsOf(adder.reqs) = {}
          BY <3>2 DEF UidsOf
        <5> QED BY <2>3, <2>8, <5>1 DEF SlotInv, PendingApart
      <4>4. Len(req[v].ids) + Owed(v) = req[v].dlen
        BY <2>8, <4>3 DEF MetInv, TokensOwed
      <4>5. Owed(v) = Steps(v, inflight)
        <5>1. Steps(v, inflight) \in {0, 1}
          BY DEF Steps
        <5> QED BY <2>4, <5>1 DEF Owed
      <4>6. \E i \in 1..Len(q) : q[i].uid = v
        BY <2>1, <2>8, <4>3 DEF UidsOf
      <4> QED BY <4>2, <4>4, <4>5, <4>6
    <3> QED BY <3>1, <3>2
  <2>9. ASSUME NEW v \in owners \ ToSet(RestPending),
               v \in ToSet(pending) \/ v \in UidsOf(q)
        PROVE  /\ Steps(v, batch) = 1
               /\ req'[v].ids = req[v].ids /\ req'[v].dlen = req[v].dlen + 1
               /\ v \in running' \/ req'[v].dlen >= MaxDevLen(v)
    <3>1. PICK i \in 1..Len(q) : q[i].uid = v /\ ~q[i].chunk
      BY <2>8, <2>9
    <3>2. v \in Reqs /\ IsReq(req[v]) /\ req[v].dlen \in Nat /\ MaxDevLen(v) \in Int
      BY MaxDevLenType DEF SlotInv, LoopTypes
    <3> HIDE DEF q
    <3>3. v \in UidsOf(q) /\ PosOf(q, v) = i
      BY <2>1, <3>1 DEF UidsOf, PosOf
    <3>4. req'[v] = CompleteOne(req[v])
      BY <2>0, <3>2, <3>3
    <3>5. CompleteOne(req[v]).ids = req[v].ids /\ CompleteOne(req[v]).dlen = req[v].dlen + 1
      BY <3>2 DEF CompleteOne, IsReq
    <3>6. Steps(v, batch) = 1
      BY <2>2, <3>1 DEF Steps
    <3>7. v \in running' <=> MaxDevLen(v) - CompleteOne(req[v]).dlen > 0
      BY <2>0, <3>1, <3>3 DEF FilterReqs
    <3> QED BY <3>2, <3>4, <3>5, <3>6, <3>7
  <2>10. FreedStayFreed'
    BY <2>0, <2>3 DEF MetInv, FreedStayFreed
  <2>11. AddedAreEven'
    BY <2>0, <2>5 DEF AddedAreEven
  <2>12. ASSUME NEW v \in owners \ ToSet(RestPending)
         PROVE  /\ Len(req'[v].ids) + (Steps(v, todo') + Steps(v, inflight')) = req'[v].dlen
                /\ \/ v \in running'
                   \/ req'[v].dlen >= MaxDevLen(v) /\ Steps(v, todo') + Steps(v, inflight') > 0
    <3>1. Steps(v, inflight) \in {0, 1} /\ Steps(v, batch) \in {0, 1}
      BY DEF Steps
    <3>2. Len(req[v].ids) \in Nat
      <4>1. v \in Reqs
        BY DEF SlotInv, LoopTypes
      <4>2. req[v].ids \in Seq(ToSet(req[v].ids))
        BY <4>1 DEF MetInv
      <4> QED BY <4>2, LenProperties
    <3>3. CASE v \in ToSet(pending) \/ v \in UidsOf(q)
      <4> HIDE DEF q
      <4> QED BY <2>6, <2>8, <2>9, <2>12, <3>1, <3>2, <3>3
    <3>4. CASE v \notin ToSet(pending) /\ v \notin UidsOf(q)
      <4>1. /\ Len(req[v].ids) + Owed(v) = req[v].dlen
            /\ v \in running \/ (req[v].dlen >= MaxDevLen(v) /\ Owed(v) > 0)
        BY <2>12, <3>4 DEF MetInv, TokensOwed
      <4>2. Owed(v) = Steps(v, inflight)
        BY <2>4, <3>1 DEF Owed
      <4> HIDE DEF q
      <4> QED BY <2>6, <2>7, <2>12, <3>1, <3>4, <4>1, <4>2
    <3> QED BY <3>3, <3>4
  <2>13. TokensOwed'
    BY <2>0, <2>12 DEF TokensOwed, Owed, MaxDevLen
  <2>14. \A v \in Reqs : req'[v].ids = req[v].ids
    <3>1. \A r : IsReq(r) => CompleteOne(r).ids = r.ids
      BY DEF IsReq, CompleteOne
    <3> HIDE DEF q
    <3> QED BY <2>0, <3>1 DEF SlotInv, LoopTypes
  <2> QED BY <2>10, <2>11, <2>13, <2>14 DEF MetInv
<1> QED BY <1>1, <1>2

(* Nobody is admitted at the start.                                        *)
LEMMA InitMet ==
  ASSUME Init
  PROVE  MetInv
<1>1. \A u \in Reqs : req[u].ids = <<>>
  BY DEF Init
<1>2. <<>> \in Seq(ToSet(<<>>))
  OBVIOUS
<1>3. AddedAreEven
  BY DEF Init, AddedAreEven, NewAdder
<1>4. FreedStayFreed /\ TokensOwed
  BY DEF Init, FreedStayFreed, TokensOwed
<1> QED BY <1>1, <1>2, <1>3, <1>4 DEF MetInv

(* Every step keeps it, given the invariant of the slots.                  *)
LEMMA MetInvStep ==
  ASSUME NoLateAbort, SlotInv, MetInv, [Next]_vars
  PROVE  MetInv'
<1>1. CASE BeginRound \/ EndRound \/ GpuRun \/ SkipChunk \/ Idle
  BY <1>1, QuietStepsKeepMet
<1>2. ASSUME NEW u \in Reqs, AddChunk(u) \/ AddNew(u) PROVE MetInv'
  BY <1>2, AddKeepsMet
<1>3. CASE Launch
  BY <1>3, LaunchKeepsMet
<1>4. CASE CompleteReq
  BY <1>4, CompleteReqKeepsMet
<1>5. ASSUME NEW u \in Reqs, RecvUser(u) PROVE MetInv'
  BY <1>5, RecvUserKeepsMet
<1>6. ASSUME NEW u \in Reqs, RecvAbort(u) PROVE MetInv'
  BY <1>6, RecvAbortKeepsMet
<1>7. CASE UNCHANGED vars
  BY <1>7, MetStutters DEF vars, slotVars, reqVars, memVars, loopVars
<1> QED
  BY <1>1, <1>2, <1>3, <1>4, <1>5, <1>6, <1>7 DEF Next, Round

(* Every admitted request whose slot and pages are not freed is waiting    *)
(* for its next chunk, running, or in a batch whose results are not        *)
(* processed: the scheduler will still meet it and free what it holds.     *)
(* That the last token owed is the one that makes a request finished is    *)
(* what keeps filter_reqs, which drops a request one step before its end,  *)
(* and _complete_batch_results, which frees it, together (scheduler.py,    *)
(* decode.py), for every prompt, budget, page and slot count.              *)
THEOREM NoOwnerIsLost ==
  ASSUME NoLateAbort
  PROVE  Spec => []OwnersAreReachable
<1>1. Init => SlotInv /\ MetInv
  BY InitSlotInv, InitMet
<1>2. SlotInv /\ MetInv /\ [Next]_vars => SlotInv' /\ MetInv'
  BY SlotInvStep, MetInvStep
<1>3. SlotInv /\ MetInv => OwnersAreReachable
  <2> SUFFICES ASSUME SlotInv, MetInv, NEW u \in owners
               PROVE  u \in chunked \cup running \cup UidsOf(adder.reqs)
                              \cup UidsOf(todo.reqs) \cup UidsOf(inflight.reqs)
    BY DEF OwnersAreReachable
  <2>1. CASE u \in ToSet(pending)
    BY <2>1 DEF SlotInv, PendingApart
  <2>2. CASE u \notin ToSet(pending)
    <3>1. u \in running \/ Owed(u) > 0
      BY <2>2 DEF MetInv, TokensOwed
    <3>2. \A b : IsBatch(b) /\ Steps(u, b) # 0 => u \in UidsOf(b.reqs)
      BY LenProperties DEF Steps, IsBatch, UidsOf
    <3>3. Owed(u) > 0 => Steps(u, todo) # 0 \/ Steps(u, inflight) # 0
      BY DEF Owed
    <3> QED BY <3>1, <3>2, <3>3 DEF SlotInv, LoopTypes
  <2> QED BY <2>1, <2>2
<1> QED BY <1>1, <1>2, <1>3, PTL DEF Spec
-----------------------------------------------------------------------------
(***************************************************************************)
(* The scheduler and its prefix cache, for all requests, prompts, page     *)
(* sizes, table sizes and both cache types: every admitted request holds   *)
(* exactly one lock, on the handle in its Req, from _add_one_req until it  *)
(* is freed, and cache_req passes it on without a gap.                     *)
(*                                                                         *)
(* HostInv relates the lengths of a Req to each other and to its prompt,   *)
(* and the batches to the requests whose results they hold.  Its part on a *)
(* pending request (Waiting) and the count of owed tokens of MetInv give   *)
(* what cache_req relies on: the host has the first cached_len tokens.     *)
(***************************************************************************)

(* The tokens, lengths and handle of an admitted request.                  *)
Fits(r) ==
  /\ r.ids \in Seq(Token) /\ r.handle \in Seq(Token)
  /\ r.clen < r.dlen /\ r.clen <= MaxSeqLen
  /\ IsPrefix(r.handle, r.ids) /\ Len(r.handle) <= r.clen /\ Whole(r.handle)

HostTokens  == \A u \in owners : Fits(req[u])
Waiting     == \A u \in owners \cap ToSet(pending) : req[u].clen <= Len(req[u].ids)
RunningFits == \A u \in running : req[u].dlen < MaxDevLen(u)
ChunksCut   == \A u \in chunked : /\ IsPrefix(req[u].ids, Prompt[u])
                                  /\ Len(req[u].ids) < InputLen(u)
PendingFits == \A u \in ToSet(pending) : InputLen(u) < MaxSeqLen
AddedFit    == \A i \in 1..Len(adder.reqs) :
                 LET u == adder.reqs[i].uid IN req[u].dlen <= InputLen(u)

(* A prefill batch holds steps of admitted requests only: their first, so  *)
(* no earlier batch could have finished them.                              *)
Admitted(b) ==
  b.phase = "prefill" => \A i \in 1..Len(b.reqs) : ~b.reqs[i].chunk => b.reqs[i].uid \in owners
FirstSteps ==
  inflight.phase = "prefill" =>
    \A i \in 1..Len(inflight.reqs) : ~inflight.reqs[i].chunk => Steps(inflight.reqs[i].uid, todo) = 0

(* A batch that ran has a token for each of its entries.                   *)
Sampled(b) == b.ran => b.tokens \in Seq(Token) /\ Len(b.tokens) = Len(b.reqs)

HostInv ==
  /\ HostTokens /\ Waiting /\ RunningFits /\ ChunksCut /\ PendingFits /\ AddedFit
  /\ Admitted(todo) /\ Admitted(inflight) /\ FirstSteps
  /\ Sampled(todo) /\ Sampled(inflight)

Handles == [u \in owners |-> req[u].handle]

LockInv == Sound(Token, kv, Handles)
-----------------------------------------------------------------------------
(* Lengths of a request against max_seq_len.                               *)
LEMMA LengthTypes ==
  ASSUME NEW u \in Reqs
  PROVE  /\ Prompt[u] \in Seq(Token) /\ InputLen(u) \in Nat /\ InputLen(u) > 0
         /\ MaxSeqLen \in Nat /\ MaxDevLen(u) \in Int /\ MaxDevLen(u) <= MaxSeqLen
<1>1. Prompt[u] \in Seq(Token) /\ Prompt[u] # <<>>
  BY RequestAssumption
<1>2. InputLen(u) \in Nat /\ InputLen(u) > 0
  BY <1>1, LenProperties, EmptySeq DEF InputLen
<1>3. MaxTokens[u] \in Int /\ MaxSeqLen \in Nat
  <2>1. NumPages * PageSize \in Nat
    BY CapacityAssumption, PageSizeAssumption
  <2> QED BY <2>1, RequestAssumption, CapacityAssumption
<1>4. OutLen(u) \in Int /\ OutLen(u) <= MaxSeqLen - InputLen(u)
  BY <1>2, <1>3, MinOfTwo DEF OutLen
<1> QED BY <1>1, <1>2, <1>3, <1>4 DEF MaxDevLen

(* The tokens the sampler returns are tokens.                              *)
LEMMA SampledTokens ==
  ASSUME NEW n \in Nat, NEW reqs, DOMAIN reqs = 1..n, NEW tokens \in Samples(reqs)
  PROVE  tokens \in Seq(Token) /\ Len(tokens) = n
<1>1. OutToken \cup {ZeroToken} \subseteq Token
  <2>1. ZeroToken \in Token
    <3>1. \E t \in Token : TRUE
      BY RequestAssumption
    <3> QED BY <3>1, Zenon DEF ZeroToken
  <2> QED BY <2>1, RequestAssumption
<1>2. tokens \in [1..n -> OutToken \cup {ZeroToken}]
  BY DEF Samples
<1>3. tokens \in [1..n -> Token]
  BY <1>1, <1>2
<1> QED BY <1>3, SeqDef, LenProperties

(* Steps that leave the variables of HostInv alone.                        *)
hostVars == <<pending, chunked, running, req, owners, inflight, adder, todo>>

LEMMA HostStutters ==
  ASSUME HostInv, UNCHANGED hostVars
  PROVE  HostInv'
<1>0. /\ pending' = pending /\ chunked' = chunked /\ running' = running /\ req' = req
      /\ owners' = owners /\ inflight' = inflight /\ adder' = adder /\ todo' = todo
  BY DEF hostVars
<1>1. HostTokens' /\ Waiting' /\ RunningFits' /\ ChunksCut' /\ PendingFits' /\ AddedFit'
  BY <1>0 DEF HostInv, HostTokens, Fits, Waiting, RunningFits, ChunksCut, PendingFits, AddedFit,
              MaxDevLen
<1>2. Admitted(todo)' /\ Admitted(inflight)' /\ FirstSteps'
  BY <1>0 DEF HostInv, Admitted, FirstSteps, Steps
<1>3. Sampled(todo)' /\ Sampled(inflight)'
  BY <1>0 DEF HostInv, Sampled
<1> QED BY <1>1, <1>2, <1>3 DEF HostInv

LEMMA LocksStutter ==
  ASSUME LockInv, kv' = kv, owners' = owners,
         \A u \in owners : req'[u].handle = req[u].handle
  PROVE  LockInv' /\ Handles' = Handles
<1>1. Handles' = Handles
  BY DEF Handles
<1> QED BY <1>1 DEF LockInv

LEMMA FailKeepsLocks ==
  ASSUME HostInv, LockInv, NEW a, Fail(a)
  PROVE  HostInv' /\ LockInv'
<1>1. UNCHANGED hostVars /\ kv' = kv
  BY DEF Fail, hostVars, reqVars, memVars, loopVars
<1>2. owners' = owners /\ \A u \in owners : req'[u].handle = req[u].handle
  BY <1>1 DEF hostVars
<1> QED BY <1>1, <1>2, HostStutters, LocksStutter
-----------------------------------------------------------------------------
(* What cache_req computes for a Req whose host tokens reach cached_len.   *)
LEMMA CachedIds ==
  ASSUME NEW r, r.ids \in Seq(Token), r.clen \in Nat, r.clen <= Len(r.ids)
  PROVE  /\ InsertIds(r) \in Seq(Token) /\ Len(InsertIds(r)) = r.clen
         /\ IsPrefix(InsertIds(r), r.ids)
         /\ NewHandle(r) \in Seq(Token) /\ Whole(NewHandle(r))
         /\ IsPrefix(NewHandle(r), r.ids) /\ Len(NewHandle(r)) <= r.clen
         /\ PagePrefixes(NewHandle(r)) \subseteq PagePrefixes(InsertIds(r))
         /\ CacheType = "naive" => PagePrefixes(NewHandle(r)) = {}
<1> DEFINE ids == InsertIds(r)
           h   == NewHandle(r)
<1>1. ids \in Seq(Token) /\ Len(ids) = r.clen /\ IsPrefix(ids, r.ids)
  <2>1. r.clen \in 0..Len(r.ids)
    BY LenProperties
  <2> QED BY <2>1, FirstPart DEF InsertIds
<1>2. /\ h \in Seq(Token) /\ IsPrefix(h, ids) /\ Whole(h)
      /\ PagePrefixes(h) \subseteq PagePrefixes(ids)
      /\ CacheType = "naive" => PagePrefixes(h) = {}
  BY <1>1, InsertedHandleCovers DEF NewHandle
<1> HIDE DEF ids, h
<1>3. IsPrefix(h, r.ids) /\ Len(h) <= r.clen
  <2>1. IsPrefix(h, r.ids)
    BY <1>1, <1>2, PrefixTransitive
  <2>2. Len(h) <= Len(ids)
    BY <1>2 DEF IsPrefix
  <2> QED BY <1>1, <2>1, <2>2
<1> QED BY <1>1, <1>2, <1>3 DEF ids, h

(* cache_req for the request u, whose Req r differs from the one in req at *)
(* most in its tokens: the assertion of lock_handle holds, the old lock is *)
(* given up, and the cache covers the new handle.                          *)
LEMMA CacheReqLocks ==
  ASSUME LockInv, NEW u \in owners, NEW r, r.handle = req[u].handle,
         r.ids \in Seq(Token), r.clen \in Nat, r.clen <= Len(r.ids)
  PROVE  /\ CacheReqSafe(r)
         /\ Sound(Token, Released(r), Without(Handles, u))
         /\ PagePrefixes(NewHandle(r)) \subseteq Cached(Released(r))
         /\ Cached(Released(r)) = Cached(Inserted(r)) /\ Released(r).page = Inserted(r).page
<1> DEFINE c == Inserted(r)
<1>1. InsertIds(r) \in Seq(Token)
  BY CachedIds
<1>2. /\ Sound(Token, c, Handles)
      /\ CacheType # "naive" => PagePrefixes(InsertIds(r)) \subseteq Cached(c)
  BY <1>1, InsertKeepsSound DEF LockInv, Inserted
<1>3. u \in DOMAIN Handles /\ Handles[u] = r.handle
  BY DEF Handles
<1> HIDE DEF c
<1>4. /\ Sound(Token, UnlockHandle(c, r.handle), Without(Handles, u))
      /\ Cached(UnlockHandle(c, r.handle)) = Cached(c) /\ UnlockHandle(c, r.handle).page = c.page
      /\ MayUnlock(c, r.handle)
  <2>1. /\ Sound(Token, UnlockHandle(c, Handles[u]), Without(Handles, u))
        /\ Cached(UnlockHandle(c, Handles[u])) = Cached(c)
        /\ UnlockHandle(c, Handles[u]).page = c.page
        /\ MayUnlock(c, Handles[u])
    BY <1>2, <1>3, UnlockKeepsSound
  <2> QED BY <1>3, <2>1
<1>5. PagePrefixes(NewHandle(r)) \subseteq Cached(c)
  BY <1>2, CachedIds
<1> QED BY <1>4, <1>5 DEF c, CacheReqSafe, Released
-----------------------------------------------------------------------------
(* The rest of a batch after its first entry.                              *)
LEMMA RestOfHost ==
  ASSUME NEW b, IsBatch(b), b.reqs # <<>>
  PROVE  /\ Admitted(b) => Admitted(RestOf(b))
         /\ b.ran /\ Sampled(b) => Sampled(RestOf(b)) /\ Head(b.tokens) \in Token
         /\ RestOf(b).ran = b.ran /\ RestOf(b).phase = b.phase
<1> DEFINE q == b.reqs
           n == Len(q)
<1>1. q \in Seq(ToSet(q)) /\ q # <<>>
  BY DEF IsBatch
<1>2. n \in Nat /\ n > 0
  BY <1>1, LenProperties, EmptySeq
<1>3. /\ RestOf(b).reqs = Tail(q) /\ RestOf(b).tokens = Tail(b.tokens)
      /\ RestOf(b).ran = b.ran /\ RestOf(b).phase = b.phase
  BY DEF RestOf, IsBatch
<1>4. Len(Tail(q)) = n - 1 /\ \A i \in 1..(n - 1) : Tail(q)[i] = q[i + 1]
  BY <1>1, TailElements
<1>5. ASSUME b.ran, Sampled(b)
      PROVE  Sampled(RestOf(b)) /\ Head(b.tokens) \in Token
  <2>1. b.tokens \in Seq(Token) /\ Len(b.tokens) = n
    BY <1>5 DEF Sampled
  <2>2. b.tokens # <<>>
    BY <1>2, <2>1
  <2>3. Tail(b.tokens) \in Seq(Token) /\ Len(Tail(b.tokens)) = n - 1 /\ Head(b.tokens) \in Token
    BY <2>1, <2>2, TailElements, HeadTailProperties
  <2> QED BY <1>3, <1>4, <2>3 DEF Sampled
<1> HIDE DEF q, n
<1>6. \A i \in 1..(n - 1) : i + 1 \in 1..n
  BY <1>2
<1>7. Admitted(b) => Admitted(RestOf(b))
  BY <1>3, <1>4, <1>6 DEF Admitted, q, n
<1> QED BY <1>3, <1>5, <1>7 DEF q

(* The GPU runs a batch: a token for each entry.                           *)
LEMMA GpuRunIs ==
  ASSUME SlotInv, GpuRun
  PROVE  /\ UNCHANGED <<pending, chunked, running, req, owners, adder, kv, pc, fault, freePages,
                        table, lazyFree>>
         /\ \/ inflight' = inflight /\ \E tokens : todo' = WithTokens(todo, tokens)
            \/ todo' = todo /\ \E tokens : inflight' = WithTokens(inflight, tokens)
         /\ todo'.reqs = todo.reqs /\ inflight'.reqs = inflight.reqs
         /\ todo'.phase = todo.phase /\ inflight'.phase = inflight.phase
         /\ Sampled(todo) => Sampled(todo)'
         /\ Sampled(inflight) => Sampled(inflight)'
<1>1. /\ UNCHANGED <<pending, chunked, running, req, owners, adder, kv, pc, fault, freePages,
                     table, lazyFree>>
      /\ \/ inflight' = inflight /\ \E tokens \in Samples(todo.reqs) : todo' = WithTokens(todo, tokens)
         \/ todo' = todo /\ \E tokens \in Samples(inflight.reqs) : inflight' = WithTokens(inflight, tokens)
  BY DEF GpuRun, reqVars
<1>2. IsBatch(todo) /\ IsBatch(inflight)
  BY DEF SlotInv, LoopTypes
<1>3. /\ todo'.reqs = todo.reqs /\ inflight'.reqs = inflight.reqs
      /\ todo'.phase = todo.phase /\ inflight'.phase = inflight.phase
  BY <1>1, <1>2, BatchUpdates
<1>4. ASSUME NEW b, IsBatch(b), NEW tokens \in Samples(b.reqs)
      PROVE  WithTokens(b, tokens).tokens \in Seq(Token)
             /\ Len(WithTokens(b, tokens).tokens) = Len(b.reqs)
  <2>1. b.reqs \in Seq(ToSet(b.reqs))
    BY <1>4 DEF IsBatch
  <2>2. Len(b.reqs) \in Nat /\ DOMAIN b.reqs = 1..Len(b.reqs)
    BY <2>1, LenProperties
  <2>3. tokens \in Seq(Token) /\ Len(tokens) = Len(b.reqs)
    BY <1>4, <2>2, SampledTokens
  <2>4. WithTokens(b, tokens).tokens = tokens
    BY <1>4 DEF IsBatch, WithTokens
  <2> QED BY <2>3, <2>4
<1>5. Sampled(todo) => Sampled(todo)'
  BY <1>1, <1>2, <1>3, <1>4 DEF Sampled
<1>6. Sampled(inflight) => Sampled(inflight)'
  BY <1>1, <1>2, <1>3, <1>4 DEF Sampled
<1> QED BY <1>1, <1>3, <1>5, <1>6

(* Steps that move no request.                                             *)
LEMMA QuietStepsKeepLocks ==
  ASSUME SlotInv, HostInv, LockInv, BeginRound \/ EndRound \/ GpuRun \/ SkipChunk \/ Idle
  PROVE  HostInv' /\ LockInv'
<1>1. CASE BeginRound
  <2>1. UNCHANGED hostVars /\ kv' = kv /\ owners' = owners /\ req' = req
    BY <1>1 DEF BeginRound, hostVars, reqVars, memVars, loopVars
  <2> QED BY <2>1, HostStutters, LocksStutter
<1>2. CASE Idle
  <2>1. CASE Integrity
    <3>1. UNCHANGED hostVars /\ kv' = kv /\ owners' = owners /\ req' = req
      BY <1>2, <2>1 DEF Idle, vars, hostVars, reqVars, memVars, loopVars
    <3> QED BY <3>1, HostStutters, LocksStutter
  <2>2. CASE ~Integrity
    BY <1>2, <2>2, FailKeepsLocks DEF Idle
  <2> QED BY <2>1, <2>2
<1>3. ASSUME UNCHANGED <<pending, chunked, running, req, owners, adder, kv>>,
             Admitted(todo)', Admitted(inflight)', FirstSteps', Sampled(todo)', Sampled(inflight)'
      PROVE  HostInv' /\ LockInv'
  <2>1. HostTokens' /\ Waiting' /\ RunningFits' /\ ChunksCut' /\ PendingFits' /\ AddedFit'
    BY <1>3 DEF HostInv, HostTokens, Fits, Waiting, RunningFits, ChunksCut, PendingFits,
                AddedFit, MaxDevLen
  <2> QED BY <1>3, <2>1, LocksStutter DEF HostInv
<1>4. CASE EndRound
  <2>0. /\ todo' = NoBatch /\ inflight' = inflight
        /\ UNCHANGED <<pending, chunked, running, req, owners, adder, kv>>
    BY <1>4 DEF EndRound, reqVars
  <2>1. NoBatch.reqs = <<>> /\ NoBatch.phase # "prefill" /\ NoBatch.tokens = <<>>
    BY DEF NoBatch
  <2>2. Admitted(todo)' /\ Sampled(todo)'
    <3>1. <<>> \in Seq(Token)
      OBVIOUS
    <3> QED BY <2>0, <2>1, <3>1 DEF Admitted, Sampled
  <2>3. Admitted(inflight)' /\ Sampled(inflight)'
    BY <2>0 DEF HostInv, Admitted, Sampled
  <2>4. FirstSteps'
    BY <2>0, <2>1, NoSteps DEF FirstSteps
  <2> QED BY <1>3, <2>0, <2>2, <2>3, <2>4
<1>5. CASE GpuRun
  <2>0. /\ UNCHANGED <<pending, chunked, running, req, owners, adder, kv>>
        /\ todo'.reqs = todo.reqs /\ inflight'.reqs = inflight.reqs
        /\ todo'.phase = todo.phase /\ inflight'.phase = inflight.phase
        /\ Sampled(todo)' /\ Sampled(inflight)'
    BY <1>5, GpuRunIs DEF HostInv
  <2>1. Admitted(todo)' /\ Admitted(inflight)'
    BY <2>0 DEF HostInv, Admitted
  <2>2. \A u : Steps(u, todo') = Steps(u, todo)
    BY <2>0, SameSteps
  <2>3. FirstSteps'
    BY <2>0, <2>2 DEF HostInv, FirstSteps
  <2> QED BY <1>3, <2>0, <2>1, <2>3
<1>6. CASE SkipChunk
  <2>0. /\ todo.ran /\ todo.reqs # <<>> /\ Head(todo.reqs).chunk
        /\ todo' = RestOf(todo) /\ inflight' = inflight
        /\ UNCHANGED <<pending, chunked, running, req, owners, adder, kv>>
    BY <1>6 DEF SkipChunk, reqVars, memVars
  <2>1. IsBatch(todo)
    BY DEF SlotInv, LoopTypes
  <2>2. Admitted(RestOf(todo)) /\ Sampled(RestOf(todo))
    BY <2>0, <2>1, RestOfHost DEF HostInv
  <2>3. Admitted(todo)' /\ Sampled(todo)'
    BY <2>0, <2>2 DEF Admitted, Sampled
  <2>4. Admitted(inflight)' /\ Sampled(inflight)'
    BY <2>0 DEF HostInv, Admitted, Sampled
  <2>5. FirstSteps'
    BY <2>0, <2>1, SkipChunkSteps DEF HostInv, FirstSteps
  <2> QED BY <1>3, <2>0, <2>3, <2>4, <2>5
<1> QED BY <1>1, <1>2, <1>4, <1>5, <1>6

(* A new message: pending only if the prompt leaves room.                  *)
LEMMA RecvUserKeepsLocks ==
  ASSUME SlotInv, HostInv, LockInv, NEW u \in Reqs, RecvUser(u)
  PROVE  HostInv' /\ LockInv'
<1>0. /\ u \notin received
      /\ pending' = IF InputLen(u) < MaxSeqLen THEN Append(pending, u) ELSE pending
      /\ UNCHANGED <<chunked, running, req, owners, inflight, adder, todo, kv>>
  BY DEF RecvUser, loopVars, memVars
<1>1. /\ ToSet(pending') \subseteq ToSet(pending) \cup {u}
      /\ u \in ToSet(pending') => u \in ToSet(pending) \/ InputLen(u) < MaxSeqLen
  BY <1>0, AppendElements DEF SlotInv, LoopTypes
<1>2. u \notin owners
  BY <1>0 DEF SlotInv, LoopTypes
<1>3. HostTokens' /\ RunningFits' /\ ChunksCut' /\ AddedFit'
  BY <1>0 DEF HostInv, HostTokens, Fits, RunningFits, ChunksCut, AddedFit, MaxDevLen
<1>4. Waiting'
  BY <1>0, <1>1, <1>2 DEF HostInv, Waiting
<1>5. PendingFits'
  BY <1>1 DEF HostInv, PendingFits
<1>6. Admitted(todo)' /\ Admitted(inflight)' /\ FirstSteps' /\ Sampled(todo)' /\ Sampled(inflight)'
  BY <1>0 DEF HostInv, Admitted, FirstSteps, Steps, Sampled
<1>7. LockInv'
  BY <1>0, LocksStutter
<1> QED BY <1>3, <1>4, <1>5, <1>6, <1>7 DEF HostInv
-----------------------------------------------------------------------------
(* Handles after a request got one, or left.                               *)
LEMMA HandleGiven ==
  ASSUME NEW u, u \notin owners, owners' = owners \cup {u},
         \A v \in owners : req'[v].handle = req[v].handle
  PROVE  Handles' = With(Handles, u, req'[u].handle)
<1> DEFINE f == [v \in owners' |-> req'[v].handle]
           g == With(Handles, u, req'[u].handle)
<1>1. DOMAIN g = owners' /\ \A v \in owners' : g[v] = req'[v].handle
  BY DEF With, Handles
<1>2. g = [v \in owners' |-> g[v]]
  BY <1>1 DEF With
<1>3. f = g
  <2> HIDE DEF g
  <2> QED BY <1>1, <1>2
<1> QED BY <1>3 DEF Handles

LEMMA HandleDropped ==
  ASSUME NEW u, owners' = owners \ {u}, \A v \in owners' : req'[v].handle = req[v].handle
  PROVE  Handles' = Without(Handles, u)
BY DEF Handles, Without

LEMMA HandleChanged ==
  ASSUME NEW u \in owners, owners' = owners,
         \A v \in owners : v # u => req'[v].handle = req[v].handle
  PROVE  Handles' = With(Without(Handles, u), u, req'[u].handle)
<1> DEFINE f == [v \in owners' |-> req'[v].handle]
           g == With(Without(Handles, u), u, req'[u].handle)
<1>1. DOMAIN g = owners' /\ \A v \in owners' : g[v] = req'[v].handle
  BY DEF With, Without, Handles
<1>2. g = [v \in owners' |-> g[v]]
  BY <1>1 DEF With
<1>3. f = g
  <2> HIDE DEF g
  <2> QED BY <1>1, <1>2
<1> QED BY <1>3 DEF Handles

(* An abort frees a Req whose host tokens reach cached_len: a cut request  *)
(* that waits, or a running one with every batch processed.                *)
LEMMA AbortIs ==
  ASSUME NoLateAbort, SlotInv, MetInv, HostInv, LockInv, NEW u \in Reqs, RecvAbort(u)
  PROVE  /\ pc = "recv" /\ adder.reqs = <<>> /\ todo.reqs = <<>> /\ inflight.reqs = <<>>
         /\ AbortFinds(u) => /\ u \in owners /\ CacheReqSafe(req[u])
                             /\ req[u].ids \in Seq(Token) /\ req[u].clen \in Nat
                             /\ req[u].clen <= Len(req[u].ids)
         /\ pending' = DropPending(u)
         /\ ToSet(pending') = ToSet(pending) \ {u}
         /\ chunked' = chunked \ {u}
         /\ running' = running \ {u}
         /\ IF AbortFinds(u)
            THEN /\ freePages' = freePages \o FreedKnown(req[u]) \o FreedTail(req[u])
                 /\ kv' = Released(req[u])
                 /\ owners' = owners \ {u}
            ELSE UNCHANGED <<freePages, kv, owners>>
         /\ u \notin owners'
         /\ UNCHANGED <<req, table, adder, todo, inflight, lazyFree, fault>>
<1>1. pc = "recv" /\ u \in Abortable
  BY DEF RecvAbort, Fail, reqVars, memVars, loopVars
<1>2. ~Overlap
  BY <1>1 DEF NoLateAbort
<1>3. adder.reqs = <<>> /\ todo.reqs = <<>> /\ inflight.reqs = <<>>
  BY <1>1, <1>2 DEF SlotInv, AdderFollowsPending, BatchesKnowFreed
<1>4. Owed(u) = 0
  BY <1>3, NoSteps DEF Owed
<1>5. AbortFinds(u) => u \in owners
  BY DEF AbortFinds, SlotInv, PendingApart
<1>6. ASSUME u \in owners
      PROVE  /\ CacheReqSafe(req[u])
             /\ req[u].ids \in Seq(Token) /\ req[u].clen \in Nat
             /\ req[u].clen <= Len(req[u].ids)
  <2>1. /\ req[u].ids \in Seq(Token) /\ req[u].clen \in Nat /\ req[u].dlen \in Nat
        /\ req[u].clen < req[u].dlen /\ Len(req[u].ids) \in Nat
    BY <1>6, LenProperties DEF HostInv, HostTokens, Fits, SlotInv, LoopTypes
  <2>2. req[u].clen <= Len(req[u].ids)
    <3>1. CASE u \in ToSet(pending)
      BY <1>6, <3>1 DEF HostInv, Waiting
    <3>2. CASE u \notin ToSet(pending)
      BY <1>4, <1>6, <2>1, <3>2 DEF MetInv, TokensOwed
    <3> QED BY <3>1, <3>2
  <2>3. CacheReqSafe(req[u])
    BY <1>6, <2>1, <2>2, CacheReqLocks
  <2> QED BY <2>1, <2>2, <2>3
<1>7. ~(AbortFinds(u) /\ ~CacheReqSafe(req[u]))
  BY <1>5, <1>6
<1>8. /\ pending' = DropPending(u)
      /\ chunked' = chunked \ {u}
      /\ running' = IF u \in ToSet(pending) THEN running ELSE running \ {u}
      /\ IF AbortFinds(u)
         THEN /\ freePages' = freePages \o FreedKnown(req[u]) \o FreedTail(req[u])
              /\ kv' = Released(req[u])
              /\ owners' = owners \ {u}
         ELSE UNCHANGED <<freePages, kv, owners>>
      /\ UNCHANGED <<req, table, adder, todo, inflight, lazyFree, fault>>
  BY <1>7 DEF RecvAbort, loopVars
<1>9. ToSet(pending') = ToSet(pending) \ {u}
  BY <1>8, DroppedPending
<1>10. running' = running \ {u}
  BY <1>8 DEF SlotInv, PendingApart
<1>11. u \notin owners'
  <2>1. CASE AbortFinds(u)
    BY <1>8, <2>1
  <2>2. CASE ~AbortFinds(u)
    <3>1. u \notin owners \cap ToSet(pending)
      <4>1. UidsOf(adder.reqs) = {}
        BY <1>3 DEF UidsOf
      <4> QED BY <2>2, <4>1 DEF AbortFinds, SlotInv, PendingApart
    <3>2. u \notin owners \ ToSet(pending)
      BY <1>4, <2>2 DEF AbortFinds, MetInv, TokensOwed
    <3> QED BY <1>8, <2>2, <3>1, <3>2
  <2> QED BY <2>1, <2>2
<1> QED BY <1>1, <1>3, <1>5, <1>6, <1>8, <1>9, <1>10, <1>11

LEMMA RecvAbortKeepsLocks ==
  ASSUME NoLateAbort, SlotInv, MetInv, HostInv, LockInv, NEW u \in Reqs, RecvAbort(u)
  PROVE  HostInv' /\ LockInv'
<1>0. /\ adder.reqs = <<>> /\ todo.reqs = <<>> /\ inflight.reqs = <<>>
      /\ AbortFinds(u) => /\ u \in owners
                          /\ req[u].ids \in Seq(Token) /\ req[u].clen \in Nat
                          /\ req[u].clen <= Len(req[u].ids)
      /\ ToSet(pending') = ToSet(pending) \ {u}
      /\ chunked' = chunked \ {u} /\ running' = running \ {u}
      /\ IF AbortFinds(u) THEN kv' = Released(req[u]) /\ owners' = owners \ {u}
                          ELSE kv' = kv /\ owners' = owners
      /\ UNCHANGED <<req, adder, todo, inflight>>
  BY AbortIs, Zenon
<1>1. owners' \subseteq owners
  BY <1>0
<1>2. HostTokens' /\ Waiting' /\ RunningFits' /\ ChunksCut' /\ PendingFits'
  BY <1>0, <1>1 DEF HostInv, HostTokens, Fits, Waiting, RunningFits, ChunksCut, PendingFits,
                    MaxDevLen
<1>3. AddedFit' /\ Admitted(todo)' /\ Admitted(inflight)' /\ FirstSteps'
  <2>1. Len(<<>>) = 0
    OBVIOUS
  <2> QED BY <1>0, <2>1 DEF AddedFit, Admitted, FirstSteps
<1>4. Sampled(todo)' /\ Sampled(inflight)'
  BY <1>0 DEF HostInv, Sampled
<1>5. LockInv'
  <2>1. CASE AbortFinds(u)
    <3>1. Handles' = Without(Handles, u)
      BY <1>0, <2>1, HandleDropped
    <3>2. Sound(Token, Released(req[u]), Without(Handles, u))
      BY <1>0, <2>1, CacheReqLocks
    <3> QED BY <1>0, <2>1, <3>1, <3>2 DEF LockInv
  <2>2. CASE ~AbortFinds(u)
    BY <1>0, <2>2, LocksStutter
  <2> QED BY <2>1, <2>2
<1> QED BY <1>2, <1>3, <1>4, <1>5 DEF HostInv
-----------------------------------------------------------------------------
(* The step _complete_batch_results handles: its request, the Req after    *)
(* append_host, and whether it is freed or cached for its next steps.      *)
Done     == Head(todo.reqs).uid
DoneReq  == [req[Done] EXCEPT !.ids = Append(@, Head(todo.tokens))]
DoneFree == FreesNow(DoneReq, Done, Head(todo.tokens))
DoneKeep == ~DoneFree /\ todo.phase = "prefill"

LEMMA DoneIs ==
  ASSUME SlotInv, MetInv, HostInv, LockInv,
         pc = "process", todo.ran, todo.reqs # <<>>, ~Head(todo.reqs).chunk
  PROVE  /\ Done \in Reqs /\ Done \in (owners \cup finishedReqs) \ ToSet(pending)
         /\ DoneFree \/ DoneKeep => Done \in owners
         /\ IsReq(DoneReq) /\ DoneReq.handle = req[Done].handle /\ DoneReq.slot = req[Done].slot
         /\ DoneReq.clen = req[Done].clen /\ DoneReq.dlen = req[Done].dlen
         /\ DoneReq.clen \in Nat
         /\ Done \in owners => /\ CacheReqSafe(DoneReq)
                               /\ DoneReq.ids \in Seq(Token)
                               /\ DoneReq.clen <= Len(DoneReq.ids)
                               /\ IsPrefix(req[Done].ids, DoneReq.ids)
<1>1. /\ IsBatch(todo) /\ Done = todo.reqs[1].uid /\ ~todo.reqs[1].chunk
      /\ 1 \in 1..Len(todo.reqs)
  BY RestOfBatch DEF SlotInv, LoopTypes, Done
<1>2. Done \in Reqs /\ Done \in (owners \cup finishedReqs) \ ToSet(pending)
  BY <1>1 DEF SlotInv, LoopTypes, IsBatch, BatchesKnowFreed, Known
<1>3. DoneFree => Done \in owners
  BY <1>2 DEF DoneFree, FreesNow
<1>4. DoneKeep => Done \in owners
  BY <1>1 DEF DoneKeep, HostInv, Admitted
<1>5. /\ IsReq(DoneReq) /\ DoneReq.handle = req[Done].handle /\ DoneReq.slot = req[Done].slot
      /\ DoneReq.clen = req[Done].clen /\ DoneReq.dlen = req[Done].dlen
      /\ DoneReq.ids = Append(req[Done].ids, Head(todo.tokens))
  <2>1. IsReq(req[Done])
    BY <1>2 DEF SlotInv, LoopTypes
  <2> QED BY <2>1 DEF IsReq, DoneReq
<1>6. req[Done].clen \in Nat /\ req[Done].dlen \in Nat
  BY <1>2 DEF SlotInv, LoopTypes
<1>7. ASSUME Done \in owners
      PROVE  /\ CacheReqSafe(DoneReq)
             /\ DoneReq.ids \in Seq(Token)
             /\ DoneReq.clen <= Len(DoneReq.ids)
             /\ IsPrefix(req[Done].ids, DoneReq.ids)
  <2>1. Head(todo.tokens) \in Token
    BY <1>1, RestOfHost DEF HostInv
  <2>2. req[Done].ids \in Seq(Token) /\ req[Done].clen < req[Done].dlen
    BY <1>7 DEF HostInv, HostTokens, Fits
  <2>3. /\ DoneReq.ids \in Seq(Token) /\ Len(DoneReq.ids) = Len(req[Done].ids) + 1
        /\ IsPrefix(req[Done].ids, DoneReq.ids)
    BY <1>5, <2>1, <2>2, AppendExtends
  <2>4. Len(req[Done].ids) + Owed(Done) = req[Done].dlen
    BY <1>2, <1>7 DEF MetInv, TokensOwed
  <2>5. Owed(Done) \in 0..2 /\ Len(req[Done].ids) \in Nat
    BY <2>2, LenProperties DEF Owed, Steps
  <2>6. DoneReq.clen <= Len(DoneReq.ids)
    BY <1>5, <1>6, <2>2, <2>3, <2>4, <2>5, SMTT(30)
  <2>7. CacheReqSafe(DoneReq)
    BY <1>5, <1>6, <1>7, <2>3, <2>6, CacheReqLocks
  <2> QED BY <2>3, <2>6, <2>7
<1> QED BY <1>2, <1>3, <1>4, <1>5, <1>6, <1>7

(* So the assertion never stops it, and it is this update.                 *)
LEMMA CompleteReqIs ==
  ASSUME SlotInv, MetInv, HostInv, LockInv, CompleteReq
  PROVE  /\ pc = "process" /\ todo.ran /\ todo.reqs # <<>> /\ ~Head(todo.reqs).chunk
         /\ DOMAIN req' = Reqs
         /\ \A v \in Reqs \ {Done} : req'[v] = req[v]
         /\ req'[Done].slot = req[Done].slot
         /\ req'[Done].clen = req[Done].clen /\ req'[Done].dlen = req[Done].dlen
         /\ req'[Done].ids = DoneReq.ids
         /\ req'[Done].handle = IF DoneKeep THEN NewHandle(DoneReq) ELSE req[Done].handle
         /\ kv' = CASE DoneFree -> Released(DoneReq)
                    [] DoneKeep -> LockHandle(Released(DoneReq), NewHandle(DoneReq))
                    [] OTHER -> kv
         /\ lazyFree' = CASE DoneFree -> lazyFree \o FreedKnown(DoneReq) \o FreedTail(DoneReq)
                          [] DoneKeep -> lazyFree \o FreedKnown(DoneReq)
                          [] OTHER -> lazyFree
         /\ owners' = IF DoneFree THEN owners \ {Done} ELSE owners
         /\ running' \subseteq running
         /\ todo' = RestOf(todo)
         /\ UNCHANGED <<pending, chunked, freePages, table, inflight, adder, pc, fault>>
<1>1. pc = "process" /\ todo.ran /\ todo.reqs # <<>> /\ ~Head(todo.reqs).chunk
  BY DEF CompleteReq
<1>2. /\ Done \in Reqs /\ (DoneFree \/ DoneKeep => Done \in owners)
      /\ IsReq(DoneReq) /\ DoneReq.handle = req[Done].handle /\ DoneReq.slot = req[Done].slot
      /\ DoneReq.clen = req[Done].clen /\ DoneReq.dlen = req[Done].dlen
      /\ Done \in owners => CacheReqSafe(DoneReq)
  BY <1>1, DoneIs
<1>3. ~((DoneFree \/ DoneKeep) /\ ~CacheReqSafe(DoneReq))
  BY <1>2
<1>4. /\ req' = [req EXCEPT ![Done] = IF DoneKeep THEN [DoneReq EXCEPT !.handle = NewHandle(DoneReq)]
                                                  ELSE DoneReq]
      /\ kv' = CASE DoneFree -> Released(DoneReq)
                 [] DoneKeep -> LockHandle(Released(DoneReq), NewHandle(DoneReq))
                 [] OTHER -> kv
      /\ lazyFree' = CASE DoneFree -> lazyFree \o FreedKnown(DoneReq) \o FreedTail(DoneReq)
                       [] DoneKeep -> lazyFree \o FreedKnown(DoneReq)
                       [] OTHER -> lazyFree
      /\ IF DoneFree
         THEN /\ running' = RemoveReq(Done)
              /\ owners' = owners \ {Done}
         ELSE UNCHANGED <<running, owners>>
      /\ todo' = RestOf(todo)
      /\ UNCHANGED <<pending, chunked, freePages, table, inflight, adder, pc, fault>>
  BY <1>3, Zenon DEF CompleteReq, Done, DoneReq, DoneFree, DoneKeep
<1>5. /\ DOMAIN req' = Reqs
      /\ \A v \in Reqs \ {Done} : req'[v] = req[v]
      /\ req'[Done].slot = req[Done].slot
      /\ req'[Done].clen = req[Done].clen /\ req'[Done].dlen = req[Done].dlen
      /\ req'[Done].ids = DoneReq.ids
      /\ req'[Done].handle = IF DoneKeep THEN NewHandle(DoneReq) ELSE req[Done].handle
  <2> DEFINE k == [DoneReq EXCEPT !.handle = NewHandle(DoneReq)]
  <2>1. /\ k.slot = DoneReq.slot /\ k.clen = DoneReq.clen /\ k.dlen = DoneReq.dlen
        /\ k.ids = DoneReq.ids /\ k.handle = NewHandle(DoneReq)
    BY <1>2 DEF IsReq
  <2>2. req' = [req EXCEPT ![Done] = IF DoneKeep THEN k ELSE DoneReq]
    BY <1>4
  <2>3. DOMAIN req = Reqs
    BY DEF SlotInv, LoopTypes
  <2> HIDE DEF k
  <2> QED BY <1>2, <2>1, <2>2, <2>3
<1>6. /\ owners' = (IF DoneFree THEN owners \ {Done} ELSE owners)
      /\ running' \subseteq running
  BY <1>4 DEF RemoveReq
<1> QED BY <1>1, <1>4, <1>5, <1>6

LEMMA CompleteReqKeepsLocks ==
  ASSUME SlotInv, MetInv, HostInv, LockInv, CompleteReq
  PROVE  HostInv' /\ LockInv'
<1>0. /\ pc = "process" /\ todo.ran /\ todo.reqs # <<>> /\ ~Head(todo.reqs).chunk
      /\ \A v \in Reqs \ {Done} : req'[v] = req[v]
      /\ req'[Done].clen = req[Done].clen /\ req'[Done].dlen = req[Done].dlen
      /\ req'[Done].ids = DoneReq.ids
      /\ req'[Done].handle = IF DoneKeep THEN NewHandle(DoneReq) ELSE req[Done].handle
      /\ kv' = CASE DoneFree -> Released(DoneReq)
                 [] DoneKeep -> LockHandle(Released(DoneReq), NewHandle(DoneReq))
                 [] OTHER -> kv
      /\ owners' = IF DoneFree THEN owners \ {Done} ELSE owners
      /\ running' \subseteq running
      /\ todo' = RestOf(todo)
      /\ UNCHANGED <<pending, chunked, inflight, adder>>
  BY CompleteReqIs, Zenon
<1>1. /\ Done \in Reqs /\ Done \notin ToSet(pending)
      /\ DoneFree \/ DoneKeep => Done \in owners
      /\ DoneReq.handle = req[Done].handle
      /\ DoneReq.clen = req[Done].clen /\ DoneReq.dlen = req[Done].dlen
      /\ DoneReq.clen \in Nat
      /\ Done \in owners => /\ DoneReq.ids \in Seq(Token)
                            /\ DoneReq.clen <= Len(DoneReq.ids)
                            /\ IsPrefix(req[Done].ids, DoneReq.ids)
  BY <1>0, DoneIs
<1>2. owners' \subseteq owners /\ owners \subseteq Reqs /\ chunked \subseteq ToSet(pending)
      /\ ToSet(pending) \cap owners \subseteq Reqs /\ running \subseteq Reqs
  BY <1>0 DEF SlotInv, LoopTypes, PendingApart
<1>3. HostTokens'
  <2>1. ASSUME NEW v \in owners' PROVE Fits(req'[v])
    <3>1. CASE v # Done
      BY <1>0, <1>2, <2>1, <3>1 DEF HostInv, HostTokens
    <3>2. CASE v = Done
      <4>1. /\ Fits(req[Done]) /\ Done \in owners
        BY <1>2, <2>1, <3>2 DEF HostInv, HostTokens
      <4>2. CASE DoneKeep
        <5>1. /\ NewHandle(DoneReq) \in Seq(Token) /\ Whole(NewHandle(DoneReq))
              /\ IsPrefix(NewHandle(DoneReq), DoneReq.ids) /\ Len(NewHandle(DoneReq)) <= DoneReq.clen
          BY <1>1, <4>1, CachedIds
        <5> QED BY <1>0, <1>1, <3>2, <4>1, <4>2, <5>1 DEF Fits
      <4>3. CASE ~DoneKeep
        <5>1. IsPrefix(req[Done].handle, DoneReq.ids)
          BY <1>1, <4>1, PrefixTransitive DEF Fits
        <5> QED BY <1>0, <1>1, <3>2, <4>1, <4>3, <5>1 DEF Fits
      <4> QED BY <4>2, <4>3
    <3> QED BY <3>1, <3>2
  <2> QED BY <2>1 DEF HostTokens, Fits
<1>4. Waiting' /\ ChunksCut' /\ PendingFits'
  BY <1>0, <1>1, <1>2 DEF HostInv, Waiting, ChunksCut, PendingFits, SlotInv, PendingApart
<1>5. RunningFits'
  <2>1. \A v \in running' : req'[v].dlen = req[v].dlen
    BY <1>0, <1>2
  <2> QED BY <1>0, <2>1 DEF HostInv, RunningFits, MaxDevLen
<1>6. AddedFit'
  <2>1. adder.reqs = <<>>
    BY <1>0 DEF SlotInv, AdderFollowsPending
  <2> QED BY <1>0, <2>1 DEF AddedFit
<1>7. IsBatch(todo)
  BY DEF SlotInv, LoopTypes
<1>8. Admitted(todo)'
  <2>1. Admitted(RestOf(todo))
    BY <1>0, <1>7, RestOfHost DEF HostInv
  <2>2. \A i \in 1..Len(RestOf(todo).reqs) : RestOf(todo).reqs[i].uid # Done
    BY <1>0, <1>7, RestOfBatch DEF Done
  <2> QED BY <1>0, <2>1, <2>2 DEF Admitted
<1>9. /\ Steps(Done, todo) = 1
      /\ \A v : v # Done => Steps(v, RestOf(todo)) = Steps(v, todo)
  BY <1>0, <1>7, CompleteSteps DEF Done
<1>10. FirstSteps' /\ Admitted(inflight)'
  <2>1. ASSUME inflight.phase = "prefill", NEW i \in 1..Len(inflight.reqs), ~inflight.reqs[i].chunk
        PROVE  /\ inflight.reqs[i].uid \in owners'
               /\ Steps(inflight.reqs[i].uid, RestOf(todo)) = 0
    <3>1. inflight.reqs[i].uid \in owners /\ Steps(inflight.reqs[i].uid, todo) = 0
      BY <2>1 DEF HostInv, Admitted, FirstSteps
    <3> QED BY <1>0, <1>9, <3>1
  <2> QED BY <1>0, <2>1 DEF Admitted, FirstSteps
<1>11. Sampled(todo)' /\ Sampled(inflight)'
  <2>1. Sampled(RestOf(todo))
    BY <1>0, <1>7, RestOfHost DEF HostInv
  <2> QED BY <1>0, <2>1 DEF HostInv, Sampled
<1>12. LockInv'
  <2>0. /\ Done \in owners =>
             /\ Sound(Token, Released(DoneReq), Without(Handles, Done))
             /\ PagePrefixes(NewHandle(DoneReq)) \subseteq Cached(Released(DoneReq))
             /\ NewHandle(DoneReq) \in Seq(Token)
    BY <1>1, CacheReqLocks, CachedIds
  <2>1. CASE DoneFree
    <3>1. \A v \in owners' : req'[v].handle = req[v].handle
      BY <1>0, <1>2, <2>1
    <3>2. Handles' = Without(Handles, Done)
      BY <1>0, <2>1, <3>1, HandleDropped
    <3>3. kv' = Released(DoneReq)
      BY <1>0, <2>1 DEF DoneKeep
    <3> QED BY <1>1, <2>0, <2>1, <3>2, <3>3 DEF LockInv
  <2>2. CASE ~DoneFree /\ DoneKeep
    <3>1. owners' = owners /\ Done \in owners /\ req'[Done].handle = NewHandle(DoneReq)
          /\ kv' = LockHandle(Released(DoneReq), NewHandle(DoneReq))
      BY <1>0, <1>1, <2>2
    <3>2. Handles' = With(Without(Handles, Done), Done, NewHandle(DoneReq))
      <4>1. \A v \in owners : v # Done => req'[v].handle = req[v].handle
        BY <1>0, <1>2
      <4>2. Handles' = With(Without(Handles, Done), Done, req'[Done].handle)
        BY <3>1, <4>1, HandleChanged
      <4> QED BY <3>1, <4>2
    <3>3. Done \notin DOMAIN Without(Handles, Done)
      BY DEF Without
    <3>4. Sound(Token, LockHandle(Released(DoneReq), NewHandle(DoneReq)),
                With(Without(Handles, Done), Done, NewHandle(DoneReq)))
      BY <2>0, <3>1, <3>3, LockKeepsSound, Zenon
    <3> QED BY <3>1, <3>2, <3>4 DEF LockInv
  <2>3. CASE ~DoneFree /\ ~DoneKeep
    <3>1. kv' = kv /\ owners' = owners
      BY <1>0, <2>3
    <3>2. \A v \in owners : req'[v].handle = req[v].handle
      BY <1>0, <1>2, <2>3
    <3> QED BY <3>1, <3>2, LocksStutter
  <2> QED BY <2>1, <2>2, <2>3
<1> QED BY <1>3, <1>4, <1>5, <1>6, <1>8, <1>10, <1>11, <1>12 DEF HostInv
-----------------------------------------------------------------------------
(* The size of a chunk: at least a token, and no more than the prompt has. *)
LEMMA ChunkSizeIs ==
  ASSUME NEW u \in Reqs, NEW clen \in Nat, clen < InputLen(u), adder.budget \in Nat,
         adder.budget > 0
  PROVE  LET size == ChunkSize(u, clen)
         IN  /\ size \in Nat /\ size > 0 /\ clen + size <= InputLen(u)
             /\ size < InputLen(u) - clen <=> clen + size < InputLen(u)
<1> DEFINE len == InputLen(u)
<1>1. len \in Nat
  BY LengthTypes
<1>2. ChunkSize(u, clen) =
        IF adder.budget <= len - clen THEN adder.budget ELSE len - clen
  BY <1>1, MinOfTwo DEF ChunkSize
<1> HIDE DEF len
<1> QED BY <1>1, <1>2 DEF len

(* _add_one_req of a request whose handle is a cached part of its prompt.  *)
LEMMA AddingKeepsHost ==
  ASSUME SlotInv, HostInv, MorePending, NEW u, u = NextPending, adder.budget > 0,
         NEW slot, NEW clen \in Nat, NEW handle \in Seq(Token), NEW from,
         AddOneReq(u, slot, clen, handle, from),
         clen < InputLen(u), IsPrefix(handle, Prompt[u]), Len(handle) <= clen, Whole(handle),
         owners' = owners \cup {u},
         UNCHANGED <<pending, running, inflight, todo>>
  PROVE  /\ HostInv'
         /\ u \in Reqs /\ req'[u].handle = handle /\ req'[u].slot = slot /\ req'[u].clen = clen
         /\ req'[u].dlen > clen
         /\ \A v \in Reqs \ {u} : req'[v] = req[v]
<1> DEFINE n    == Len(adder.reqs)
           size == ChunkSize(u, clen)
           cut  == size < InputLen(u) - clen
           q    == adder.reqs
           e    == [uid |-> u, chunk |-> cut]
           ids  == SubSeq(Prompt[u], 1, clen + size)
           x    == [slot |-> slot, ids |-> ids, clen |-> clen,
                    dlen |-> clen + size, handle |-> handle]
<1>1. /\ n \in Nat /\ Len(pending) \in Nat /\ n + 1 \in 1..Len(pending)
      /\ u = pending[n + 1] /\ u \in received
      /\ \A i \in 1..n : q[i].uid # u
  BY NextIsPending, Zenon
<1>2. /\ u \in Reqs /\ adder.budget \in Nat /\ DOMAIN req = Reqs
      /\ q \in Seq([uid : Reqs, chunk : BOOLEAN]) /\ DOMAIN pending = 1..Len(pending)
  BY <1>1 DEF SlotInv, LoopTypes
<1>3. /\ size \in Nat /\ size > 0 /\ clen + size <= InputLen(u)
      /\ cut <=> clen + size < InputLen(u)
      /\ Prompt[u] \in Seq(Token) /\ InputLen(u) \in Nat /\ InputLen(u) = Len(Prompt[u])
      /\ MaxSeqLen \in Nat
  BY <1>2, ChunkSizeIs, LengthTypes DEF InputLen
<1>4. /\ adder'.reqs = Append(q, e)
      /\ req' = [req EXCEPT ![u] = x]
      /\ chunked' = IF cut THEN chunked \cup {u} ELSE chunked \ {u}
  BY DEF AddOneReq
<1>5. /\ x.ids = ids /\ x.clen = clen /\ x.dlen = clen + size /\ x.handle = handle
      /\ x.slot = slot /\ e.uid = u /\ e \in [uid : Reqs, chunk : BOOLEAN]
  <2> HIDE DEF size, ids
  <2> QED BY <1>2
<1>6. ids \in Seq(Token) /\ Len(ids) = clen + size /\ IsPrefix(ids, Prompt[u])
  <2> HIDE DEF size
  <2>1. clen + size \in 0..Len(Prompt[u])
    BY <1>3
  <2> QED BY <1>3, <2>1, FirstPart
<1> HIDE DEF e, x, ids, size, cut
<1>7. /\ Len(adder'.reqs) = n + 1
      /\ \A i \in 1..n : adder'.reqs[i] = q[i]
      /\ adder'.reqs[n + 1] = e
  BY <1>2, <1>4, <1>5, AppendProperties
<1>8. req'[u] = x /\ \A v \in Reqs \ {u} : req'[v] = req[v]
  BY <1>2, <1>4
<1>9. u \in ToSet(pending)
  BY <1>1, <1>2 DEF ToSet
<1>10. owners \subseteq Reqs /\ running \subseteq Reqs \ {u} /\ chunked \subseteq Reqs
  BY <1>9 DEF SlotInv, LoopTypes, PendingApart
<1>11. InputLen(u) < MaxSeqLen
  BY <1>9 DEF HostInv, PendingFits
<1>12. Fits(x)
  <2>1. IsPrefix(handle, ids)
    BY <1>3, <1>6, PrefixesCompare
  <2>2. clen <= MaxSeqLen /\ clen < clen + size
    BY <1>3, <1>11
  <2> QED BY <1>5, <1>6, <2>1, <2>2 DEF Fits
<1>13. HostTokens'
  <2>1. \A v \in owners' : Fits(req'[v])
    BY <1>8, <1>10, <1>12 DEF HostInv, HostTokens
  <2> QED BY <2>1 DEF HostTokens, Fits
<1>14. Waiting'
  <2>1. x.clen <= Len(x.ids)
    BY <1>3, <1>5, <1>6
  <2> QED BY <1>8, <1>10, <2>1 DEF HostInv, Waiting
<1>15. RunningFits' /\ PendingFits'
  BY <1>8, <1>10 DEF HostInv, RunningFits, PendingFits, MaxDevLen
<1>16. ChunksCut'
  <2>1. cut => IsPrefix(x.ids, Prompt[u]) /\ Len(x.ids) < InputLen(u)
    BY <1>3, <1>5, <1>6
  <2> QED BY <1>4, <1>8, <1>10, <2>1 DEF HostInv, ChunksCut
<1>17. AddedFit'
  <2>1. ASSUME NEW i \in 1..Len(adder'.reqs)
        PROVE  req'[adder'.reqs[i].uid].dlen <= InputLen(adder'.reqs[i].uid)
    <3>1. CASE i = n + 1
      BY <1>3, <1>5, <1>7, <1>8, <3>1
    <3>2. CASE i \in 1..n
      <4>1. q[i].uid \in Reqs \ {u}
        <5>1. q[i] \in [uid : Reqs, chunk : BOOLEAN]
          BY <1>2, <3>2, ElementOfSeq
        <5> QED BY <1>1, <3>2, <5>1
      <4>2. req[q[i].uid].dlen <= InputLen(q[i].uid)
        BY <3>2 DEF HostInv, AddedFit
      <4> QED BY <1>7, <1>8, <3>2, <4>1, <4>2
    <3> QED BY <1>1, <1>7, <2>1, <3>1, <3>2
  <2> QED BY <2>1 DEF AddedFit
<1>18. Admitted(todo)' /\ Admitted(inflight)' /\ FirstSteps' /\ Sampled(todo)' /\ Sampled(inflight)'
  BY DEF HostInv, Admitted, FirstSteps, Steps, Sampled
<1>19. HostInv'
  BY <1>13, <1>14, <1>15, <1>16, <1>17, <1>18 DEF HostInv
<1> QED BY <1>2, <1>3, <1>5, <1>8, <1>19

LEMMA AddChunkKeepsLocks ==
  ASSUME SlotInv, HostInv, LockInv, NEW u \in Reqs, AddChunk(u)
  PROVE  HostInv' /\ LockInv'
<1>1. /\ MorePending /\ u = NextPending /\ adder.budget > 0 /\ u \in chunked
      /\ AddOneReq(u, req[u].slot, req[u].clen, req[u].handle, req[u].clen)
      /\ UNCHANGED <<pending, running, owners, inflight, todo, kv>>
  BY DEF AddChunk, CanAdd
<1>2. u \in owners /\ u \in ToSet(pending) /\ req[u].clen \in Nat
  BY <1>1 DEF SlotInv, LoopTypes, PendingApart
<1>3. /\ req[u].handle \in Seq(Token) /\ req[u].ids \in Seq(Token)
      /\ IsPrefix(req[u].handle, req[u].ids) /\ Len(req[u].handle) <= req[u].clen
      /\ Whole(req[u].handle)
      /\ req[u].clen <= Len(req[u].ids)
      /\ IsPrefix(req[u].ids, Prompt[u]) /\ Len(req[u].ids) < InputLen(u)
  BY <1>1, <1>2 DEF HostInv, HostTokens, Fits, Waiting, ChunksCut
<1>4. IsPrefix(req[u].handle, Prompt[u])
  BY <1>3, LengthTypes, PrefixTransitive
<1>5. req[u].clen < InputLen(u)
  <2>1. Len(req[u].ids) \in Nat /\ InputLen(u) \in Nat
    BY <1>3, LengthTypes, LenProperties
  <2> QED BY <1>2, <1>3, <2>1
<1>6. owners' = owners \cup {u}
  BY <1>1, <1>2
<1>7. /\ HostInv' /\ req'[u].handle = req[u].handle
      /\ \A v \in Reqs \ {u} : req'[v] = req[v]
  BY <1>1, <1>2, <1>3, <1>4, <1>5, <1>6, AddingKeepsHost
<1>8. \A v \in owners : req'[v].handle = req[v].handle
  BY <1>7 DEF SlotInv, LoopTypes
<1> QED BY <1>1, <1>7, <1>8, LocksStutter

(* match_req: a cached part of the prompt that leaves a token to compute.  *)
LEMMA MatchedPrompt ==
  ASSUME NEW u \in Reqs
  PROVE  /\ MatchReq(u) \in Seq(Token) /\ Whole(MatchReq(u))
         /\ IsPrefix(MatchReq(u), Prompt[u])
         /\ Len(MatchReq(u)) \in Nat /\ Len(MatchReq(u)) < InputLen(u)
         /\ PagePrefixes(MatchReq(u)) \subseteq Cached(kv)
<1> DEFINE s == SubSeq(Prompt[u], 1, InputLen(u) - 1)
           h == MatchPrefix(kv, s)
<1>1. Prompt[u] \in Seq(Token) /\ InputLen(u) \in Nat /\ InputLen(u) > 0
  BY LengthTypes
<1>2. s \in Seq(Token) /\ Len(s) = InputLen(u) - 1 /\ IsPrefix(s, Prompt[u])
  <2>1. InputLen(u) - 1 \in 0..Len(Prompt[u])
    BY <1>1 DEF InputLen
  <2> QED BY <1>1, <2>1, FirstPart
<1> HIDE DEF s
<1>3. /\ \E m \in 0..PagesDown(Len(s)) : Len(h) = m * PageSize
      /\ h \in Seq(Token) /\ IsPrefix(h, s) /\ PagePrefixes(h) \subseteq Cached(kv)
  BY <1>2, MatchedHandle
<1> HIDE DEF h
<1>4. Whole(h)
  BY <1>3 DEF Whole
<1>5. IsPrefix(h, Prompt[u])
  BY <1>1, <1>2, <1>3, PrefixTransitive
<1>6. Len(h) <= Len(s) /\ Len(h) \in Nat
  BY <1>3, LenProperties DEF IsPrefix
<1>7. MatchReq(u) = h
  BY DEF MatchReq, h, s
<1> QED BY <1>1, <1>2, <1>3, <1>4, <1>5, <1>6, <1>7

LEMMA AddNewKeepsLocks ==
  ASSUME SlotInv, HostInv, LockInv, NEW u \in Reqs, AddNew(u)
  PROVE  HostInv' /\ LockInv' /\ u \notin owners
<1> DEFINE h    == MatchReq(u)
           slot == Last(freeSlots)
<1>1. /\ MorePending /\ u = NextPending /\ adder.budget > 0 /\ u \notin chunked
      /\ AddOneReq(u, slot, Len(h), h, 0)
      /\ owners' = owners \cup {u}
      /\ kv' = LockHandle(kv, h)
      /\ UNCHANGED <<pending, running, inflight, todo>>
  BY DEF AddNew, CanAdd
<1>2. /\ h \in Seq(Token) /\ Whole(h) /\ IsPrefix(h, Prompt[u]) /\ Len(h) \in Nat
      /\ Len(h) < InputLen(u) /\ PagePrefixes(h) \subseteq Cached(kv)
  BY MatchedPrompt
<1> HIDE DEF h, slot
<1>3. Len(h) <= Len(h)
  BY <1>2
<1>4. /\ HostInv' /\ req'[u].handle = h
      /\ \A v \in Reqs \ {u} : req'[v] = req[v]
  BY <1>1, <1>2, <1>3, AddingKeepsHost
<1>5. u \notin owners
  <2>1. /\ u = pending[Len(adder.reqs) + 1] /\ Len(adder.reqs) + 1 \in 1..Len(pending)
        /\ \A i \in 1..Len(adder.reqs) : adder.reqs[i].uid = pending[i] /\ pending[i] # u
    BY <1>1, NextIsPending, Zenon
  <2>2. u \notin UidsOf(adder.reqs)
    <3>1. DOMAIN adder.reqs = 1..Len(adder.reqs)
      BY DEF SlotInv, LoopTypes
    <3> QED BY <2>1, <3>1 DEF UidsOf
  <2>3. u \in ToSet(pending)
    <3>1. DOMAIN pending = 1..Len(pending)
      BY DEF SlotInv, LoopTypes
    <3> QED BY <2>1, <3>1 DEF ToSet
  <2> QED BY <1>1, <2>2, <2>3 DEF SlotInv, PendingApart
<1>6. \A v \in owners : req'[v].handle = req[v].handle
  BY <1>4, <1>5 DEF SlotInv, LoopTypes
<1>7. Handles' = With(Handles, u, h)
  BY <1>1, <1>4, <1>5, <1>6, HandleGiven
<1>8. u \notin DOMAIN Handles
  BY <1>5 DEF Handles
<1>9. Sound(Token, LockHandle(kv, h), With(Handles, u, h))
  BY <1>2, <1>8, LockKeepsSound, Zenon DEF LockInv
<1> QED BY <1>1, <1>4, <1>5, <1>7, <1>9 DEF LockInv
-----------------------------------------------------------------------------
(* A batch holds admitted requests, each with room for the tokens of its   *)
(* step.                                                                   *)
LEMMA LaunchedFit ==
  ASSUME SlotInv, HostInv
  PROVE  \A u \in UidsOf(NextReqs) :
           /\ u \in owners /\ u \in Reqs
           /\ req[u].dlen <= MaxSeqLen /\ req[u].clen < req[u].dlen
           /\ req[u].clen \in Nat /\ req[u].dlen \in Nat
<1>1. ASSUME NEW u \in UidsOf(NextReqs), adder.reqs # <<>>
      PROVE  u \in owners /\ req[u].dlen <= MaxSeqLen
  <2> DEFINE q == adder.reqs
  <2>1. NextReqs = q
    BY <1>1 DEF NextReqs
  <2>2. DOMAIN q = 1..Len(q) /\ DOMAIN pending = 1..Len(pending) /\ Len(q) <= Len(pending)
        /\ Len(q) \in Nat /\ Len(pending) \in Nat
    BY LenProperties DEF SlotInv, LoopTypes, AdderFollowsPending
  <2>3. PICK i \in 1..Len(q) : q[i].uid = u
    BY <1>1, <2>1, <2>2 DEF UidsOf
  <2>4. q[i].uid = pending[i] /\ pending[i] \in owners /\ i \in 1..Len(pending)
    BY <2>2 DEF SlotInv, AdderFollowsPending
  <2>5. u \in owners /\ u \in ToSet(pending)
    BY <2>2, <2>3, <2>4 DEF ToSet
  <2>6. req[u].dlen <= InputLen(u) /\ InputLen(u) < MaxSeqLen
    BY <2>3, <2>5 DEF HostInv, AddedFit, PendingFits
  <2>7. u \in Reqs /\ req[u].dlen \in Nat
    BY <2>5 DEF SlotInv, LoopTypes
  <2>8. InputLen(u) \in Nat /\ MaxSeqLen \in Nat
    BY <2>7, LengthTypes
  <2> QED BY <2>5, <2>6, <2>7, <2>8
<1>2. ASSUME NEW u \in UidsOf(NextReqs), adder.reqs = <<>>
      PROVE  u \in owners /\ req[u].dlen <= MaxSeqLen
  <2> DEFINE order == SetToSeq(running)
             c     == Cardinality(running)
             q     == [i \in 1..c |-> [uid |-> order[i], chunk |-> FALSE]]
  <2>1. NextReqs = q
    BY <1>2 DEF NextReqs
  <2>2. IsFiniteSet(running)
    <3>1. running \in SUBSET Reqs
      BY DEF SlotInv, LoopTypes
    <3> QED BY <3>1, FS_Subset, RequestAssumption
  <2>3. \A i \in 1..c : order[i] \in running
    BY <2>2, SetToSeqLists
  <2> HIDE DEF order, c
  <2>4. u \in running
    BY <1>2, <2>1, <2>3 DEF UidsOf
  <2>5. u \in owners /\ u \in Reqs /\ req[u].dlen \in Nat /\ req[u].dlen < MaxDevLen(u)
    BY <2>4 DEF SlotInv, LoopTypes, PendingApart, HostInv, RunningFits
  <2>6. MaxDevLen(u) \in Int /\ MaxDevLen(u) <= MaxSeqLen /\ MaxSeqLen \in Nat
    BY <2>5, LengthTypes
  <2> QED BY <2>5, <2>6
<1>3. ASSUME NEW u \in owners
      PROVE  /\ u \in Reqs /\ req[u].clen < req[u].dlen
             /\ req[u].clen \in Nat /\ req[u].dlen \in Nat
  BY DEF SlotInv, LoopTypes, HostInv, HostTokens, Fits
<1> QED BY <1>1, <1>2, <1>3

(* A launch that finds pages: complete_one for the requests of the batch.  *)
LEMMA LaunchIs ==
  ASSUME SlotInv, HostInv, Launch
  PROVE  LET q      == NextReqs
             needed == Cardinality(NeededPages(q))
             short  == Max({0, needed - Len(freePages)})
         IN \/ short > Cardinality(Evictable(kv)) /\ Fail("evict")
            \/ /\ ~(short > Cardinality(Evictable(kv)))
               /\ pc = "admit" /\ pc' = "process"
               /\ \E E \in Evictions(kv, short) :
                    LET order  == SetToSeq(E)
                        supply == freePages \o [i \in 1..Cardinality(E) |-> kv.page[order[i]]] IN
                    /\ freePages' = SubSeq(supply, needed + 1, Len(supply))
                    /\ kv' = EvictPrefixes(kv, E)
                    /\ table' = WrittenTable(q, supply)
               /\ HandOver(ForwardInput(q, table'))
               /\ DOMAIN req' = Reqs
               /\ \A v \in Reqs : /\ req'[v].slot = req[v].slot /\ req'[v].ids = req[v].ids
                                  /\ req'[v].handle = req[v].handle
               /\ \A v \in UidsOf(q) : /\ req'[v].clen = req[v].dlen
                                       /\ req'[v].dlen = req[v].dlen + 1
               /\ \A v \in Reqs \ UidsOf(q) : req'[v] = req[v]
               /\ running' = FilterReqs(q) /\ pending' = RestPending /\ adder' = NewAdder
               /\ UNCHANGED <<chunked, owners, lazyFree, fault>>
<1> DEFINE q      == NextReqs
           needed == Cardinality(NeededPages(q))
           short  == Max({0, needed - Len(freePages)})
<1>1. CASE short > Cardinality(Evictable(kv))
  BY <1>1 DEF Launch
<1>2. CASE ~(short > Cardinality(Evictable(kv)))
  <2>1. /\ pc = "admit" /\ pc' = "process"
        /\ \E E \in Evictions(kv, short) :
             LET order  == SetToSeq(E)
                 supply == freePages \o [i \in 1..Cardinality(E) |-> kv.page[order[i]]] IN
             /\ freePages' = SubSeq(supply, needed + 1, Len(supply))
             /\ kv' = EvictPrefixes(kv, E)
             /\ table' = WrittenTable(q, supply)
        /\ HandOver(ForwardInput(q, table'))
        /\ req' = [u \in Reqs |-> IF u \in UidsOf(q) THEN CompleteOne(req[u]) ELSE req[u]]
        /\ running' = FilterReqs(q) /\ pending' = RestPending /\ adder' = NewAdder
        /\ UNCHANGED <<chunked, owners, lazyFree, fault>>
    BY <1>2 DEF Launch
  <2>2. UidsOf(q) \subseteq Reqs
    BY LaunchedFit
  <2>3. \A r : IsReq(r) => LET c == CompleteOne(r)
                           IN  /\ c.slot = r.slot /\ c.ids = r.ids /\ c.handle = r.handle
                               /\ c.clen = r.dlen /\ c.dlen = r.dlen + 1
    BY DEF IsReq, CompleteOne
  <2>4. \A v \in Reqs : IsReq(req[v])
    BY DEF SlotInv, LoopTypes
  <2> HIDE DEF q, needed, short
  <2>5. /\ DOMAIN req' = Reqs
        /\ \A v \in Reqs : /\ req'[v].slot = req[v].slot /\ req'[v].ids = req[v].ids
                           /\ req'[v].handle = req[v].handle
        /\ \A v \in UidsOf(q) : req'[v].clen = req[v].dlen /\ req'[v].dlen = req[v].dlen + 1
        /\ \A v \in Reqs \ UidsOf(q) : req'[v] = req[v]
    BY <2>1, <2>2, <2>3, <2>4
  <2> QED BY <1>2, <2>1, <2>5 DEF q, needed, short
<1> QED BY <1>1, <1>2

LEMMA LaunchKeepsLocks ==
  ASSUME SlotInv, MetInv, HostInv, LockInv, Launch
  PROVE  HostInv' /\ LockInv'
<1> DEFINE q      == NextReqs
           batch  == ForwardInput(q, table')
           needed == Cardinality(NeededPages(q))
           short  == Max({0, needed - Len(freePages)})
<1>1. CASE Fail("evict")
  BY <1>1, FailKeepsLocks
<1>2. CASE ~Fail("evict")
  <2>0. /\ pc = "admit" /\ pc' = "process"
        /\ \E E \in Evictions(kv, short) : kv' = EvictPrefixes(kv, E)
        /\ HandOver(batch)
        /\ \A v \in Reqs : /\ req'[v].slot = req[v].slot /\ req'[v].ids = req[v].ids
                           /\ req'[v].handle = req[v].handle
        /\ \A v \in UidsOf(q) : /\ req'[v].clen = req[v].dlen
                                /\ req'[v].dlen = req[v].dlen + 1
        /\ \A v \in Reqs \ UidsOf(q) : req'[v] = req[v]
        /\ running' = FilterReqs(q) /\ pending' = RestPending /\ adder' = NewAdder
        /\ UNCHANGED <<chunked, owners>>
    BY <1>2, LaunchIs
  <2>1. \A u \in UidsOf(q) : /\ u \in owners /\ u \in Reqs
                             /\ req[u].dlen <= MaxSeqLen /\ req[u].clen < req[u].dlen
                             /\ req[u].clen \in Nat /\ req[u].dlen \in Nat
    BY LaunchedFit, Zenon
  <2>2. /\ Len(q) \in Nat /\ DOMAIN q = 1..Len(q)
        /\ \A i \in 1..Len(q) : ~q[i].chunk => q[i].uid \in owners \ ToSet(RestPending)
    BY NextReqsFacts, Zenon
  <2>3. /\ batch.phase = NextPhase /\ Len(batch.reqs) = Len(q)
        /\ batch.reqs \in Seq(ToSet(batch.reqs))
        /\ \A i \in 1..Len(q) : /\ batch.reqs[i].uid = q[i].uid
                                /\ batch.reqs[i].chunk = q[i].chunk
    BY BatchEntries, Zenon
  <2>4. (batch.ran <=> q = <<>>) /\ batch.tokens = <<>>
    BY DEF ForwardInput
  <2>5. /\ ToSet(RestPending) \subseteq ToSet(pending)
        /\ owners \cap ToSet(RestPending) \subseteq chunked
    BY RestOfPending
  <2> HIDE DEF batch, needed, short
  <2>6. owners \subseteq Reqs /\ running \subseteq Reqs /\ chunked \subseteq owners
    BY DEF SlotInv, LoopTypes, PendingApart
  <2>7. HostTokens'
    <3>1. ASSUME NEW v \in owners' PROVE Fits(req'[v])
      <4>0. v \in Reqs /\ v \in owners /\ Fits(req[v])
        BY <2>0, <2>6, <3>1 DEF HostInv, HostTokens
      <4>1. CASE v \notin UidsOf(q)
        BY <2>0, <4>0, <4>1
      <4>2. CASE v \in UidsOf(q)
        <5>1. Len(req[v].handle) \in Nat
          BY <4>0, LenProperties DEF Fits
        <5>2. /\ req'[v].ids = req[v].ids /\ req'[v].handle = req[v].handle
              /\ req'[v].clen = req[v].dlen /\ req'[v].dlen = req[v].dlen + 1
          BY <2>0, <4>0, <4>2
        <5>3. Len(req[v].handle) <= req[v].dlen
          BY <2>1, <4>0, <4>2, <5>1 DEF Fits
        <5> QED BY <2>1, <4>0, <4>2, <5>1, <5>2, <5>3 DEF Fits
      <4> QED BY <4>1, <4>2
    <3> QED BY <3>1 DEF HostTokens, Fits
  <2>8. Waiting'
    <3>1. ASSUME NEW v \in owners \cap ToSet(RestPending) PROVE req'[v].clen <= Len(req'[v].ids)
      <4>0. v \in ToSet(pending) /\ v \in Reqs /\ v \notin running
        BY <2>5, <2>6, <3>1 DEF SlotInv, PendingApart
      <4>1. CASE v \notin UidsOf(q)
        BY <2>0, <4>0, <4>1, <3>1 DEF HostInv, Waiting
      <4>2. CASE v \in UidsOf(q)
        <5>1. adder.reqs # <<>>
          <6>1. SUFFICES ASSUME adder.reqs = <<>> PROVE FALSE
            OBVIOUS
          <6> DEFINE order == SetToSeq(running)
                     c     == Cardinality(running)
          <6>2. q = [i \in 1..c |-> [uid |-> order[i], chunk |-> FALSE]]
            BY <6>1 DEF NextReqs
          <6>3. IsFiniteSet(running)
            BY <2>6, FS_Subset, RequestAssumption
          <6>4. \A i \in 1..c : order[i] \in running
            BY <6>3, SetToSeqLists
          <6> HIDE DEF order, c, q
          <6>5. v \in running
            BY <4>2, <6>2, <6>4 DEF UidsOf
          <6> QED BY <4>0, <6>5
        <5>2. q = adder.reqs
          BY <5>1 DEF NextReqs
        <5> HIDE DEF q
        <5>3. PICK i \in 1..Len(adder.reqs) : adder.reqs[i].uid = v
          BY <2>2, <4>2, <5>2 DEF UidsOf
        <5>4. Len(req[v].ids) = req[v].dlen
          BY <5>3 DEF MetInv, AddedAreEven
        <5>5. req'[v].clen = req[v].dlen /\ req'[v].ids = req[v].ids /\ req[v].dlen \in Nat
          BY <2>0, <2>1, <4>0, <4>2
        <5> QED BY <5>4, <5>5
      <4> QED BY <4>1, <4>2
    <3> QED BY <2>0, <3>1 DEF Waiting
  <2>9. RunningFits'
    <3>1. ASSUME NEW v \in running' PROVE req'[v].dlen < MaxDevLen(v)
      <4>1. CASE v \in UidsOf(q)
        <5>1. MaxDevLen(v) - CompleteOne(req[v]).dlen > 0
          BY <2>0, <3>1, <4>1 DEF FilterReqs
        <5>2. v \in Reqs /\ IsReq(req[v]) /\ req[v].dlen \in Nat /\ MaxDevLen(v) \in Int
          BY <2>1, <4>1, LengthTypes DEF SlotInv, LoopTypes
        <5>3. CompleteOne(req[v]).dlen = req[v].dlen + 1
          BY <5>2 DEF CompleteOne, IsReq
        <5> QED BY <2>0, <4>1, <5>1, <5>2, <5>3
      <4>2. CASE v \notin UidsOf(q)
        <5>1. v \in running
          BY <2>0, <3>1, <4>2 DEF FilterReqs
        <5>2. req'[v] = req[v]
          BY <2>0, <2>6, <4>2, <5>1
        <5> QED BY <5>1, <5>2 DEF HostInv, RunningFits
      <4> QED BY <4>1, <4>2
    <3> QED BY <3>1 DEF RunningFits, MaxDevLen
  <2>10. ChunksCut'
    BY <2>0, <2>6 DEF HostInv, ChunksCut
  <2>11. PendingFits' /\ AddedFit'
    <3>1. Len(NewAdder.reqs) = 0
      BY DEF NewAdder
    <3> QED BY <2>0, <2>5, <3>1 DEF HostInv, PendingFits, AddedFit
  <2>12. \/ Overlap /\ todo' = inflight /\ inflight' = batch
         \/ ~Overlap /\ todo' = batch /\ inflight' = NoBatch
    BY <2>0 DEF HandOver
  <2>13. NoBatch.reqs = <<>> /\ NoBatch.phase = "none" /\ NoBatch.tokens = <<>>
    BY DEF NoBatch
  <2>14. \A i \in 1..Len(batch.reqs) : ~batch.reqs[i].chunk => batch.reqs[i].uid \in owners
    BY <2>2, <2>3
  <2>15. Admitted(todo)' /\ Admitted(inflight)'
    <3>1. Admitted(inflight) /\ "none" # "prefill"
      BY DEF HostInv
    <3>2. \/ Overlap /\ todo' = inflight /\ inflight' = batch
          \/ ~Overlap /\ todo' = batch /\ inflight' = NoBatch
      BY <2>12
    <3> QED BY <2>0, <2>13, <2>14, <3>1, <3>2 DEF Admitted
  <2>16. FirstSteps'
    <3>1. CASE ~Overlap
      BY <2>12, <2>13, <3>1 DEF FirstSteps
    <3>2. CASE Overlap
      <4>1. SUFFICES ASSUME batch.phase = "prefill", NEW i \in 1..Len(batch.reqs),
                            ~batch.reqs[i].chunk
                     PROVE  Steps(batch.reqs[i].uid, inflight) = 0
        BY <2>12, <3>2 DEF FirstSteps
      <4>2. adder.reqs # <<>>
        BY <2>3, <4>1 DEF NextPhase
      <4>3. q = adder.reqs
        BY <4>2 DEF NextReqs
      <4> HIDE DEF q
      <4>4. /\ i \in 1..Len(adder.reqs) /\ Len(adder.reqs) <= Len(pending)
            /\ Len(adder.reqs) \in Nat /\ Len(pending) \in Nat
            /\ batch.reqs[i].uid = pending[i] /\ DOMAIN pending = 1..Len(pending)
        BY <2>3, <4>1, <4>3, LenProperties DEF SlotInv, LoopTypes, AdderFollowsPending
      <4>5. pending[i] \in ToSet(pending)
        BY <4>4 DEF ToSet
      <4>6. Known(inflight, finishedReqs)
        BY <2>0 DEF SlotInv, BatchesKnowFreed
      <4> QED BY <4>4, <4>5, <4>6 DEF Known, Steps
    <3> QED BY <3>1, <3>2
  <2>17. Sampled(todo)' /\ Sampled(inflight)'
    <3>1. Sampled(inflight)
      BY DEF HostInv
    <3>2. batch.ran => batch.tokens \in Seq(Token) /\ Len(batch.tokens) = Len(batch.reqs)
      <4>1. SUFFICES ASSUME batch.ran PROVE batch.tokens \in Seq(Token)
                                            /\ Len(batch.tokens) = Len(batch.reqs)
        OBVIOUS
      <4>2. q = <<>>
        BY <2>4, <4>1
      <4> HIDE DEF q
      <4>3. Len(batch.reqs) = 0
        BY <2>3, <4>2
      <4> QED BY <2>4, <4>3
    <3>3. NoBatch.tokens \in Seq(Token) /\ Len(NoBatch.tokens) = Len(NoBatch.reqs)
      BY <2>13
    <3> QED BY <2>12, <3>1, <3>2, <3>3 DEF Sampled
  <2>18. LockInv'
    <3>1. Handles' = Handles
      BY <2>0, <2>6 DEF Handles
    <3>2. PICK E \in Evictions(kv, short) : kv' = EvictPrefixes(kv, E)
      BY <2>0
    <3>3. Sound(Token, EvictPrefixes(kv, E), Handles)
      BY EvictKeepsSound DEF LockInv
    <3> QED BY <3>1, <3>2, <3>3 DEF LockInv
  <2> QED BY <2>7, <2>8, <2>9, <2>10, <2>11, <2>15, <2>16, <2>17, <2>18 DEF HostInv
<1> QED BY <1>1, <1>2
-----------------------------------------------------------------------------
(* The initial state: an empty cache, no handles.                          *)
LEMMA InitLocks ==
  ASSUME Init
  PROVE  HostInv /\ LockInv
<1>1. /\ owners = {} /\ pending = <<>> /\ running = {} /\ chunked = {} /\ kv = EmptyCache
      /\ todo = NoBatch /\ inflight = NoBatch /\ adder = NewAdder
  BY DEF Init
<1>2. /\ NoBatch.reqs = <<>> /\ NoBatch.phase = "none" /\ NoBatch.tokens = <<>>
      /\ NewAdder.reqs = <<>> /\ Len(<<>>) = 0 /\ <<>> \in Seq(Token) /\ ToSet(<<>>) = {}
  BY DEF NoBatch, NewAdder, ToSet
<1>3. HostTokens /\ Waiting /\ RunningFits /\ ChunksCut /\ PendingFits
  BY <1>1, <1>2 DEF HostTokens, Waiting, RunningFits, ChunksCut, PendingFits
<1>4. AddedFit /\ Admitted(todo) /\ Admitted(inflight) /\ FirstSteps
  BY <1>1, <1>2 DEF AddedFit, Admitted, FirstSteps
<1>5. Sampled(todo) /\ Sampled(inflight)
  BY <1>1, <1>2 DEF Sampled
<1>6. /\ DOMAIN EmptyCache = {"page", "ref"} /\ DOMAIN EmptyCache.ref = {}
      /\ Cached(EmptyCache) = {}
  BY DEF EmptyCache, Cached
<1>7. DOMAIN Handles = {} /\ Handles \in [{} -> Seq(Token)] /\ IsFiniteSet({})
  BY <1>1, FS_EmptySet DEF Handles
<1>8. LockInv
  BY <1>1, <1>6, <1>7 DEF LockInv, Sound
<1> QED BY <1>3, <1>4, <1>5, <1>8 DEF HostInv

LEMMA LocksStep ==
  ASSUME NoLateAbort, SlotInv, MetInv, HostInv, LockInv, [Next]_vars
  PROVE  HostInv' /\ LockInv'
<1>1. CASE BeginRound \/ EndRound \/ GpuRun \/ SkipChunk \/ Idle
  BY <1>1, QuietStepsKeepLocks
<1>2. ASSUME NEW u \in Reqs, AddChunk(u) PROVE HostInv' /\ LockInv'
  BY <1>2, AddChunkKeepsLocks
<1>3. ASSUME NEW u \in Reqs, AddNew(u) PROVE HostInv' /\ LockInv'
  BY <1>3, AddNewKeepsLocks
<1>4. CASE Launch
  BY <1>4, LaunchKeepsLocks
<1>5. CASE CompleteReq
  BY <1>5, CompleteReqKeepsLocks
<1>6. ASSUME NEW u \in Reqs, RecvUser(u) PROVE HostInv' /\ LockInv'
  BY <1>6, RecvUserKeepsLocks
<1>7. ASSUME NEW u \in Reqs, RecvAbort(u) PROVE HostInv' /\ LockInv'
  BY <1>7, RecvAbortKeepsLocks
<1>8. CASE UNCHANGED vars
  <2>1. UNCHANGED hostVars /\ kv' = kv
    BY <1>8 DEF vars, hostVars, reqVars, memVars, loopVars
  <2>2. owners' = owners /\ req' = req
    BY <2>1 DEF hostVars
  <2> QED BY <2>1, <2>2, HostStutters, LocksStutter
<1> QED
  BY <1>1, <1>2, <1>3, <1>4, <1>5, <1>6, <1>7, <1>8 DEF Next, Round
-----------------------------------------------------------------------------
(* The invariant of the requests, the batches and the locks.               *)
HoldInv == SlotInv /\ MetInv /\ HostInv /\ LockInv

LEMMA HoldInvStep ==
  ASSUME NoLateAbort, HoldInv, [Next]_vars
  PROVE  HoldInv'
<1>1. SlotInv' /\ MetInv'
  BY SlotInvStep, MetInvStep DEF HoldInv
<1>2. HostInv' /\ LockInv'
  BY LocksStep DEF HoldInv
<1> QED BY <1>1, <1>2 DEF HoldInv

LEMMA HoldInvAlways ==
  ASSUME NoLateAbort
  PROVE  Spec => []HoldInv
<1>1. Init => HoldInv
  BY InitSlotInv, InitMet, InitLocks DEF HoldInv
<1>2. HoldInv /\ [Next]_vars => HoldInv'
  BY HoldInvStep
<1> QED BY <1>1, <1>2, PTL DEF Spec

(* The reference count of every cached page is the number of admitted      *)
(* requests whose handle covers it, and every handle is wholly cached:     *)
(* _add_one_req locks what cache_req later unlocks, the handle a prefill   *)
(* leaves in the Req is the one its release gives back (cache.py,          *)
(* prefill.py, scheduler.py), through chunked prefills, overlapping        *)
(* batches, duplicate prompts and late tokens of freed requests.           *)
THEOREM LocksBalance ==
  ASSUME NoLateAbort
  PROVE  Spec => []LocksMatchOwners
<1>1. HoldInv => LocksMatchOwners
  <2> SUFFICES ASSUME HoldInv PROVE LocksMatchOwners
    OBVIOUS
  <2>1. Sound(Token, kv, Handles)
    BY DEF HoldInv, LockInv
  <2>2. /\ \A u \in DOMAIN Handles : PagePrefixes(Handles[u]) \subseteq Cached(kv)
        /\ \A p \in Cached(kv) : kv.ref[p] = Cardinality(Covering(Handles, p))
    BY <2>1, SoundParts, ZenonT(40)
  <2>3. DOMAIN Handles = owners /\ \A u \in owners : Handles[u] = req[u].handle
    BY DEF Handles
  <2>4. \A p : Covering(Handles, p) = {u \in owners : IsPrefix(p, req[u].handle)}
    BY <2>3 DEF Covering
  <2> QED BY <2>2, <2>3, <2>4 DEF LocksMatchOwners
<1> QED BY <1>1, HoldInvAlways, PTL
-----------------------------------------------------------------------------
(* What insert_prefix of cache_req caches, and under which pages.          *)
LEMMA InsertedPages ==
  ASSUME NEW r
  PROVE  /\ CacheType = "naive" => Inserted(r) = kv
         /\ CacheType # "naive" =>
              /\ Cached(Inserted(r)) = Cached(kv) \cup PagePrefixes(InsertIds(r))
              /\ \A p \in Cached(Inserted(r)) :
                   Inserted(r).page[p] = IF p \in Cached(kv) THEN kv.page[p]
                                         ELSE table[r.slot][PagesDown(Len(p))]
         /\ \A p \in Cached(kv) : /\ p \in Cached(Inserted(r))
                                  /\ Inserted(r).page[p] = kv.page[p]
BY DEF Inserted, InsertPrefix, Cached

(* What a step does to the pages some handle protects.                     *)
LockedStay ==
  \A p \in Cached(kv) : kv.ref[p] > 0 => p \in Cached(kv') /\ kv'.page[p] = kv.page[p]

LEMMA CacheReqStays ==
  ASSUME LockInv, NEW u \in owners, NEW r, r.handle = req[u].handle,
         r.ids \in Seq(Token), r.clen \in Nat, r.clen <= Len(r.ids)
  PROVE  /\ kv' = Released(r) => LockedStay
         /\ kv' = LockHandle(Released(r), NewHandle(r)) => LockedStay
<1>1. /\ Sound(Token, Released(r), Without(Handles, u))
      /\ PagePrefixes(NewHandle(r)) \subseteq Cached(Released(r))
      /\ Cached(Released(r)) = Cached(Inserted(r)) /\ Released(r).page = Inserted(r).page
  BY CacheReqLocks, Zenon
<1>2. NewHandle(r) \in Seq(Token)
  BY CachedIds, Zenon
<1>3. u \notin DOMAIN Without(Handles, u)
  BY DEF Without
<1>4. /\ Cached(LockHandle(Released(r), NewHandle(r))) = Cached(Released(r))
      /\ LockHandle(Released(r), NewHandle(r)).page = Released(r).page
  BY <1>1, <1>2, <1>3, LockKeepsSound, Zenon
<1>5. \A p \in Cached(kv) : p \in Cached(Inserted(r)) /\ Inserted(r).page[p] = kv.page[p]
  BY InsertedPages, Zenon
<1> QED BY <1>1, <1>4, <1>5, Zenon DEF LockedStay

LEMMA LockedStayStep ==
  ASSUME NoLateAbort, HoldInv, [Next]_vars
  PROVE  LockedStay
<1> USE DEF HoldInv
<1>0. ASSUME kv' = kv PROVE LockedStay
  BY <1>0 DEF LockedStay
<1>1. CASE BeginRound \/ EndRound \/ GpuRun \/ SkipChunk \/ Idle
  <2>1. GpuRun => kv' = kv
    BY GpuRunIs
  <2>2. kv' = kv
    BY <1>1, <2>1 DEF BeginRound, EndRound, SkipChunk, Idle, Fail, memVars, vars
  <2> QED BY <2>2, <1>0
<1>2. ASSUME NEW u \in Reqs, AddChunk(u) \/ RecvUser(u) PROVE LockedStay
  BY <1>2, <1>0 DEF AddChunk, RecvUser, memVars
<1>3. ASSUME NEW u \in Reqs, AddNew(u) PROVE LockedStay
  <2>1. kv' = LockHandle(kv, MatchReq(u)) /\ u \notin owners
    BY <1>3, AddNewKeepsLocks DEF AddNew
  <2>2. /\ MatchReq(u) \in Seq(Token) /\ PagePrefixes(MatchReq(u)) \subseteq Cached(kv)
    BY MatchedPrompt
  <2>3. u \notin DOMAIN Handles
    BY <2>1 DEF Handles
  <2>4. /\ Cached(LockHandle(kv, MatchReq(u))) = Cached(kv)
        /\ LockHandle(kv, MatchReq(u)).page = kv.page
    BY <2>2, <2>3, LockKeepsSound, Zenon DEF LockInv
  <2> QED BY <2>1, <2>4, Zenon DEF LockedStay
<1>4. CASE Launch
  <2> DEFINE short == Max({0, Cardinality(NeededPages(NextReqs)) - Len(freePages)})
  <2>1. CASE Fail("evict")
    BY <2>1, <1>0 DEF Fail, memVars
  <2>2. CASE ~Fail("evict")
    <3>1. \E E \in Evictions(kv, short) : kv' = EvictPrefixes(kv, E)
      BY <1>4, <2>2, LaunchIs
    <3>2. PICK E \in Evictions(kv, short) : kv' = EvictPrefixes(kv, E)
      BY <3>1
    <3> HIDE DEF short
    <3>3. E \subseteq Evictable(kv)
      BY DEF Evictions
    <3>4. Cached(kv') = Cached(kv) \ E /\ \A p \in Cached(kv) \ E : kv'.page[p] = kv.page[p]
      BY <3>2 DEF EvictPrefixes, Cached
    <3>5. \A p \in Cached(kv) : kv.ref[p] > 0 => p \notin E
      BY <3>3 DEF Evictable
    <3> QED BY <3>4, <3>5 DEF LockedStay
  <2> QED BY <2>1, <2>2
<1>5. CASE CompleteReq
  <2>1. kv' = CASE DoneFree -> Released(DoneReq)
                [] DoneKeep -> LockHandle(Released(DoneReq), NewHandle(DoneReq))
                [] OTHER -> kv
    BY <1>5, CompleteReqIs
  <2>2. CASE ~DoneFree /\ ~DoneKeep
    BY <1>0, <2>1, <2>2
  <2>3. CASE DoneFree \/ DoneKeep
    <3>1. pc = "process" /\ todo.ran /\ todo.reqs # <<>> /\ ~Head(todo.reqs).chunk
      BY <1>5 DEF CompleteReq
    <3>2. /\ Done \in owners /\ DoneReq.handle = req[Done].handle
          /\ DoneReq.ids \in Seq(Token) /\ DoneReq.clen \in Nat
          /\ DoneReq.clen <= Len(DoneReq.ids)
      BY <2>3, <3>1, DoneIs, Zenon
    <3>3. kv' = Released(DoneReq) \/ kv' = LockHandle(Released(DoneReq), NewHandle(DoneReq))
      BY <2>1, <2>3 DEF DoneKeep
    <3> QED BY <3>2, <3>3, CacheReqStays, Zenon
  <2> QED BY <2>2, <2>3
<1>6. ASSUME NEW u \in Reqs, RecvAbort(u) PROVE LockedStay
  <2>1. /\ AbortFinds(u) => /\ u \in owners
                            /\ req[u].ids \in Seq(Token) /\ req[u].clen \in Nat
                            /\ req[u].clen <= Len(req[u].ids)
                            /\ kv' = Released(req[u])
        /\ ~AbortFinds(u) => kv' = kv
    BY <1>6, AbortIs
  <2> QED BY <1>0, <2>1, CacheReqStays, Zenon
<1>7. CASE UNCHANGED vars
  BY <1>7, <1>0 DEF vars, memVars
<1> QED
  BY <1>1, <1>2, <1>3, <1>4, <1>5, <1>6, <1>7 DEF Next, Round

(* "When a handle is locked, it cannot be evicted" (kvcache/base.py): no   *)
(* step of the scheduler - an eviction that makes room for a batch, a      *)
(* duplicate prompt inserted next to the cached one, a release - takes a   *)
(* protected prefix out of the cache or moves it to another page.          *)
THEOREM ProtectedPagesStay ==
  ASSUME NoLateAbort
  PROVE  Spec => LockedPagesStay
<1>1. HoldInv /\ [Next]_vars => [LockedStay]_vars
  BY LockedStayStep
<1>2. Spec => [][LockedStay]_vars
  BY <1>1, HoldInvAlways, PTL DEF Spec
<1> QED BY <1>2 DEF LockedPagesStay, LockedStay

-----------------------------------------------------------------------------
(***************************************************************************)
(* The KV pages of the scheduler, for all requests, prompts, page sizes,   *)
(* pools and both cache types: no page is ever lost, handed out twice or   *)
(* freed while it is cached or in a request's row.                         *)
(*                                                                         *)
(* A page is on the free list, in the prefix cache or in the row of an     *)
(* admitted request past its handle.  These are three functions into the   *)
(* pages, and Apart says that together they hit every page exactly once.   *)
(* allocate_paged, cache_req, the evictions and the lazy free list move    *)
(* pages from one of the three to another: one lemma per kind of move,     *)
(* and for each step of the scheduler the moves it makes.                  *)
(***************************************************************************)

(* Three functions that together hit every page exactly once.              *)
Apart(f, g, h) ==
  /\ IsInjective(f) /\ IsInjective(g) /\ IsInjective(h)
  /\ Range(f) \cap Range(g) = {}
  /\ Range(f) \cap Range(h) = {}
  /\ Range(g) \cap Range(h) = {}
  /\ Range(f) \cup Range(g) \cup Range(h) = Pages

(* The row entries that admitted requests own alone, and their pages.      *)
Places  == {x \in owners \X Row : x[2] \in Private(x[1])}
RowPage == [x \in Places |-> table[req[x[1]].slot][x[2]]]

PagesInv ==
  /\ table \in [Slots -> [Row -> Pages]]
  /\ freePages \in Seq(Pages) /\ lazyFree \in Seq(Pages)
  /\ pc # "process" => lazyFree = <<>>
  /\ Apart(FreePool, kv.page, RowPage)
-----------------------------------------------------------------------------
(* Moves of pages between three functions.                                 *)
LEMMA ApartSwaps ==
  ASSUME NEW f, NEW g, NEW h, Apart(f, g, h)
  PROVE  Apart(f, h, g)
BY DEF Apart

(* The pages of some entries of h are appended to a list.                  *)
LEMMA ListedPages ==
  ASSUME NEW f \in Seq(Pages), NEW g, NEW h, Apart(f, g, h),
         NEW s \in Seq(Pages), IsInjective(s),
         NEW X \in SUBSET DOMAIN h, Range(s) = {h[x] : x \in X},
         NEW h2, DOMAIN h2 = DOMAIN h \ X, \A x \in DOMAIN h2 : h2[x] = h[x]
  PROVE  f \o s \in Seq(Pages) /\ Apart(f \o s, g, h2)
<1> DEFINE t == f \o s
<1>1. /\ t \in Seq(Pages) /\ Len(t) = Len(f) + Len(s) /\ Len(f) \in Nat /\ Len(s) \in Nat
      /\ DOMAIN f = 1..Len(f) /\ DOMAIN s = 1..Len(s) /\ DOMAIN t = 1..Len(t)
      /\ \A i \in 1..Len(t) : t[i] = IF i <= Len(f) THEN f[i] ELSE s[i - Len(f)]
  OBVIOUS
<1> HIDE DEF t
<1>2. IsInjective(f) /\ IsInjective(g) /\ IsInjective(h)
  BY DEF Apart
<1>3. /\ \A x \in DOMAIN f, y \in DOMAIN g : f[x] # g[y]
      /\ \A x \in DOMAIN f, y \in DOMAIN h : f[x] # h[y]
      /\ \A x \in DOMAIN g, y \in DOMAIN h : g[x] # h[y]
  BY DEF Apart, Range
<1>4. \A i \in DOMAIN s : \E x \in X : s[i] = h[x]
  <2> TAKE i \in DOMAIN s
  <2>1. s[i] \in Range(s)
    BY DEF Range
  <2> QED BY <2>1
<1>5. Range(t) = Range(f) \cup Range(s)
  <2>1. ASSUME NEW p \in Range(t) PROVE p \in Range(f) \cup Range(s)
    <3>1. PICK i \in 1..Len(t) : p = t[i]
      BY <1>1 DEF Range
    <3>2. CASE i <= Len(f)
      <4>1. i \in DOMAIN f /\ p = f[i]
        BY <1>1, <3>1, <3>2
      <4> QED BY <4>1 DEF Range
    <3>3. CASE ~(i <= Len(f))
      <4>1. i - Len(f) \in DOMAIN s /\ p = s[i - Len(f)]
        BY <1>1, <3>1, <3>3
      <4> QED BY <4>1 DEF Range
    <3> QED BY <3>2, <3>3
  <2>2. \A p \in Range(f) : p \in Range(t)
    BY <1>1 DEF Range
  <2>3. ASSUME NEW p \in Range(s) PROVE p \in Range(t)
    <3>1. PICK i \in 1..Len(s) : p = s[i]
      BY <1>1 DEF Range
    <3>2. i + Len(f) \in 1..Len(t) /\ ~(i + Len(f) <= Len(f)) /\ (i + Len(f)) - Len(f) = i
      BY <1>1
    <3>3. t[i + Len(f)] = s[i]
      BY <1>1, <3>2
    <3> QED BY <1>1, <3>1, <3>2, <3>3 DEF Range
  <2> QED BY <2>1, <2>2, <2>3
<1>6. IsInjective(t)
  <2>1. SUFFICES ASSUME NEW i \in 1..Len(t), NEW j \in 1..Len(t), t[i] = t[j] PROVE i = j
    BY <1>1 DEF IsInjective
  <2>2. CASE i <= Len(f) /\ j <= Len(f)
    BY <1>1, <1>2, <2>1, <2>2 DEF IsInjective
  <2>3. CASE ~(i <= Len(f)) /\ ~(j <= Len(f))
    <3>1. i - Len(f) \in DOMAIN s /\ j - Len(f) \in DOMAIN s
      BY <1>1, <2>3
    <3>2. s[i - Len(f)] = s[j - Len(f)]
      BY <1>1, <2>1, <2>3
    <3>3. i - Len(f) = j - Len(f)
      BY <3>1, <3>2 DEF IsInjective
    <3> QED BY <1>1, <3>3
  <2>4. ASSUME NEW k \in DOMAIN f, NEW l \in DOMAIN s PROVE f[k] # s[l]
    BY <1>3, <1>4
  <2>5. CASE i <= Len(f) /\ ~(j <= Len(f))
    <3>1. i \in DOMAIN f /\ j - Len(f) \in DOMAIN s
      BY <1>1, <2>5
    <3> QED BY <1>1, <2>1, <2>4, <2>5, <3>1
  <2>6. CASE ~(i <= Len(f)) /\ j <= Len(f)
    <3>1. j \in DOMAIN f /\ i - Len(f) \in DOMAIN s
      BY <1>1, <2>6
    <3> QED BY <1>1, <2>1, <2>4, <2>6, <3>1
  <2> QED BY <2>2, <2>3, <2>5, <2>6
<1>7. Range(h) = Range(s) \cup Range(h2)
  BY DEF Range
<1>8. Range(s) \cap Range(h2) = {}
  <2>1. \A x \in X, y \in DOMAIN h2 : h[x] # h2[y]
    BY <1>2 DEF IsInjective
  <2> QED BY <2>1 DEF Range
<1>9. IsInjective(h2)
  BY <1>2 DEF IsInjective
<1> QED BY <1>1, <1>2, <1>5, <1>6, <1>7, <1>8, <1>9 DEF Apart, t

(* The pages of some entries of h become the new entries of g.             *)
LEMMA CachedPages ==
  ASSUME NEW f, NEW g, NEW h, Apart(f, g, h),
         NEW g2, DOMAIN g \subseteq DOMAIN g2, \A x \in DOMAIN g : g2[x] = g[x],
         \A x, y \in DOMAIN g2 \ DOMAIN g : g2[x] = g2[y] => x = y,
         NEW h2, DOMAIN h2 \subseteq DOMAIN h, \A x \in DOMAIN h2 : h2[x] = h[x],
         \A x \in DOMAIN g2 \ DOMAIN g : \E y \in DOMAIN h \ DOMAIN h2 : g2[x] = h[y],
         \A y \in DOMAIN h \ DOMAIN h2 : \E x \in DOMAIN g2 \ DOMAIN g : g2[x] = h[y]
  PROVE  Apart(f, g2, h2)
<1> DEFINE N == {g2[x] : x \in DOMAIN g2 \ DOMAIN g}
           X == DOMAIN h \ DOMAIN h2
<1>0. N = {h[x] : x \in X}
  OBVIOUS
<1>1. Range(g2) = Range(g) \cup N
  BY DEF Range
<1>2. Range(h) = N \cup Range(h2)
  BY <1>0 DEF Range
<1>3. N \cap Range(h2) = {}
  BY <1>0 DEF Range, IsInjective, Apart
<1>4. IsInjective(h2)
  BY DEF IsInjective, Apart
<1>5. N \cap Range(g) = {}
  BY <1>2 DEF Apart
<1>6. IsInjective(g2)
  <2>1. SUFFICES ASSUME NEW x \in DOMAIN g2, NEW y \in DOMAIN g2, g2[x] = g2[y] PROVE x = y
    BY DEF IsInjective
  <2>2. CASE x \in DOMAIN g /\ y \in DOMAIN g
    BY <2>1, <2>2 DEF Apart, IsInjective
  <2>3. CASE x \notin DOMAIN g /\ y \notin DOMAIN g
    BY <2>1, <2>3
  <2>4. CASE x \in DOMAIN g /\ y \notin DOMAIN g
    <3>1. g2[x] \in Range(g) /\ g2[y] \in N
      BY <2>4 DEF Range
    <3> QED BY <1>5, <2>1, <3>1
  <2>5. CASE x \notin DOMAIN g /\ y \in DOMAIN g
    <3>1. g2[y] \in Range(g) /\ g2[x] \in N
      BY <2>5 DEF Range
    <3> QED BY <1>5, <2>1, <3>1
  <2> QED BY <2>2, <2>3, <2>4, <2>5
<1> HIDE DEF N
<1> QED BY <1>1, <1>2, <1>3, <1>4, <1>5, <1>6 DEF Apart

(* The first n pages of a list become the new entries of h.                *)
LEMMA TakenPages ==
  ASSUME NEW f \in Seq(Pages), NEW g, NEW h, Apart(f, g, h), NEW n \in 0..Len(f),
         NEW h2, DOMAIN h \subseteq DOMAIN h2, \A x \in DOMAIN h : h2[x] = h[x],
         \A x, y \in DOMAIN h2 \ DOMAIN h : h2[x] = h2[y] => x = y,
         {h2[x] : x \in DOMAIN h2 \ DOMAIN h} = {f[i] : i \in 1..n}
  PROVE  /\ SubSeq(f, n + 1, Len(f)) \in Seq(Pages)
         /\ Apart(SubSeq(f, n + 1, Len(f)), g, h2)
<1> DEFINE t == SubSeq(f, n + 1, Len(f))
           N == {h2[x] : x \in DOMAIN h2 \ DOMAIN h}
<1>1. /\ t \in Seq(Pages) /\ Len(t) = Len(f) - n /\ Len(f) \in Nat
      /\ DOMAIN f = 1..Len(f) /\ DOMAIN t = 1..Len(t)
      /\ \A i \in 1..Len(t) : t[i] = f[n + i]
  BY SMTT(30)
<1> HIDE DEF t
<1>2. \A i \in 1..Len(t) : n + i \in DOMAIN f
  BY <1>1
<1>2a. N = {f[i] : i \in 1..n}
  OBVIOUS
<1>3. Range(t) \cap N = {}
  <2>1. ASSUME NEW i \in 1..Len(t), NEW j \in 1..n PROVE t[i] # f[j]
    <3>1. n + i \in DOMAIN f /\ j \in DOMAIN f /\ n + i # j
      BY <1>1
    <3>2. f[n + i] # f[j]
      BY <3>1 DEF Apart, IsInjective
    <3> QED BY <1>1, <3>2
  <2>2. \A p \in Range(t) : \E i \in 1..Len(t) : p = t[i]
    BY <1>1 DEF Range
  <2>3. \A p \in N : \E j \in 1..n : p = f[j]
    OBVIOUS
  <2> HIDE DEF N
  <2> QED BY <2>1, <2>2, <2>3
<1>4. Range(f) = Range(t) \cup N
  <2>1. ASSUME NEW p \in Range(t) PROVE p \in Range(f)
    <3>1. PICK i \in 1..Len(t) : p = t[i]
      BY <1>1 DEF Range
    <3>2. p = f[n + i] /\ n + i \in DOMAIN f
      BY <1>1, <1>2, <3>1
    <3> QED BY <3>2 DEF Range
  <2>2. ASSUME NEW p \in N PROVE p \in Range(f)
    <3>1. PICK i \in 1..n : p = f[i]
      BY <1>2a
    <3>2. i \in DOMAIN f
      BY <1>1
    <3> QED BY <3>1, <3>2 DEF Range
  <2>3. ASSUME NEW i \in DOMAIN f PROVE f[i] \in Range(t) \cup N
    <3>1. CASE i <= n
      BY <1>1, <3>1
    <3>2. CASE ~(i <= n)
      <4>1. i - n \in 1..Len(t) /\ t[i - n] = f[i]
        BY <1>1, <3>2
      <4> QED BY <1>1, <4>1 DEF Range
    <3> QED BY <3>1, <3>2
  <2> HIDE DEF N
  <2>4. \A p \in Range(f) : \E i \in DOMAIN f : p = f[i]
    BY DEF Range
  <2> QED BY <2>1, <2>2, <2>3, <2>4
<1>5. IsInjective(t)
  <2>1. SUFFICES ASSUME NEW i \in 1..Len(t), NEW j \in 1..Len(t), t[i] = t[j] PROVE i = j
    BY <1>1 DEF IsInjective
  <2>2. n + i \in DOMAIN f /\ n + j \in DOMAIN f /\ f[n + i] = f[n + j]
    BY <1>1, <1>2, <2>1
  <2>3. n + i = n + j
    BY <2>2 DEF Apart, IsInjective
  <2> QED BY <1>1, <2>3
<1>6. Range(h2) = Range(h) \cup N /\ N \cap Range(h) = {}
  BY <1>4 DEF Range, Apart
<1>7. IsInjective(h2)
  <2>1. SUFFICES ASSUME NEW x \in DOMAIN h2, NEW y \in DOMAIN h2, h2[x] = h2[y] PROVE x = y
    BY DEF IsInjective
  <2>2. CASE x \in DOMAIN h /\ y \in DOMAIN h
    BY <2>1, <2>2 DEF Apart, IsInjective
  <2>3. CASE x \notin DOMAIN h /\ y \notin DOMAIN h
    BY <2>1, <2>3
  <2>4. CASE x \in DOMAIN h /\ y \notin DOMAIN h
    <3>1. h2[x] \in Range(h) /\ h2[y] \in N
      BY <2>4 DEF Range
    <3> QED BY <1>6, <2>1, <3>1
  <2>5. CASE x \notin DOMAIN h /\ y \in DOMAIN h
    <3>1. h2[y] \in Range(h) /\ h2[x] \in N
      BY <2>5 DEF Range
    <3> QED BY <1>6, <2>1, <3>1
  <2> QED BY <2>2, <2>3, <2>4, <2>5
<1> HIDE DEF N
<1>8. Apart(t, g, h2)
  BY <1>3, <1>4, <1>5, <1>6, <1>7 DEF Apart
<1> QED BY <1>1, <1>8 DEF t

(* Sets that grow along an order of S number its elements from 1.          *)
LEMMA RanksCount ==
  ASSUME NEW S, IsFiniteSet(S), NEW low \in [S -> SUBSET S],
         \A x \in S : x \in low[x],
         \A x, y \in S : x # y => \/ low[x] \subseteq low[y] /\ y \notin low[x]
                                  \/ low[y] \subseteq low[x] /\ x \notin low[y],
         NEW rank, rank = [x \in S |-> Cardinality(low[x])]
  PROVE  /\ Cardinality(S) \in Nat /\ rank \in [S -> 1..Cardinality(S)]
         /\ \A x, y \in S : rank[x] = rank[y] => x = y
         /\ \A k \in 1..Cardinality(S) : \E x \in S : rank[x] = k
<1> DEFINE n == Cardinality(S)
<1>1. n \in Nat
  BY FS_CardinalityType
<1>2. ASSUME NEW x \in S PROVE IsFiniteSet(low[x]) /\ Cardinality(low[x]) \in 1..n
  <2>1. IsFiniteSet(low[x]) /\ Cardinality(low[x]) <= n
    BY FS_Subset
  <2>2. Cardinality(low[x]) \in Nat /\ low[x] # {}
    BY <2>1, FS_CardinalityType
  <2>3. Cardinality(low[x]) # 0
    BY <2>1, <2>2, FS_EmptySet
  <2> QED BY <1>1, <2>1, <2>2, <2>3
<1> HIDE DEF n
<1>3. ASSUME NEW x \in S, NEW y \in S, low[x] \subseteq low[y], y \notin low[x]
      PROVE  rank[x] # rank[y]
  <2>1. low[x] # low[y]
    BY <1>3
  <2> QED BY <1>2, <1>3, <2>1, FS_Subset
<1>4. rank \in [S -> 1..n]
  BY <1>2
<1>5. \A x, y \in S : rank[x] = rank[y] => x = y
  BY <1>3
<1>6. \A k \in 1..n : \E x \in S : rank[x] = k
  <2>1. rank \in Injection(S, 1..n)
    BY <1>4, <1>5 DEF Injection, IsInjective
  <2>2. IsFiniteSet(1..n) /\ Cardinality(1..n) = n
    BY <1>1, FS_Interval
  <2>3. rank \in Surjection(S, 1..n)
    BY <2>1, <2>2, FS_Injection DEF n
  <2> QED BY <2>3 DEF Surjection
<1> QED BY <1>1, <1>4, <1>5, <1>6 DEF n
-----------------------------------------------------------------------------
(* The row of an admitted request.                                         *)
LEMMA OwnerRows ==
  ASSUME SlotInv, HostInv, NEW u \in owners
  PROVE  /\ u \in Reqs /\ req[u].slot \in Slots /\ IsReq(req[u])
         /\ \A v \in owners : req[v].slot = req[u].slot => v = u
         /\ req[u].handle \in Seq(Token) /\ Len(req[u].handle) \in Nat /\ req[u].clen \in Nat
         /\ PagesDown(Len(req[u].handle)) \in Nat
         /\ PagesUp(req[u].clen) \in Nat /\ PagesUp(MaxSeqLen) \in Nat
         /\ PagesUp(req[u].clen) <= PagesUp(MaxSeqLen)
         /\ PagesDown(Len(req[u].handle)) <= PagesUp(req[u].clen)
<1>1. /\ u \in Reqs /\ req[u].slot \in Slots /\ IsReq(req[u]) /\ req[u].clen \in Nat
      /\ \A v \in owners : req[v].slot = req[u].slot => v = u
  BY DEF SlotInv, LoopTypes, SlotPartition
<1>2. /\ req[u].handle \in Seq(Token) /\ req[u].clen <= MaxSeqLen
      /\ Len(req[u].handle) <= req[u].clen
  BY DEF HostInv, HostTokens, Fits
<1>3. MaxSeqLen \in Nat /\ Len(req[u].handle) \in Nat
  BY <1>1, <1>2, LengthTypes, LenProperties
<1>4. /\ PagesDown(Len(req[u].handle)) \in Nat
      /\ PagesUp(req[u].clen) \in Nat /\ PagesUp(MaxSeqLen) \in Nat
  BY <1>1, <1>3, RoundedPages, WholePages
<1>5. /\ PagesUp(req[u].clen) <= PagesUp(MaxSeqLen)
      /\ PagesDown(Len(req[u].handle)) <= PagesUp(req[u].clen)
  BY <1>1, <1>2, <1>3, PagesGrow
<1> QED BY <1>1, <1>2, <1>3, <1>4, <1>5

(* The row entries of all, when no row, length or handle changes.          *)
LEMMA SameRows ==
  ASSUME owners' = owners, table' = table,
         \A u \in owners : /\ req'[u].slot = req[u].slot /\ req'[u].clen = req[u].clen
                           /\ req'[u].handle = req[u].handle
  PROVE  RowPage' = RowPage
<1>1. \A u \in owners : Private(u)' = Private(u)
  BY DEF Private
<1>2. Places' = Places
  BY <1>1 DEF Places
<1>3. \A x \in Places : x[1] \in owners
  BY DEF Places
<1> QED BY <1>2, <1>3 DEF RowPage

(* The entries lo+1 .. hi that u owns alone.                               *)
LEMMA RowSegment ==
  ASSUME SlotInv, HostInv, PagesInv, NEW u \in owners, NEW lo \in Nat, NEW hi \in Nat,
         PagesDown(Len(req[u].handle)) <= lo, hi <= PagesUp(req[u].clen), lo <= hi
  PROVE  LET s == SubSeq(table[req[u].slot], lo + 1, hi)
             X == {<<u, j>> : j \in (lo + 1)..hi}
         IN  /\ s \in Seq(Pages) /\ IsInjective(s)
             /\ X \subseteq Places
             /\ Range(s) = {RowPage[x] : x \in X}
<1> DEFINE row == table[req[u].slot]
           s   == SubSeq(row, lo + 1, hi)
           X   == {<<u, j>> : j \in (lo + 1)..hi}
           a   == PagesDown(Len(req[u].handle))
           z   == PagesUp(req[u].clen)
           w   == PagesUp(MaxSeqLen)
<1>1. /\ a \in Nat /\ z \in Nat /\ w \in Nat /\ z <= w /\ req[u].slot \in Slots
  BY OwnerRows
<1>2. row \in [1..w -> Pages]
  BY <1>1 DEF PagesInv, Row
<1>3. Private(u) = (a + 1)..z /\ Row = 1..w
  BY DEF Private, Row
<1> HIDE DEF row, a, z, w
<1>4. \A j \in (lo + 1)..hi : j \in Row /\ j \in Private(u) /\ j \in Nat
  BY <1>1, <1>3 DEF a, z
<1>5. \A j \in (lo + 1)..hi : <<u, j>> \in Places
  BY <1>4 DEF Places
<1>6. \A j \in (lo + 1)..hi : RowPage[<<u, j>>] = row[j]
  BY <1>5 DEF RowPage, row
<1>7. row \in Seq(Pages) /\ Len(row) = w
  BY <1>1, <1>2
<1>8. /\ s \in Seq(Pages) /\ Len(s) = hi - lo /\ DOMAIN s = 1..(hi - lo)
      /\ \A i \in 1..(hi - lo) : s[i] = row[lo + i] /\ lo + i \in (lo + 1)..hi
  BY <1>1, <1>7 DEF z
<1> HIDE DEF s
<1>9. IsInjective(RowPage) /\ DOMAIN RowPage = Places
  BY DEF PagesInv, Apart, RowPage
<1>10. IsInjective(s)
  <2>1. SUFFICES ASSUME NEW i \in 1..(hi - lo), NEW j \in 1..(hi - lo), s[i] = s[j]
                 PROVE  i = j
    BY <1>8 DEF IsInjective
  <2>2. RowPage[<<u, lo + i>>] = RowPage[<<u, lo + j>>]
    BY <1>6, <1>8, <2>1
  <2>3. <<u, lo + i>> = <<u, lo + j>>
    BY <1>5, <1>8, <1>9, <2>2 DEF IsInjective
  <2>4. lo + i = lo + j
    BY <2>3
  <2> QED BY <2>4
<1>11. Range(s) = {RowPage[x] : x \in X}
  <2>1. ASSUME NEW i \in DOMAIN s PROVE \E x \in X : s[i] = RowPage[x]
    BY <1>6, <1>8
  <2>2. ASSUME NEW j \in (lo + 1)..hi PROVE \E i \in DOMAIN s : RowPage[<<u, j>>] = s[i]
    <3>1. j - lo \in 1..(hi - lo) /\ lo + (j - lo) = j
      OBVIOUS
    <3>2. s[j - lo] = row[j]
      BY <1>8, <3>1
    <3> QED BY <1>6, <1>8, <3>1, <3>2
  <2> QED BY <2>1, <2>2 DEF Range
<1> QED BY <1>5, <1>8, <1>10, <1>11 DEF s, row
-----------------------------------------------------------------------------
(* The page boundaries cache_req works with: of the handle (Held), of the  *)
(* prefix that was cached already (KnownPages), of the prefix that is      *)
(* cached afterwards (CachedTo), of the computed tokens (TailEnd).         *)
Held(r)       == PagesDown(Len(r.handle))
KnownPages(r) == PagesDown(KnownLen(r))
CachedTo(r)   == PagesDown(Len(NewHandle(r)))
TailEnd(r)    == PagesUp(r.clen)

(* A Req as cache_req gets it: of an admitted request u, perhaps with one  *)
(* more token.                                                             *)
CacheableReq(u, r) ==
  /\ r.slot = req[u].slot /\ r.handle = req[u].handle /\ r.clen = req[u].clen
  /\ r.ids \in Seq(Token) /\ r.clen \in Nat /\ r.clen <= Len(r.ids)
  /\ IsPrefix(req[u].ids, r.ids)

(* What the handle covers is known to the cache, what the cache knows of   *)
(* the tokens is cached afterwards, and no more than was computed.         *)
LEMMA BoundariesOrder ==
  ASSUME SlotInv, HostInv, LockInv, NEW u \in owners, NEW r, CacheableReq(u, r)
  PROVE  /\ Held(r) \in Nat /\ KnownPages(r) \in Nat /\ CachedTo(r) \in Nat /\ TailEnd(r) \in Nat
         /\ Held(r) <= KnownPages(r) /\ KnownPages(r) <= CachedTo(r)
         /\ CachedTo(r) <= TailEnd(r)
         /\ FreedKnown(r) = SubSeq(table[r.slot], Held(r) + 1, KnownPages(r))
         /\ FreedTail(r) = SubSeq(table[r.slot], CachedTo(r) + 1, TailEnd(r))
         /\ CacheType = "naive" => KnownPages(r) = 0 /\ CachedTo(r) = 0
         /\ CacheType # "naive" =>
              /\ CachedTo(r) = PagesDown(Len(InsertIds(r)))
              /\ \A j \in 1..CachedTo(r) :
                   SubSeq(InsertIds(r), 1, j * PageSize) \in Cached(kv) <=> j <= KnownPages(r)
<1> DEFINE ids == InsertIds(r)
           d   == PagesDown(Len(ids))
           h   == r.handle
<1>1. /\ ids \in Seq(Token) /\ Len(ids) = r.clen /\ IsPrefix(ids, r.ids)
      /\ NewHandle(r) \in Seq(Token) /\ Whole(NewHandle(r)) /\ Len(NewHandle(r)) <= r.clen
  BY CachedIds, Zenon DEF CacheableReq
<1>2. /\ h \in Seq(Token) /\ Whole(h) /\ Len(h) <= r.clen /\ IsPrefix(h, r.ids)
      /\ r.clen \in Nat
  <2>1. Fits(req[u]) /\ r.handle = req[u].handle /\ r.clen = req[u].clen
        /\ IsPrefix(req[u].ids, r.ids) /\ r.ids \in Seq(Token) /\ r.clen \in Nat
    BY DEF HostInv, HostTokens, CacheableReq
  <2>2. IsPrefix(req[u].handle, r.ids)
    BY <2>1, PrefixTransitive, Zenon DEF Fits
  <2> QED BY <2>1, <2>2 DEF Fits
<1>3. PICK m \in 0..d :
        /\ Len(MatchPrefix(kv, ids)) = m * PageSize
        /\ \A k \in 0..d : k <= m <=> \A j \in 1..k : SubSeq(ids, 1, j * PageSize) \in Cached(kv)
  BY <1>1, MatchedHandle, Zenon
<1>4. PICK a \in Nat : Len(h) = a * PageSize
  BY <1>2 DEF Whole
<1>5. PICK n \in Nat : Len(NewHandle(r)) = n * PageSize
  BY <1>1 DEF Whole
<1>6. d \in Nat /\ \A k \in Nat : k * PageSize <= r.clen <=> k <= d
  BY <1>1, <1>2, WholePages
<1>7. /\ Held(r) = a /\ PagesUp(Len(h)) = a
      /\ KnownPages(r) = m /\ PagesUp(KnownLen(r)) = m
      /\ CachedTo(r) = n
  <2>1. KnownLen(r) = m * PageSize
    BY <1>3 DEF KnownLen
  <2> QED BY <1>3, <1>4, <1>5, <1>6, <2>1, WholePagesRound DEF Held, KnownPages, CachedTo
<1>8. TailEnd(r) \in Nat
  BY <1>2, RoundedPages DEF TailEnd
<1>9. FreedKnown(r) = SubSeq(table[r.slot], a + 1, m)
  BY <1>7 DEF FreedKnown, RowPages, Held
<1>10. FreedTail(r) = SubSeq(table[r.slot], n + 1, TailEnd(r))
  BY <1>7 DEF FreedTail, RowPages, CachedTo, TailEnd
<1>11. n <= TailEnd(r)
  <2>1. Len(NewHandle(r)) \in Nat
    BY <1>1, LenProperties
  <2>2. PagesDown(Len(NewHandle(r))) <= PagesUp(r.clen)
    BY <1>1, <1>2, <2>1, PagesGrow
  <2> QED BY <1>7, <2>2 DEF CachedTo, TailEnd
<1>12. a <= m
  <2>1. a <= d
    BY <1>2, <1>4, <1>6
  <2>2. ASSUME NEW j \in 1..a PROVE SubSeq(ids, 1, j * PageSize) \in Cached(kv)
    <3>1. /\ j \in Nat \ {0} /\ j * PageSize \in Nat /\ j * PageSize <= Len(h)
          /\ j * PageSize <= Len(ids)
      <4>1. j * PageSize \in Nat /\ j * PageSize <= a * PageSize
        BY PageProducts
      <4>2. j * PageSize <= r.clen
        BY <1>6, <2>1
      <4> QED BY <1>1, <1>4, <4>1, <4>2
    <3> DEFINE p == SubSeq(ids, 1, j * PageSize)
    <3>2. Len(ids) \in Nat /\ Len(h) \in Nat
      BY <1>1, <1>2, LenProperties
    <3>3. j * PageSize \in 0..Len(ids)
      BY <3>1, <3>2
    <3>4. p \in Seq(Token) /\ Len(p) = j * PageSize /\ IsPrefix(p, ids)
      BY <1>1, <3>3, FirstPart
    <3>5. p \in Aligned(Token)
      BY <3>1, <3>4 DEF Aligned
    <3> HIDE DEF p
    <3>6. r.ids \in Seq(Token)
      BY DEF CacheableReq
    <3>7. IsPrefix(p, r.ids)
      BY <1>1, <3>4, <3>6, PrefixTransitive, Zenon
    <3>8. IsPrefix(p, h)
      BY <1>2, <3>1, <3>4, <3>6, <3>7, PrefixesCompare
    <3>9. p \in PagePrefixes(h)
      BY <1>2, <3>5, <3>8, PagePrefixesAre, Zenon
    <3>10. PagePrefixes(req[u].handle) \subseteq Cached(kv)
      <4>1. u \in DOMAIN Handles /\ Handles[u] = req[u].handle
        BY DEF Handles
      <4>2. \A q \in DOMAIN Handles : PagePrefixes(Handles[q]) \subseteq Cached(kv)
        BY SoundParts, Zenon DEF LockInv
      <4>3. PagePrefixes(Handles[u]) \subseteq Cached(kv)
        BY <4>1, <4>2
      <4> QED BY <4>1, <4>3
    <3>11. h = req[u].handle
      BY DEF CacheableReq
    <3> QED BY <3>9, <3>10, <3>11 DEF p
  <2>3. a \in 0..d
    BY <1>6, <2>1
  <2> QED BY <1>3, <2>2, <2>3
<1>13. CASE CacheType = "naive"
  <2>1. NewHandle(r) = <<>>
    BY <1>13 DEF NewHandle, InsertedHandle
  <2>2. n = 0
    <3>1. Len(NewHandle(r)) = 0
      BY <2>1
    <3>2. n > 0 => n * PageSize > 0
      BY PageProducts
    <3> QED BY <1>5, <3>1, <3>2
  <2>3. Cached(kv) = {}
    BY <1>13, SoundParts, Zenon DEF LockInv
  <2>4. m = 0
    <3>1. SUFFICES ASSUME m # 0 PROVE FALSE
      OBVIOUS
    <3>2. m \in 0..d /\ m <= m /\ 1 \in 1..m
      BY <1>3, <1>6, <3>1
    <3>3. SubSeq(ids, 1, 1 * PageSize) \in Cached(kv)
      BY <1>3, <3>2
    <3> QED BY <2>3, <3>3
  <2> QED BY <1>3, <1>6, <1>7, <1>8, <1>9, <1>10, <1>11, <1>12, <1>13, <2>2, <2>4
<1>14. CASE CacheType # "naive"
  <2>1. n = d
    <3>1. Len(NewHandle(r)) = d * PageSize
      <4>1. NewHandle(r) = SubSeq(ids, 1, d * PageSize)
        BY <1>14 DEF NewHandle, InsertedHandle
      <4>2. d * PageSize \in 0..Len(ids)
        BY <1>1, <1>2, <1>6, PageProducts
      <4> QED BY <1>1, <4>1, <4>2, FirstPart
    <3> QED BY <1>5, <1>6, <3>1, WholePagesRound
  <2>2. ASSUME NEW j \in 1..n
        PROVE  SubSeq(ids, 1, j * PageSize) \in Cached(kv) <=> j <= m
    <3> DEFINE p == SubSeq(ids, 1, j * PageSize)
    <3>1. ASSUME j <= m PROVE p \in Cached(kv)
      <4>1. m \in 0..d /\ m <= m /\ j \in 1..m
        BY <1>3, <1>6, <3>1
      <4> QED BY <1>3, <4>1
    <3>2. ASSUME p \in Cached(kv) PROVE j <= m
      <4>1. j \in 0..d
        BY <1>5, <1>6, <2>1
      <4>2. ASSUME NEW i \in 1..j PROVE SubSeq(ids, 1, i * PageSize) \in Cached(kv)
        <5> DEFINE q == SubSeq(ids, 1, i * PageSize)
        <5>1. i \in Nat \ {0} /\ j \in Nat /\ i <= j /\ i <= d /\ j <= d
          BY <1>5, <1>6, <2>1
        <5>2. /\ i * PageSize \in Nat /\ j * PageSize \in Nat
              /\ i * PageSize <= j * PageSize
              /\ i * PageSize <= r.clen /\ j * PageSize <= r.clen
          <6>1. i * PageSize \in Nat /\ j * PageSize \in Nat /\ i * PageSize <= j * PageSize
            BY <5>1, PageProducts
          <6>2. i * PageSize <= r.clen /\ j * PageSize <= r.clen
            BY <1>6, <5>1
          <6> QED BY <6>1, <6>2
        <5>3. i * PageSize \in 0..Len(ids) /\ j * PageSize \in 0..Len(ids)
          BY <1>1, <1>2, <5>2
        <5>4. /\ q \in Seq(Token) /\ Len(q) = i * PageSize /\ IsPrefix(q, ids)
              /\ p \in Seq(Token) /\ Len(p) = j * PageSize /\ IsPrefix(p, ids)
          BY <1>1, <5>3, FirstPart
        <5>5. q \in Aligned(Token)
          BY <5>1, <5>4 DEF Aligned
        <5>6. IsPrefix(q, p)
          <6> HIDE DEF q, p
          <6> QED BY <1>1, <5>2, <5>4, PrefixesCompare
        <5>7. q \in PagePrefixes(p)
          BY <5>4, <5>5, <5>6, PagePrefixesAre, Zenon
        <5>8. \A x \in Cached(kv) : PagePrefixes(x) \subseteq Cached(kv)
          BY SoundParts, Zenon DEF LockInv
        <5> QED BY <3>2, <5>7, <5>8
      <4> QED BY <1>3, <4>1, <4>2
    <3> QED BY <3>1, <3>2
  <2>3. m <= n
    BY <1>3, <1>6, <2>1
  <2> QED BY <1>3, <1>6, <1>7, <1>8, <1>9, <1>10, <1>11, <1>12, <1>14, <2>1, <2>2, <2>3
<1> QED BY <1>13, <1>14

(* The row entries left when u keeps those after entry n, or none.         *)
Keeps(u, n) == [x \in {y \in Places : y[1] = u => y[2] > n} |-> RowPage[x]]
Others(u)   == [x \in {y \in Places : y[1] # u} |-> RowPage[x]]

(* The pages insert_prefix takes into the cache are those of the entries   *)
(* after the known prefix.                                                 *)
LEMMA NewlyCached ==
  ASSUME SlotInv, HostInv, LockInv, NEW u \in owners, NEW r, CacheableReq(u, r),
         \A j \in (KnownPages(r) + 1)..CachedTo(r) : RowPage[<<u, j>>] = table[r.slot][j]
  PROVE  LET g == kv.page
             e == Inserted(r).page
             X == {<<u, j>> : j \in (KnownPages(r) + 1)..CachedTo(r)}
         IN  /\ DOMAIN g \subseteq DOMAIN e /\ \A p \in DOMAIN g : e[p] = g[p]
             /\ \A p \in DOMAIN e \ DOMAIN g :
                  \E j \in (KnownPages(r) + 1)..CachedTo(r) :
                    p = SubSeq(InsertIds(r), 1, j * PageSize) /\ e[p] = RowPage[<<u, j>>]
             /\ \A p \in DOMAIN e \ DOMAIN g : \E x \in X : e[p] = RowPage[x]
             /\ \A x \in X : \E p \in DOMAIN e \ DOMAIN g : e[p] = RowPage[x]
<1> DEFINE g   == kv.page
           e   == Inserted(r).page
           m   == KnownPages(r)
           n   == CachedTo(r)
           ids == InsertIds(r)
           at(j) == SubSeq(ids, 1, j * PageSize)
<1>1. /\ m \in Nat /\ n \in Nat /\ m <= n
      /\ CacheType = "naive" => m = 0 /\ n = 0
      /\ CacheType # "naive" =>
           /\ n = PagesDown(Len(ids))
           /\ \A j \in 1..n : at(j) \in Cached(kv) <=> j <= m
  BY BoundariesOrder, Zenon
<1>2. ids \in Seq(Token) /\ Len(ids) \in Nat
  BY CachedIds, LenProperties, Zenon DEF CacheableReq
<1>3. DOMAIN g = Cached(kv) /\ DOMAIN e = Cached(Inserted(r))
  BY DEF Cached
<1>4. DOMAIN g \subseteq DOMAIN e /\ \A p \in DOMAIN g : e[p] = g[p]
  BY <1>3, InsertedPages
<1>5. ASSUME NEW j \in (m + 1)..n, CacheType # "naive"
      PROVE  at(j) \in DOMAIN e \ DOMAIN g /\ e[at(j)] = RowPage[<<u, j>>]
  <2>1. j \in 1..n /\ ~(j <= m) /\ j \in 1..PagesDown(Len(ids)) /\ j \in Nat
    BY <1>1, <1>5
  <2>2. at(j) \in PagePrefixes(ids) /\ at(j) \notin Cached(kv)
    BY <1>1, <1>5, <2>1, ZenonT(40) DEF PagePrefixes
  <2>3. PagesDown(Len(at(j))) = j
    <3>1. n * PageSize <= Len(ids) /\ j * PageSize <= n * PageSize /\ j * PageSize \in Nat
          /\ n * PageSize \in Nat
      BY <1>1, <1>2, <1>5, <2>1, WholePages, PageProducts
    <3>2. j * PageSize \in 0..Len(ids)
      BY <1>2, <3>1
    <3> QED BY <1>2, <2>1, <3>2, FirstPart, WholePagesRound
  <2>4. at(j) \in Cached(Inserted(r)) /\ Inserted(r).page[at(j)] = table[r.slot][j]
    BY <1>5, <2>2, <2>3, InsertedPages, ZenonT(40)
  <2> QED BY <1>3, <2>2, <2>4
<1>6. ASSUME NEW p \in DOMAIN e \ DOMAIN g
      PROVE  CacheType # "naive" /\ \E j \in (m + 1)..n : p = at(j) /\ e[p] = RowPage[<<u, j>>]
  <2>1. CacheType # "naive"
    BY <1>3, <1>6, InsertedPages
  <2>2. p \in PagePrefixes(ids) /\ p \notin Cached(kv)
    BY <1>3, <1>6, <2>1, InsertedPages
  <2>3. PICK j \in 1..PagesDown(Len(ids)) : p = at(j)
    BY <2>2 DEF PagePrefixes
  <2>4. j \in (m + 1)..n
    BY <1>1, <2>1, <2>2, <2>3
  <2> QED BY <1>5, <2>1, <2>3, <2>4
<1> DEFINE X == {<<u, j>> : j \in (m + 1)..n}
<1>7. /\ \A p \in DOMAIN e \ DOMAIN g : \E x \in X : e[p] = RowPage[x]
      /\ \A x \in X : \E p \in DOMAIN e \ DOMAIN g : e[p] = RowPage[x]
  <2>1. ASSUME NEW j \in (m + 1)..n PROVE CacheType # "naive"
    BY <1>1, <2>1
  <2>2. \A p \in DOMAIN e \ DOMAIN g : \E x \in X : e[p] = RowPage[x]
    BY <1>6
  <2>3. \A x \in X : \E p \in DOMAIN e \ DOMAIN g : e[p] = RowPage[x]
    BY <1>5, <2>1
  <2> QED BY <2>2, <2>3
<1> QED BY <1>4, <1>6, <1>7

(* cache_req moves the pages of known prefixes to the free list, and those *)
(* after them into the cache; with the rest of the row freed, u keeps      *)
(* nothing.                                                                *)
LEMMA CacheReqMoves ==
  ASSUME SlotInv, HostInv, LockInv, PagesInv, NEW u \in owners, NEW r, CacheableReq(u, r)
  PROVE  /\ FreedKnown(r) \in Seq(Pages) /\ FreedTail(r) \in Seq(Pages)
         /\ Apart(FreePool \o FreedKnown(r), Released(r).page, Keeps(u, CachedTo(r)))
         /\ Apart((FreePool \o FreedKnown(r)) \o FreedTail(r), Released(r).page, Others(u))
<1> DEFINE a  == Held(r)
           m  == KnownPages(r)
           n  == CachedTo(r)
           z  == TailEnd(r)
           X1 == {<<u, j>> : j \in (a + 1)..m}
           X2 == {<<u, j>> : j \in (m + 1)..n}
           X3 == {<<u, j>> : j \in (n + 1)..z}
           e  == Inserted(r).page
           h1 == [x \in Places \ X1 |-> RowPage[x]]
<1>1. /\ a \in Nat /\ m \in Nat /\ n \in Nat /\ z \in Nat /\ a <= m /\ m <= n /\ n <= z
      /\ FreedKnown(r) = SubSeq(table[r.slot], a + 1, m)
      /\ FreedTail(r) = SubSeq(table[r.slot], n + 1, z)
  BY BoundariesOrder, Zenon
<1>2. /\ a = PagesDown(Len(req[u].handle)) /\ z = PagesUp(req[u].clen)
      /\ r.slot = req[u].slot
  BY DEF CacheableReq, Held, TailEnd
<1>3. Released(r).page = e
  <2>1. Released(r).page = Inserted(r).page
    BY CacheReqLocks, Zenon DEF CacheableReq
  <2> QED BY <2>1
<1> HIDE DEF a, m, n, z
<1>4. Apart(FreePool, kv.page, RowPage) /\ DOMAIN RowPage = Places /\ FreePool \in Seq(Pages)
  BY DEF PagesInv, RowPage, FreePool
<1>5. /\ FreedKnown(r) \in Seq(Pages) /\ IsInjective(FreedKnown(r))
      /\ X1 \subseteq Places /\ Range(FreedKnown(r)) = {RowPage[x] : x \in X1}
  <2>1. PagesDown(Len(req[u].handle)) <= a /\ m <= PagesUp(req[u].clen)
    BY <1>1, <1>2, SMTT(30)
  <2> DEFINE s == SubSeq(table[req[u].slot], a + 1, m)
  <2>2. /\ s \in Seq(Pages) /\ IsInjective(s)
        /\ X1 \subseteq Places /\ Range(s) = {RowPage[x] : x \in X1}
    BY <1>1, <2>1, RowSegment
  <2>3. FreedKnown(r) = s
    BY <1>1, <1>2
  <2> HIDE DEF s, X1
  <2> QED BY <2>2, <2>3
<1>6. X2 \subseteq Places /\ \A j \in (m + 1)..n : RowPage[<<u, j>>] = table[r.slot][j]
  <2>1. a <= m
    BY <1>1
  <2>2. X2 \subseteq Places
    BY <1>1, <1>2, <2>1, RowSegment
  <2>3. \A j \in (m + 1)..n : <<u, j>> \in Places
    BY <2>2
  <2> QED BY <1>2, <2>2, <2>3 DEF RowPage
<1>7. /\ FreedTail(r) \in Seq(Pages) /\ IsInjective(FreedTail(r))
      /\ X3 \subseteq Places /\ Range(FreedTail(r)) = {RowPage[x] : x \in X3}
  <2>1. PagesDown(Len(req[u].handle)) <= n /\ z <= PagesUp(req[u].clen)
    BY <1>1, <1>2, SMTT(30)
  <2> DEFINE s == SubSeq(table[req[u].slot], n + 1, z)
  <2>2. /\ s \in Seq(Pages) /\ IsInjective(s)
        /\ X3 \subseteq Places /\ Range(s) = {RowPage[x] : x \in X3}
    BY <1>1, <2>1, RowSegment
  <2>3. FreedTail(r) = s
    BY <1>1, <1>2
  <2> HIDE DEF s, X3
  <2> QED BY <2>2, <2>3
<1>8. /\ DOMAIN kv.page \subseteq DOMAIN e /\ \A p \in DOMAIN kv.page : e[p] = kv.page[p]
      /\ \A p \in DOMAIN e \ DOMAIN kv.page :
           \E j \in (m + 1)..n : p = SubSeq(InsertIds(r), 1, j * PageSize)
                                 /\ e[p] = RowPage[<<u, j>>]
      /\ \A p \in DOMAIN e \ DOMAIN kv.page : \E x \in X2 : e[p] = RowPage[x]
      /\ \A x \in X2 : \E p \in DOMAIN e \ DOMAIN kv.page : e[p] = RowPage[x]
  <2>1. \A j \in (KnownPages(r) + 1)..CachedTo(r) : RowPage[<<u, j>>] = table[r.slot][j]
    BY <1>6 DEF m, n
  <2> QED BY <2>1, NewlyCached DEF m, n
<1> HIDE DEF e
<1>9. \A i, j \in Nat : <<u, i>> = <<u, j>> => i = j
  OBVIOUS
<1>10. \A x \in Places : x = <<x[1], x[2]>>
  BY DEF Places
<1>11. \A j : <<u, j>> \in Places => j \in (a + 1)..z
  BY <1>2 DEF Places, Private
<1>12. X1 \cap X2 = {} /\ X1 \cap X3 = {} /\ X2 \cap X3 = {}
  BY <1>1
<1>13. FreePool \o FreedKnown(r) \in Seq(Pages) /\ Apart(FreePool \o FreedKnown(r), kv.page, h1)
  <2>1. DOMAIN h1 = DOMAIN RowPage \ X1 /\ \A x \in DOMAIN h1 : h1[x] = RowPage[x]
    BY <1>4
  <2> HIDE DEF h1, X1
  <2> QED BY <1>4, <1>5, <2>1, ListedPages
<1>14. Apart(FreePool \o FreedKnown(r), e, Keeps(u, n))
  <2>1. DOMAIN h1 = Places \ X1 /\ X2 \subseteq DOMAIN h1
    BY <1>6, <1>12
  <2>2. DOMAIN Keeps(u, n) = DOMAIN h1 \ X2
    <3>1. ASSUME NEW x \in Places PROVE (x[1] = u => x[2] > n) <=> x \notin X1 \cup X2
      <4>1. CASE x[1] # u
        BY <4>1
      <4>2. CASE x[1] = u
        <5>1. PICK j \in (a + 1)..z : x = <<u, j>>
          BY <1>10, <1>11, <4>2
        <5> QED BY <1>1, <5>1
      <4> QED BY <4>1, <4>2
    <3>2. DOMAIN Keeps(u, n) = {y \in Places : y[1] = u => y[2] > n}
      BY DEF Keeps
    <3> HIDE DEF X1, X2
    <3> QED BY <2>1, <3>1, <3>2
  <2>3. \A x \in DOMAIN Keeps(u, n) : Keeps(u, n)[x] = h1[x]
    <3>1. \A x \in DOMAIN Keeps(u, n) : x \in Places \ X1
      BY <2>1, <2>2
    <3> QED BY <3>1 DEF Keeps
  <2>4. \A x \in X2 : h1[x] = RowPage[x]
    BY <2>1
  <2>5. ASSUME NEW p \in DOMAIN e \ DOMAIN kv.page, NEW q \in DOMAIN e \ DOMAIN kv.page,
               e[p] = e[q]
        PROVE  p = q
    <3>1. PICK i \in (m + 1)..n : p = SubSeq(InsertIds(r), 1, i * PageSize)
                                  /\ e[p] = RowPage[<<u, i>>]
      BY <1>8
    <3>2. PICK j \in (m + 1)..n : q = SubSeq(InsertIds(r), 1, j * PageSize)
                                  /\ e[q] = RowPage[<<u, j>>]
      BY <1>8
    <3>3. <<u, i>> \in Places /\ <<u, j>> \in Places /\ i \in Nat /\ j \in Nat
      BY <1>1, <1>6
    <3>4. IsInjective(RowPage)
      BY <1>4 DEF Apart
    <3>5. <<u, i>> = <<u, j>>
      BY <1>4, <2>5, <3>1, <3>2, <3>3, <3>4, Zenon DEF IsInjective
    <3>6. i = j
      BY <1>9, <3>3, <3>5
    <3> QED BY <3>1, <3>2, <3>6
  <2> DEFINE f == FreePool \o FreedKnown(r)
             g == kv.page
             k == Keeps(u, n)
  <2>6. \A p, q \in DOMAIN e \ DOMAIN g : e[p] = e[q] => p = q
    BY <2>5
  <2>7. DOMAIN h1 \ DOMAIN k = X2 /\ DOMAIN k \subseteq DOMAIN h1
    <3>1. DOMAIN k = DOMAIN h1 \ X2 /\ X2 \subseteq DOMAIN h1
      BY <2>1, <2>2
    <3> HIDE DEF h1, X2, k
    <3> QED BY <3>1
  <2>8. /\ Apart(f, g, h1) /\ DOMAIN g \subseteq DOMAIN e /\ \A p \in DOMAIN g : e[p] = g[p]
        /\ \A x \in DOMAIN k : k[x] = h1[x]
    BY <1>8, <1>13, <2>3
  <2>9. /\ \A p \in DOMAIN e \ DOMAIN g : \E x \in X2 : e[p] = h1[x]
        /\ \A x \in X2 : \E p \in DOMAIN e \ DOMAIN g : e[p] = h1[x]
    <3> HIDE DEF h1, X2
    <3> QED BY <1>8, <2>4
  <2> HIDE DEF h1, X2, f, g, k
  <2>10. Apart(f, e, k)
    BY <2>6, <2>7, <2>8, <2>9, CachedPages
  <2> QED BY <2>10 DEF f, k
<1>15. Apart((FreePool \o FreedKnown(r)) \o FreedTail(r), e, Others(u))
  <2> DEFINE h2 == Keeps(u, n)
  <2>1. DOMAIN h2 = {y \in Places : y[1] = u => y[2] > n}
        /\ \A x \in DOMAIN h2 : h2[x] = RowPage[x]
    BY DEF Keeps
  <2>2. X3 \subseteq DOMAIN h2
    BY <1>1, <1>7, <2>1
  <2>3. DOMAIN Others(u) = DOMAIN h2 \ X3
    <3>1. ASSUME NEW x \in DOMAIN h2 PROVE x[1] # u <=> x \notin X3
      <4>1. CASE x[1] # u
        BY <4>1
      <4>2. CASE x[1] = u
        <5>0. x \in Places
          BY <2>1
        <5>1. PICK j \in (a + 1)..z : x = <<u, j>>
          BY <1>10, <1>11, <4>2, <5>0
        <5>2. j > n
          BY <2>1, <5>1
        <5> QED BY <1>1, <4>2, <5>1, <5>2
      <4> QED BY <4>1, <4>2
    <3>2. DOMAIN Others(u) = {y \in Places : y[1] # u}
      BY DEF Others
    <3> HIDE DEF h2, X3
    <3> QED BY <2>1, <3>1, <3>2
  <2>4. \A x \in DOMAIN Others(u) : Others(u)[x] = h2[x]
    BY <2>1, <2>3 DEF Others
  <2>5. Range(FreedTail(r)) = {h2[x] : x \in X3}
    BY <1>7, <2>1, <2>2
  <2> HIDE DEF h2, X3
  <2>6. Apart(FreePool \o FreedKnown(r), e, h2)
    BY <1>14 DEF h2
  <2> QED BY <1>7, <1>13, <2>2, <2>3, <2>4, <2>5, <2>6, ListedPages
<1> QED BY <1>3, <1>5, <1>7, <1>14, <1>15 DEF n
-----------------------------------------------------------------------------
(* Steps that move no page.                                                *)
LEMMA PagesStutter ==
  ASSUME PagesInv, UNCHANGED <<table, freePages, lazyFree, kv, owners>>,
         \A u \in owners : /\ req'[u].slot = req[u].slot /\ req'[u].clen = req[u].clen
                           /\ req'[u].handle = req[u].handle,
         pc' # "process" => pc # "process"
  PROVE  PagesInv'
<1>1. RowPage' = RowPage
  BY SameRows
<1> QED BY <1>1 DEF PagesInv, FreePool

(* The lazy free list joins the free list; the pool of both stays.         *)
LEMMA EndRoundKeepsPages ==
  ASSUME SlotInv, PagesInv, EndRound
  PROVE  PagesInv'
<1>1. /\ UNCHANGED <<table, kv, owners, req>> /\ lazyFree' = <<>>
      /\ freePages' = freePages \o lazyFree
  BY DEF EndRound, reqVars
<1>2. RowPage' = RowPage
  BY <1>1, SameRows
<1>3. freePages' \in Seq(Pages) /\ freePages' = FreePool
  BY <1>1 DEF PagesInv, FreePool
<1>4. FreePool' = FreePool
  BY <1>1, <1>3 DEF FreePool
<1>5. lazyFree' \in Seq(Pages)
  BY <1>1
<1> QED BY <1>1, <1>2, <1>3, <1>4, <1>5 DEF PagesInv

LEMMA QuietStepsKeepPages ==
  ASSUME SlotInv, PagesInv, BeginRound \/ EndRound \/ GpuRun \/ SkipChunk \/ Idle
  PROVE  PagesInv'
<1>1. CASE EndRound
  BY <1>1, EndRoundKeepsPages
<1>2. CASE GpuRun
  <2>1. UNCHANGED <<table, freePages, lazyFree, kv, owners, req, pc>>
    BY <1>2, GpuRunIs
  <2> QED BY <2>1, PagesStutter
<1>3. CASE BeginRound \/ SkipChunk \/ Idle
  <2>1. /\ UNCHANGED <<table, freePages, lazyFree, kv, owners, req>>
        /\ pc' # "process" => pc # "process"
    BY <1>3 DEF BeginRound, SkipChunk, Idle, Fail, reqVars, memVars, loopVars, vars
  <2> QED BY <2>1, PagesStutter
<1> QED BY <1>1, <1>2, <1>3

LEMMA FailKeepsPages ==
  ASSUME PagesInv, NEW a, Fail(a)
  PROVE  PagesInv'
<1>1. UNCHANGED <<table, freePages, lazyFree, kv, owners, req, pc>>
  BY DEF Fail, reqVars, memVars, loopVars
<1> QED BY <1>1, PagesStutter

(* An abort that frees u appends what cache_req frees to the free list.    *)
LEMMA RecvAbortKeepsPages ==
  ASSUME NoLateAbort, HoldInv, PagesInv, NEW u \in Reqs, RecvAbort(u)
  PROVE  PagesInv'
<1>1. SlotInv /\ MetInv /\ HostInv /\ LockInv
  BY DEF HoldInv
<1>2. /\ pc = "recv"
      /\ AbortFinds(u) => /\ u \in owners /\ req[u].ids \in Seq(Token) /\ req[u].clen \in Nat
                          /\ req[u].clen <= Len(req[u].ids)
      /\ IF AbortFinds(u)
         THEN /\ freePages' = freePages \o FreedKnown(req[u]) \o FreedTail(req[u])
              /\ kv' = Released(req[u])
              /\ owners' = owners \ {u}
         ELSE UNCHANGED <<freePages, kv, owners>>
      /\ UNCHANGED <<req, table, lazyFree>>
  BY <1>1, AbortIs
<1>3. CASE ~AbortFinds(u)
  <2>1. UNCHANGED <<table, freePages, lazyFree, kv, owners, req>> /\ pc' = pc
    BY <1>2, <1>3 DEF RecvAbort, Fail
  <2> QED BY <2>1, PagesStutter
<1>4. CASE AbortFinds(u)
  <2> DEFINE r == req[u]
             known == FreedKnown(r)
             tail  == FreedTail(r)
  <2>1. CacheableReq(u, r)
    <3>1. IsPrefix(req[u].ids, req[u].ids)
      BY <1>2, <1>4, PrefixPositions
    <3> QED BY <1>2, <1>4, <3>1 DEF CacheableReq
  <2>2. /\ known \in Seq(Pages) /\ tail \in Seq(Pages)
        /\ Apart((FreePool \o known) \o tail, Released(r).page, Others(u))
    BY <1>1, <1>2, <1>4, <2>1, CacheReqMoves, Zenon
  <2>3. freePages \in Seq(Pages) /\ lazyFree = <<>>
    BY <1>2 DEF PagesInv
  <2>4. /\ freePages' = (freePages \o known) \o tail /\ kv' = Released(r)
        /\ owners' = owners \ {u} /\ UNCHANGED <<req, table, lazyFree>>
    BY <1>2, <1>4
  <2>5. RowPage' = Others(u)
    <3>1. \A v : Private(v)' = Private(v)
      BY <2>4 DEF Private
    <3>2. Places' = {y \in Places : y[1] # u}
      BY <2>4, <3>1 DEF Places
    <3> QED BY <2>4, <3>2 DEF RowPage, Others
  <2> HIDE DEF known, tail
  <2>6. freePages' \in Seq(Pages) /\ FreePool' = (FreePool \o known) \o tail
    BY <2>2, <2>3, <2>4 DEF FreePool
  <2> HIDE DEF r
  <2>7. Apart(FreePool', kv'.page, RowPage')
    BY <2>2, <2>4, <2>5, <2>6
  <2> QED BY <2>3, <2>4, <2>6, <2>7 DEF PagesInv, Apart
<1> QED BY <1>3, <1>4

(* A finished request's pages go to the lazy free list; a prefill that     *)
(* goes on keeps those after its new handle.                               *)
LEMMA CompleteReqKeepsPages ==
  ASSUME HoldInv, PagesInv, CompleteReq
  PROVE  PagesInv'
<1>0. PICK u : u = Done
  OBVIOUS
<1> DEFINE r == DoneReq
           known == FreedKnown(r)
           tail  == FreedTail(r)
<1>1. SlotInv /\ MetInv /\ HostInv /\ LockInv
  BY DEF HoldInv
<1>2. /\ pc = "process" /\ todo.ran /\ todo.reqs # <<>> /\ ~Head(todo.reqs).chunk
      /\ DOMAIN req' = Reqs
      /\ \A v \in Reqs \ {u} : req'[v] = req[v]
      /\ req'[u].slot = req[u].slot /\ req'[u].clen = req[u].clen
      /\ req'[u].handle = IF DoneKeep THEN NewHandle(r) ELSE req[u].handle
      /\ kv' = CASE DoneFree -> Released(r)
                 [] DoneKeep -> LockHandle(Released(r), NewHandle(r))
                 [] OTHER -> kv
      /\ lazyFree' = CASE DoneFree -> lazyFree \o known \o tail
                       [] DoneKeep -> lazyFree \o known
                       [] OTHER -> lazyFree
      /\ owners' = IF DoneFree THEN owners \ {u} ELSE owners
      /\ UNCHANGED <<freePages, table, pc>>
  BY <1>0, <1>1, CompleteReqIs
<1>3. /\ DoneFree \/ DoneKeep => u \in owners
      /\ r.handle = req[u].handle /\ r.slot = req[u].slot
      /\ r.clen = req[u].clen /\ r.clen \in Nat
      /\ u \in owners => /\ r.ids \in Seq(Token) /\ r.clen <= Len(r.ids)
                         /\ IsPrefix(req[u].ids, r.ids)
  BY <1>0, <1>1, <1>2, DoneIs
<1> HIDE DEF r
<1>4. owners \subseteq Reqs
  BY <1>1 DEF SlotInv, LoopTypes
<1>5. CASE ~DoneFree /\ ~DoneKeep
  <2>1. \A v \in owners : /\ req'[v].slot = req[v].slot /\ req'[v].clen = req[v].clen
                          /\ req'[v].handle = req[v].handle
    BY <1>2, <1>4, <1>5
  <2>2. UNCHANGED <<table, freePages, lazyFree, kv, owners>> /\ pc' = pc
    BY <1>2, <1>5
  <2> QED BY <2>1, <2>2, PagesStutter
<1>6. CASE DoneFree \/ DoneKeep
  <2>1. u \in owners /\ CacheableReq(u, r)
    BY <1>3, <1>6 DEF CacheableReq
  <2>2. /\ known \in Seq(Pages) /\ tail \in Seq(Pages)
        /\ Apart(FreePool \o known, Released(r).page, Keeps(u, CachedTo(r)))
        /\ Apart((FreePool \o known) \o tail, Released(r).page, Others(u))
    BY <1>1, <2>1, CacheReqMoves, Zenon
  <2>3. freePages \in Seq(Pages) /\ lazyFree \in Seq(Pages)
    BY DEF PagesInv
  <2>4. \A v \in owners \ {u} : Private(v)' = Private(v) /\ req'[v] = req[v]
    BY <1>2, <1>4 DEF Private
  <2> HIDE DEF known, tail
  <2>5. CASE DoneFree
    <3>1. /\ lazyFree' = (lazyFree \o known) \o tail /\ kv' = Released(r)
          /\ owners' = owners \ {u} /\ UNCHANGED <<freePages, table, pc>>
      BY <1>2, <2>5 DEF known, tail, DoneKeep
    <3>2. Places' = {y \in Places : y[1] # u}
      BY <2>4, <3>1 DEF Places
    <3>3. RowPage' = Others(u)
      <4>1. \A y \in Places : y[1] \in owners
        BY DEF Places
      <4> QED BY <2>4, <3>1, <3>2, <4>1 DEF RowPage, Others
    <3>4. lazyFree' \in Seq(Pages) /\ FreePool' = (FreePool \o known) \o tail
      <4> DEFINE s == lazyFree \o known
      <4>1. s \in Seq(Pages) /\ freePages \o s = (freePages \o lazyFree) \o known
        BY <2>2, <2>3, ConcatAssociative, SMTT(30)
      <4> HIDE DEF s
      <4>2. s \o tail \in Seq(Pages) /\ freePages \o (s \o tail) = (freePages \o s) \o tail
        <5>1. s \o tail \in Seq(Pages)
          BY <2>2, <4>1
        <5>2. freePages \o (s \o tail) = (freePages \o s) \o tail
          <6>1. freePages \in Seq(Pages) /\ tail \in Seq(Pages) /\ s \in Seq(Pages)
            BY <2>2, <2>3, <4>1
          <6>2. (freePages \o s) \o tail = freePages \o (s \o tail)
            BY <6>1, ConcatAssociative
          <6> QED BY <6>2
        <5> QED BY <5>1, <5>2, Zenon
      <4>3. lazyFree' = s \o tail /\ freePages' = freePages
        BY <3>1 DEF s
      <4>4. FreePool' = freePages \o (s \o tail) /\ FreePool = freePages \o lazyFree
        BY <4>3, Zenon DEF FreePool
      <4> QED BY <4>1, <4>2, <4>3, <4>4, Zenon
    <3>5. Apart(FreePool', kv'.page, RowPage')
      BY <2>2, <3>1, <3>3, <3>4
    <3> QED BY <1>2, <3>1, <3>4, <3>5 DEF PagesInv, Apart
  <2>6. CASE ~DoneFree
    <3>1. DoneKeep /\ ~DoneFree
      BY <1>6, <2>6
    <3>2. /\ lazyFree' = lazyFree \o known /\ kv' = LockHandle(Released(r), NewHandle(r))
          /\ owners' = owners /\ UNCHANGED <<freePages, table, pc>>
          /\ req'[u].handle = NewHandle(r)
      BY <1>2, <3>1 DEF known
    <3>3. kv'.page = Released(r).page
      <4>1. /\ Sound(Token, Released(r), Without(Handles, u))
            /\ PagePrefixes(NewHandle(r)) \subseteq Cached(Released(r))
        BY <1>1, <2>1, CacheReqLocks, Zenon DEF CacheableReq
      <4>2. u \notin DOMAIN Without(Handles, u)
        BY DEF Without
      <4>3. NewHandle(r) \in Seq(Token)
        BY <2>1, CachedIds, Zenon DEF CacheableReq
      <4>4. LockHandle(Released(r), NewHandle(r)).page = Released(r).page
        BY <4>1, <4>2, <4>3, LockKeepsSound, Zenon
      <4> QED BY <3>2, <4>4
    <3>4. Private(u)' = {j \in Private(u) : j > CachedTo(r)}
      <4>1. Private(u)' = (CachedTo(r) + 1)..PagesUp(req[u].clen)
        BY <1>2, <3>2 DEF Private, CachedTo
      <4>2. /\ CachedTo(r) \in Nat /\ PagesDown(Len(req[u].handle)) \in Nat
            /\ PagesDown(Len(req[u].handle)) <= CachedTo(r) /\ PagesUp(req[u].clen) \in Nat
        <5>1. /\ Held(r) \in Nat /\ KnownPages(r) \in Nat /\ CachedTo(r) \in Nat
              /\ Held(r) <= KnownPages(r) /\ KnownPages(r) <= CachedTo(r)
              /\ TailEnd(r) \in Nat
          BY <1>1, <2>1, BoundariesOrder, Zenon
        <5>2. Held(r) = PagesDown(Len(req[u].handle)) /\ TailEnd(r) = PagesUp(req[u].clen)
          BY <2>1 DEF Held, TailEnd, CacheableReq
        <5> QED BY <5>1, <5>2
      <4> DEFINE a == PagesDown(Len(req[u].handle))
                 z == PagesUp(req[u].clen)
                 n == CachedTo(r)
      <4>3. Private(u) = (a + 1)..z
        BY DEF Private
      <4>4. Private(u)' = (n + 1)..z /\ n \in Nat /\ a \in Nat /\ z \in Nat /\ a <= n
        BY <4>1, <4>2
      <4> HIDE DEF a, z, n
      <4>5. (n + 1)..z = {j \in (a + 1)..z : j > n}
        BY <4>4
      <4> QED BY <4>3, <4>4, <4>5 DEF n
    <3>5. Places' = {y \in Places : y[1] = u => y[2] > CachedTo(r)}
      BY <2>4, <3>2, <3>4 DEF Places
    <3>6. RowPage' = Keeps(u, CachedTo(r))
      <4>1. \A y \in Places : y[1] \in owners
        BY DEF Places
      <4>2. \A v \in owners : req'[v].slot = req[v].slot
        BY <1>2, <2>4
      <4> QED BY <3>2, <3>5, <4>1, <4>2 DEF RowPage, Keeps
    <3>7. lazyFree' \in Seq(Pages) /\ FreePool' = FreePool \o known
      BY <2>2, <2>3, <3>2 DEF FreePool
    <3>8. Apart(FreePool', kv'.page, RowPage')
      BY <2>2, <3>3, <3>6, <3>7
    <3> QED BY <1>2, <3>2, <3>7, <3>8 DEF PagesInv, Apart
  <2> QED BY <2>5, <2>6
<1> QED BY <1>5, <1>6

LEMMA RecvUserKeepsPages ==
  ASSUME SlotInv, PagesInv, NEW u \in Reqs, RecvUser(u)
  PROVE  PagesInv'
<1>1. UNCHANGED <<table, freePages, lazyFree, kv, owners, req, pc>>
  BY DEF RecvUser, memVars, loopVars
<1> QED BY <1>1, PagesStutter

(* A further chunk keeps the row, the handle and the computed tokens.      *)
LEMMA AddChunkKeepsPages ==
  ASSUME SlotInv, PagesInv, NEW u \in Reqs, AddChunk(u)
  PROVE  PagesInv'
<1> DEFINE size == ChunkSize(u, req[u].clen)
           ids  == SubSeq(Prompt[u], 1, req[u].clen + size)
           dlen == req[u].clen + size
<1>1. /\ UNCHANGED <<table, freePages, lazyFree, kv, owners, pc>>
      /\ req' = [req EXCEPT ![u] = [slot |-> req[u].slot, ids |-> ids, clen |-> req[u].clen,
                                    dlen |-> dlen, handle |-> req[u].handle]]
  BY DEF AddChunk, AddOneReq
<1> HIDE DEF ids, dlen
<1>2. owners \subseteq Reqs /\ DOMAIN req = Reqs
  BY DEF SlotInv, LoopTypes
<1>3. \A v \in owners : /\ req'[v].slot = req[v].slot /\ req'[v].clen = req[v].clen
                        /\ req'[v].handle = req[v].handle
  BY <1>1, <1>2
<1> QED BY <1>1, <1>3, PagesStutter

(* A new request computes from a page boundary on: it owns no page yet,    *)
(* and its row, which nobody holds, names cached pages.                    *)
LEMMA AddNewKeepsPages ==
  ASSUME SlotInv, HostInv, LockInv, PagesInv, NEW u \in Reqs, AddNew(u)
  PROVE  PagesInv'
<1> DEFINE h    == MatchReq(u)
           slot == Last(freeSlots)
           size == ChunkSize(u, Len(h))
           ids  == SubSeq(Prompt[u], 1, Len(h) + size)
           dlen == Len(h) + size
           line == [i \in Row |-> IF i * PageSize <= Len(h)
                                  THEN kv.page[SubSeq(h, 1, i * PageSize)]
                                  ELSE table[slot][i]]
<1>1. /\ kv' = LockHandle(kv, h) /\ owners' = owners \cup {u} /\ freeSlots # <<>>
      /\ table' = [table EXCEPT ![slot] = line]
      /\ req' = [req EXCEPT ![u] = [slot |-> slot, ids |-> ids, clen |-> Len(h),
                                    dlen |-> dlen, handle |-> h]]
      /\ UNCHANGED <<freePages, lazyFree, pc>>
  BY DEF AddNew, AddOneReq, CanAdd, HasRoom
<1>2. u \notin owners
  BY AddNewKeepsLocks
<1>3. /\ h \in Seq(Token) /\ Whole(h) /\ Len(h) \in Nat /\ PagePrefixes(h) \subseteq Cached(kv)
  BY MatchedPrompt
<1>4. slot \in Slots /\ \A v \in owners : req[v].slot # slot
  <2>1. freeSlots \in Seq(Slots) /\ \A v \in owners : req[v].slot \notin ToSet(freeSlots)
    BY DEF SlotInv, LoopTypes, SlotPartition
  <2> QED BY <1>1, <2>1, FrontElements
<1>5. kv'.page = kv.page
  <2>1. u \notin DOMAIN Handles
    BY <1>2 DEF Handles
  <2> QED BY <1>1, <1>3, <2>1, LockKeepsSound, Zenon DEF LockInv
<1>6. line \in [Row -> Pages]
  <2>1. SUFFICES ASSUME NEW i \in Row, i * PageSize <= Len(h)
                 PROVE  kv.page[SubSeq(h, 1, i * PageSize)] \in Pages
    BY <1>4 DEF PagesInv
  <2>2. i \in Nat /\ i > 0
    BY DEF Row
  <2>3. i <= PagesDown(Len(h)) /\ PagesDown(Len(h)) \in Nat
    BY <1>3, <2>1, <2>2, WholePages
  <2>4. SubSeq(h, 1, i * PageSize) \in DOMAIN kv.page
    <3>1. i \in 1..PagesDown(Len(h))
      BY <2>2, <2>3
    <3> HIDE DEF h
    <3>2. SubSeq(h, 1, i * PageSize) \in PagePrefixes(h)
      BY <3>1 DEF PagePrefixes
    <3> QED BY <1>3, <3>2, Zenon DEF Cached
  <2>5. Range(kv.page) \subseteq Pages
    BY DEF PagesInv, Apart
  <2> QED BY <2>4, <2>5 DEF Range
<1> HIDE DEF h, slot, ids, dlen, line
<1>7. table' \in [Slots -> [Row -> Pages]]
  BY <1>1, <1>6 DEF PagesInv
<1>8. /\ req'[u].handle = h /\ req'[u].clen = Len(h)
      /\ \A v \in owners : req'[v] = req[v]
  BY <1>1, <1>2 DEF SlotInv, LoopTypes
<1>9. Private(u)' = {}
  <2>1. PICK k \in Nat : Len(h) = k * PageSize
    BY <1>3 DEF Whole
  <2>2. PagesDown(Len(h)) = k /\ PagesUp(Len(h)) = k
    BY <2>1, WholePagesRound
  <2>3. Private(u)' = (k + 1)..k
    BY <1>8, <2>2 DEF Private
  <2> QED BY <2>3
<1>10. \A v \in owners : Private(v)' = Private(v)
  BY <1>8 DEF Private
<1>11. Places' = Places
  BY <1>1, <1>9, <1>10 DEF Places
<1>12. RowPage' = RowPage
  <2>1. ASSUME NEW x \in Places
        PROVE  table'[req'[x[1]].slot][x[2]] = table[req[x[1]].slot][x[2]]
    <3>1. x[1] \in owners
      BY DEF Places
    <3>2. req'[x[1]].slot = req[x[1]].slot /\ req[x[1]].slot # slot
      BY <1>4, <1>8, <3>1
    <3>3. req[x[1]].slot \in Slots
      BY <3>1 DEF SlotInv, SlotPartition
    <3> QED BY <1>1, <3>2, <3>3 DEF PagesInv
  <2> QED BY <1>11, <2>1 DEF RowPage
<1> QED BY <1>1, <1>5, <1>7, <1>12 DEF PagesInv, FreePool
-----------------------------------------------------------------------------
(* The row entries a batch needs, and their numbers in allocation_info:    *)
(* each entry has one, each number up to the count is one entry's.         *)
LEMMA Allocation ==
  ASSUME SlotInv, HostInv
  PROVE  LET q == NextReqs
             N == NeededPages(q)
         IN  /\ Cardinality(N) \in Nat
             /\ \A x \in N : /\ x = <<x[1], x[2]>> /\ x[1] \in UidsOf(q) /\ x[2] \in Row
                             /\ AllocIndex(q, x[1], x[2]) \in 1..Cardinality(N)
             /\ \A x, y \in N :
                  AllocIndex(q, x[1], x[2]) = AllocIndex(q, y[1], y[2]) => x = y
             /\ \A k \in 1..Cardinality(N) : \E x \in N : AllocIndex(q, x[1], x[2]) = k
<1> DEFINE q == NextReqs
           N == NeededPages(q)
           low == [x \in N |-> {y \in N : \/ PosOf(q, y[1]) < PosOf(q, x[1])
                                          \/ y[1] = x[1] /\ y[2] <= x[2]}]
           rank == [x \in N |-> Cardinality(low[x])]
<1>1. \A u \in UidsOf(q) : u \in Reqs
  BY LaunchedFit, Zenon
<1>2. /\ Len(q) \in Nat /\ DOMAIN q = 1..Len(q)
  BY NextReqsFacts, Zenon
<1> HIDE DEF q
<1>3. Row = 1..PagesUp(MaxSeqLen) /\ PagesUp(MaxSeqLen) \in Nat
  <2>1. MaxSeqLen \in Nat
    BY CapacityAssumption, PageSizeAssumption
  <2> QED BY <2>1, RoundedPages DEF Row
<1>4. IsFiniteSet(N)
  <2>1. IsFiniteSet(UidsOf(q))
    BY <1>1, FS_Subset, RequestAssumption
  <2>2. IsFiniteSet(Row)
    BY <1>3, FS_Interval
  <2>3. IsFiniteSet(UidsOf(q) \X Row)
    BY <2>1, <2>2, FS_Product
  <2>4. N \subseteq UidsOf(q) \X Row
    BY DEF NeededPages
  <2> QED BY <2>3, <2>4, FS_Subset
<1>5. ASSUME NEW x \in N
      PROVE  x = <<x[1], x[2]>> /\ x[1] \in UidsOf(q) /\ x[2] \in Row
  BY DEF NeededPages
<1>6. ASSUME NEW u \in UidsOf(q)
      PROVE  PosOf(q, u) \in 1..Len(q) /\ q[PosOf(q, u)].uid = u
  <2>1. \E i \in DOMAIN q : q[i].uid = u
    BY DEF UidsOf
  <2> QED BY <1>2, <2>1 DEF PosOf
<1>7. \A u, v \in UidsOf(q) : PosOf(q, u) = PosOf(q, v) => u = v
  BY <1>6
<1> HIDE DEF N
<1>8. low \in [N -> SUBSET N]
  OBVIOUS
<1>9. \A x \in N : x \in low[x]
  BY <1>3, <1>5
<1>10. ASSUME NEW x \in N, NEW y \in N,
              \/ PosOf(q, x[1]) < PosOf(q, y[1])
              \/ x[1] = y[1] /\ x[2] < y[2]
       PROVE  low[x] \subseteq low[y] /\ y \notin low[x]
  <2> DEFINE pos(z) == PosOf(q, z[1])
  <2>1. \A z \in N : pos(z) \in Nat /\ z[2] \in Nat
    BY <1>3, <1>5, <1>6
  <2>2. \A z \in N : z[1] = x[1] => pos(z) = pos(x)
    OBVIOUS
  <2>3. \A z \in N : z[1] = y[1] => pos(z) = pos(y)
    OBVIOUS
  <2>4. \A z, w \in N : z \in low[w] <=> (pos(z) < pos(w) \/ (z[1] = w[1] /\ z[2] <= w[2]))
    OBVIOUS
  <2>5. pos(x) < pos(y) \/ (x[1] = y[1] /\ x[2] < y[2])
    BY <1>10
  <2> HIDE DEF pos, low
  <2>6. ASSUME NEW z \in N, z \in low[x] PROVE z \in low[y]
    BY <2>1, <2>2, <2>3, <2>4, <2>5, <2>6
  <2>7. y \notin low[x]
    BY <2>1, <2>2, <2>3, <2>4, <2>5
  <2> QED BY <1>8, <2>6, <2>7
<1>11. ASSUME NEW x \in N, NEW y \in N, x # y
       PROVE  \/ low[x] \subseteq low[y] /\ y \notin low[x]
              \/ low[y] \subseteq low[x] /\ x \notin low[y]
  <2>1. PosOf(q, x[1]) \in Nat /\ PosOf(q, y[1]) \in Nat /\ x[2] \in Nat /\ y[2] \in Nat
    BY <1>3, <1>5, <1>6
  <2>2. x[1] # y[1] \/ x[2] # y[2]
    BY <1>5, <1>11
  <2>3. PosOf(q, x[1]) = PosOf(q, y[1]) => x[1] = y[1]
    BY <1>5, <1>7
  <2> HIDE DEF low
  <2>4. \/ PosOf(q, x[1]) < PosOf(q, y[1]) \/ (x[1] = y[1] /\ x[2] < y[2])
        \/ PosOf(q, y[1]) < PosOf(q, x[1]) \/ (y[1] = x[1] /\ y[2] < x[2])
    BY <2>1, <2>2, <2>3
  <2> QED BY <1>10, <2>4
<1>12. \A x \in N : rank[x] = AllocIndex(q, x[1], x[2])
  <2>1. ASSUME NEW x \in N PROVE low[x] = {y \in NeededPages(q) :
                                            \/ PosOf(q, y[1]) < PosOf(q, x[1])
                                            \/ y[1] = x[1] /\ y[2] <= x[2]}
    BY DEF N
  <2> HIDE DEF low
  <2> QED BY <2>1 DEF AllocIndex
<1> HIDE DEF low
<1>13. /\ Cardinality(N) \in Nat /\ rank \in [N -> 1..Cardinality(N)]
       /\ \A x, y \in N : rank[x] = rank[y] => x = y
       /\ \A k \in 1..Cardinality(N) : \E x \in N : rank[x] = k
  <2>1. rank = [x \in N |-> Cardinality(low[x])]
    OBVIOUS
  <2>2. \A x, y \in N : x # y => \/ low[x] \subseteq low[y] /\ y \notin low[x]
                                 \/ low[y] \subseteq low[x] /\ x \notin low[y]
    BY <1>11
  <2> HIDE DEF rank
  <2> QED BY <1>4, <1>8, <1>9, <2>1, <2>2, RanksCount
<1> HIDE DEF rank
<1>14. \A x \in N : rank[x] \in 1..Cardinality(N)
  BY <1>13
<1> QED BY <1>5, <1>12, <1>13, <1>14 DEF N, q

(* Evicting moves the pages of the evicted prefixes behind the free list,  *)
(* and makes the list as long as asked for.                                *)
LEMMA EvictionMoves ==
  ASSUME PagesInv, lazyFree = <<>>, NEW n \in Nat, NEW E \in Evictions(kv, n)
  PROVE  LET order  == SetToSeq(E)
             supply == freePages \o [i \in 1..Cardinality(E) |-> kv.page[order[i]]]
         IN  /\ supply \in Seq(Pages) /\ Len(freePages) + n <= Len(supply)
             /\ Apart(supply, EvictPrefixes(kv, E).page, RowPage)
<1> DEFINE order  == SetToSeq(E)
           c      == Cardinality(E)
           s      == [i \in 1..c |-> kv.page[order[i]]]
           g      == kv.page
           g2     == EvictPrefixes(kv, E).page
<1>1. freePages \in Seq(Pages) /\ FreePool = freePages
  BY DEF PagesInv, FreePool
<1>2. Apart(freePages, g, RowPage)
  BY <1>1 DEF PagesInv
<1>3. E \subseteq DOMAIN g
  BY DEF Evictions, Evictable, Cached
<1>4. IsFiniteSet(E)
  <2>1. \A p \in DOMAIN g : g[p] \in Pages
    BY <1>2 DEF Apart, Range
  <2> DEFINE k == [p \in E |-> g[p]]
  <2>2. k \in Injection(E, Pages)
    BY <1>2, <1>3, <2>1 DEF Injection, IsInjective, Apart
  <2>3. IsFiniteSet(Pages)
    BY FS_Interval, CapacityAssumption DEF Pages
  <2> QED BY <2>2, <2>3, FS_Injection
<1>5. /\ order \in [1..c -> E] /\ c \in Nat
      /\ \A i, j \in 1..c : order[i] = order[j] => i = j
      /\ \A x \in E : \E i \in 1..c : order[i] = x
  BY <1>4, SetToSeqLists
<1>6. n <= c
  <2>1. CASE n = 0
    BY <1>5, <2>1
  <2>2. CASE n # 0
    BY <1>5, <2>2 DEF Evictions
  <2> QED BY <2>1, <2>2
<1> HIDE DEF order, c, g
<1>7. /\ s \in Seq(Pages) /\ Len(s) = c /\ DOMAIN s = 1..c
      /\ \A i \in 1..c : s[i] = g[order[i]]
  <2>1. \A i \in 1..c : g[order[i]] \in Pages
    BY <1>2, <1>3, <1>5 DEF Apart, Range
  <2> QED BY <1>5, <2>1 DEF g
<1> HIDE DEF s
<1>8. IsInjective(s)
  <2>1. IsInjective(g)
    BY <1>2 DEF Apart
  <2> QED BY <1>3, <1>5, <1>7, <2>1 DEF IsInjective
<1>9. Range(s) = {g[p] : p \in E}
  <2>1. \A i \in DOMAIN s : \E p \in E : s[i] = g[p]
    BY <1>5, <1>7
  <2>2. \A p \in E : \E i \in DOMAIN s : s[i] = g[p]
    BY <1>5, <1>7
  <2> QED BY <2>1, <2>2 DEF Range
<1>10. DOMAIN g2 = DOMAIN g \ E /\ \A p \in DOMAIN g2 : g2[p] = g[p]
  BY DEF EvictPrefixes, Cached, g
<1> HIDE DEF g2
<1>11. freePages \o s \in Seq(Pages) /\ Apart(freePages \o s, RowPage, g2)
  BY <1>1, <1>2, <1>3, <1>7, <1>8, <1>9, <1>10, ApartSwaps, ListedPages
<1>12. Apart(freePages \o s, g2, RowPage)
  BY <1>11, ApartSwaps
<1>13. Len(freePages \o s) = Len(freePages) + c /\ Len(freePages) \in Nat
  BY <1>1, <1>7
<1>14. Len(freePages) + n <= Len(freePages \o s)
  BY <1>5, <1>6, <1>13
<1> QED BY <1>11, <1>12, <1>14 DEF s, c, order, g, g2

(* The row entries after a launch are those before and the needed ones.    *)
LEMMA LaunchedRows ==
  ASSUME SlotInv, HostInv, NEW supply, table' = WrittenTable(NextReqs, supply),
         owners' = owners,
         \A v \in Reqs : req'[v].slot = req[v].slot /\ req'[v].handle = req[v].handle,
         \A v \in UidsOf(NextReqs) : req'[v].clen = req[v].dlen,
         \A v \in Reqs \ UidsOf(NextReqs) : req'[v] = req[v]
  PROVE  LET q == NextReqs
             N == NeededPages(q)
         IN  /\ Places' = Places \cup N /\ Places \cap N = {}
             /\ \A x \in Places : RowPage'[x] = RowPage[x]
             /\ \A x \in N : RowPage'[x] = supply[AllocIndex(q, x[1], x[2])]
<1> DEFINE q == NextReqs
           N == NeededPages(q)
<1>1. \A u \in UidsOf(q) : /\ u \in owners /\ u \in Reqs
                           /\ req[u].dlen <= MaxSeqLen /\ req[u].clen < req[u].dlen
                           /\ req[u].clen \in Nat /\ req[u].dlen \in Nat
  BY LaunchedFit, Zenon
<1> HIDE DEF q
<1>2. owners \subseteq Reqs /\ MaxSeqLen \in Nat
  BY LengthTypes, CapacityAssumption, PageSizeAssumption DEF SlotInv, LoopTypes
<1>3. \A v \in owners \ UidsOf(q) : Private(v)' = Private(v)
  BY <1>2 DEF Private, q
<1>4. ASSUME NEW v \in UidsOf(q), NEW i \in Row
      PROVE  /\ i \in Private(v)' <=> i \in Private(v) \/ <<v, i>> \in N
             /\ ~(i \in Private(v) /\ <<v, i>> \in N)
  <2> DEFINE a  == PagesDown(Len(req[v].handle))
             lo == PagesUp(req[v].clen)
             hi == PagesUp(req[v].dlen)
  <2>1. a \in Nat /\ lo \in Nat /\ a <= lo
    BY <1>1, OwnerRows
  <2>2. hi \in Nat /\ lo <= hi
    BY <1>1, RoundedPages, PagesGrow
  <2>3. Private(v)' = (a + 1)..hi
    BY <1>1 DEF Private, q
  <2>4. Private(v) = (a + 1)..lo
    BY DEF Private
  <2>5. <<v, i>> \in N <=> lo < i /\ i <= hi
    BY DEF NeededPages
  <2>6. i \in Nat
    BY DEF Row
  <2> HIDE DEF a, lo, hi, N
  <2> QED BY <2>1, <2>2, <2>3, <2>4, <2>5, <2>6
<1>5. \A x \in N : x = <<x[1], x[2]>> /\ x[1] \in UidsOf(q) /\ x[2] \in Row
  BY DEF NeededPages
<1> HIDE DEF N
<1>6. Places' = Places \cup N
  <2>0. Places' = {x \in owners \X Row : x[2] \in Private(x[1])'}
    BY DEF Places
  <2>1. ASSUME NEW v \in owners, NEW i \in Row
        PROVE  i \in Private(v)' <=> i \in Private(v) \/ <<v, i>> \in N
    <3>1. CASE v \in UidsOf(q)
      BY <1>4, <3>1
    <3>2. CASE v \notin UidsOf(q)
      BY <1>3, <1>5, <3>2
    <3> QED BY <3>1, <3>2
  <2>2. N \subseteq owners \X Row
    BY <1>1, <1>5
  <2>3. ASSUME NEW x \in owners \X Row
        PROVE  x[2] \in Private(x[1])' <=> x[2] \in Private(x[1]) \/ x \in N
    <3>1. x = <<x[1], x[2]>> /\ x[1] \in owners /\ x[2] \in Row
      OBVIOUS
    <3> QED BY <2>1, <3>1
  <2> QED BY <2>0, <2>2, <2>3 DEF Places
<1>7. Places \cap N = {}
  BY <1>4, <1>5 DEF Places
<1>8. ASSUME NEW v \in owners, NEW i \in Row
      PROVE  /\ <<v, i>> \in N => table'[req[v].slot][i] = supply[AllocIndex(q, v, i)]
             /\ <<v, i>> \notin N => table'[req[v].slot][i] = table[req[v].slot][i]
  <2>1. req[v].slot \in Slots /\ \A w \in owners : req[w].slot = req[v].slot => w = v
    BY OwnerRows, Zenon
  <2>2. \A w \in UidsOf(q) : req[w].slot = req[v].slot => w = v
    BY <1>1, <2>1
  <2>3. table'[req[v].slot][i] =
          IF \E w \in UidsOf(q) : req[w].slot = req[v].slot /\ <<w, i>> \in N
          THEN supply[AllocIndex(q, CHOOSE w \in UidsOf(q) : req[w].slot = req[v].slot, i)]
          ELSE table[req[v].slot][i]
    BY <2>1 DEF WrittenTable, q, N
  <2>4. CASE <<v, i>> \in N
    <3>1. v \in UidsOf(q)
      BY <1>5, <2>4
    <3>2. (CHOOSE w \in UidsOf(q) : req[w].slot = req[v].slot) = v
      BY <2>2, <3>1
    <3> QED BY <2>3, <2>4, <3>1, <3>2
  <2>5. CASE <<v, i>> \notin N
    BY <2>2, <2>3, <2>5
  <2> QED BY <2>4, <2>5
<1>9. \A x \in Places' : /\ x = <<x[1], x[2]>> /\ x[1] \in owners /\ x[2] \in Row
                         /\ RowPage'[x] = table'[req[x[1]].slot][x[2]]
  <2>1. \A v \in owners : req'[v].slot = req[v].slot
    BY <1>2
  <2> QED BY <2>1 DEF RowPage, Places
<1>10. \A x \in Places : RowPage'[x] = RowPage[x]
  <2>1. \A x \in Places : RowPage[x] = table[req[x[1]].slot][x[2]]
    BY DEF RowPage
  <2> QED BY <1>6, <1>7, <1>8, <1>9, <2>1
<1>11. \A x \in N : RowPage'[x] = supply[AllocIndex(q, x[1], x[2])]
  BY <1>6, <1>8, <1>9
<1> QED BY <1>6, <1>7, <1>10, <1>11 DEF N, q

(* allocate_paged gives each needed entry a page of its own, from the      *)
(* front of the free list or from an eviction.                             *)
LEMMA LaunchKeepsPages ==
  ASSUME SlotInv, HostInv, LockInv, PagesInv, Launch
  PROVE  PagesInv'
<1> DEFINE q      == NextReqs
           N      == NeededPages(q)
           needed == Cardinality(N)
           short  == Max({0, needed - Len(freePages)})
           index(x) == AllocIndex(q, x[1], x[2])
<1>1. CASE Fail("evict")
  BY <1>1, FailKeepsPages
<1>2. CASE ~Fail("evict")
  <2>1. /\ pc = "admit" /\ pc' = "process"
        /\ \E E \in Evictions(kv, short) :
             LET order  == SetToSeq(E)
                 supply == freePages \o [i \in 1..Cardinality(E) |-> kv.page[order[i]]] IN
             /\ freePages' = SubSeq(supply, needed + 1, Len(supply))
             /\ kv' = EvictPrefixes(kv, E)
             /\ table' = WrittenTable(q, supply)
        /\ \A v \in Reqs : req'[v].slot = req[v].slot /\ req'[v].handle = req[v].handle
        /\ \A v \in UidsOf(q) : req'[v].clen = req[v].dlen
        /\ \A v \in Reqs \ UidsOf(q) : req'[v] = req[v]
        /\ UNCHANGED <<owners, lazyFree>>
    BY <1>2, LaunchIs
  <2>2. /\ needed \in Nat
        /\ \A x \in N : /\ x = <<x[1], x[2]>> /\ x[1] \in UidsOf(q) /\ x[2] \in Row
                        /\ index(x) \in 1..needed
        /\ \A x, y \in N : index(x) = index(y) => x = y
        /\ \A k \in 1..needed : \E x \in N : index(x) = k
    BY Allocation, Zenon
  <2>3. lazyFree = <<>> /\ freePages \in Seq(Pages)
    BY <2>1 DEF PagesInv
  <2>4. short \in Nat /\ needed <= Len(freePages) + short
    <3>1. Len(freePages) \in Nat
      BY <2>3
    <3>2. needed \in Nat
      BY <2>2
    <3> DEFINE gap == needed - Len(freePages)
    <3>3. gap \in Int
      BY <3>1, <3>2
    <3> HIDE DEF gap
    <3>4. Max({0, gap}) = IF 0 <= gap THEN gap ELSE 0
      BY <3>3, MaxOfTwo
    <3>5. short = IF 0 <= gap THEN gap ELSE 0
      BY <3>4 DEF gap
    <3> HIDE DEF short, needed
    <3> QED BY <3>1, <3>2, <3>5 DEF gap
  <2>5. PICK E \in Evictions(kv, short) :
          LET order  == SetToSeq(E)
              supply == freePages \o [i \in 1..Cardinality(E) |-> kv.page[order[i]]] IN
          /\ freePages' = SubSeq(supply, needed + 1, Len(supply))
          /\ kv' = EvictPrefixes(kv, E)
          /\ table' = WrittenTable(q, supply)
    BY <2>1
  <2> DEFINE order  == SetToSeq(E)
             supply == freePages \o [i \in 1..Cardinality(E) |-> kv.page[order[i]]]
  <2>6. /\ supply \in Seq(Pages) /\ Len(freePages) + short <= Len(supply)
        /\ Apart(supply, EvictPrefixes(kv, E).page, RowPage)
    BY <2>3, <2>4, EvictionMoves, Zenon
  <2>7. /\ freePages' = SubSeq(supply, needed + 1, Len(supply))
        /\ kv' = EvictPrefixes(kv, E)
        /\ table' = WrittenTable(q, supply)
    BY <2>5
  <2> HIDE DEF supply, short
  <2>8. needed \in 0..Len(supply)
    BY <2>2, <2>3, <2>4, <2>6
  <2>9. /\ Places' = Places \cup N /\ Places \cap N = {}
        /\ \A x \in Places : RowPage'[x] = RowPage[x]
        /\ \A x \in N : RowPage'[x] = supply[index(x)]
    BY <2>1, <2>7, LaunchedRows, Zenon
  <2> HIDE DEF needed, index, N
  <2>10. DOMAIN RowPage = Places /\ DOMAIN RowPage' = Places'
    BY DEF RowPage
  <2>11. DOMAIN RowPage' \ DOMAIN RowPage = N
    BY <2>9, <2>10
  <2>12. \A x, y \in N : RowPage'[x] = RowPage'[y] => x = y
    <3>1. \A i, j \in 1..Len(supply) : supply[i] = supply[j] => i = j
      BY <2>6 DEF Apart, IsInjective
    <3> QED BY <2>2, <2>8, <2>9, <3>1
  <2>13. {RowPage'[x] : x \in N} = {supply[i] : i \in 1..needed}
    BY <2>2, <2>9
  <2>14. /\ freePages' \in Seq(Pages)
         /\ Apart(freePages', kv'.page, RowPage')
    <3> DEFINE f  == supply
               g  == EvictPrefixes(kv, E).page
               h  == RowPage
               h2 == RowPage'
    <3>1. f \in Seq(Pages) /\ Apart(f, g, h) /\ needed \in 0..Len(f)
      BY <2>6, <2>8
    <3>2. DOMAIN h \subseteq DOMAIN h2 /\ \A x \in DOMAIN h : h2[x] = h[x]
      BY <2>9, <2>10
    <3>3. /\ \A x, y \in DOMAIN h2 \ DOMAIN h : h2[x] = h2[y] => x = y
          /\ {h2[x] : x \in DOMAIN h2 \ DOMAIN h} = {f[i] : i \in 1..needed}
      BY <2>11, <2>12, <2>13
    <3>4. freePages' = SubSeq(f, needed + 1, Len(f)) /\ kv'.page = g
      BY <2>7
    <3> HIDE DEF f, g, h, h2
    <3>5. /\ SubSeq(f, needed + 1, Len(f)) \in Seq(Pages)
          /\ Apart(SubSeq(f, needed + 1, Len(f)), g, h2)
      BY <3>1, <3>2, <3>3, TakenPages
    <3> QED BY <3>4, <3>5 DEF h2
  <2>15. table' \in [Slots -> [Row -> Pages]]
    <3>1. SUFFICES ASSUME NEW s \in Slots, NEW i \in Row PROVE table'[s][i] \in Pages
      BY <2>7 DEF WrittenTable
    <3>2. CASE \E w \in UidsOf(q) : req[w].slot = s /\ <<w, i>> \in N
      <4>1. PICK w \in UidsOf(q) : req[w].slot = s /\ <<w, i>> \in N
        BY <3>2
      <4>2. w \in owners /\ <<w, i>> \in Places' /\ RowPage'[<<w, i>>] = supply[index(<<w, i>>)]
        <5>1. w \in owners
          BY LaunchedFit
        <5> QED BY <2>9, <4>1, <5>1
      <4>3. supply[index(<<w, i>>)] \in Pages
        BY <2>2, <2>6, <2>8, <4>1
      <4>4. RowPage'[<<w, i>>] = table'[req'[w].slot][i]
        BY <4>2 DEF RowPage
      <4>5. req'[w].slot = s
        <5>1. w \in Reqs
          BY LaunchedFit
        <5> QED BY <2>1, <4>1, <5>1
      <4> QED BY <4>2, <4>3, <4>4, <4>5
    <3>3. CASE ~\E w \in UidsOf(q) : req[w].slot = s /\ <<w, i>> \in N
      <4>1. table'[s][i] = table[s][i]
        BY <2>7, <3>3 DEF WrittenTable, N
      <4> QED BY <4>1 DEF PagesInv
    <3> QED BY <3>2, <3>3
  <2>16. FreePool' = freePages' /\ lazyFree' = <<>>
    BY <2>1, <2>3, <2>14 DEF FreePool
  <2> QED BY <2>14, <2>15, <2>16 DEF PagesInv
<1> QED BY <1>1, <1>2
-----------------------------------------------------------------------------
(* A function that repeats no value has as many arguments as values.       *)
LEMMA InjectiveCount ==
  ASSUME NEW f, IsInjective(f), IsFiniteSet(Range(f))
  PROVE  IsFiniteSet(DOMAIN f) /\ Cardinality(DOMAIN f) = Cardinality(Range(f))
<1> DEFINE g == [x \in DOMAIN f |-> f[x]]
<1>1. g \in Injection(DOMAIN f, Range(f)) /\ g \in Surjection(DOMAIN f, Range(f))
  BY DEF Injection, Surjection, IsInjective, Range
<1> HIDE DEF g
<1> QED BY <1>1, FS_Injection

(* The pool starts whole, with nothing cached and no row in use.           *)
LEMMA InitPages ==
  ASSUME Init
  PROVE  PagesInv
<1>1. /\ owners = {} /\ kv.page = <<>> /\ lazyFree = <<>>
      /\ freePages = [k \in 1..NumPages |-> k - 1]
      /\ table = [s \in Slots |-> [i \in Row |-> 0]]
  BY DEF Init, EmptyCache
<1>2. NumPages \in Nat /\ NumPages > 0
  BY CapacityAssumption
<1>3. freePages \in Seq(Pages) /\ lazyFree \in Seq(Pages)
  BY <1>1, <1>2 DEF Pages
<1>4. table \in [Slots -> [Row -> Pages]]
  BY <1>1, <1>2 DEF Pages
<1>5. FreePool = freePages
  BY <1>1, <1>3 DEF FreePool
<1>6. DOMAIN kv.page = {} /\ Range(kv.page) = {} /\ IsInjective(kv.page)
  BY <1>1 DEF Range, IsInjective
<1>7. Places = {} /\ DOMAIN RowPage = {} /\ Range(RowPage) = {} /\ IsInjective(RowPage)
  BY <1>1 DEF Places, RowPage, Range, IsInjective
<1>8. IsInjective(freePages) /\ Range(freePages) = Pages
  <2>1. DOMAIN freePages = 1..NumPages /\ \A k \in 1..NumPages : freePages[k] = k - 1
    BY <1>1
  <2>2. \A p \in Pages : p + 1 \in 1..NumPages /\ freePages[p + 1] = p
    BY <1>2, <2>1 DEF Pages
  <2>3. \A k \in 1..NumPages : freePages[k] \in Pages
    BY <1>2, <2>1 DEF Pages
  <2>4. \A i, j \in 1..NumPages : freePages[i] = freePages[j] => i = j
    BY <1>2, <2>1
  <2> QED BY <2>1, <2>2, <2>3, <2>4 DEF Range, IsInjective
<1> QED BY <1>1, <1>3, <1>4, <1>5, <1>6, <1>7, <1>8 DEF PagesInv, Apart

LEMMA PagesStep ==
  ASSUME NoLateAbort, HoldInv, PagesInv, [Next]_vars
  PROVE  PagesInv'
<1>0. SlotInv /\ MetInv /\ HostInv /\ LockInv
  BY DEF HoldInv
<1>1. CASE BeginRound \/ EndRound \/ GpuRun \/ SkipChunk \/ Idle
  BY <1>0, <1>1, QuietStepsKeepPages
<1>2. ASSUME NEW u \in Reqs, AddChunk(u) PROVE PagesInv'
  BY <1>0, <1>2, AddChunkKeepsPages
<1>3. ASSUME NEW u \in Reqs, AddNew(u) PROVE PagesInv'
  BY <1>0, <1>3, AddNewKeepsPages
<1>4. CASE Launch
  BY <1>0, <1>4, LaunchKeepsPages
<1>5. CASE CompleteReq
  BY <1>5, CompleteReqKeepsPages
<1>6. ASSUME NEW u \in Reqs, RecvUser(u) PROVE PagesInv'
  BY <1>0, <1>6, RecvUserKeepsPages
<1>7. ASSUME NEW u \in Reqs, RecvAbort(u) PROVE PagesInv'
  BY <1>7, RecvAbortKeepsPages
<1>8. CASE UNCHANGED vars
  <2>1. UNCHANGED <<table, freePages, lazyFree, kv, owners, req, pc>>
    BY <1>8 DEF vars, reqVars, memVars, loopVars
  <2> QED BY <2>1, PagesStutter
<1> QED
  BY <1>1, <1>2, <1>3, <1>4, <1>5, <1>6, <1>7, <1>8 DEF Next, Round

(* The invariant of the requests, the locks and the pages.                 *)
PoolInv == HoldInv /\ PagesInv

LEMMA PoolInvStep ==
  ASSUME NoLateAbort, PoolInv, [Next]_vars
  PROVE  PoolInv'
BY HoldInvStep, PagesStep DEF PoolInv

LEMMA InitPool ==
  ASSUME Init
  PROVE  PoolInv
BY InitSlotInv, InitMet, InitLocks, InitPages DEF PoolInv, HoldInv
-----------------------------------------------------------------------------
(* What a page has in one of three functions it has in none of the others. *)
LEMMA OnePlace ==
  ASSUME NEW f, NEW g, NEW h, Apart(f, g, h), NEW p \in Pages
  PROVE  Cardinality({x \in DOMAIN f : f[x] = p}) + Cardinality({x \in DOMAIN g : g[x] = p})
           + Cardinality({x \in DOMAIN h : h[x] = p}) = 1
<1> DEFINE F == {x \in DOMAIN f : f[x] = p}
           G == {x \in DOMAIN g : g[x] = p}
           H == {x \in DOMAIN h : h[x] = p}
<1> HIDE DEF F, G, H
<1>0. IsInjective(f) /\ IsInjective(g) /\ IsInjective(h)
  BY DEF Apart
<1>1. /\ p \in Range(f) => \E x : F = {x}
      /\ p \in Range(g) => \E x : G = {x}
      /\ p \in Range(h) => \E x : H = {x}
  <2>1. ASSUME NEW e, IsInjective(e), p \in Range(e)
        PROVE  \E x : {y \in DOMAIN e : e[y] = p} = {x}
    <3>1. PICK x \in DOMAIN e : e[x] = p
      BY <2>1 DEF Range
    <3>2. \A y \in DOMAIN e : e[y] = p => y = x
      BY <2>1, <3>1 DEF IsInjective
    <3>3. {y \in DOMAIN e : e[y] = p} = {x}
      BY <3>1, <3>2
    <3> QED BY <3>3
  <2> QED BY <1>0, <2>1, Zenon DEF F, G, H
<1>2. /\ p \notin Range(f) => F = {}
      /\ p \notin Range(g) => G = {}
      /\ p \notin Range(h) => H = {}
  BY DEF Range, F, G, H
<1>3. \/ p \in Range(f) /\ p \notin Range(g) /\ p \notin Range(h)
      \/ p \notin Range(f) /\ p \in Range(g) /\ p \notin Range(h)
      \/ p \notin Range(f) /\ p \notin Range(g) /\ p \in Range(h)
  BY Zenon DEF Apart
<1>4. /\ p \in Range(f) => Cardinality(F) = 1
      /\ p \in Range(g) => Cardinality(G) = 1
      /\ p \in Range(h) => Cardinality(H) = 1
  BY <1>1, FS_Singleton
<1>5. /\ p \notin Range(f) => Cardinality(F) = 0
      /\ p \notin Range(g) => Cardinality(G) = 0
      /\ p \notin Range(h) => Cardinality(H) = 0
  BY <1>2, FS_EmptySet
<1>6. Cardinality(F) + Cardinality(G) + Cardinality(H) = 1
  BY <1>3, <1>4, <1>5
<1> QED BY <1>6 DEF F, G, H

(* Every KV page is free, cached or in one admitted request's row, once:   *)
(* allocate_paged, cache_req, the evictions and lazy_free_region never     *)
(* lose a page, free one twice or hand out one that is still in use.       *)
THEOREM PagesHaveOnePlace ==
  ASSUME NoLateAbort
  PROVE  Spec => []PagePartition
<1>1. Init => PoolInv
  BY InitPool
<1>2. PoolInv /\ [Next]_vars => PoolInv'
  BY PoolInvStep
<1>3. PoolInv => PagePartition
  <2> SUFFICES ASSUME PoolInv, NEW p \in Pages
               PROVE  Cardinality({i \in DOMAIN FreePool : FreePool[i] = p})
                        + Cardinality({q \in Cached(kv) : kv.page[q] = p})
                        + Cardinality({x \in owners \X Row :
                                        x[2] \in Private(x[1])
                                        /\ table[req[x[1]].slot][x[2]] = p}) = 1
    BY DEF PagePartition
  <2>1. Apart(FreePool, kv.page, RowPage) /\ SlotInv /\ MetInv /\ HostInv /\ LockInv
    BY DEF PoolInv, PagesInv, HoldInv
  <2>2. DOMAIN kv.page = Cached(kv)
    BY DEF Cached
  <2>3. {x \in DOMAIN RowPage : RowPage[x] = p}
          = {x \in owners \X Row : x[2] \in Private(x[1])
                                   /\ table[req[x[1]].slot][x[2]] = p}
    BY DEF RowPage, Places
  <2>4. Cardinality({x \in DOMAIN FreePool : FreePool[x] = p})
          + Cardinality({x \in DOMAIN kv.page : kv.page[x] = p})
          + Cardinality({x \in DOMAIN RowPage : RowPage[x] = p}) = 1
    BY <2>1, OnePlace
  <2> QED BY <2>2, <2>3, <2>4
<1> QED BY <1>1, <1>2, <1>3, PTL DEF Spec
-----------------------------------------------------------------------------
(* When receive_msg would block, nobody holds a page.                      *)
LEMMA IdleHasNoOwner ==
  ASSUME SlotInv, MetInv, pc = "recv", Blocking
  PROVE  owners = {}
<1>1. todo.reqs = <<>> /\ inflight.reqs = <<>> /\ pending = <<>> /\ running = {}
  BY DEF SlotInv, BatchesKnowFreed, Blocking, NoBatch
<1>2. ToSet(pending) = {}
  BY <1>1 DEF ToSet
<1>3. \A u \in owners : u \in Reqs /\ Owed(u) = 0
  BY <1>1, NoSteps DEF Owed, SlotInv, LoopTypes
<1>4. \A u \in owners : u \in running \/ Owed(u) > 0
  BY <1>2, Zenon DEF MetInv, TokensOwed
<1> QED BY <1>1, <1>3, <1>4

(* check_integrity: then the free list and the cache hold every page.      *)
LEMMA IdlePoolIsWhole ==
  ASSUME PoolInv, pc = "recv", Blocking
  PROVE  Integrity
<1>1. /\ SlotInv /\ MetInv /\ lazyFree = <<>> /\ freePages \in Seq(Pages)
      /\ Apart(FreePool, kv.page, RowPage)
  BY DEF PoolInv, HoldInv, PagesInv
<1>2. owners = {}
  BY <1>1, IdleHasNoOwner
<1>3. Range(RowPage) = {}
  BY <1>2 DEF RowPage, Places, Range
<1>4. FreePool = freePages
  BY <1>1 DEF FreePool
<1>5. /\ IsInjective(freePages) /\ IsInjective(kv.page)
      /\ Range(freePages) \cap Range(kv.page) = {}
      /\ Range(freePages) \cup Range(kv.page) = Pages
  BY <1>1, <1>3, <1>4 DEF Apart
<1>6. IsFiniteSet(Pages) /\ Cardinality(Pages) = NumPages
  BY CapacityAssumption, FS_Interval DEF Pages
<1>7. IsFiniteSet(Range(freePages)) /\ IsFiniteSet(Range(kv.page))
  BY <1>5, <1>6, FS_Subset
<1>8. /\ Cardinality(DOMAIN freePages) = Cardinality(Range(freePages))
      /\ Cardinality(DOMAIN kv.page) = Cardinality(Range(kv.page))
  BY <1>5, <1>7, InjectiveCount
<1>9. Len(freePages) \in Nat /\ Cardinality(DOMAIN freePages) = Len(freePages)
  <2>1. Len(freePages) \in Nat /\ DOMAIN freePages = 1..Len(freePages)
    BY <1>1
  <2>2. \A n \in Nat : Cardinality(1..n) = n
    <3> TAKE n \in Nat
    <3>1. Cardinality(1..n) = IF 1 > n THEN 0 ELSE n - 1 + 1
      BY FS_Interval
    <3> QED BY <3>1
  <2> QED BY <2>1, <2>2
<1>10. /\ Cardinality(Range(freePages)) \in Nat /\ Cardinality(Range(kv.page)) \in Nat
       /\ NumPages = Cardinality(Range(freePages)) + Cardinality(Range(kv.page))
  <2>1. Cardinality(Range(freePages) \cap Range(kv.page)) = 0
    BY <1>5, FS_EmptySet
  <2>2. NumPages = Cardinality(Range(freePages)) + Cardinality(Range(kv.page))
                     - Cardinality(Range(freePages) \cap Range(kv.page))
    BY <1>5, <1>6, <1>7, FS_Union
  <2> QED BY <1>7, <2>1, <2>2, FS_CardinalityType
<1> QED BY <1>8, <1>9, <1>10 DEF Integrity, Cached

(* Of the assertions of the loop, only the evictor's can fail: the count   *)
(* lock_handle decrements is never zero (radix_cache.py), and              *)
(* check_integrity finds every page whenever the scheduler idles.          *)
OnlyEvictFails == fault \in {"none", "evict"}

THEOREM OnlyEvictionFails ==
  ASSUME NoLateAbort
  PROVE  Spec => []OnlyEvictFails
<1>1. Init => PoolInv /\ OnlyEvictFails
  BY InitPool DEF Init, OnlyEvictFails
<1>2. PoolInv /\ OnlyEvictFails /\ [Next]_vars => PoolInv' /\ OnlyEvictFails'
  <2> SUFFICES ASSUME PoolInv, OnlyEvictFails, [Next]_vars
               PROVE  PoolInv' /\ OnlyEvictFails'
    OBVIOUS
  <2>0. SlotInv /\ MetInv /\ HostInv /\ LockInv
    BY DEF PoolInv, HoldInv
  <2>1. PoolInv'
    BY PoolInvStep
  <2>2. ASSUME BeginRound \/ EndRound \/ GpuRun \/ SkipChunk PROVE OnlyEvictFails'
    <3>1. fault' = fault
      BY <2>2 DEF BeginRound, EndRound, GpuRun, SkipChunk
    <3> QED BY <3>1 DEF OnlyEvictFails
  <2>3. ASSUME Idle PROVE OnlyEvictFails'
    <3>1. Integrity
      BY <2>3, IdlePoolIsWhole DEF Idle
    <3>2. fault' = fault
      BY <2>3, <3>1 DEF Idle, vars
    <3> QED BY <3>2 DEF OnlyEvictFails
  <2>4. ASSUME NEW u \in Reqs, AddChunk(u) \/ AddNew(u) PROVE OnlyEvictFails'
    <3>1. fault' = fault
      BY <2>4 DEF AddChunk, AddNew
    <3> QED BY <3>1 DEF OnlyEvictFails
  <2>5. ASSUME Launch PROVE OnlyEvictFails'
    <3>1. Fail("evict") \/ fault' = fault
      BY <2>0, <2>5, LaunchIs, Zenon
    <3> QED BY <3>1 DEF OnlyEvictFails, Fail
  <2>6. ASSUME CompleteReq PROVE OnlyEvictFails'
    <3>1. fault' = fault
      BY <2>0, <2>6, CompleteReqIs
    <3> QED BY <3>1 DEF OnlyEvictFails
  <2>7. ASSUME NEW u \in Reqs, RecvUser(u) PROVE OnlyEvictFails'
    <3>1. fault' = fault
      BY <2>7 DEF RecvUser
    <3> QED BY <3>1 DEF OnlyEvictFails
  <2>8. ASSUME NEW u \in Reqs, RecvAbort(u) PROVE OnlyEvictFails'
    <3>1. fault' = fault
      BY <2>0, <2>8, AbortIs
    <3> QED BY <3>1 DEF OnlyEvictFails
  <2>9. ASSUME UNCHANGED vars PROVE OnlyEvictFails'
    <3>1. fault' = fault
      BY <2>9 DEF vars
    <3> QED BY <3>1 DEF OnlyEvictFails
  <2>10. OnlyEvictFails'
    BY <2>2, <2>3, <2>4, <2>5, <2>6, <2>7, <2>8, <2>9 DEF Next, Round
  <2> QED BY <2>1, <2>10
<1> QED BY <1>1, <1>2, PTL DEF Spec
-----------------------------------------------------------------------------
(***************************************************************************)
(* Admission never over-commits the pool, for all requests, prompts,       *)
(* pools, table sizes, budgets and both caches: AdmissionSuffices says     *)
(* that no assertion of the scheduler fails, if the last page of every     *)
(* request is paid for by the tokens PrefillAdder reserves for it          *)
(* (RoundingFits; true of page_size 1 and 2, and false in the run          *)
(* kv_page_rounding, whose pages of three tokens show that it is needed).  *)
(*                                                                         *)
(* PrefillAdder counts tokens, the allocator counts pages, and between the *)
(* two lie chunks, handles that grow into the rows, and evictions.  The    *)
(* proof counts one thing throughout: Promised says that the prefixes some *)
(* handle protects (Covered) and the row entries admitted requests have    *)
(* filled or may still fill past their handles (Footprint) number at most  *)
(* NumPages.                                                               *)
(*  - What a batch takes is in Footprint and not yet filled, so a page     *)
(*    that is neither protected nor in a row can be found for it           *)
(*    (EvictorSuffices).                                                   *)
(*  - try_add_one's check, with the matched prefix locked, is what the     *)
(*    promise to a new request needs: the tokens reserved for the running  *)
(*    and the added requests cover their missing pages (RunningReserved,   *)
(*    AddedReserved, AddNewKeepsPromise).                                  *)
(*  - No other step promises more; cache_req turns row entries into        *)
(*    protected prefixes one for one (KeepingKeepsPromise).                *)
(***************************************************************************)

-----------------------------------------------------------------------------
(* What admission promised: the tokens each admitted request may still     *)
(* come to compute, and the row entries past its handle they will fill.    *)
RoundingFits ==
  \A u \in Reqs :
    InputLen(u) < MaxSeqLen => PagesUp(FinalTokens(u)) * PageSize <= MaxDevLen(u)

FinalLen(u) ==
  IF u \in running THEN MaxDevLen(u) - 1
  ELSE IF u \in chunked \cup UidsOf(adder.reqs) THEN FinalTokens(u)
  ELSE req[u].clen

LastPage(u) == PagesUp(FinalLen(u))
HandlePages(u) == PagesDown(Len(req[u].handle))

Footprint == {x \in owners \X Row : HandlePages(x[1]) < x[2] /\ x[2] <= LastPage(x[1])}
Covered   == UNION {PagePrefixes(req[u].handle) : u \in owners}

Promised == Cardinality(Covered) + Cardinality(Footprint) <= NumPages

(* The request being prefilled in chunks is looked at before any new one,  *)
(* and a running request is one token ahead of what was computed.          *)
CutFirst ==
  \A v \in chunked : v \in UidsOf(adder.reqs) \/ (adder.reqs = <<>> /\ v = pending[1])
RunningStep == \A u \in running : req[u].dlen = req[u].clen + 1

AdmitInv == Promised /\ CutFirst /\ RunningStep
-----------------------------------------------------------------------------
LEMMA FinalTokensIs ==
  ASSUME NEW u \in Reqs
  PROVE  /\ FinalTokens(u) \in Nat /\ FinalTokens(u) >= InputLen(u)
         /\ FinalTokens(u) >= MaxDevLen(u) - 1
         /\ InputLen(u) < MaxSeqLen => FinalTokens(u) <= MaxSeqLen
<1> DEFINE a == InputLen(u)
           b == MaxDevLen(u)
<1>1. a \in Nat /\ b \in Int /\ MaxSeqLen \in Nat /\ b <= MaxSeqLen
  BY LengthTypes
<1>2. FinalTokens(u) = IF a <= b - 1 THEN b - 1 ELSE a
  <2> HIDE DEF a, b
  <2>1. Max({a, b - 1}) = IF a <= b - 1 THEN b - 1 ELSE a
    BY <1>1, MaxOfTwo
  <2> QED BY <2>1 DEF FinalTokens, a, b
<1> HIDE DEF a, b
<1> QED BY <1>1, <1>2 DEF a, b

LEMMA OutLenType ==
  ASSUME NEW u \in Reqs
  PROVE  OutLen(u) \in Int /\ MaxDevLen(u) = InputLen(u) + OutLen(u)
<1>1. InputLen(u) \in Nat /\ MaxTokens[u] \in Nat /\ MaxSeqLen \in Nat
  BY LengthTypes, RequestAssumption
<1>2. OutLen(u) \in {MaxTokens[u], MaxSeqLen - InputLen(u)}
  BY <1>1, MinOfTwo DEF OutLen
<1> QED BY <1>1, <1>2 DEF MaxDevLen

(* The uids of what the adder added are owners at the front of             *)
(* pending_list.                                                           *)
LEMMA AddedArePending ==
  ASSUME SlotInv, NEW u \in UidsOf(adder.reqs)
  PROVE  u \in owners /\ u \in ToSet(pending)
<1>1. PICK i \in DOMAIN adder.reqs : u = adder.reqs[i].uid
  BY DEF UidsOf
<1>2. i \in 1..Len(adder.reqs) /\ Len(adder.reqs) <= Len(pending)
      /\ Len(adder.reqs) \in Nat /\ DOMAIN pending = 1..Len(pending) /\ Len(pending) \in Nat
  BY <1>1 DEF SlotInv, LoopTypes, AdderFollowsPending
<1>3. u = pending[i] /\ u \in owners
  BY <1>1, <1>2 DEF SlotInv, AdderFollowsPending
<1>4. i \in DOMAIN pending
  BY <1>2
<1> QED BY <1>3, <1>4 DEF ToSet

LEMMA OwnerEnds ==
  ASSUME SlotInv, HostInv, NEW u \in owners
  PROVE  /\ FinalLen(u) \in Nat /\ req[u].clen \in Nat /\ req[u].clen <= FinalLen(u)
         /\ LastPage(u) \in Nat /\ LastPage(u) <= PagesUp(MaxSeqLen)
         /\ PagesUp(req[u].clen) <= LastPage(u)
         /\ HandlePages(u) \in Nat /\ HandlePages(u) <= PagesUp(req[u].clen)
         /\ PagesUp(req[u].clen) \in Nat
<1>1. /\ u \in Reqs /\ req[u].clen \in Nat /\ req[u].dlen \in Nat
      /\ PagesUp(req[u].clen) \in Nat /\ PagesUp(MaxSeqLen) \in Nat
      /\ HandlePages(u) \in Nat /\ HandlePages(u) <= PagesUp(req[u].clen)
  BY OwnerRows DEF HandlePages, SlotInv, LoopTypes
<1>2. /\ MaxDevLen(u) \in Int /\ MaxSeqLen \in Nat /\ MaxDevLen(u) <= MaxSeqLen
      /\ InputLen(u) \in Nat /\ FinalTokens(u) \in Nat /\ FinalTokens(u) >= InputLen(u)
      /\ InputLen(u) < MaxSeqLen => FinalTokens(u) <= MaxSeqLen
  BY <1>1, LengthTypes, FinalTokensIs
<1>3. req[u].clen < req[u].dlen /\ req[u].clen <= MaxSeqLen
  BY DEF HostInv, HostTokens, Fits
<1>4. FinalLen(u) \in Nat /\ req[u].clen <= FinalLen(u) /\ FinalLen(u) <= MaxSeqLen
  <2>1. CASE u \in running
    <3>1. req[u].dlen < MaxDevLen(u) /\ FinalLen(u) = MaxDevLen(u) - 1
      BY <2>1 DEF HostInv, RunningFits, FinalLen
    <3> QED BY <1>1, <1>2, <1>3, <3>1
  <2>2. CASE u \notin running /\ u \in chunked
    <3>1. u \in ToSet(pending) /\ FinalLen(u) = FinalTokens(u)
      BY <2>2 DEF SlotInv, PendingApart, FinalLen
    <3>2. /\ InputLen(u) < MaxSeqLen /\ req[u].clen <= Len(req[u].ids)
          /\ Len(req[u].ids) < InputLen(u) /\ req[u].ids \in Seq(Token)
      BY <2>2, <3>1 DEF HostInv, PendingFits, Waiting, ChunksCut, HostTokens, Fits
    <3>3. Len(req[u].ids) \in Nat
      BY <3>2, LenProperties
    <3> QED BY <1>1, <1>2, <3>1, <3>2, <3>3
  <2>3. CASE u \notin running /\ u \in UidsOf(adder.reqs)
    <3>1. u \in ToSet(pending) /\ FinalLen(u) = FinalTokens(u)
      BY <2>3, AddedArePending DEF FinalLen
    <3>2. InputLen(u) < MaxSeqLen
      BY <3>1 DEF HostInv, PendingFits
    <3>3. req[u].dlen <= InputLen(u)
      <4>1. PICK i \in DOMAIN adder.reqs : u = adder.reqs[i].uid
        BY <2>3 DEF UidsOf
      <4>2. i \in 1..Len(adder.reqs)
        BY <4>1 DEF SlotInv, LoopTypes
      <4> QED BY <4>1, <4>2 DEF HostInv, AddedFit
    <3> QED BY <1>1, <1>2, <1>3, <3>1, <3>2, <3>3
  <2>4. CASE u \notin running /\ u \notin chunked /\ u \notin UidsOf(adder.reqs)
    <3>1. FinalLen(u) = req[u].clen
      BY <2>4 DEF FinalLen
    <3> QED BY <1>1, <1>3, <3>1
  <2> QED BY <2>1, <2>2, <2>3, <2>4
<1>5. LastPage(u) \in Nat
  BY <1>4, RoundedPages DEF LastPage
<1>6. LastPage(u) <= PagesUp(MaxSeqLen) /\ PagesUp(req[u].clen) <= LastPage(u)
  BY <1>1, <1>2, <1>4, PagesGrow DEF LastPage
<1> QED BY <1>1, <1>4, <1>5, <1>6

(* The same after a step.                                                  *)
EndsKnown == \A u \in owners : FinalLen(u) \in Nat /\ LastPage(u) \in Nat

LEMMA OwnerEndsNext == SlotInv' /\ HostInv' => EndsKnown'
<1>1. SlotInv /\ HostInv => EndsKnown
  BY OwnerEnds DEF EndsKnown
<1> QED BY <1>1, PTL

LEMMA OwnersFinite ==
  ASSUME SlotInv
  PROVE  IsFiniteSet(owners) /\ IsFiniteSet(Row) /\ IsFiniteSet(owners \X Row)
<1>1. owners \in SUBSET Reqs /\ IsFiniteSet(Reqs)
  BY RequestAssumption DEF SlotInv, LoopTypes
<1>2. MaxSeqLen \in Nat
  BY CapacityAssumption, PageSizeAssumption
<1>3. PagesUp(MaxSeqLen) \in Int
  BY <1>2, RoundedPages
<1>4. IsFiniteSet(Row)
  BY <1>3, FS_Interval DEF Row
<1>5. IsFiniteSet(owners)
  BY <1>1, FS_Subset
<1> QED BY <1>4, <1>5, FS_Product

RowsFinite == IsFiniteSet(owners \X Row)

LEMMA OwnersFiniteNext == SlotInv' => RowsFinite'
<1>1. SlotInv => RowsFinite
  BY OwnersFinite DEF RowsFinite
<1> QED BY <1>1, PTL

LEMMA FootprintFinite ==
  ASSUME SlotInv
  PROVE  IsFiniteSet(Footprint) /\ Cardinality(Footprint) \in Nat
<1>1. Footprint \in SUBSET (owners \X Row)
  BY DEF Footprint
<1> QED BY <1>1, OwnersFinite, FS_Subset, FS_CardinalityType

LEMMA PlacesPromised ==
  ASSUME SlotInv, HostInv
  PROVE  /\ Places \subseteq Footprint /\ IsFiniteSet(Places) /\ Cardinality(Places) \in Nat
         /\ Cardinality(Footprint \ Places) = Cardinality(Footprint) - Cardinality(Places)
<1>1. ASSUME NEW x \in Places PROVE x \in Footprint
  <2>1. x \in owners \X Row /\ x[1] \in owners /\ x[2] \in Private(x[1]) /\ x[2] \in Row
    BY DEF Places
  <2>2. /\ LastPage(x[1]) \in Nat /\ PagesUp(req[x[1]].clen) <= LastPage(x[1])
        /\ HandlePages(x[1]) \in Nat /\ PagesUp(req[x[1]].clen) \in Nat
    BY <2>1, OwnerEnds
  <2>3. HandlePages(x[1]) < x[2] /\ x[2] <= LastPage(x[1])
    BY <2>1, <2>2 DEF Private, HandlePages
  <2> QED BY <2>1, <2>3 DEF Footprint
<1>2. Places \in SUBSET Footprint /\ IsFiniteSet(Footprint)
  BY <1>1, FootprintFinite
<1>3. IsFiniteSet(Places)
  BY <1>2, FS_Subset
<1>4. Footprint \cap Places = Places
  BY <1>1
<1> QED BY <1>1, <1>2, <1>3, <1>4, FS_Difference, FS_CardinalityType

(* The cached pages no handle protects are those outside Covered.          *)
LEMMA UncoveredEvictable ==
  ASSUME NEW c, NEW f, Sound(Token, c, f)
  PROVE  LET U == UNION {PagePrefixes(f[r]) : r \in DOMAIN f}
         IN  U \subseteq Cached(c) /\ Evictable(c) = Cached(c) \ U
<1> DEFINE U == UNION {PagePrefixes(f[r]) : r \in DOMAIN f}
<1>1. /\ IsFiniteSet(DOMAIN f) /\ Cached(c) \subseteq Aligned(Token)
      /\ \A r \in DOMAIN f : f[r] \in Seq(Token) /\ PagePrefixes(f[r]) \subseteq Cached(c)
      /\ \A p \in Cached(c) : c.ref[p] = Cardinality(Covering(f, p))
  BY SoundParts, ZenonT(40)
<1>2. U \subseteq Cached(c)
  BY <1>1
<1>3. ASSUME NEW p \in Cached(c) PROVE c.ref[p] = 0 <=> p \notin U
  <2>1. c.ref[p] = 0 <=> Covering(f, p) = {}
    BY <1>1, CoveringFinite, FS_EmptySet
  <2>2. \A r \in DOMAIN f : p \in PagePrefixes(f[r]) <=> IsPrefix(p, f[r])
    BY <1>1, PagePrefixesAre
  <2>3. Covering(f, p) = {} <=> \A r \in DOMAIN f : ~IsPrefix(p, f[r])
    BY DEF Covering
  <2>4. p \in U <=> \E r \in DOMAIN f : p \in PagePrefixes(f[r])
    OBVIOUS
  <2> QED BY <2>1, <2>2, <2>3, <2>4
<1>4. Evictable(c) = Cached(c) \ U
  BY <1>3 DEF Evictable
<1> QED BY <1>2, <1>4

LEMMA CoveredIs ==
  Covered = UNION {PagePrefixes(Handles[u]) : u \in DOMAIN Handles}
BY DEF Covered, Handles

LEMMA CoveredFinite ==
  ASSUME SlotInv, HostInv, LockInv, PagesInv
  PROVE  /\ IsFiniteSet(Covered) /\ Covered \subseteq Cached(kv) /\ IsFiniteSet(Cached(kv))
         /\ Cardinality(Covered) \in Nat
<1>1. Covered \subseteq Cached(kv)
  BY UncoveredEvictable, CoveredIs DEF LockInv
<1>2. IsFiniteSet(Cached(kv))
  <2>1. IsInjective(kv.page) /\ Range(kv.page) \in SUBSET Pages
    BY DEF PagesInv, Apart
  <2>2. IsFiniteSet(Pages)
    BY CapacityAssumption, FS_Interval DEF Pages
  <2> QED BY <2>1, <2>2, FS_Subset, InjectiveCount DEF Cached
<1> QED BY <1>1, <1>2, FS_Subset, FS_CardinalityType

LEMMA UncoveredCount ==
  ASSUME SlotInv, HostInv, LockInv, PagesInv
  PROVE  Cardinality(Evictable(kv)) = Cardinality(Cached(kv)) - Cardinality(Covered)
<1>1. Evictable(kv) = Cached(kv) \ Covered
  BY UncoveredEvictable, CoveredIs DEF LockInv
<1>2. IsFiniteSet(Cached(kv)) /\ Cached(kv) \cap Covered = Covered
  BY CoveredFinite
<1> QED BY <1>1, <1>2, FS_Difference

(* Between batches every page is free, cached or in one row.               *)
LEMMA PoolCounts ==
  ASSUME PoolInv, lazyFree = <<>>
  PROVE  /\ IsFiniteSet(Cached(kv)) /\ Cardinality(Cached(kv)) \in Nat
         /\ Len(freePages) \in Nat /\ Cardinality(Places) \in Nat
         /\ Len(freePages) + Cardinality(Cached(kv)) + Cardinality(Places) = NumPages
<1>1. /\ freePages \in Seq(Pages) /\ Apart(FreePool, kv.page, RowPage)
      /\ SlotInv /\ HostInv /\ LockInv
  BY DEF PoolInv, HoldInv, PagesInv
<1>2. FreePool = freePages
  BY <1>1 DEF FreePool
<1> DEFINE A == Range(freePages)
           B == Range(kv.page)
           C == Range(RowPage)
<1>3. /\ IsInjective(freePages) /\ IsInjective(kv.page) /\ IsInjective(RowPage)
      /\ A \cap B = {} /\ A \cap C = {} /\ B \cap C = {} /\ (A \cup B) \cup C = Pages
  BY <1>1, <1>2 DEF Apart
<1>4. IsFiniteSet(Pages) /\ Cardinality(Pages) = NumPages /\ NumPages \in Nat
  BY CapacityAssumption, FS_Interval DEF Pages
<1>5. A \in SUBSET Pages /\ B \in SUBSET Pages /\ C \in SUBSET Pages
  BY <1>3
<1>6. IsFiniteSet(A) /\ IsFiniteSet(B) /\ IsFiniteSet(C)
  BY <1>4, <1>5, FS_Subset
<1>7. /\ Cardinality(DOMAIN freePages) = Cardinality(A)
      /\ IsFiniteSet(DOMAIN kv.page) /\ Cardinality(DOMAIN kv.page) = Cardinality(B)
      /\ Cardinality(DOMAIN RowPage) = Cardinality(C)
  BY <1>3, <1>6, InjectiveCount
<1>8. Len(freePages) \in Nat /\ Cardinality(DOMAIN freePages) = Len(freePages)
  <2>1. Len(freePages) \in Nat /\ DOMAIN freePages = 1..Len(freePages)
    BY <1>1
  <2>2. \A n \in Nat : Cardinality(1..n) = n
    <3> TAKE n \in Nat
    <3>1. Cardinality(1..n) = IF 1 > n THEN 0 ELSE n - 1 + 1
      BY FS_Interval
    <3> QED BY <3>1
  <2> QED BY <2>1, <2>2
<1> HIDE DEF A, B, C
<1>9. /\ Cardinality(A) \in Nat /\ Cardinality(B) \in Nat /\ Cardinality(C) \in Nat
      /\ Cardinality(A) + Cardinality(B) + Cardinality(C) = NumPages
  <2>1. Cardinality(A \cap B) = 0 /\ Cardinality((A \cup B) \cap C) = 0
    <3>1. (A \cup B) \cap C = {}
      BY <1>3
    <3> QED BY <1>3, <3>1, FS_EmptySet
  <2>2. /\ IsFiniteSet(A \cup B)
        /\ Cardinality(A \cup B) = Cardinality(A) + Cardinality(B) - Cardinality(A \cap B)
    BY <1>6, FS_Union
  <2>3. Cardinality((A \cup B) \cup C)
          = Cardinality(A \cup B) + Cardinality(C) - Cardinality((A \cup B) \cap C)
    BY <1>6, <2>2, FS_Union
  <2>4. Cardinality(A) \in Nat /\ Cardinality(B) \in Nat /\ Cardinality(C) \in Nat
    BY <1>6, FS_CardinalityType
  <2>5. Cardinality((A \cup B) \cup C) = NumPages
    BY <1>3, <1>4
  <2> QED BY <2>1, <2>2, <2>3, <2>4, <2>5
<1>10. DOMAIN RowPage = Places /\ DOMAIN kv.page = Cached(kv)
  BY DEF RowPage, Cached
<1> QED BY <1>7, <1>8, <1>9, <1>10
-----------------------------------------------------------------------------
(* A step that admits nobody, changes no handle and lets nobody run        *)
(* further keeps the promise.                                              *)
LEMMA PromisedStays ==
  ASSUME SlotInv, HostInv, LockInv, PagesInv, Promised, SlotInv', HostInv',
         owners' \subseteq owners,
         \A u \in owners' : req'[u].handle = req[u].handle /\ FinalLen(u)' <= FinalLen(u)
  PROVE  Promised'
<1>1. Covered' \subseteq Covered
  BY DEF Covered
<1>2. ASSUME NEW x \in Footprint' PROVE x \in Footprint
  <2>1. /\ x \in owners' \X Row /\ x[1] \in owners' /\ x[1] \in owners
        /\ HandlePages(x[1])' < x[2] /\ x[2] <= LastPage(x[1])'
    BY DEF Footprint
  <2>2. HandlePages(x[1])' = HandlePages(x[1])
    BY <2>1 DEF HandlePages
  <2>3. FinalLen(x[1])' \in Nat /\ FinalLen(x[1]) \in Nat /\ FinalLen(x[1])' <= FinalLen(x[1])
    BY <2>1, OwnerEnds, OwnerEndsNext DEF EndsKnown
  <2>4. LastPage(x[1])' <= LastPage(x[1])
    BY <2>3, PagesGrow DEF LastPage
  <2>5. x[2] <= LastPage(x[1])
    <3>1. x[2] \in Int /\ LastPage(x[1])' \in Int /\ LastPage(x[1]) \in Int
      BY <2>1, OwnerEnds, OwnerEndsNext DEF Row, EndsKnown
    <3> QED BY <2>1, <2>4, <3>1
  <2> QED BY <2>1, <2>2, <2>5 DEF Footprint
<1>3. /\ IsFiniteSet(Covered) /\ IsFiniteSet(Footprint)
      /\ Cardinality(Covered') \in Nat /\ Cardinality(Footprint') \in Nat
      /\ Cardinality(Covered') <= Cardinality(Covered)
      /\ Cardinality(Footprint') <= Cardinality(Footprint)
      /\ Cardinality(Covered) \in Nat /\ Cardinality(Footprint) \in Nat
  <2>1. IsFiniteSet(Covered) /\ IsFiniteSet(Footprint)
    BY FootprintFinite, CoveredFinite
  <2>2. Covered' \in SUBSET Covered /\ Footprint' \in SUBSET Footprint
    BY <1>1, <1>2
  <2>3. IsFiniteSet(Covered') /\ IsFiniteSet(Footprint')
        /\ Cardinality(Covered') <= Cardinality(Covered)
        /\ Cardinality(Footprint') <= Cardinality(Footprint)
    BY <2>1, <2>2, FS_Subset
  <2> QED BY <2>1, <2>3, FS_CardinalityType
<1>4. NumPages \in Nat
  BY CapacityAssumption
<1> QED BY <1>3, <1>4 DEF Promised

(* A batch needs only pages that were promised to its requests.            *)
LEMMA NeededArePromised ==
  ASSUME SlotInv, HostInv
  PROVE  /\ NeededPages(NextReqs) \subseteq Footprint \ Places
         /\ \A u \in UidsOf(NextReqs) : req[u].dlen <= FinalLen(u)
<1>1. ASSUME NEW u \in UidsOf(NextReqs) PROVE req[u].dlen <= FinalLen(u)
  <2>1. u \in owners /\ u \in Reqs /\ req[u].dlen \in Nat
    BY LaunchedFit
  <2>2. MaxDevLen(u) \in Int /\ InputLen(u) \in Nat
    BY <2>1, LengthTypes
  <2>3. CASE adder.reqs # <<>>
    <3>1. PICK i \in DOMAIN adder.reqs : u = adder.reqs[i].uid
      BY <2>3 DEF NextReqs, UidsOf
    <3>2. u \in UidsOf(adder.reqs)
      BY <3>1 DEF UidsOf
    <3>3. u \notin running
      BY <3>2, AddedArePending DEF SlotInv, PendingApart
    <3>4. req[u].dlen <= InputLen(u)
      <4>1. i \in 1..Len(adder.reqs)
        BY <3>1 DEF SlotInv, LoopTypes
      <4> QED BY <3>1, <4>1 DEF HostInv, AddedFit
    <3>5. FinalLen(u) = FinalTokens(u)
      BY <3>2, <3>3 DEF FinalLen
    <3> QED BY <2>1, <2>2, <3>4, <3>5, FinalTokensIs
  <2>4. CASE adder.reqs = <<>>
    <3>1. u \in running
      <4>1. IsFiniteSet(running)
        BY RequestAssumption, FS_Subset DEF SlotInv, LoopTypes
      <4>2. SetToSeq(running) \in [1..Cardinality(running) -> running]
        BY <4>1, SetToSeqLists
      <4> QED BY <2>4, <4>2 DEF NextReqs, UidsOf
    <3>2. req[u].dlen < MaxDevLen(u) /\ FinalLen(u) = MaxDevLen(u) - 1
      BY <3>1 DEF HostInv, RunningFits, FinalLen
    <3> QED BY <2>1, <2>2, <3>2
  <2> QED BY <2>3, <2>4
<1>2. ASSUME NEW x \in NeededPages(NextReqs) PROVE x \in Footprint /\ x \notin Places
  <2>1. /\ x \in UidsOf(NextReqs) \X Row /\ x[1] \in UidsOf(NextReqs) /\ x[2] \in Row
        /\ PagesUp(req[x[1]].clen) < x[2] /\ x[2] <= PagesUp(req[x[1]].dlen)
    BY DEF NeededPages
  <2>2. x[1] \in owners /\ req[x[1]].dlen \in Nat /\ x[2] \in Int
    BY <2>1, LaunchedFit DEF Row
  <2>3. /\ FinalLen(x[1]) \in Nat /\ LastPage(x[1]) \in Nat
        /\ HandlePages(x[1]) \in Nat /\ HandlePages(x[1]) <= PagesUp(req[x[1]].clen)
        /\ PagesUp(req[x[1]].clen) \in Nat
    BY <2>2, OwnerEnds
  <2>4. PagesUp(req[x[1]].dlen) <= LastPage(x[1]) /\ PagesUp(req[x[1]].dlen) \in Nat
    BY <1>1, <2>1, <2>2, <2>3, PagesGrow, RoundedPages DEF LastPage
  <2>5. HandlePages(x[1]) < x[2] /\ x[2] <= LastPage(x[1])
    BY <2>1, <2>2, <2>3, <2>4
  <2>6. x \in owners \X Row
    BY <2>1, <2>2
  <2>7. x[2] \notin Private(x[1])
    BY <2>1, <2>2, <2>3 DEF Private
  <2> QED BY <2>5, <2>6, <2>7 DEF Footprint, Places
<1> QED BY <1>1, <1>2

(* What is promised can be found: on the free list or by eviction.         *)
LEMMA EvictorSuffices ==
  ASSUME PoolInv, Promised, lazyFree = <<>>
  PROVE  Cardinality(NeededPages(NextReqs)) <= Len(freePages) + Cardinality(Evictable(kv))
<1>1. SlotInv /\ HostInv /\ LockInv /\ PagesInv
  BY DEF PoolInv, HoldInv
<1> DEFINE N == NeededPages(NextReqs)
           n == Cardinality(N)
           F == Footprint \ Places
           c == Cardinality(Cached(kv))
           v == Cardinality(Covered)
           e == Cardinality(Evictable(kv))
           p == Cardinality(Places)
           f == Cardinality(Footprint)
<1>2. n <= Cardinality(F) /\ n \in Nat
  <2>1. N \in SUBSET F
    BY <1>1, NeededArePromised
  <2>2. IsFiniteSet(F)
    BY <1>1, FootprintFinite, FS_Difference
  <2> QED BY <2>1, <2>2, FS_Subset, FS_CardinalityType
<1>3. Cardinality(F) = f - p /\ p \in Nat /\ f \in Nat
  BY <1>1, PlacesPromised, FootprintFinite
<1>4. e = c - v /\ v \in Nat /\ c \in Nat
  BY <1>1, UncoveredCount, PoolCounts, CoveredFinite
<1>5. Len(freePages) \in Nat /\ Len(freePages) + c + p = NumPages
  BY PoolCounts
<1>6. v + f <= NumPages /\ NumPages \in Nat
  BY CapacityAssumption DEF Promised
<1> HIDE DEF n, c, v, e, p, f
<1>7. n <= Len(freePages) + e
  BY <1>2, <1>3, <1>4, <1>5, <1>6
<1> QED BY <1>7 DEF n, e
-----------------------------------------------------------------------------
(* What PrefillAdder reserves covers what was promised.                    *)

(* The row entries the requests of T were promised and do not have yet.    *)
Reached(T) == [v \in T |-> PagesUp(req[v].clen)]
Ends(T)    == [v \in T |-> LastPage(v)]
Ahead(T)   == Bars(Reached(T), Ends(T), T)

LEMMA RoundingCost ==
  ASSUME NEW a \in Nat, NEW b \in Nat, a <= b
  PROVE  /\ PageSize * (PagesUp(b) - PagesUp(a)) <= b - a + (PageSize - 1)
         /\ PageSize * PagesUp(a) >= a
<1> DEFINE x == PagesUp(a)
           y == PagesUp(b)
           m == PageSize
<1>1. m \in Nat /\ m > 0
  BY PageSizeAssumption
<1>2. x \in Nat /\ y \in Nat /\ a <= x * m
  BY RoundedPages
<1>3. y > 0 => ~(b <= (y - 1) * m)
  <2>1. ASSUME y > 0 PROVE y - 1 \in Nat /\ ~(y <= y - 1)
    BY <1>2, <2>1
  <2>2. \A k \in Nat : b <= k * PageSize <=> PagesUp(b) <= k
    BY RoundedPages
  <2> HIDE DEF x, y
  <2> QED BY <2>1, <2>2 DEF y
<1> HIDE DEF x, y, m
<1>4. (y - 1) * m = y * m - m /\ x * m \in Nat /\ y * m \in Nat
  BY <1>1, <1>2
<1>5. m * (y - x) = y * m - x * m /\ m * x = x * m
  BY <1>1, <1>2
<1>6. y * m <= b + (m - 1)
  <2>1. CASE y = 0
    <3>1. y * m = 0
      BY <1>1, <2>1
    <3> QED BY <1>1, <3>1
  <2>2. CASE y > 0
    <3> DEFINE w == y * m
    <3>1. ~(b <= w - m) /\ w \in Nat
      BY <1>3, <1>4, <2>2
    <3> HIDE DEF w
    <3>2. w <= b + (m - 1)
      BY <1>1, <3>1
    <3> QED BY <3>2 DEF w
  <2> QED BY <1>2, <2>1, <2>2
<1>7. m * (y - x) <= b - a + (m - 1) /\ m * x >= a
  <2> DEFINE w == y * m
             z == x * m
  <2>1. w \in Nat /\ z \in Nat /\ m * (y - x) = w - z /\ m * x = z /\ w <= b + (m - 1) /\ a <= z
    BY <1>2, <1>4, <1>5, <1>6
  <2> HIDE DEF w, z
  <2> QED BY <1>1, <2>1
<1> QED BY <1>7 DEF x, y, m

LEMMA RemainSum ==
  ASSUME IsFiniteSet(running), NEW f \in [running -> Nat], \A v \in running : f[v] = RemainLen(v)
  PROVE  \E g : IsSum(f, running, g) /\ MapThenSumSet(RemainLen, running) = g[running]
<1> DEFINE next(g) == [s \in SUBSET running |->
                         IF s = {} THEN 0 ELSE RemainLen(First(s)) + g[s \ {First(s)}]]
           g0 == CHOOSE g : g = next(g)
<1>1. MapThenSumSet(RemainLen, running) = g0[running]
  BY DEF MapThenSumSet, MapThenFoldSet, First
<1>2. ASSUME NEW g PROVE IsSum(f, running, g) <=> g = next(g)
  <2>1. \A s \in SUBSET running : s # {} => RemainLen(First(s)) = f[First(s)]
    BY DEF First
  <2>2. next(g) = [s \in SUBSET running |->
                     IF s = {} THEN 0 ELSE f[First(s)] + g[s \ {First(s)}]]
    BY <2>1
  <2> HIDE DEF next
  <2> QED BY <2>2 DEF IsSum
<1>3. \E g : g = next(g)
  <2> HIDE DEF next
  <2> QED BY <1>2, SumExists
<1>4. g0 = next(g0)
  <2> HIDE DEF next
  <2> QED BY <1>3
<1> HIDE DEF next, g0
<1> QED BY <1>1, <1>2, <1>4

LEMMA NeedSum ==
  ASSUME NEW T, T = UidsOf(adder.reqs), IsFiniteSet(T), NEW f \in [T -> Nat],
         \A v \in T : f[v] = AdderNeed(v)
  PROVE  \E g : IsSum(f, T, g) /\ MapThenSumSet(AdderNeed, UidsOf(adder.reqs)) = g[T]
<1> DEFINE next(g) == [s \in SUBSET T |->
                         IF s = {} THEN 0 ELSE AdderNeed(First(s)) + g[s \ {First(s)}]]
           g0 == CHOOSE g : g = next(g)
<1>1. MapThenSumSet(AdderNeed, UidsOf(adder.reqs)) = g0[T]
  <2>1. MapThenSumSet(AdderNeed, T) = g0[T]
    BY DEF MapThenSumSet, MapThenFoldSet, First
  <2> QED BY <2>1
<1>2. ASSUME NEW g PROVE IsSum(f, T, g) <=> g = next(g)
  <2>1. \A s \in SUBSET T : s # {} => AdderNeed(First(s)) = f[First(s)]
    BY DEF First
  <2>2. next(g) = [s \in SUBSET T |->
                     IF s = {} THEN 0 ELSE f[First(s)] + g[s \ {First(s)}]]
    BY <2>1
  <2> HIDE DEF next
  <2> QED BY <2>2 DEF IsSum
<1>3. \E g : g = next(g)
  <2> HIDE DEF next
  <2> QED BY <1>2, SumExists
<1>4. g0 = next(g0)
  <2> HIDE DEF next
  <2> QED BY <1>3
<1> HIDE DEF next, g0
<1> QED BY <1>1, <1>2, <1>4

(* A running request may have to round its last page up: inflight_tokens   *)
(* adds page_size - 1 for each.                                            *)
LEMMA RunningReserved ==
  ASSUME SlotInv, HostInv, RunningStep
  PROVE  /\ InflightTokens \in Nat /\ IsFiniteSet(Ahead(running))
         /\ PageSize * Cardinality(Ahead(running)) <= InflightTokens
<1> DEFINE S  == running
           f  == [v \in S |-> RemainLen(v)]
           lo == Reached(S)
           hi == Ends(S)
           c  == PageSize - 1
<1>1. IsFiniteSet(S) /\ S \subseteq owners /\ S \subseteq Reqs
  BY RequestAssumption, FS_Subset DEF SlotInv, LoopTypes, PendingApart
<1>2. PageSize \in Nat /\ c \in Nat
  BY PageSizeAssumption
<1>3. ASSUME NEW v \in S
      PROVE  /\ f[v] \in Nat /\ f[v] = RemainLen(v) /\ lo[v] \in Nat /\ hi[v] \in Nat
             /\ lo[v] <= hi[v] /\ PageSize * (hi[v] - lo[v]) <= f[v] + c
  <2>1. v \in owners /\ v \in Reqs /\ req[v].dlen = req[v].clen + 1 /\ req[v].dlen < MaxDevLen(v)
        /\ MaxDevLen(v) \in Int /\ FinalLen(v) = MaxDevLen(v) - 1
    BY <1>1, LengthTypes DEF RunningStep, HostInv, RunningFits, FinalLen
  <2>2. /\ FinalLen(v) \in Nat /\ req[v].clen \in Nat /\ req[v].clen <= FinalLen(v)
        /\ LastPage(v) \in Nat /\ PagesUp(req[v].clen) \in Nat
        /\ PagesUp(req[v].clen) <= LastPage(v)
    BY <2>1, OwnerEnds
  <2>3. PageSize * (LastPage(v) - PagesUp(req[v].clen))
          <= FinalLen(v) - req[v].clen + (PageSize - 1)
    BY <2>2, RoundingCost DEF LastPage
  <2>4. FinalLen(v) - req[v].clen = RemainLen(v) /\ RemainLen(v) \in Nat
    BY <2>1, <2>2 DEF RemainLen
  <2>5. lo[v] = PagesUp(req[v].clen) /\ hi[v] = LastPage(v) /\ f[v] = RemainLen(v)
    BY DEF Reached, Ends
  <2> HIDE DEF f, lo, hi
  <2> QED BY <2>2, <2>3, <2>4, <2>5
<1>4. f \in [S -> Nat] /\ lo \in [S -> Nat] /\ hi \in [S -> Nat]
  <2>1. f = [v \in S |-> f[v]] /\ lo = [v \in S |-> lo[v]] /\ hi = [v \in S |-> hi[v]]
    BY DEF Reached, Ends
  <2> HIDE DEF f, lo, hi
  <2> QED BY <1>3, <2>1
<1> HIDE DEF f, lo, hi, c
<1>5. PICK g : IsSum(f, S, g) /\ MapThenSumSet(RemainLen, running) = g[S]
  BY <1>1, <1>3, <1>4, RemainSum
<1>6. g[S] \in Nat /\ PageSize * Cardinality(Bars(lo, hi, S)) <= g[S] + c * Cardinality(S)
  BY <1>1, <1>2, <1>3, <1>4, <1>5, SumCovers
<1>7. IsFiniteSet(Bars(lo, hi, S))
  BY <1>1, <1>3, <1>4, BarsFinite
<1>8. InflightTokens = g[S] + c * Cardinality(S)
  BY <1>5 DEF InflightTokens, c
<1>9. c * Cardinality(S) \in Nat
  BY <1>1, <1>2, FS_CardinalityType
<1> QED BY <1>6, <1>7, <1>8, <1>9 DEF Ahead, lo, hi

(* A request added in this round was counted with the whole of its input   *)
(* and output: its pages are no more, as long as rounding fits.            *)
LEMMA AddedReserved ==
  ASSUME SlotInv, HostInv, RoundingFits
  PROVE  LET T   == UidsOf(adder.reqs)
             sum == MapThenSumSet(AdderNeed, UidsOf(adder.reqs))
         IN  /\ sum \in Nat /\ IsFiniteSet(Ahead(T))
             /\ PageSize * Cardinality(Ahead(T)) <= sum
<1> DEFINE T  == UidsOf(adder.reqs)
           f  == [v \in T |-> AdderNeed(v)]
           lo == Reached(T)
           hi == Ends(T)
<1>1. IsFiniteSet(T) /\ T \subseteq owners
  BY AddedArePending, OwnersFinite, FS_Subset
<1>2. PageSize \in Nat
  BY PageSizeAssumption
<1>3. ASSUME NEW v \in T
      PROVE  /\ f[v] \in Nat /\ f[v] = AdderNeed(v) /\ lo[v] \in Nat /\ hi[v] \in Nat
             /\ lo[v] <= hi[v] /\ PageSize * (hi[v] - lo[v]) <= f[v] + 0
  <2>1. v \in owners /\ v \in Reqs /\ v \in ToSet(pending) /\ v \notin running
    BY AddedArePending DEF SlotInv, LoopTypes, PendingApart
  <2>2. InputLen(v) < MaxSeqLen /\ FinalLen(v) = FinalTokens(v)
    BY <2>1 DEF HostInv, PendingFits, FinalLen
  <2>3. /\ FinalLen(v) \in Nat /\ req[v].clen \in Nat /\ req[v].clen <= FinalLen(v)
        /\ LastPage(v) \in Nat /\ PagesUp(req[v].clen) \in Nat
        /\ PagesUp(req[v].clen) <= LastPage(v)
    BY <2>1, OwnerEnds
  <2>4. LastPage(v) * PageSize <= MaxDevLen(v) /\ MaxDevLen(v) \in Int
    BY <2>1, <2>2, LengthTypes DEF RoundingFits, LastPage
  <2>5. PageSize * PagesUp(req[v].clen) >= req[v].clen
    BY <2>3, RoundingCost
  <2>6. AdderNeed(v) = MaxDevLen(v) - req[v].clen
    <3>1. InputLen(v) \in Nat /\ OutLen(v) \in Int
      BY <2>1, LengthTypes, OutLenType
    <3> QED BY <2>3, <3>1 DEF AdderNeed, MaxDevLen
  <2>7. lo[v] = PagesUp(req[v].clen) /\ hi[v] = LastPage(v) /\ f[v] = AdderNeed(v)
    BY DEF Reached, Ends
  <2> DEFINE a == PagesUp(req[v].clen)
             b == LastPage(v)
             n == req[v].clen
  <2>8. PageSize * (b - a) = b * PageSize - PageSize * a /\ b * PageSize \in Nat
        /\ PageSize * a \in Nat /\ PageSize * (b - a) \in Nat
    BY <1>2, <2>3
  <2>9. a \in Nat /\ b \in Nat /\ a <= b /\ n \in Nat /\ b * PageSize <= MaxDevLen(v)
        /\ PageSize * a >= n /\ f[v] = MaxDevLen(v) - n /\ lo[v] = a /\ hi[v] = b
        /\ f[v] = AdderNeed(v)
    BY <2>3, <2>4, <2>5, <2>6, <2>7
  <2> HIDE DEF a, b, n, f, lo, hi
  <2> DEFINE p == b * PageSize
             q == PageSize * a
  <2>10. /\ PageSize * (hi[v] - lo[v]) = p - q /\ p \in Nat /\ q \in Nat /\ p - q \in Nat
         /\ p <= MaxDevLen(v) /\ q >= n
    BY <2>8, <2>9
  <2> HIDE DEF p, q
  <2> QED BY <2>4, <2>9, <2>10
<1>4. f \in [T -> Nat] /\ lo \in [T -> Nat] /\ hi \in [T -> Nat]
  <2>1. f = [v \in T |-> f[v]] /\ lo = [v \in T |-> lo[v]] /\ hi = [v \in T |-> hi[v]]
    BY DEF Reached, Ends
  <2> HIDE DEF f, lo, hi
  <2> QED BY <1>3, <2>1
<1> HIDE DEF f, lo, hi
<1>5. PICK g : IsSum(f, T, g) /\ MapThenSumSet(AdderNeed, UidsOf(adder.reqs)) = g[T]
  BY <1>1, <1>3, <1>4, NeedSum
<1> HIDE DEF T
<1>6. g[T] \in Nat /\ PageSize * Cardinality(Bars(lo, hi, T)) <= g[T] + 0 * Cardinality(T)
  BY <1>1, <1>2, <1>3, <1>4, <1>5, SumCovers
<1>7. IsFiniteSet(Bars(lo, hi, T))
  BY <1>1, <1>3, <1>4, BarsFinite
<1>8. 0 * Cardinality(T) = 0
  BY <1>1, FS_CardinalityType
<1> QED BY <1>5, <1>6, <1>7, <1>8 DEF Ahead, lo, hi, T
-----------------------------------------------------------------------------
(* _add_one_req puts one entry at the end of the adder's list.             *)
LEMMA AddedUids ==
  ASSUME SlotInv, NEW u \in Reqs, NEW slot, NEW clen, NEW handle, NEW from,
         AddOneReq(u, slot, clen, handle, from)
  PROVE  /\ UidsOf(adder'.reqs) = UidsOf(adder.reqs) \cup {u}
         /\ chunked' \subseteq chunked \cup {u} /\ chunked \subseteq chunked' \cup {u}
<1> DEFINE q == adder.reqs
           n == Len(q)
<1>1. q \in Seq([uid : Reqs, chunk : BOOLEAN])
  BY DEF SlotInv, LoopTypes
<1> DEFINE c == ChunkSize(u, clen) < InputLen(u) - clen
           e == [uid |-> u, chunk |-> c]
<1>2. e.uid = u /\ e \in [uid : Reqs, chunk : BOOLEAN] /\ adder'.reqs = Append(q, e)
  <2>1. adder'.reqs = Append(q, e)
    BY DEF AddOneReq
  <2>2. e.uid = u /\ e \in [uid : Reqs, chunk : BOOLEAN]
    <3>1. c \in BOOLEAN
      OBVIOUS
    <3> HIDE DEF c
    <3> QED BY <3>1
  <2> QED BY <2>1, <2>2
<1> HIDE DEF e
<1>3. /\ n \in Nat /\ DOMAIN q = 1..n /\ DOMAIN adder'.reqs = 1..(n + 1)
      /\ adder'.reqs[n + 1] = e /\ \A i \in 1..n : adder'.reqs[i] = q[i]
  BY <1>1, <1>2
<1> HIDE DEF q, n
<1>4. 1..(n + 1) = 1..n \cup {n + 1}
  BY <1>3
<1>5. {adder'.reqs[i].uid : i \in 1..(n + 1)} = {q[i].uid : i \in 1..n} \cup {u}
  BY <1>2, <1>3, <1>4
<1>6. UidsOf(adder'.reqs) = UidsOf(adder.reqs) \cup {u}
  BY <1>3, <1>5 DEF UidsOf, q
<1>7. chunked' \subseteq chunked \cup {u} /\ chunked \subseteq chunked' \cup {u}
  BY DEF AddOneReq
<1> QED BY <1>6, <1>7

(* The cut request is the first the adder looks at.                        *)
LEMMA AddingKeepsCut ==
  ASSUME SlotInv, CutFirst, MorePending, NEW u \in Reqs, u = NextPending, adder.budget > 0,
         UidsOf(adder'.reqs) = UidsOf(adder.reqs) \cup {u},
         chunked' \subseteq chunked \cup {u}
  PROVE  CutFirst'
<1> SUFFICES ASSUME NEW v \in chunked', v \notin UidsOf(adder'.reqs) PROVE FALSE
  BY DEF CutFirst
<1>1. v \in chunked /\ v \notin UidsOf(adder.reqs) /\ v # u
  OBVIOUS
<1>2. adder.reqs = <<>> /\ v = pending[1]
  BY <1>1 DEF CutFirst
<1>3. u = pending[Len(adder.reqs) + 1]
  BY DEF NextPending
<1>4. Len(adder.reqs) + 1 = 1
  BY <1>2
<1> QED BY <1>1, <1>2, <1>3, <1>4

(* A newly admitted request: what try_add_one checked and what it changed. *)
LEMMA AddNewIs ==
  ASSUME SlotInv, HostInv, LockInv, PagesInv, NEW u \in Reqs, AddNew(u)
  PROVE  LET h == MatchReq(u)
         IN  /\ HostInv' /\ LockInv' /\ u \notin owners /\ u \notin chunked
             /\ pc = "admit" /\ lazyFree = <<>>
             /\ owners' = owners \cup {u} /\ kv' = LockHandle(kv, h)
             /\ chunked \subseteq UidsOf(adder.reqs) \/ ~CutFirst
             /\ UidsOf(adder'.reqs) = UidsOf(adder.reqs) \cup {u}
             /\ chunked' \subseteq chunked \cup {u} /\ chunked \subseteq chunked'
             /\ running' = running /\ u \notin running /\ freePages' = freePages
             /\ \A v \in owners : req'[v] = req[v]
             /\ req'[u].handle = h /\ InputLen(u) < MaxSeqLen
             /\ InputLen(u) - Len(h) + OutLen(u) + ReservedSize <= AvailableSize(LockHandle(kv, h))
<1> DEFINE h    == MatchReq(u)
           slot == Last(freeSlots)
<1>1. /\ MorePending /\ u = NextPending /\ adder.budget > 0 /\ u \notin chunked
      /\ AddOneReq(u, slot, Len(h), h, 0) /\ HasRoom(u) /\ pc = "admit"
      /\ owners' = owners \cup {u} /\ kv' = LockHandle(kv, h)
      /\ UNCHANGED <<pending, running, inflight, todo, freePages>>
  BY DEF AddNew, CanAdd
<1>2. HostInv' /\ LockInv' /\ u \notin owners
  BY AddNewKeepsLocks
<1>3. /\ h \in Seq(Token) /\ Whole(h) /\ IsPrefix(h, Prompt[u]) /\ Len(h) \in Nat
      /\ Len(h) < InputLen(u) /\ Len(h) <= Len(h)
  BY MatchedPrompt
<1>4. req'[u].handle = h /\ \A v \in Reqs \ {u} : req'[v] = req[v]
  <2> HIDE DEF h, slot
  <2> QED BY <1>1, <1>3, AddingKeepsHost
<1>5. \A v \in owners : req'[v] = req[v]
  BY <1>2, <1>4 DEF SlotInv, LoopTypes
<1>6. /\ u = pending[Len(adder.reqs) + 1] /\ Len(adder.reqs) + 1 \in 1..Len(pending)
      /\ Len(adder.reqs) \in Nat
  BY <1>1, NextIsPending, Zenon
<1>7. u \in ToSet(pending)
  <2>1. DOMAIN pending = 1..Len(pending)
    BY DEF SlotInv, LoopTypes
  <2> QED BY <1>6, <2>1 DEF ToSet
<1>8. u \notin running /\ InputLen(u) < MaxSeqLen
  BY <1>7 DEF SlotInv, PendingApart, HostInv, PendingFits
<1>9. chunked \subseteq UidsOf(adder.reqs) \/ ~CutFirst
  <2> SUFFICES ASSUME CutFirst, NEW v \in chunked, v \notin UidsOf(adder.reqs) PROVE FALSE
    OBVIOUS
  <2>1. adder.reqs = <<>> /\ v = pending[1]
    BY DEF CutFirst
  <2>2. Len(adder.reqs) + 1 = 1
    BY <2>1
  <2> QED BY <1>1, <1>6, <2>1, <2>2
<1>10. UidsOf(adder'.reqs) = UidsOf(adder.reqs) \cup {u}
  <2> HIDE DEF h, slot
  <2> QED BY <1>1, AddedUids
<1>11. chunked' \subseteq chunked \cup {u} /\ chunked \subseteq chunked'
  BY <1>1 DEF AddOneReq
<1>12. InputLen(u) - Len(h) + OutLen(u) + ReservedSize <= AvailableSize(LockHandle(kv, h))
  BY <1>1 DEF HasRoom
<1>13. lazyFree = <<>>
  BY <1>1 DEF PagesInv
<1> HIDE DEF h, slot
<1> QED BY <1>1, <1>2, <1>4, <1>5, <1>8, <1>9, <1>10, <1>11, <1>12, <1>13 DEF h

(* The entries promised after the step and not filled yet are those ahead  *)
(* of the running requests, of the added ones and of the new one.          *)
LEMMA NewFootprint ==
  ASSUME SlotInv, HostInv, LockInv, PagesInv, CutFirst, NEW u \in Reqs, AddNew(u)
  PROVE  LET a == PagesDown(Len(MatchReq(u)))
             b == PagesUp(FinalTokens(u))
         IN  /\ a \in Nat /\ b \in Nat /\ a <= b
             /\ Footprint' \ Places \subseteq
                  (Ahead(running) \cup Ahead(UidsOf(adder.reqs))) \cup ({u} \X ((a + 1)..b))
<1> DEFINE a == PagesDown(Len(MatchReq(u)))
           b == PagesUp(FinalTokens(u))
           T == UidsOf(adder.reqs)
<1>1. /\ u \notin owners /\ owners' = owners \cup {u} /\ running' = running /\ u \notin running
      /\ UidsOf(adder'.reqs) = T \cup {u} /\ chunked' \subseteq chunked \cup {u}
      /\ chunked \subseteq T
      /\ \A v \in owners : req'[v] = req[v]
      /\ req'[u].handle = MatchReq(u)
  BY AddNewIs
<1>2. /\ Len(MatchReq(u)) \in Nat /\ Len(MatchReq(u)) < InputLen(u) /\ InputLen(u) \in Nat
      /\ FinalTokens(u) \in Nat /\ FinalTokens(u) >= InputLen(u)
  BY MatchedPrompt, LengthTypes, FinalTokensIs
<1>3. a \in Nat /\ b \in Nat /\ a <= b
  BY <1>2, WholePages, RoundedPages, PagesGrow
<1>4. T \subseteq owners /\ running \subseteq owners
  BY AddedArePending DEF SlotInv, PendingApart
<1> HIDE DEF T
<1>5. ASSUME NEW x \in Footprint', x \notin Places
      PROVE  x \in (Ahead(running) \cup Ahead(T)) \cup ({u} \X ((a + 1)..b))
  <2>1. /\ x \in owners' \X Row /\ x = <<x[1], x[2]>> /\ x[1] \in owners' /\ x[2] \in Row
        /\ HandlePages(x[1])' < x[2] /\ x[2] <= LastPage(x[1])'
    BY <1>5 DEF Footprint
  <2>2. x[2] \in Nat
    BY <2>1 DEF Row
  <2>3. CASE x[1] = u
    <3>1. HandlePages(u)' = a
      BY <1>1 DEF HandlePages
    <3>2. FinalLen(u)' = FinalTokens(u)
      BY <1>1 DEF FinalLen
    <3>3. LastPage(u)' = b
      BY <3>2 DEF LastPage
    <3>4. a < x[2] /\ x[2] <= b
      BY <2>1, <2>3, <3>1, <3>3
    <3> HIDE DEF a, b
    <3>5. x[2] \in (a + 1)..b
      BY <1>3, <2>2, <3>4
    <3> QED BY <2>1, <2>3, <3>5
  <2>4. CASE x[1] # u
    <3> DEFINE v == x[1]
    <3>1. v \in owners /\ req'[v] = req[v] /\ v \in owners
      BY <1>1, <2>1, <2>4
    <3>2. HandlePages(v)' = HandlePages(v)
      BY <3>1 DEF HandlePages
    <3>3. FinalLen(v)' = FinalLen(v)
      <4>1. v \in chunked' \cup UidsOf(adder'.reqs) <=> v \in chunked \cup UidsOf(adder.reqs)
        BY <1>1, <2>4 DEF T
      <4> QED BY <1>1, <3>1, <4>1 DEF FinalLen
    <3>4. LastPage(v)' = LastPage(v)
      BY <3>3 DEF LastPage
    <3>5. HandlePages(v) < x[2] /\ x[2] <= LastPage(v)
      BY <2>1, <3>2, <3>4
    <3>6. PagesUp(req[v].clen) \in Nat /\ HandlePages(v) \in Nat /\ LastPage(v) \in Nat
      BY <3>1, OwnerEnds
    <3>7. PagesUp(req[v].clen) < x[2]
      <4>1. SUFFICES ASSUME x[2] <= PagesUp(req[v].clen) PROVE FALSE
        BY <2>2, <3>6
      <4>2. x[2] \in Private(v)
        BY <2>2, <3>5, <3>6, <4>1 DEF Private, HandlePages
      <4> QED BY <1>5, <2>1, <3>1, <4>2 DEF Places
    <3>8. v \in running \/ v \in T
      <4>1. SUFFICES ASSUME v \notin running, v \notin T PROVE FALSE
        OBVIOUS
      <4>2. FinalLen(v) = req[v].clen
        BY <1>1, <4>1 DEF FinalLen, T
      <4>3. LastPage(v) = PagesUp(req[v].clen)
        BY <4>2 DEF LastPage
      <4> QED BY <2>2, <3>5, <3>6, <3>7, <4>3
    <3>9. ASSUME NEW S, v \in S PROVE x \in Ahead(S)
      <4>1. x \in S \X Nat
        BY <2>1, <2>2, <3>9
      <4>2. Reached(S)[v] = PagesUp(req[v].clen) /\ Ends(S)[v] = LastPage(v)
        BY <3>9 DEF Reached, Ends
      <4>3. Reached(S)[x[1]] < x[2] /\ x[2] <= Ends(S)[x[1]]
        BY <3>5, <3>7, <4>2
      <4> QED BY <4>1, <4>3 DEF Ahead, Bars
    <3> QED BY <3>8, <3>9
  <2> QED BY <2>3, <2>4
<1> HIDE DEF a, b
<1>6. Footprint' \ Places \subseteq (Ahead(running) \cup Ahead(T)) \cup ({u} \X ((a + 1)..b))
  BY <1>5
<1> QED BY <1>3, <1>6 DEF a, b, T

(* The pages eviction can give back once the new handle is locked.         *)
LEMMA EvictableAfter ==
  ASSUME SlotInv, HostInv, LockInv, PagesInv, NEW u \in Reqs, AddNew(u), SlotInv', PagesInv'
  PROVE  LET e == Cardinality(Evictable(kv'))
             v == Cardinality(Covered')
         IN  /\ e = Cardinality(Cached(kv)) - v /\ v \in Nat /\ e \in Nat
             /\ Len(freePages) \in Nat /\ IsFiniteSet(Footprint')
<1>1. LockInv' /\ HostInv' /\ kv' = LockHandle(kv, MatchReq(u))
  BY AddNewIs
<1>2. Cached(kv') = Cached(kv)
  BY <1>1 DEF LockHandle, Cached
<1>3. IsFiniteSet(Cached(kv))
  BY CoveredFinite
<1>4. Covered' \subseteq Cached(kv') /\ Evictable(kv') = Cached(kv') \ Covered'
  <2>1. Sound(Token, kv', Handles')
    BY <1>1 DEF LockInv
  <2>2. Covered' = UNION {PagePrefixes(Handles'[r]) : r \in DOMAIN Handles'}
    BY DEF Covered, Handles
  <2> QED BY <2>1, <2>2, UncoveredEvictable
<1> DEFINE V == Covered'
           E == Evictable(kv')
           K == Cached(kv)
<1>5. V \subseteq K /\ E = K \ V /\ K \cap V = V
  BY <1>2, <1>4
<1> HIDE DEF V, E, K
<1>6. IsFiniteSet(K) /\ IsFiniteSet(V) /\ IsFiniteSet(E)
  BY <1>3, <1>5, FS_Subset, FS_Difference DEF K
<1>7. Cardinality(E) = Cardinality(K) - Cardinality(V)
  BY <1>5, <1>6, FS_Difference
<1>8. Cardinality(E) \in Nat /\ Cardinality(V) \in Nat
  BY <1>6, FS_CardinalityType
<1>9. IsFiniteSet(Footprint')
  BY OwnersFiniteNext, FS_Subset DEF Footprint, RowsFinite
<1>10. Len(freePages) \in Nat
  BY LenProperties DEF PagesInv
<1> QED BY <1>7, <1>8, <1>9, <1>10 DEF V, E, K

(* The second size check, taken with the matched prefix locked, is what    *)
(* the promise to the new request needs.                                   *)
LEMMA AddNewKeepsPromise ==
  ASSUME RoundingFits, PoolInv, AdmitInv, NEW u \in Reqs, AddNew(u), SlotInv', PagesInv'
  PROVE  Promised'
<1>0. /\ SlotInv /\ HostInv /\ LockInv /\ PagesInv /\ CutFirst /\ RunningStep
      /\ HostInv' /\ LockInv' /\ lazyFree = <<>>
  BY AddNewIs DEF PoolInv, HoldInv, AdmitInv
<1> DEFINE h  == MatchReq(u)
           a  == PagesDown(Len(h))
           b  == PagesUp(FinalTokens(u))
           A  == Ahead(running)
           B  == Ahead(UidsOf(adder.reqs))
           C  == {u} \X ((a + 1)..b)
           D  == Footprint' \ Places
           m  == PageSize
           nA == Cardinality(A)
           nB == Cardinality(B)
           nC == Cardinality(C)
           sR == InflightTokens
           sA == MapThenSumSet(AdderNeed, UidsOf(adder.reqs))
           e  == Cardinality(Evictable(kv'))
           l  == Len(freePages)
<1>1. /\ kv' = LockHandle(kv, h) /\ InputLen(u) < MaxSeqLen
      /\ InputLen(u) - Len(h) + OutLen(u) + ReservedSize <= AvailableSize(LockHandle(kv, h))
  BY <1>0, AddNewIs
<1>2. a \in Nat /\ b \in Nat /\ a <= b /\ D \subseteq (A \cup B) \cup C
  BY <1>0, NewFootprint
<1>3. sR \in Nat /\ IsFiniteSet(A) /\ m * nA <= sR
  BY <1>0, RunningReserved
<1>4. sA \in Nat /\ IsFiniteSet(B) /\ m * nB <= sA
  BY <1>0, AddedReserved
<1>5. IsFiniteSet(C) /\ nC = b - a
  <2> HIDE DEF a, b
  <2> QED BY <1>2, OneBar
<1>6. /\ Cardinality(D) <= nA + nB + nC /\ nA \in Nat /\ nB \in Nat /\ nC \in Nat
      /\ Cardinality(D) \in Nat /\ IsFiniteSet(D)
  <2> HIDE DEF A, B, C, D
  <2> QED BY <1>2, <1>3, <1>4, <1>5, UnionBound
<1>7. m \in Nat /\ m > 0
  BY PageSizeAssumption
<1>8. m * nC <= InputLen(u) - Len(h) + OutLen(u)
  <2>1. Len(h) = a * m /\ Len(h) \in Nat
    <3>1. Whole(h) /\ Len(h) \in Nat
      BY MatchedPrompt
    <3>2. PICK k \in Nat : Len(h) = k * PageSize
      BY <3>1 DEF Whole
    <3>3. a = k
      BY <3>2, WholePagesRound
    <3> QED BY <3>1, <3>2, <3>3
  <2>2. b * m <= MaxDevLen(u)
    BY <1>1 DEF RoundingFits
  <2>3. MaxDevLen(u) = InputLen(u) + OutLen(u) /\ InputLen(u) \in Nat /\ OutLen(u) \in Int
    BY OutLenType, LengthTypes
  <2> HIDE DEF a, b, C, h, m, nC
  <2>4. m * nC = b * m - a * m /\ b * m \in Nat /\ a * m \in Nat
    BY <1>2, <1>5, <1>7 DEF nC
  <2> DEFINE x == b * m
             y == a * m
  <2>5. m * nC = x - y /\ x \in Nat /\ y \in Nat /\ Len(h) = y /\ x <= MaxDevLen(u)
    BY <2>1, <2>2, <2>4
  <2> HIDE DEF x, y
  <2> QED BY <2>3, <2>5
<1>9. m * (nA + nB + nC) <= (e + l) * m
  <2>1. AvailableSize(LockHandle(kv, h)) = (e + l) * m
    BY <1>1 DEF AvailableSize
  <2>2. ReservedSize = sR + sA
    BY DEF ReservedSize
  <2>3. m * (nA + nB + nC) = m * nA + m * nB + m * nC
    <3> HIDE DEF nA, nB, nC, m
    <3> QED BY <1>6, <1>7
  <2> DEFINE x == m * nA
             y == m * nB
             z == m * nC
             w == (e + l) * m
             d == InputLen(u) - Len(h) + OutLen(u)
  <2>4. /\ x \in Nat /\ y \in Nat /\ z \in Nat /\ x <= sR /\ y <= sA /\ z <= d
    <3> HIDE DEF nA, nB, nC, m
    <3> QED BY <1>3, <1>4, <1>6, <1>7, <1>8
  <2>5. d + (sR + sA) <= w
    BY <1>1, <2>1, <2>2
  <2>6. d \in Int /\ w \in Int
    <3>1. InputLen(u) \in Nat /\ OutLen(u) \in Int /\ Len(h) \in Nat
      BY OutLenType, LengthTypes, MatchedPrompt
    <3>2. e \in Nat /\ l \in Nat
      BY <1>0, EvictableAfter
    <3> HIDE DEF e, l, h, m
    <3> QED BY <1>7, <3>1, <3>2
  <2> HIDE DEF x, y, z, w, d, sR, sA
  <2>7. x + y + z <= w
    BY <1>3, <1>4, <2>4, <2>5, <2>6
  <2> QED BY <2>3, <2>7 DEF x, y, z, w
<1>10. nA + nB + nC <= e + l
  <2>1. e + l \in Nat /\ nA + nB + nC \in Nat
    <3>1. e \in Nat /\ l \in Nat
      BY <1>0, EvictableAfter
    <3> HIDE DEF e, l, nA, nB, nC
    <3> QED BY <1>6, <3>1
  <2> DEFINE x == nA + nB + nC
             y == e + l
  <2>2. m * x <= y * m /\ x \in Nat /\ y \in Nat
    BY <1>9, <2>1
  <2> HIDE DEF x, y
  <2>3. x * PageSize <= y * PageSize
    BY <1>7, <2>2
  <2>4. x <= y
    BY <2>2, <2>3, PageProducts
  <2> QED BY <2>4 DEF x, y
<1> DEFINE c == Cardinality(Cached(kv))
           v == Cardinality(Covered')
           p == Cardinality(Places)
           F == Footprint'
<1>11. e = c - v /\ v \in Nat /\ e \in Nat /\ IsFiniteSet(F)
  BY <1>0, <1>1, EvictableAfter
<1>12. l \in Nat /\ c \in Nat /\ p \in Nat /\ l + c + p = NumPages
  BY <1>0, PoolCounts
<1>13. Cardinality(F) <= p + Cardinality(D) /\ Cardinality(F) \in Nat
  <2>1. IsFiniteSet(Places)
    BY <1>0, PlacesPromised
  <2>2. F \subseteq (Places \cup D) \cup {}
    OBVIOUS
  <2>3. IsFiniteSet({}) /\ Cardinality({}) = 0
    BY FS_EmptySet
  <2> HIDE DEF F, D
  <2>4. Cardinality(F) <= Cardinality(Places) + Cardinality(D) + Cardinality({})
        /\ Cardinality(F) \in Nat
    BY <1>6, <2>1, <2>2, <2>3, UnionBound
  <2> QED BY <1>6, <1>12, <2>3, <2>4
<1>14. v + Cardinality(F) <= NumPages
  <2> HIDE DEF c, v, p, F, D, nA, nB, nC, e, l
  <2> QED BY <1>6, <1>10, <1>11, <1>12, <1>13
<1>15. NumPages' = NumPages
  OBVIOUS
<1> QED BY <1>14 DEF Promised
-----------------------------------------------------------------------------
(* The other steps.                                                        *)

(* Who runs, waits or was added can only become fewer: ends come closer.   *)
LEMMA EndsShrink ==
  ASSUME SlotInv, HostInv, NEW v \in owners, running' \subseteq running,
         chunked' \subseteq chunked, adder' = adder, req'[v].clen = req[v].clen
  PROVE  FinalLen(v)' <= FinalLen(v)
<1>1. /\ v \in Reqs /\ FinalLen(v) \in Nat /\ req[v].clen \in Nat /\ req[v].clen <= FinalLen(v)
  BY OwnerEnds DEF SlotInv, LoopTypes
<1>2. v \in running => v \notin chunked \cup UidsOf(adder.reqs)
  BY AddedArePending DEF SlotInv, PendingApart
<1>3. CASE v \in running'
  <2>1. FinalLen(v)' = FinalLen(v)
    BY <1>3 DEF FinalLen
  <2> QED BY <1>1, <2>1
<1>4. CASE v \notin running' /\ v \in chunked' \cup UidsOf(adder'.reqs)
  <2>1. v \notin running
    BY <1>2, <1>4
  <2>2. FinalLen(v)' = FinalLen(v)
    BY <1>4, <2>1 DEF FinalLen
  <2> QED BY <1>1, <2>2
<1>5. CASE v \notin running' /\ v \notin chunked' \cup UidsOf(adder'.reqs)
  <2>1. FinalLen(v)' = req[v].clen
    BY <1>5 DEF FinalLen
  <2> QED BY <1>1, <2>1
<1> QED BY <1>3, <1>4, <1>5

(* A step that admits nobody and moves no boundary keeps the invariant.    *)
LEMMA QuietAdmits ==
  ASSUME SlotInv, HostInv, LockInv, PagesInv, AdmitInv, SlotInv', HostInv',
         owners' \subseteq owners, running' \subseteq running, chunked' \subseteq chunked,
         adder' = adder,
         \A v \in owners' : /\ req'[v].handle = req[v].handle
                            /\ req'[v].clen = req[v].clen /\ req'[v].dlen = req[v].dlen,
         \A v \in chunked' : v = pending[1] => v = pending'[1]
  PROVE  AdmitInv'
<1>1. \A v \in owners' : FinalLen(v)' <= FinalLen(v)
  BY EndsShrink
<1>2. Promised'
  BY <1>1, PromisedStays DEF AdmitInv
<1>3. CutFirst'
  BY DEF AdmitInv, CutFirst
<1>4. RunningStep'
  <2>1. running' \subseteq owners'
    BY DEF SlotInv, PendingApart
  <2> QED BY <2>1 DEF AdmitInv, RunningStep
<1> QED BY <1>2, <1>3, <1>4 DEF AdmitInv

LEMMA AddChunkKeepsAdmission ==
  ASSUME PoolInv, AdmitInv, NEW u \in Reqs, AddChunk(u), SlotInv', HostInv'
  PROVE  AdmitInv'
<1>0. SlotInv /\ HostInv /\ LockInv /\ PagesInv
  BY DEF PoolInv, HoldInv
<1>1. /\ MorePending /\ u = NextPending /\ adder.budget > 0 /\ u \in chunked
      /\ AddOneReq(u, req[u].slot, req[u].clen, req[u].handle, req[u].clen)
      /\ UNCHANGED <<pending, running, owners>>
  BY DEF AddChunk, CanAdd
<1>2. /\ UidsOf(adder'.reqs) = UidsOf(adder.reqs) \cup {u}
      /\ chunked' \subseteq chunked \cup {u} /\ chunked \subseteq chunked' \cup {u}
  BY <1>0, <1>1, AddedUids
<1>3. u \in owners /\ u \notin running /\ u \in ToSet(pending)
  BY <1>0, <1>1 DEF SlotInv, PendingApart
<1>4. \A v \in Reqs : v # u => req'[v] = req[v]
  BY <1>0, <1>1 DEF AddOneReq, SlotInv, LoopTypes
<1>5. req'[u].handle = req[u].handle /\ req'[u].clen = req[u].clen
  BY <1>0, <1>1 DEF AddOneReq, SlotInv, LoopTypes
<1>6. owners \subseteq Reqs
  BY <1>0 DEF SlotInv, LoopTypes
<1>7. ASSUME NEW v \in owners PROVE FinalLen(v)' = FinalLen(v)
  <2>1. v \in chunked' \cup UidsOf(adder'.reqs) <=> v \in chunked \cup UidsOf(adder.reqs)
    BY <1>1, <1>2
  <2>2. req'[v].clen = req[v].clen
    BY <1>4, <1>5, <1>6
  <2> QED BY <1>1, <2>1, <2>2 DEF FinalLen
<1>8. Promised'
  <2>1. \A v \in owners' : req'[v].handle = req[v].handle /\ FinalLen(v)' <= FinalLen(v)
    <3> SUFFICES ASSUME NEW v \in owners
                 PROVE  req'[v].handle = req[v].handle /\ FinalLen(v)' <= FinalLen(v)
      BY <1>1
    <3>1. FinalLen(v) \in Nat
      BY <1>0, OwnerEnds
    <3> QED BY <1>4, <1>5, <1>6, <1>7, <3>1
  <2> QED BY <1>0, <1>1, <2>1, PromisedStays DEF AdmitInv
<1>9. CutFirst'
  BY <1>0, <1>1, <1>2, AddingKeepsCut DEF AdmitInv
<1>10. RunningStep'
  BY <1>1, <1>3, <1>4, <1>6 DEF AdmitInv, RunningStep, SlotInv, PendingApart
<1> QED BY <1>8, <1>9, <1>10 DEF AdmitInv

LEMMA AddNewKeepsAdmission ==
  ASSUME RoundingFits, PoolInv, AdmitInv, NEW u \in Reqs, AddNew(u), SlotInv', PagesInv'
  PROVE  AdmitInv'
<1>0. SlotInv /\ HostInv /\ LockInv /\ PagesInv /\ CutFirst
  BY DEF PoolInv, HoldInv, AdmitInv
<1>1. Promised'
  BY AddNewKeepsPromise
<1>2. /\ UidsOf(adder'.reqs) = UidsOf(adder.reqs) \cup {u}
      /\ chunked' \subseteq chunked \cup {u} /\ running' = running /\ u \notin running
      /\ \A v \in owners : req'[v] = req[v]
  BY <1>0, AddNewIs
<1>3. CutFirst'
  BY <1>0, <1>2, AddingKeepsCut DEF AddNew, CanAdd
<1>4. RunningStep'
  BY <1>0, <1>2 DEF AdmitInv, RunningStep, SlotInv, PendingApart
<1> QED BY <1>1, <1>3, <1>4 DEF AdmitInv

(* The loop leaves the request that was cut at the head of pending_list.   *)
LEMMA LaunchKeepsCut ==
  ASSUME SlotInv, CutFirst, chunked' = chunked, pending' = RestPending, adder' = NewAdder
  PROVE  CutFirst'
<1> SUFFICES ASSUME NEW v \in chunked PROVE adder'.reqs = <<>> /\ v = RestPending[1]
  BY DEF CutFirst
<1> DEFINE n == Len(adder.reqs)
           k == Len(pending)
<1>1. adder'.reqs = <<>>
  BY DEF NewAdder
<1>2. /\ n \in Nat /\ k \in Nat /\ n <= k /\ DOMAIN adder.reqs = 1..n /\ DOMAIN pending = 1..k
      /\ pending \in Seq(received)
  BY DEF SlotInv, LoopTypes, AdderFollowsPending
<1>3. v \in ToSet(pending)
  BY DEF SlotInv, PendingApart
<1>4. CASE v \in UidsOf(adder.reqs)
  <2>1. PICK i \in 1..n : v = adder.reqs[i].uid
    BY <1>2, <1>4 DEF UidsOf
  <2>2. pending[i] = v /\ adder.reqs[i].chunk /\ i = n
    BY <1>2, <2>1 DEF SlotInv, AdderFollowsPending
  <2>3. n > 0 /\ adder.reqs[n].chunk /\ n \in 1..k
    BY <1>2, <2>1, <2>2
  <2>4. RestPending = SubSeq(pending, n, k)
    BY <2>3 DEF RestPending
  <2> HIDE DEF n, k
  <2>5. RestPending[1] = pending[n]
    BY <1>2, <2>3, <2>4
  <2> QED BY <1>1, <2>2, <2>5
<1>5. CASE adder.reqs = <<>> /\ v = pending[1]
  <2>1. n = 0
    BY <1>5
  <2>2. RestPending = SubSeq(pending, 1, k)
    BY <2>1 DEF RestPending
  <2>3. 1 \in 1..k
    BY <1>2, <1>3 DEF ToSet
  <2> HIDE DEF n, k
  <2>4. RestPending[1] = pending[1]
    BY <1>2, <2>2, <2>3
  <2> QED BY <1>1, <1>5, <2>4
<1> QED BY <1>4, <1>5 DEF CutFirst

(* A batch takes its requests no further than was promised.                *)
LEMMA LaunchEnds ==
  ASSUME SlotInv, HostInv, NEW v \in owners,
         \A u \in UidsOf(NextReqs) : req'[u].clen = req[u].dlen,
         \A u \in Reqs \ UidsOf(NextReqs) : req'[u] = req[u],
         running' = FilterReqs(NextReqs), adder' = NewAdder, chunked' = chunked
  PROVE  FinalLen(v)' <= FinalLen(v)
<1>1. /\ v \in Reqs /\ FinalLen(v) \in Nat /\ req[v].clen \in Nat /\ req[v].clen <= FinalLen(v)
  BY OwnerEnds DEF SlotInv, LoopTypes
<1>2. v \in running => v \notin chunked \cup UidsOf(adder.reqs)
  BY AddedArePending DEF SlotInv, PendingApart
<1>3. UidsOf(adder'.reqs) = {}
  BY DEF NewAdder, UidsOf
<1>4. req'[v].clen <= FinalLen(v)
  <2>1. CASE v \in UidsOf(NextReqs)
    BY <2>1, NeededArePromised
  <2>2. CASE v \notin UidsOf(NextReqs)
    BY <1>1, <2>2
  <2> QED BY <2>1, <2>2
<1>5. v \in UidsOf(NextReqs) => v \in running \/ v \in UidsOf(adder.reqs)
  <2>1. CASE adder.reqs # <<>>
    BY <2>1 DEF NextReqs
  <2>2. CASE adder.reqs = <<>>
    <3>1. IsFiniteSet(running)
      BY RequestAssumption, FS_Subset DEF SlotInv, LoopTypes
    <3>2. SetToSeq(running) \in [1..Cardinality(running) -> running]
      BY <3>1, SetToSeqLists
    <3> QED BY <2>2, <3>2 DEF NextReqs, UidsOf
  <2> QED BY <2>1, <2>2
<1>6. CASE v \in running'
  <2>1. FinalLen(v)' = MaxDevLen(v) - 1
    BY <1>6 DEF FinalLen
  <2>2. v \in running \/ v \in UidsOf(adder.reqs)
    BY <1>5, <1>6 DEF FilterReqs
  <2>3. CASE v \in running
    BY <1>1, <2>1, <2>3 DEF FinalLen
  <2>4. CASE v \notin running /\ v \in UidsOf(adder.reqs)
    <3>1. FinalLen(v) = FinalTokens(v)
      BY <2>4 DEF FinalLen
    <3> QED BY <1>1, <2>1, <3>1, FinalTokensIs
  <2> QED BY <2>2, <2>3, <2>4
<1>7. CASE v \notin running' /\ v \in chunked
  <2>1. FinalLen(v)' = FinalTokens(v) /\ FinalLen(v) = FinalTokens(v)
    BY <1>2, <1>7 DEF FinalLen
  <2> QED BY <1>1, <2>1
<1>8. CASE v \notin running' /\ v \notin chunked
  <2>1. FinalLen(v)' = req'[v].clen
    BY <1>3, <1>8 DEF FinalLen
  <2> QED BY <1>4, <2>1
<1> QED BY <1>6, <1>7, <1>8

LEMMA LaunchKeepsAdmission ==
  ASSUME PoolInv, AdmitInv, Launch, SlotInv', HostInv'
  PROVE  AdmitInv' /\ fault' = fault
<1>0. SlotInv /\ HostInv /\ LockInv /\ PagesInv /\ Promised /\ CutFirst /\ RunningStep
  BY DEF PoolInv, HoldInv, AdmitInv
<1>1. pc = "admit" /\ lazyFree = <<>>
  BY <1>0 DEF Launch, PagesInv
<1> DEFINE q      == NextReqs
           needed == Cardinality(NeededPages(q))
           e      == Cardinality(Evictable(kv))
           short  == Max({0, needed - Len(freePages)})
<1>2. needed \in Nat /\ e \in Nat /\ Len(freePages) \in Nat /\ needed <= Len(freePages) + e
  <2>1. needed \in Nat /\ Len(freePages) \in Nat
    BY <1>0, <1>1, Allocation, PoolCounts
  <2>2. e \in Nat
    BY <1>0, CoveredFinite, FS_Subset, FS_CardinalityType DEF Evictable
  <2> QED BY <1>0, <1>1, <2>1, <2>2, EvictorSuffices
<1>3. ~(short > e)
  <2> HIDE DEF needed, e
  <2> DEFINE k == needed - Len(freePages)
  <2>1. k \in Int /\ k <= e
    BY <1>2
  <2> HIDE DEF k
  <2>2. Max({0, k}) \in {0, k}
    BY <2>1, MaxOfTwo
  <2> QED BY <1>2, <2>1, <2>2 DEF k
<1>4. /\ \A v \in Reqs : req'[v].handle = req[v].handle
      /\ \A v \in UidsOf(q) : req'[v].clen = req[v].dlen /\ req'[v].dlen = req[v].dlen + 1
      /\ \A v \in Reqs \ UidsOf(q) : req'[v] = req[v]
      /\ running' = FilterReqs(q) /\ pending' = RestPending /\ adder' = NewAdder
      /\ UNCHANGED <<chunked, owners, fault>>
  BY <1>0, <1>3, LaunchIs, ZenonT(40)
<1> HIDE DEF q
<1>5. owners \subseteq Reqs
  BY <1>0 DEF SlotInv, LoopTypes
<1>6. Promised'
  <2>1. \A v \in owners : FinalLen(v)' <= FinalLen(v)
    BY <1>0, <1>4, LaunchEnds DEF q
  <2> QED BY <1>0, <1>4, <1>5, <2>1, PromisedStays
<1>7. CutFirst'
  BY <1>0, <1>4, LaunchKeepsCut
<1>8. RunningStep'
  <2> SUFFICES ASSUME NEW v \in running' PROVE req'[v].dlen = req'[v].clen + 1
    BY DEF RunningStep
  <2>1. v \in UidsOf(q) \/ v \in running
    BY <1>4 DEF FilterReqs
  <2>2. CASE v \in UidsOf(q)
    BY <1>4, <2>2
  <2>3. CASE v \in running /\ v \notin UidsOf(q)
    BY <1>0, <1>4, <1>5, <2>3 DEF RunningStep, SlotInv, PendingApart
  <2> QED BY <2>1, <2>2, <2>3
<1> QED BY <1>4, <1>6, <1>7, <1>8 DEF AdmitInv

LEMMA RecvUserKeepsAdmission ==
  ASSUME PoolInv, AdmitInv, NEW u \in Reqs, RecvUser(u), SlotInv', HostInv'
  PROVE  AdmitInv'
<1>0. SlotInv /\ HostInv /\ LockInv /\ PagesInv
  BY DEF PoolInv, HoldInv
<1>1. UNCHANGED <<owners, running, chunked, adder, req>>
      /\ (pending' = pending \/ pending' = Append(pending, u))
  BY DEF RecvUser, loopVars
<1>2. \A v \in chunked' : v = pending[1] => v = pending'[1]
  <2> SUFFICES ASSUME NEW v \in chunked PROVE pending'[1] = pending[1]
    BY <1>1
  <2>1. pending \in Seq(received) /\ v \in ToSet(pending)
    BY <1>0 DEF SlotInv, LoopTypes, PendingApart
  <2>2. Len(pending) \in Nat /\ 1 \in 1..Len(pending)
    BY <2>1 DEF ToSet
  <2> QED BY <1>1, <2>1, <2>2
<1> QED BY <1>0, <1>1, <1>2, QuietAdmits

LEMMA RecvAbortKeepsAdmission ==
  ASSUME NoLateAbort, PoolInv, AdmitInv, NEW u \in Reqs, RecvAbort(u), SlotInv', HostInv'
  PROVE  AdmitInv'
<1>0. SlotInv /\ MetInv /\ HostInv /\ LockInv /\ PagesInv
  BY DEF PoolInv, HoldInv
<1>1. /\ owners' \subseteq owners /\ running' = running \ {u} /\ chunked' = chunked \ {u}
      /\ pending' = DropPending(u) /\ UNCHANGED <<adder, req>>
  BY <1>0, AbortIs, ZenonT(40)
<1>2. ASSUME NEW v \in chunked, v # u, v = pending[1] PROVE v = pending'[1]
  <2> DEFINE n  == Len(pending)
             at == CHOOSE i \in DOMAIN pending : pending[i] = u
             s  == SubSeq(pending, 1, at - 1)
             w  == SubSeq(pending, at + 1, n)
  <2>1. pending \in Seq(received) /\ v \in ToSet(pending) /\ DOMAIN pending = 1..n /\ n \in Nat
    BY <1>0 DEF SlotInv, LoopTypes, PendingApart
  <2>2. CASE u \notin ToSet(pending)
    BY <1>1, <1>2, <2>2 DEF DropPending
  <2>3. CASE u \in ToSet(pending)
    <3>1. at \in 1..n /\ pending[at] = u
      BY <2>1, <2>3 DEF ToSet
    <3>2. pending' = s \o w
      BY <1>1, <2>3 DEF DropPending
    <3> HIDE DEF at, n
    <3>3. at > 1
      BY <1>2, <2>1, <3>1
    <3>4. s \in Seq(received) /\ Len(s) \in Nat /\ 1 <= Len(s) /\ s[1] = pending[1]
      BY <2>1, <3>1, <3>3 DEF n
    <3>5. w \in Seq(received)
      BY <2>1, <3>1 DEF n
    <3> HIDE DEF s, w
    <3>6. (s \o w)[1] = s[1]
      BY <3>4, <3>5
    <3> QED BY <1>2, <3>2, <3>4, <3>6
  <2> QED BY <2>2, <2>3
<1> QED BY <1>0, <1>1, <1>2, QuietAdmits

LEMMA QuietStepsKeepAdmission ==
  ASSUME PoolInv, AdmitInv, SlotInv', HostInv',
         BeginRound \/ EndRound \/ GpuRun \/ SkipChunk \/ UNCHANGED vars
  PROVE  AdmitInv'
<1>0. SlotInv /\ HostInv /\ LockInv /\ PagesInv
  BY DEF PoolInv, HoldInv
<1>1. UNCHANGED <<owners, running, chunked, adder, req, pending>>
  <2>1. ASSUME GpuRun PROVE UNCHANGED <<owners, running, chunked, adder, req, pending>>
    BY <1>0, <2>1, GpuRunIs
  <2> QED BY <2>1 DEF BeginRound, EndRound, SkipChunk, vars, reqVars, loopVars
<1> QED BY <1>0, <1>1, QuietAdmits

(* The prefixes a new handle protects besides those of the old one: one    *)
(* for each page of the row that cache_req put in the cache.               *)
LEMMA NewHandleCovers ==
  ASSUME SlotInv, HostInv, LockInv, NEW u \in owners, NEW r, CacheableReq(u, r)
  PROVE  LET a == HandlePages(u)
             n == CachedTo(r)
             I == {SubSeq(NewHandle(r), 1, j * PageSize) : j \in (a + 1)..n}
         IN  /\ a \in Nat /\ n \in Nat /\ a <= n /\ n <= PagesUp(req[u].clen)
             /\ PagePrefixes(NewHandle(r)) \subseteq PagePrefixes(req[u].handle) \cup I
             /\ IsFiniteSet(I) /\ Cardinality(I) <= n - a
<1> DEFINE a == HandlePages(u)
           n == CachedTo(r)
           h == NewHandle(r)
           f == [j \in (a + 1)..n |-> SubSeq(h, 1, j * PageSize)]
           I == {SubSeq(h, 1, j * PageSize) : j \in (a + 1)..n}
<1>1. a \in Nat /\ n \in Nat /\ a <= n /\ n <= PagesUp(req[u].clen)
  <2>1. /\ Held(r) \in Nat /\ KnownPages(r) \in Nat /\ CachedTo(r) \in Nat /\ TailEnd(r) \in Nat
        /\ Held(r) <= KnownPages(r) /\ KnownPages(r) <= CachedTo(r) /\ CachedTo(r) <= TailEnd(r)
    BY BoundariesOrder, Zenon
  <2>2. Held(r) = a /\ TailEnd(r) = PagesUp(req[u].clen)
    BY DEF CacheableReq, Held, TailEnd, HandlePages
  <2> QED BY <2>1, <2>2
<1>2. /\ req[u].handle \in Seq(Token) /\ Whole(req[u].handle)
      /\ IsPrefix(req[u].handle, req[u].ids) /\ req[u].ids \in Seq(Token)
      /\ IsPrefix(req[u].ids, r.ids) /\ r.ids \in Seq(Token)
  BY DEF HostInv, HostTokens, Fits, CacheableReq
<1>3. IsPrefix(req[u].handle, r.ids)
  BY <1>2, PrefixTransitive
<1>4. h \in Seq(Token) /\ IsPrefix(h, r.ids)
  BY CachedIds, Zenon DEF CacheableReq
<1>5. Len(req[u].handle) = a * PageSize
  <2>1. PICK k \in Nat : Len(req[u].handle) = k * PageSize
    BY <1>2 DEF Whole
  <2>2. a = k
    BY <2>1, WholePagesRound DEF HandlePages
  <2> QED BY <2>1, <2>2
<1>6. ASSUME NEW p \in PagePrefixes(h), p \notin I PROVE p \in PagePrefixes(req[u].handle)
  <2>1. PICK k \in 1..n : p = SubSeq(h, 1, k * PageSize)
    BY <1>6 DEF PagePrefixes, CachedTo
  <2>2. k <= a /\ k \in Nat
    <3>1. k \notin (a + 1)..n
      BY <1>6, <2>1
    <3> HIDE DEF a, n
    <3> QED BY <1>1, <2>1, <3>1
  <2>3. p \in Aligned(Token) /\ IsPrefix(p, h)
    BY <1>4, <1>6, PagePrefixesAre
  <2>4. p \in Seq(Token)
    BY <2>3 DEF Aligned
  <2>5. IsPrefix(p, r.ids)
    BY <1>2, <1>4, <2>3, <2>4, PrefixTransitive
  <2>6. Len(p) <= Len(req[u].handle)
    <3>1. k * PageSize <= a * PageSize /\ k * PageSize \in Nat
      BY <1>1, <2>2, PageProducts
    <3>2. k * PageSize <= Len(h)
      <4>1. Len(h) \in Nat /\ k <= PagesDown(Len(h))
        BY <1>4, <2>1 DEF CachedTo
      <4> QED BY <2>2, <4>1, WholePages
    <3> DEFINE m == k * PageSize
    <3> HIDE DEF m, h
    <3>3. Len(p) = m
      BY <1>4, <2>1, <3>1, <3>2 DEF m
    <3> QED BY <1>5, <3>1, <3>3 DEF m
  <2>7. IsPrefix(p, req[u].handle)
    BY <1>2, <1>3, <2>4, <2>5, <2>6, PrefixesCompare
  <2> QED BY <1>2, <2>3, <2>7, PagePrefixesAre
<1>7. IsFiniteSet(I) /\ Cardinality(I) <= n - a
  <2> HIDE DEF a, n, h
  <2> DEFINE S == (a + 1)..n
  <2>1. IsFiniteSet(S) /\ Cardinality(S) = n - a
    <3> DEFINE b == a + 1
    <3>1. b \in Int /\ n \in Int /\ b = a + 1
      BY <1>1
    <3> HIDE DEF b
    <3>2. IsFiniteSet(b..n) /\ Cardinality(b..n) = IF b > n THEN 0 ELSE n - b + 1
      BY <3>1, FS_Interval
    <3> QED BY <1>1, <3>1, <3>2 DEF b
  <2>2. I = {f[j] : j \in S}
    OBVIOUS
  <2>3. DOMAIN f = S
    OBVIOUS
  <2> HIDE DEF I, f, S
  <2> QED BY <2>1, <2>2, <2>3, ImageCount
<1>8. PagePrefixes(h) \subseteq PagePrefixes(req[u].handle) \cup I
  BY <1>6
<1> HIDE DEF a, n, h, I
<1> QED BY <1>1, <1>7, <1>8 DEF a, n, h, I

(* Results of a prefill batch: the handle grows over pages that were the   *)
(* request's own, one promise turns into the other.                        *)
LEMMA KeepingKeepsPromise ==
  ASSUME SlotInv, HostInv, LockInv, PagesInv, Promised, SlotInv', HostInv',
         NEW u \in owners, NEW r, CacheableReq(u, r), owners' = owners,
         req'[u].handle = NewHandle(r),
         \A v \in owners : v # u => req'[v].handle = req[v].handle,
         \A v \in owners : FinalLen(v)' <= FinalLen(v)
  PROVE  Promised'
<1> DEFINE a == HandlePages(u)
           n == CachedTo(r)
           h == NewHandle(r)
           I == {SubSeq(h, 1, j * PageSize) : j \in (a + 1)..n}
           D == {u} \X ((a + 1)..n)
           F == Footprint
           V == Covered
<1>1. /\ a \in Nat /\ n \in Nat /\ a <= n /\ n <= PagesUp(req[u].clen)
      /\ PagePrefixes(h) \subseteq PagePrefixes(req[u].handle) \cup I
      /\ IsFiniteSet(I) /\ Cardinality(I) <= n - a
  BY NewHandleCovers
<1>2. IsFiniteSet(D) /\ Cardinality(D) = n - a
  <2> HIDE DEF a, n
  <2> QED BY <1>1, OneBar
<1>3. D \subseteq F
  <2> SUFFICES ASSUME NEW x \in D PROVE x \in Footprint
    OBVIOUS
  <2>1. x = <<u, x[2]>> /\ x[1] = u /\ x[2] \in (a + 1)..n
    OBVIOUS
  <2>2. /\ LastPage(u) \in Nat /\ LastPage(u) <= PagesUp(MaxSeqLen)
        /\ PagesUp(req[u].clen) <= LastPage(u) /\ PagesUp(req[u].clen) \in Nat
    BY OwnerEnds
  <2>3. PagesUp(MaxSeqLen) \in Nat
    BY OwnerRows
  <2> HIDE DEF a, n, D
  <2>4. x[2] \in Nat /\ a < x[2] /\ x[2] <= LastPage(u) /\ x[2] >= 1 /\ x[2] <= PagesUp(MaxSeqLen)
    BY <1>1, <2>1, <2>2, <2>3
  <2>5. x[2] \in Row
    BY <2>3, <2>4 DEF Row
  <2>6. x \in owners \X Row
    BY <2>1, <2>5
  <2> QED BY <2>1, <2>4, <2>6 DEF Footprint, a
<1>4. F' \subseteq F \ D
  <2> SUFFICES ASSUME NEW x \in Footprint' PROVE x \in Footprint /\ x \notin D
    OBVIOUS
  <2>1. /\ x \in owners \X Row /\ x[1] \in owners
        /\ HandlePages(x[1])' < x[2] /\ x[2] <= LastPage(x[1])' /\ x[2] \in Nat
    BY DEF Footprint, Row
  <2>2. FinalLen(x[1])' \in Nat /\ FinalLen(x[1]) \in Nat /\ FinalLen(x[1])' <= FinalLen(x[1])
    BY <2>1, OwnerEnds, OwnerEndsNext DEF EndsKnown
  <2>3. LastPage(x[1])' <= LastPage(x[1])
    BY <2>2, PagesGrow DEF LastPage
  <2>4. x[2] <= LastPage(x[1])
    <3>1. LastPage(x[1])' \in Nat /\ LastPage(x[1]) \in Nat
      BY <2>1, OwnerEnds, OwnerEndsNext DEF EndsKnown
    <3> QED BY <2>1, <2>3, <3>1
  <2>5. CASE x[1] # u
    <3>1. HandlePages(x[1])' = HandlePages(x[1])
      BY <2>1, <2>5 DEF HandlePages
    <3> QED BY <2>1, <2>4, <2>5, <3>1 DEF Footprint
  <2>6. CASE x[1] = u
    <3>1. HandlePages(u)' = n
      BY DEF HandlePages, CachedTo
    <3> HIDE DEF n, D
    <3>2. n < x[2]
      BY <2>1, <2>6, <3>1
    <3>3. HandlePages(x[1]) < x[2]
      BY <1>1, <2>1, <2>6, <3>2 DEF a
    <3>4. x \notin D
      BY <1>1, <2>1, <3>2 DEF D
    <3> QED BY <2>1, <2>4, <3>3, <3>4 DEF Footprint
  <2> QED BY <2>5, <2>6
<1>5. V' \subseteq (V \cup I) \cup {}
  <2> SUFFICES ASSUME NEW v \in owners PROVE PagePrefixes(req'[v].handle) \subseteq Covered \cup I
    BY DEF Covered
  <2>1. PagePrefixes(req[v].handle) \subseteq Covered
    BY DEF Covered
  <2>2. CASE v # u
    BY <2>1, <2>2
  <2>3. CASE v = u
    BY <1>1, <2>1, <2>3
  <2> HIDE DEF I
  <2> QED BY <2>2, <2>3
<1>6. IsFiniteSet(F) /\ IsFiniteSet(V) /\ IsFiniteSet({}) /\ Cardinality({}) = 0
  BY FootprintFinite, CoveredFinite, FS_EmptySet
<1> HIDE DEF D, I, a, n, h
<1>7. Cardinality(V') <= Cardinality(V) + Cardinality(I) + 0 /\ Cardinality(V') \in Nat
      /\ Cardinality(V) \in Nat /\ Cardinality(I) \in Nat
  <2> HIDE DEF V
  <2> QED BY <1>1, <1>5, <1>6, UnionBound
<1>8. /\ Cardinality(F') <= Cardinality(F) - Cardinality(D)
      /\ Cardinality(F') \in Nat /\ Cardinality(F) \in Nat
  <2> HIDE DEF F
  <2>1. F \cap D = D
    BY <1>3
  <2>2. IsFiniteSet(F \ D) /\ Cardinality(F \ D) = Cardinality(F) - Cardinality(F \cap D)
    BY <1>6, FS_Difference
  <2>3. IsFiniteSet(F') /\ Cardinality(F') <= Cardinality(F \ D)
    BY <1>4, <2>2, FS_Subset
  <2> QED BY <1>6, <2>1, <2>2, <2>3, FS_CardinalityType
<1>9. Cardinality(V) + Cardinality(F) <= NumPages /\ NumPages \in Nat
  BY CapacityAssumption DEF Promised
<1>10. Cardinality(V') + Cardinality(F') <= NumPages
  <2> HIDE DEF V, F
  <2> QED BY <1>1, <1>2, <1>7, <1>8, <1>9
<1> QED BY <1>10 DEF Promised

LEMMA CompleteReqKeepsAdmission ==
  ASSUME PoolInv, AdmitInv, CompleteReq, SlotInv', HostInv'
  PROVE  AdmitInv'
<1>0. PICK u : u = Done
  OBVIOUS
<1> DEFINE r == DoneReq
<1>1. SlotInv /\ MetInv /\ HostInv /\ LockInv /\ PagesInv
  BY DEF PoolInv, HoldInv
<1>2. /\ pc = "process" /\ todo.ran /\ todo.reqs # <<>> /\ ~Head(todo.reqs).chunk
      /\ \A v \in Reqs \ {u} : req'[v] = req[v]
      /\ req'[u].clen = req[u].clen /\ req'[u].dlen = req[u].dlen
      /\ req'[u].handle = IF DoneKeep THEN NewHandle(r) ELSE req[u].handle
      /\ owners' = IF DoneFree THEN owners \ {u} ELSE owners
      /\ running' \subseteq running
      /\ UNCHANGED <<pending, chunked, adder>>
  BY <1>0, <1>1, CompleteReqIs
<1>3. DoneKeep => u \in owners /\ CacheableReq(u, r)
  BY <1>0, <1>1, <1>2, DoneIs DEF CacheableReq
<1> HIDE DEF r
<1>4. owners \subseteq Reqs
  BY <1>1 DEF SlotInv, LoopTypes
<1>5. CASE ~DoneKeep
  <2>1. owners' \subseteq owners
    BY <1>2
  <2>2. \A v \in owners' : /\ req'[v].handle = req[v].handle
                           /\ req'[v].clen = req[v].clen /\ req'[v].dlen = req[v].dlen
    BY <1>2, <1>4, <1>5, <2>1
  <2> QED BY <1>1, <1>2, <2>1, <2>2, QuietAdmits
<1>6. CASE DoneKeep
  <2>1. owners' = owners /\ req'[u].handle = NewHandle(r)
    BY <1>2, <1>6 DEF DoneKeep
  <2>2. \A v \in owners : req'[v].clen = req[v].clen /\ req'[v].dlen = req[v].dlen
                           /\ (v # u => req'[v].handle = req[v].handle)
    BY <1>2, <1>4
  <2>3. \A v \in owners : FinalLen(v)' <= FinalLen(v)
    BY <1>1, <1>2, <2>2, EndsShrink
  <2>4. Promised'
    BY <1>1, <1>3, <1>6, <2>1, <2>2, <2>3, KeepingKeepsPromise DEF AdmitInv
  <2>5. CutFirst'
    BY <1>2 DEF AdmitInv, CutFirst
  <2>6. RunningStep'
    <3>1. running \subseteq owners
      BY <1>1 DEF SlotInv, PendingApart
    <3> QED BY <1>2, <2>2, <3>1 DEF AdmitInv, RunningStep
  <2> QED BY <2>4, <2>5, <2>6 DEF AdmitInv
<1> QED BY <1>5, <1>6
-----------------------------------------------------------------------------
LEMMA InitAdmission ==
  ASSUME Init
  PROVE  AdmitInv
<1>1. owners = {} /\ running = {} /\ chunked = {}
  BY DEF Init
<1>2. Covered = {} /\ Footprint = {}
  BY <1>1 DEF Covered, Footprint
<1>3. Cardinality(Covered) + Cardinality(Footprint) = 0
  BY <1>2, FS_EmptySet
<1>4. NumPages \in Nat
  BY CapacityAssumption
<1>5. Promised
  BY <1>3, <1>4 DEF Promised
<1> QED BY <1>1, <1>5 DEF AdmitInv, CutFirst, RunningStep

(* Nothing fails, and admission keeps its promise, as long as the last     *)
(* page of a request is paid for by the tokens reserved for it.            *)
AdmittedInv == PoolInv /\ AdmitInv /\ NoAssertionFails

LEMMA AdmissionStep ==
  ASSUME NoLateAbort, RoundingFits, AdmittedInv, [Next]_vars
  PROVE  AdmittedInv'
<1>0. SlotInv /\ MetInv /\ HostInv /\ LockInv /\ PoolInv /\ AdmitInv /\ fault = "none"
  BY DEF AdmittedInv, PoolInv, HoldInv, NoAssertionFails
<1>1. PoolInv' /\ SlotInv' /\ HostInv' /\ PagesInv'
  <2>1. PoolInv'
    BY <1>0, PoolInvStep
  <2> QED BY <2>1 DEF PoolInv, HoldInv
<1>2. ASSUME BeginRound \/ EndRound \/ GpuRun \/ SkipChunk \/ UNCHANGED vars
      PROVE  AdmitInv' /\ fault' = fault
  <2>1. fault' = fault
    BY <1>2 DEF BeginRound, EndRound, GpuRun, SkipChunk, vars
  <2> QED BY <1>0, <1>1, <1>2, <2>1, QuietStepsKeepAdmission
<1>3. ASSUME Idle PROVE AdmitInv' /\ fault' = fault
  <2>1. Integrity
    BY <1>0, <1>3, IdlePoolIsWhole DEF Idle
  <2>2. UNCHANGED vars
    BY <1>3, <2>1 DEF Idle
  <2> QED BY <1>2, <2>2
<1>4. ASSUME NEW u \in Reqs, AddChunk(u) PROVE AdmitInv' /\ fault' = fault
  BY <1>0, <1>1, <1>4, AddChunkKeepsAdmission DEF AddChunk
<1>5. ASSUME NEW u \in Reqs, AddNew(u) PROVE AdmitInv' /\ fault' = fault
  BY <1>0, <1>1, <1>5, AddNewKeepsAdmission DEF AddNew
<1>6. ASSUME Launch PROVE AdmitInv' /\ fault' = fault
  BY <1>0, <1>1, <1>6, LaunchKeepsAdmission
<1>7. ASSUME CompleteReq PROVE AdmitInv' /\ fault' = fault
  <2>1. fault' = fault
    BY <1>0, <1>7, CompleteReqIs
  <2> QED BY <1>0, <1>1, <1>7, <2>1, CompleteReqKeepsAdmission
<1>8. ASSUME NEW u \in Reqs, RecvUser(u) PROVE AdmitInv' /\ fault' = fault
  BY <1>0, <1>1, <1>8, RecvUserKeepsAdmission DEF RecvUser
<1>9. ASSUME NEW u \in Reqs, RecvAbort(u) PROVE AdmitInv' /\ fault' = fault
  <2>1. fault' = fault
    BY <1>0, <1>9, AbortIs
  <2> QED BY <1>0, <1>1, <1>9, <2>1, RecvAbortKeepsAdmission
<1>10. AdmitInv' /\ fault' = fault
  BY <1>2, <1>3, <1>4, <1>5, <1>6, <1>7, <1>8, <1>9 DEF Next, Round
<1> QED BY <1>0, <1>1, <1>10 DEF AdmittedInv, NoAssertionFails

(* Pages of one token (the default page_size), or of two when every client *)
(* asks for a token, satisfy RoundingFits.                                 *)
LEMMA SmallPagesFit ==
  ASSUME PageSize = 1 \/ (PageSize = 2 /\ \A u \in Reqs : MaxTokens[u] > 0)
  PROVE  RoundingFits
<1> SUFFICES ASSUME NEW u \in Reqs, InputLen(u) < MaxSeqLen
             PROVE  PagesUp(FinalTokens(u)) * PageSize <= MaxDevLen(u)
  BY DEF RoundingFits
<1> DEFINE f == FinalTokens(u)
           d == MaxDevLen(u)
           i == InputLen(u)
           m == MaxTokens[u]
           s == MaxSeqLen
           o == OutLen(u)
<1>1. i \in Nat /\ s \in Nat /\ i < s /\ d \in Int /\ m \in Nat /\ d = i + o
  BY LengthTypes, RequestAssumption DEF MaxDevLen
<1>2. o = IF m <= s - i THEN m ELSE s - i
  <2> DEFINE k == s - i
  <2>1. k \in Int /\ o = Min({m, k})
    BY <1>1 DEF OutLen
  <2> HIDE DEF k, m, o
  <2>2. Min({m, k}) = IF m <= k THEN m ELSE k
    BY <1>1, <2>1, MinOfTwo
  <2> QED BY <2>1, <2>2 DEF k
<1>3. f = IF i <= d - 1 THEN d - 1 ELSE i
  <2> DEFINE k == d - 1
  <2>1. k \in Int /\ f = Max({i, k})
    BY <1>1 DEF FinalTokens
  <2> HIDE DEF k, i, f
  <2>2. Max({i, k}) = IF i <= k THEN k ELSE i
    BY <1>1, <2>1, MaxOfTwo
  <2> QED BY <2>1, <2>2 DEF k
<1> HIDE DEF f, d, i, m, s, o
<1>4. f \in Nat /\ f <= d /\ (m > 0 => f < d)
  BY <1>1, <1>2, <1>3
<1>5. PageSize = 1 => PagesUp(f) * PageSize <= d
  BY <1>1, <1>4 DEF PagesUp
<1>6. PageSize = 2 /\ m > 0 => PagesUp(f) * PageSize <= d
  <2>1. ((f + 1) \div 2) * 2 <= f + 1
    BY <1>4
  <2> QED BY <1>1, <1>4, <2>1 DEF PagesUp
<1> QED BY <1>5, <1>6 DEF f, d, m

(* No assertion of the code ever fails: every request PrefillAdder admits  *)
(* finds, until it has all its tokens, a page on the free list or one the  *)
(* evictor may take, so evict's "Cannot evict" stays unreached; no handle  *)
(* is unlocked below zero; and check_integrity finds every page when the   *)
(* loop is idle.                                                           *)
THEOREM AdmissionSuffices ==
  ASSUME NoLateAbort, RoundingFits
  PROVE  Spec => []NoAssertionFails
<1>1. Init => AdmittedInv
  BY InitPool, InitAdmission DEF Init, AdmittedInv, NoAssertionFails
<1>2. AdmittedInv /\ [Next]_vars => AdmittedInv'
  BY AdmissionStep
<1>3. AdmittedInv => NoAssertionFails
  BY DEF AdmittedInv
<1> QED BY <1>1, <1>2, <1>3, PTL DEF Spec
=============================================================================
