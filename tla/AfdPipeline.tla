----------------------------- MODULE AfdPipeline -----------------------------
(***************************************************************************)
(* The AFD serving loop: the coordinator's event loop (_afd_overlap_loop   *)
(* or _afd_normal_loop of afd_coordinator.py), the attention worker of     *)
(* each data-parallel lane (centralized_overlap_loop) and the expert       *)
(* worker (afd_overlap_loop), joined by one FIFO command queue per worker  *)
(* and one reply inbox.                                                    *)
(*                                                                         *)
(* The coordinator launches up to MaxPending global steps before it has    *)
(* the tokens of the first: the workers keep the token ids themselves.     *)
(* A worker enqueues a step on its GPU when it takes the command, and      *)
(* waits for the step's result only when it retires it, which it does when *)
(* more than Lead steps are pending or when it is told to flush or stop.   *)
(* A step is a collective: its GPU work ends only after every worker has   *)
(* enqueued it.                                                            *)
(*                                                                         *)
(* The loop's program points (pc): "recv" handle messages, "launch" fill   *)
(* the pipeline, "complete" complete the oldest step, "drain" complete     *)
(* them all, "exit" complete them all and return, "stopped".               *)
(***************************************************************************)
EXTENDS AfdWorker

CONSTANTS
  NumDp,        \* attn_dp_size
  MaxPending,   \* max_pending of the overlap loop, 1 for the normal loop
  Lead,         \* steps a worker keeps pending, 0 for the normal loops
  MayAbort,     \* requests whose client may disconnect
  MayEos,       \* requests that may sample the end-of-sequence token
  MayExit       \* whether an ExitMsg may arrive

ASSUME PipelineAssumption ==
  /\ NumDp \in Nat \ {0} /\ MaxPending \in Nat \ {0} /\ Lead \in Nat
  /\ MayAbort \subseteq Reqs /\ MayEos \subseteq Reqs /\ MayExit \in BOOLEAN

Dps     == 0..(NumDp - 1)
Expert  == NumDp
Workers == 0..NumDp            \* worker ranks, one per lane, then the expert

VARIABLES
  inbox,        \* tokenizer messages on their way to the coordinator
  lanes,        \* _central_schedulers
  lane_of,      \* _uid_to_attn_dp, NumDp for none
  rr,           \* _next_attn_dp_rr
  gens,         \* forward_remains: the generation of each table of a lane
  pending,      \* launched steps whose results are not processed
  pendingFree,  \* pending_free
  flushed,      \* workers_flushed
  step,         \* step_id
  pc, waiting,  \* program point; blocking receive not yet satisfied
  queue,        \* commands on their way to each worker
  inflight,     \* pending_afd_ag / pending of each worker loop
  draining,     \* the worker handles a flush or a stop: retire(force=True)
  worker,       \* "running", "stopping", "stopped" or "failed"
  started,      \* last step the worker has enqueued on its GPU
  stores,       \* AfdAttentionRuntime of each lane
  replies,      \* replies in the worker inbox or already counted
  out,          \* tokens sent to the detokenizer, per uid
  status        \* what became of each request

coordVars  == <<lanes, lane_of, rr, gens, pending, pendingFree, flushed, step, pc, waiting>>
workerVars == <<inflight, draining, worker, started, stores>>
vars == <<inbox, coordVars, queue, workerVars, replies, out, status>>
-----------------------------------------------------------------------------
HasWork == \E d \in Dps : HasRunnable(lanes[d])
Running == pc \notin {"stopped", "failed"}

(* _afd_next_global_phase *)
NextGlobalPhase_TablesIgnored ==                                    \* mutant
  IF \E d \in Dps : PrefillRunnable(lanes[d]) THEN "prefill" ELSE "decode"
NextGlobalPhase ==
  IF \E d \in Dps : PrefillRunnable(lanes[d]) /\ lanes[d].slots # <<>> THEN "prefill"
  ELSE IF \E d \in Dps : DecodeRunnable(lanes[d]) THEN "decode"
  ELSE IF \E d \in Dps : PrefillRunnable(lanes[d]) THEN "prefill" ELSE "decode"

(* _AfdForwardRemain.forget_tables *)
Forget_Nothing(g, freed) == g                                       \* mutant
Forget(g, freed) == [s \in DOMAIN g |-> IF s \in Range(freed) THEN g[s] + 1 ELSE g[s]]

Init ==
  /\ inbox = <<>> /\ lanes = [d \in Dps |-> NewLane]
  /\ lane_of = [r \in Reqs |-> NumDp] /\ rr = 0
  /\ gens = [d \in Dps |-> [s \in Slots |-> 0]]
  /\ pending = <<>> /\ pendingFree = [d \in Dps |-> <<>>]
  /\ flushed = FALSE /\ step = 1 /\ pc = "recv" /\ waiting = TRUE
  /\ queue = [w \in Workers |-> <<>>] /\ inflight = [w \in Workers |-> <<>>]
  /\ draining = [w \in Workers |-> FALSE] /\ worker = [w \in Workers |-> "running"]
  /\ started = [w \in Workers |-> 0] /\ stores = [d \in Dps |-> NewStore]
  /\ replies = {} /\ out = [r \in Reqs |-> <<>>] /\ status = [r \in Reqs |-> "new"]
-----------------------------------------------------------------------------
(* Clients: the tokenizer forwards their requests, the abort of a client   *)
(* that went away, and the server's exit.                                  *)
Send(r) ==
  /\ status[r] = "new"
  /\ inbox' = Append(inbox, [type |-> "user", req |-> r])
  /\ status' = [status EXCEPT ![r] = "sent"]
  /\ UNCHANGED <<coordVars, queue, workerVars, replies, out>>

AbortMsg(r) == [type |-> "abort", req |-> r]
Disconnect(r) ==
  /\ r \in MayAbort /\ status[r] \in {"sent", "live"} /\ AbortMsg(r) \notin Range(inbox)
  /\ inbox' = Append(inbox, AbortMsg(r))
  /\ UNCHANGED <<coordVars, queue, workerVars, replies, out, status>>

ExitMsg == [type |-> "exit", req |-> NoReq]
SendExit ==
  /\ MayExit /\ pc # "exit" /\ Running /\ ExitMsg \notin Range(inbox)
  /\ inbox' = Append(inbox, ExitMsg)
  /\ UNCHANGED <<coordVars, queue, workerVars, replies, out, status>>
-----------------------------------------------------------------------------
(* _process_user_msgs: round robin over the lanes.                         *)
ProcessUser ==
  /\ Running /\ pc = "recv" /\ inbox # <<>> /\ Head(inbox).type = "user"
  /\ LET r == Head(inbox).req
         d == rr % NumDp
     IN /\ lanes' = [lanes EXCEPT ![d] = AddReqs(@, r)]
        /\ lane_of' = [lane_of EXCEPT ![r] = d]
        /\ status' = [status EXCEPT ![r] = "live"]
  /\ rr' = rr + 1 /\ inbox' = Tail(inbox) /\ waiting' = FALSE
  /\ UNCHANGED <<gens, pending, pendingFree, flushed, step, pc, queue, workerVars, replies, out>>

(* _process_abort_msg: a uid that is not in the map is looked for in every *)
(* lane; tables freed here are forgotten, and not put in pending_free.     *)
ProcessAbort ==
  /\ Running /\ pc = "recv" /\ inbox # <<>> /\ Head(inbox).type = "abort"
  /\ LET r       == Head(inbox).req
         targets == IF lane_of[r] = NumDp THEN Dps ELSE {lane_of[r]}
         cut     == [d \in Dps |-> IF d \in targets THEN AbortReq(lanes[d], r)
                                   ELSE [lane |-> lanes[d], freed |-> <<>>, found |-> FALSE]]
     IN /\ lanes' = [d \in Dps |-> cut[d].lane]
        /\ gens'  = [d \in Dps |-> Forget(gens[d], cut[d].freed)]
        /\ lane_of' = [lane_of EXCEPT ![r] = NumDp]
        /\ status' = IF \E d \in Dps : cut[d].found THEN [status EXCEPT ![r] = "aborted"] ELSE status
  /\ inbox' = Tail(inbox) /\ waiting' = FALSE
  /\ UNCHANGED <<rr, pending, pendingFree, flushed, step, pc, queue, workerVars, replies, out>>

(* ExitMsg: stop the workers, flush and complete what is pending, return.  *)
Flush    == [type |-> "flush"]
Stop     == [type |-> "stop"]
ToAll(cmds) == [w \in Workers |-> queue[w] \o cmds]
ProcessExit ==
  /\ Running /\ pc = "recv" /\ inbox # <<>> /\ Head(inbox).type = "exit"
  /\ queue' = ToAll(IF pending # <<>> /\ ~flushed THEN <<Stop, Flush>> ELSE <<Stop>>)
  /\ flushed' = IF pending # <<>> THEN TRUE ELSE flushed
  /\ pc' = "exit" /\ inbox' = Tail(inbox) /\ waiting' = FALSE
  /\ UNCHANGED <<lanes, lane_of, rr, gens, pending, pendingFree, step, workerVars, replies, out, status>>

EndRecv ==
  /\ pc = "recv" /\ ~waiting /\ inbox = <<>>
  /\ pc' = "launch"
  /\ UNCHANGED <<inbox, lanes, lane_of, rr, gens, pending, pendingFree, flushed, step, waiting,
                 queue, workerVars, replies, out, status>>

(* The top of the loop: a blocking receive only if there is nothing to do. *)
Loop(nowPending, nowLanes) ==
  /\ pc' = "recv"
  /\ waiting' = (nowPending = <<>> /\ \A d \in Dps : ~HasRunnable(nowLanes[d]))
-----------------------------------------------------------------------------
(* _afd_prepare_step_launch and _afd_launch_step: every lane schedules one *)
(* batch of the global phase (a lane without one takes part with a dummy   *)
(* batch), each worker gets its command, and the requests advance at once. *)
Scheduled == [d \in Dps |-> Schedule(lanes[d], NextGlobalPhase)]
Prepared  == \E d \in Dps : Scheduled[d].entries # <<>>

Writes(lane, e) == [req |-> e.req, slot |-> e.slot, start |-> e.start, ext |-> e.ext,
                    writeback |-> CanDecode(lane, e)]
AgPlan(d) ==
  [type |-> "step", step |-> step, phase |-> NextGlobalPhase, free |-> pendingFree[d],
   entries |-> [i \in DOMAIN Scheduled[d].entries |->
                  Writes(Scheduled[d].lane, Scheduled[d].entries[i])]]
EgPlan == [type |-> "step", step |-> step]

Stamped(e, gen) == [req |-> e.req, slot |-> e.slot, start |-> e.start, ext |-> e.ext,
                    chunked |-> e.chunked, gen |-> gen]
WithGeneration(d) ==
  [i \in DOMAIN Scheduled[d].entries |->
     Stamped(Scheduled[d].entries[i], gens[d][Scheduled[d].entries[i].slot])]

LaunchStep ==
  /\ pc = "launch" /\ Len(pending) < MaxPending /\ Prepared
  /\ \A d \in Dps : CanAllocate(lanes[d], Scheduled[d].entries)
  /\ queue' = [w \in Workers |-> Append(queue[w], IF w = Expert THEN EgPlan ELSE AgPlan(w))]
  /\ lanes' = [d \in Dps |-> Launched(AllocatePaged(Scheduled[d].lane, Scheduled[d].entries),
                                      Scheduled[d].entries)]
  /\ pending' = Append(pending, [step |-> step, batch |-> [d \in Dps |-> WithGeneration(d)]])
  /\ pendingFree' = [d \in Dps |-> <<>>]
  /\ step' = step + 1 /\ flushed' = FALSE
  /\ UNCHANGED <<inbox, lane_of, rr, gens, pc, waiting, workerVars, replies, out, status>>

(* allocate_paged raises: the loop thread ends with a recorded failure.    *)
LaunchFails ==
  /\ pc = "launch" /\ Len(pending) < MaxPending /\ Prepared
  /\ \E d \in Dps : ~CanAllocate(lanes[d], Scheduled[d].entries)
  /\ pc' = "failed"
  /\ UNCHANGED <<inbox, lanes, lane_of, rr, gens, pending, pendingFree, flushed, step, waiting,
                 queue, workerVars, replies, out, status>>

(* No lane has a batch: flush the workers once and complete everything     *)
(* that is pending; with nothing pending, go round the loop.               *)
LaunchNone ==
  /\ pc = "launch" /\ Len(pending) < MaxPending /\ ~Prepared
  /\ IF pending = <<>>
     THEN Loop(pending, lanes) /\ UNCHANGED <<queue, flushed>>
     ELSE /\ queue' = IF flushed THEN queue ELSE ToAll(<<Flush>>)
          /\ flushed' = TRUE /\ pc' = "drain" /\ UNCHANGED waiting
  /\ UNCHANGED <<inbox, lanes, lane_of, rr, gens, pending, pendingFree, step, workerVars, replies,
                 out, status>>

PipelineFull ==
  /\ pc = "launch" /\ Len(pending) >= MaxPending
  /\ pc' = "complete"
  /\ UNCHANGED <<inbox, lanes, lane_of, rr, gens, pending, pendingFree, flushed, step, waiting,
                 queue, workerVars, replies, out, status>>
-----------------------------------------------------------------------------
(* _afd_collect_global: every worker has replied to the oldest step.       *)
Collected(s) == {p \in replies : p.step = s}
HasReplies(s) == Cardinality(Collected(s)) = Cardinality(Workers)
LaneTokens_FirstLane(s, d) == (CHOOSE p \in Collected(s) : p.worker = 0).tokens  \* mutant
LaneTokens(s, d) == (CHOOSE p \in Collected(s) : p.worker = d).tokens

(* _afd_filter_valid_completion_tokens: only entries whose table has not   *)
(* been freed since the launch are current; a token that did not arrive    *)
(* counts as 0.                                                            *)
TokenAt(tokens, i) == IF i <= Len(tokens) THEN tokens[i] ELSE ZeroToken
ValidItems_All(d, batch, tokens) ==                                 \* mutant
  [i \in DOMAIN batch |-> [entry |-> batch[i], token |-> TokenAt(tokens, i), current |-> TRUE]]
ValidItems(d, batch, tokens) ==
  [i \in DOMAIN batch |-> [entry   |-> batch[i], token |-> TokenAt(tokens, i),
                           current |-> gens[d][batch[i].slot] = batch[i].gen]]

Completion(d) ==
  LET old == Head(pending) IN
  CompleteResults(lanes[d], ValidItems(d, old.batch[d], LaneTokens(old.step, d)))

RepliesTo(r) ==
  FlattenSeq([i \in 1..NumDp |-> Completion(i - 1).replies[r]])

(* _afd_complete_global and complete_pending for the oldest step; then the *)
(* loop goes on, completes the next one (drain, exit), or returns.         *)
CompleteStep ==
  /\ pc \in {"complete", "drain", "exit"} /\ pending # <<>> /\ HasReplies(Head(pending).step)
  /\ lanes' = [d \in Dps |-> Completion(d).lane]
  /\ gens' = [d \in Dps |-> Forget(gens[d], Completion(d).freed)]
  /\ pendingFree' = [d \in Dps |-> pendingFree[d] \o Completion(d).freed]
  /\ out' = [r \in Reqs |-> out[r] \o RepliesTo(r)]
  /\ status' = [r \in Reqs |-> IF \E i \in DOMAIN RepliesTo(r) : RepliesTo(r)[i].finished
                               THEN "finished" ELSE status[r]]
  /\ replies' = replies \ Collected(Head(pending).step)
  /\ pending' = Tail(pending)
  /\ IF pc = "complete" \/ (pc = "drain" /\ pending' = <<>>)
     THEN Loop(pending', lanes')
     ELSE UNCHANGED <<pc, waiting>>
  /\ UNCHANGED <<inbox, lane_of, rr, flushed, step, queue, workerVars>>

Return ==
  /\ pc = "exit" /\ pending = <<>>
  /\ pc' = "stopped"
  /\ UNCHANGED <<inbox, lanes, lane_of, rr, gens, pending, pendingFree, flushed, step, waiting,
                 queue, workerVars, replies, out, status>>
-----------------------------------------------------------------------------
(* A worker loop takes its next command when it is not retiring a step.    *)
Retiring_OneLate(w) == Len(inflight[w]) > Lead + 1 \/ draining[w]    \* mutant
Retiring(w) == Len(inflight[w]) > Lead \/ draining[w]
NextCommand(w, type) ==
  worker[w] = "running" /\ ~Retiring(w) /\ queue[w] # <<>> /\ Head(queue[w]).type = type

(* _run_afd_eg_step: enqueue the expert side of the step.                  *)
RunExpert ==
  /\ NextCommand(Expert, "step")
  /\ LET s == Head(queue[Expert]).step IN
     /\ inflight' = [inflight EXCEPT ![Expert] = Append(@, [step |-> s, tokens |-> <<>>])]
     /\ started' = [started EXCEPT ![Expert] = s]
  /\ queue' = [queue EXCEPT ![Expert] = Tail(@)]
  /\ UNCHANGED <<inbox, coordVars, draining, worker, stores, replies, out, status>>

(* _run_afd_ag_step: materialize the plan, then, in stream order, run the  *)
(* model, sample and write the tokens back.                                *)
RunAttention(d) ==
  /\ NextCommand(d, "step")
  /\ LET plan == Head(queue[d])
         mat  == Materialized(stores[d], plan)
     IN /\ ~MaterializeFails(stores[d], plan)
        /\ \E eos \in SUBSET {i \in DOMAIN plan.entries : plan.entries[i].req \in MayEos} :
              LET tokens == Sampled(mat, plan, eos) IN
              /\ stores' = [stores EXCEPT ![d] = Writeback(mat, plan, tokens)]
              /\ inflight' = [inflight EXCEPT ![d] = Append(@, [step |-> plan.step, tokens |-> tokens])]
        /\ started' = [started EXCEPT ![d] = plan.step]
  /\ queue' = [queue EXCEPT ![d] = Tail(@)]
  /\ UNCHANGED <<inbox, coordVars, draining, worker, replies, out, status>>

AttentionFails(d) ==
  /\ NextCommand(d, "step") /\ MaterializeFails(stores[d], Head(queue[d]))
  /\ worker' = [worker EXCEPT ![d] = "failed"]
  /\ UNCHANGED <<inbox, coordVars, queue, inflight, draining, started, stores, replies, out, status>>

(* AfdFlushStepCmd (which the normal loops ignore) and AfdStopCmd.         *)
TakeFlush(w) ==
  /\ NextCommand(w, "flush")
  /\ draining' = [draining EXCEPT ![w] = inflight[w] # <<>>]
  /\ queue' = [queue EXCEPT ![w] = Tail(@)]
  /\ UNCHANGED <<inbox, coordVars, inflight, worker, started, stores, replies, out, status>>

TakeStop_AtOnce(w) ==                                               \* mutant
  /\ NextCommand(w, "stop")
  /\ worker' = [worker EXCEPT ![w] = "stopped"]
  /\ queue' = [queue EXCEPT ![w] = Tail(@)]
  /\ UNCHANGED <<inbox, coordVars, inflight, draining, started, stores, replies, out, status>>

TakeStop(w) ==
  /\ NextCommand(w, "stop")
  /\ draining' = [draining EXCEPT ![w] = inflight[w] # <<>>]
  /\ worker' = [worker EXCEPT ![w] = IF inflight[w] = <<>> THEN "stopped" ELSE "stopping"]
  /\ queue' = [queue EXCEPT ![w] = Tail(@)]
  /\ UNCHANGED <<inbox, coordVars, inflight, started, stores, replies, out, status>>

(* _process_last_afd_ag, _process_last_afd_eg: wait for the oldest step of *)
(* this worker to end on the GPU (that is, on every GPU), and reply.       *)
Retire(w) ==
  /\ worker[w] \in {"running", "stopping"} /\ Retiring(w)
  /\ LET old == Head(inflight[w]) IN
     /\ \A v \in Workers : started[v] >= old.step
     /\ replies' = replies \union {[step |-> old.step, worker |-> w, tokens |-> old.tokens]}
  /\ inflight' = [inflight EXCEPT ![w] = Tail(@)]
  /\ draining' = [draining EXCEPT ![w] = @ /\ inflight'[w] # <<>>]
  /\ worker' = [worker EXCEPT ![w] = IF @ = "stopping" /\ inflight'[w] = <<>> THEN "stopped" ELSE @]
  /\ UNCHANGED <<inbox, coordVars, queue, started, stores, out, status>>
-----------------------------------------------------------------------------
Coordinator ==
  \/ ProcessUser \/ ProcessAbort \/ ProcessExit \/ EndRecv
  \/ LaunchStep \/ LaunchFails \/ LaunchNone \/ PipelineFull
  \/ CompleteStep \/ Return
Attention(d) == RunAttention(d) \/ AttentionFails(d)
WorkerLoop(w) ==
  \/ w = Expert /\ RunExpert
  \/ w \in Dps /\ Attention(w)
  \/ TakeFlush(w) \/ TakeStop(w) \/ Retire(w)
Client == SendExit \/ \E r \in Reqs : Send(r) \/ Disconnect(r)

Next == Client \/ Coordinator \/ \E w \in Workers : WorkerLoop(w)

(* Weak fairness of the coordinator's thread and of each worker's process. *)
(* ENABLED of the launching and running actions is written out as their    *)
(* guards (evaluating it would run the whole scheduler).  Clients owe      *)
(* nothing.                                                                *)
CoordinatorCan ==
  \/ pc = "recv" /\ (inbox # <<>> \/ ~waiting)
  \/ pc = "launch"
  \/ pc \in {"complete", "drain", "exit"} /\ pending # <<>> /\ HasReplies(Head(pending).step)
CoordinatorMoves == coordVars' # coordVars \/ Len(inbox') < Len(inbox)
WorkerCan(w) ==
  \/ worker[w] = "running" /\ ~Retiring(w) /\ queue[w] # <<>>
  \/ /\ worker[w] \in {"running", "stopping"} /\ Retiring(w)
     /\ \A v \in Workers : started[v] >= Head(inflight[w]).step
WorkerMoves(w) ==
  inflight'[w] # inflight[w] \/ worker'[w] # worker[w] \/ Len(queue'[w]) < Len(queue[w])

Fairness ==
  /\ []<>~CoordinatorCan \/ []<><<CoordinatorMoves>>_vars
  /\ WF_vars(Return)
  /\ \A w \in Workers : []<>~WorkerCan(w) \/ []<><<WorkerMoves(w)>>_vars
Spec == Init /\ [][Next]_vars /\ Fairness
-----------------------------------------------------------------------------
TypeOK ==
  /\ \A d \in Dps : /\ lanes[d].running \subseteq Reqs /\ lanes[d].pages \in 0..NumPages
                    /\ stores[d].freePages \in 0..NumPages
                    /\ gens[d] \in [Slots -> Nat]
  /\ lane_of \in [Reqs -> Workers] /\ step \in Nat /\ flushed \in BOOLEAN
  /\ pc \in {"recv", "launch", "complete", "drain", "exit", "stopped", "failed"}
  /\ worker \in [Workers -> {"running", "stopping", "stopped", "failed"}]
  /\ draining \in [Workers -> BOOLEAN] /\ started \in [Workers -> Nat]
  /\ status \in [Reqs -> {"new", "sent", "live", "aborted", "finished"}]

(* Every client is sent the tokens of its own request, in order, from the  *)
(* first one after the prompt.  The tokens pass through rows that are      *)
(* handed to the next request while steps of the previous one are still on *)
(* their way, in two copies of the row bookkeeping, with up to three steps *)
(* whose tokens the coordinator has not seen.                              *)
AnswersAreOwn ==
  \A r \in Reqs : \A i \in DOMAIN out[r] :
    out[r][i].token.of = r /\ out[r][i].token.at = InputLen[r] + i - 1

(* An answer ends with its first end-of-sequence token or at its limit,    *)
(* is marked finished there, and nothing is sent after it, although steps  *)
(* launched before the end was known still produce tokens.                 *)
EndsOnce ==
  \A r \in Reqs : \A i \in DOMAIN out[r] :
    /\ out[r][i].finished <=> (out[r][i].token.eos \/ i = OutLen[r])
    /\ out[r][i].finished => i = Len(out[r])

(* The central ledger: a table row has one owner or is free, and the pages *)
(* not free are those of the rows' tokens, whatever is freed with steps in *)
(* flight.                                                                 *)
Holders(d) == {r \in Reqs : lanes[d].req[r].slot # NoSlot}
LedgerBalances ==
  \A d \in Dps :
    LET lane == lanes[d] IN
    /\ IsInjective(lane.slots)
    /\ \A r1, r2 \in Holders(d) : r1 # r2 => lane.req[r1].slot # lane.req[r2].slot
    /\ Range(lane.slots) \union {lane.req[r].slot : r \in Holders(d)} = Slots
    /\ \A r \in Holders(d) : lane.req[r].slot \notin Range(lane.slots)
    /\ lane.pages + MapThenSumSet(LAMBDA r : PagesFor(lane.req[r].cached), Holders(d)) = NumPages

(* "Keep worker KV/table state in lockstep with the central scheduler's    *)
(* immediately reusable table manager" (afd_coordinator.py:1246): when a   *)
(* worker takes a command, it extends every row from where the coordinator *)
(* says the row ends.                                                      *)
WorkersInLockstep ==
  \A d \in Dps : queue[d] # <<>> /\ Head(queue[d]).type = "step" =>
    LET plan  == Head(queue[d])
        ready == FreeTables(stores[d], plan.free)
    IN \A i \in DOMAIN plan.entries :
         LocalLen(ready, plan.entries[i]) = plan.entries[i].start

(* Neither the ledger nor a worker's own allocator runs out of pages after *)
(* a request was admitted.                                                 *)
NoAllocatorFails == pc # "failed" /\ \A w \in Workers : worker[w] # "failed"

(* After a request was found and aborted, no token of it is sent and its   *)
(* row is not freed again, although its steps are still in flight.         *)
AbortIsFinal ==
  [][\A r \in Reqs : status[r] = "aborted" => status'[r] = "aborted" /\ out'[r] = out[r]]_vars

(* Every request the coordinator takes in is answered to the end: the      *)
(* workers retire steps as fast as the coordinator needs their tokens, and *)
(* are flushed when it has nothing left to launch.                         *)
EveryRequestEnds ==
  \A r \in Reqs : status[r] = "live" ~> (status[r] \in {"finished", "aborted"} \/ ~Running)

(* An ExitMsg ends the loop and every worker, with the tokens of the steps *)
(* in flight delivered.                                                    *)
ExitStopsAll ==
  pc = "exit" ~> (pc = "stopped" /\ \A w \in Workers : worker[w] = "stopped")

(* "Keep a small fixed number of global steps in flight so worker queues   *)
(* stay fed" (afd_coordinator.py:1204): with running requests and nothing  *)
(* in flight, a step is launched.                                          *)
WorkersStayFed ==
  (\E d \in Dps : DecodeRunnable(lanes[d])) /\ pending = <<>> ~>
    (pending # <<>> \/ ~Running \/ \A d \in Dps : ~DecodeRunnable(lanes[d]))
=============================================================================
