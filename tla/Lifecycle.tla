------------------------------ MODULE Lifecycle ------------------------------
(***************************************************************************)
(* Start and stop of the server: run_api_server with the local, the Ray or *)
(* the AFD supervisor, the processes and actors they create, and faults.   *)
(*                                                                         *)
(* main is the API-server process.  A rank is a TP scheduler (a process, or *)
(* a thread of a Ray actor) or an AFD worker actor; ranks load, meet in a   *)
(* collective, then report ready.  Under AFD the coordinator actor creates  *)
(* the ranks in its start() and drives them from its loop thread with       *)
(* commands, one queue per rank, while its main thread serves shutdown():   *)
(* both put commands on the same queues, one rank after the other.          *)
(*                                                                         *)
(* A rank that waits in a collective whose peer is gone waits until the     *)
(* process group's timeout (distributed_timeout) takes it down.             *)
(***************************************************************************)
EXTENDS Naturals, Sequences, FiniteSets

CONSTANTS Modes, NumRanks, NumTok,
          MaxSteps,      \* bound: global steps the AFD loop launches
          MaxFaults,     \* bound: processes that die, actors that raise
          StartSignals   \* whom an interrupt reaches while starting: "group", "parent"

ASSUME LifecycleAssumption ==
  /\ Modes \subseteq {"local", "ray", "afd"}
  /\ NumRanks \in Nat \ {0} /\ NumTok \in Nat
  /\ StartSignals \subseteq {"group", "parent"}

Ranks == 1..NumRanks
Toks  == 0..NumTok             \* the tokenizers and the detokenizer

VARIABLES mode, main, rank, tok,
          acks, got,     \* messages in ack_queue; received_acks
          coord,         \* main thread of the coordinator actor
          loop,          \* its loop thread
          sent,          \* rank that the loop thread sends to next
          stopTo,        \* rank that shutdown() sends AfdStopCmd to next
          cmds,          \* commands on their way to each AFD worker
          entered,       \* steps whose collective a worker has entered
          launched,      \* steps the loop thread has begun to launch
          exit,          \* an ExitMsg waits in the backend's inbox
          faults
coordVars == <<coord, loop, sent, stopTo, cmds, entered, launched, exit>>
vars == <<mode, main, rank, tok, acks, got, coordVars, faults>>

Gone    == {"dead", "exited", "killed"}
Idle    == Gone \cup {"none"}
Waiting == {"synced", "step", "barrier"}          \* in a collective
Up      == {"ready", "step", "barrier", "returned"}
Ready(r)   == rank[r] \in Up
Joined(r)  == rank[r] \in {"synced"} \cup Up      \* has reached the first collective
Actor(r)   == rank[r] \notin Idle                 \* its process exists
AllGone(s) == \A p \in DOMAIN s : s[p] \in Idle

Init ==
  /\ mode \in Modes /\ main = "bind"
  /\ rank = [r \in Ranks |-> "none"] /\ tok = [t \in Toks |-> "none"]
  /\ acks = 0 /\ got = 0 /\ coord = "none" /\ loop = "none" /\ sent = 1 /\ stopTo = 1
  /\ cmds = [r \in Ranks |-> <<>>] /\ entered = [r \in Ranks |-> 0]
  /\ launched = 0 /\ exit = FALSE /\ faults = 0
-----------------------------------------------------------------------------
(* start(): tokenizers are spawned first or last, nobody waits in between. *)
SpawnTokenizers == tok' = [t \in Toks |-> "loading"]
SpawnSchedulers == rank' = [r \in Ranks |-> "loading"]

StartLocal ==
  /\ main = "bind" /\ mode = "local"
  /\ SpawnTokenizers /\ SpawnSchedulers /\ main' = "acks"
  /\ UNCHANGED <<mode, acks, got, coordVars, faults>>
StartRay ==
  /\ main = "bind" /\ mode = "ray"
  /\ SpawnTokenizers /\ SpawnSchedulers /\ main' = "refs"
  /\ UNCHANGED <<mode, acks, got, coordVars, faults>>
StartAfd ==
  /\ main = "bind" /\ mode = "afd"
  /\ SpawnTokenizers /\ main' = "refs" /\ coord' = "place"
  /\ UNCHANGED <<mode, rank, acks, got, loop, sent, stopTo, cmds, entered, launched, exit, faults>>

(* ray.get(start_refs): every actor's start returned, or one raised.       *)
RefsReady == IF mode = "ray" THEN \A r \in Ranks : Ready(r) ELSE coord = "idle"
RefsRaise == IF mode = "ray" THEN \E r \in Ranks : rank[r] \in {"failed", "dead"}
             ELSE coord \in {"failed", "dead"}
GetRefs ==
  /\ main = "refs"
  /\ \/ RefsReady /\ main' = "acks"
     \/ RefsRaise /\ main' = "stop"
  /\ UNCHANGED <<mode, rank, tok, acks, got, coordVars, faults>>

(* _wait_for_acks with what each supervisor passes it *)
ExpectedAcks ==
  CASE mode = "local" -> NumRanks + NumTok + 1
    [] mode = "ray"   -> NumTok + 1
    [] OTHER          -> NumTok
Failures == (\E t \in Toks : tok[t] = "dead") \/ (mode = "local" /\ \E r \in Ranks : rank[r] = "dead")
WaitForAcks_AnyAck ==                                               \* mutant
  /\ main = "acks"
  /\ IF got = 1 THEN main' = "serving" /\ UNCHANGED <<acks, got>>
     ELSE \/ acks > 0 /\ acks' = acks - 1 /\ got' = got + 1 /\ UNCHANGED main
          \/ acks = 0 /\ Failures /\ main' = "stop" /\ UNCHANGED <<acks, got>>
  /\ UNCHANGED <<mode, rank, tok, coordVars, faults>>
WaitForAcks ==
  /\ main = "acks"
  /\ IF got = ExpectedAcks THEN main' = "serving" /\ UNCHANGED <<acks, got>>
     ELSE \/ acks > 0 /\ acks' = acks - 1 /\ got' = got + 1 /\ UNCHANGED main
          \/ acks = 0 /\ Failures /\ main' = "stop" /\ UNCHANGED <<acks, got>>
  /\ UNCHANGED <<mode, rank, tok, coordVars, faults>>
-----------------------------------------------------------------------------
(* Tokenizer processes: ready inside the try that catches the interrupt.   *)
TokReady(t) ==
  /\ tok[t] = "loading"
  /\ tok' = [tok EXCEPT ![t] = "ready"] /\ acks' = acks + 1
  /\ UNCHANGED <<mode, main, rank, got, coordVars, faults>>
Interrupted(s) == CASE s = "loading" -> "dead" [] s = "ready" -> "exited" [] OTHER -> s

(* Ranks: load, meet, report.  _run_scheduler puts its ack after          *)
(* sync_all_ranks; a worker replies after _prepare_hot_rpc_runtime, whose   *)
(* initialization and graph captures are collectives.                      *)
Load(r) ==
  /\ rank[r] = "loading" /\ rank' = [rank EXCEPT ![r] = "synced"]
  /\ UNCHANGED <<mode, main, tok, acks, got, coordVars, faults>>
RankReady(r) ==
  /\ rank[r] = "synced" /\ \A q \in Ranks : Joined(q)
  /\ rank' = [rank EXCEPT ![r] = "ready"]
  /\ acks' = IF mode = "local" THEN acks + 1 ELSE acks
  /\ UNCHANGED <<mode, main, tok, got, coordVars, faults>>

(* Scheduler.shutdown after KeyboardInterrupt: sync_all_ranks again, then  *)
(* the process exits or the actor's thread ends.                           *)
LeaveBarrier(r) ==
  /\ rank[r] = "barrier" /\ \A q \in Ranks : rank[q] \in {"barrier", "returned", "exited"}
  /\ rank' = [rank EXCEPT ![r] = IF mode = "local" THEN "exited" ELSE "returned"]
  /\ UNCHANGED <<mode, main, tok, acks, got, coordVars, faults>>
(* An ExitMsg reaches all schedulers: rank 0 broadcasts what it receives.  *)
ExitSchedulers ==
  /\ mode = "ray" /\ exit /\ \A r \in Ranks : rank[r] = "ready"
  /\ exit' = FALSE /\ rank' = [r \in Ranks |-> "barrier"]
  /\ UNCHANGED <<mode, main, tok, acks, got, coord, loop, sent, stopTo, cmds, entered, launched, faults>>
-----------------------------------------------------------------------------
(* AFD workers: start_hot_rpc_loop.                                        *)
TakeStep(r) ==
  /\ rank[r] = "ready" /\ cmds[r] # <<>> /\ Head(cmds[r]) = "step"
  /\ cmds' = [cmds EXCEPT ![r] = Tail(@)] /\ entered' = [entered EXCEPT ![r] = @ + 1]
  /\ rank' = [rank EXCEPT ![r] = "step"]
  /\ UNCHANGED <<mode, main, tok, acks, got, coord, loop, sent, stopTo, launched, exit, faults>>
FinishStep(r) ==
  /\ rank[r] = "step" /\ \A q \in Ranks : entered[q] >= entered[r]
  /\ rank' = [rank EXCEPT ![r] = "ready"]
  /\ UNCHANGED <<mode, main, tok, acks, got, coordVars, faults>>
TakeStop_Ignored(r) ==                                              \* mutant
  /\ rank[r] = "ready" /\ cmds[r] # <<>> /\ Head(cmds[r]) = "stop"
  /\ cmds' = [cmds EXCEPT ![r] = Tail(@)]
  /\ UNCHANGED <<mode, main, rank, tok, acks, got, coord, loop, sent, stopTo, entered, launched, exit, faults>>
TakeStop(r) ==
  /\ rank[r] = "ready" /\ cmds[r] # <<>> /\ Head(cmds[r]) = "stop"
  /\ cmds' = [cmds EXCEPT ![r] = Tail(@)] /\ rank' = [rank EXCEPT ![r] = "returned"]
  /\ UNCHANGED <<mode, main, tok, acks, got, coord, loop, sent, stopTo, entered, launched, exit, faults>>
-----------------------------------------------------------------------------
(* The coordinator's start(): startup_afd_workers, then the loop thread.   *)
CreateWorkers ==                                     \* stages 1 to 7
  /\ coord = "place" /\ coord' = "prepare"
  /\ rank' = [r \in Ranks |-> "created"]
  /\ UNCHANGED <<mode, main, tok, acks, got, loop, sent, stopTo, cmds, entered, launched, exit, faults>>
PrepareWorkers ==                                    \* stages 8 to 10
  /\ coord = "prepare"
  /\ \/ /\ \A r \in Ranks : rank[r] = "created"
        /\ rank' = [r \in Ranks |-> "loading"] /\ coord' = "ready_wait"
     \/ /\ \E r \in Ranks : rank[r] # "created"
        /\ coord' = "failed" /\ UNCHANGED rank
  /\ UNCHANGED <<mode, main, tok, acks, got, loop, sent, stopTo, cmds, entered, launched, exit, faults>>
AwaitReady ==                                        \* stage 11, _start_loop_thread
  /\ coord = "ready_wait"
  /\ \/ (\A r \in Ranks : Ready(r)) /\ coord' = "idle" /\ loop' = "recv"
     \/ (\E r \in Ranks : rank[r] \in {"failed", "dead"}) /\ coord' = "failed" /\ UNCHANGED loop
  /\ UNCHANGED <<mode, main, rank, tok, acks, got, sent, stopTo, cmds, entered, launched, exit, faults>>

(* The loop thread (see AfdPipeline for what a step is): a step goes to    *)
(* every worker in turn; its results are collected when all have run it.   *)
CoordUp == coord \notin {"none", "dead", "killed"}
SendTo(r, c) == cmds' = [cmds EXCEPT ![r] = Append(@, c)]
LoopReceive ==
  /\ CoordUp /\ loop = "recv"
  /\ \/ exit /\ exit' = FALSE /\ loop' = "stopping" /\ UNCHANGED launched
     \/ ~exit /\ launched < MaxSteps /\ launched' = launched + 1 /\ loop' = "launch" /\ UNCHANGED exit
  /\ sent' = 1
  /\ UNCHANGED <<mode, main, rank, tok, acks, got, coord, stopTo, cmds, entered, faults>>
LoopSend ==
  /\ CoordUp /\ loop \in {"launch", "stopping"}
  /\ SendTo(sent, IF loop = "launch" THEN "step" ELSE "stop")
  /\ IF sent < NumRanks THEN sent' = sent + 1 /\ UNCHANGED loop
     ELSE sent' = 1 /\ loop' = IF loop = "launch" THEN "collect" ELSE "done"
  /\ UNCHANGED <<mode, main, rank, tok, acks, got, coord, stopTo, entered, launched, exit, faults>>
StepDone == \A r \in Ranks : entered[r] = launched /\ rank[r] # "step"
LoopCollect ==
  /\ CoordUp /\ loop = "collect" /\ StepDone /\ loop' = "recv"
  /\ UNCHANGED <<mode, main, rank, tok, acks, got, coord, sent, stopTo, cmds, entered, launched, exit, faults>>

(* shutdown(): stop the workers, join the loop thread and the hot loops    *)
(* for five seconds each, close the queues, run every worker's shutdown()  *)
(* - behind its hot loop, actors run one call at a time - and kill them.   *)
HotLoopEnded(r) == rank[r] \in {"none", "created", "returned", "failed"} \cup Gone
SendStop ==
  /\ coord = "sd_stop"
  /\ SendTo(stopTo, "stop")
  /\ IF stopTo < NumRanks THEN stopTo' = stopTo + 1 /\ UNCHANGED coord
     ELSE coord' = "sd_join" /\ UNCHANGED stopTo
  /\ UNCHANGED <<mode, main, rank, tok, acks, got, loop, sent, entered, launched, exit, faults>>
JoinHotLoops ==                                      \* ended, or timed out
  /\ coord = "sd_join" /\ coord' = "sd_workers"
  /\ loop' = IF loop = "none" THEN loop ELSE "closed"
  /\ UNCHANGED <<mode, main, rank, tok, acks, got, sent, stopTo, cmds, entered, launched, exit, faults>>
ShutdownWorkers ==
  /\ coord = "sd_workers"
  /\ (\A r \in Ranks : HotLoopEnded(r)) \/ (\E r \in Ranks : rank[r] = "dead")
  /\ rank' = [r \in Ranks |-> IF Actor(r) THEN "killed" ELSE rank[r]] /\ coord' = "sd_done"
  /\ UNCHANGED <<mode, main, tok, acks, got, loop, sent, stopTo, cmds, entered, launched, exit, faults>>
-----------------------------------------------------------------------------
(* The end of serving: uvicorn returns, lifespan or the finally block      *)
(* stops the backend once.  An interrupt from the terminal also reaches    *)
(* the child processes; Ray's actors are not among them.                   *)
InterruptChildren ==
  /\ tok'  = [t \in Toks |-> Interrupted(tok[t])]
  /\ rank' = IF mode # "local" THEN rank
             ELSE [r \in Ranks |-> CASE rank[r] = "ready" -> "barrier"
                                     [] rank[r] \in {"loading", "synced"} -> "dead"
                                     [] OTHER -> rank[r]]
Interrupt ==
  /\ main = "serving" /\ main' = "stop"
  /\ InterruptChildren \/ UNCHANGED <<rank, tok>>
  /\ UNCHANGED <<mode, acks, got, coordVars, faults>>
(* While starting, KeyboardInterrupt passes the supervisor's "except       *)
(* Exception": the interpreter's exit joins the children, then Ray's exit  *)
(* takes the actors of the job with it.                                    *)
InterruptStart ==
  /\ main \in {"refs", "acks"} /\ main' = "joining"
  /\ \E to \in StartSignals : IF to = "group" THEN InterruptChildren ELSE UNCHANGED <<rank, tok>>
  /\ UNCHANGED <<mode, acks, got, coordVars, faults>>
JoinChildren ==
  /\ main = "joining" /\ AllGone(tok) /\ (mode = "local" => AllGone(rank))
  /\ main' = "done" /\ coord' = IF mode = "afd" THEN "killed" ELSE coord
  /\ rank' = [r \in Ranks |-> IF Actor(r) THEN "killed" ELSE rank[r]]
  /\ UNCHANGED <<mode, tok, acks, got, loop, sent, stopTo, cmds, entered, launched, exit, faults>>

(* shutdown() of the three supervisors *)
BeginStop ==
  /\ main = "stop"
  /\ IF mode = "local" THEN main' = "int" /\ UNCHANGED <<coord, exit>>
     ELSE /\ main' = "sd" /\ exit' = TRUE
          /\ coord' = CASE coord \in {"none", "dead"} -> coord
                        [] coord = "failed" /\ \A r \in Ranks : rank[r] = "created" \/ rank[r] \in Idle -> "sd_join"
                        [] OTHER -> "sd_stop"
  /\ UNCHANGED <<mode, rank, tok, acks, got, loop, sent, stopTo, cmds, entered, launched, faults>>
(* ray.get(shutdown_refs): every actor answered, a scheduler behind its    *)
(* start() and five seconds of join, or an actor is dead; then ray.kill.   *)
Starting(r) == rank[r] \in {"loading", "synced"}
Answered ==
  IF mode = "ray" THEN (\A r \in Ranks : ~Starting(r)) \/ \E r \in Ranks : rank[r] = "dead"
  ELSE coord \in {"sd_done", "dead"}
KillActors ==
  /\ main = "sd" /\ Answered
  /\ main' = "int" /\ coord' = IF mode = "afd" THEN "killed" ELSE coord
  /\ rank' = [r \in Ranks |-> IF Actor(r) THEN "killed" ELSE rank[r]]
  /\ UNCHANGED <<mode, tok, acks, got, loop, sent, stopTo, cmds, entered, launched, exit, faults>>

(* _shutdown_processes: SIGINT, join, terminate, join, kill                *)
Sigint ==
  /\ main = "int" /\ main' = "term" /\ InterruptChildren
  /\ UNCHANGED <<mode, acks, got, coordVars, faults>>
Alive == {r \in Ranks : Actor(r)}
Terminate ==                                         \* some ranks may not react
  /\ main = "term" /\ main' = "kill"
  /\ \E stuck \in SUBSET Alive : rank' = [r \in Ranks |-> IF r \in Alive \ stuck THEN "killed" ELSE rank[r]]
  /\ tok' = [t \in Toks |-> IF tok[t] \in Idle THEN tok[t] ELSE "killed"]
  /\ UNCHANGED <<mode, acks, got, coordVars, faults>>
Kill_Tokenizers ==                                                  \* mutant
  /\ main = "kill" /\ main' = "done"
  /\ UNCHANGED <<mode, rank, tok, acks, got, coordVars, faults>>
Kill ==
  /\ main = "kill" /\ main' = "done"
  /\ rank' = [r \in Ranks |-> IF Actor(r) THEN "killed" ELSE rank[r]]
  /\ UNCHANGED <<mode, tok, acks, got, coordVars, faults>>
-----------------------------------------------------------------------------
(* Faults: a process dies, an actor's thread or call raises, the           *)
(* coordinator dies and Ray takes the actors it owns with it.              *)
Fault ==
  /\ faults < MaxFaults /\ faults' = faults + 1
  /\ \/ \E t \in Toks : tok[t] \in {"loading", "ready"} /\ tok' = [tok EXCEPT ![t] = "dead"]
        /\ UNCHANGED <<rank, coord>>
     \/ \E r \in Ranks : Actor(r) /\ rank' = [rank EXCEPT ![r] = "dead"] /\ UNCHANGED <<tok, coord>>
     \/ \E r \in Ranks : mode # "local" /\ rank[r] \in {"loading", "synced", "ready", "step"}
        /\ rank' = [rank EXCEPT ![r] = "failed"] /\ UNCHANGED <<tok, coord>>
     \/ CoordUp /\ coord' = "dead"
        /\ rank' = [r \in Ranks |-> IF Actor(r) THEN "killed" ELSE rank[r]] /\ UNCHANGED tok
  /\ UNCHANGED <<mode, main, acks, got, loop, sent, stopTo, cmds, entered, launched, exit>>

(* A collective that a peer will never join runs into the group's timeout. *)
NeverJoins(r, q) ==
  CASE rank[r] = "synced"  -> ~Joined(q) /\ rank[q] \notin {"loading", "created"}
    [] rank[r] = "barrier" -> rank[q] \in {"failed", "dead", "killed"}
    [] OTHER -> entered[q] < entered[r] /\ rank[q] \in {"returned", "failed"} \cup Gone
GroupTimeout(r) ==
  /\ rank[r] \in Waiting /\ \E q \in Ranks : NeverJoins(r, q)
  /\ rank' = [rank EXCEPT ![r] = "dead"]
  /\ UNCHANGED <<mode, main, tok, acks, got, coordVars, faults>>
-----------------------------------------------------------------------------
Supervise == StartLocal \/ StartRay \/ StartAfd \/ GetRefs \/ WaitForAcks
             \/ BeginStop \/ KillActors \/ JoinChildren \/ Sigint \/ Terminate \/ Kill
Coordinate == CreateWorkers \/ PrepareWorkers \/ AwaitReady \/ LoopReceive \/ LoopSend
              \/ LoopCollect \/ SendStop \/ JoinHotLoops \/ ShutdownWorkers
Work(r) == Load(r) \/ RankReady(r) \/ LeaveBarrier(r) \/ TakeStep(r) \/ FinishStep(r) \/ TakeStop(r)
Progress == Supervise \/ Coordinate \/ ExitSchedulers
            \/ (\E r \in Ranks : Work(r)) \/ (\E t \in Toks : TokReady(t))
Timeouts == \E r \in Ranks : GroupTimeout(r)
Next == Progress \/ Timeouts \/ Interrupt \/ InterruptStart \/ Fault

Spec == Init /\ [][Next]_vars /\ WF_vars(Progress) /\ WF_vars(Timeouts)
-----------------------------------------------------------------------------
(* When the server begins to serve, every rank has loaded and met the      *)
(* others, and at most one tokenizer of an AFD server still loads (start   *)
(* and _wait_for_acks of the three supervisors).                           *)
Loading(t) == tok[t] = "loading"
ServingIsReady ==
  main = "serving" =>
    /\ \A r \in Ranks : rank[r] \notin {"none", "created", "loading", "synced"}
    /\ Cardinality({t \in Toks : Loading(t)}) <= (IF mode = "afd" THEN 1 ELSE 0)

(* Nothing that the server created survives it: when it is gone, so is     *)
(* every scheduler, worker, tokenizer and coordinator, whatever failed or  *)
(* hung on the way (shutdown and _shutdown_processes).                     *)
NothingLeft == main = "done" => AllGone(rank) /\ AllGone(tok) /\ ~CoordUp

(* Whatever dies, raises or is interrupted, the server ends up serving or  *)
(* gone: a start that fails is noticed and undone, a stop comes to its end *)
(* (the waits and timeouts of start and shutdown).                         *)
ServerSettles == []<>(main \in {"serving", "done"})

(* What "ready" means to the clients of /health: every process the server  *)
(* needs has loaded.                                                       *)
EveryoneReady == main = "serving" => \A t \in Toks : ~Loading(t)

(* Without faults no worker has to be taken down by the timeout of its     *)
(* group: it is stopped between steps (shutdown, _afd_launch_step).        *)
CleanStop == faults = 0 /\ mode = "afd" => \A r \in Ranks : rank[r] # "dead"
=============================================================================
