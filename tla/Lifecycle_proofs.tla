-------------------------- MODULE Lifecycle_proofs --------------------------
(***************************************************************************)
(* Proofs about Lifecycle, for any number of ranks, tokenizers, steps and  *)
(* faults and every supervisor: a server that serves is ready, and a       *)
(* server that is gone leaves nothing behind.                              *)
(*                                                                         *)
(* Once created, a rank never goes back to loading and a process that is   *)
(* gone never comes back (Moves), except in the steps that create them;    *)
(* the coordinator, which creates the ranks of an AFD server, is down      *)
(* before the processes are, so it cannot create them again.               *)
(***************************************************************************)
EXTENDS Lifecycle, FiniteSetTheorems, TLAPS

Past(r) == rank[r] \notin {"none", "created", "loading", "synced"}
Early(t) == tok[t] \in {"none", "loading"}
Behind == {r \in Ranks : ~Past(r)}
Late   == {t \in Toks : Early(t)}

(* There is nothing before the server starts; at the end the coordinator   *)
(* is down first, then the tokenizers, then the ranks.                     *)
StopInv ==
  /\ DOMAIN rank = Ranks /\ DOMAIN tok = Toks
  /\ mode \in {"local", "ray", "afd"}
  /\ mode # "afd" => coord = "none"
  /\ main = "bind" => /\ coord = "none"
                      /\ \A r \in Ranks : rank[r] = "none"
                      /\ \A t \in Toks : tok[t] = "none"
  /\ main \in {"int", "term", "kill", "done"} => ~CoordUp
  /\ main \in {"kill", "done"} => AllGone(tok)
  /\ main = "done" => AllGone(rank)

(* What a step that creates no process does to them: nobody appears, and   *)
(* nobody goes back.                                                       *)
Moves ==
  /\ DOMAIN rank' = Ranks /\ DOMAIN tok' = Toks
  /\ \A r \in Ranks : rank[r] = "none" => rank'[r] = "none"
  /\ \A t \in Toks : tok[t] = "none" => tok'[t] = "none"
  /\ \A r \in Ranks : Past(r) => Past(r)'
  /\ \A t \in Toks : Early(t)' => Early(t)
  /\ AllGone(rank) => AllGone(rank)'
  /\ AllGone(tok) => AllGone(tok)'

Creates == StartLocal \/ StartRay \/ StartAfd \/ CreateWorkers \/ PrepareWorkers

LEMMA InterruptMoves ==
  ASSUME StopInv, InterruptChildren
  PROVE  Moves
<1>1. \A t \in Toks : tok'[t] = Interrupted(tok[t])
  BY DEF InterruptChildren
<1>2. \A r \in Ranks : rank'[r] = rank[r] \/ (rank'[r] \in {"barrier", "dead"} /\ Actor(r))
  BY DEF InterruptChildren, Actor, Idle, Gone, StopInv
<1>3. DOMAIN rank' = Ranks /\ DOMAIN tok' = Toks
  BY DEF InterruptChildren, StopInv
<1> QED BY <1>1, <1>2, <1>3 DEF Moves, StopInv, AllGone, Idle, Gone, Interrupted, Past, Early,
                               Actor

LEMMA StillMoves ==
  ASSUME StopInv, UNCHANGED <<rank, tok>>
  PROVE  Moves
BY DEF Moves, StopInv, AllGone, Past, Early

(* A rank that is at work moves to a state past its loading, or, while it  *)
(* loads, anywhere.                                                        *)
LEMMA RankMoves ==
  ASSUME StopInv, NEW r \in Ranks, NEW s, Actor(r), rank' = [rank EXCEPT ![r] = s],
         Past(r) => s \notin {"none", "created", "loading", "synced"}, tok' = tok
  PROVE  Moves
BY DEF Moves, StopInv, AllGone, Past, Early, Actor, Idle

LEMMA KilledMoves ==
  ASSUME StopInv, NEW S,
         rank' = [r \in Ranks |-> IF Actor(r) /\ r \in S THEN "killed" ELSE rank[r]],
         DOMAIN tok' = Toks,
         \A t \in Toks : tok'[t] = tok[t] \/ (tok'[t] \in Gone /\ tok[t] # "none")
  PROVE  Moves /\ (Ranks \subseteq S => AllGone(rank)')
BY DEF Moves, StopInv, AllGone, Past, Early, Actor, Idle, Gone

(* Every step but those that create processes moves them forward.          *)
LEMMA StepsMove ==
  ASSUME StopInv, Next, ~Creates
  PROVE  Moves
<1>1. CASE Supervise
  <2>1. CASE GetRefs \/ WaitForAcks \/ BeginStop
    BY <2>1, StillMoves DEF GetRefs, WaitForAcks, BeginStop
  <2>2. CASE KillActors \/ JoinChildren \/ Kill
    <3>1. /\ rank' = [r \in Ranks |-> IF Actor(r) /\ r \in Ranks THEN "killed" ELSE rank[r]]
          /\ tok' = tok
      BY <2>2 DEF KillActors, JoinChildren, Kill
    <3> QED BY <3>1, KilledMoves DEF StopInv
  <2>3. CASE Sigint
    BY <2>3, InterruptMoves DEF Sigint
  <2>4. CASE Terminate
    <3>1. PICK stuck \in SUBSET Alive :
            rank' = [r \in Ranks |-> IF r \in Alive \ stuck THEN "killed" ELSE rank[r]]
      BY <2>4 DEF Terminate
    <3>2. rank' = [r \in Ranks |-> IF Actor(r) /\ r \in Ranks \ stuck THEN "killed" ELSE rank[r]]
      BY <3>1 DEF Alive
    <3>3. /\ DOMAIN tok' = Toks
          /\ \A t \in Toks : tok'[t] = tok[t] \/ (tok'[t] \in Gone /\ tok[t] # "none")
      BY <2>4 DEF Terminate, Idle, Gone
    <3> QED BY <3>2, <3>3, KilledMoves
  <2> QED BY <1>1, <2>1, <2>2, <2>3, <2>4 DEF Supervise, Creates
<1>2. CASE Coordinate
  <2>1. CASE ShutdownWorkers
    <3>1. /\ rank' = [r \in Ranks |-> IF Actor(r) /\ r \in Ranks THEN "killed" ELSE rank[r]]
          /\ tok' = tok
      BY <2>1 DEF ShutdownWorkers
    <3> QED BY <3>1, KilledMoves DEF StopInv
  <2>2. CASE ~ShutdownWorkers
    BY <1>2, <2>2, StillMoves
       DEF Coordinate, Creates, AwaitReady, LoopReceive, LoopSend, LoopCollect, SendStop,
           JoinHotLoops
  <2> QED BY <2>1, <2>2
<1>3. CASE ExitSchedulers
  BY <1>3 DEF ExitSchedulers, Moves, StopInv, AllGone, Past, Early, Idle, Gone
<1>4. ASSUME NEW r \in Ranks, Work(r) PROVE Moves
  <2>1. CASE TakeStop(r) \/ TakeStep(r)
    BY <2>1, RankMoves DEF TakeStop, TakeStep, Actor, Idle, Gone
  <2>2. CASE Load(r) \/ RankReady(r)
    BY <2>2, RankMoves DEF Load, RankReady, Actor, Idle, Gone, Past
  <2>3. CASE LeaveBarrier(r) \/ FinishStep(r)
    BY <2>3, RankMoves DEF LeaveBarrier, FinishStep, Actor, Idle, Gone, Past
  <2> QED BY <1>4, <2>1, <2>2, <2>3 DEF Work
<1>5. ASSUME NEW t \in Toks, TokReady(t) PROVE Moves
  BY <1>5 DEF TokReady, Moves, StopInv, AllGone, Past, Early, Idle, Gone
<1>6. CASE Timeouts
  <2>1. PICK r \in Ranks : GroupTimeout(r)
    BY <1>6 DEF Timeouts
  <2> QED BY <2>1, RankMoves DEF GroupTimeout, Waiting, Actor, Idle, Gone
<1>7. CASE Interrupt
  BY <1>7, InterruptMoves, StillMoves DEF Interrupt
<1>8. CASE InterruptStart
  <2>1. InterruptChildren \/ UNCHANGED <<rank, tok>>
    BY <1>8 DEF InterruptStart
  <2> QED BY <2>1, InterruptMoves, StillMoves
<1>9. CASE Fault
  <2>1. CASE \E t \in Toks : /\ tok[t] \in {"loading", "ready"}
                             /\ tok' = [tok EXCEPT ![t] = "dead"] /\ rank' = rank
    BY <2>1 DEF Moves, StopInv, AllGone, Past, Early, Idle, Gone
  <2>2. CASE \E r \in Ranks : /\ Actor(r) /\ tok' = tok
                              /\ \E s \in {"dead", "failed"} : rank' = [rank EXCEPT ![r] = s]
    BY <2>2, RankMoves
  <2>3. CASE /\ rank' = [r \in Ranks |-> IF Actor(r) /\ r \in Ranks THEN "killed" ELSE rank[r]]
             /\ tok' = tok
    BY <2>3, KilledMoves DEF StopInv
  <2>4. \A r \in Ranks : rank[r] \in {"loading", "synced", "ready", "step"} => Actor(r)
    BY DEF Actor, Idle, Gone
  <2> QED BY <1>9, <2>1, <2>2, <2>3, <2>4 DEF Fault
<1> QED
  BY <1>1, <1>2, <1>3, <1>4, <1>5, <1>6, <1>7, <1>8, <1>9 DEF Next, Progress

(* The stop in order, kept by every step.                                  *)
LEMMA InitStopInv ==
  ASSUME Init
  PROVE  StopInv
BY LifecycleAssumption DEF Init, StopInv

LEMMA CreatesKeepStopInv ==
  ASSUME StopInv, Creates
  PROVE  StopInv'
<1>1. CASE StartLocal \/ StartRay \/ StartAfd
  BY <1>1 DEF StartLocal, StartRay, StartAfd, StopInv, SpawnTokenizers, SpawnSchedulers,
              coordVars
<1>2. CASE CreateWorkers \/ PrepareWorkers
  <2>1. /\ coord \in {"place", "prepare"} /\ DOMAIN rank' = Ranks
        /\ UNCHANGED <<mode, main, tok>>
    BY <1>2 DEF CreateWorkers, PrepareWorkers, StopInv
  <2>2. CoordUp
    BY <2>1 DEF CoordUp
  <2> QED BY <2>1, <2>2 DEF StopInv
<1> QED BY <1>1, <1>2 DEF Creates

(* Steps of the processes leave main alone, and the coordinator when it is *)
(* down.                                                                   *)
LEMMA ProcessSteps ==
  ASSUME Next, ~Supervise, ~Interrupt, ~InterruptStart
  PROVE  UNCHANGED <<main, mode>> /\ (CoordUp \/ coord' = coord)
<1>1. CASE Coordinate
  BY <1>1 DEF Coordinate, CreateWorkers, PrepareWorkers, AwaitReady, LoopReceive, LoopSend,
              LoopCollect, SendStop, JoinHotLoops, ShutdownWorkers, CoordUp
<1>2. CASE ExitSchedulers \/ Fault
  BY <1>2 DEF ExitSchedulers, Fault
<1>3. ASSUME NEW r \in Ranks, Work(r) \/ GroupTimeout(r)
      PROVE  UNCHANGED <<main, mode, coord>>
  BY <1>3 DEF Work, Load, RankReady, LeaveBarrier, TakeStep, FinishStep, TakeStop, GroupTimeout,
              coordVars
<1>4. ASSUME NEW t \in Toks, TokReady(t) PROVE UNCHANGED <<main, mode, coord>>
  BY <1>4 DEF TokReady, coordVars
<1> QED BY <1>1, <1>2, <1>3, <1>4 DEF Next, Progress, Timeouts

LEMMA StopInvStep ==
  ASSUME StopInv, [Next]_vars
  PROVE  StopInv'
<1>1. CASE UNCHANGED vars
  BY <1>1 DEF vars, coordVars, StopInv, AllGone, CoordUp
<1>2. CASE Creates
  BY <1>2, CreatesKeepStopInv
<1>3. CASE Next /\ ~Creates
  <2>1. Moves
    BY <1>3, StepsMove
  <2>2. CASE ~Supervise /\ ~Interrupt /\ ~InterruptStart
    BY <1>3, <2>1, <2>2, ProcessSteps DEF StopInv, Moves, CoordUp
  <2>3. CASE GetRefs \/ WaitForAcks \/ Interrupt \/ InterruptStart
    <3>1. main' \notin {"bind", "int", "term", "kill", "done"} /\ UNCHANGED <<mode, coord>>
      BY <2>3 DEF GetRefs, WaitForAcks, Interrupt, InterruptStart, coordVars
    <3> QED BY <2>1, <3>1 DEF StopInv, Moves
  <2>4. CASE BeginStop
    <3>1. mode' = mode /\ main' = IF mode = "local" THEN "int" ELSE "sd"
      BY <2>4 DEF BeginStop
    <3>2. mode # "afd" => coord' = coord
      BY <2>4 DEF BeginStop, StopInv
    <3> QED BY <2>1, <3>1, <3>2 DEF StopInv, Moves, CoordUp
  <2>5. CASE KillActors
    BY <2>1, <2>5 DEF KillActors, StopInv, Moves, CoordUp
  <2>6. CASE JoinChildren \/ Kill
    <3>1. rank' = [r \in Ranks |-> IF Actor(r) /\ r \in Ranks THEN "killed" ELSE rank[r]]
          /\ tok' = tok /\ AllGone(tok) /\ ~CoordUp'
      BY <2>6 DEF JoinChildren, Kill, StopInv, coordVars, CoordUp
    <3>2. AllGone(rank)'
      BY <3>1, KilledMoves DEF StopInv
    <3>3. mode' = mode /\ main' = "done" /\ (mode # "afd" => coord' = coord)
      BY <2>6 DEF JoinChildren, Kill, coordVars
    <3> QED BY <2>1, <3>1, <3>2, <3>3 DEF StopInv, Moves
  <2>7. CASE Sigint
    BY <2>1, <2>7 DEF Sigint, coordVars, StopInv, Moves, CoordUp
  <2>8. CASE Terminate
    <3>1. AllGone(tok)'
      BY <2>8 DEF Terminate, AllGone, Idle, Gone
    <3> QED BY <2>1, <2>8, <3>1 DEF Terminate, coordVars, StopInv, Moves, CoordUp
  <2> QED
    BY <1>3, <2>2, <2>3, <2>4, <2>5, <2>6, <2>7, <2>8 DEF Creates, Supervise
<1> QED BY <1>1, <1>2, <1>3

(* When the server is gone, so is every scheduler, worker, tokenizer and   *)
(* coordinator it created: the supervisors bring the coordinator down      *)
(* first, then _shutdown_processes takes the tokenizers and the ranks, and *)
(* nothing that still runs then can create another one.                    *)
THEOREM ServerLeavesNothing == Spec => []NothingLeft
<1>1. Init => StopInv
  BY InitStopInv
<1>2. StopInv /\ [Next]_vars => StopInv'
  BY StopInvStep
<1>3. StopInv => NothingLeft
  BY DEF StopInv, NothingLeft
<1> QED BY <1>1, <1>2, <1>3, PTL DEF Spec
-----------------------------------------------------------------------------
(* The start of the server.  Each tokenizer, and each rank of a local      *)
(* server, puts one ack, when it leaves its loading; the acks that were    *)
(* put and the processes that still load are never more than those that    *)
(* were created.  The ranks of the other supervisors are past their        *)
(* loading when the actors' start returned.                                *)
StillDue(m, l, b) == Cardinality(l) + (IF m = "local" THEN Cardinality(b) ELSE 0)
AcksDue(m) == NumTok + 1 + (IF m = "local" THEN NumRanks ELSE 0)
AcksFit(a, g, m, l, b) == a + g + StillDue(m, l, b) <= AcksDue(m)

StartInv ==
  /\ acks \in Nat /\ got \in Nat
  /\ AcksFit(acks, got, mode, Late, Behind)
  /\ coord = "idle" => Behind = {}
  /\ main \in {"acks", "serving"} /\ mode # "local" => Behind = {}
  /\ main \in {"acks", "serving"} /\ mode = "afd" => coord \in {"idle", "dead"}
  /\ main = "serving" =>
       Behind = {} /\ Cardinality(Late) <= (IF mode = "afd" THEN 1 ELSE 0)

LEMMA ProcessesAreFinite ==
  /\ IsFiniteSet(Ranks) /\ Cardinality(Ranks) = NumRanks
  /\ IsFiniteSet(Toks) /\ Cardinality(Toks) = NumTok + 1
  /\ IsFiniteSet(Behind) /\ IsFiniteSet(Late)
<1>1. /\ IsFiniteSet(1..NumRanks) /\ Cardinality(1..NumRanks) = NumRanks
      /\ IsFiniteSet(0..NumTok) /\ Cardinality(0..NumTok) = NumTok + 1
  BY LifecycleAssumption, FS_Interval
<1>2. Behind \in SUBSET Ranks /\ Late \in SUBSET Toks
  BY DEF Behind, Late
<1> QED BY <1>1, <1>2, FS_Subset DEF Ranks, Toks

LEMMA DueIsNat ==
  /\ StillDue(mode, Late, Behind) \in Nat /\ AcksDue(mode) \in Nat
  /\ Cardinality(Late) \in Nat /\ Cardinality(Behind) \in Nat
<1>1. Cardinality(Late) \in Nat /\ Cardinality(Behind) \in Nat
  BY ProcessesAreFinite, FS_CardinalityType
<1> QED BY <1>1, LifecycleAssumption DEF StillDue, AcksDue

(* What is still due falls by as many as acks are put.                     *)
LEMMA AcksStillFit ==
  ASSUME NEW a \in Nat, NEW g \in Nat, NEW m, NEW l, NEW b, AcksFit(a, g, m, l, b),
         NEW n \in Nat, NEW k, NEW c, StillDue(m, k, c) + n <= StillDue(m, l, b),
         StillDue(m, l, b) \in Nat, StillDue(m, k, c) \in Nat, AcksDue(m) \in Nat
  PROVE  AcksFit(a + n, g, m, k, c)
<1>1. ASSUME NEW x \in Nat, NEW y \in Nat, NEW due \in Nat, a + g + x <= due, y + n <= x
      PROVE  a + n + g + y <= due
  BY <1>1
<1> QED BY <1>1 DEF AcksFit

(* Processes that move forward are not more behind than before.            *)
LEMMA MovesDue ==
  ASSUME Moves
  PROVE  /\ Behind' \subseteq Behind /\ Late' \subseteq Late
         /\ Cardinality(Late') <= Cardinality(Late) /\ Cardinality(Late') \in Nat
         /\ StillDue(mode, Late', Behind') <= StillDue(mode, Late, Behind)
         /\ StillDue(mode, Late', Behind') \in Nat
<1>1. Behind' \subseteq Behind /\ Late' \subseteq Late
  BY DEF Moves, Behind, Late
<1>2. /\ Cardinality(Late') <= Cardinality(Late) /\ Cardinality(Behind') <= Cardinality(Behind)
      /\ Cardinality(Late') \in Nat /\ Cardinality(Behind') \in Nat
  BY <1>1, ProcessesAreFinite, FS_Subset, FS_CardinalityType
<1> QED BY <1>1, <1>2, DueIsNat DEF StillDue

LEMMA InitStartInv ==
  ASSUME Init
  PROVE  StartInv
<1>1. Behind = Ranks /\ Late = Toks
  BY DEF Init, Behind, Late, Past, Early
<1>2. StillDue(mode, Late, Behind) = AcksDue(mode)
  BY <1>1, ProcessesAreFinite DEF StillDue, AcksDue
<1> QED BY <1>1, <1>2, DueIsNat DEF Init, StartInv, AcksFit

(* Steps that move processes, count no ack and leave main and coord alone  *)
(* or take them where nothing is promised.                                 *)
LEMMA MovesKeepStart ==
  ASSUME StartInv, Moves, UNCHANGED <<mode, acks, got>>,
         main' = main \/ main' \notin {"acks", "serving"},
         coord' = coord \/ coord' # "idle",
         main \in {"acks", "serving"} /\ main' = main => coord' \in {coord, "dead"}
  PROVE  StartInv'
<1>1. /\ Behind' \subseteq Behind /\ Cardinality(Late') <= Cardinality(Late)
      /\ Cardinality(Late) \in Nat /\ Cardinality(Late') \in Nat
  BY MovesDue, DueIsNat
<1>2. AcksFit(acks + 0, got, mode, Late', Behind')
  <2>1. StillDue(mode, Late', Behind') + 0 <= StillDue(mode, Late, Behind)
    BY MovesDue, DueIsNat
  <2>2. acks \in Nat /\ got \in Nat /\ AcksFit(acks, got, mode, Late, Behind)
    BY DEF StartInv
  <2> QED BY <2>1, <2>2, MovesDue, DueIsNat, AcksStillFit
<1>3. acks + 0 = acks
  BY DEF StartInv
<1>4. main' = "serving" => Cardinality(Late') <= (IF mode = "afd" THEN 1 ELSE 0)
  BY <1>1 DEF StartInv
<1> QED BY <1>1, <1>2, <1>3, <1>4 DEF StartInv

LEMMA CreatesKeepStart ==
  ASSUME StopInv, StartInv, Creates
  PROVE  StartInv'
<1>1. CASE StartLocal \/ StartRay \/ StartAfd
  <2>0. /\ main = "bind" /\ UNCHANGED <<mode, acks, got>> /\ coord' # "idle"
        /\ main' # "serving" /\ (main' = "acks" => mode = "local")
        /\ \A t \in Toks : tok'[t] = "loading"
        /\ rank' = rank \/ \A r \in Ranks : rank'[r] = "loading"
    BY <1>1 DEF StartLocal, StartRay, StartAfd, StopInv, SpawnTokenizers, SpawnSchedulers,
                coordVars
  <2>1. (\A r \in Ranks : rank[r] = "none") /\ (\A t \in Toks : tok[t] = "none")
    BY <2>0 DEF StopInv
  <2>2. Behind' = Behind /\ Late' = Late
    BY <2>0, <2>1 DEF Behind, Late, Past, Early
  <2> QED BY <2>0, <2>2 DEF StartInv
<1>2. CASE CreateWorkers \/ PrepareWorkers
  <2>1. /\ UNCHANGED <<mode, main, tok, acks, got>> /\ coord' # "idle"
        /\ coord \in {"place", "prepare"}
    BY <1>2 DEF CreateWorkers, PrepareWorkers
  <2>2. mode = "afd" /\ main \notin {"acks", "serving"}
    BY <2>1 DEF StopInv, StartInv
  <2>3. Late' = Late
    BY <2>1 DEF Late, Early
  <2>4. AcksFit(acks, got, mode, Late', Behind')
    BY <2>2, <2>3 DEF StartInv, AcksFit, StillDue
  <2> QED BY <2>1, <2>2, <2>4 DEF StartInv
<1> QED BY <1>1, <1>2 DEF Creates

(* A process that puts its ack is not behind any more.                     *)
LEMMA AckKeepsStart ==
  ASSUME StartInv, Moves, UNCHANGED <<mode, main, coord, got>>, acks' = acks + 1,
         StillDue(mode, Late', Behind') + 1 <= StillDue(mode, Late, Behind)
  PROVE  StartInv'
<1>1. /\ Behind' \subseteq Behind /\ Cardinality(Late') <= Cardinality(Late)
      /\ Cardinality(Late) \in Nat /\ Cardinality(Late') \in Nat
  BY MovesDue, DueIsNat
<1>2. AcksFit(acks + 1, got, mode, Late', Behind')
  <2>1. acks \in Nat /\ got \in Nat /\ AcksFit(acks, got, mode, Late, Behind)
    BY DEF StartInv
  <2> QED BY <2>1, MovesDue, DueIsNat, AcksStillFit
<1>3. acks + 1 \in Nat
  BY DEF StartInv
<1>4. main' = "serving" => Cardinality(Late') <= (IF mode = "afd" THEN 1 ELSE 0)
  BY <1>1 DEF StartInv
<1> QED BY <1>1, <1>2, <1>3, <1>4 DEF StartInv

LEMMA TokReadyKeepsStart ==
  ASSUME StopInv, StartInv, NEW t \in Toks, TokReady(t)
  PROVE  StartInv'
<1>1. /\ tok[t] = "loading" /\ tok' = [tok EXCEPT ![t] = "ready"] /\ acks' = acks + 1
      /\ UNCHANGED <<mode, main, rank, got, coord>>
  BY DEF TokReady, coordVars
<1>2. Moves
  BY <1>1 DEF Moves, StopInv, AllGone, Past, Early, Idle, Gone
<1>3. Late' = Late \ {t} /\ t \in Late /\ Behind' = Behind
  BY <1>1 DEF StopInv, Late, Early, Behind, Past
<1>4. Cardinality(Late') = Cardinality(Late) - 1
  BY <1>3, ProcessesAreFinite, FS_RemoveElement
<1>5. StillDue(mode, Late', Behind') + 1 <= StillDue(mode, Late, Behind)
  BY <1>3, <1>4, DueIsNat DEF StillDue
<1> QED BY <1>1, <1>2, <1>5, AckKeepsStart

LEMMA RankReadyKeepsStart ==
  ASSUME StopInv, StartInv, NEW r \in Ranks, RankReady(r)
  PROVE  StartInv'
<1>1. /\ rank[r] = "synced" /\ rank' = [rank EXCEPT ![r] = "ready"]
      /\ acks' = IF mode = "local" THEN acks + 1 ELSE acks
      /\ UNCHANGED <<mode, main, tok, got, coord>>
  BY DEF RankReady, coordVars
<1>2. Moves
  BY <1>1, RankMoves DEF Actor, Idle, Gone, Past
<1>3. CASE mode # "local"
  BY <1>1, <1>2, <1>3, MovesKeepStart
<1>4. CASE mode = "local"
  <2>1. Behind' = Behind \ {r} /\ r \in Behind /\ Late' = Late
    BY <1>1 DEF StopInv, Late, Early, Behind, Past
  <2>2. Cardinality(Behind') = Cardinality(Behind) - 1
    BY <2>1, ProcessesAreFinite, FS_RemoveElement
  <2>3. StillDue(mode, Late', Behind') + 1 <= StillDue(mode, Late, Behind)
    BY <1>4, <2>1, <2>2, DueIsNat DEF StillDue
  <2> QED BY <1>1, <1>2, <1>4, <2>3, AckKeepsStart
<1> QED BY <1>3, <1>4

(* _wait_for_acks: the number each supervisor passes to it leaves nobody   *)
(* out but one tokenizer of an AFD server.                                 *)
LEMMA WaitForAcksKeepsStart ==
  ASSUME StopInv, StartInv, WaitForAcks
  PROVE  StartInv'
<1>0. /\ main = "acks" /\ UNCHANGED <<mode, rank, tok, coord>>
      /\ \/ got = ExpectedAcks /\ main' = "serving" /\ UNCHANGED <<acks, got>>
         \/ acks > 0 /\ acks' = acks - 1 /\ got' = got + 1 /\ main' = main
         \/ main' = "stop" /\ UNCHANGED <<acks, got>>
  BY DEF WaitForAcks, coordVars
<1>1. Late' = Late /\ Behind' = Behind
  BY <1>0 DEF Late, Behind, Early, Past
<1>2. acks' \in Nat /\ got' \in Nat /\ AcksFit(acks', got', mode, Late, Behind)
  <2>1. acks \in Nat /\ got \in Nat /\ AcksFit(acks, got, mode, Late, Behind)
    BY DEF StartInv
  <2>2. acks > 0 =>
          acks - 1 \in Nat /\ got + 1 \in Nat /\ AcksFit(acks - 1, got + 1, mode, Late, Behind)
    BY <2>1, DueIsNat DEF AcksFit
  <2> QED BY <1>0, <2>1, <2>2
<1>3. ASSUME got = ExpectedAcks
      PROVE  /\ mode = "local" => Cardinality(Behind) = 0
             /\ Cardinality(Late) <= (IF mode = "afd" THEN 1 ELSE 0)
  BY <1>3, DueIsNat, LifecycleAssumption
     DEF StartInv, StopInv, AcksFit, StillDue, AcksDue, ExpectedAcks
<1>4. main' = "serving" =>
        Behind = {} /\ Cardinality(Late) <= (IF mode = "afd" THEN 1 ELSE 0)
  <2>1. Cardinality(Behind) = 0 => Behind = {}
    BY ProcessesAreFinite, FS_EmptySet
  <2> QED BY <1>0, <1>3, <2>1 DEF StartInv
<1> QED BY <1>0, <1>1, <1>2, <1>4 DEF StartInv

(* The other steps of the supervisors and of the coordinator.              *)
LEMMA RestKeepsStart ==
  ASSUME StopInv, StartInv, Moves, Next, ~Creates, ~WaitForAcks,
         \A r \in Ranks : ~RankReady(r), \A t \in Toks : ~TokReady(t)
  PROVE  StartInv'
<1>1. CASE GetRefs
  <2>1. UNCHANGED <<mode, rank, tok, acks, got, coord>> /\ main' \in {"acks", "stop"}
    BY <1>1 DEF GetRefs, coordVars
  <2>2. main' = "acks" /\ mode # "local" =>
          Behind = {} /\ (mode = "afd" => coord = "idle")
    BY <1>1 DEF GetRefs, RefsReady, Ready, Up, Behind, Past, StartInv
  <2>3. Behind' = Behind /\ Late' = Late
    BY <2>1 DEF Late, Behind, Early, Past
  <2> QED BY <2>1, <2>2, <2>3 DEF StartInv
<1>2. CASE BeginStop \/ KillActors \/ JoinChildren \/ Sigint \/ Terminate \/ Kill
           \/ Interrupt \/ InterruptStart
  <2>1. /\ UNCHANGED <<mode, acks, got>> /\ main' \notin {"acks", "serving"}
        /\ coord' = coord \/ coord' # "idle"
    BY <1>2 DEF BeginStop, KillActors, JoinChildren, Sigint, Terminate, Kill, Interrupt,
                InterruptStart, coordVars
  <2> QED BY <2>1, MovesKeepStart
<1>3. CASE AwaitReady
  <2>1. /\ UNCHANGED <<mode, main, acks, got>> /\ coord = "ready_wait"
        /\ coord' = "idle" => Behind = {}
        /\ coord' \in {"idle", "failed"}
    BY <1>3 DEF AwaitReady, Ready, Up, Behind, Past
  <2>2. main \notin {"acks", "serving"}
    BY <2>1 DEF StopInv, StartInv
  <2>3. Behind' = Behind /\ Late' = Late
    BY <1>3 DEF AwaitReady, Late, Behind, Early, Past
  <2> QED BY <2>1, <2>2, <2>3 DEF StartInv
<1>4. CASE SendStop \/ JoinHotLoops \/ ShutdownWorkers
  <2>1. /\ UNCHANGED <<mode, main, acks, got>> /\ coord' # "idle"
        /\ coord \in {"sd_stop", "sd_join", "sd_workers"}
    BY <1>4 DEF SendStop, JoinHotLoops, ShutdownWorkers
  <2>2. main \notin {"acks", "serving"}
    BY <2>1 DEF StopInv, StartInv
  <2> QED BY <2>1, <2>2, MovesKeepStart
<1>5. CASE LoopReceive \/ LoopSend \/ LoopCollect \/ ExitSchedulers \/ Fault
  <2>1. UNCHANGED <<mode, main, acks, got>> /\ coord' \in {coord, "dead"}
    BY <1>5 DEF LoopReceive, LoopSend, LoopCollect, ExitSchedulers, Fault
  <2> QED BY <2>1, MovesKeepStart
<1>6. ASSUME NEW r \in Ranks, Work(r) \/ GroupTimeout(r) PROVE StartInv'
  <2>1. UNCHANGED <<mode, main, acks, got, coord>>
    BY <1>6 DEF Work, Load, LeaveBarrier, TakeStep, FinishStep, TakeStop, GroupTimeout, coordVars
  <2> QED BY <2>1, MovesKeepStart
<1> QED
  BY <1>1, <1>2, <1>3, <1>4, <1>5, <1>6
     DEF Next, Progress, Supervise, Coordinate, Timeouts, Creates

LEMMA StartInvStep ==
  ASSUME StopInv, StartInv, [Next]_vars
  PROVE  StartInv'
<1>1. CASE UNCHANGED vars
  <2>1. UNCHANGED <<mode, main, rank, tok, acks, got, coord>>
    BY <1>1 DEF vars, coordVars
  <2> QED BY <2>1, StillMoves, MovesKeepStart
<1>2. CASE Creates
  BY <1>2, CreatesKeepStart
<1>3. CASE WaitForAcks
  BY <1>3, WaitForAcksKeepsStart
<1>4. ASSUME NEW r \in Ranks, RankReady(r) PROVE StartInv'
  BY <1>4, RankReadyKeepsStart
<1>5. ASSUME NEW t \in Toks, TokReady(t) PROVE StartInv'
  BY <1>5, TokReadyKeepsStart
<1> QED BY <1>1, <1>2, <1>3, <1>4, <1>5, StepsMove, RestKeepsStart

(* When the server begins to serve, every rank has loaded and met the      *)
(* others and all tokenizers are up but at most one of an AFD server: the  *)
(* acks each supervisor waits for are as many as the processes that put    *)
(* one (start, _wait_for_acks).                                            *)
THEOREM ServerIsReady == Spec => []ServingIsReady
<1>1. Init => StopInv /\ StartInv
  BY InitStopInv, InitStartInv
<1>2. StopInv /\ StartInv /\ [Next]_vars => StopInv' /\ StartInv'
  BY StopInvStep, StartInvStep
<1>3. StopInv /\ StartInv => ServingIsReady
  <2> SUFFICES ASSUME StopInv, StartInv, main = "serving"
               PROVE  /\ \A r \in Ranks : rank[r] \notin {"none", "created", "loading", "synced"}
                      /\ Cardinality({t \in Toks : Loading(t)}) <= (IF mode = "afd" THEN 1 ELSE 0)
    BY DEF ServingIsReady
  <2>1. Behind = {} /\ Cardinality(Late) <= (IF mode = "afd" THEN 1 ELSE 0)
    BY DEF StartInv
  <2>2. {t \in Toks : Loading(t)} \in SUBSET Late
    BY DEF Late, Early, Loading
  <2>3. /\ Cardinality({t \in Toks : Loading(t)}) <= Cardinality(Late)
        /\ Cardinality({t \in Toks : Loading(t)}) \in Nat /\ Cardinality(Late) \in Nat
    BY <2>2, ProcessesAreFinite, FS_Subset, FS_CardinalityType
  <2> QED BY <2>1, <2>3 DEF Behind, Past
<1> QED BY <1>1, <1>2, <1>3, PTL DEF Spec
=============================================================================
