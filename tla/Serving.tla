------------------------------ MODULE Serving ------------------------------
(* The path of a request and of its tokens: the API server's event loop      *)
(* (server/api_server.py), the tokenizer and detokenizer processes           *)
(* (tokenizer/server.py), the ZMQ queues between them (utils/mp.py), and the *)
(* schedulers of a tensor-parallel group, which must all take the same       *)
(* messages in the same round (scheduler/io.py).  What a scheduler does with *)
(* its pages is KVScheduler's; here its overlap loop runs batches of whole    *)
(* requests.  Token i of a request is the number i; the detokenizer passes on *)
(* which tokens it was given.                                                *)
EXTENDS Integers, Sequences, FiniteSets, SequencesExt

CONSTANTS Uids,          \* requests, in the order new_user numbers them: 0 .. n
          Ranks,         \* tensor-parallel ranks; 0 reads the tokenizers' queue
          Need,          \* Need[u]: the tokens request u is answered with
          MaxTokenizers, \* bound: tokenizer processes beside the detokenizer
          Settings       \* what a run starts from, see ServingAssumption

ASSUME ServingAssumption ==
  /\ Uids \subseteq Nat /\ IsFiniteSet(Uids)
  /\ 0 \in Ranks /\ Ranks \subseteq Nat
  /\ Need \in [Uids -> Nat \ {0}] /\ MaxTokenizers \in Nat
  /\ \A s \in Settings : /\ s.tokenizers \in 0 .. MaxTokenizers
                          /\ s.style \in [Uids -> {"chat", "text", "batch"}]
                          /\ s.eos \subseteq Uids /\ s.tooLong \subseteq Uids

VARIABLES
  tokenizers, \* num_tokenizer; 0: the detokenizer tokenizes too
  style,      \* the endpoint of each request
  eos,        \* requests that end by an end token
  tooLong,    \* requests whose prompt does not fit
  uidCounter, \* FrontendManager.uid_counter
  ackMap,     \* FrontendManager.ack_map
  eventMap,   \* FrontendManager.event_map: is the event set
  coro,       \* where the coroutine that answers u is suspended
  acks,       \* wait_for_ack's pending: the acks still to yield
  held,       \* stream_text_completions' pending chunk
  got,        \* what the client has been sent
  gone,       \* clients that have disconnected
  turn,       \* the tokenizer the front end's PUSH socket serves next
  toTok,      \* from the front end to each tokenizer process
  toDetok,    \* from rank 0 to the detokenizer process
  toBackend,  \* from each tokenizer process to rank 0
  toFront,    \* from each tokenizer process to the front end
  sub,        \* broadcast messages each other rank has not read
  counts,     \* broadcast message counts each other rank has not read
  live,       \* live[r]: requests of rank r's managers, and the tokens launched
  data,       \* data[r]: the batch whose results rank r has not processed
  ongoing,    \* ongoing[r]: the batch launched after it
  at,         \* where in the iteration each rank is
  heard       \* requests whose abort rank 0 has processed

frontVars == <<uidCounter, ackMap, eventMap, coro, acks, held, got, gone, turn>>
pipeVars  == <<toTok, toDetok, toBackend, toFront>>
rankVars  == <<sub, counts, live, data, ongoing, at, heard>>
cfgVars   == <<tokenizers, style, eos, tooLong>>
vars == <<cfgVars, frontVars, pipeVars, rankVars>>

\* Process 0 detokenizes; it also tokenizes when the address is shared.
Procs      == 0 .. MaxTokenizers
Tokenizers == IF tokenizers = 0 THEN {0} ELSE 1 .. tokenizers
Followers  == Ranks \ {0}

Msg(type, u)   == [type |-> type, uid |-> u]
Detok(u, i)    == [type |-> "detok", uid |-> u, token |-> i, finished |-> i = Need[u]]
IfAny(raw)     == IF raw = <<>> THEN <<>> ELSE <<raw>>

\* The messages of each type, and those of each request, in their order.
AddToType(acc, m) == [acc EXCEPT ![m.type] = Append(@, m)]
OfTypes(raw) == FoldLeft(AddToType, [t \in {"tokenize", "abort", "detok"} |-> <<>>], raw)
AddToUid(acc, m)  == [acc EXCEPT ![m.uid] = Append(@, m)]
OfUids(raw)  == FoldLeft(AddToUid, [u \in Uids |-> <<>>], raw)

Init ==
  /\ \E s \in Settings : /\ tokenizers = s.tokenizers /\ style = s.style
                         /\ eos = s.eos /\ tooLong = s.tooLong
  /\ uidCounter = 0 /\ turn = 0 /\ gone = {}
  /\ ackMap = <<>> /\ eventMap = <<>>
  /\ coro = [u \in Uids |-> "none"]
  /\ acks = [u \in Uids |-> <<>>] /\ held = acks /\ got = acks
  /\ toTok = [p \in Procs |-> <<>>] /\ toBackend = toTok /\ toFront = toTok
  /\ toDetok = <<>>
  /\ sub = [r \in Ranks |-> <<>>] /\ counts = sub /\ live = sub /\ data = sub /\ ongoing = sub
  /\ at = [r \in Ranks |-> "receive"]
  /\ heard = {}

-----------------------------------------------------------------------------
(* The front end: coroutines of one event loop.                              *)

\* A PUSH socket hands its messages to the connected tokenizers in turn.
Send(raw) ==
  LET p == IF tokenizers = 0 THEN 0 ELSE 1 + turn IN
  /\ toTok' = [toTok EXCEPT ![p] = Append(@, raw)]
  /\ turn' = IF tokenizers = 0 THEN 0 ELSE (turn + 1) % tokenizers

\* The endpoints: new_user, or new_users for a batch, and one message.
NewUsers(us) ==
  /\ uidCounter' = uidCounter + Cardinality(us)
  /\ ackMap' = [u \in us \cup DOMAIN ackMap |-> IF u \in us THEN <<>> ELSE ackMap[u]]
  /\ eventMap' = [u \in us \cup DOMAIN eventMap |-> u \notin us /\ eventMap[u]]
  /\ coro' = [u \in Uids |-> IF u \in us THEN "waiting" ELSE coro[u]]
  /\ Send([i \in 1 .. Cardinality(us) |-> Msg("tokenize", uidCounter + i - 1)])

Request ==
  /\ \E n \in 1 .. Cardinality(Uids) :
       LET us == uidCounter .. uidCounter + n - 1 IN
       /\ us \subseteq Uids
       /\ n > 1 => \A u \in us : style[u] = "batch"
       /\ NewUsers(us)
  /\ UNCHANGED <<cfgVars, acks, held, got, gone, toDetok, toBackend, toFront, rankVars>>

\* listen: an ack of an unknown request is dropped.
Listen ==
  /\ \E p \in Procs :
       /\ toFront[p] /= <<>>
       /\ toFront' = [toFront EXCEPT ![p] = Tail(@)]
       /\ LET own == OfUids(Head(toFront[p])) IN
          /\ ackMap' = [u \in DOMAIN ackMap |-> ackMap[u] \o own[u]]
          /\ eventMap' = [u \in DOMAIN eventMap |-> eventMap[u] \/ own[u] /= <<>>]
  /\ UNCHANGED <<cfgVars, uidCounter, coro, acks, held, got, gone, turn,
                 toTok, toDetok, toBackend, rankVars>>

\* wait_for_ack wakes, clears the event and takes what has been acknowledged.
Wake(u) ==
  /\ coro[u] = "waiting" /\ u \in DOMAIN eventMap /\ eventMap[u]
  /\ eventMap' = [eventMap EXCEPT ![u] = FALSE]
  /\ acks' = [acks EXCEPT ![u] = ackMap[u]]
  /\ ackMap' = [ackMap EXCEPT ![u] = <<>>]
  /\ coro' = [coro EXCEPT ![u] = IF ackMap[u] = <<>> THEN "waiting" ELSE "yielding"]
  /\ UNCHANGED <<cfgVars, uidCounter, held, got, gone, turn, pipeVars, rankVars>>

\* mutant: the held chunk is replaced by the last one, not sent before it
Chunks_ReplacesHeld(u, ack) ==
  IF style[u] = "text" /\ ~ack.finished THEN held[u] ELSE <<ack.token>>

\* The consumer of an ack: the chunks it sends now, and the chunk it holds
\* back so that the end can be folded into it.
Chunks(u, ack) ==
  CASE style[u] = "text" /\ ack.finished  -> held[u] \o <<ack.token>>
    [] style[u] = "text" /\ ~ack.finished -> held[u]
    [] OTHER                              -> <<ack.token>>

Hold(u, ack) == IF style[u] = "text" /\ ~ack.finished THEN <<ack.token>> ELSE <<>>

\* Before it sends a chunk the stream asks whether the client is still there;
\* it leaves wait_for_ack at the finished ack, with both maps in place.
Deliver(u) ==
  /\ coro[u] = "yielding"
  /\ LET ack == Head(acks[u])
         cut == style[u] /= "batch" /\ u \in gone /\ Chunks(u, ack) /= <<>> IN
     /\ acks' = [acks EXCEPT ![u] = IF ack.finished \/ cut THEN <<>> ELSE Tail(@)]
     /\ held' = [held EXCEPT ![u] = IF cut THEN <<>> ELSE Hold(u, ack)]
     /\ got' = [got EXCEPT ![u] = IF cut THEN @ ELSE @ \o Chunks(u, ack)]
     /\ coro' = [coro EXCEPT ![u] = CASE cut -> "aborting"
                                      [] ~cut /\ ack.finished -> "ending"
                                      [] ~cut /\ ~ack.finished /\ Len(acks[u]) = 1 -> "waiting"
                                      [] OTHER -> "yielding"]
  /\ UNCHANGED <<cfgVars, uidCounter, ackMap, eventMap, gone, turn, pipeVars, rankVars>>

\* The web server may cancel the response of a client that went away.  Inside
\* an await of the generator that is the CancelledError it looks for; between
\* two chunks the generator is only closed, and nothing is aborted.  A batch
\* request is not a stream and runs to its end.
Disconnect(u) ==
  /\ coro[u] \in {"waiting", "yielding", "ending"} /\ style[u] /= "batch" /\ u \notin gone
  /\ gone' = gone \cup {u}
  /\ \/ coro' = coro /\ held' = held
     \/ /\ \E c \in {"aborting"} \cup (IF coro[u] /= "waiting" THEN {"dropped"} ELSE {}) :
             coro' = [coro EXCEPT ![u] = c]
        /\ held' = [held EXCEPT ![u] = <<>>]
  /\ UNCHANGED <<cfgVars, uidCounter, ackMap, eventMap, acks, got, turn, pipeVars, rankVars>>

\* The last chunk says [DONE].
End(u) ==
  /\ coro[u] = "ending"
  /\ coro' = [coro EXCEPT ![u] =
                IF style[u] /= "batch" /\ u \in gone THEN "aborting" ELSE "done"]
  /\ UNCHANGED <<cfgVars, uidCounter, ackMap, eventMap, acks, held, got, gone, turn,
                 pipeVars, rankVars>>

\* abort_user, after its sleep: forget the request and tell the backend.
AbortUser(u) ==
  /\ coro[u] = "aborting"
  /\ coro' = [coro EXCEPT ![u] = "aborted"]
  /\ ackMap' = [v \in DOMAIN ackMap \ {u} |-> ackMap[v]]
  /\ eventMap' = [v \in DOMAIN eventMap \ {u} |-> eventMap[v]]
  /\ Send(<<Msg("abort", u)>>)
  /\ UNCHANGED <<cfgVars, uidCounter, acks, held, got, gone, toDetok, toBackend, toFront, rankVars>>

-----------------------------------------------------------------------------
(* The tokenizer processes: one message (or batch) at a time.                *)

\* Replies first, then new requests, then aborts, each kind as one message.
Forward(p, raw) ==
  /\ LET of == OfTypes(raw) IN
     /\ toFront' = [toFront EXCEPT ![p] = @ \o IfAny(of["detok"])]
     /\ toBackend' = [toBackend EXCEPT ![p] = @ \o IfAny(of["tokenize"]) \o IfAny(of["abort"])]
  /\ UNCHANGED <<cfgVars, frontVars, rankVars>>

Tokenize(p) ==
  /\ toTok[p] /= <<>>
  /\ toTok' = [toTok EXCEPT ![p] = Tail(@)]
  /\ toDetok' = toDetok
  /\ Forward(p, Head(toTok[p]))

Detokenize ==
  /\ toDetok /= <<>>
  /\ toDetok' = Tail(toDetok)
  /\ toTok' = toTok
  /\ Forward(0, Head(toDetok))

-----------------------------------------------------------------------------
(* The schedulers.                                                           *)

\* A request takes part in the next batch until its length is reached; one
\* that ends by an end token is launched once more before that is known.
CanDecode(u, n) == n < Need[u] \/ (u \in eos /\ n = Need[u])

\* New requests are prefilled before any other is decoded.
Chosen(l) == IF \E u \in DOMAIN l : l[u] = 0 THEN {u \in DOMAIN l : l[u] = 0}
                                             ELSE {u \in DOMAIN l : CanDecode(u, l[u])}

\* mutant: only the prefill manager is asked to abort
Handle_KeepsDecoding(l, m) ==
  CASE m.type = "tokenize" /\ m.uid \notin tooLong ->
         [u \in DOMAIN l \cup {m.uid} |-> IF u = m.uid THEN 0 ELSE l[u]]
    [] m.type = "abort" -> [u \in {v \in DOMAIN l : v /= m.uid \/ l[v] > 0} |-> l[u]]
    [] OTHER            -> l

\* _process_one_msg, on the requests of the prefill and decode managers.
Handle(l, m) ==
  CASE m.type = "tokenize" /\ m.uid \notin tooLong ->
         [u \in DOMAIN l \cup {m.uid} |-> IF u = m.uid THEN 0 ELSE l[u]]
    [] m.type = "abort" -> [u \in DOMAIN l \ {m.uid} |-> l[u]]
    [] OTHER            -> l

\* overlap_loop up to the launch: take the messages, schedule, launch.
Iterate(r, raws) ==
  LET l == FoldLeft(Handle, live[r], FlattenSeq(raws))
      b == Chosen(l) IN
  /\ at[r] = "receive"
  /\ live' = [live EXCEPT ![r] = [u \in DOMAIN l |-> IF u \in b THEN l[u] + 1 ELSE l[u]]]
  /\ ongoing' = [ongoing EXCEPT ![r] = SetToSeq({<<u, l[u] + 1>> : u \in b})]
  /\ at' = [at EXCEPT ![r] = "process"]
  /\ data' = data

Runnable(r) == \E u \in DOMAIN live[r] : CanDecode(u, live[r][u])
\* mutant: waits for messages with a batch still to be processed
Blocking_IgnoresData(r) == ~Runnable(r)

Blocking(r) == data[r] = <<>> /\ ~Runnable(r)

\* Rank 0 drains the tokenizers' queues, in some order.  When it had to wait
\* it publishes the first message before the count of the others.
Orders == SetToSeqs(Tokenizers)

\* A PUB socket: every subscribed rank gets every message, in order.
Publish(raws) == sub' = [r \in Ranks |-> IF r = 0 THEN <<>> ELSE sub[r] \o raws]

RecvRank0 ==
  \E o \in Orders :
    LET raws == FlattenSeq([i \in DOMAIN o |-> toBackend[o[i]]])
        first == IF Blocking(0) THEN 1 ELSE 0 IN
    /\ Blocking(0) => raws /= <<>>
    /\ toBackend' = [p \in Procs |-> <<>>]
    /\ Publish(raws)
    /\ counts' = [r \in Ranks |-> IF r = 0 THEN <<>> ELSE Append(counts[r], Len(raws) - first)]
    /\ heard' = heard \cup {m.uid : m \in {x \in Range(FlattenSeq(raws)) : x.type = "abort"}}
    /\ Iterate(0, raws)
    /\ UNCHANGED <<cfgVars, frontVars, toTok, toDetok, toFront>>

\* mutant: the follower never takes the message rank 0 waited for
RecvFollower_NoFirst(r) ==
  /\ counts[r] /= <<>>
  /\ LET n == Head(counts[r]) IN
     /\ Len(sub[r]) >= n
     /\ sub' = [sub EXCEPT ![r] = SubSeq(@, n + 1, Len(@))]
     /\ counts' = [counts EXCEPT ![r] = Tail(@)]
     /\ Iterate(r, SubSeq(sub[r], 1, n))
  /\ UNCHANGED <<cfgVars, frontVars, pipeVars, heard>>

\* A follower waits for as many messages as rank 0 says, and for one more when
\* it too had nothing to do.
RecvFollower(r) ==
  /\ counts[r] /= <<>>
  /\ LET n == Head(counts[r]) + (IF Blocking(r) THEN 1 ELSE 0) IN
     /\ Len(sub[r]) >= n
     /\ sub' = [sub EXCEPT ![r] = SubSeq(@, n + 1, Len(@))]
     /\ counts' = [counts EXCEPT ![r] = Tail(@)]
     /\ Iterate(r, SubSeq(sub[r], 1, n))
  /\ UNCHANGED <<cfgVars, frontVars, pipeVars, heard>>

\* The iterations rank q is behind rank 0: the counts it has not read.
Lag(q) == Len(counts[q])

\* _process_last_data: the results of a forward, which the previous iteration
\* launched, exist once every rank has launched its part.  Rank 0 replies.
Reply(b) == [i \in DOMAIN b |-> Detok(b[i][1], b[i][2])]

ProcessLast(r) ==
  LET ended == {data[r][i][1] : i \in {j \in DOMAIN data[r] : data[r][j][2] = Need[data[r][j][1]]}} IN
  /\ at[r] = "process"
  /\ data[r] /= <<>> => \A q \in Ranks : Lag(q) <= Lag(r) + 1
  /\ live' = [live EXCEPT ![r] = [u \in DOMAIN @ \ ended |-> @[u]]]
  /\ toDetok' = IF r = 0 THEN toDetok \o IfAny(Reply(data[r])) ELSE toDetok
  /\ data' = [data EXCEPT ![r] = ongoing[r]]
  /\ ongoing' = [ongoing EXCEPT ![r] = <<>>]
  /\ at' = [at EXCEPT ![r] = "receive"]
  /\ UNCHANGED <<cfgVars, frontVars, toTok, toBackend, toFront,
                 sub, counts, heard>>

-----------------------------------------------------------------------------
Answer(u) == Wake(u) \/ Deliver(u) \/ End(u) \/ AbortUser(u)
RunRank(r) == ProcessLast(r) \/ (IF r = 0 THEN RecvRank0 ELSE RecvFollower(r))

Next ==
  \/ Request
  \/ Listen
  \/ \E u \in Uids : Answer(u) \/ Disconnect(u)
  \/ \E p \in Procs : Tokenize(p)
  \/ Detokenize
  \/ \E r \in Ranks : RunRank(r)

\* The event loop, the processes and the ranks all keep running; clients need
\* not send and need not leave.
Fairness ==
  /\ WF_vars(Listen)
  /\ \A u \in Uids : WF_vars(Answer(u))
  /\ \A p \in Procs : WF_vars(Tokenize(p))
  /\ WF_vars(Detokenize)
  /\ \A r \in Ranks : WF_vars(RunRank(r))

Spec == Init /\ [][Next]_vars /\ Fairness

-----------------------------------------------------------------------------
(* Properties.                                                               *)

\* The tokens of u that have left the schedulers, in the order they travel:
\* sent, held back, taken, acknowledged, and in the two queues behind.
Tokens(msgs) == [i \in DOMAIN msgs |-> msgs[i].token]
InFlight(u) ==
  got[u] \o held[u] \o Tokens(acks[u])
    \o (IF u \in DOMAIN ackMap THEN Tokens(ackMap[u]) ELSE <<>>)
    \o Tokens(OfUids(FlattenSeq(toFront[0]))[u]) \o Tokens(OfUids(FlattenSeq(toDetok))[u])

\* Wherever the tokens of a request are, they follow one another without a
\* gap, a repetition or an exchange, while its client listens; and a client
\* told that its answer is complete has all of it and nothing more
\* (wait_for_ack, the streams and the queues between the processes).
StreamIsWhole ==
  /\ \A u \in Uids : coro[u] \in {"waiting", "yielding"} =>
       \A i \in DOMAIN InFlight(u) : InFlight(u)[i] = i
  /\ \A u \in Uids : coro[u] \in {"ending", "done"} => got[u] = [i \in 1 .. Need[u] |-> i]

\* Ranks that are at the same point of the same iteration hold the same
\* requests and the same batches: the collectives inside a forward join the
\* same batch on every rank (_recv_msg_multi_rank0 and _rank1).
RanksAgree ==
  \A r \in Followers : (Lag(r) = 0 /\ at[r] = at[0]) =>
     live[r] = live[0] /\ data[r] = data[0] /\ ongoing[r] = ongoing[0]

\* A request whose abort has reached the scheduler is not run again: its
\* abort does not overtake the request itself (send_one, the tokenizer's drain
\* and _recv_msg).  Two tokenizers of their own let it (serving_two_tokenizers).
AbortEndsRequest == \A u \in heard : u \notin DOMAIN live[0]

\* Every client whose prompt fits is answered to the end, or has left.
EveryClientAnswered ==
  \A u \in Uids : (coro[u] = "waiting" /\ u \notin tooLong) ~> (coro[u] = "done" \/ u \in gone)
=============================================================================
