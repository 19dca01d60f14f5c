------------------------------ MODULE MCAfdPlan ------------------------------
(* Servers for AfdPlan: one and two lanes, with graphs and without.        *)
EXTENDS AfdPlan

Topology(a, m, at, mt, ep) == [attnDp |-> a, mlpDp |-> m, attnTp |-> at, mlpTp |-> mt, ep |-> ep]
Server(t, mb, explicit, graphMax, running) ==
  [topology |-> t, mb |-> mb, explicit |-> explicit, graphMax |-> graphMax,
   maxRunning |-> running, batch |-> 4, cache |-> "naive", backend |-> "triton_decode",
   page |-> 1, graphs |-> TRUE]

MCLaunches ==
  { Server(Topology(1, 1, 1, 2, 2), 2, {}, 4, 7),
    Server(Topology(1, 2, 2, 1, 1), 2, {1, 2}, 0, 0),
    Server(Topology(1, 2, 1, 1, 1), 2, {2}, 0, 6),
    Server(Topology(1, 1, 1, 1, 1), 3, {}, 0, 5),
    Server(Topology(2, 1, 1, 1, 1), 1, {1, 2}, 0, 6),
    Server(Topology(2, 1, 2, 1, 1), 1, {2}, 0, 6),
    Server(Topology(2, 1, 1, 2, 2), 2, {1, 2}, 0, 4),
    Server(Topology(2, 3, 1, 1, 1), 1, {}, 0, 4),
    [Server(Topology(1, 1, 1, 1, 1), 1, {8}, 0, 0) EXCEPT !.cache = "radix"] }
MCEager  == {Server(Topology(2, 1, 1, 1, 1), 2, {}, 0, 4)}
MCGraphs == {Server(Topology(2, 1, 1, 1, 1), 1, {1, 2}, 0, 4)}
=============================================================================
