---------------------------- MODULE MCRpcSystem ----------------------------
(* An instance of RpcSystem for TLC: one channel with two calls, whose     *)
(* client connects twice, with a worker of the server for each connection. *)
EXTENDS RpcSystem, TLC

CONSTANTS t1, a, w1, w2, c1, c2

OneCaller == c1 :> t1 @@ c2 :> t1
OneChan == c1 :> a @@ c2 :> a
OneLoop == a :> t1
OwnWorkers == 1 :> w1 @@ 2 :> w2
OneWorker == 1 :> w1
=============================================================================
