---------------------------- MODULE MCRpcServer ----------------------------
(* Instances of RpcServer for TLC.                                         *)
EXTENDS RpcServer, TLC

CONSTANTS w1, w2, c1, c2, c3, r1, r2, r3

(* Two connections of one worker and one of another; every connection asks.*)
TwoWorkers == c1 :> w1 @@ c2 :> w1 @@ c3 :> w2
OneEach == r1 :> c1 @@ r2 :> c2 @@ r3 :> c3
Mixed == r1 :> "good" @@ r2 :> "noMethod" @@ r3 :> "good"
=============================================================================
