---------------------------- MODULE MCRpcChannel ----------------------------
(* Instances of RpcChannel for TLC.                                        *)
EXTENDS RpcChannel, TLC

CONSTANTS t1, t2, a, b, c1, c2, c3, c4

(* One channel, called from its event loop (c1, c2) and from another       *)
(* thread (c3).                                                            *)
SharedCaller == c1 :> t1 @@ c2 :> t1 @@ c3 :> t2
SharedChan == c1 :> a @@ c2 :> a @@ c3 :> a
SharedLoop == a :> t1

(* Two channels, each used by its own event loop alone.                    *)
OwnCaller == c1 :> t1 @@ c2 :> t1 @@ c3 :> t1 @@ c4 :> t2
OwnChan == c1 :> a @@ c2 :> a @@ c3 :> a @@ c4 :> b
OwnLoop == a :> t1 @@ b :> t2
=============================================================================
