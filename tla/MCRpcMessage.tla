---------------------------- MODULE MCRpcMessage ----------------------------
(* An instance of RpcMessage for TLC.                                      *)
EXTENDS RpcMessage

(* One of each kind of field, with default, border and unequal values.     *)
SmallSets == {<<1, 2>>, <<2, 5>>, <<6, 127>>}

Cut(f, v) == [num |-> f, val |-> v, cut |-> TRUE]

(* A response with an error this version does not know, a request with a   *)
(* field from a later version and its type twice, payloads that end early. *)
SmallWires ==
  { <<Entry(1, 2), Entry(2, 3), Entry(7, 9)>>,
    <<Entry(1, 9), Entry(8, 1), Entry(1, 1), Entry(2, 3), Entry(2, 4), Entry(3, 1)>>,
    <<Entry(2, 3), Entry(6, 128), Cut(6, 1)>>,
    <<Entry(1, 1), Entry(0, 0), Entry(1, 2)>>,
    <<Entry(1, 2), Cut(7, 1)>>,
    <<Entry(1, 1), Cut(9, 1)>> }

(* The counter of the ids wraps, so that ids may be negative.              *)
SmallIds == {-1, 1}
=============================================================================
