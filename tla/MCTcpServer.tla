---------------------------- MODULE MCTcpServer ----------------------------
(* The instance of TcpServer for TLC: everything is given in the cfg file. *)
EXTENDS TcpServer

CONSTANTS f1, f2, f3, o1
=============================================================================
