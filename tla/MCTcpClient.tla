---------------------------- MODULE MCTcpClient ----------------------------
(* Instances of TcpClient for TLC: everything is given in the cfg files.   *)
EXTENDS TcpClient
=============================================================================
