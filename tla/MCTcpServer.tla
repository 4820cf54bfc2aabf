---------------------------- MODULE MCTcpServer ----------------------------
(* The instance of TcpServer for TLC: two clients share two descriptors.     *)
EXTENDS TcpServer

CONSTANTS c1, c2, x1, x2, f1, f2
=============================================================================
