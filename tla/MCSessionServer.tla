-------------------------- MODULE MCSessionServer --------------------------
(* The instance of SessionServer for TLC: r1 comes from the server's own     *)
(* machine, r3 from another one; both use the same TCP port.                 *)
EXTENDS SessionServer

CONSTANTS r1, r3

MCPortOf == [r \in Req |-> "p1"]
MCAddrOf == [r \in Req |-> IF r = r3 THEN "remote" ELSE "server"]
=============================================================================
