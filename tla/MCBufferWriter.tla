--------------------------- MODULE MCBufferWriter ---------------------------
(* Instances of BufferWriter for TLC: p1 is a packet of one unit, the others *)
(* of two, so that they can be sent in parts.                                *)
EXTENDS BufferWriter

CONSTANTS p1, p2, p3, p4

MCSize == [p \in Packet |-> IF p = p1 THEN 1 ELSE 2]
=============================================================================
