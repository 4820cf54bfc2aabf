----------------------------- MODULE MCRendezvous -----------------------------
(* The instance of Rendezvous for TLC: h1 and h2 host one meeting, and g1  *)
(* looks for it; h3 has another.                                           *)
EXTENDS Rendezvous

CONSTANTS h1, h2, h3, g1

MCId == [c \in Client |-> IF c \in {h1, h2, g1} THEN 1 ELSE 2]
==============================================================================
