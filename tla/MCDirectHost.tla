----------------------------- MODULE MCDirectHost -----------------------------
(* The instance of DirectHost for TLC: a asks twice, b once, so that one   *)
(* client comes after another, and one attempt after another.              *)
EXTENDS DirectHost

CONSTANTS a, b

MCMaxAsk == [c \in Client |-> IF c = a THEN 2 ELSE 1]
==============================================================================
