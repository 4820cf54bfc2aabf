----------------------------- MODULE MCScreenLive -----------------------------
(* The instance of ScreenLive for TLC: a server replaces another. *)
EXTENDS ScreenLive

CONSTANTS s1, s2, c1
==============================================================================
