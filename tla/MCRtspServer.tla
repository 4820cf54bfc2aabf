---------------------------- MODULE MCRtspServer ----------------------------
(* Instances of RtspServer for TLC: connections, descriptors and sessions   *)
(* are alike.                                                                *)
EXTENDS RtspServer, TLC

CONSTANTS c1, c2, f1, f2, f3, f4, f5, s1, s2, video, audio

Symmetry == Permutations(Conn) \cup Permutations(Fd) \cup Permutations(Session)
=============================================================================
