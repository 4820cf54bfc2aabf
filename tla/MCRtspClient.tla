---------------------------- MODULE MCRtspClient ----------------------------
(* Instances of RtspClient for TLC are given by their constants alone.     *)
EXTENDS RtspClient
=============================================================================
