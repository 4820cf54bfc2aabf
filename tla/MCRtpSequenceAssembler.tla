------------------------ MODULE MCRtpSequenceAssembler ------------------------
(* Instances of RtpSequenceAssembler for TLC: numbers wrap in the first frame. *)
EXTENDS RtpSequenceAssembler

MCPosition == 12..18
MCTimestamp == [p \in MCPosition |-> IF p < 18 THEN 1 ELSE 2]
==============================================================================
