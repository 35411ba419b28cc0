--------------------------- MODULE MCStreamTransfer ---------------------------
(* Instances of StreamTransfer for TLC. *)
EXTENDS StreamTransfer

\* A presentation of two tracks, another of one track whose manifest declares
\* every length, and that one with a segment that grew under its address.  The
\* estimate of the first is below its size.
MCVersions == {"split", "whole", "grown"}
MCSplit == {"split"}

MCFingerprint == [split |-> 1, whole |-> 2, grown |-> 2]
MCSegments == [split |-> <<<<1, 1>>, <<1>>>>, whole |-> <<<<1, 1>>>>, grown |-> <<<<2, 1>>>>]
MCDeclared == {"whole", "grown"}
MCEstimate == [split |-> 2, whole |-> 0, grown |-> 0]
MCGarbage == <<"garbage", 0, 0>>
=============================================================================
