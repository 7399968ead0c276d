--------------------------- MODULE MCVideoEncoder ---------------------------
(* Instances of VideoEncoder for TLC. *)
EXTENDS VideoEncoder, TLC

PutterSymmetry == Permutations(Putters)
AllFaults == FaultKind
=============================================================================
