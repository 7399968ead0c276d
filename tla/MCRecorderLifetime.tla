------------------------- MODULE MCRecorderLifetime -------------------------
(* Instances of RecorderLifetime for TLC. *)
EXTENDS RecorderLifetime
=============================================================================
