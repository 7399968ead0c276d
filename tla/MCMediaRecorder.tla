--------------------------- MODULE MCMediaRecorder ---------------------------
(* Instances of MediaRecorder for TLC. *)
EXTENDS MediaRecorder

\* The hasty run is about encoder threads and buffers, which no step of a mux
\* thread touches: it follows a mux thread no further than its creation.
MuxIdle == MuxersAt \subseteq {"none", "created"}
=============================================================================
