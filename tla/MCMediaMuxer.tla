---------------------------- MODULE MCMediaMuxer ----------------------------
(* Instances of MediaMuxer for TLC. *)
EXTENDS MediaMuxer
=============================================================================
