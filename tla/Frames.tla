------------------------------- MODULE Frames -------------------------------
(* A frame that is queued: its time stamp and its picture. *)
EXTENDS FrameClock, RgbaProcess

\* The codec will get a frame that is queued turned and mirrored as it was asked
\* for, whichever picture it holds (xm_rgba_process.h:29-89).
PictureRight == frames # <<>> => AllRight
=============================================================================
