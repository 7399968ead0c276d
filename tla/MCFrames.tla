------------------------------ MODULE MCFrames ------------------------------
(* An instance of Frames for TLC. *)
EXTENDS Frames, TLC

\* A square picture, and one that is not and has a padding.
MCPictures ==
    {[w |-> size[1], h |-> size[2], padding |-> size[3], degree |-> d,
      horizontal |-> x, vertical |-> y] :
        size \in {<<2, 2, 0>>, <<4, 2, 1>>}, d \in Degrees,
        x \in BOOLEAN, y \in BOOLEAN}

PutterSymmetry == Permutations(Putters)
=============================================================================
