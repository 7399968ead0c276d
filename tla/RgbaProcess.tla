----------------------------- MODULE RgbaProcess -----------------------------
(***************************************************************************)
(* What is done to a picture between put and the codec: the copy of its    *)
(* rows, the rotation and the flips, as functions from the indices of a    *)
(* buffer to pixels.  The unit is a pixel: a padding is a whole number of  *)
(* them here.  And what a picture ought to become, by rows and columns.    *)
(***************************************************************************)
EXTENDS Integers

\* The buffer of w * h pixels that at(i, j) gives by row and column.
Buffer(w, h, at(_, _)) == [k \in 0 .. w * h - 1 |-> at(k \div w, k % w)]

\* The loop of put: a row of the input is followed by its padding.
CopyRows(input, w, h, padding) ==
    LET At(i, j) == input[i * (w + padding) + j]
    IN Buffer(w, h, At)

RgbaFlipVertical(input, w, h) ==
    LET At(i, j) == input[(h - 1 - i) * w + j]
    IN Buffer(w, h, At)

RgbaFlipHoriz(input, w, h) ==
    LET At(i, j) == input[i * w + (w - 1 - j)]
    IN Buffer(w, h, At)

\* libyuv: clockwise, from w columns and h rows; other angles do nothing.
Degrees == {0, 90, 180, 270}
ARGBRotate(input, w, h, degree) ==
    LET Quarter(i, j) == input[(h - 1 - j) * w + i]
        Half(i, j) == input[(h - 1 - i) * w + (w - 1 - j)]
        Back(i, j) == input[j * w + (w - 1 - i)]
    IN CASE degree = 90 -> Buffer(h, w, Quarter)
         [] degree = 180 -> Buffer(w, h, Half)
         [] degree = 270 -> Buffer(h, w, Back)
         [] OTHER -> input

\* Mutant: the vertical flip does not start from the horizontal one.
RgbaProcessForgets(input, w, h, degree, horizontal, vertical) ==
    LET rotated == ARGBRotate(input, w, h, degree)
    IN IF vertical THEN RgbaFlipVertical(rotated, w, h)
       ELSE IF horizontal THEN RgbaFlipHoriz(rotated, w, h)
       ELSE rotated

\* The flips take the width and the height from before the rotation.
RgbaProcess(input, w, h, degree, horizontal, vertical) ==
    LET rotated == ARGBRotate(input, w, h, degree)
        mirrored == IF horizontal THEN RgbaFlipHoriz(rotated, w, h) ELSE rotated
    IN IF vertical THEN RgbaFlipVertical(mirrored, w, h) ELSE mirrored
-----------------------------------------------------------------------------
\* A picture as it is put.
Picture == [w : Nat, h : Nat, padding : Nat, degree : Degrees,
            horizontal : BOOLEAN, vertical : BOOLEAN]

CONSTANT Pictures  \* the pictures to look at

ASSUME PicturesAssumption == Pictures \subseteq Picture

\* Every place of the input holds another pixel.
Input(p) == [k \in 0 .. (p.w + p.padding) * p.h - 1 |-> k]

\* What the codec is given: rows of w pixels, whatever the rotation.
Shown(p) ==
    RgbaProcess(CopyRows(Input(p), p.w, p.h, p.padding), p.w, p.h,
                p.degree, p.horizontal, p.vertical)

\* The row and the column of the input that belong in row i and column j: the
\* flips are undone first, in the frame of the result, and then the turn.
Origin(p, i, j) ==
    LET turned == p.degree \in {90, 270}
        rows == IF turned THEN p.w ELSE p.h
        columns == IF turned THEN p.h ELSE p.w
        y == IF p.vertical THEN rows - 1 - i ELSE i
        x == IF p.horizontal THEN columns - 1 - j ELSE j
    IN CASE p.degree = 0   -> <<y, x>>
         [] p.degree = 90  -> <<p.h - 1 - x, y>>
         [] p.degree = 180 -> <<p.h - 1 - y, p.w - 1 - x>>
         [] p.degree = 270 -> <<x, p.w - 1 - y>>

\* The result is as wide as the codec expects.
Upright(p) == p.w = p.h \/ p.degree \in {0, 180}

\* Every picture is turned and mirrored as it was asked for, if the result is as
\* wide as the codec expects.
AllRight ==
    \A p \in Pictures : Upright(p) =>
        \A i \in 0 .. p.h - 1, j \in 0 .. p.w - 1 :
            LET from == Origin(p, i, j)
            IN Shown(p)[i * p.w + j] = from[1] * (p.w + p.padding) + from[2]
=============================================================================
