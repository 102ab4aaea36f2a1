----------------------------- MODULE Converter -----------------------------
(***************************************************************************)
(* Converter::to_YUYV, which FakeWebcam::write calls for every frame: the  *)
(* indices it reads and writes, and the arithmetic of one pair of pixels.  *)
(* A picture of rows x cols pixels is an array of three bytes per pixel;   *)
(* the result has two bytes per pixel.  Pixels are numbered row by row.    *)
(***************************************************************************)
EXTENDS Integers

\* Mutant of Turns: the loop goes on by one pixel.
TurnsOfOne(rows, cols) == (0 .. rows - 1) \X (0 .. cols - 1)

(* The turns <<y, x>> of the two loops: x is the first pixel of a pair, so *)
(* that the last pair of an odd row has its second pixel in the next row.  *)
Turns(rows, cols) == {t \in (0 .. rows - 1) \X (0 .. cols - 1) : t[2] % 2 = 0}

\* output_offs + x * 2, the first byte a turn writes.
FirstByte(t, cols) == t[1] * (2 * cols) + 2 * t[2]
\* index_src / 3, the first pixel it reads.
FirstPixel(t, cols) == t[1] * cols + t[2]

(* double yuyv[] = {y1, u, y2, v}: u is made of the first pixel of the     *)
(* pair, v of the second.                                                  *)
Yuyv == <<[chan |-> "y", pixel |-> 0], [chan |-> "u", pixel |-> 0],
          [chan |-> "y", pixel |-> 1], [chan |-> "v", pixel |-> 1]>>

Bytes(rows, cols) == 0 .. 2 * rows * cols - 1
Pixels(rows, cols) == 0 .. rows * cols - 1

\* A later turn overwrites what an earlier one wrote.
Before(s, t) == s[1] < t[1] \/ (s[1] = t[1] /\ s[2] <= t[2])

\* What to_YUYV returns: for every byte, the channel and the pixel it is of.
ToYUYV(rows, cols) ==
  [k \in Bytes(rows, cols) |->
     LET hits == {t \in Turns(rows, cols) : k - FirstByte(t, cols) \in 0 .. 3}
         last == CHOOSE t \in hits : \A s \in hits : Before(s, t)
         part == Yuyv[k - FirstByte(last, cols) + 1]
     IN  [chan |-> part.chan, pixel |-> FirstPixel(last, cols) + part.pixel]]

\* Some turn reads a pixel, or writes a byte, outside the picture.
Overruns(rows, cols) ==
  \E t \in Turns(rows, cols) :
    \/ FirstPixel(t, cols) + 1 \notin Pixels(rows, cols)
    \/ FirstByte(t, cols) + 3 \notin Bytes(rows, cols)

\* The format YUYV: a brightness for every pixel, and for every pair a u and
\* a v between them.
Packed(rows, cols) ==
  [k \in Bytes(rows, cols) |->
     [chan |-> IF k % 2 = 0 THEN "y" ELSE IF k % 4 = 1 THEN "u" ELSE "v",
      pixel |-> k \div 2]]

\* The formulas of y1 and y2, u and v, in thousandths; a byte keeps the
\* whole part.
Luma(b, g, r) == 257 * r + 504 * g + 98 * b + 16000
ChromaU(b, g, r) == 128000 - 148 * r - 291 * g + 439 * b
ChromaV(b, g, r) == 439 * r - 368 * g - 71 * b + 128000
=============================================================================
