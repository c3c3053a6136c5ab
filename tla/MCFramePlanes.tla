---------------------------- MODULE MCFramePlanes ----------------------------
(***************************************************************************)
(* FramePlanes over frames of up to four by four pixels in every format,   *)
(* rows packed or padded by one byte or two, chroma planes adjacent or     *)
(* not, after the luma plane or before it, in either order; and the frames *)
(* the Frame constructor lays out.                                         *)
(***************************************************************************)
EXTENDS FramePlanes

Sides == 1 .. 4

PackedFrames ==
  {[format |-> format, width |-> w, height |-> h, base |-> <<b>>,
    stride |-> <<PixelBytes[format] * w + pad>>] :
      format \in PixelFormats \ Planar, w, h \in Sides, b \in 0 .. 1, pad \in 0 .. 2}

\* Pitches of a chroma plane around the packed one.
Pitches(w) == {w \div 2, w \div 2 + 1}

Luma(w, h, pad) == (w + pad) * h

NV12Frames ==
  {[format |-> "NV12", width |-> w, height |-> h,
    base |-> IF gap < 0 THEN <<w * h + 4, 0>> ELSE <<0, Luma(w, h, pad) + gap>>,
    stride |-> <<w + pad, s>>] :
      w, h \in Sides, pad \in 0 .. 1, gap \in -1 .. 1, s \in 2 .. 5}
    \cup
  {[format |-> "NV12", width |-> w, height |-> h, base |-> <<0, w * h>>,
    stride |-> <<w, 2 * HalfUp(w)>>] : w, h \in Sides}

PlanarFrame(w, h, pad, s, t, gap, swapped) ==
  LET first  == Luma(w, h, pad) + gap
      second == first + (IF swapped THEN t ELSE s) * HalfUp(h)
  IN  [format |-> "YUV420P", width |-> w, height |-> h,
       base |-> IF swapped THEN <<0, second, first>> ELSE <<0, first, second>>,
       stride |-> <<w + pad, s, t>>]

YuvFrames ==
  UNION {{PlanarFrame(w, h, pad, s, t, gap, swapped) :
            s, t \in Pitches(w), pad, gap \in 0 .. 1, swapped \in BOOLEAN} :
           w, h \in Sides}

EmptyFrames ==
  {[format |-> "BGR8", width |-> 0, height |-> 0, base |-> <<0>>, stride |-> <<0>>]}

AllFrames == PackedFrames \cup NV12Frames \cup YuvFrames \cup EmptyFrames
=============================================================================
