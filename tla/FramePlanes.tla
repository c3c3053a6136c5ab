------------------------------ MODULE FramePlanes ------------------------------
(***************************************************************************)
(* The two bridges between a captured frame and the picture the run works  *)
(* on (app/src/FrameConversion.cpp): toBgrMat reads the planes of a        *)
(* videocapture::Frame through a header or an OpenCV conversion, toFrame   *)
(* hands a picture to the video writer.  What is at stake is which bytes   *)
(* of the frame a pixel is made of, so a byte is its address in the        *)
(* frame's storage and a decoded byte is what it was decoded from.         *)
(*                                                                         *)
(* A frame is [format, width, height, base, stride] with the offset and    *)
(* the row stride of each plane, all of which a capture backend chooses.   *)
(***************************************************************************)
EXTENDS Integers, Sequences

CONSTANT Frames  \* the frames a source may hand out

VARIABLES
  frame,   \* the frame that was read
  pc,
  mat,     \* what toBgrMat returned
  written  \* what toFrame made of it

vars == <<frame, pc, mat, written>>

Planar == {"NV12", "YUV420P"}

\* Bytes of a pixel in the first plane.
PixelBytes == [Gray8 |-> 1, RGB8 |-> 3, BGR8 |-> 3, RGBA8 |-> 4, BGRA8 |-> 4,
               NV12 |-> 1, YUV420P |-> 1]

PixelFormats == DOMAIN PixelBytes

NoPicture == [rows |-> 0, cols |-> 0]

HalfUp(n) == (n + 1) \div 2

\* videocapture::Frame: 4:2:0 chroma planes round up.
planeHeight(f, p) == IF p = 1 THEN f.height ELSE HalfUp(f.height)

sizeBytes(f, p) == f.stride[p] * planeHeight(f, p)

Empty(f) == f.width = 0 \/ f.height = 0

planeCount(format) ==
  CASE format = "NV12" -> 2 [] format = "YUV420P" -> 3 [] OTHER -> 1

\* A backend lays the planes out as it likes, but the pitch of a row holds the
\* row: cv::Mat insists on it for the header made of the plane.
ASSUME FramesAssumption ==
  \A f \in Frames :
    /\ f.format \in PixelFormats
    /\ f.width \in Nat /\ f.height \in Nat
    /\ f.base \in [1 .. planeCount(f.format) -> Nat]
    /\ f.stride \in [1 .. planeCount(f.format) -> Nat]
    /\ f.stride[1] >= PixelBytes[f.format] * f.width

Init ==
  /\ frame \in Frames
  /\ pc = "read"
  /\ mat = NoPicture
  /\ written = NoPicture

-----------------------------------------------------------------------------
(***************************************************************************)
(* toBgrMat.                                                               *)
(***************************************************************************)
\* A header over frame storage: its bytes are the frame's.
Header(rows, cols, channels, base, step) ==
  [rows |-> rows, cols |-> cols, channels |-> channels, step |-> step,
   owner |-> "frame", base |-> base]

planeHeader(channels) ==
  Header(frame.height, frame.width, channels, frame.base[1], frame.stride[1])

\* Row, column and channel of each byte of a packed picture.
Places(rows, cols) == (0 .. rows - 1) \X (0 .. cols - 1) \X (0 .. 2)

\* A converted picture: packed bytes of its own, given by their places.
Owned(rows, cols, byte) ==
  [rows |-> rows, cols |-> cols, channels |-> 3, step |-> 3 * cols, owner |-> "mat",
   bytes |-> [k \in 0 .. 3 * rows * cols - 1 |->
                byte[<<k \div (3 * cols), (k % (3 * cols)) \div 3, k % 3>>]]]

\* cv::cvtColor with the code chosen for a format: where in a source pixel the
\* blue, green and red bytes are.
Order(format) ==
  CASE format = "BGRA8"            -> <<0, 1, 2>>
    [] format \in {"RGB8", "RGBA8"} -> <<2, 1, 0>>
    [] format = "Gray8"            -> <<0, 0, 0>>

Reordered(h, order) ==
  Owned(h.rows, h.cols, [at \in Places(h.rows, h.cols) |->
    h.base + at[1] * h.step + h.channels * at[2] + order[at[3] + 1]])

\* COLOR_YUV2BGR_NV12 and COLOR_YUV2BGR_I420 over one buffer of luma rows and
\* the chroma rows after them: two thirds of the rows are luma.
Decoded(h, format) ==
  LET rows   == (2 * h.rows) \div 3
      chroma == h.base + rows * h.step
      Sample(y, x) ==
        IF format = "NV12"
        THEN chroma + (y \div 2) * h.step + 2 * (x \div 2)
        ELSE chroma + (y \div 2) * (h.cols \div 2) + x \div 2
      next   == IF format = "NV12" THEN 1 ELSE (rows \div 2) * (h.cols \div 2)
  IN  Owned(rows, h.cols, [at \in Places(rows, h.cols) |->
        LET sample == Sample(at[1], at[2])
        IN  <<at[3], h.base + at[1] * h.step + at[2], sample, sample + next>>])

\* The chroma pitches the decoder takes.
chromaStrides == IF frame.format = "NV12" THEN <<frame.width>>
                 ELSE <<frame.width \div 2, frame.width \div 2>>

Even == frame.width % 2 = 0 /\ frame.height % 2 = 0

\* Mutant: only the first chroma plane is looked at.
Adjacent_First ==
  /\ frame.stride[2] = chromaStrides[1]
  /\ frame.base[2] = frame.base[1] + sizeBytes(frame, 1)

\* Every chroma plane has that pitch and follows its predecessor.
Adjacent ==
  \A p \in DOMAIN chromaStrides :
    /\ frame.stride[p + 1] = chromaStrides[p]
    /\ frame.base[p + 1] = frame.base[p] + sizeBytes(frame, p)

\* The layout planarLumaChromaHeader accepts.
Decodable == Even /\ frame.stride[1] = frame.width /\ Adjacent

\* The chroma rows follow the luma rows at the luma pitch.
planarLumaChromaHeader ==
  Header(frame.height + frame.height \div 2, frame.width, 1, frame.base[1], frame.width)

ToBgrMat ==
  /\ pc = "read"
  /\ \/ Empty(frame) /\ pc' = "converted" /\ UNCHANGED mat
     \/ /\ ~ Empty(frame)
        /\ frame.format \notin Planar
        /\ pc' = "converted"
        /\ mat' = LET h == planeHeader(PixelBytes[frame.format])
                  IN  IF frame.format = "BGR8" THEN h ELSE Reordered(h, Order(frame.format))
     \/ /\ ~ Empty(frame)
        /\ frame.format \in Planar
        /\ Decodable
        /\ pc' = "converted"
        /\ mat' = Decoded(planarLumaChromaHeader, frame.format)
     \/ /\ ~ Empty(frame)
        /\ frame.format \in Planar
        /\ ~ Decodable
        /\ pc' = "refused"
        /\ UNCHANGED mat
  /\ UNCHANGED <<frame, written>>

-----------------------------------------------------------------------------
(***************************************************************************)
(* toFrame: rows copied as if they followed each other without a gap.      *)
(***************************************************************************)
\* The byte k after the start of the Mat's data.
DataAt(m, k) == IF m.owner = "frame" THEN m.base + k ELSE m.bytes[k]

\* Mutant: rows must end at a word.
Bridgeable_Aligned(m) == m.channels = 3 /\ m.step % 4 = 0

\* CV_8UC3 and cv::Mat::isContinuous.
Bridgeable(m) == m.channels = 3 /\ (m.rows = 1 \/ m.step = 3 * m.cols)

ToFrame ==
  /\ pc = "converted"
  /\ \/ mat = NoPicture /\ pc' = "written" /\ UNCHANGED written
     \/ /\ mat # NoPicture
        /\ Bridgeable(mat)
        /\ pc' = "written"
        /\ written' = [rows |-> mat.rows, cols |-> mat.cols,
             bytes |-> [at \in (0 .. mat.rows - 1) \X (0 .. 3 * mat.cols - 1) |->
                          DataAt(mat, at[1] * mat.cols * 3 + at[2])]]
     \/ /\ mat # NoPicture
        /\ ~ Bridgeable(mat)
        /\ pc' = "unwritable"
        /\ UNCHANGED written
  /\ UNCHANGED <<frame, mat>>

Next == ToBgrMat \/ ToFrame

Spec == Init /\ [][Next]_vars

-----------------------------------------------------------------------------
(***************************************************************************)
(* The reference: what the formats mean.                                   *)
(***************************************************************************)
\* Blue, green and red in a packed pixel, as the format's name spells them.
Meaning == [Gray8 |-> <<0, 0, 0>>, RGB8 |-> <<2, 1, 0>>, BGR8 |-> <<0, 1, 2>>,
            RGBA8 |-> <<2, 1, 0>>, BGRA8 |-> <<0, 1, 2>>]

At(f, p, y, x) == f.base[p] + y * f.stride[p] + x

\* What channel c of the pixel at row y and column x of a frame is made of.
Pixel(f, y, x, c) ==
  LET luma == At(f, 1, y, x)
  IN  CASE f.format = "NV12" ->
             LET u == At(f, 2, y \div 2, 2 * (x \div 2)) IN <<c, luma, u, u + 1>>
        [] f.format = "YUV420P" ->
             <<c, luma, At(f, 2, y \div 2, x \div 2), At(f, 3, y \div 2, x \div 2)>>
        [] OTHER ->
             At(f, 1, y, PixelBytes[f.format] * x + Meaning[f.format][c + 1])

\* A frame as the Frame constructor lays it out.
Canonical(f) ==
  /\ f.stride = CASE f.format = "NV12"    -> <<f.width, 2 * HalfUp(f.width)>>
                  [] f.format = "YUV420P" -> <<f.width, HalfUp(f.width), HalfUp(f.width)>>
                  [] OTHER                -> <<PixelBytes[f.format] * f.width>>
  /\ f.base[1] = 0
  /\ \A p \in 2 .. Len(f.base) : f.base[p] = f.base[p - 1] + sizeBytes(f, p - 1)

(***************************************************************************)
(* Correctness.                                                            *)
(***************************************************************************)
\* What is shown of a frame, and what the writer is handed of it, is the frame
\* pixel for pixel and plane for plane, whatever the strides, the gaps and the
\* order of the planes (toBgrMat tells the decoder of planar formats one base
\* and one pitch, and it finds the chroma by arithmetic; toFrame takes rows to
\* be packed although the picture may alias the frame's padded ones).
PictureIsTheFrames ==
  LET Pixels == Places(frame.height, frame.width)
      IsTheFrame(at, byte) == byte = Pixel(frame, at[1], at[2], at[3])
  IN  ~ Empty(frame) =>
        /\ pc = "converted" =>
             /\ mat.rows = frame.height /\ mat.cols = frame.width
             /\ \A at \in Pixels :
                  IsTheFrame(at, DataAt(mat, at[1] * mat.step + 3 * at[2] + at[3]))
        /\ pc = "written" =>
             /\ written.rows = frame.height /\ written.cols = frame.width
             /\ \A at \in Pixels :
                  IsTheFrame(at, written.bytes[<<at[1], 3 * at[2] + at[3]>>])

\* A frame laid out as its constructor lays it out is shown, unless it is 4:2:0
\* with an odd side; and one that was shown can be written, unless it is a BGR8
\* frame with padded rows (planarLumaChromaHeader's comparisons, and toFrame's
\* continuity test on what toBgrMat returned).
RefusedForItsLayout ==
  /\ pc = "refused" => frame.format \in Planar /\ ~ (Even /\ Canonical(frame))
  /\ pc = "unwritable" => frame.format = "BGR8" /\ frame.stride[1] > 3 * frame.width
=============================================================================
