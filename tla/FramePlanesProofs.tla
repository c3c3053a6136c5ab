--------------------------- MODULE FramePlanesProofs ---------------------------
(***************************************************************************)
(* Theorems about FramePlanes, for frames of any size in every format,     *)
(* with planes and pitches anywhere.  A place in a packed picture is found *)
(* again by division (PackedPlace), so each conversion can be judged pixel *)
(* by pixel; BridgeInv carries that judgement to the writer.               *)
(***************************************************************************)
EXTENDS FramePlanes, TLAPS

\* The formats, by name. (enum PixelFormat.)
LEMMA Formats == PixelFormats = {"Gray8", "RGB8", "BGR8", "RGBA8", "BGRA8", "NV12", "YUV420P"}
  BY DEF PixelFormats, PixelBytes

\* Bytes and meaning of a packed pixel, by format. (the cases of toBgrMat.)
LEMMA Named ==
  /\ PixelBytes["Gray8"] = 1 /\ PixelBytes["RGB8"] = 3 /\ PixelBytes["BGR8"] = 3
  /\ PixelBytes["RGBA8"] = 4 /\ PixelBytes["BGRA8"] = 4
  /\ PixelBytes["NV12"] = 1 /\ PixelBytes["YUV420P"] = 1
  /\ Meaning["Gray8"] = <<0, 0, 0>> /\ Meaning["RGB8"] = <<2, 1, 0>>
  /\ Meaning["BGR8"] = <<0, 1, 2>> /\ Meaning["RGBA8"] = <<2, 1, 0>>
  /\ Meaning["BGRA8"] = <<0, 1, 2>>
  BY DEF PixelBytes, Meaning

\* The rows of a packed picture do not run into each other.
LEMMA RowsApart ==
  ASSUME NEW r \in Nat, NEW n \in Nat, NEW w \in Nat, n < r
  PROVE  n * w + w <= r * w
<1>1. PICK d \in Nat : r = n + 1 + d
  <2>1. r - n - 1 \in Nat /\ r = n + 1 + (r - n - 1)
    OBVIOUS
  <2> QED BY <2>1
<1>2. r * w = n * w + w + d * w
  BY <1>1
<1>3. d * w >= 0
  OBVIOUS
<1>4. n * w \in Nat /\ d * w \in Nat /\ r * w \in Nat
  OBVIOUS
<1> QED BY <1>2, <1>3, <1>4

\* A place in a row is found again by division.
LEMMA PlaceInRow ==
  ASSUME NEW q \in Nat, NEW w \in Nat \ {0}, NEW r \in 0 .. w - 1
  PROVE  (q * w + r) \div w = q /\ (q * w + r) % w = r
<1> DEFINE d == (q * w + r) \div w
           m == (q * w + r) % w
<1>1. q * w + r \in Nat
  OBVIOUS
<1>2. d \in Int /\ m \in 0 .. w - 1 /\ q * w + r = w * d + m
  BY <1>1
<1>3. (q - d) * w = m - r
  BY <1>2
<1> HIDE DEF d, m
<1>4. ~ q - d >= 1
  <2> SUFFICES ASSUME q - d >= 1 PROVE FALSE
    OBVIOUS
  <2>1. (q - d) * w >= w
    BY <1>2
  <2> QED
    BY <2>1, <1>2, <1>3
<1>5. ~ q - d <= -1
  <2> SUFFICES ASSUME q - d <= -1 PROVE FALSE
    OBVIOUS
  <2>1. (q - d) * w <= -w
    BY <1>2
  <2> QED
    BY <2>1, <1>2, <1>3
<1>6. q = d
  BY <1>2, <1>4, <1>5
<1>7. m = r
  BY <1>2, <1>3, <1>6
<1> QED BY <1>6, <1>7 DEF d, m

\* The byte k of a packed picture is channel c at row y and column x.
PlacedAt(k, rows, cols, y, x, c) ==
  /\ y \in 0 .. rows - 1 /\ x \in 0 .. cols - 1 /\ c \in 0 .. 2
  /\ k = y * (3 * cols) + 3 * x + c

\* The bytes of a packed picture and its places are one to one: Owned finds
\* again the place a byte was computed for.
LEMMA PackedPlace ==
  ASSUME NEW rows \in Nat, NEW cols \in Nat, NEW k, NEW y, NEW x, NEW c,
         PlacedAt(k, rows, cols, y, x, c)
  PROVE  /\ k \in 0 .. 3 * rows * cols - 1
         /\ k \div (3 * cols) = y
         /\ (k % (3 * cols)) \div 3 = x
         /\ k % 3 = c
<1> USE DEF PlacedAt
<1> DEFINE w == 3 * cols
<1>1. w \in Nat \ {0} /\ 3 * x + c \in 0 .. w - 1
  OBVIOUS
<1>2. y \in Nat /\ y < rows
  OBVIOUS
<1>3. k = y * w + (3 * x + c)
  OBVIOUS
<1>4. k \div w = y /\ k % w = 3 * x + c
  <2> HIDE DEF w
  <2> QED BY <1>1, <1>2, <1>3, PlaceInRow
<1>5. (3 * x + c) \div 3 = x
  OBVIOUS
<1>6. k % 3 = c
  <2>1. y * cols \in Nat
    OBVIOUS
  <2>2. k = (y * cols + x) * 3 + c
    BY <2>1
  <2> DEFINE n == y * cols + x
  <2>3. n \in Nat /\ k = n * 3 + c
    BY <2>1, <2>2
  <2> HIDE DEF n
  <2> QED BY <2>3
<1>7. k \in 0 .. 3 * rows * cols - 1
  <2>1. y * w + w <= rows * w
    BY <1>1, <1>2, RowsApart
  <2>2. y * w \in Nat /\ rows * w \in Nat
    BY <1>1, <1>2
  <2>3. rows * w = 3 * rows * cols
    OBVIOUS
  <2> HIDE DEF w
  <2>4. k \in Nat /\ k < rows * w
    BY <1>1, <1>3, <2>1, <2>2
  <2> QED BY <2>2, <2>3, <2>4
<1> QED BY <1>4, <1>5, <1>6, <1>7

-----------------------------------------------------------------------------
(***************************************************************************)
(* The conversions.                                                        *)
(***************************************************************************)
\* Every pixel of a picture with these rows is the frame's.
Shows(f, m) ==
  \A y \in 0 .. f.height - 1, x \in 0 .. f.width - 1, c \in 0 .. 2 :
    DataAt(m, y * m.step + 3 * x + c) = Pixel(f, y, x, c)

\* What toBgrMat makes of a frame: a picture of its size and its pixels, whose
\* rows are packed unless it is the frame's own storage.
Faithful(f, m) ==
  /\ m.rows = f.height /\ m.cols = f.width /\ m.channels = 3
  /\ m.step = 3 * m.cols \/ (f.format = "BGR8" /\ m.step = f.stride[1])
  /\ Shows(f, m)

\* A converted picture holds at every place what the conversion put there.
LEMMA OwnedHolds ==
  ASSUME NEW rows \in Nat, NEW cols \in Nat, NEW byte, NEW k, NEW y, NEW x, NEW c,
         PlacedAt(k, rows, cols, y, x, c)
  PROVE  DataAt(Owned(rows, cols, byte), k) = byte[<<y, x, c>>]
<1> DEFINE bytes == [j \in 0 .. 3 * rows * cols - 1 |->
                       byte[<<j \div (3 * cols), (j % (3 * cols)) \div 3, j % 3>>]]
           m == Owned(rows, cols, byte)
<1>1. /\ k \in 0 .. 3 * rows * cols - 1
      /\ k \div (3 * cols) = y
      /\ (k % (3 * cols)) \div 3 = x
      /\ k % 3 = c
  BY PackedPlace
<1>2. m.owner = "mat" /\ m.bytes = bytes
  BY DEF Owned
<1>3. bytes[k] = byte[<<y, x, c>>]
  BY <1>1
<1>4. DataAt(m, k) = m.bytes[k]
  BY <1>2 DEF DataAt
<1> QED BY <1>2, <1>3, <1>4

\* A converted picture is as large as asked and packed.
LEMMA OwnedShape ==
  ASSUME NEW rows, NEW cols, NEW byte
  PROVE  /\ Owned(rows, cols, byte).rows = rows
         /\ Owned(rows, cols, byte).cols = cols
         /\ Owned(rows, cols, byte).channels = 3
         /\ Owned(rows, cols, byte).step = 3 * cols
  BY DEF Owned

\* The parts of a frame that is not empty.
LEMMA FrameParts ==
  ASSUME NEW f \in Frames, ~ Empty(f)
  PROVE  /\ f.format \in {"Gray8", "RGB8", "BGR8", "RGBA8", "BGRA8", "NV12", "YUV420P"}
         /\ f.width \in Nat \ {0} /\ f.height \in Nat \ {0}
         /\ f.base[1] \in Nat /\ f.stride[1] \in Nat
         /\ f.format = "BGR8" => f.stride[1] >= 3 * f.width
         /\ f.format = "NV12" => f.base[2] \in Nat /\ f.stride[2] \in Nat
         /\ f.format = "YUV420P" => /\ f.base[2] \in Nat /\ f.stride[2] \in Nat
                                    /\ f.base[3] \in Nat /\ f.stride[3] \in Nat
<1>1. /\ f.format \in PixelFormats
      /\ f.width \in Nat /\ f.height \in Nat
      /\ f.base \in [1 .. planeCount(f.format) -> Nat]
      /\ f.stride \in [1 .. planeCount(f.format) -> Nat]
      /\ f.stride[1] >= PixelBytes[f.format] * f.width
  BY FramesAssumption
<1>2. 1 \in 1 .. planeCount(f.format)
  BY DEF planeCount
<1>3. f.format = "NV12" => 2 \in 1 .. planeCount(f.format)
  BY DEF planeCount
<1>4. f.format = "YUV420P" => 2 \in 1 .. planeCount(f.format) /\ 3 \in 1 .. planeCount(f.format)
  BY DEF planeCount
<1>5. f.base[1] \in Nat /\ f.stride[1] \in Nat
  BY <1>1, <1>2
<1>6. f.format = "BGR8" => f.stride[1] >= 3 * f.width
  BY <1>1, Named
<1>7. f.width # 0 /\ f.height # 0
  BY DEF Empty
<1> QED BY <1>1, <1>3, <1>4, <1>5, <1>6, <1>7, Formats

\* The header over a BGR8 frame shows the frame. (case BGR8 of toBgrMat.)
LEMMA HeaderShows ==
  ASSUME frame \in Frames, ~ Empty(frame), frame.format = "BGR8"
  PROVE  Faithful(frame, planeHeader(3))
<1> DEFINE m == planeHeader(3)
<1>1. /\ m.rows = frame.height /\ m.cols = frame.width /\ m.channels = 3
      /\ m.step = frame.stride[1] /\ m.owner = "frame" /\ m.base = frame.base[1]
  BY DEF planeHeader, Header
<1>2. ASSUME NEW y \in 0 .. frame.height - 1, NEW x \in 0 .. frame.width - 1, NEW c \in 0 .. 2
      PROVE  DataAt(m, y * m.step + 3 * x + c) = Pixel(frame, y, x, c)
  <2>1. DataAt(m, y * m.step + 3 * x + c) = frame.base[1] + (y * frame.stride[1] + 3 * x + c)
    BY <1>1 DEF DataAt
  <2>2. Meaning["BGR8"][c + 1] = c
    BY Named
  <2>3. Pixel(frame, y, x, c) = frame.base[1] + y * frame.stride[1] + (3 * x + c)
    BY <2>2, Named DEF Pixel, At
  <2>4. frame.base[1] \in Nat /\ y * frame.stride[1] \in Nat
    BY FrameParts
  <2> QED BY <2>1, <2>3, <2>4
<1>3. Shows(frame, m)
  BY <1>2 DEF Shows
<1> HIDE DEF m
<1> QED BY <1>1, <1>3 DEF Faithful, m

\* A reordering conversion shows the frame: the code chosen for a format puts
\* blue, green and red where the format's name has them. (the cvtColor cases.)
LEMMA ReorderedShows ==
  ASSUME frame \in Frames, ~ Empty(frame), frame.format \notin Planar, frame.format # "BGR8"
  PROVE  Faithful(frame, Reordered(planeHeader(PixelBytes[frame.format]), Order(frame.format)))
<1> DEFINE n == PixelBytes[frame.format]
           h == planeHeader(n)
           order == Order(frame.format)
           Byte(y, x, c) == h.base + y * h.step + h.channels * x + order[c + 1]
           byte == [at \in Places(h.rows, h.cols) |-> Byte(at[1], at[2], at[3])]
           m == Reordered(h, order)
<1>1. /\ h.rows = frame.height /\ h.cols = frame.width /\ h.channels = n
      /\ h.step = frame.stride[1] /\ h.base = frame.base[1]
  BY DEF planeHeader, Header
<1>2. order = Meaning[frame.format] /\ n \in Nat
  BY FrameParts, Named DEF Order, Planar
<1>3. m = Owned(h.rows, h.cols, byte)
  BY DEF Reordered
<1> HIDE DEF m, h, order, n
<1>4. /\ m.rows = frame.height /\ m.cols = frame.width /\ m.channels = 3
      /\ m.step = 3 * m.cols
  BY <1>1, <1>3, OwnedShape
<1>5. ASSUME NEW y \in 0 .. frame.height - 1, NEW x \in 0 .. frame.width - 1, NEW c \in 0 .. 2
      PROVE  DataAt(m, y * m.step + 3 * x + c) = Pixel(frame, y, x, c)
  <2>1. DataAt(m, y * (3 * frame.width) + 3 * x + c) = byte[<<y, x, c>>]
    <3>1. frame.height \in Nat /\ frame.width \in Nat
      BY FrameParts
    <3> HIDE DEF byte
    <3> DEFINE k == y * (3 * frame.width) + 3 * x + c
    <3>2. PlacedAt(k, frame.height, frame.width, y, x, c)
      BY DEF PlacedAt
    <3> HIDE DEF k
    <3>3. DataAt(Owned(frame.height, frame.width, byte), k) = byte[<<y, x, c>>]
      BY <3>1, <3>2, OwnedHolds
    <3> QED BY <1>1, <1>3, <3>3 DEF k
  <2>2. byte[<<y, x, c>>] = Byte(y, x, c)
    BY <1>1 DEF Places
  <2>3. Byte(y, x, c) = frame.base[1] + y * frame.stride[1] + n * x + Meaning[frame.format][c + 1]
    BY <1>1, <1>2
  <2>4. Pixel(frame, y, x, c)
          = frame.base[1] + y * frame.stride[1] + (n * x + Meaning[frame.format][c + 1])
    BY FrameParts DEF Pixel, At, Planar, n
  <2>5. frame.base[1] \in Nat /\ y * frame.stride[1] \in Nat /\ n * x \in Nat
    BY <1>2, FrameParts
  <2>6. Meaning[frame.format][c + 1] \in Nat
    BY FrameParts, Named DEF Planar
  <2>7. Pixel(frame, y, x, c) = Byte(y, x, c)
    <3> HIDE DEF Byte
    <3> QED BY <2>3, <2>4, <2>5, <2>6
  <2> HIDE DEF Byte, byte
  <2> QED BY <1>4, <2>1, <2>2, <2>7
<1>6. Shows(frame, m)
  BY <1>5 DEF Shows
<1> QED BY <1>4, <1>6 DEF Faithful, m, h, n, order

\* A decoded 4:2:0 picture shows the frame: with even sides, packed luma rows
\* and the chroma planes where planarLumaChromaHeader expects them, the bytes
\* the decoder finds by arithmetic from one base and one pitch are those of
\* the planes. (cases NV12 and YUV420P of toBgrMat.)
LEMMA DecodedShows ==
  ASSUME frame \in Frames, ~ Empty(frame), frame.format \in Planar, Decodable
  PROVE  Faithful(frame, Decoded(planarLumaChromaHeader, frame.format))
<1> DEFINE h == planarLumaChromaHeader
           W == frame.width
           H == frame.height
           b == frame.base
           rows == (2 * h.rows) \div 3
           chroma == h.base + rows * h.step
           Sample(y, x) ==
             IF frame.format = "NV12"
             THEN chroma + (y \div 2) * h.step + 2 * (x \div 2)
             ELSE chroma + (y \div 2) * (h.cols \div 2) + x \div 2
           next == IF frame.format = "NV12" THEN 1 ELSE (rows \div 2) * (h.cols \div 2)
           Byte(y, x, c) ==
             <<c, h.base + y * h.step + x, Sample(y, x), Sample(y, x) + next>>
           byte == [at \in Places(rows, h.cols) |->
                      LET sample == Sample(at[1], at[2])
                      IN  <<at[3], h.base + at[1] * h.step + at[2], sample, sample + next>>]
           m == Decoded(h, frame.format)
<1>1. /\ h.rows = H + H \div 2 /\ h.cols = W /\ h.step = W /\ h.base = b[1]
  BY DEF planarLumaChromaHeader, Header
<1>2. /\ W \in Nat \ {0} /\ H \in Nat \ {0} /\ b[1] \in Nat
      /\ frame.stride[1] = W /\ W % 2 = 0 /\ H % 2 = 0
  BY FrameParts DEF Decodable, Even
<1>3. rows = H
  BY <1>1, <1>2
<1>4. chroma = b[1] + H * W
  <2> HIDE DEF rows, h
  <2> QED BY <1>1, <1>3
<1>5. m = Owned(rows, h.cols, byte)
  BY DEF Decoded
<1>6. Adjacent
  BY DEF Decodable
<1>7. /\ frame.format \in {"NV12", "YUV420P"}
      /\ frame.format = "NV12" => /\ frame.stride[2] = W
                                  /\ b[2] = b[1] + W * H
  <2>1. frame.format \in {"NV12", "YUV420P"}
    BY DEF Planar
  <2>2. ASSUME frame.format = "NV12"
        PROVE  frame.stride[2] = W /\ b[2] = b[1] + W * H
    <3>1. chromaStrides = <<W>>
      BY <2>2 DEF chromaStrides
    <3>2. 1 \in DOMAIN chromaStrides /\ chromaStrides[1] = W
      BY <3>1
    <3>3. frame.stride[1 + 1] = chromaStrides[1] /\ b[1 + 1] = b[1] + sizeBytes(frame, 1)
      BY <1>6, <3>2 DEF Adjacent
    <3>4. sizeBytes(frame, 1) = W * H
      BY <1>2 DEF sizeBytes, planeHeight
    <3> QED BY <3>2, <3>3, <3>4
  <2> QED BY <2>1, <2>2
<1>8. ASSUME frame.format = "YUV420P"
      PROVE  /\ frame.stride[2] = W \div 2 /\ frame.stride[3] = W \div 2
             /\ b[2] = b[1] + W * H
             /\ b[3] = b[2] + (W \div 2) * (H \div 2)
  <2>1. chromaStrides = <<W \div 2, W \div 2>>
    BY <1>8 DEF chromaStrides
  <2>2. /\ 1 \in DOMAIN chromaStrides /\ chromaStrides[1] = W \div 2
        /\ 2 \in DOMAIN chromaStrides /\ chromaStrides[2] = W \div 2
    BY <2>1
  <2>3. /\ frame.stride[1 + 1] = chromaStrides[1] /\ b[1 + 1] = b[1] + sizeBytes(frame, 1)
        /\ frame.stride[2 + 1] = chromaStrides[2] /\ b[2 + 1] = b[2] + sizeBytes(frame, 2)
    BY <1>6, <2>2 DEF Adjacent
  <2>4. sizeBytes(frame, 1) = W * H
    BY <1>2 DEF sizeBytes, planeHeight
  <2>5. sizeBytes(frame, 2) = (W \div 2) * (H \div 2)
    <3>1. planeHeight(frame, 2) = H \div 2
      BY <1>2 DEF planeHeight, HalfUp
    <3> QED BY <2>2, <2>3, <3>1 DEF sizeBytes
  <2> QED BY <2>2, <2>3, <2>4, <2>5
<1> HIDE DEF m, h, rows, chroma, Sample, next, Byte, byte
<1>9. /\ m.rows = H /\ m.cols = W /\ m.channels = 3 /\ m.step = 3 * m.cols
  BY <1>1, <1>3, <1>5, OwnedShape
<1>10. ASSUME NEW y \in 0 .. H - 1, NEW x \in 0 .. W - 1, NEW c \in 0 .. 2
       PROVE  DataAt(m, y * m.step + 3 * x + c) = Pixel(frame, y, x, c)
  <2>1. DataAt(m, y * (3 * W) + 3 * x + c) = byte[<<y, x, c>>]
    <3> DEFINE k == y * (3 * W) + 3 * x + c
    <3>1. PlacedAt(k, H, W, y, x, c)
      BY DEF PlacedAt
    <3> HIDE DEF k
    <3>2. H \in Nat /\ W \in Nat
      BY <1>2
    <3>3. DataAt(Owned(H, W, byte), k) = byte[<<y, x, c>>]
      BY <3>1, <3>2, OwnedHolds
    <3> QED BY <1>1, <1>3, <1>5, <3>3 DEF k
  <2>2. byte[<<y, x, c>>] = Byte(y, x, c)
    BY <1>1, <1>3 DEF Places, byte, Byte
  <2> DEFINE v == y \div 2
             u == x \div 2
  <2>3. v \in Nat /\ u \in Nat /\ v * W \in Nat /\ H * W \in Nat /\ H * W = W * H
    BY <1>2
  <2>4. At(frame, 1, y, x) = b[1] + y * W + x
    BY <1>2 DEF At
  <2>5. h.base + y * h.step + x = b[1] + y * W + x
    BY <1>1
  <2>6. CASE frame.format = "NV12"
    <3>1. Sample(y, x) = b[1] + H * W + v * W + 2 * u
      BY <1>1, <1>4, <2>6 DEF Sample
    <3>2. At(frame, 2, v, 2 * u) = b[1] + W * H + v * W + 2 * u
      BY <1>7, <2>6 DEF At
    <3>3. At(frame, 2, v, 2 * u) = Sample(y, x)
      BY <2>3, <3>1, <3>2
    <3>4. Byte(y, x, c) = <<c, b[1] + y * W + x, Sample(y, x), Sample(y, x) + 1>>
      BY <2>5, <2>6 DEF Byte, next
    <3>5. Pixel(frame, y, x, c)
            = <<c, At(frame, 1, y, x), At(frame, 2, v, 2 * u), At(frame, 2, v, 2 * u) + 1>>
      BY <2>6 DEF Pixel
    <3> QED BY <1>9, <2>1, <2>2, <2>4, <3>3, <3>4, <3>5
  <2>7. CASE frame.format = "YUV420P"
    <3> DEFINE hw == W \div 2
               hh == H \div 2
    <3>0. hw \in Nat /\ hh \in Nat /\ v * hw \in Nat /\ hh * hw \in Nat /\ hh * hw = hw * hh
      BY <1>2, <2>3
    <3>1. Sample(y, x) = b[1] + H * W + v * hw + u
      BY <1>1, <1>4, <2>7 DEF Sample
    <3>2. At(frame, 2, v, u) = b[1] + W * H + v * hw + u
      BY <1>8, <2>7 DEF At
    <3>3. At(frame, 3, v, u) = b[1] + W * H + hw * hh + v * hw + u
      BY <1>8, <2>7 DEF At
    <3>4. next = hh * hw
      BY <1>1, <1>3, <2>7 DEF next
    <3>5. Byte(y, x, c) = <<c, b[1] + y * W + x, Sample(y, x), Sample(y, x) + hh * hw>>
      BY <2>5, <3>4 DEF Byte
    <3>6. Pixel(frame, y, x, c)
            = <<c, At(frame, 1, y, x), At(frame, 2, v, u), At(frame, 3, v, u)>>
      BY <2>7 DEF Pixel
    <3> HIDE DEF hw, hh, v, u
    <3>7. At(frame, 2, v, u) = Sample(y, x) /\ At(frame, 3, v, u) = Sample(y, x) + hh * hw
      <4>1. b[1] \in Nat /\ u \in Nat /\ v * hw \in Nat /\ W * H \in Nat
        BY <1>2, <2>3, <3>0
      <4> QED BY <2>3, <3>0, <3>1, <3>2, <3>3, <4>1
    <3> QED BY <1>9, <2>1, <2>2, <2>4, <3>5, <3>6, <3>7
  <2> QED BY <1>7, <2>6, <2>7
<1>11. Shows(frame, m)
  BY <1>10 DEF Shows
<1> QED BY <1>9, <1>11 DEF Faithful, m, h

-----------------------------------------------------------------------------
(***************************************************************************)
(* The run.                                                                *)
(***************************************************************************)
\* What holds of a run between its steps: what it carries is the frame, and
\* nothing where there is no frame.
Carried ==
  /\ frame \in Frames
  /\ Empty(frame) => mat = NoPicture
  /\ pc \in {"converted", "written", "unwritable"} /\ ~ Empty(frame) => Faithful(frame, mat)

BridgeInv == Carried /\ PictureIsTheFrames /\ RefusedForItsLayout

\* What a faithful picture shows is shown. (toBgrMat's result.)
LEMMA FaithfulPixels ==
  ASSUME NEW f \in Frames, NEW m, Faithful(f, m)
  PROVE  \A at \in Places(f.height, f.width) :
           DataAt(m, at[1] * m.step + 3 * at[2] + at[3]) = Pixel(f, at[1], at[2], at[3])
  BY DEF Faithful, Shows, Places

\* A refused layout is not the constructor's with even sides: that one
\* satisfies every comparison of planarLumaChromaHeader.
LEMMA CanonicalDecodes ==
  ASSUME frame \in Frames, ~ Empty(frame), frame.format \in Planar,
         Even, Canonical(frame), Len(frame.base) = planeCount(frame.format)
  PROVE  Decodable
<1> DEFINE W == frame.width
<1>1. W \in Nat /\ frame.height \in Nat /\ W % 2 = 0
  BY FrameParts DEF Even
<1>2. 2 * HalfUp(W) = W /\ HalfUp(W) = W \div 2
  BY <1>1 DEF HalfUp
<1>3. \A p \in 2 .. Len(frame.base) : frame.base[p] = frame.base[p - 1] + sizeBytes(frame, p - 1)
  BY DEF Canonical
<1>4. CASE frame.format = "NV12"
  <2>1. frame.stride = <<W, 2 * HalfUp(W)>> /\ Len(frame.base) = 2
    BY <1>4 DEF Canonical, planeCount
  <2>2. frame.stride[1] = W /\ frame.stride[2] = W
    BY <1>2, <2>1
  <2>3. frame.base[2] = frame.base[1] + sizeBytes(frame, 1)
    BY <1>3, <2>1
  <2>4. chromaStrides = <<W>>
    BY <1>4 DEF chromaStrides
  <2>5. Adjacent
    BY <2>2, <2>3, <2>4 DEF Adjacent
  <2> QED BY <2>2, <2>5 DEF Decodable
<1>5. CASE frame.format = "YUV420P"
  <2>1. frame.stride = <<W, HalfUp(W), HalfUp(W)>> /\ Len(frame.base) = 3
    BY <1>5 DEF Canonical, planeCount
  <2>2. frame.stride[1] = W /\ frame.stride[2] = W \div 2 /\ frame.stride[3] = W \div 2
    BY <1>2, <2>1
  <2>3. /\ frame.base[2] = frame.base[1] + sizeBytes(frame, 1)
        /\ frame.base[3] = frame.base[2] + sizeBytes(frame, 2)
    BY <1>3, <2>1
  <2>4. chromaStrides = <<W \div 2, W \div 2>>
    BY <1>5 DEF chromaStrides
  <2>5. Adjacent
    BY <2>2, <2>3, <2>4 DEF Adjacent
  <2> QED BY <2>2, <2>5 DEF Decodable
<1> QED BY <1>4, <1>5 DEF Planar

\* Reading a frame keeps the invariant. (toBgrMat.)
LEMMA ConversionKeeps ==
  ASSUME BridgeInv, ToBgrMat
  PROVE  BridgeInv'
<1>1. frame \in Frames /\ frame' = frame /\ written' = written
  BY DEF BridgeInv, Carried, ToBgrMat
<1>2. CASE Empty(frame)
  <2>1. pc' = "converted" /\ mat' = mat
    BY <1>2 DEF ToBgrMat
  <2>2. Empty(frame)' /\ mat' = NoPicture
    BY <1>1, <1>2, <2>1 DEF BridgeInv, Carried, Empty
  <2> QED BY <1>1, <2>1, <2>2 DEF BridgeInv, Carried, PictureIsTheFrames, RefusedForItsLayout
<1>3. CASE ~ Empty(frame) /\ pc' = "converted"
  <2>1. Faithful(frame, mat')
    <3>1. CASE frame.format = "BGR8"
      <4>1. mat' = planeHeader(3)
        BY <1>3, <3>1, Named DEF ToBgrMat, Planar
      <4> QED BY <1>1, <1>3, <3>1, <4>1, HeaderShows
    <3>2. CASE frame.format \notin Planar /\ frame.format # "BGR8"
      <4>1. mat' = Reordered(planeHeader(PixelBytes[frame.format]), Order(frame.format))
        BY <1>3, <3>2 DEF ToBgrMat
      <4> QED BY <1>1, <1>3, <3>2, <4>1, ReorderedShows
    <3>3. CASE frame.format \in Planar
      <4>1. Decodable /\ mat' = Decoded(planarLumaChromaHeader, frame.format)
        BY <1>3, <3>3 DEF ToBgrMat
      <4> QED BY <1>1, <1>3, <3>3, <4>1, DecodedShows
    <3> QED BY <3>1, <3>2, <3>3
  <2>2. Faithful(frame', mat')
    BY <1>1, <2>1
  <2>3. Carried'
    BY <1>1, <1>3, <2>2 DEF Carried, Empty
  <2>4. PictureIsTheFrames'
    <3>1. mat'.rows = frame'.height /\ mat'.cols = frame'.width
      BY <2>2 DEF Faithful
    <3>2. \A at \in Places(frame'.height, frame'.width) :
            DataAt(mat', at[1] * mat'.step + 3 * at[2] + at[3])
              = Pixel(frame', at[1], at[2], at[3])
      BY <1>1, <2>2, FaithfulPixels
    <3> QED BY <1>3, <3>1, <3>2 DEF PictureIsTheFrames
  <2> QED BY <1>3, <2>3, <2>4 DEF BridgeInv, RefusedForItsLayout
<1>4. CASE ~ Empty(frame) /\ pc' # "converted"
  <2>1. /\ pc' = "refused" /\ mat' = mat
        /\ frame.format \in Planar /\ ~ Decodable
    BY <1>4 DEF ToBgrMat
  <2>2. ~ (Even /\ Canonical(frame))
    <3>1. Canonical(frame) => Len(frame.base) = planeCount(frame.format)
      BY <1>1, FramesAssumption DEF planeCount
    <3> QED BY <1>1, <1>4, <2>1, <3>1, CanonicalDecodes
  <2>3. frame'.format \in Planar /\ ~ (Even' /\ Canonical(frame)')
    BY <1>1, <2>1, <2>2 DEF Even, Canonical, HalfUp, sizeBytes, planeHeight
  <2> QED BY <1>1, <1>4, <2>1, <2>3
          DEF BridgeInv, Carried, Empty, PictureIsTheFrames, RefusedForItsLayout
<1> QED BY <1>2, <1>3, <1>4

\* A picture whose rows follow each other without a gap is copied pixel by
\* pixel. (the one memcpy of toFrame.)
LEMMA CopyKeepsPixels ==
  ASSUME NEW f \in Frames, ~ Empty(f), NEW m, Faithful(f, m), Bridgeable(m), NEW bytes,
         bytes = [at \in (0 .. m.rows - 1) \X (0 .. 3 * m.cols - 1) |->
                    DataAt(m, at[1] * m.cols * 3 + at[2])]
  PROVE  \A at \in Places(f.height, f.width) :
           bytes[<<at[1], 3 * at[2] + at[3]>>] = Pixel(f, at[1], at[2], at[3])
<1> SUFFICES ASSUME NEW at \in Places(f.height, f.width)
             PROVE  bytes[<<at[1], 3 * at[2] + at[3]>>] = Pixel(f, at[1], at[2], at[3])
  OBVIOUS
<1> DEFINE y == at[1]
           x == at[2]
           c == at[3]
<1>1. y \in 0 .. f.height - 1 /\ x \in 0 .. f.width - 1 /\ c \in 0 .. 2
  BY DEF Places
<1>2. m.rows = f.height /\ m.cols = f.width /\ m.step \in Nat
  BY FrameParts DEF Faithful
<1>3. f.height \in Nat /\ f.width \in Nat
  BY FrameParts
<1> HIDE DEF y, x, c
<1>4. <<y, 3 * x + c>> \in (0 .. m.rows - 1) \X (0 .. 3 * m.cols - 1)
  <2>1. 3 * x + c \in 0 .. 3 * m.cols - 1
    BY <1>1, <1>2, <1>3
  <2> QED BY <1>1, <1>2, <2>1
<1>5. bytes[<<y, 3 * x + c>>] = DataAt(m, y * m.cols * 3 + (3 * x + c))
  <2> DEFINE k == 3 * x + c
  <2> HIDE DEF k
  <2>1. <<y, k>> \in (0 .. m.rows - 1) \X (0 .. 3 * m.cols - 1)
    BY <1>4 DEF k
  <2>2. bytes[<<y, k>>] = DataAt(m, y * m.cols * 3 + k)
    BY <2>1
  <2> QED BY <2>2 DEF k
<1>6. y * m.cols * 3 + (3 * x + c) = y * m.step + 3 * x + c
  <2>1. CASE m.rows = 1
    <3>1. y = 0
      BY <1>1, <1>2, <2>1
    <3> QED BY <1>1, <1>2, <1>3, <3>1
  <2>2. CASE m.step = 3 * m.cols
    <3>1. y * m.cols \in Nat /\ y * m.cols * 3 = y * (3 * m.cols)
      BY <1>1, <1>2, <1>3
    <3> QED BY <1>1, <2>2, <3>1
  <2> QED BY <2>1, <2>2 DEF Bridgeable
<1>7. DataAt(m, y * m.step + 3 * x + c) = Pixel(f, y, x, c)
  BY <1>1 DEF Faithful, Shows
<1> QED BY <1>5, <1>6, <1>7 DEF y, x, c

\* Handing the picture to the writer keeps it. (toFrame.)
LEMMA WritingKeeps ==
  ASSUME BridgeInv, ToFrame
  PROVE  BridgeInv'
<1>1. frame \in Frames /\ frame' = frame /\ mat' = mat /\ pc = "converted"
  BY DEF BridgeInv, Carried, ToFrame
<1>2. CASE Empty(frame)
  <2>1. mat = NoPicture /\ pc' = "written"
    BY <1>2 DEF BridgeInv, Carried, ToFrame
  <2> QED BY <1>1, <1>2, <2>1
          DEF BridgeInv, Carried, Empty, PictureIsTheFrames, RefusedForItsLayout
<1>3. CASE ~ Empty(frame)
  <2>1. Faithful(frame, mat)
    BY <1>1, <1>3 DEF BridgeInv, Carried
  <2>2. mat # NoPicture
    <3>1. mat.rows = frame.height /\ frame.height # 0
      BY <1>3, <2>1 DEF Faithful, Empty
    <3>2. NoPicture.rows = 0
      BY DEF NoPicture
    <3> QED BY <3>1, <3>2
  <2>3. Carried'
    <3>1. Faithful(frame', mat')
      BY <1>1, <2>1
    <3> QED BY <1>1, <1>3, <3>1 DEF Carried, Empty
  <2>4. CASE Bridgeable(mat)
    <3>1. /\ pc' = "written"
          /\ written' = [rows |-> mat.rows, cols |-> mat.cols,
               bytes |-> [at \in (0 .. mat.rows - 1) \X (0 .. 3 * mat.cols - 1) |->
                            DataAt(mat, at[1] * mat.cols * 3 + at[2])]]
      BY <2>2, <2>4 DEF ToFrame
    <3>2. written'.rows = frame.height /\ written'.cols = frame.width
      BY <2>1, <3>1 DEF Faithful
    <3> DEFINE bytes == written'.bytes
    <3>3. bytes = [at \in (0 .. mat.rows - 1) \X (0 .. 3 * mat.cols - 1) |->
                     DataAt(mat, at[1] * mat.cols * 3 + at[2])]
      BY <3>1
    <3>4. \A at \in Places(frame.height, frame.width) :
            bytes[<<at[1], 3 * at[2] + at[3]>>] = Pixel(frame, at[1], at[2], at[3])
      <4> HIDE DEF bytes
      <4> QED BY <1>1, <1>3, <2>1, <2>4, <3>3, CopyKeepsPixels
    <3>5. PictureIsTheFrames'
      BY <1>1, <3>1, <3>2, <3>4 DEF PictureIsTheFrames
    <3> QED BY <2>3, <3>1, <3>5 DEF BridgeInv, RefusedForItsLayout
  <2>5. CASE ~ Bridgeable(mat)
    <3>1. pc' = "unwritable"
      BY <2>2, <2>5 DEF ToFrame
    <3>2. frame.format = "BGR8" /\ frame.stride[1] > 3 * frame.width
      <4>1. mat.step # 3 * mat.cols /\ mat.cols = frame.width /\ mat.channels = 3
        BY <2>1, <2>5 DEF Bridgeable, Faithful
      <4>2. frame.format = "BGR8" /\ mat.step = frame.stride[1]
        BY <2>1, <4>1 DEF Faithful
      <4>3. frame.stride[1] >= 3 * frame.width /\ frame.stride[1] \in Nat /\ frame.width \in Nat
        BY <1>1, <1>3, <4>2, FrameParts
      <4> QED BY <4>1, <4>2, <4>3
    <3> QED BY <1>1, <2>3, <3>1, <3>2 DEF BridgeInv, PictureIsTheFrames, RefusedForItsLayout
  <2> QED BY <2>4, <2>5
<1> QED BY <1>2, <1>3

\* The invariant holds throughout.
LEMMA BridgeInduction == Spec => []BridgeInv
<1>1. Init => BridgeInv
  BY DEF Init, BridgeInv, Carried, PictureIsTheFrames, RefusedForItsLayout
<1>2. BridgeInv /\ [Next]_vars => BridgeInv'
  <2> SUFFICES ASSUME BridgeInv, [Next]_vars PROVE BridgeInv'
    OBVIOUS
  <2>1. CASE ToBgrMat
    BY <2>1, ConversionKeeps
  <2>2. CASE ToFrame
    BY <2>2, WritingKeeps
  <2>3. CASE UNCHANGED vars
    BY <2>3 DEF vars, BridgeInv, Carried, Empty, PictureIsTheFrames, RefusedForItsLayout,
                Even, Canonical, HalfUp, sizeBytes, planeHeight
  <2> QED BY <2>1, <2>2, <2>3 DEF Next
<1> QED BY <1>1, <1>2, PTL DEF Spec

(***************************************************************************)
(* What is shown of a frame, and what the writer is handed of it, is the   *)
(* frame pixel for pixel, for frames of any size, in every format, with    *)
(* planes anywhere (toBgrMat, planarLumaChromaHeader, toFrame).            *)
(***************************************************************************)
THEOREM PictureFaithful == Spec => []PictureIsTheFrames
  BY BridgeInduction, PTL DEF BridgeInv

(***************************************************************************)
(* A frame is refused for its layout only: 4:2:0 with an odd side or not   *)
(* as the Frame constructor lays it out, or BGR8 rows with padding at the  *)
(* writer (the throws of planarLumaChromaHeader and toFrame).              *)
(***************************************************************************)
THEOREM LayoutRefused == Spec => []RefusedForItsLayout
  BY BridgeInduction, PTL DEF BridgeInv
==============================================================================
