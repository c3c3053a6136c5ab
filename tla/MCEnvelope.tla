------------------------------ MODULE MCEnvelope ------------------------------
(***************************************************************************)
(* Envelope over boxes of every position and size on small frames, two     *)
(* masks with every table of offsets, and polygons with every choice of    *)
(* three rings and with every table of offsets.                            *)
(***************************************************************************)
EXTENDS Envelope, TLC

Box(x, y, w, h) == <<x, y, w, h>>

Good(value) == [finite |-> TRUE, value |-> value]

NotFinite == [finite |-> FALSE, value |-> 0]

\* The tensors of every variant, for the boxes given.
Detections(n, boxes, scores) ==
  [name \in {"NUM_DETECTIONS", "BOXES", "SCORES", "CLASSES"} |->
     CASE name = "NUM_DETECTIONS" -> n
       [] name = "BOXES"          -> boxes
       [] name = "SCORES"         -> scores
       [] name = "CLASSES"        -> <<3, 4>>]

Without(answer_, name) ==
  [other \in DOMAIN answer_ \ {name} |-> answer_[other]]

Sequences(S, lengths) == UNION {[1 .. n -> S] : n \in lengths}

-----------------------------------------------------------------------------
AnyBox ==
  {Box(x, y, w, h) : x, y \in {-7, -2, 0, 1, 3, 7}, w, h \in {-1, 0, 1, 3, 7}}

TwoBoxes == Box(0, 0, 1, 1) \o Box(1, 0, 2, 2)

TwoGood == <<Good(0), Good(1)>>

\* Any one box; then a well-formed one with one thing wrong at a time.
BoxAnswers ==
  {Detections(<<1>>, box, <<score>>) : box \in AnyBox, score \in {Good(0)}}
    \cup {Detections(n, TwoBoxes, scores) :
            n \in {<<>>, <<-1>>, <<0>>, <<1>>, <<2>>, <<3>>, <<2, 9>>},
            scores \in Sequences({Good(-1), Good(0), NotFinite}, 0 .. 2)}
    \cup {Detections(<<2>>, SubSeq(TwoBoxes, 1, n), TwoGood) : n \in 0 .. 8}
    \cup {Without(Detections(<<2>>, TwoBoxes, TwoGood), name) :
            name \in {"NUM_DETECTIONS", "BOXES", "SCORES", "CLASSES"}}

BoxFrames == [width : {-1, 0, 1, 3}, height : {0, 2}]

-----------------------------------------------------------------------------
Bytes(n) == [k \in 1 .. n |-> k]

MaskAnswer(boxes, offsets, n) ==
  Detections(<<2>>, boxes, TwoGood)
    @@ ("MASK_OFFSETS" :> offsets) @@ ("MASK_DATA" :> Bytes(n))

\* A first box of any position and size, with its run; then any offsets.
MaskAnswers ==
  {MaskAnswer(Box(x, y, w, h) \o Box(0, 0, 1, 1), <<0, n, n + 1>>, n + 1) :
     x, y \in {-2, -1, 0, 1, 7}, w, h \in {-1, 0, 1, 2, 3, 4, 7}, n \in 0 .. 6}
    \cup {MaskAnswer(boxes, offsets, n) :
            boxes \in {TwoBoxes, Box(0, 0, 0, 5) \o Box(1, 1, 1, 2),
                       Box(0, 0, 4, 2) \o Box(0, 0, 1, 0)},
            offsets \in Sequences({-1, 0, 1, 2, 3, 5, 6}, 2 .. 3),
            n \in {0, 1, 2, 5, 6}}
    \cup {[MaskAnswer(TwoBoxes, offsets, 1) EXCEPT !["NUM_DETECTIONS"] = <<1>>] :
            offsets \in Sequences({0, 1}, 0 .. 3)}
    \cup {Without(MaskAnswer(TwoBoxes, <<0, 1, 5>>, 5), name) :
            name \in {"MASK_OFFSETS", "MASK_DATA"}}

MaskFrames == [width : {0, 2, 3}, height : {2}]

-----------------------------------------------------------------------------
At2(x, y) == <<x, y>>

Rectangle(x, y, w, h) == <<At2(x, y), At2(x + w, y), At2(x + w, y + h), At2(x, y + h)>>

\* An outer square, squares and a triangle inside it, one of them in another,
\* one of each around, beside and across it; turned both ways.
RingPool ==
  {Rectangle(0, 0, 6, 6), Rectangle(1, 1, 4, 4), Rectangle(2, 2, 1, 1),
   Rectangle(4, 1, 1, 4), Rectangle(7, 0, 2, 6), Rectangle(-1, -1, 9, 9),
   Rectangle(4, 4, 4, 4), <<At2(1, 5), At2(3, 1), At2(5, 5)>>,
   <<At2(3, 0), At2(0, 3), At2(3, 6), At2(6, 3)>>,
   <<At2(5, 5), At2(5, 1), At2(1, 1), At2(1, 5)>>,
   <<At2(6, 2), At2(2, 4), At2(2, 2)>>}

Flat(points) ==
  [k \in 1 .. 2 * Len(points) |->
     IF k % 2 = 1 THEN points[(k + 1) \div 2][1] ELSE points[k \div 2][2]]

PolygonAnswer(instances, offsets, points) ==
  Detections(<<2>>, TwoBoxes, TwoGood)
    @@ ("INSTANCE_RING_OFFSETS" :> instances)
    @@ ("RING_POINT_OFFSETS" :> offsets) @@ ("POLYGON_POINTS" :> points)

\* Three rings, the first two or all three of the first detection.
RingAnswers ==
  {LET n == Len(a)  m == n + Len(b)
   IN  PolygonAnswer(<<0, first, 3>>, <<0, n, m, m + Len(c)>>,
                     Flat(a) \o Flat(b) \o Flat(c)) :
     a, b, c \in RingPool, first \in {2, 3}}

\* Any offsets, over points that make up two rings.
OffsetAnswers ==
  {PolygonAnswer(instances, offsets, 
                     SubSeq(Flat(Rectangle(0, 0, 2, 2) \o Rectangle(0, 0, 1, 1)), 1, n)) :
     instances \in Sequences({-1, 0, 1, 2}, 2 .. 3),
     offsets \in Sequences({-1, 0, 3, 4, 7}, 0 .. 3), n \in {0, 7, 14, 16}}

PolygonAnswers ==
  RingAnswers \cup OffsetAnswers
    \cup {Without(PolygonAnswer(<<0, 1, 1>>, <<0, 3>>, Bytes(6)), name) :
            name \in {"INSTANCE_RING_OFFSETS", "RING_POINT_OFFSETS", "POLYGON_POINTS"}}

PolygonFrames == {[width |-> 4, height |-> 3]}

AllRequests ==
  [variant : {"Detection"}, answer : BoxAnswers, frame : BoxFrames]
    \cup [variant : {"Mask"}, answer : MaskAnswers, frame : MaskFrames]
    \cup [variant : {"Polygon"}, answer : PolygonAnswers, frame : PolygonFrames]
    \cup [variant : {"Mask", "Polygon"}, answer : {Detections(<<1>>, TwoBoxes, TwoGood)},
          frame : PolygonFrames]
=============================================================================
