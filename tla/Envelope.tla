-------------------------------- MODULE Envelope --------------------------------
(***************************************************************************)
(* Decoding the tensors of a server-side postprocessing ensemble into      *)
(* results (app/inc/KserveEnvelope.hpp), one call of decodeEnvelope        *)
(* followed by filterByConfidence, as inferFrame makes them.  A detection  *)
(* is decoded per step, a ring of a polygon in a step of its own; a throw  *)
(* is pc = "failed".                                                       *)
(*                                                                         *)
(* An answer maps the names of the tensors it has, with the datatype the   *)
(* contract gives them, to their elements: a tensor that is missing or of  *)
(* another type is refused alike, and the bytes of half an element are     *)
(* beyond every read.  A score is finite or not and counts hundredths, as  *)
(* the label does.  Coordinates are exact in float up to 2^24.             *)
(***************************************************************************)
EXTENDS Integers, Sequences, FiniteSets

CONSTANTS
  Requests,       \* [variant, answer, frame]: the envelope the run is set up
                  \* for, what the server answers, and the size of the frame,
                  \* [width, height], 0 when not known
  MaxDetections,  \* kEnvelopeMaxDetections: 100 in the code
  MaxInt,         \* INT32_MAX
  MaxSize,        \* the maximum of size_t
  Threshold       \* --min_confidence, in hundredths

Prefixes == {"MASK_OFFSETS", "INSTANCE_RING_OFFSETS"}

Numbers ==
  Prefixes \cup {"NUM_DETECTIONS", "BOXES", "CLASSES", "MASK_DATA",
                 "RING_POINT_OFFSETS", "POLYGON_POINTS"}

Variants == {"Detection", "Mask", "Polygon"}

Answers == {c.answer : c \in Requests}

Frames == {c.frame : c \in Requests}

ASSUME EnvelopeAssumption ==
  /\ MaxDetections \in Nat /\ MaxInt \in Nat /\ MaxSize \in Nat /\ Threshold \in Int
  /\ \A a \in Answers :
       /\ \A name \in DOMAIN a \cap Numbers : a[name] \in Seq(Int)
       /\ "SCORES" \in DOMAIN a => a["SCORES"] \in Seq([finite : BOOLEAN, value : Int])
       /\ \A name \in DOMAIN a \cap Prefixes :
            \A k \in DOMAIN a[name] : a[name][k] <= MaxSize
  /\ \A c \in Requests : c.variant \in Variants
  /\ \A f \in Frames : f.width \in Int /\ f.height \in Int

VARIABLES
  variant,   \* pipeline.envelope_variant
  answer,    \* lastRawOutputs
  frame,     \* frame.cols and frame.rows
  pc,        \* the next step
  count,     \* readDetectionCount
  i,         \* the detection in hand
  mask,      \* its mask image, NoMask before it is placed and without one
  ring,      \* its next ring
  last_ring, \* one past its last ring
  polygons,  \* its polygons so far
  results,   \* the detections decoded
  examined,  \* how many of them filterByConfidence has looked at
  kept       \* what it returns

input == <<variant, answer, frame>>
detection == <<mask, ring, last_ring, polygons>>
filter == <<examined, kept>>
vars == <<input, pc, count, i, detection, results, filter>>

NoMask == <<>>

Init ==
  /\ \E c \in Requests : variant = c.variant /\ answer = c.answer /\ frame = c.frame
  /\ pc = "count"
  /\ count = 0
  /\ i = 0
  /\ mask = NoMask
  /\ ring = 0 /\ last_ring = 0
  /\ polygons = <<>>
  /\ results = <<>>
  /\ examined = 0
  /\ kept = <<>>

-----------------------------------------------------------------------------
(***************************************************************************)
(* Reading tensors.                                                        *)
(***************************************************************************)
\* envelopeValueAt, where it does not throw.
At(name, k) == answer[name][k + 1]

Holds(name, k) == k < Len(answer[name])

\* The tensors a decoder requires.
Required ==
  {"BOXES", "SCORES", "CLASSES"}
    \cup CASE variant = "Mask"    -> {"MASK_OFFSETS", "MASK_DATA"}
           [] variant = "Polygon" -> {"INSTANCE_RING_OFFSETS", "RING_POINT_OFFSETS",
                                      "POLYGON_POINTS"}
           [] OTHER               -> {}

\* The prefix-sum tensor of a decoder, and whether it has one.
PrefixOf == IF variant = "Mask" THEN "MASK_OFFSETS" ELSE "INSTANCE_RING_OFFSETS"

HasPrefix == variant # "Detection"

\* A box as the server sent it.
Sent(k) ==
  [x |-> At("BOXES", 4 * k), y |-> At("BOXES", 4 * k + 1),
   width |-> At("BOXES", 4 * k + 2), height |-> At("BOXES", 4 * k + 3)]

-----------------------------------------------------------------------------
(***************************************************************************)
(* Boxes and masks.                                                        *)
(***************************************************************************)
Clamp(n, low, high) == IF n < low THEN low ELSE IF n > high THEN high ELSE n

NonNegative(n) == IF n < 0 THEN 0 ELSE n

Known == frame.width > 0 /\ frame.height > 0

\* Mutant: the extents are clamped, not the corners.
clampBoxToFrame_Extents(box) ==
  IF ~Known THEN box
  ELSE [x      |-> Clamp(box.x, 0, frame.width),
        y      |-> Clamp(box.y, 0, frame.height),
        width  |-> Clamp(box.width, 0, frame.width - Clamp(box.x, 0, frame.width)),
        height |-> Clamp(box.height, 0, frame.height - Clamp(box.y, 0, frame.height))]

clampBoxToFrame(box) ==
  IF ~Known THEN box
  ELSE LET left   == Clamp(box.x, 0, frame.width)
           top    == Clamp(box.y, 0, frame.height)
           right  == Clamp(box.x + NonNegative(box.width), 0, frame.width)
           bottom == Clamp(box.y + NonNegative(box.height), 0, frame.height)
       IN  [x |-> left, y |-> top, width |-> right - left, height |-> bottom - top]

HasArea(box) == box.width > 0 /\ box.height > 0

\* The product does not fit size_t.
TooLarge(box) == HasArea(box) /\ box.width > MaxSize \div box.height

\* The bytes a box needs, in size_t.
Expected(box) ==
  IF HasArea(box) THEN (box.width * box.height) % (MaxSize + 1) ELSE 0

RunFills(run, box) == Len(run) = Expected(box)

\* The rows and columns of a mask, and which byte of its run is at one.
Cells(box) == (0 .. box.height - 1) \X (0 .. box.width - 1)

Byte(box, cell) == cell[1] * box.width + cell[2] + 1

\* Where in the image it is written.
Target(box, cell) == (box.y + cell[1]) * frame.width + box.x + cell[2]

\* Mutant: columns beyond the frame are not left out.
OnFrame_Rows(box, cell) ==
  Target(box, cell) \in 0 .. frame.width * frame.height - 1

OnFrame(box, cell) ==
  /\ box.y + cell[1] \in 0 .. frame.height - 1
  /\ box.x + cell[2] \in 0 .. frame.width - 1

Writes(box, k) == {cell \in Cells(box) : OnFrame(box, cell) /\ Target(box, cell) = k}

\* The frame-sized image of a run, zero where nothing is written.
Placed(box, run) ==
  [k \in 0 .. frame.width * frame.height - 1 |->
     IF Writes(box, k) = {} THEN 0
     ELSE run[Byte(box, CHOOSE cell \in Writes(box, k) : TRUE)]]

-----------------------------------------------------------------------------
(***************************************************************************)
(* Rings.                                                                  *)
(***************************************************************************)
Previous(points, c) == IF c = 1 THEN points[Len(points)] ELSE points[c - 1]

\* The edge that ends at point c crosses the ray from p to the right.
Crosses(points, c, p) ==
  LET a  == points[c]
      b  == Previous(points, c)
      dy == b.y - a.y
      nx == (b.x - a.x) * (p.y - a.y)
  IN  /\ (a.y > p.y) # (b.y > p.y)
      /\ IF dy > 0 THEN (p.x - a.x) * dy < nx ELSE (p.x - a.x) * dy > nx

\* Mutant: the bounding box of the ring will do.
pointInsideRing_Bounds(points, p) ==
  /\ \E a, b \in DOMAIN points : points[a].x <= p.x /\ p.x < points[b].x
  /\ \E a, b \in DOMAIN points : points[a].y <= p.y /\ p.y < points[b].y

\* Even-odd.
pointInsideRing(points, p) ==
  Cardinality({c \in DOMAIN points : Crosses(points, c, p)}) % 2 = 1

\* The points of a ring.
Points(r) ==
  LET begin == At("RING_POINT_OFFSETS", r)
  IN  [c \in 1 .. At("RING_POINT_OFFSETS", r + 1) - begin |->
         [x |-> At("POLYGON_POINTS", 2 * (begin + c - 1)),
          y |-> At("POLYGON_POINTS", 2 * (begin + c - 1) + 1)]]

\* The polygons whose exterior the ring starts in; the first of them takes it.
Containers(points) ==
  {p \in DOMAIN polygons : pointInsideRing(polygons[p].exterior, points[1])}

AddRing(points) ==
  IF Containers(points) = {}
  THEN Append(polygons, [exterior |-> points, holes |-> <<>>])
  ELSE LET p == CHOOSE q \in Containers(points) :
                  \A other \in Containers(points) : q <= other
       IN  [polygons EXCEPT ![p].holes = Append(@, points)]

-----------------------------------------------------------------------------
(***************************************************************************)
(* The steps.                                                              *)
(***************************************************************************)
\* Goes on to a step if all is well and throws otherwise.
Step(from, ok, to) == pc = from /\ pc' = IF ok THEN to ELSE "failed"

ReadDetectionCount ==
  LET ok == /\ "NUM_DETECTIONS" \in DOMAIN answer
            /\ Holds("NUM_DETECTIONS", 0)
            /\ At("NUM_DETECTIONS", 0) \in 0 .. MaxDetections
  IN  /\ Step("count", ok, "open")
      /\ count' = IF ok THEN At("NUM_DETECTIONS", 0) ELSE count
      /\ UNCHANGED <<input, i, detection, results, filter>>

\* Mutant: the table of offsets may end with the last detection.
TableIsWhole_Counted == Len(answer[PrefixOf]) >= count + 1

\* The table of offsets has its full length, whatever the count.
TableIsWhole == Len(answer[PrefixOf]) >= MaxDetections + 1

OpenTensors ==
  LET ok == /\ Required \subseteq DOMAIN answer
            /\ HasPrefix => TableIsWhole /\ At(PrefixOf, 0) = 0
  IN  /\ Step("open", ok, "box")
      /\ UNCHANGED <<input, count, i, detection, results, filter>>

\* The box, the score and the class of the detection in hand are there.
ReadDetection ==
  LET ok == /\ Holds("BOXES", 4 * i + 3)
            /\ Holds("SCORES", i)
            /\ At("SCORES", i).finite
            /\ Holds("CLASSES", i)
  IN  /\ i < count
      /\ Step("box", ok, CASE variant = "Detection" -> "emplace"
                           [] variant = "Mask"      -> "mask"
                           [] variant = "Polygon"   -> "rings")
      /\ UNCHANGED <<input, count, i, detection, results, filter>>

InsideMaskData(begin, end) ==
  begin >= 0 /\ end >= begin /\ end % (MaxSize + 1) <= Len(answer["MASK_DATA"])

\* The run of bytes of a detection.
Run(k) == SubSeq(answer["MASK_DATA"], At("MASK_OFFSETS", k) + 1, At("MASK_OFFSETS", k + 1))

DecodeMask ==
  LET ok == /\ InsideMaskData(At("MASK_OFFSETS", i), At("MASK_OFFSETS", i + 1))
            /\ ~TooLarge(Sent(i))
            /\ RunFills(Run(i), Sent(i))
  IN  /\ Step("mask", ok, "emplace")
      /\ mask' = IF ok /\ Expected(Sent(i)) > 0 /\ Known
                 THEN Placed(Sent(i), Run(i)) ELSE NoMask
      /\ UNCHANGED <<input, count, i, ring, last_ring, polygons, results, filter>>

RingsInside(first, last) ==
  0 <= first /\ first <= last /\ last < Len(answer["RING_POINT_OFFSETS"])

ReadRingRange ==
  LET first == At("INSTANCE_RING_OFFSETS", i)
      last  == At("INSTANCE_RING_OFFSETS", i + 1)
  IN  /\ Step("rings", RingsInside(first, last), "ring")
      /\ ring' = first
      /\ last_ring' = last
      /\ UNCHANGED <<input, count, i, mask, polygons, results, filter>>

PointsInside(begin, end) ==
  0 <= begin /\ begin <= end /\ end <= Len(answer["POLYGON_POINTS"]) \div 2

WholeRing(begin, end) == end - begin >= 3

DecodeRing ==
  LET begin == At("RING_POINT_OFFSETS", ring)
      end   == At("RING_POINT_OFFSETS", ring + 1)
      ok    == PointsInside(begin, end) /\ WholeRing(begin, end)
  IN  /\ ring < last_ring
      /\ Step("ring", ok, "ring")
      /\ polygons' = IF ok THEN AddRing(Points(ring)) ELSE polygons
      /\ ring' = ring + 1
      /\ UNCHANGED <<input, count, i, mask, last_ring, results, filter>>

EndRings ==
  /\ ring = last_ring
  /\ Step("ring", TRUE, "emplace")
  /\ UNCHANGED <<input, count, i, detection, results, filter>>

\* results.emplace_back, after the box is clamped.
Emplace ==
  /\ Step("emplace", TRUE, "box")
  /\ results' = Append(results,
       [detection |-> i,
        box       |-> clampBoxToFrame(Sent(i)),
        score     |-> At("SCORES", i).value,
        class     |-> At("CLASSES", i),
        run       |-> IF variant = "Mask" THEN Run(i) ELSE <<>>,
        mask      |-> mask,
        polygons  |-> polygons])
  /\ i' = i + 1
  /\ mask' = NoMask
  /\ polygons' = <<>>
  /\ UNCHANGED <<input, count, ring, last_ring, filter>>

EndDetections ==
  /\ i = count
  /\ Step("box", TRUE, "filter")
  /\ UNCHANGED <<input, count, i, detection, results, filter>>

Below(result) == result.score < Threshold

filterByConfidence ==
  /\ examined < Len(results)
  /\ Step("filter", TRUE, "filter")
  /\ examined' = examined + 1
  /\ kept' = IF Below(results[examined + 1]) THEN kept
             ELSE Append(kept, results[examined + 1])
  /\ UNCHANGED <<input, count, i, detection, results>>

EndFilter ==
  /\ examined = Len(results)
  /\ Step("filter", TRUE, "done")
  /\ UNCHANGED <<input, count, i, detection, results, filter>>

\* inferFrame has its results, or the decoder has thrown.
Ended == pc \in {"done", "failed"} /\ UNCHANGED vars

Next ==
  \/ ReadDetectionCount \/ OpenTensors \/ ReadDetection \/ DecodeMask
  \/ ReadRingRange \/ DecodeRing \/ EndRings \/ Emplace \/ EndDetections
  \/ filterByConfidence \/ EndFilter \/ Ended

Spec == Init /\ [][Next]_vars

-----------------------------------------------------------------------------
(***************************************************************************)
(* Properties.                                                             *)
(***************************************************************************)
PC == {"count", "open", "box", "mask", "rings", "ring", "emplace", "filter",
       "done", "failed"}

\* What the variables hold: a pc of the variant's own decoder, a detection in
\* range, an image of the frame's size, rings of three points or more.
\* (The whole of the decoders.)
TypeOK ==
  /\ variant \in {"Detection", "Mask", "Polygon"}
  /\ pc \in PC
  /\ pc = "mask" => variant = "Mask"
  /\ pc \in {"rings", "ring"} => variant = "Polygon"
  /\ count \in 0 .. MaxDetections
  /\ i \in 0 .. count
  /\ mask # NoMask => DOMAIN mask = 0 .. frame.width * frame.height - 1
  /\ \A p \in DOMAIN polygons : Len(polygons[p].exterior) >= 3
  /\ Len(results) = i
  /\ examined \in 0 .. i /\ Len(kept) <= examined

\* x, y is a pixel of the box.
In(box, x, y) ==
  /\ box.x <= x /\ x < box.x + box.width
  /\ box.y <= y /\ y < box.y + box.height

\* A box with the frame known lies in the frame and covers just the pixels of
\* the frame that the server's box covers, wherever that lies.
\* (clampBoxToFrame, and that masks and filtering leave boxes alone.)
BoxesAreTheVisiblePart ==
  Known =>
    \A r \in DOMAIN results :
      LET box == results[r].box
      IN  /\ box.x >= 0 /\ box.width >= 0 /\ box.x + box.width <= frame.width
          /\ box.y >= 0 /\ box.height >= 0 /\ box.y + box.height <= frame.height
          /\ \A x \in 0 .. frame.width - 1, y \in 0 .. frame.height - 1 :
               In(box, x, y) <=> In(Sent(results[r].detection), x, y)

\* A mask shows at each pixel of its box the byte the contract puts there and
\* nothing outside: its origin is the box as sent, not as clamped.
\* (The placement loop of decodeMaskEnvelope, with its flat index.)
MasksShowTheirRun ==
  \A r \in DOMAIN results :
    results[r].mask # NoMask =>
      LET sent == Sent(results[r].detection)
      IN  \A x \in 0 .. frame.width - 1, y \in 0 .. frame.height - 1 :
            results[r].mask[y * frame.width + x] =
              IF In(sent, x, y)
              THEN results[r].run[(y - sent.y) * sent.width + (x - sent.x) + 1]
              ELSE 0

\* A decoded mask has as many bytes as its box has pixels, in unbounded
\* arithmetic: a renderer finds a byte for each.
\* (The overflow check and the length check of decodeMaskEnvelope.)
RunsFillTheirBoxes ==
  variant = "Mask" =>
    \A r \in DOMAIN results :
      LET sent == Sent(results[r].detection)
      IN  Len(results[r].run) = IF HasArea(sent) THEN sent.width * sent.height ELSE 0

\* An offset that is read is there to be read, and a range of rings stays in
\* the ring offsets with its sentinel.
\* (The bounds checks of decodePolygonEnvelope and decodeMaskEnvelope.)
OffsetsAreInside ==
  /\ pc \in {"mask", "rings"} => Holds(PrefixOf, i) /\ Holds(PrefixOf, i + 1)
  /\ pc = "ring" =>
       /\ 0 <= ring /\ ring <= last_ring
       /\ Holds("RING_POINT_OFFSETS", ring)
       /\ ring < last_ring => Holds("RING_POINT_OFFSETS", ring + 1)

-----------------------------------------------------------------------------
\* The contract an answer has to meet, as a whole.
ConformsMasks(n) ==
  LET offset == answer["MASK_OFFSETS"]
  IN  /\ Len(offset) > MaxDetections
      /\ offset[1] = 0
      /\ \A k \in 1 .. n :
           LET sent == Sent(k - 1)
               area == IF HasArea(sent) THEN sent.width * sent.height ELSE 0
           IN  offset[k + 1] - offset[k] = area /\ area <= MaxSize
      /\ \A k \in 1 .. n + 1 : offset[k] \in 0 .. Len(answer["MASK_DATA"])

ConformsPolygons(n) ==
  LET rings  == answer["INSTANCE_RING_OFFSETS"]
      points == answer["RING_POINT_OFFSETS"]
  IN  /\ Len(rings) > MaxDetections
      /\ rings[1] = 0
      /\ \A k \in 1 .. n :
           /\ 0 <= rings[k] /\ rings[k] <= rings[k + 1] /\ rings[k + 1] < Len(points)
           /\ \A r \in rings[k] + 1 .. rings[k + 1] :
                /\ points[r] >= 0 /\ points[r + 1] - points[r] >= 3
                /\ 2 * points[r + 1] <= Len(answer["POLYGON_POINTS"])

Conforms ==
  /\ Required \cup {"NUM_DETECTIONS"} \subseteq DOMAIN answer
  /\ answer["NUM_DETECTIONS"] # <<>>
  /\ LET n == answer["NUM_DETECTIONS"][1]
     IN  /\ n \in 0 .. MaxDetections
         /\ 4 * n <= Len(answer["BOXES"])
         /\ n <= Len(answer["SCORES"]) /\ \A k \in 1 .. n : answer["SCORES"][k].finite
         /\ n <= Len(answer["CLASSES"])
         /\ CASE variant = "Mask"    -> ConformsMasks(n)
              [] variant = "Polygon" -> ConformsPolygons(n)
              [] OTHER               -> TRUE

\* Decoding succeeds on just the answers that meet the contract: checks made
\* one detection at a time refuse no more and no less.
\* (Every throw of the three decoders.)
RefusedIfMalformed ==
  /\ pc = "done" => Conforms
  /\ pc = "failed" => ~Conforms

\* Every detection of the answer at or above the threshold is in the results,
\* once and in order, and no other.
\* (The loops over detections and filterByConfidence.)
ResultsAreTheConfident ==
  pc = "done" =>
    /\ {kept[r].detection : r \in DOMAIN kept} =
         {k \in 0 .. count - 1 : At("SCORES", k).value >= Threshold}
    /\ \A r \in DOMAIN kept : kept[r] = results[kept[r].detection + 1]
    /\ \A r, s \in DOMAIN kept : r < s => kept[r].detection < kept[s].detection

-----------------------------------------------------------------------------
\* Twice the area of the triangle a, b, p, with a sign.
Turn(a, b, p) == (b.x - a.x) * (p.y - a.y) - (b.y - a.y) * (p.x - a.x)

Turns(points, p) ==
  {Turn(Previous(points, c), points[c], p) : c \in DOMAIN points}

\* p lies strictly inside, or strictly outside, a convex ring.
StrictlyInside(points, p) ==
  (\A t \in Turns(points, p) : t > 0) \/ (\A t \in Turns(points, p) : t < 0)

StrictlyOutside(points, p) ==
  \E s, t \in Turns(points, p) : s < 0 /\ t > 0

\* The index before c, around the ring.
Before(points, c) == IF c = 1 THEN Len(points) ELSE c - 1

\* Every edge has all the other points on one and the same side.
Convex(points) ==
  \E side \in {-1, 1} :
    \A c \in DOMAIN points : \A k \in DOMAIN points \ {c, Before(points, c)} :
      side * Turn(Previous(points, c), points[c], points[k]) > 0

RingsOf(k) ==
  {Points(r) : r \in At("INSTANCE_RING_OFFSETS", k)
                       .. At("INSTANCE_RING_OFFSETS", k + 1) - 1}

Rings(polygon) ==
  {polygon.exterior} \cup {polygon.holes[h] : h \in DOMAIN polygon.holes}

\* Every ring of a detection is in its polygons, and each plays its part: a
\* hole lies in its exterior, and no exterior lies in an earlier one, wherever
\* that is convex; a ring that starts on another's edge may go either way.
\* (pointInsideRing and the search for the owner in decodePolygonEnvelope.)
RingsPlayTheirPart ==
  variant = "Polygon" =>
    \A r \in DOMAIN results :
      LET ps == results[r].polygons
      IN  /\ UNION {Rings(ps[p]) : p \in DOMAIN ps} = RingsOf(results[r].detection)
          /\ \A p \in DOMAIN ps : Convex(ps[p].exterior) =>
               /\ \A h \in DOMAIN ps[p].holes :
                    ~StrictlyOutside(ps[p].exterior, ps[p].holes[h][1])
               /\ \A q \in DOMAIN ps :
                    p < q => ~StrictlyInside(ps[p].exterior, ps[q].exterior[1])
=============================================================================
