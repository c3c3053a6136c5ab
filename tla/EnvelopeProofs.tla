---------------------------- MODULE EnvelopeProofs ----------------------------
(***************************************************************************)
(* Proofs about Envelope, for every answer, frame size, threshold and      *)
(* width of size_t: an answer is decoded if and only if it meets the       *)
(* contract, and what is decoded are its detections, with boxes clamped to *)
(* what can be seen of them, every byte of a mask at its pixel and every   *)
(* ring where it belongs.                                                  *)
(***************************************************************************)
EXTENDS Envelope, FiniteSetTheorems, WellFoundedInduction, TLAPS

-----------------------------------------------------------------------------
(***************************************************************************)
(* Arithmetic.                                                             *)
(***************************************************************************)
\* A product grows with its first factor.
LEMMA TimesMonotone ==
  ASSUME NEW a \in Nat, NEW b \in Nat, NEW h \in Nat, a <= b
  PROVE  a * h <= b * h
<1>. DEFINE d == b - a
<1>1. d \in Nat /\ b = a + d
  OBVIOUS
<1>2. b * h = a * h + d * h
  BY <1>1
<1>3. d * h \in Nat /\ a * h \in Nat
  BY <1>1
<1>. QED
  BY <1>2, <1>3

\* The area of a box fits size_t just if its width is at most the quotient.
LEMMA AreaFits ==
  ASSUME NEW w \in Nat \ {0}, NEW h \in Nat \ {0}, NEW m \in Nat
  PROVE  w <= m \div h <=> w * h <= m
<1>. DEFINE q == m \div h
<1>1. q \in Nat /\ q * h <= m /\ m < (q + 1) * h
  BY SMTT(30)
<1>2. w <= q => w * h <= m
  <2>. SUFFICES ASSUME w <= q PROVE w * h <= m
    OBVIOUS
  <2>1. w * h <= q * h
    BY <1>1, TimesMonotone
  <2>2. w * h \in Nat /\ q * h \in Nat
    BY <1>1
  <2>. QED
    BY <1>1, <2>1, <2>2
<1>3. ~(w <= q) => ~(w * h <= m)
  <2>. SUFFICES ASSUME ~(w <= q) PROVE ~(w * h <= m)
    OBVIOUS
  <2>0. q + 1 \in Nat /\ q + 1 <= w
    BY <1>1
  <2>1. (q + 1) * h <= w * h
    BY <2>0, TimesMonotone
  <2>2. w * h \in Nat /\ (q + 1) * h \in Nat
    BY <1>1
  <2>. QED
    BY <1>1, <2>1, <2>2
<1>. QED
  BY <1>2, <1>3

\* A flat index has one row and one column.
LEMMA FlatIndexUnique ==
  ASSUME NEW w \in Nat, NEW a \in Nat, NEW c \in Nat,
         NEW b \in 0 .. w - 1, NEW d \in 0 .. w - 1,
         a * w + b = c * w + d
  PROVE  a = c /\ b = d
<1>1. ASSUME NEW p \in Nat, NEW q \in Nat, NEW r \in 0 .. w - 1, NEW s \in 0 .. w - 1,
             p * w + r = q * w + s
      PROVE  ~(p < q)
  <2>1. SUFFICES ASSUME p < q PROVE FALSE
    OBVIOUS
  <2>2. (p + 1) * w <= q * w
    BY <2>1, TimesMonotone
  <2>3. (p + 1) * w = p * w + w
    OBVIOUS
  <2>4. p * w \in Nat /\ q * w \in Nat
    OBVIOUS
  <2>. HIDE <2>1
  <2>. QED
    BY <1>1, <2>2, <2>3, <2>4
<1>2. a = c
  BY <1>1
<1>3. a * w \in Nat
  OBVIOUS
<1>. QED
  BY <1>2, <1>3

\* A flat index lies in the image.
LEMMA FlatIndexInside ==
  ASSUME NEW w \in Nat, NEW h \in Nat, NEW y \in 0 .. h - 1, NEW x \in 0 .. w - 1
  PROVE  y * w + x \in 0 .. w * h - 1
<1>1. (y + 1) * w <= h * w
  BY TimesMonotone
<1>2. (y + 1) * w = y * w + w /\ h * w = w * h
  OBVIOUS
<1>3. y * w \in Nat /\ w * h \in Nat
  OBVIOUS
<1>. QED
  BY <1>1, <1>2, <1>3

-----------------------------------------------------------------------------
(***************************************************************************)
(* Sequences whose elements may be anything.                               *)
(***************************************************************************)
IsSeq(s) == \E S : s \in Seq(S)

\* The empty sequence.
LEMMA EmptyIsSeq == IsSeq(<<>>) /\ Len(<<>>) = 0
<1>1. <<>> \in Seq({})
  OBVIOUS
<1>. QED
  BY <1>1 DEF IsSeq

\* A sequence with one more element.
LEMMA AppendIsSeq ==
  ASSUME NEW s, NEW e, IsSeq(s)
  PROVE  /\ Len(s) \in Nat /\ DOMAIN s = 1 .. Len(s)
         /\ IsSeq(Append(s, e))
         /\ Len(Append(s, e)) = Len(s) + 1
         /\ DOMAIN Append(s, e) = 1 .. Len(s) + 1
         /\ \A k \in 1 .. Len(s) : Append(s, e)[k] = s[k]
         /\ Append(s, e)[Len(s) + 1] = e
<1>1. PICK S : s \in Seq(S)
  BY DEF IsSeq
<1>. DEFINE T == S \cup {e}
<1>2. s \in Seq(T)
  BY <1>1
<1>3. e \in T
  OBVIOUS
<1>. HIDE DEF T
<1>4. Append(s, e) \in Seq(T)
  BY <1>2, <1>3
<1>. QED
  BY <1>2, <1>3, <1>4 DEF IsSeq

-----------------------------------------------------------------------------
(***************************************************************************)
(* What an answer holds.                                                   *)
(***************************************************************************)
\* A tensor of numbers, and what is read of it within its length.
LEMMA Elements ==
  ASSUME answer \in Answers, NEW name \in Numbers, name \in DOMAIN answer
  PROVE  /\ answer[name] \in Seq(Int) /\ Len(answer[name]) \in Nat
         /\ \A k \in Nat : Holds(name, k) => At(name, k) \in Int
<1>1. answer[name] \in Seq(Int)
  BY EnvelopeAssumption
<1>. QED
  BY <1>1 DEF Holds, At

\* The scores that are read are scores.
LEMMA ScoreElements ==
  ASSUME answer \in Answers, "SCORES" \in DOMAIN answer
  PROVE  /\ Len(answer["SCORES"]) \in Nat
         /\ \A k \in Nat : Holds("SCORES", k) =>
              At("SCORES", k).finite \in BOOLEAN /\ At("SCORES", k).value \in Int
<1>. DEFINE Score == [finite : BOOLEAN, value : Int]
<1>1. answer["SCORES"] \in Seq(Score)
  BY EnvelopeAssumption
<1>. HIDE DEF Score
<1>2. ASSUME NEW k \in Nat, Holds("SCORES", k)
      PROVE  answer["SCORES"][k + 1] \in Score
  <2>1. k + 1 \in 1 .. Len(answer["SCORES"])
    BY <1>1, <1>2 DEF Holds
  <2>. QED
    BY <1>1, <2>1
<1>3. Len(answer["SCORES"]) \in Nat
  BY <1>1
<1>. QED
  BY <1>2, <1>3 DEF At, Score

IntBox == [x : Int, y : Int, width : Int, height : Int]

\* The box that is read has four whole coordinates.
LEMMA SentIsBox ==
  ASSUME answer \in Answers, "BOXES" \in DOMAIN answer,
         NEW k \in Nat, Holds("BOXES", 4 * k + 3)
  PROVE  Sent(k) \in IntBox
<1>1. "BOXES" \in Numbers
  BY DEF Numbers
<1>2. answer["BOXES"] \in Seq(Int) /\ Len(answer["BOXES"]) \in Nat
  BY <1>1, Elements
<1>3. \A d \in 0 .. 3 : At("BOXES", 4 * k + d) \in Int
  BY <1>2 DEF At, Holds
<1>4. /\ At("BOXES", 4 * k) \in Int /\ At("BOXES", 4 * k + 1) \in Int
      /\ At("BOXES", 4 * k + 2) \in Int /\ At("BOXES", 4 * k + 3) \in Int
  <2>1. 4 * k = 4 * k + 0
    OBVIOUS
  <2>. QED
    BY <1>3, <2>1
<1>. QED
  BY <1>4 DEF Sent, IntBox

\* Nothing that is derived from the input changes while it does not.
LEMMA InputDetermines ==
  ASSUME UNCHANGED input
  PROVE  /\ Required' = Required /\ PrefixOf' = PrefixOf /\ HasPrefix' = HasPrefix
         /\ TableIsWhole' = TableIsWhole /\ Known' = Known
         /\ \A name, k : Holds(name, k)' = Holds(name, k) /\ At(name, k)' = At(name, k)
         /\ \A k : Sent(k)' = Sent(k) /\ Run(k)' = Run(k)
         /\ \A box : clampBoxToFrame(box)' = clampBoxToFrame(box)
         /\ \A box, run : Placed(box, run)' = Placed(box, run)
<1>1. variant' = variant /\ answer' = answer /\ frame' = frame
  BY DEF input
<1>2. Required' = Required /\ PrefixOf' = PrefixOf /\ HasPrefix' = HasPrefix
  BY <1>1 DEF Required, PrefixOf, HasPrefix
<1>3. TableIsWhole' = TableIsWhole /\ Known' = Known
  BY <1>1, <1>2 DEF TableIsWhole, Known
<1>4. \A name, k : Holds(name, k)' = Holds(name, k) /\ At(name, k)' = At(name, k)
  BY <1>1 DEF Holds, At
<1>5. \A k : Sent(k)' = Sent(k) /\ Run(k)' = Run(k)
  BY <1>1 DEF Sent, Run, At
<1>6. \A box : clampBoxToFrame(box)' = clampBoxToFrame(box)
  BY <1>1 DEF clampBoxToFrame, Known
<1>7. \A box, run : Placed(box, run)' = Placed(box, run)
  BY <1>1 DEF Placed, Writes, OnFrame, Target
<1>. QED
  BY <1>2, <1>3, <1>4, <1>5, <1>6, <1>7

-----------------------------------------------------------------------------
(***************************************************************************)
(* The contract, a detection at a time as the decoders check it.           *)
(***************************************************************************)
InputOK == variant \in {"Detection", "Mask", "Polygon"} /\ answer \in Answers /\ frame \in Frames

Read(k) ==
  /\ Holds("BOXES", 4 * k + 3)
  /\ Holds("SCORES", k) /\ At("SCORES", k).finite
  /\ Holds("CLASSES", k)

MaskFits(k) ==
  /\ InsideMaskData(At("MASK_OFFSETS", k), At("MASK_OFFSETS", k + 1))
  /\ ~TooLarge(Sent(k))
  /\ Len(Run(k)) = Expected(Sent(k))

RingFits(r) ==
  /\ PointsInside(At("RING_POINT_OFFSETS", r), At("RING_POINT_OFFSETS", r + 1))
  /\ WholeRing(At("RING_POINT_OFFSETS", r), At("RING_POINT_OFFSETS", r + 1))

FirstRing(k) == At("INSTANCE_RING_OFFSETS", k)

RingsFit(k) ==
  /\ RingsInside(FirstRing(k), FirstRing(k + 1))
  /\ \A r \in FirstRing(k) .. FirstRing(k + 1) - 1 : RingFits(r)

Fits(k) ==
  /\ Read(k)
  /\ variant = "Mask" => MaskFits(k)
  /\ variant = "Polygon" => RingsFit(k)

Opened ==
  /\ Required \subseteq DOMAIN answer
  /\ HasPrefix => TableIsWhole /\ At(PrefixOf, 0) = 0

HasCount ==
  /\ "NUM_DETECTIONS" \in DOMAIN answer
  /\ Holds("NUM_DETECTIONS", 0)
  /\ At("NUM_DETECTIONS", 0) \in 0 .. MaxDetections

Accepted ==
  HasCount /\ Opened /\ \A k \in 0 .. At("NUM_DETECTIONS", 0) - 1 : Fits(k)

Area(box) == IF HasArea(box) THEN box.width * box.height ELSE 0

\* The overflow check accepts just the boxes whose area fits size_t, and the
\* bytes expected of those are their area.
LEMMA AreaIsExpected ==
  ASSUME NEW box \in IntBox
  PROVE  /\ Area(box) \in Nat
         /\ ~TooLarge(box) <=> Area(box) <= MaxSize
         /\ ~TooLarge(box) => Expected(box) = Area(box)
<1>0. MaxSize \in Nat
  BY EnvelopeAssumption
<1>1. CASE HasArea(box)
  <2>1. box.width \in Nat \ {0} /\ box.height \in Nat \ {0}
    BY <1>1 DEF HasArea, IntBox
  <2>. DEFINE w == box.width  h == box.height  a == w * h
  <2>2. a \in Nat
    BY <2>1
  <2>3. w <= MaxSize \div h <=> a <= MaxSize
    BY <1>0, <2>1, AreaFits
  <2>4. w > MaxSize \div h <=> ~(w <= MaxSize \div h)
    BY <1>0, <2>1
  <2>5. Area(box) = a /\ Expected(box) = a % (MaxSize + 1)
    BY <1>1 DEF Area, Expected
  <2>6. ~TooLarge(box) <=> w <= MaxSize \div h
    BY <1>1, <2>4 DEF TooLarge
  <2>. HIDE DEF a, w, h
  <2>7. a <= MaxSize => a % (MaxSize + 1) = a
    BY <1>0, <2>2
  <2>. QED
    BY <2>2, <2>3, <2>5, <2>6, <2>7
<1>2. CASE ~HasArea(box)
  BY <1>0, <1>2 DEF Area, TooLarge, Expected
<1>. QED
  BY <1>1, <1>2

\* A number below the modulus is its own remainder. (What fits a size_t.)
LEMMA SmallRemainder ==
  ASSUME NEW a \in Nat, NEW n \in Nat, a < n
  PROVE  a % n = a
OBVIOUS

\* The checks of one mask are those of the contract.
LEMMA MaskContract ==
  ASSUME answer \in Answers, {"MASK_OFFSETS", "MASK_DATA"} \subseteq DOMAIN answer,
         NEW k \in Nat, k + 2 <= Len(answer["MASK_OFFSETS"]), Sent(k) \in IntBox
  PROVE  LET offset == answer["MASK_OFFSETS"]
         IN  MaskFits(k) <=>
               /\ offset[k + 2] - offset[k + 1] = Area(Sent(k))
               /\ Area(Sent(k)) <= MaxSize
               /\ offset[k + 1] \in 0 .. Len(answer["MASK_DATA"])
               /\ offset[k + 2] \in 0 .. Len(answer["MASK_DATA"])
<1>. DEFINE b == answer["MASK_OFFSETS"][k + 1]
            e == answer["MASK_OFFSETS"][k + 2]
            size == Len(answer["MASK_DATA"])
            area == Area(Sent(k))
<1>1. "MASK_OFFSETS" \in Numbers /\ "MASK_DATA" \in Numbers /\ "MASK_OFFSETS" \in Prefixes
  BY DEF Numbers, Prefixes
<1>2. /\ answer["MASK_OFFSETS"] \in Seq(Int) /\ answer["MASK_DATA"] \in Seq(Int)
      /\ size \in Nat /\ MaxSize \in Nat
  BY <1>1, Elements, EnvelopeAssumption
<1>3. b \in Int /\ e \in Int
  BY <1>2
<1>4. e <= MaxSize
  <2>1. k + 2 \in DOMAIN answer["MASK_OFFSETS"]
    BY <1>2
  <2>. QED
    BY <1>1, <2>1, EnvelopeAssumption
<1>5. e >= 0 => e % (MaxSize + 1) = e
  <2>. HIDE DEF e
  <2>1. MaxSize + 1 \in Nat /\ (e >= 0 => e \in Nat /\ e < MaxSize + 1)
    BY <1>2, <1>3, <1>4
  <2>. QED
    BY <2>1, SmallRemainder
<1>6. At("MASK_OFFSETS", k) = b /\ At("MASK_OFFSETS", k + 1) = e
  <2>1. k + 1 + 1 = k + 2
    OBVIOUS
  <2>. QED
    BY <2>1 DEF At
<1>7. InsideMaskData(b, e) <=> b >= 0 /\ e >= b /\ e <= size
  <2>. HIDE DEF b, e
  <2>1. InsideMaskData(b, e) <=> b >= 0 /\ e >= b /\ e % (MaxSize + 1) <= size
    BY DEF InsideMaskData
  <2>2. b >= 0 /\ e >= b => e % (MaxSize + 1) = e
    <3>1. b >= 0 /\ e >= b => e >= 0
      BY <1>3
    <3>. QED
      BY <3>1, <1>5
  <2>. QED
    BY <2>1, <2>2
<1>8. b >= 0 /\ e >= b /\ e <= size => Len(Run(k)) = e - b
  <2>1. Run(k) = SubSeq(answer["MASK_DATA"], b + 1, e)
    BY <1>6 DEF Run
  <2>. HIDE DEF b, e
  <2>. QED
    BY <1>2, <1>3, <2>1
<1>9. /\ area \in Nat
      /\ ~TooLarge(Sent(k)) <=> area <= MaxSize
      /\ ~TooLarge(Sent(k)) => Expected(Sent(k)) = area
  BY AreaIsExpected
<1>10. MaskFits(k) <=> /\ InsideMaskData(b, e) /\ ~TooLarge(Sent(k))
                       /\ Len(Run(k)) = Expected(Sent(k))
  BY <1>6 DEF MaskFits
<1>. HIDE DEF b, e, area
<1>11. MaskFits(k) <=> /\ e - b = area /\ area <= MaxSize
                       /\ b \in 0 .. size /\ e \in 0 .. size
  BY <1>2, <1>3, <1>7, <1>8, <1>9, <1>10
<1>. QED
  BY <1>11 DEF b, e, area

\* The checks of one ring are those of the contract.
LEMMA RingContract ==
  ASSUME answer \in Answers,
         {"RING_POINT_OFFSETS", "POLYGON_POINTS"} \subseteq DOMAIN answer,
         NEW r \in Nat, r + 2 <= Len(answer["RING_POINT_OFFSETS"])
  PROVE  LET points == answer["RING_POINT_OFFSETS"]
         IN  RingFits(r) <=>
               /\ points[r + 1] >= 0 /\ points[r + 2] - points[r + 1] >= 3
               /\ 2 * points[r + 2] <= Len(answer["POLYGON_POINTS"])
<1>. DEFINE b == answer["RING_POINT_OFFSETS"][r + 1]
            e == answer["RING_POINT_OFFSETS"][r + 2]
            size == Len(answer["POLYGON_POINTS"])
<1>1. "RING_POINT_OFFSETS" \in Numbers /\ "POLYGON_POINTS" \in Numbers
  BY DEF Numbers
<1>2. answer["RING_POINT_OFFSETS"] \in Seq(Int) /\ size \in Nat
  BY <1>1, Elements
<1>3. b \in Int /\ e \in Int
  BY <1>2
<1>4. At("RING_POINT_OFFSETS", r) = b /\ At("RING_POINT_OFFSETS", r + 1) = e
  <2>1. r + 1 + 1 = r + 2
    OBVIOUS
  <2>. QED
    BY <2>1 DEF At
<1>5. RingFits(r) <=> PointsInside(b, e) /\ WholeRing(b, e)
  BY <1>4 DEF RingFits
<1>. HIDE DEF b, e
<1>6. PointsInside(b, e) /\ WholeRing(b, e) <=> b >= 0 /\ e - b >= 3 /\ 2 * e <= size
  BY <1>2, <1>3 DEF PointsInside, WholeRing
<1>. QED
  BY <1>5, <1>6 DEF b, e

\* Boxes, scores and classes are there for all detections just if they are
\* there for each.
LEMMA ReadContract ==
  ASSUME answer \in Answers, {"BOXES", "SCORES", "CLASSES"} \subseteq DOMAIN answer,
         NEW n \in Nat
  PROVE  (\A k \in 0 .. n - 1 : Read(k)) <=>
           /\ 4 * n <= Len(answer["BOXES"])
           /\ n <= Len(answer["SCORES"])
           /\ \A k \in 1 .. n : answer["SCORES"][k].finite
           /\ n <= Len(answer["CLASSES"])
<1>. DEFINE boxes == Len(answer["BOXES"])  scores == Len(answer["SCORES"])
            classes == Len(answer["CLASSES"])
            Finite(k) == answer["SCORES"][k].finite
<1>1. boxes \in Nat /\ scores \in Nat /\ classes \in Nat
  <2>1. "BOXES" \in Numbers /\ "CLASSES" \in Numbers
    BY DEF Numbers, Prefixes
  <2>. QED
    BY <2>1, Elements, ScoreElements
<1>2. \A k : Read(k) <=> /\ 4 * k + 3 < boxes /\ k < scores
                         /\ Finite(k + 1) /\ k < classes
  BY DEF Read, Holds, At
<1>. HIDE DEF boxes, scores, classes, Finite
<1>3. ASSUME \A k \in 0 .. n - 1 : Read(k)
      PROVE  /\ 4 * n <= boxes /\ n <= scores /\ n <= classes
             /\ \A k \in 1 .. n : Finite(k)
  <2>1. CASE n = 0
    BY <1>1, <2>1
  <2>2. CASE n # 0
    <3>1. Read(n - 1)
      BY <1>3, <2>2
    <3>2. ASSUME NEW k \in 1 .. n PROVE Finite(k)
      <4>1. Read(k - 1)
        BY <1>3
      <4>2. (k - 1) + 1 = k
        OBVIOUS
      <4>. QED
        BY <1>2, <4>1, <4>2
    <3>. QED
      BY <1>1, <1>2, <3>1, <3>2
  <2>. QED
    BY <2>1, <2>2
<1>4. ASSUME 4 * n <= boxes, n <= scores, n <= classes, \A k \in 1 .. n : Finite(k),
             NEW k \in 0 .. n - 1
      PROVE  Read(k)
  BY <1>1, <1>2, <1>4
<1>. QED
  BY <1>3, <1>4 DEF boxes, scores, classes, Finite

\* The checks of the masks one by one are those of the whole.
LEMMA MasksContract ==
  ASSUME answer \in Answers, {"MASK_OFFSETS", "MASK_DATA"} \subseteq DOMAIN answer,
         NEW n \in 0 .. MaxDetections, \A k \in 0 .. n - 1 : Sent(k) \in IntBox
  PROVE  ConformsMasks(n) <=>
           /\ Len(answer["MASK_OFFSETS"]) >= MaxDetections + 1
           /\ At("MASK_OFFSETS", 0) = 0
           /\ \A k \in 0 .. n - 1 : MaskFits(k)
<1>. DEFINE offset == answer["MASK_OFFSETS"]
            size == Len(answer["MASK_DATA"])
            Whole == Len(offset) > MaxDetections /\ offset[1] = 0
            Run1(k) == offset[k + 1] - offset[k] = Area(Sent(k - 1)) /\ Area(Sent(k - 1)) <= MaxSize
            Inside(k) == offset[k] \in 0 .. size
<1>1. ConformsMasks(n) <=> /\ Whole /\ \A k \in 1 .. n : Run1(k)
                           /\ \A k \in 1 .. n + 1 : Inside(k)
  BY DEF ConformsMasks, Area
<1>2. MaxDetections \in Nat /\ size \in Nat /\ Len(offset) \in Nat
  <2>1. "MASK_OFFSETS" \in Numbers /\ "MASK_DATA" \in Numbers
    BY DEF Numbers, Prefixes
  <2>. QED
    BY <2>1, Elements, EnvelopeAssumption
<1>3. Whole <=> Len(offset) >= MaxDetections + 1 /\ At("MASK_OFFSETS", 0) = 0
  BY <1>2 DEF At
<1>4. ASSUME Whole, NEW k \in 0 .. n - 1
      PROVE  MaskFits(k) <=> Run1(k + 1) /\ Inside(k + 1) /\ Inside(k + 2)
  <2>1. k \in Nat /\ k + 2 <= Len(offset) /\ Sent(k) \in IntBox
    BY <1>2, <1>4
  <2>2. (k + 1) + 1 = k + 2 /\ (k + 1) - 1 = k
    OBVIOUS
  <2>. QED
    BY <2>1, <2>2, MaskContract
<1>5. offset[1] = 0 => Inside(1)
  BY <1>2
<1>6. Whole => offset[1] = 0
  OBVIOUS
<1>. HIDE DEF Run1, Inside, Whole, size, offset
<1>7. ASSUME Whole, \A k \in 1 .. n : Run1(k), \A k \in 1 .. n + 1 : Inside(k),
             NEW k \in 0 .. n - 1
      PROVE  MaskFits(k)
  <2>1. k + 1 \in 1 .. n /\ k + 1 \in 1 .. n + 1 /\ k + 2 \in 1 .. n + 1
    OBVIOUS
  <2>. QED
    BY <1>4, <1>7, <2>1
<1>8. ASSUME Whole, \A k \in 0 .. n - 1 : MaskFits(k)
      PROVE  (\A k \in 1 .. n : Run1(k)) /\ (\A k \in 1 .. n + 1 : Inside(k))
  <2>1. ASSUME NEW k \in 1 .. n PROVE Run1(k) /\ Inside(k + 1)
    <3>1. k - 1 \in 0 .. n - 1 /\ (k - 1) + 1 = k /\ (k - 1) + 2 = k + 1
      OBVIOUS
    <3>2. MaskFits(k - 1)
      BY <1>8, <3>1
    <3>. QED
      BY <1>4, <1>8, <3>1, <3>2
  <2>2. ASSUME NEW k \in 1 .. n + 1 PROVE Inside(k)
    <3>1. CASE k = 1
      BY <1>5, <1>6, <1>8, <3>1
    <3>2. CASE k # 1
      <4>1. k - 1 \in 1 .. n /\ (k - 1) + 1 = k
        BY <3>2
      <4>. QED
        BY <2>1, <4>1
    <3>. QED
      BY <3>1, <3>2
  <2>. QED
    BY <2>1, <2>2
<1>. QED
  BY <1>1, <1>3, <1>7, <1>8 DEF offset

\* The checks of the rings one by one are those of the whole.
LEMMA PolygonsContract ==
  ASSUME answer \in Answers,
         {"INSTANCE_RING_OFFSETS", "RING_POINT_OFFSETS", "POLYGON_POINTS"}
           \subseteq DOMAIN answer,
         NEW n \in 0 .. MaxDetections
  PROVE  ConformsPolygons(n) <=>
           /\ Len(answer["INSTANCE_RING_OFFSETS"]) >= MaxDetections + 1
           /\ At("INSTANCE_RING_OFFSETS", 0) = 0
           /\ \A k \in 0 .. n - 1 : RingsFit(k)
<1>. DEFINE rings == answer["INSTANCE_RING_OFFSETS"]
            points == answer["RING_POINT_OFFSETS"]
            Whole == Len(rings) > MaxDetections /\ rings[1] = 0
            Range1(k) == 0 <= rings[k] /\ rings[k] <= rings[k + 1] /\ rings[k + 1] < Len(points)
            Ring1(r) == /\ points[r] >= 0 /\ points[r + 1] - points[r] >= 3
                        /\ 2 * points[r + 1] <= Len(answer["POLYGON_POINTS"])
            Rings1(k) == \A r \in rings[k] + 1 .. rings[k + 1] : Ring1(r)
<1>1. ConformsPolygons(n) <=> Whole /\ \A k \in 1 .. n : Range1(k) /\ Rings1(k)
  BY DEF ConformsPolygons
<1>2. /\ MaxDetections \in Nat /\ Len(rings) \in Nat /\ Len(points) \in Nat
      /\ rings \in Seq(Int)
  <2>1. "INSTANCE_RING_OFFSETS" \in Numbers /\ "RING_POINT_OFFSETS" \in Numbers
    BY DEF Numbers, Prefixes
  <2>. QED
    BY <2>1, Elements, EnvelopeAssumption
<1>3. Whole <=> Len(rings) >= MaxDetections + 1 /\ At("INSTANCE_RING_OFFSETS", 0) = 0
  BY <1>2 DEF At
<1>4. ASSUME Whole, NEW k \in 0 .. n - 1
      PROVE  RingsFit(k) <=> Range1(k + 1) /\ Rings1(k + 1)
  <2>. DEFINE first == rings[k + 1]  last == rings[k + 2]
  <2>1. first \in Int /\ last \in Int
    BY <1>2, <1>4
  <2>2. (k + 1) + 1 = k + 2
    OBVIOUS
  <2>3. FirstRing(k) = first /\ FirstRing(k + 1) = last
    BY <2>2 DEF FirstRing, At
  <2>4. RingsInside(first, last) <=> Range1(k + 1)
    BY <2>2 DEF RingsInside
  <2>5. RingsFit(k) <=> RingsInside(first, last) /\ \A r \in first .. last - 1 : RingFits(r)
    BY <2>3 DEF RingsFit
  <2>6. Rings1(k + 1) <=> \A r \in first + 1 .. last : Ring1(r)
    BY <2>2
  <2>7. RingsInside(first, last) <=> 0 <= first /\ first <= last /\ last < Len(points)
    BY DEF RingsInside
  <2>8. ASSUME RingsInside(first, last), NEW r \in first .. last - 1
        PROVE  RingFits(r) <=> Ring1(r + 1)
    <3>. HIDE DEF first, last
    <3>1. r \in Nat /\ r + 2 <= Len(points) /\ (r + 1) + 1 = r + 2
      BY <1>2, <2>1, <2>7, <2>8
    <3>2. RingFits(r) <=>
            /\ points[r + 1] >= 0 /\ points[r + 2] - points[r + 1] >= 3
            /\ 2 * points[r + 2] <= Len(answer["POLYGON_POINTS"])
      BY <3>1, RingContract
    <3>. QED
      BY <3>1, <3>2
  <2>. HIDE DEF first, last, Ring1, Rings1, Range1
  <2>9. ASSUME RingsInside(first, last)
        PROVE  (\A r \in first .. last - 1 : RingFits(r))
                 <=> (\A r \in first + 1 .. last : Ring1(r))
    <3>1. ASSUME \A r \in first .. last - 1 : RingFits(r), NEW r \in first + 1 .. last
          PROVE  Ring1(r)
      <4>1. r - 1 \in first .. last - 1 /\ (r - 1) + 1 = r
        BY <2>1
      <4>. QED
        BY <2>8, <2>9, <3>1, <4>1
    <3>2. ASSUME \A r \in first + 1 .. last : Ring1(r), NEW r \in first .. last - 1
          PROVE  RingFits(r)
      <4>1. r + 1 \in first + 1 .. last
        BY <2>1
      <4>. QED
        BY <2>8, <2>9, <3>2, <4>1
    <3>. QED
      BY <3>1, <3>2
  <2>. QED
    BY <2>4, <2>5, <2>6, <2>9
<1>. HIDE DEF Whole, Range1, Rings1, rings
<1>5. Whole => ((\A k \in 0 .. n - 1 : RingsFit(k))
                  <=> (\A k \in 1 .. n : Range1(k) /\ Rings1(k)))
  <2>1. ASSUME Whole, \A k \in 0 .. n - 1 : RingsFit(k), NEW k \in 1 .. n
        PROVE  Range1(k) /\ Rings1(k)
    <3>1. k - 1 \in 0 .. n - 1 /\ (k - 1) + 1 = k
      OBVIOUS
    <3>. QED
      BY <1>4, <2>1, <3>1
  <2>2. ASSUME Whole, \A k \in 1 .. n : Range1(k) /\ Rings1(k), NEW k \in 0 .. n - 1
        PROVE  RingsFit(k)
    <3>1. k + 1 \in 1 .. n
      OBVIOUS
    <3>. QED
      BY <1>4, <2>2, <3>1
  <2>. QED
    BY <2>1, <2>2
<1>. QED
  BY <1>1, <1>3, <1>5 DEF rings

\* The contract of a whole answer, and the checks of its detections in turn,
\* accept the same answers.
LEMMA ContractIsStepwise ==
  ASSUME InputOK
  PROVE  Conforms <=> Accepted
<1>. DEFINE n == At("NUM_DETECTIONS", 0)
<1>1. answer \in Answers /\ variant \in {"Detection", "Mask", "Polygon"}
  BY DEF InputOK
<1>2. "NUM_DETECTIONS" \in DOMAIN answer =>
        /\ answer["NUM_DETECTIONS"] # <<>> <=> Holds("NUM_DETECTIONS", 0)
        /\ n = answer["NUM_DETECTIONS"][1]
  <2>. SUFFICES ASSUME "NUM_DETECTIONS" \in DOMAIN answer
                PROVE  /\ answer["NUM_DETECTIONS"] # <<>> <=> Holds("NUM_DETECTIONS", 0)
                       /\ n = answer["NUM_DETECTIONS"][1]
    OBVIOUS
  <2>1. "NUM_DETECTIONS" \in Numbers
    BY DEF Numbers, Prefixes
  <2>2. answer["NUM_DETECTIONS"] \in Seq(Int)
    BY <1>1, <2>1, Elements
  <2>. QED
    BY <2>2 DEF Holds, At
<1>3. SUFFICES ASSUME HasCount, Required \subseteq DOMAIN answer
               PROVE  Conforms <=> Accepted
  BY <1>2 DEF Conforms, Accepted, HasCount, Opened
<1>4. n \in 0 .. MaxDetections /\ n \in Nat
  BY <1>3, EnvelopeAssumption DEF HasCount
<1>5. {"BOXES", "SCORES", "CLASSES"} \subseteq DOMAIN answer
  BY <1>3 DEF Required
<1>. DEFINE Reads == \A k \in 0 .. n - 1 : Read(k)
            Rest == CASE variant = "Mask"    -> ConformsMasks(n)
                      [] variant = "Polygon" -> ConformsPolygons(n)
                      [] OTHER               -> TRUE
<1>6. Conforms <=> Reads /\ Rest
  <2>1. Reads <=> /\ 4 * n <= Len(answer["BOXES"])
                  /\ n <= Len(answer["SCORES"])
                  /\ \A k \in 1 .. n : answer["SCORES"][k].finite
                  /\ n <= Len(answer["CLASSES"])
    BY <1>1, <1>4, <1>5, ReadContract
  <2>2. "NUM_DETECTIONS" \in DOMAIN answer /\ n = answer["NUM_DETECTIONS"][1]
        /\ answer["NUM_DETECTIONS"] # <<>>
    BY <1>2, <1>3 DEF HasCount
  <2>. HIDE DEF n, Reads
  <2>. QED
    BY <1>3, <1>4, <2>1, <2>2 DEF Conforms
<1>7. Accepted <=> /\ HasPrefix => TableIsWhole /\ At(PrefixOf, 0) = 0
                   /\ \A k \in 0 .. n - 1 : Fits(k)
  BY <1>3 DEF Accepted, Opened
<1>8. Reads => \A k \in 0 .. n - 1 : Sent(k) \in IntBox
  <2>. SUFFICES ASSUME Reads, NEW k \in 0 .. n - 1 PROVE Sent(k) \in IntBox
    OBVIOUS
  <2>1. k \in Nat /\ Holds("BOXES", 4 * k + 3)
    BY <1>4 DEF Read
  <2>. QED
    BY <1>1, <1>5, <2>1, SentIsBox
<1>. HIDE DEF n
<1>9. CASE variant = "Detection"
  <2>1. Rest /\ ~HasPrefix /\ \A k : Fits(k) <=> Read(k)
    BY <1>9 DEF HasPrefix, Fits
  <2>. QED
    BY <1>6, <1>7, <2>1
<1>10. CASE variant = "Mask"
  <2>1. /\ HasPrefix /\ PrefixOf = "MASK_OFFSETS" /\ (Rest <=> ConformsMasks(n))
        /\ \A k : Fits(k) <=> Read(k) /\ MaskFits(k)
    BY <1>10 DEF HasPrefix, PrefixOf, Fits
  <2>2. {"MASK_OFFSETS", "MASK_DATA"} \subseteq DOMAIN answer
    BY <1>3, <1>10 DEF Required
  <2>3. TableIsWhole <=> Len(answer["MASK_OFFSETS"]) >= MaxDetections + 1
    BY <2>1 DEF TableIsWhole
  <2>. HIDE DEF Rest
  <2>4. CASE Reads
    <3>1. ConformsMasks(n) <=>
           /\ Len(answer["MASK_OFFSETS"]) >= MaxDetections + 1
           /\ At("MASK_OFFSETS", 0) = 0
           /\ \A k \in 0 .. n - 1 : MaskFits(k)
      BY <1>1, <1>4, <1>8, <2>2, <2>4, MasksContract
    <3>. QED
      BY <1>6, <1>7, <2>1, <2>3, <2>4, <3>1
  <2>5. CASE ~Reads
    BY <1>6, <1>7, <2>1, <2>5
  <2>. QED
    BY <2>4, <2>5
<1>11. CASE variant = "Polygon"
  <2>1. /\ HasPrefix /\ PrefixOf = "INSTANCE_RING_OFFSETS"
        /\ (Rest <=> ConformsPolygons(n))
        /\ \A k : Fits(k) <=> Read(k) /\ RingsFit(k)
    BY <1>11 DEF HasPrefix, PrefixOf, Fits
  <2>2. {"INSTANCE_RING_OFFSETS", "RING_POINT_OFFSETS", "POLYGON_POINTS"}
           \subseteq DOMAIN answer
    BY <1>3, <1>11 DEF Required
  <2>3. TableIsWhole <=> Len(answer["INSTANCE_RING_OFFSETS"]) >= MaxDetections + 1
    BY <2>1 DEF TableIsWhole
  <2>4. ConformsPolygons(n) <=>
           /\ Len(answer["INSTANCE_RING_OFFSETS"]) >= MaxDetections + 1
           /\ At("INSTANCE_RING_OFFSETS", 0) = 0
           /\ \A k \in 0 .. n - 1 : RingsFit(k)
    BY <1>1, <1>4, <2>2, PolygonsContract
  <2>. HIDE DEF Rest
  <2>. QED
    BY <1>6, <1>7, <2>1, <2>3, <2>4
<1>. QED
  BY <1>1, <1>9, <1>10, <1>11

-----------------------------------------------------------------------------
(***************************************************************************)
(* The inductive invariant.                                                *)
(***************************************************************************)
MaskOf(k) ==
  IF variant = "Mask" /\ Expected(Sent(k)) > 0 /\ Known
  THEN Placed(Sent(k), Run(k)) ELSE NoMask

Decoded(k, result) ==
  /\ result.detection = k
  /\ result.box = clampBoxToFrame(Sent(k))
  /\ result.score = At("SCORES", k).value
  /\ result.run = IF variant = "Mask" THEN Run(k) ELSE <<>>
  /\ result.mask = MaskOf(k)

InHand == {"mask", "rings", "ring", "emplace"}

ControlOK ==
  /\ pc \in PC
  /\ pc = "mask" => variant = "Mask"
  /\ pc \in {"rings", "ring"} => variant = "Polygon"
  /\ count \in 0 .. MaxDetections /\ i \in 0 .. count
  /\ pc = "count" => i = 0
  /\ pc \notin {"count", "failed"} => HasCount /\ count = At("NUM_DETECTIONS", 0)
  /\ pc \notin {"count", "open", "failed"} \/ i > 0 => Opened
  /\ pc \in {"filter", "done"} => i = count
  /\ pc \in InHand => i < count /\ Read(i)
  /\ pc = "failed" => ~Accepted

DetectionOK ==
  /\ mask = IF pc = "emplace" THEN MaskOf(i) ELSE NoMask
  /\ pc = "emplace" => Fits(i)
  /\ pc = "ring" => /\ RingsInside(FirstRing(i), FirstRing(i + 1))
                    /\ last_ring = FirstRing(i + 1)
                    /\ ring \in FirstRing(i) .. last_ring
                    /\ \A r \in FirstRing(i) .. ring - 1 : RingFits(r)

PolygonsOK ==
  /\ IsSeq(polygons)
  /\ \A p \in DOMAIN polygons :
       /\ polygons[p] = [exterior |-> polygons[p].exterior, holes |-> polygons[p].holes]
       /\ Len(polygons[p].exterior) >= 3

ResultsOK ==
  /\ IsSeq(results) /\ Len(results) = i
  /\ \A k \in 0 .. i - 1 : Fits(k) /\ Decoded(k, results[k + 1])

Confident(k) == ~Below(results[k + 1])

FilterOK ==
  /\ examined \in 0 .. i
  /\ pc \notin {"filter", "done"} => examined = 0
  /\ pc = "done" => examined = i
  /\ IsSeq(kept) /\ Len(kept) <= examined
  /\ \A r \in 1 .. Len(kept) :
       /\ kept[r].detection \in 0 .. examined - 1
       /\ kept[r] = results[kept[r].detection + 1]
       /\ Confident(kept[r].detection)
  /\ \A k \in 0 .. examined - 1 :
       Confident(k) => \E r \in 1 .. Len(kept) : kept[r].detection = k
  /\ \A r, s \in 1 .. Len(kept) : r < s => kept[r].detection < kept[s].detection

Inv ==
  InputOK /\ ControlOK /\ DetectionOK /\ PolygonsOK /\ ResultsOK /\ FilterOK

\* While the input does not change, nor does any fact about it.
LEMMA FactsAreKept ==
  ASSUME UNCHANGED input
  PROVE  /\ InputOK' = InputOK /\ HasCount' = HasCount /\ Opened' = Opened
         /\ Accepted' = Accepted
         /\ \A k : Read(k)' = Read(k) /\ Fits(k)' = Fits(k) /\ MaskOf(k)' = MaskOf(k)
         /\ \A k : FirstRing(k)' = FirstRing(k) /\ RingFits(k)' = RingFits(k)
         /\ \A a, b : RingsInside(a, b)' = RingsInside(a, b)
         /\ \A k, result : Decoded(k, result)' = Decoded(k, result)
<1>1. variant' = variant /\ answer' = answer /\ frame' = frame
  BY DEF input
<1>2. InputOK' = InputOK
  BY <1>1 DEF InputOK
<1>3. HasCount' = HasCount
  BY <1>1 DEF HasCount, Holds, At
<1>4. Opened' = Opened
  BY <1>1, InputDetermines DEF Opened
<1>5. \A k : Read(k)' = Read(k)
  BY <1>1 DEF Read, Holds, At
<1>6. \A k : MaskFits(k)' = MaskFits(k)
  BY <1>1 DEF MaskFits, InsideMaskData, Sent, Run, At
<1>7. \A k : FirstRing(k)' = FirstRing(k) /\ RingFits(k)' = RingFits(k)
  BY <1>1 DEF FirstRing, RingFits, PointsInside, At
<1>8. \A a, b : RingsInside(a, b)' = RingsInside(a, b)
  BY <1>1 DEF RingsInside
<1>9. \A k : RingsFit(k)' = RingsFit(k)
  BY <1>7, <1>8 DEF RingsFit
<1>10. \A k : Fits(k)' = Fits(k)
  BY <1>1, <1>5, <1>6, <1>9 DEF Fits
<1>11. Accepted' = Accepted
  <2>1. At("NUM_DETECTIONS", 0)' = At("NUM_DETECTIONS", 0)
    BY <1>1 DEF At
  <2>. QED
    BY <1>3, <1>4, <1>10, <2>1 DEF Accepted
<1>12. \A k : MaskOf(k)' = MaskOf(k)
  BY <1>1, InputDetermines DEF MaskOf
<1>13. \A k, result : Decoded(k, result)' = Decoded(k, result)
  BY <1>1, <1>12, InputDetermines DEF Decoded
<1>. QED
  BY <1>2, <1>3, <1>4, <1>5, <1>7, <1>8, <1>10, <1>11, <1>12, <1>13

\* The invariant holds before the first step.
LEMMA InitInv == Init => Inv
<1>. SUFFICES ASSUME Init PROVE Inv
  OBVIOUS
<1>. USE DEF Init
<1>0. MaxDetections \in Nat
  BY EnvelopeAssumption
<1>1. InputOK
  <2>1. PICK c \in Requests : variant = c.variant /\ answer = c.answer /\ frame = c.frame
    OBVIOUS
  <2>2. c.answer \in Answers /\ c.frame \in Frames /\ c.variant \in Variants
    BY EnvelopeAssumption DEF Answers, Frames
  <2>. QED
    BY <2>1, <2>2 DEF InputOK, Variants
<1>2. ControlOK
  BY <1>0 DEF ControlOK, PC, InHand
<1>3. DetectionOK
  BY DEF DetectionOK
<1>4. PolygonsOK
  BY EmptyIsSeq DEF PolygonsOK
<1>5. ResultsOK
  BY EmptyIsSeq DEF ResultsOK
<1>6. FilterOK
  BY EmptyIsSeq DEF FilterOK
<1>. QED
  BY <1>1, <1>2, <1>3, <1>4, <1>5, <1>6 DEF Inv

-----------------------------------------------------------------------------
(***************************************************************************)
(* Every step keeps it.                                                    *)
(***************************************************************************)
\* Steps that leave the results alone.
LEMMA ResultsKept ==
  ASSUME ResultsOK, UNCHANGED <<input, i, results>>
  PROVE  ResultsOK'
BY FactsAreKept DEF ResultsOK

\* Steps that leave the polygons alone.
LEMMA PolygonsKept ==
  ASSUME PolygonsOK, UNCHANGED polygons
  PROVE  PolygonsOK'
BY DEF PolygonsOK

\* Steps before the filter.
LEMMA FilterKept ==
  ASSUME FilterOK, pc \notin {"filter", "done"}, pc' # "done",
         UNCHANGED <<i, results, filter>>
  PROVE  FilterOK'
<1>1. UNCHANGED <<i, results, examined, kept>>
  BY DEF filter
<1>2. \A k : Confident(k)' = Confident(k)
  BY <1>1 DEF Confident, Below
<1>. QED
  BY <1>1, <1>2 DEF FilterOK

\* Reading the count.
LEMMA CountStep ==
  ASSUME Inv, ReadDetectionCount PROVE Inv'
<1>. DEFINE ok == HasCount
<1>1. /\ Step("count", ok, "open")
      /\ count' = IF ok THEN At("NUM_DETECTIONS", 0) ELSE count
      /\ UNCHANGED <<input, i, mask, ring, last_ring, polygons, results, filter>>
  BY DEF ReadDetectionCount, HasCount, detection
<1>2. pc = "count" /\ pc' = IF ok THEN "open" ELSE "failed"
  BY <1>1 DEF Step
<1>3. i = 0 /\ MaxDetections \in Nat
  BY <1>2, EnvelopeAssumption DEF Inv, ControlOK
<1>4. InputOK'
  BY <1>1, FactsAreKept DEF Inv
<1>5. ControlOK'
  <2>1. CASE ok
    <3>1. At("NUM_DETECTIONS", 0)' = At("NUM_DETECTIONS", 0)
      BY <1>1, InputDetermines
    <3>. QED
      BY <1>1, <1>2, <1>3, <2>1, <3>1, FactsAreKept DEF Inv, ControlOK, HasCount, PC, InHand
  <2>2. CASE ~ok
    <3>1. ~Accepted
      BY <2>2 DEF Accepted
    <3>. QED
      BY <1>1, <1>2, <1>3, <2>2, <3>1, FactsAreKept DEF Inv, ControlOK, PC, InHand
  <2>. QED
    BY <2>1, <2>2
<1>6. DetectionOK'
  BY <1>1, <1>2 DEF Inv, DetectionOK
<1>7. PolygonsOK'
  BY <1>1, PolygonsKept DEF Inv
<1>8. ResultsOK'
  BY <1>1, ResultsKept DEF Inv
<1>9. FilterOK'
  BY <1>1, <1>2, FilterKept DEF Inv
<1>. QED
  BY <1>4, <1>5, <1>6, <1>7, <1>8, <1>9 DEF Inv

\* Requiring the tensors.
LEMMA OpenStep ==
  ASSUME Inv, OpenTensors PROVE Inv'
<1>1. /\ Step("open", Opened, "box")
      /\ UNCHANGED <<input, count, i, mask, ring, last_ring, polygons, results, filter>>
  BY DEF OpenTensors, Opened, detection
<1>2. pc = "open" /\ pc' = IF Opened THEN "box" ELSE "failed"
  BY <1>1 DEF Step
<1>3. At("NUM_DETECTIONS", 0)' = At("NUM_DETECTIONS", 0)
  BY <1>1, InputDetermines
<1>4. InputOK'
  BY <1>1, FactsAreKept DEF Inv
<1>5. ControlOK'
  <2>1. CASE Opened
    BY <1>1, <1>2, <1>3, <2>1, FactsAreKept DEF Inv, ControlOK, PC, InHand
  <2>2. CASE ~Opened
    <3>1. ~Accepted
      BY <2>2 DEF Accepted
    <3>. QED
      BY <1>1, <1>2, <1>3, <2>2, <3>1, FactsAreKept DEF Inv, ControlOK, PC, InHand
  <2>. QED
    BY <2>1, <2>2
<1>6. DetectionOK'
  BY <1>1, <1>2 DEF Inv, DetectionOK
<1>7. PolygonsOK'
  BY <1>1, PolygonsKept DEF Inv
<1>8. ResultsOK'
  BY <1>1, ResultsKept DEF Inv
<1>9. FilterOK'
  BY <1>1, <1>2, FilterKept DEF Inv
<1>. QED
  BY <1>4, <1>5, <1>6, <1>7, <1>8, <1>9 DEF Inv

\* A detection that is refused is one the contract refuses.
LEMMA Refused ==
  ASSUME Inv, pc \notin {"count", "failed"}, i < count, ~Fits(i)
  PROVE  ~Accepted
<1>1. count = At("NUM_DETECTIONS", 0) /\ i \in 0 .. count - 1
  BY EnvelopeAssumption DEF Inv, ControlOK
<1>. QED
  BY <1>1 DEF Accepted

\* Reading box, score and class.
LEMMA BoxStep ==
  ASSUME Inv, ReadDetection PROVE Inv'
<1>. DEFINE ok == Read(i)
            next == CASE variant = "Detection" -> "emplace"
                      [] variant = "Mask"      -> "mask"
                      [] variant = "Polygon"   -> "rings"
<1>1. /\ i < count /\ Step("box", ok, next)
      /\ UNCHANGED <<input, count, i, mask, ring, last_ring, polygons, results, filter>>
  BY DEF ReadDetection, Read, detection
<1>2. pc = "box" /\ pc' = IF ok THEN next ELSE "failed"
  BY <1>1 DEF Step
<1>3. At("NUM_DETECTIONS", 0)' = At("NUM_DETECTIONS", 0) /\ variant' = variant
  BY <1>1, InputDetermines DEF input
<1>3a. variant \in {"Detection", "Mask", "Polygon"}
  BY DEF Inv, InputOK
<1>3b. /\ next \in {"emplace", "mask", "rings"}
       /\ next = "emplace" <=> variant = "Detection"
       /\ next = "mask" <=> variant = "Mask"
       /\ next = "rings" <=> variant = "Polygon"
  BY <1>3a
<1>. HIDE DEF next
<1>4. InputOK'
  BY <1>1, FactsAreKept DEF Inv
<1>5. ControlOK'
  <2>1. CASE ok
    BY <1>1, <1>2, <1>3, <1>3b, <2>1, FactsAreKept DEF Inv, ControlOK, PC, InHand
  <2>2. CASE ~ok
    <3>1. ~Accepted
      BY <1>1, <1>2, <2>2, Refused DEF Fits
    <3>. QED
      BY <1>1, <1>2, <1>3, <2>2, <3>1, FactsAreKept DEF Inv, ControlOK, PC, InHand
  <2>. QED
    BY <2>1, <2>2
<1>6. DetectionOK'
  <2>1. mask = NoMask
    BY <1>2 DEF Inv, DetectionOK
  <2>2. variant = "Detection" => MaskOf(i) = NoMask
    BY DEF MaskOf
  <2>3. variant = "Detection" /\ ok => Fits(i)
    BY DEF Fits
  <2>. QED
    BY <1>1, <1>2, <1>3b, <2>1, <2>2, <2>3, FactsAreKept DEF DetectionOK
<1>7. PolygonsOK'
  BY <1>1, PolygonsKept DEF Inv
<1>8. ResultsOK'
  BY <1>1, ResultsKept DEF Inv
<1>9. FilterOK'
  BY <1>1, <1>2, <1>3b, FilterKept DEF Inv
<1>. QED
  BY <1>4, <1>5, <1>6, <1>7, <1>8, <1>9 DEF Inv

\* Decoding a mask.
LEMMA MaskStep ==
  ASSUME Inv, DecodeMask PROVE Inv'
<1>. DEFINE ok == MaskFits(i)
<1>1. /\ Step("mask", ok, "emplace")
      /\ mask' = IF ok /\ Expected(Sent(i)) > 0 /\ Known
                 THEN Placed(Sent(i), Run(i)) ELSE NoMask
      /\ UNCHANGED <<input, count, i, ring, last_ring, polygons, results, filter>>
  BY DEF DecodeMask, MaskFits, RunFills
<1>2. pc = "mask" /\ pc' = IF ok THEN "emplace" ELSE "failed"
  BY <1>1 DEF Step
<1>3. At("NUM_DETECTIONS", 0)' = At("NUM_DETECTIONS", 0) /\ variant' = variant
  BY <1>1, InputDetermines DEF input
<1>3a. variant = "Mask" /\ i < count /\ Read(i)
  BY <1>2 DEF Inv, ControlOK, InHand
<1>4. InputOK'
  BY <1>1, FactsAreKept DEF Inv
<1>5. ControlOK'
  <2>1. CASE ok
    BY <1>1, <1>2, <1>3, <1>3a, <2>1, FactsAreKept DEF Inv, ControlOK, PC, InHand
  <2>2. CASE ~ok
    <3>1. ~Accepted
      BY <1>2, <1>3a, <2>2, Refused DEF Fits
    <3>. QED
      BY <1>1, <1>2, <1>3, <2>2, <3>1, FactsAreKept DEF Inv, ControlOK, PC, InHand
  <2>. QED
    BY <2>1, <2>2
<1>6. DetectionOK'
  <2>1. ok => mask' = MaskOf(i) /\ Fits(i)
    BY <1>1, <1>3a DEF MaskOf, Fits
  <2>2. ~ok => mask' = NoMask
    BY <1>1
  <2>. QED
    BY <1>1, <1>2, <2>1, <2>2, FactsAreKept DEF DetectionOK
<1>7. PolygonsOK'
  BY <1>1, PolygonsKept DEF Inv
<1>8. ResultsOK'
  BY <1>1, ResultsKept DEF Inv
<1>9. FilterOK'
  BY <1>1, <1>2, FilterKept DEF Inv
<1>. QED
  BY <1>4, <1>5, <1>6, <1>7, <1>8, <1>9 DEF Inv

\* The ring offsets of the detection in hand are there.
LEMMA RingOffsetsAreInts ==
  ASSUME Inv, pc \in {"rings", "ring"}
  PROVE  /\ FirstRing(i) \in Int /\ FirstRing(i + 1) \in Int
         /\ Holds("INSTANCE_RING_OFFSETS", i) /\ Holds("INSTANCE_RING_OFFSETS", i + 1)
         /\ {"INSTANCE_RING_OFFSETS", "RING_POINT_OFFSETS", "POLYGON_POINTS"}
              \subseteq DOMAIN answer
<1>1. variant = "Polygon" /\ answer \in Answers /\ Opened
  BY DEF Inv, InputOK, ControlOK
<1>2. /\ HasPrefix /\ PrefixOf = "INSTANCE_RING_OFFSETS"
      /\ {"INSTANCE_RING_OFFSETS", "RING_POINT_OFFSETS", "POLYGON_POINTS"}
           \subseteq DOMAIN answer
  BY <1>1 DEF HasPrefix, PrefixOf, Opened, Required
<1>3. Len(answer["INSTANCE_RING_OFFSETS"]) >= MaxDetections + 1
  BY <1>1, <1>2 DEF Opened, TableIsWhole
<1>4. i \in Nat /\ i + 1 <= MaxDetections /\ MaxDetections \in Nat
  BY EnvelopeAssumption DEF Inv, ControlOK, InHand
<1>5. "INSTANCE_RING_OFFSETS" \in Numbers
  BY DEF Numbers, Prefixes
<1>6. Len(answer["INSTANCE_RING_OFFSETS"]) \in Nat
  BY <1>1, <1>2, <1>5, Elements
<1>7. Holds("INSTANCE_RING_OFFSETS", i) /\ Holds("INSTANCE_RING_OFFSETS", i + 1)
  BY <1>3, <1>4, <1>6 DEF Holds
<1>. QED
  BY <1>1, <1>2, <1>4, <1>5, <1>7, Elements DEF FirstRing

\* Reading the range of rings.
LEMMA RangeStep ==
  ASSUME Inv, ReadRingRange PROVE Inv'
<1>. DEFINE first == FirstRing(i)  last == FirstRing(i + 1)  ok == RingsInside(first, last)
<1>1. /\ Step("rings", ok, "ring") /\ ring' = first /\ last_ring' = last
      /\ UNCHANGED <<input, count, i, mask, polygons, results, filter>>
  BY DEF ReadRingRange, FirstRing
<1>2. pc = "rings" /\ pc' = IF ok THEN "ring" ELSE "failed"
  BY <1>1 DEF Step
<1>3. At("NUM_DETECTIONS", 0)' = At("NUM_DETECTIONS", 0) /\ variant' = variant
  BY <1>1, InputDetermines DEF input
<1>3a. variant = "Polygon" /\ i < count /\ Read(i)
  BY <1>2 DEF Inv, ControlOK, InHand
<1>4. InputOK'
  BY <1>1, FactsAreKept DEF Inv
<1>5. ControlOK'
  <2>1. CASE ok
    BY <1>1, <1>2, <1>3, <1>3a, <2>1, FactsAreKept DEF Inv, ControlOK, PC, InHand
  <2>2. CASE ~ok
    <3>1. ~Accepted
      BY <1>2, <1>3a, <2>2, Refused DEF Fits, RingsFit
    <3>. QED
      BY <1>1, <1>2, <1>3, <2>2, <3>1, FactsAreKept DEF Inv, ControlOK, PC, InHand
  <2>. QED
    BY <2>1, <2>2
<1>6. DetectionOK'
  <2>1. first \in Int /\ last \in Int
    BY <1>2, RingOffsetsAreInts
  <2>2. mask = NoMask
    BY <1>2 DEF Inv, DetectionOK
  <2>3. first <= last => first \in first .. last /\ first .. first - 1 = {}
    BY <2>1
  <2>4. ok => first <= last
    BY DEF RingsInside
  <2>. QED
    BY <1>1, <1>2, <2>2, <2>3, <2>4, FactsAreKept DEF DetectionOK
<1>7. PolygonsOK'
  BY <1>1, PolygonsKept DEF Inv
<1>8. ResultsOK'
  BY <1>1, ResultsKept DEF Inv
<1>9. FilterOK'
  BY <1>1, <1>2, FilterKept DEF Inv
<1>. QED
  BY <1>4, <1>5, <1>6, <1>7, <1>8, <1>9 DEF Inv

\* The rings of one more ring are whole polygons still.
LEMMA AddRingKeeps ==
  ASSUME PolygonsOK, NEW points, Len(points) >= 3
  PROVE  LET ps == AddRing(points)
         IN  /\ IsSeq(ps)
             /\ \A p \in DOMAIN ps :
                  /\ ps[p] = [exterior |-> ps[p].exterior, holes |-> ps[p].holes]
                  /\ Len(ps[p].exterior) >= 3
<1>. DEFINE Whole(polygon) ==
              /\ polygon = [exterior |-> polygon.exterior, holes |-> polygon.holes]
              /\ Len(polygon.exterior) >= 3
<1>0. IsSeq(polygons) /\ \A p \in DOMAIN polygons : Whole(polygons[p])
  BY DEF PolygonsOK
<1>1. CASE Containers(points) = {}
  <2>. DEFINE new == [exterior |-> points, holes |-> <<>>]
  <2>1. AddRing(points) = Append(polygons, new)
    BY <1>1 DEF AddRing
  <2>2. Whole(new)
    OBVIOUS
  <2>3. /\ Len(polygons) \in Nat /\ DOMAIN polygons = 1 .. Len(polygons)
        /\ IsSeq(Append(polygons, new))
        /\ DOMAIN Append(polygons, new) = 1 .. Len(polygons) + 1
        /\ \A k \in 1 .. Len(polygons) : Append(polygons, new)[k] = polygons[k]
        /\ Append(polygons, new)[Len(polygons) + 1] = new
    BY <1>0, AppendIsSeq
  <2>. HIDE DEF new, Whole
  <2>4. \A p \in DOMAIN Append(polygons, new) : Whole(Append(polygons, new)[p])
    <3>. SUFFICES ASSUME NEW p \in 1 .. Len(polygons) + 1
                  PROVE  Whole(Append(polygons, new)[p])
      BY <2>3
    <3>1. p \in 1 .. Len(polygons) \/ p = Len(polygons) + 1
      BY <2>3
    <3>. QED
      BY <1>0, <2>2, <2>3, <3>1
  <2>. QED
    BY <2>1, <2>3, <2>4 DEF Whole
<1>2. CASE Containers(points) # {}
  <2>. DEFINE p == CHOOSE q \in Containers(points) :
                     \A other \in Containers(points) : q <= other
              ps == [polygons EXCEPT ![p].holes = Append(@, points)]
  <2>1. AddRing(points) = ps
    BY <1>2 DEF AddRing
  <2>2. PICK S : polygons \in Seq(S)
    BY <1>0 DEF IsSeq
  <2>3. ASSUME NEW q \in DOMAIN polygons PROVE Whole(ps[q])
    <3>1. CASE q = p
      <4>1. ps[q] = [polygons[q] EXCEPT !.holes = Append(@, points)]
        BY <3>1
      <4>2. polygons[q] = [exterior |-> polygons[q].exterior, holes |-> polygons[q].holes]
            /\ Len(polygons[q].exterior) >= 3
        BY <1>0
      <4>3. ps[q] = [exterior |-> polygons[q].exterior,
                     holes |-> Append(polygons[q].holes, points)]
        BY <4>1, <4>2, Zenon
      <4>. QED
        BY <4>2, <4>3
    <3>2. CASE q # p
      <4>1. ps[q] = polygons[q]
        BY <3>2
      <4>. QED
        BY <1>0, <4>1
    <3>. QED
      BY <3>1, <3>2
  <2>4. DOMAIN ps = DOMAIN polygons
    OBVIOUS
  <2>5. IsSeq(ps)
    <3>. DEFINE T == {ps[q] : q \in DOMAIN polygons}
    <3>1. Len(polygons) \in Nat /\ DOMAIN polygons = 1 .. Len(polygons)
      BY <2>2
    <3>2. ps \in [1 .. Len(polygons) -> T]
      BY <2>4, <3>1
    <3>. HIDE DEF T, ps
    <3>3. ps \in Seq(T)
      BY <3>1, <3>2
    <3>. QED
      BY <3>3 DEF IsSeq
  <2>. HIDE DEF ps, Whole
  <2>. QED
    BY <2>1, <2>3, <2>4, <2>5 DEF Whole
<1>. QED
  BY <1>1, <1>2

\* Decoding a ring.
LEMMA RingStep ==
  ASSUME Inv, DecodeRing PROVE Inv'
<1>. DEFINE first == FirstRing(i)  last == FirstRing(i + 1)  ok == RingFits(ring)
<1>1. /\ ring < last_ring /\ Step("ring", ok, "ring") /\ ring' = ring + 1
      /\ polygons' = IF ok THEN AddRing(Points(ring)) ELSE polygons
      /\ UNCHANGED <<input, count, i, mask, last_ring, results, filter>>
  BY DEF DecodeRing, RingFits
<1>2. pc = "ring" /\ pc' = IF ok THEN "ring" ELSE "failed"
  BY <1>1 DEF Step
<1>3. At("NUM_DETECTIONS", 0)' = At("NUM_DETECTIONS", 0) /\ variant' = variant
  BY <1>1, InputDetermines DEF input
<1>3a. variant = "Polygon" /\ i < count /\ Read(i)
  BY <1>2 DEF Inv, ControlOK, InHand
<1>3b. /\ RingsInside(first, last) /\ last_ring = last
       /\ ring \in first .. last - 1 /\ \A r \in first .. ring - 1 : RingFits(r)
       /\ first \in Nat /\ last \in Nat
  <2>1. first \in Int /\ last \in Int
    BY <1>2, RingOffsetsAreInts
  <2>. QED
    BY <1>1, <1>2, <2>1 DEF Inv, DetectionOK, RingsInside
<1>4. InputOK'
  BY <1>1, FactsAreKept DEF Inv
<1>5. ControlOK'
  <2>1. CASE ok
    BY <1>1, <1>2, <1>3, <1>3a, <2>1, FactsAreKept DEF Inv, ControlOK, PC, InHand
  <2>2. CASE ~ok
    <3>1. ~Accepted
      BY <1>2, <1>3a, <1>3b, <2>2, Refused DEF Fits, RingsFit
    <3>. QED
      BY <1>1, <1>2, <1>3, <2>2, <3>1, FactsAreKept DEF Inv, ControlOK, PC, InHand
  <2>. QED
    BY <2>1, <2>2
<1>6. DetectionOK'
  <2>1. mask = NoMask
    BY <1>2 DEF Inv, DetectionOK
  <2>2. CASE ok
    <3>. HIDE DEF ok, first, last
    <3>1. ring + 1 \in first .. last
      BY <1>3b
    <3>2. \A r \in first .. (ring + 1) - 1 : RingFits(r)
      <4>. SUFFICES ASSUME NEW r \in first .. (ring + 1) - 1 PROVE RingFits(r)
        OBVIOUS
      <4>1. r \in first .. ring - 1 \/ r = ring
        BY <1>3b
      <4>. QED
        BY <1>3b, <2>2, <4>1 DEF ok
    <3>3. first' = first /\ last' = last
      BY <1>1, FactsAreKept DEF first, last
    <3>4. /\ RingsInside(first, last)' /\ last_ring' = last' /\ ring' \in first' .. last_ring'
          /\ (\A r \in first .. ring - 1 : RingFits(r))'
      BY <1>1, <1>3b, <3>1, <3>2, <3>3, FactsAreKept
    <3>. QED
      BY <1>1, <1>2, <2>1, <2>2, <3>4 DEF DetectionOK, first, last
  <2>3. CASE ~ok
    BY <1>1, <1>2, <2>1, <2>3 DEF DetectionOK
  <2>. QED
    BY <2>2, <2>3
<1>7. PolygonsOK'
  <2>1. CASE ok
    <3>1. Len(Points(ring)) >= 3
      <4>. DEFINE begin == At("RING_POINT_OFFSETS", ring)
                  end == At("RING_POINT_OFFSETS", ring + 1)
      <4>1. end - begin >= 3 /\ 0 <= begin /\ begin <= end
        BY <2>1 DEF RingFits, WholeRing, PointsInside
      <4>2. begin \in Int /\ end \in Int
        <5>1. "RING_POINT_OFFSETS" \in Numbers /\ "RING_POINT_OFFSETS" \in DOMAIN answer
              /\ answer \in Answers
          BY <1>2, RingOffsetsAreInts DEF Numbers, Inv, InputOK
        <5>2. Len(answer["RING_POINT_OFFSETS"]) \in Nat
          BY <5>1, Elements
        <5>3. ring \in Nat /\ Holds("RING_POINT_OFFSETS", ring)
              /\ ring + 1 \in Nat /\ Holds("RING_POINT_OFFSETS", ring + 1)
          BY <1>3b, <5>2 DEF RingsInside, Holds
        <5>. QED
          BY <5>1, <5>3, Elements
      <4>3. Points(ring) = [c \in 1 .. end - begin |->
                              [x |-> At("POLYGON_POINTS", 2 * (begin + c - 1)),
                               y |-> At("POLYGON_POINTS", 2 * (begin + c - 1) + 1)]]
        BY DEF Points
      <4>. HIDE DEF begin, end
      <4>4. Len(Points(ring)) = end - begin
        BY <4>1, <4>2, <4>3
      <4>. QED
        BY <4>1, <4>4
    <3>2. polygons' = AddRing(Points(ring)) /\ PolygonsOK
      BY <1>1, <2>1 DEF Inv
    <3>. QED
      BY <3>1, <3>2, AddRingKeeps DEF PolygonsOK
  <2>2. CASE ~ok
    BY <1>1, <2>2, PolygonsKept DEF Inv
  <2>. QED
    BY <2>1, <2>2
<1>8. ResultsOK'
  BY <1>1, ResultsKept DEF Inv
<1>9. FilterOK'
  BY <1>1, <1>2, FilterKept DEF Inv
<1>. QED
  BY <1>4, <1>5, <1>6, <1>7, <1>8, <1>9 DEF Inv

\* After the last ring.
LEMMA EndRingsStep ==
  ASSUME Inv, EndRings PROVE Inv'
<1>1. /\ ring = last_ring /\ pc = "ring" /\ pc' = "emplace"
      /\ UNCHANGED <<input, count, i, mask, ring, last_ring, polygons, results, filter>>
  BY DEF EndRings, Step, detection
<1>3. At("NUM_DETECTIONS", 0)' = At("NUM_DETECTIONS", 0) /\ variant' = variant
  BY <1>1, InputDetermines DEF input
<1>3a. variant = "Polygon" /\ i < count /\ Read(i)
  BY <1>1 DEF Inv, ControlOK, InHand
<1>4. InputOK'
  BY <1>1, FactsAreKept DEF Inv
<1>5. ControlOK'
  BY <1>1, <1>3, <1>3a, FactsAreKept DEF Inv, ControlOK, PC, InHand
<1>6. DetectionOK'
  <2>1. mask = NoMask /\ MaskOf(i) = NoMask
    BY <1>1, <1>3a DEF Inv, DetectionOK, MaskOf
  <2>2. Fits(i)
    BY <1>1, <1>3a DEF Inv, DetectionOK, Fits, RingsFit
  <2>. QED
    BY <1>1, <2>1, <2>2, FactsAreKept DEF DetectionOK
<1>7. PolygonsOK'
  BY <1>1, PolygonsKept DEF Inv
<1>8. ResultsOK'
  BY <1>1, ResultsKept DEF Inv
<1>9. FilterOK'
  BY <1>1, FilterKept DEF Inv
<1>. QED
  BY <1>4, <1>5, <1>6, <1>7, <1>8, <1>9 DEF Inv

\* Adding the result.
LEMMA EmplaceStep ==
  ASSUME Inv, Emplace PROVE Inv'
<1>. DEFINE new == [detection |-> i,
                    box       |-> clampBoxToFrame(Sent(i)),
                    score     |-> At("SCORES", i).value,
                    class     |-> At("CLASSES", i),
                    run       |-> IF variant = "Mask" THEN Run(i) ELSE <<>>,
                    mask      |-> mask,
                    polygons  |-> polygons]
<1>1. /\ pc = "emplace" /\ pc' = "box" /\ results' = Append(results, new)
      /\ i' = i + 1 /\ mask' = NoMask /\ polygons' = <<>>
      /\ UNCHANGED <<input, count, ring, last_ring, examined, kept>>
  BY DEF Emplace, Step, filter
<1>2. i < count /\ count \in Nat /\ i \in Nat
  BY <1>1, EnvelopeAssumption DEF Inv, ControlOK, InHand
<1>3. At("NUM_DETECTIONS", 0)' = At("NUM_DETECTIONS", 0) /\ variant' = variant
  BY <1>1, InputDetermines DEF input
<1>4. InputOK'
  BY <1>1, FactsAreKept DEF Inv
<1>5. ControlOK'
  BY <1>1, <1>2, <1>3, FactsAreKept DEF Inv, ControlOK, PC, InHand
<1>6. DetectionOK'
  BY <1>1 DEF DetectionOK
<1>7. PolygonsOK'
  BY <1>1, EmptyIsSeq DEF PolygonsOK
<1>8. ResultsOK'
  <2>1. Decoded(i, new) /\ Fits(i)
    BY <1>1 DEF Inv, DetectionOK, Decoded
  <2>2. IsSeq(results) /\ Len(results) = i
    BY DEF Inv, ResultsOK
  <2>. HIDE DEF new
  <2>3. /\ IsSeq(Append(results, new)) /\ Len(Append(results, new)) = i + 1
        /\ \A k \in 1 .. i : Append(results, new)[k] = results[k]
        /\ Append(results, new)[i + 1] = new
    BY <2>2, AppendIsSeq
  <2>4. ASSUME NEW k \in 0 .. i PROVE Fits(k) /\ Decoded(k, Append(results, new)[k + 1])
    <3>1. CASE k = i
      BY <2>1, <2>3, <3>1
    <3>2. CASE k # i
      <4>1. k \in 0 .. i - 1 /\ k + 1 \in 1 .. i
        BY <1>2, <3>2
      <4>. QED
        BY <2>3, <4>1 DEF Inv, ResultsOK
    <3>. QED
      BY <3>1, <3>2
  <2>5. (i + 1) - 1 = i
    BY <1>2
  <2>. QED
    BY <1>1, <2>3, <2>4, <2>5, FactsAreKept DEF ResultsOK
<1>9. FilterOK'
  <2>1. examined = 0 /\ Len(kept) <= 0 /\ IsSeq(kept)
    BY <1>1 DEF Inv, FilterOK
  <2>2. 1 .. Len(kept) = {}
    BY <2>1 DEF IsSeq
  <2>. QED
    BY <1>1, <1>2, <2>1, <2>2 DEF FilterOK
<1>. QED
  BY <1>4, <1>5, <1>6, <1>7, <1>8, <1>9 DEF Inv

\* After the last detection.
LEMMA EndDetectionsStep ==
  ASSUME Inv, EndDetections PROVE Inv'
<1>1. /\ i = count /\ pc = "box" /\ pc' = "filter"
      /\ UNCHANGED <<input, count, i, mask, ring, last_ring, polygons, results, filter>>
  BY DEF EndDetections, Step, detection
<1>3. At("NUM_DETECTIONS", 0)' = At("NUM_DETECTIONS", 0) /\ variant' = variant
  BY <1>1, InputDetermines DEF input
<1>4. InputOK'
  BY <1>1, FactsAreKept DEF Inv
<1>5. ControlOK'
  BY <1>1, <1>3, FactsAreKept DEF Inv, ControlOK, PC, InHand
<1>6. DetectionOK'
  BY <1>1 DEF Inv, DetectionOK
<1>7. PolygonsOK'
  BY <1>1, PolygonsKept DEF Inv
<1>8. ResultsOK'
  BY <1>1, ResultsKept DEF Inv
<1>9. FilterOK'
  BY <1>1, FilterKept DEF Inv
<1>. QED
  BY <1>4, <1>5, <1>6, <1>7, <1>8, <1>9 DEF Inv

\* Filtering one result.
LEMMA FilterStep ==
  ASSUME Inv, filterByConfidence PROVE Inv'
<1>. DEFINE new == results[examined + 1]
<1>1. /\ examined < Len(results) /\ pc = "filter" /\ pc' = "filter"
      /\ examined' = examined + 1
      /\ kept' = IF Below(new) THEN kept ELSE Append(kept, new)
      /\ UNCHANGED <<input, count, i, mask, ring, last_ring, polygons, results>>
  BY DEF filterByConfidence, Step, detection
<1>3. At("NUM_DETECTIONS", 0)' = At("NUM_DETECTIONS", 0) /\ variant' = variant
  BY <1>1, InputDetermines DEF input
<1>4. InputOK'
  BY <1>1, FactsAreKept DEF Inv
<1>5. ControlOK'
  BY <1>1, <1>3, FactsAreKept DEF Inv, ControlOK, PC, InHand
<1>6. DetectionOK'
  BY <1>1 DEF Inv, DetectionOK
<1>7. PolygonsOK'
  BY <1>1, PolygonsKept DEF Inv
<1>8. ResultsOK'
  BY <1>1, ResultsKept DEF Inv
<1>9. FilterOK'
  <2>1. /\ FilterOK /\ IsSeq(kept) /\ Len(results) = i /\ i \in Nat
        /\ examined \in 0 .. i - 1
    BY <1>1, EnvelopeAssumption DEF Inv, FilterOK, ResultsOK, ControlOK
  <2>2. new.detection = examined
    BY <2>1 DEF Inv, ResultsOK, Decoded
  <2>. HIDE DEF new
  <2>3. /\ Len(kept) \in Nat
        /\ IsSeq(Append(kept, new)) /\ Len(Append(kept, new)) = Len(kept) + 1
        /\ \A r \in 1 .. Len(kept) : Append(kept, new)[r] = kept[r]
        /\ Append(kept, new)[Len(kept) + 1] = new
    BY <2>1, AppendIsSeq
  <2>4. Confident(examined) <=> ~Below(new)
    BY DEF Confident, new
  <2>5. \A k : Confident(k)' = Confident(k)
    BY <1>1 DEF Confident, Below
  <2>6. (examined + 1) - 1 = examined
    BY <2>1
  <2>7. \A k \in 0 .. examined : k \in 0 .. examined - 1 \/ k = examined
    BY <2>1
  <2>8. \A k \in 0 .. examined - 1 : k \in 0 .. examined /\ k < examined
    BY <2>1
  <2>9. CASE Below(new)
    <3>1. kept' = kept
      BY <1>1, <2>9
    <3>2. \A k \in 0 .. examined :
            Confident(k) => \E r \in 1 .. Len(kept) : kept[r].detection = k
      BY <2>1, <2>4, <2>7, <2>9 DEF FilterOK
    <3>3. \A r \in 1 .. Len(kept) :
            /\ kept[r].detection \in 0 .. examined
            /\ kept[r] = results[kept[r].detection + 1]
            /\ Confident(kept[r].detection)
      BY <2>1, <2>8 DEF FilterOK
    <3>4. \A r, s \in 1 .. Len(kept) : r < s => kept[r].detection < kept[s].detection
      BY <2>1 DEF FilterOK
    <3>5. Len(kept) <= examined + 1 /\ examined + 1 \in 0 .. i
      BY <2>1, <2>3 DEF FilterOK
    <3>. QED
      BY <1>1, <2>1, <2>5, <2>6, <3>1, <3>2, <3>3, <3>4, <3>5 DEF FilterOK
  <2>10. CASE ~Below(new)
    <3>. DEFINE more == Append(kept, new)
    <3>1. kept' = more
      BY <1>1, <2>10
    <3>2. \A k \in 0 .. examined :
            Confident(k) => \E r \in 1 .. Len(more) : more[r].detection = k
      <4>. SUFFICES ASSUME NEW k \in 0 .. examined, Confident(k)
                    PROVE  \E r \in 1 .. Len(more) : more[r].detection = k
        OBVIOUS
      <4>1. CASE k = examined
        <5>1. Len(kept) + 1 \in 1 .. Len(more)
          BY <2>3
        <5>. QED
          BY <2>2, <2>3, <4>1, <5>1
      <4>2. CASE k # examined
        <5>1. PICK r \in 1 .. Len(kept) : kept[r].detection = k
          BY <2>1, <2>7, <4>2 DEF FilterOK
        <5>2. r \in 1 .. Len(more)
          BY <2>3
        <5>. QED
          BY <2>3, <5>1, <5>2
      <4>. QED
        BY <4>1, <4>2
    <3>3. ASSUME NEW r \in 1 .. Len(more)
          PROVE  /\ more[r].detection \in 0 .. examined
                 /\ more[r] = results[more[r].detection + 1]
                 /\ Confident(more[r].detection)
      <4>1. r \in 1 .. Len(kept) \/ r = Len(kept) + 1
        BY <2>3
      <4>2. CASE r \in 1 .. Len(kept)
        BY <2>1, <2>3, <2>8, <4>2 DEF FilterOK
      <4>3. CASE r = Len(kept) + 1
        BY <2>1, <2>2, <2>3, <2>4, <2>10, <4>3 DEF new
      <4>. QED
        BY <4>1, <4>2, <4>3
    <3>4. ASSUME NEW r \in 1 .. Len(more), NEW s \in 1 .. Len(more), r < s
          PROVE  more[r].detection < more[s].detection
      <4>1. r \in 1 .. Len(kept) /\ (s \in 1 .. Len(kept) \/ s = Len(kept) + 1)
        BY <2>3, <3>4
      <4>2. CASE s \in 1 .. Len(kept)
        BY <2>1, <2>3, <3>4, <4>1, <4>2 DEF FilterOK
      <4>3. CASE s = Len(kept) + 1
        BY <2>1, <2>2, <2>3, <2>8, <4>1, <4>3 DEF FilterOK
      <4>. QED
        BY <4>1, <4>2, <4>3
    <3>5. IsSeq(more) /\ Len(more) <= examined + 1 /\ examined + 1 \in 0 .. i
      BY <2>1, <2>3 DEF FilterOK
    <3>. HIDE DEF more
    <3>. QED
      BY <1>1, <2>5, <2>6, <3>1, <3>2, <3>3, <3>4, <3>5 DEF FilterOK
  <2>. QED
    BY <2>9, <2>10
<1>. QED
  BY <1>4, <1>5, <1>6, <1>7, <1>8, <1>9 DEF Inv

\* After the last result.
LEMMA EndFilterStep ==
  ASSUME Inv, EndFilter PROVE Inv'
<1>1. /\ examined = Len(results) /\ pc = "filter" /\ pc' = "done"
      /\ UNCHANGED <<input, count, i, mask, ring, last_ring, polygons, results, examined, kept>>
  BY DEF EndFilter, Step, detection, filter
<1>3. At("NUM_DETECTIONS", 0)' = At("NUM_DETECTIONS", 0) /\ variant' = variant
  BY <1>1, InputDetermines DEF input
<1>4. InputOK'
  BY <1>1, FactsAreKept DEF Inv
<1>5. ControlOK'
  BY <1>1, <1>3, FactsAreKept DEF Inv, ControlOK, PC, InHand
<1>6. DetectionOK'
  BY <1>1 DEF Inv, DetectionOK
<1>7. PolygonsOK'
  BY <1>1, PolygonsKept DEF Inv
<1>8. ResultsOK'
  BY <1>1, ResultsKept DEF Inv
<1>9. FilterOK'
  <2>1. \A k : Confident(k)' = Confident(k)
    BY <1>1 DEF Confident, Below
  <2>. QED
    BY <1>1, <2>1 DEF Inv, FilterOK, ResultsOK
<1>. QED
  BY <1>4, <1>5, <1>6, <1>7, <1>8, <1>9 DEF Inv

\* Stuttering.
LEMMA NothingStep ==
  ASSUME Inv, UNCHANGED vars PROVE Inv'
<1>1. UNCHANGED <<input, pc, count, i, mask, ring, last_ring, polygons, results, examined, kept>>
  BY DEF vars, detection, filter
<1>3. At("NUM_DETECTIONS", 0)' = At("NUM_DETECTIONS", 0) /\ variant' = variant
  BY <1>1, InputDetermines DEF input
<1>4. InputOK'
  BY <1>1, FactsAreKept DEF Inv
<1>5. ControlOK'
  BY <1>1, <1>3, FactsAreKept DEF Inv, ControlOK
<1>6. DetectionOK'
  BY <1>1, FactsAreKept DEF Inv, DetectionOK
<1>7. PolygonsOK'
  BY <1>1, PolygonsKept DEF Inv
<1>8. ResultsOK'
  BY <1>1, ResultsKept DEF Inv
<1>9. FilterOK'
  <2>1. \A k : Confident(k)' = Confident(k)
    BY <1>1 DEF Confident, Below
  <2>. QED
    BY <1>1, <2>1 DEF Inv, FilterOK
<1>. QED
  BY <1>4, <1>5, <1>6, <1>7, <1>8, <1>9 DEF Inv

\* Every step keeps the invariant.
LEMMA StepKeepsInv == Inv /\ [Next]_vars => Inv'
BY CountStep, OpenStep, BoxStep, MaskStep, RangeStep, RingStep, EndRingsStep,
   EmplaceStep, EndDetectionsStep, FilterStep, EndFilterStep, NothingStep
   DEF Next, Ended

\* The inductive invariant holds throughout: what has been decoded fits the
\* contract and a throw means that the answer does not.  (decodeEnvelope and
\* filterByConfidence.)
THEOREM DecoderCorrect == Spec => []Inv
<1>1. Init => Inv
  BY InitInv
<1>2. Inv /\ [Next]_vars => Inv'
  BY StepKeepsInv
<1>. QED
  BY <1>1, <1>2, PTL DEF Spec

-----------------------------------------------------------------------------
(***************************************************************************)
(* The properties.                                                         *)
(***************************************************************************)
\* The variables keep their types, for every answer.  (The whole of the
\* decoders.)
THEOREM TypeCorrect == Spec => []TypeOK
<1>1. Inv => TypeOK
  <2>. SUFFICES ASSUME Inv PROVE TypeOK
    OBVIOUS
  <2>1. mask # NoMask => DOMAIN mask = 0 .. frame.width * frame.height - 1
    <3>1. mask # NoMask => mask = Placed(Sent(i), Run(i))
      BY DEF Inv, DetectionOK, MaskOf
    <3>2. DOMAIN Placed(Sent(i), Run(i)) = 0 .. frame.width * frame.height - 1
      BY DEF Placed
    <3>. QED
      BY <3>1, <3>2
  <2>. QED
    BY <2>1 DEF Inv, InputOK, ControlOK, PolygonsOK, ResultsOK, FilterOK, TypeOK
<1>. QED
  BY <1>1, DecoderCorrect, PTL

\* Decoding succeeds on just the answers that meet the contract.  (Every throw
\* of the three decoders.)
THEOREM RefusalIsExact == Spec => []RefusedIfMalformed
<1>1. Inv => RefusedIfMalformed
  <2>. SUFFICES ASSUME Inv PROVE RefusedIfMalformed
    OBVIOUS
  <2>1. Conforms <=> Accepted
    BY ContractIsStepwise DEF Inv
  <2>2. pc = "done" => Accepted
    BY DEF Inv, ControlOK, ResultsOK, Accepted
  <2>3. pc = "failed" => ~Accepted
    BY DEF Inv, ControlOK
  <2>. QED
    BY <2>1, <2>2, <2>3 DEF RefusedIfMalformed
<1>. QED
  BY <1>1, DecoderCorrect, PTL

\* What a decoded result is made of.
LEMMA DecodedFacts ==
  ASSUME Inv, NEW r \in DOMAIN results
  PROVE  /\ r - 1 \in Nat /\ results[r].detection = r - 1
         /\ Fits(r - 1) /\ Decoded(r - 1, results[r])
         /\ Sent(r - 1) \in IntBox /\ Opened
         /\ frame.width \in Int /\ frame.height \in Int
<1>1. IsSeq(results) /\ Len(results) = i /\ InputOK
  BY DEF Inv, ResultsOK
<1>2. r \in 1 .. i /\ i \in Nat
  BY <1>1, AppendIsSeq
<1>3. r - 1 \in 0 .. i - 1 /\ (r - 1) + 1 = r
  BY <1>2
<1>4. Fits(r - 1) /\ Decoded(r - 1, results[r])
  BY <1>3 DEF Inv, ResultsOK
<1>5. Opened
  BY <1>2 DEF Inv, ControlOK
<1>6. Sent(r - 1) \in IntBox
  <2>1. "BOXES" \in DOMAIN answer /\ Holds("BOXES", 4 * (r - 1) + 3)
    BY <1>4, <1>5 DEF Opened, Required, Fits, Read
  <2>. QED
    BY <1>1, <1>3, <2>1, SentIsBox DEF InputOK
<1>. QED
  BY <1>1, <1>3, <1>4, <1>5, <1>6, EnvelopeAssumption DEF InputOK, Decoded

\* Clamping one side of a box.
LEMMA ClampedSide ==
  ASSUME NEW at \in Int, NEW extent \in Int, NEW size \in Int, size > 0
  PROVE  /\ Clamp(at, 0, size) \in 0 .. size
         /\ Clamp(at + NonNegative(extent), 0, size) \in Clamp(at, 0, size) .. size
         /\ \A p \in 0 .. size - 1 :
              (/\ Clamp(at, 0, size) <= p
               /\ p < Clamp(at, 0, size)
                        + (Clamp(at + NonNegative(extent), 0, size) - Clamp(at, 0, size)))
                <=> (at <= p /\ p < at + extent)
BY DEF Clamp, NonNegative

\* Clamping, for every box and frame.
LEMMA ClampedBox ==
  ASSUME NEW sent \in IntBox, Known, frame.width \in Int, frame.height \in Int
  PROVE  LET box == clampBoxToFrame(sent)
         IN  /\ box.x >= 0 /\ box.width >= 0 /\ box.x + box.width <= frame.width
             /\ box.y >= 0 /\ box.height >= 0 /\ box.y + box.height <= frame.height
             /\ \A x \in 0 .. frame.width - 1, y \in 0 .. frame.height - 1 :
                  In(box, x, y) <=> In(sent, x, y)
<1>. DEFINE w == frame.width  h == frame.height
            left   == Clamp(sent.x, 0, w)
            top    == Clamp(sent.y, 0, h)
            right  == Clamp(sent.x + NonNegative(sent.width), 0, w)
            bottom == Clamp(sent.y + NonNegative(sent.height), 0, h)
<1>1. clampBoxToFrame(sent) =
        [x |-> left, y |-> top, width |-> right - left, height |-> bottom - top]
  BY DEF clampBoxToFrame
<1>2. /\ sent.x \in Int /\ sent.y \in Int /\ sent.width \in Int /\ sent.height \in Int
      /\ w \in Int /\ h \in Int /\ w > 0 /\ h > 0
  BY DEF IntBox, Known
<1>4. /\ left \in 0 .. w /\ right \in left .. w
      /\ \A p \in 0 .. w - 1 : (left <= p /\ p < left + (right - left))
                               <=> (sent.x <= p /\ p < sent.x + sent.width)
  BY <1>2, ClampedSide
<1>5. /\ top \in 0 .. h /\ bottom \in top .. h
      /\ \A p \in 0 .. h - 1 : (top <= p /\ p < top + (bottom - top))
                               <=> (sent.y <= p /\ p < sent.y + sent.height)
  BY <1>2, ClampedSide
<1>. HIDE DEF left, right, top, bottom
<1>. QED
  BY <1>1, <1>2, <1>4, <1>5 DEF In

\* Boxes lie in the frame and cover what can be seen of the server's boxes,
\* for every box and frame size.  (clampBoxToFrame.)
THEOREM BoxesAreVisible == Spec => []BoxesAreTheVisiblePart
<1>1. Inv => BoxesAreTheVisiblePart
  <2>. SUFFICES ASSUME Inv, Known, NEW r \in DOMAIN results
                PROVE  LET box == results[r].box
                       IN  /\ box.x >= 0 /\ box.width >= 0 /\ box.x + box.width <= frame.width
                           /\ box.y >= 0 /\ box.height >= 0 /\ box.y + box.height <= frame.height
                           /\ \A x \in 0 .. frame.width - 1, y \in 0 .. frame.height - 1 :
                                In(box, x, y) <=> In(Sent(results[r].detection), x, y)
    BY DEF BoxesAreTheVisiblePart
  <2>1. results[r].detection = r - 1 /\ results[r].box = clampBoxToFrame(Sent(r - 1))
    BY DecodedFacts DEF Decoded
  <2>2. Sent(r - 1) \in IntBox /\ frame.width \in Int /\ frame.height \in Int
    BY DecodedFacts
  <2>. QED
    BY <2>1, <2>2, ClampedBox
<1>. QED
  BY <1>1, DecoderCorrect, PTL

\* A decoded mask has a byte for each pixel of its box, for every width of
\* size_t.  (The checks of decodeMaskEnvelope.)
THEOREM RunsFill == Spec => []RunsFillTheirBoxes
<1>1. Inv => RunsFillTheirBoxes
  <2>. SUFFICES ASSUME Inv, variant = "Mask", NEW r \in DOMAIN results
                PROVE  Len(results[r].run) = Area(Sent(results[r].detection))
    BY DEF RunsFillTheirBoxes, Area
  <2>1. results[r].detection = r - 1 /\ results[r].run = Run(r - 1)
    BY DecodedFacts DEF Decoded
  <2>2. MaskFits(r - 1) /\ Sent(r - 1) \in IntBox
    BY DecodedFacts DEF Fits
  <2>. QED
    BY <2>1, <2>2, AreaIsExpected DEF MaskFits
<1>. QED
  BY <1>1, DecoderCorrect, PTL

\* A placed mask shows at each pixel the byte of its run that belongs there.
LEMMA PlacedShows ==
  ASSUME NEW sent \in IntBox, NEW run,
         frame.width \in Nat, frame.height \in Nat,
         NEW x \in 0 .. frame.width - 1, NEW y \in 0 .. frame.height - 1
  PROVE  Placed(sent, run)[y * frame.width + x] =
           IF In(sent, x, y) THEN run[(y - sent.y) * sent.width + (x - sent.x) + 1] ELSE 0
<1>. DEFINE w == frame.width  k == y * w + x
            cell == <<y - sent.y, x - sent.x>>
<1>1. k \in 0 .. w * frame.height - 1
  BY FlatIndexInside
<1>2. /\ sent.x \in Int /\ sent.y \in Int /\ sent.width \in Int /\ sent.height \in Int
  BY DEF IntBox
<1>3. ASSUME NEW c \in Cells(sent), OnFrame(sent, c), Target(sent, c) = k
      PROVE  c = cell /\ In(sent, x, y)
  <2>1. PICK row \in 0 .. sent.height - 1, column \in 0 .. sent.width - 1 : c = <<row, column>>
    BY DEF Cells
  <2>2. sent.y + row \in 0 .. frame.height - 1 /\ sent.x + column \in 0 .. w - 1
    BY <1>3, <2>1 DEF OnFrame
  <2>3. (sent.y + row) * w + (sent.x + column) = y * w + x
    <3>1. Target(sent, c) = (sent.y + row) * w + sent.x + column
      BY <2>1 DEF Target
    <3>. DEFINE above == (sent.y + row) * w
    <3>2. above \in Int
      BY <1>2
    <3>3. Target(sent, c) = above + sent.x + column
      BY <3>1
    <3>. HIDE DEF above
    <3>4. Target(sent, c) = above + (sent.x + column)
      BY <1>2, <3>2, <3>3
    <3>. QED
      BY <1>3, <3>4 DEF above
  <2>4. sent.y + row = y /\ sent.x + column = x
    <3>. DEFINE a == sent.y + row  b == sent.x + column
    <3>1. a \in Nat /\ y \in Nat /\ b \in 0 .. w - 1 /\ w \in Nat
      BY <2>2
    <3>2. a * w + b = y * w + x
      BY <2>3
    <3>. HIDE DEF a, b, w
    <3>3. x \in 0 .. w - 1
      BY DEF w
    <3>4. a = y /\ b = x
      BY <3>1, <3>2, <3>3, FlatIndexUnique
    <3>. QED
      BY <3>4 DEF a, b
  <2>5. row = y - sent.y /\ column = x - sent.x
    BY <1>2, <2>4
  <2>. QED
    BY <1>2, <2>1, <2>5 DEF In
<1>4. ASSUME In(sent, x, y)
      PROVE  cell \in Cells(sent) /\ OnFrame(sent, cell) /\ Target(sent, cell) = k
  <2>1. y - sent.y \in 0 .. sent.height - 1 /\ x - sent.x \in 0 .. sent.width - 1
    BY <1>2, <1>4 DEF In
  <2>2. sent.y + (y - sent.y) = y /\ sent.x + (x - sent.x) = x
    BY <1>2
  <2>3. cell \in Cells(sent) /\ OnFrame(sent, cell)
    BY <2>1, <2>2 DEF Cells, OnFrame
  <2>4. Target(sent, cell) = y * w + sent.x + (x - sent.x)
    BY <2>2 DEF Target
  <2>5. y * w \in Int
    OBVIOUS
  <2>. QED
    BY <1>2, <2>3, <2>4, <2>5
<1>5. Writes(sent, k) = IF In(sent, x, y) THEN {cell} ELSE {}
  BY <1>3, <1>4 DEF Writes
<1>6. Placed(sent, run)[k] =
        IF Writes(sent, k) = {} THEN 0
        ELSE run[Byte(sent, CHOOSE c \in Writes(sent, k) : TRUE)]
  BY <1>1 DEF Placed
<1>7. (CHOOSE c \in {cell} : TRUE) = cell
  OBVIOUS
<1>8. Byte(sent, cell) = (y - sent.y) * sent.width + (x - sent.x) + 1
  BY DEF Byte
<1>. HIDE DEF cell, k
<1>9. Placed(sent, run)[k] = IF In(sent, x, y) THEN run[Byte(sent, cell)] ELSE 0
  BY <1>5, <1>6, <1>7
<1>. QED
  BY <1>8, <1>9 DEF k

\* Every byte of a mask is shown at its pixel and nothing elsewhere, for every
\* position and size.  (The placement loop of decodeMaskEnvelope.)
THEOREM MasksShow == Spec => []MasksShowTheirRun
<1>1. Inv => MasksShowTheirRun
  <2>. SUFFICES ASSUME Inv, NEW r \in DOMAIN results, results[r].mask # NoMask,
                       NEW x \in 0 .. frame.width - 1, NEW y \in 0 .. frame.height - 1
                PROVE  LET sent == Sent(results[r].detection)
                       IN  results[r].mask[y * frame.width + x] =
                             IF In(sent, x, y)
                             THEN results[r].run[(y - sent.y) * sent.width + (x - sent.x) + 1]
                             ELSE 0
    BY DEF MasksShowTheirRun
  <2>1. /\ results[r].detection = r - 1
        /\ results[r].mask = Placed(Sent(r - 1), Run(r - 1))
        /\ results[r].run = Run(r - 1) /\ Known
    BY DecodedFacts DEF Decoded, MaskOf
  <2>2. Sent(r - 1) \in IntBox /\ frame.width \in Nat /\ frame.height \in Nat
    BY <2>1, DecodedFacts DEF Known
  <2>. QED
    BY <2>1, <2>2, PlacedShows
<1>. QED
  BY <1>1, DecoderCorrect, PTL

\* No offset is read, or leads, outside the tensors.  (decodeMaskEnvelope and
\* decodePolygonEnvelope.)
THEOREM OffsetsInside == Spec => []OffsetsAreInside
<1>1. Inv => OffsetsAreInside
  <2>. SUFFICES ASSUME Inv PROVE OffsetsAreInside
    OBVIOUS
  <2>1. ASSUME pc \in {"mask", "rings"}
        PROVE  Holds(PrefixOf, i) /\ Holds(PrefixOf, i + 1)
    <3>1. /\ HasPrefix /\ PrefixOf \in Numbers /\ Opened /\ answer \in Answers
          /\ PrefixOf \in Required
      BY <2>1 DEF Inv, InputOK, ControlOK, HasPrefix, PrefixOf, Numbers, Prefixes, Required
    <3>2. Len(answer[PrefixOf]) >= MaxDetections + 1 /\ PrefixOf \in DOMAIN answer
      BY <3>1 DEF Opened, TableIsWhole
    <3>3. Len(answer[PrefixOf]) \in Nat
      BY <3>1, <3>2, Elements
    <3>4. i \in Nat /\ i + 1 <= MaxDetections /\ MaxDetections \in Nat
      BY <2>1, EnvelopeAssumption DEF Inv, ControlOK, InHand
    <3>. QED
      BY <3>2, <3>3, <3>4 DEF Holds
  <2>2. ASSUME pc = "ring"
        PROVE  /\ 0 <= ring /\ ring <= last_ring
               /\ Holds("RING_POINT_OFFSETS", ring)
               /\ ring < last_ring => Holds("RING_POINT_OFFSETS", ring + 1)
    <3>1. FirstRing(i) \in Int /\ FirstRing(i + 1) \in Int
          /\ "RING_POINT_OFFSETS" \in DOMAIN answer
      BY <2>2, RingOffsetsAreInts
    <3>2. Len(answer["RING_POINT_OFFSETS"]) \in Nat
      <4>1. "RING_POINT_OFFSETS" \in Numbers /\ answer \in Answers
        BY DEF Numbers, Inv, InputOK
      <4>. QED
        BY <3>1, <4>1, Elements
    <3>. QED
      BY <2>2, <3>1, <3>2 DEF Inv, DetectionOK, RingsInside, Holds
  <2>. QED
    BY <2>1, <2>2 DEF OffsetsAreInside
<1>. QED
  BY <1>1, DecoderCorrect, PTL

\* The results are the detections at or above the threshold, each once and in
\* order.  (The loops over detections and filterByConfidence.)
THEOREM ConfidentAreKept == Spec => []ResultsAreTheConfident
<1>1. Inv => ResultsAreTheConfident
  <2>. SUFFICES ASSUME Inv, pc = "done"
                PROVE  /\ {kept[r].detection : r \in DOMAIN kept} =
                            {k \in 0 .. count - 1 : At("SCORES", k).value >= Threshold}
                       /\ \A r \in DOMAIN kept : kept[r] = results[kept[r].detection + 1]
                       /\ \A r, s \in DOMAIN kept : r < s => kept[r].detection < kept[s].detection
    BY DEF ResultsAreTheConfident
  <2>1. FilterOK /\ examined = count /\ i = count /\ Opened /\ answer \in Answers
    BY DEF Inv, FilterOK, ControlOK, InputOK
  <2>2. DOMAIN kept = 1 .. Len(kept)
    BY <2>1, AppendIsSeq DEF FilterOK
  <2>3. ASSUME NEW k \in 0 .. count - 1
        PROVE  Confident(k) <=> At("SCORES", k).value >= Threshold
    <3>1. results[k + 1].score = At("SCORES", k).value /\ Holds("SCORES", k)
      BY <2>1 DEF Inv, ResultsOK, Decoded, Fits, Read
    <3>2. "SCORES" \in DOMAIN answer
      BY <2>1 DEF Opened, Required
    <3>3. At("SCORES", k).value \in Int /\ Threshold \in Int
      BY <2>1, <3>1, <3>2, ScoreElements, EnvelopeAssumption
    <3>. QED
      BY <3>1, <3>3 DEF Confident, Below
  <2>4. \A r \in DOMAIN kept : kept[r].detection \in 0 .. count - 1 /\ Confident(kept[r].detection)
    BY <2>1, <2>2 DEF FilterOK
  <2>5. \A k \in 0 .. count - 1 : Confident(k) => \E r \in DOMAIN kept : kept[r].detection = k
    BY <2>1, <2>2 DEF FilterOK
  <2>6. {kept[r].detection : r \in DOMAIN kept} =
          {k \in 0 .. count - 1 : At("SCORES", k).value >= Threshold}
    BY <2>3, <2>4, <2>5
  <2>. QED
    BY <2>1, <2>2, <2>6 DEF FilterOK
<1>. QED
  BY <1>1, DecoderCorrect, PTL

-----------------------------------------------------------------------------
(***************************************************************************)
(* Convex rings, and the ray that pointInsideRing casts to the right.      *)
(***************************************************************************)
Plane == [x : Int, y : Int]

\* A turn is a whole number, and is nothing at the ends of its edge.
LEMMA TurnIsInt ==
  ASSUME NEW a \in Plane, NEW b \in Plane, NEW p \in Plane
  PROVE  Turn(b, a, p) \in Int /\ Turn(b, a, a) = 0 /\ Turn(b, a, b) = 0
<1>1. /\ a.x \in Int /\ a.y \in Int /\ b.x \in Int /\ b.y \in Int
      /\ p.x \in Int /\ p.y \in Int
  BY DEF Plane
<1>2. ASSUME NEW ax \in Int, NEW ay \in Int, NEW bx \in Int, NEW by \in Int
      PROVE  /\ (ax - bx) * (ay - by) - (ay - by) * (ax - bx) = 0
             /\ (ax - bx) * (by - by) - (ay - by) * (bx - bx) = 0
  OBVIOUS
<1>3. Turn(b, a, p) \in Int
  BY <1>1 DEF Turn
<1>4. Turn(b, a, a) = 0
  BY <1>1, <1>2 DEF Turn
<1>5. Turn(b, a, b) = 0
  BY <1>1, <1>2 DEF Turn
<1> QED BY <1>3, <1>4, <1>5

\* The quantity the ray test of pointInsideRing compares with zero.
LEMMA TurnAtCrossing ==
  ASSUME NEW a \in Plane, NEW b \in Plane, NEW p \in Plane
  PROVE  Turn(b, a, p) = (p.x - a.x) * (b.y - a.y) - (b.x - a.x) * (p.y - a.y)
<1>1. /\ a.x \in Int /\ a.y \in Int /\ b.x \in Int /\ b.y \in Int
      /\ p.x \in Int /\ p.y \in Int
  BY DEF Plane
<1>2. ASSUME NEW ax \in Int, NEW ay \in Int, NEW bx \in Int, NEW by \in Int,
             NEW px \in Int, NEW py \in Int
      PROVE  (ax - bx) * (py - by) - (ay - by) * (px - bx)
               = (px - ax) * (by - ay) - (bx - ax) * (py - ay)
  OBVIOUS
<1> QED BY <1>1, <1>2 DEF Turn

\* Relative to a point: the three turns and two heights of an edge and another.
LEMMA EdgeIdentity ==
  ASSUME NEW a \in Plane, NEW b \in Plane, NEW u \in Plane, NEW v \in Plane, NEW p \in Plane
  PROVE  (v.y - p.y) * Turn(b, a, u) - (u.y - p.y) * Turn(b, a, v)
           = (v.y - u.y) * Turn(b, a, p) - (a.y - b.y) * Turn(u, v, p)
<1>1. /\ a.x \in Int /\ a.y \in Int /\ b.x \in Int /\ b.y \in Int
      /\ u.x \in Int /\ u.y \in Int /\ v.x \in Int /\ v.y \in Int
      /\ p.x \in Int /\ p.y \in Int
  BY DEF Plane
<1>2. ASSUME NEW ax \in Int, NEW ay \in Int, NEW bx \in Int, NEW by \in Int,
             NEW ux \in Int, NEW uy \in Int, NEW vx \in Int, NEW vy \in Int,
             NEW px \in Int, NEW py \in Int
      PROVE  (vy - py) * ((ax - bx) * (uy - by) - (ay - by) * (ux - bx))
               - (uy - py) * ((ax - bx) * (vy - by) - (ay - by) * (vx - bx))
             = (vy - uy) * ((ax - bx) * (py - by) - (ay - by) * (px - bx))
               - (ay - by) * ((vx - ux) * (py - uy) - (vy - uy) * (px - ux))
  OBVIOUS
<1> QED BY <1>1, <1>2 DEF Turn

\* The turn at a vertex, from the turns of its two edges about a point.
LEMMA VertexIdentity ==
  ASSUME NEW b \in Plane, NEW m \in Plane, NEW s \in Plane, NEW p \in Plane
  PROVE  (m.y - p.y) * Turn(b, m, s)
           = (m.y - b.y) * Turn(m, s, p) + (m.y - s.y) * Turn(b, m, p)
<1>1. /\ b.x \in Int /\ b.y \in Int /\ m.x \in Int /\ m.y \in Int
      /\ s.x \in Int /\ s.y \in Int /\ p.x \in Int /\ p.y \in Int
  BY DEF Plane
<1>2. ASSUME NEW bx \in Int, NEW by \in Int, NEW mx \in Int, NEW my \in Int,
             NEW sx \in Int, NEW sy \in Int, NEW px \in Int, NEW py \in Int
      PROVE  (my - py) * ((mx - bx) * (sy - by) - (my - by) * (sx - bx))
             = (my - by) * ((sx - mx) * (py - my) - (sy - my) * (px - mx))
               + (my - sy) * ((mx - bx) * (py - by) - (my - by) * (px - bx))
  OBVIOUS
<1> QED BY <1>1, <1>2 DEF Turn
-----------------------------------------------------------------------------
\* A ring of a polygon, as the decoder accepts it.
Ring == {points \in Seq(Plane) : Len(points) >= 3}

Above(points, c, p) == points[c].y > p.y

Rises(points, c, p) == Above(points, c, p) /\ ~ Above(points, Before(points, c), p)

Falls(points, c, p) == ~ Above(points, c, p) /\ Above(points, Before(points, c), p)

\* The edge that ends at c, seen from p.
Side(points, c, p) == Turn(Previous(points, c), points[c], p)

\* Where an edge begins and what it is made of.
LEMMA RingEdge ==
  ASSUME NEW points \in Ring, NEW c \in DOMAIN points
  PROVE  /\ Len(points) \in Nat /\ Len(points) >= 3 /\ DOMAIN points = 1 .. Len(points)
         /\ Before(points, c) \in DOMAIN points /\ Before(points, c) # c
         /\ Previous(points, c) = points[Before(points, c)]
         /\ points[c] \in Plane /\ Previous(points, c) \in Plane
<1>1. points \in Seq(Plane) /\ Len(points) \in Nat /\ Len(points) >= 3
  BY DEF Ring
<1>2. DOMAIN points = 1 .. Len(points)
  BY <1>1
<1>3. Before(points, c) \in DOMAIN points /\ Before(points, c) # c
  BY <1>1, <1>2 DEF Before
<1>4. Previous(points, c) = points[Before(points, c)]
  BY <1>1, <1>2 DEF Before, Previous
<1>5. \A k \in DOMAIN points : points[k] \in Plane
  BY <1>1
<1> QED BY <1>1, <1>2, <1>3, <1>4, <1>5

\* An edge crosses the ray just if it rises past a point on its left or falls
\* past one on its right. (the comparison in pointInsideRing.)
LEMMA CrossesBySide ==
  ASSUME NEW points \in Ring, NEW c \in DOMAIN points, NEW p \in Plane
  PROVE  Crosses(points, c, p) <=>
           \/ Rises(points, c, p) /\ Side(points, c, p) > 0
           \/ Falls(points, c, p) /\ Side(points, c, p) < 0
<1> DEFINE a == points[c]
           b == Previous(points, c)
           dy == b.y - a.y
           nx == (b.x - a.x) * (p.y - a.y)
           l == (p.x - a.x) * dy
<1>1. a \in Plane /\ b \in Plane /\ b = points[Before(points, c)]
  BY RingEdge
<1>2. /\ a.x \in Int /\ a.y \in Int /\ b.x \in Int /\ b.y \in Int
      /\ p.x \in Int /\ p.y \in Int
  BY <1>1 DEF Plane
<1>3. Side(points, c, p) = l - nx
  BY <1>1, TurnAtCrossing DEF Side
<1>4. Crosses(points, c, p) <=>
        /\ (a.y > p.y) # (b.y > p.y)
        /\ IF dy > 0 THEN l < nx ELSE l > nx
  BY DEF Crosses
<1>5. /\ Above(points, c, p) <=> a.y > p.y
      /\ Above(points, Before(points, c), p) <=> b.y > p.y
  BY <1>1 DEF Above
<1>6. l \in Int /\ nx \in Int /\ dy \in Int
  BY <1>2
<1>7. (l - nx > 0 <=> l > nx) /\ (l - nx < 0 <=> l < nx)
  <2> HIDE DEF l, nx
  <2> QED BY <1>6
<1>8. CASE a.y > p.y /\ ~ b.y > p.y
  <2>1. ~ dy > 0
    BY <1>2, <1>8
  <2> HIDE DEF l, nx, dy
  <2> QED BY <1>3, <1>4, <1>5, <1>7, <1>8, <2>1 DEF Rises, Falls
<1>9. CASE ~ a.y > p.y /\ b.y > p.y
  <2>1. dy > 0
    BY <1>2, <1>9
  <2> HIDE DEF l, nx, dy
  <2> QED BY <1>3, <1>4, <1>5, <1>7, <1>9, <2>1 DEF Rises, Falls
<1>10. CASE (a.y > p.y) <=> (b.y > p.y)
  BY <1>4, <1>5, <1>10 DEF Rises, Falls
<1> QED BY <1>8, <1>9, <1>10

-----------------------------------------------------------------------------
Orientation == {-1, 1}

\* Every edge has the other points on its left (1), or on its right (-1).
Turned(points, side) ==
  \A c \in DOMAIN points : \A k \in DOMAIN points \ {c, Before(points, c)} :
    side * Turn(Previous(points, c), points[c], points[k]) > 0

\* Which side of the edge that ends at e point k lies on, and p.
Lies(points, side, e, k) == side * Turn(Previous(points, e), points[e], points[k])

Seen(points, side, e, p) == side * Side(points, e, p)

Height(points, e) == points[e].y - Previous(points, e).y

\* Signs of products.
LEMMA Products ==
  ASSUME NEW a \in Int, NEW b \in Int
  PROVE  /\ a * b \in Int
         /\ a >= 0 /\ b >= 0 => a * b >= 0
         /\ a > 0 /\ b > 0 => a * b > 0
         /\ a <= 0 /\ b >= 0 => a * b <= 0
         /\ a >= 0 /\ b <= 0 => a * b <= 0
         /\ a <= 0 /\ b <= 0 => a * b >= 0
         /\ a < 0 /\ b > 0 => a * b < 0
         /\ a > 0 /\ b < 0 => a * b < 0
         /\ a < 0 /\ b < 0 => a * b > 0
<1>1. a * b \in Int
  OBVIOUS
<1>2. a >= 0 /\ b >= 0 => a * b >= 0
  OBVIOUS
<1>3. a > 0 /\ b > 0 => a * b > 0
  OBVIOUS
<1>4. a <= 0 /\ b >= 0 => a * b <= 0
  OBVIOUS
<1>5. a >= 0 /\ b <= 0 => a * b <= 0
  OBVIOUS
<1>6. a <= 0 /\ b <= 0 => a * b >= 0
  OBVIOUS
<1>7. a < 0 /\ b > 0 => a * b < 0
  OBVIOUS
<1>8. a > 0 /\ b < 0 => a * b < 0
  OBVIOUS
<1>9. a < 0 /\ b < 0 => a * b > 0
  OBVIOUS
<1> QED BY <1>1, <1>2, <1>3, <1>4, <1>5, <1>6, <1>7, <1>8, <1>9

\* No two edges begin at the same point.
LEMMA BeforeIsOneToOne ==
  ASSUME NEW points \in Ring, NEW c \in DOMAIN points, NEW e \in DOMAIN points,
         Before(points, c) = Before(points, e)
  PROVE  c = e
<1>1. DOMAIN points = 1 .. Len(points) /\ Len(points) \in Nat
  BY RingEdge
<1> QED BY <1>1 DEF Before

\* All points of a turned ring lie on the inner side of every edge.
LEMMA LiesInside ==
  ASSUME NEW points \in Ring, NEW side \in Orientation, Turned(points, side),
         NEW e \in DOMAIN points, NEW k \in DOMAIN points
  PROVE  /\ Lies(points, side, e, k) \in Int /\ Lies(points, side, e, k) >= 0
         /\ k # e /\ k # Before(points, e) => Lies(points, side, e, k) > 0
<1>1. /\ points[e] \in Plane /\ Previous(points, e) \in Plane /\ points[k] \in Plane
      /\ Previous(points, e) = points[Before(points, e)]
  BY RingEdge
<1> DEFINE t == Turn(Previous(points, e), points[e], points[k])
<1>2. t \in Int /\ (k = e \/ k = Before(points, e) => t = 0)
  BY <1>1, TurnIsInt
<1>3. k # e /\ k # Before(points, e) => side * t > 0
  BY DEF Turned
<1>4. Lies(points, side, e, k) = side * t
  BY DEF Lies
<1> HIDE DEF t
<1>5. side * t \in Int /\ (t = 0 => side * t = 0)
  BY <1>2 DEF Orientation
<1> QED BY <1>2, <1>3, <1>4, <1>5

\* The identity of two edges, for either orientation.
LEMMA SeenIdentity ==
  ASSUME NEW points \in Ring, NEW side \in Orientation, NEW p \in Plane,
         NEW c \in DOMAIN points, NEW e \in DOMAIN points
  PROVE  /\ Seen(points, side, e, p) \in Int /\ Height(points, e) \in Int
         /\ (points[c].y - p.y) * Lies(points, side, e, Before(points, c))
              - (points[Before(points, c)].y - p.y) * Lies(points, side, e, c)
            = Height(points, c) * Seen(points, side, e, p)
              - Height(points, e) * Seen(points, side, c, p)
<1> DEFINE a == points[e]
           b == Previous(points, e)
           v == points[c]
           u == Previous(points, c)
           tu == Turn(b, a, u)
           tv == Turn(b, a, v)
           se == Turn(b, a, p)
           sc == Turn(u, v, p)
<1>1. /\ a \in Plane /\ b \in Plane /\ u \in Plane /\ v \in Plane
      /\ u = points[Before(points, c)]
  BY RingEdge
<1>2. (v.y - p.y) * tu - (u.y - p.y) * tv = (v.y - u.y) * se - (a.y - b.y) * sc
  BY <1>1, EdgeIdentity
<1>3. tu \in Int /\ tv \in Int /\ se \in Int /\ sc \in Int
  BY <1>1, TurnIsInt
<1>4. /\ v.y - p.y \in Int /\ u.y - p.y \in Int /\ v.y - u.y \in Int /\ a.y - b.y \in Int
  BY <1>1 DEF Plane
<1>5. /\ Lies(points, side, e, Before(points, c)) = side * tu
      /\ Lies(points, side, e, c) = side * tv
      /\ Seen(points, side, e, p) = side * se
      /\ Seen(points, side, c, p) = side * sc
      /\ Height(points, c) = v.y - u.y /\ Height(points, e) = a.y - b.y
      /\ points[Before(points, c)].y = u.y /\ points[c].y = v.y
  BY <1>1 DEF Lies, Seen, Side, Height
<1>6. ASSUME NEW yv \in Int, NEW yu \in Int, NEW h \in Int, NEW d \in Int,
             NEW ku \in Int, NEW kv \in Int, NEW ke \in Int, NEW kc \in Int,
             yv * ku - yu * kv = h * ke - d * kc
      PROVE  yv * (side * ku) - yu * (side * kv) = h * (side * ke) - d * (side * kc)
  <2>1. CASE side = 1
    BY <1>6, <2>1
  <2>2. CASE side = -1
    <3>1. /\ yv * (side * ku) = - (yv * ku) /\ yu * (side * kv) = - (yu * kv)
          /\ h * (side * ke) = - (h * ke) /\ d * (side * kc) = - (d * kc)
      BY <2>2
    <3>2. yv * ku \in Int /\ yu * kv \in Int /\ h * ke \in Int /\ d * kc \in Int
      OBVIOUS
    <3> QED BY <1>6, <3>1, <3>2
  <2> QED BY <2>1, <2>2 DEF Orientation
<1>7. side * se \in Int
  BY <1>3 DEF Orientation
<1> HIDE DEF a, b, u, v, tu, tv, se, sc
<1>8. (v.y - p.y) * (side * tu) - (u.y - p.y) * (side * tv)
        = (v.y - u.y) * (side * se) - (a.y - b.y) * (side * sc)
  BY <1>2, <1>3, <1>4, <1>6
<1> QED BY <1>4, <1>5, <1>7, <1>8

\* Rising and falling, in heights.
LEMMA HeightsOf ==
  ASSUME NEW points \in Ring, NEW c \in DOMAIN points, NEW p \in Plane
  PROVE  /\ points[c].y - p.y \in Int /\ points[Before(points, c)].y - p.y \in Int
         /\ Above(points, c, p) <=> points[c].y - p.y > 0
         /\ Above(points, Before(points, c), p) <=> points[Before(points, c)].y - p.y > 0
         /\ Rises(points, c, p) => Height(points, c) > 0
         /\ Falls(points, c, p) => Height(points, c) < 0
         /\ Height(points, c) \in Int
<1>1. points[c] \in Plane /\ points[Before(points, c)] \in Plane
      /\ Previous(points, c) = points[Before(points, c)]
  BY RingEdge
<1>2. points[c].y \in Int /\ points[Before(points, c)].y \in Int /\ p.y \in Int
  BY <1>1 DEF Plane
<1> QED BY <1>1, <1>2 DEF Above, Rises, Falls, Height

\* What a rising edge says of how every other edge is seen.
LEMMA RiseBounds ==
  ASSUME NEW points \in Ring, NEW side \in Orientation, Turned(points, side),
         NEW p \in Plane, NEW c \in DOMAIN points, NEW e \in DOMAIN points,
         Rises(points, c, p)
  PROVE  LET l == Height(points, c) * Seen(points, side, e, p)
             r == Height(points, e) * Seen(points, side, c, p)
         IN  /\ l >= r
             /\ Before(points, c) # e /\ Before(points, c) # Before(points, e) => l > r
<1> DEFINE yv == points[c].y - p.y
           yu == points[Before(points, c)].y - p.y
           ku == Lies(points, side, e, Before(points, c))
           kv == Lies(points, side, e, c)
           l == Height(points, c) * Seen(points, side, e, p)
           r == Height(points, e) * Seen(points, side, c, p)
<1>1. yv \in Int /\ yu \in Int /\ yv > 0 /\ yu <= 0
  BY HeightsOf DEF Rises
<1>2. /\ ku \in Int /\ ku >= 0 /\ kv \in Int /\ kv >= 0
      /\ Before(points, c) # e /\ Before(points, c) # Before(points, e) => ku > 0
  BY RingEdge, LiesInside
<1>3. l \in Int /\ r \in Int /\ yv * ku - yu * kv = l - r
  BY SeenIdentity, Products
<1> HIDE DEF yv, yu, ku, kv, l, r
<1>4. yv * ku >= 0 /\ (ku > 0 => yv * ku > 0) /\ yu * kv <= 0
      /\ yv * ku \in Int /\ yu * kv \in Int
  BY <1>1, <1>2, Products
<1>5. l >= r /\ (ku > 0 => l > r)
  BY <1>3, <1>4
<1> QED BY <1>2, <1>5 DEF l, r

\* What a falling edge says.
LEMMA FallBounds ==
  ASSUME NEW points \in Ring, NEW side \in Orientation, Turned(points, side),
         NEW p \in Plane, NEW c \in DOMAIN points, NEW e \in DOMAIN points,
         Falls(points, c, p)
  PROVE  LET l == Height(points, c) * Seen(points, side, e, p)
             r == Height(points, e) * Seen(points, side, c, p)
         IN  /\ l <= r
             /\ c # e /\ c # Before(points, e) => l < r
<1> DEFINE yv == points[c].y - p.y
           yu == points[Before(points, c)].y - p.y
           ku == Lies(points, side, e, Before(points, c))
           kv == Lies(points, side, e, c)
           l == Height(points, c) * Seen(points, side, e, p)
           r == Height(points, e) * Seen(points, side, c, p)
<1>1. yv \in Int /\ yu \in Int /\ yv <= 0 /\ yu > 0
  BY HeightsOf DEF Falls
<1>2. /\ ku \in Int /\ ku >= 0 /\ kv \in Int /\ kv >= 0
      /\ c # e /\ c # Before(points, e) => kv > 0
  BY RingEdge, LiesInside
<1>3. l \in Int /\ r \in Int /\ yv * ku - yu * kv = l - r
  BY SeenIdentity, Products
<1> HIDE DEF yv, yu, ku, kv, l, r
<1>4. yv * ku <= 0 /\ (kv > 0 => yu * kv > 0) /\ yu * kv >= 0
      /\ yv * ku \in Int /\ yu * kv \in Int
  BY <1>1, <1>2, Products
<1>5. l <= r /\ (kv > 0 => l < r)
  BY <1>3, <1>4
<1> QED BY <1>2, <1>5 DEF l, r

\* A convex ring rises past a height in one edge at most, and falls in one.
LEMMA OneRiseOneFall ==
  ASSUME NEW points \in Ring, NEW side \in Orientation, Turned(points, side),
         NEW p \in Plane, NEW c \in DOMAIN points, NEW e \in DOMAIN points
  PROVE  /\ Rises(points, c, p) /\ Rises(points, e, p) => c = e
         /\ Falls(points, c, p) /\ Falls(points, e, p) => c = e
<1> DEFINE l == Height(points, c) * Seen(points, side, e, p)
           r == Height(points, e) * Seen(points, side, c, p)
<1>1. l \in Int /\ r \in Int
  BY SeenIdentity, Products
<1>2. Before(points, c) \in DOMAIN points /\ Before(points, e) \in DOMAIN points
  BY RingEdge
<1>3. ASSUME Rises(points, c, p), Rises(points, e, p), c # e PROVE FALSE
  <2>1. Before(points, c) # e /\ Before(points, e) # c
    BY <1>3 DEF Rises
  <2>2. Before(points, c) # Before(points, e)
    BY <1>3, BeforeIsOneToOne
  <2>3. l > r
    BY <1>3, <2>1, <2>2, RiseBounds
  <2>4. r > l
    BY <1>3, <2>1, <2>2, RiseBounds
  <2> HIDE DEF l, r
  <2> QED BY <1>1, <2>3, <2>4
<1>4. ASSUME Falls(points, c, p), Falls(points, e, p), c # e PROVE FALSE
  <2>1. c # Before(points, e) /\ e # Before(points, c)
    BY <1>4 DEF Falls
  <2>2. l < r
    BY <1>4, <2>1, FallBounds
  <2>3. r < l
    BY <1>4, <2>1, FallBounds
  <2> HIDE DEF l, r
  <2> QED BY <1>1, <2>2, <2>3
<1> QED BY <1>3, <1>4

-----------------------------------------------------------------------------
\* Induction on the natural numbers, in terms of sets.
LEMMA SetInduction ==
  ASSUME NEW S, 0 \in S, \A n \in Nat : n \in S => n + 1 \in S
  PROVE  Nat \subseteq S
<1> DEFINE T == Nat \ S
           R == OpToRel(<, Nat)
<1>1. SUFFICES ASSUME T # {} PROVE FALSE
  OBVIOUS
<1>2. IsWellFoundedOn(R, Nat)
  BY NatLessThanWellFounded
<1>3. PICK x \in T : \A y \in T : ~ (<<y, x>> \in R)
  <2> HIDE DEF R
  <2>1. T \subseteq Nat
    OBVIOUS
  <2> HIDE DEF T
  <2> QED
    BY WFMin, <1>1, <1>2, <2>1
<1>4. x \in Nat /\ x # 0 /\ x \notin S
  OBVIOUS
<1>5. x - 1 \in Nat /\ x - 1 < x
  BY <1>4
<1>6. <<x - 1, x>> \in R
  BY <1>4, <1>5 DEF OpToRel
<1>7. x - 1 \in S
  BY <1>3, <1>5, <1>6
<1> QED
  BY <1>4, <1>5, <1>7

\* Among finitely many numbers there is a least, and a greatest.
LEMMA LeastOf ==
  ASSUME NEW n \in Nat \ {0}, NEW f, \A k \in 1 .. n : f[k] \in Int
  PROVE  \E m \in 1 .. n : \A k \in 1 .. n : f[m] <= f[k]
<1> DEFINE Least(j) == \E m \in 1 .. j : \A k \in 1 .. j : f[m] <= f[k]
           S == {j \in Nat : j + 1 <= n => Least(j + 1)}
<1>1. 0 \in S
  OBVIOUS
<1>2. ASSUME NEW j \in Nat, j \in S PROVE j + 1 \in S
  <2> SUFFICES ASSUME (j + 1) + 1 <= n PROVE Least((j + 1) + 1)
    OBVIOUS
  <2>1. PICK m \in 1 .. j + 1 : \A k \in 1 .. j + 1 : f[m] <= f[k]
    BY <1>2
  <2> DEFINE l == (j + 1) + 1
  <2>2. l \in 1 .. n /\ m \in 1 .. n /\ 1 .. l = (1 .. j + 1) \cup {l}
    OBVIOUS
  <2>3. f[l] \in Int /\ f[m] \in Int /\ \A k \in 1 .. j + 1 : f[k] \in Int
    BY <2>2
  <2>4. CASE f[m] <= f[l]
    <3>1. m \in 1 .. l /\ \A k \in 1 .. l : f[m] <= f[k]
      BY <2>1, <2>2, <2>4
    <3> QED BY <3>1
  <2>5. CASE f[l] < f[m]
    <3>1. \A k \in 1 .. j + 1 : f[l] <= f[k]
      BY <2>1, <2>3, <2>5
    <3>2. l \in 1 .. l /\ \A k \in 1 .. l : f[l] <= f[k]
      BY <2>2, <2>3, <3>1
    <3> QED BY <3>2
  <2> QED BY <2>3, <2>4, <2>5
<1>3. Nat \subseteq S
  <2> HIDE DEF S
  <2> QED BY <1>1, <1>2, SetInduction
<1>4. n - 1 \in S /\ (n - 1) + 1 = n
  BY <1>3
<1>5. Least(n)
  BY <1>4
<1> QED BY <1>5

\* The lowest and the highest point of a ring.
LEMMA Extremes ==
  ASSUME NEW points \in Ring
  PROVE  /\ \E m \in DOMAIN points : \A k \in DOMAIN points : points[m].y <= points[k].y
         /\ \E m \in DOMAIN points : \A k \in DOMAIN points : points[m].y >= points[k].y
<1> DEFINE n == Len(points)
           f == [k \in 1 .. n |-> points[k].y]
           g == [k \in 1 .. n |-> - points[k].y]
<1>1. n \in Nat \ {0} /\ DOMAIN points = 1 .. n /\ \A k \in 1 .. n : points[k].y \in Int
  <2>1. points \in Seq(Plane) /\ Len(points) >= 3
    BY DEF Ring
  <2>2. n \in Nat \ {0} /\ DOMAIN points = 1 .. n
    BY <2>1
  <2>3. \A k \in 1 .. n : points[k] \in Plane
    BY <2>1
  <2> QED BY <2>2, <2>3 DEF Plane
<1> HIDE DEF n
<1>2. \E m \in 1 .. n : \A k \in 1 .. n : f[m] <= f[k]
  <2>1. \A k \in 1 .. n : f[k] \in Int
    BY <1>1
  <2> HIDE DEF f
  <2> QED BY <1>1, <2>1, LeastOf
<1>3. \E m \in 1 .. n : \A k \in 1 .. n : g[m] <= g[k]
  <2>1. \A k \in 1 .. n : g[k] \in Int
    BY <1>1
  <2> HIDE DEF g
  <2> QED BY <1>1, <2>1, LeastOf
<1>4. \A m, k \in 1 .. n : (f[m] <= f[k] <=> points[m].y <= points[k].y)
                        /\ (g[m] <= g[k] <=> points[m].y >= points[k].y)
  BY <1>1
<1> HIDE DEF f, g
<1> QED BY <1>1, <1>2, <1>3, <1>4

\* The least element of a set of numbers.
LEMMA Smallest ==
  ASSUME NEW T, T \subseteq Nat, T # {}
  PROVE  \E s \in T : \A k \in T : s <= k
<1> DEFINE R == OpToRel(<, Nat)
<1>1. IsWellFoundedOn(R, Nat)
  BY NatLessThanWellFounded
<1>2. PICK s \in T : \A k \in T : ~ (<<k, s>> \in R)
  <2> HIDE DEF R
  <2> QED BY <1>1, WFMin
<1>3. ASSUME NEW k \in T PROVE s <= k
  <2>1. k < s => <<k, s>> \in R
    BY DEF OpToRel
  <2>2. s \in Nat /\ k \in Nat /\ ~ (<<k, s>> \in R)
    BY <1>2
  <2> HIDE DEF R
  <2> QED BY <2>1, <2>2
<1> QED BY <1>3

\* Around a ring that is partly in a set, an edge enters the set.
LEMMA EdgeEnters ==
  ASSUME NEW points \in Ring, NEW T, NEW j \in DOMAIN points, NEW l \in DOMAIN points,
         j \in T, l \notin T
  PROVE  \E c \in DOMAIN points : c \in T /\ Before(points, c) \notin T
<1> DEFINE n == Len(points)
<1>1. n \in Nat /\ n >= 3 /\ DOMAIN points = 1 .. n
  BY RingEdge
<1>2. \A c \in 1 .. n : Before(points, c) = IF c = 1 THEN n ELSE c - 1
  BY DEF Before
<1> HIDE DEF n
<1>3. CASE \E k \in T \cap (1 .. n) : k > l
  <2> DEFINE A == {k \in T \cap (1 .. n) : k > l}
  <2>1. A \subseteq Nat /\ A # {}
    BY <1>1, <1>3
  <2>2. PICK s \in A : \A k \in A : s <= k
    <3> HIDE DEF A
    <3> QED BY <2>1, Smallest
  <2>3. s \in 1 .. n /\ s \in T /\ s > l /\ l \in 1 .. n
    BY <1>1
  <2>4. s - 1 \in 1 .. n /\ s # 1 /\ (s - 1 > l \/ s - 1 = l) /\ ~ s <= s - 1
    BY <1>1, <2>3
  <2>5. s - 1 \notin T
    BY <2>2, <2>4
  <2> QED BY <1>1, <1>2, <2>3, <2>4, <2>5
<1>4. CASE \A k \in T \cap (1 .. n) : ~ k > l
  <2> DEFINE A == T \cap (1 .. n)
  <2>1. A \subseteq Nat /\ A # {}
    BY <1>1
  <2>2. PICK s \in A : \A k \in A : s <= k
    <3> HIDE DEF A
    <3> QED BY <2>1, Smallest
  <2>3. s \in 1 .. n /\ s \in T /\ l \in 1 .. n
    BY <1>1
  <2>4. CASE s = 1
    <3>1. n \notin T
      BY <1>1, <1>4, <2>3
    <3> QED BY <1>1, <1>2, <2>3, <2>4, <3>1
  <2>5. CASE s # 1
    <3>1. s - 1 \in 1 .. n /\ ~ s <= s - 1
      BY <1>1, <2>3, <2>5
    <3>2. s - 1 \notin T
      BY <2>2, <3>1
    <3> QED BY <1>1, <1>2, <2>3, <2>5, <3>1, <3>2
  <2> QED BY <2>4, <2>5
<1> QED BY <1>3, <1>4

\* A ring with points above a height and points not above it rises past it
\* and falls.
LEMMA RisesAndFalls ==
  ASSUME NEW points \in Ring, NEW p \in Plane,
         NEW j \in DOMAIN points, NEW l \in DOMAIN points,
         Above(points, j, p), ~ Above(points, l, p)
  PROVE  /\ \E c \in DOMAIN points : Rises(points, c, p)
         /\ \E c \in DOMAIN points : Falls(points, c, p)
<1> DEFINE U == {k \in DOMAIN points : Above(points, k, p)}
           D == {k \in DOMAIN points : ~ Above(points, k, p)}
<1>1. j \in U /\ l \notin U /\ l \in D /\ j \notin D
  OBVIOUS
<1>2. \E c \in DOMAIN points : c \in U /\ Before(points, c) \notin U
  <2> HIDE DEF U
  <2> QED BY <1>1, EdgeEnters
<1>3. \E c \in DOMAIN points : c \in D /\ Before(points, c) \notin D
  <2> HIDE DEF D
  <2> QED BY <1>1, EdgeEnters
<1>4. \A c \in DOMAIN points : Before(points, c) \in DOMAIN points
  BY RingEdge
<1> QED BY <1>2, <1>3, <1>4 DEF Rises, Falls

\* The index after m, around the ring.
After(points, m) == IF m = Len(points) THEN 1 ELSE m + 1

\* The edge that begins where another ends.
LEMMA NextEdge ==
  ASSUME NEW points \in Ring, NEW m \in DOMAIN points
  PROVE  /\ After(points, m) \in DOMAIN points
         /\ Before(points, After(points, m)) = m
         /\ After(points, m) # m /\ After(points, m) # Before(points, m)
<1>1. Len(points) \in Nat /\ Len(points) >= 3 /\ DOMAIN points = 1 .. Len(points)
  BY RingEdge
<1> QED BY <1>1 DEF After, Before

\* The identity of a vertex, for either orientation: its height times its turn.
LEMMA VertexSeen ==
  ASSUME NEW points \in Ring, NEW side \in Orientation, Turned(points, side),
         NEW p \in Plane, NEW m \in DOMAIN points
  PROVE  LET s == After(points, m)
             b == Before(points, m)
             y == points[m].y - p.y
         IN  \E turn \in Int :
               /\ turn > 0
               /\ y * turn = (points[m].y - points[b].y) * Seen(points, side, s, p)
                             + (points[m].y - points[s].y) * Seen(points, side, m, p)
<1> DEFINE s == After(points, m)
           b == Before(points, m)
           y == points[m].y - p.y
           pb == points[b]
           pm == points[m]
           ps == points[s]
           t == Turn(pb, pm, ps)
           tm == Turn(pb, pm, p)
           ts == Turn(pm, ps, p)
<1>1. s \in DOMAIN points /\ b \in DOMAIN points /\ Before(points, s) = m /\ s # m /\ s # b
  BY NextEdge, RingEdge
<1>2. pb \in Plane /\ pm \in Plane /\ ps \in Plane
      /\ Previous(points, m) = pb /\ Previous(points, s) = pm
  BY <1>1, RingEdge
<1>3. side * t > 0
  BY <1>1, <1>2 DEF Turned
<1>4. t \in Int /\ tm \in Int /\ ts \in Int
  BY <1>2, TurnIsInt
<1>5. (pm.y - p.y) * t = (pm.y - pb.y) * ts + (pm.y - ps.y) * tm
  BY <1>2, VertexIdentity
<1>6. Seen(points, side, s, p) = side * ts /\ Seen(points, side, m, p) = side * tm
  BY <1>2 DEF Seen, Side
<1>7. pm.y - p.y \in Int /\ pm.y - pb.y \in Int /\ pm.y - ps.y \in Int
  BY <1>2 DEF Plane
<1>8. ASSUME NEW h \in Int, NEW hb \in Int, NEW hs \in Int,
             NEW k \in Int, NEW kb \in Int, NEW ks \in Int, h * k = hb * kb + hs * ks
      PROVE  h * (side * k) = hb * (side * kb) + hs * (side * ks)
  <2>1. CASE side = 1
    BY <1>8, <2>1
  <2>2. CASE side = -1
    <3>1. /\ h * (side * k) = - (h * k) /\ hb * (side * kb) = - (hb * kb)
          /\ hs * (side * ks) = - (hs * ks)
      BY <2>2
    <3>2. h * k \in Int /\ hb * kb \in Int /\ hs * ks \in Int
      OBVIOUS
    <3> QED BY <1>8, <3>1, <3>2
  <2> QED BY <2>1, <2>2 DEF Orientation
<1>9. side * t \in Int
  BY <1>4 DEF Orientation
<1> HIDE DEF s, b, pb, pm, ps, t, tm, ts
<1>10. (pm.y - p.y) * (side * t) = (pm.y - pb.y) * (side * ts) + (pm.y - ps.y) * (side * tm)
  BY <1>4, <1>5, <1>7, <1>8
<1>11. y * (side * t) = (points[m].y - points[b].y) * Seen(points, side, s, p)
                        + (points[m].y - points[s].y) * Seen(points, side, m, p)
  BY <1>6, <1>10 DEF pm, pb, ps
<1> QED BY <1>3, <1>9, <1>11 DEF s, b

\* An edge level with p is seen from neither side.
LEMMA LevelEdge ==
  ASSUME NEW points \in Ring, NEW side \in Orientation, NEW p \in Plane,
         NEW m \in DOMAIN points,
         points[m].y = p.y, points[Before(points, m)].y = p.y
  PROVE  Seen(points, side, m, p) = 0
<1> DEFINE a == points[m]
           b == Previous(points, m)
<1>1. a \in Plane /\ b \in Plane /\ b = points[Before(points, m)]
  BY RingEdge
<1>2. Turn(b, a, p) = (p.x - a.x) * (b.y - a.y) - (b.x - a.x) * (p.y - a.y)
  BY <1>1, TurnAtCrossing
<1>3. b.y - a.y = 0 /\ p.y - a.y = 0 /\ p.x - a.x \in Int /\ b.x - a.x \in Int
  BY <1>1 DEF Plane
<1>4. Turn(b, a, p) = 0
  <2> HIDE DEF a, b
  <2> QED BY <1>2, <1>3
<1> QED BY <1>4 DEF Seen, Side, Orientation

\* A point seen from the same side by every edge is not above the whole ring,
\* nor below it.
LEMMA SeenFromWithin ==
  ASSUME NEW points \in Ring, NEW side \in Orientation, Turned(points, side),
         NEW p \in Plane, NEW tau \in Orientation,
         \A c \in DOMAIN points : tau * Seen(points, side, c, p) > 0
  PROVE  /\ \E j \in DOMAIN points : Above(points, j, p)
         /\ \E l \in DOMAIN points : ~ Above(points, l, p)
<1>0. /\ \A c \in DOMAIN points : /\ Seen(points, side, c, p) \in Int
                                  /\ points[c] \in Plane /\ points[c].y \in Int
                                  /\ Before(points, c) \in DOMAIN points
                                  /\ After(points, c) \in DOMAIN points
      /\ p.y \in Int
  <2>1. p.y \in Int
    BY DEF Plane
  <2>2. ASSUME NEW c \in DOMAIN points
        PROVE  /\ Seen(points, side, c, p) \in Int
               /\ points[c] \in Plane /\ points[c].y \in Int
               /\ Before(points, c) \in DOMAIN points
               /\ After(points, c) \in DOMAIN points
    <3>1. points[c] \in Plane /\ Before(points, c) \in DOMAIN points
      BY RingEdge
    <3> QED BY <3>1, SeenIdentity, NextEdge DEF Plane
  <2> QED BY <2>1, <2>2
<1>1. ASSUME NEW m \in DOMAIN points,
             NEW up \in Orientation,
             \A k \in DOMAIN points : up * (points[m].y - points[k].y) * tau <= 0,
             \A k \in DOMAIN points : up * (points[k].y - p.y) >= 0,
             up = -1 \/ points[m].y > p.y
      PROVE  FALSE
  <2> DEFINE s == After(points, m)
             b == Before(points, m)
             y == points[m].y - p.y
             hb == points[m].y - points[b].y
             hs == points[m].y - points[s].y
             vs == Seen(points, side, s, p)
             vm == Seen(points, side, m, p)
  <2>1. PICK turn \in Int : turn > 0 /\ y * turn = hb * vs + hs * vm
    BY VertexSeen
  <2>2. s \in DOMAIN points /\ b \in DOMAIN points
    BY <1>0
  <2>3. y \in Int /\ hb \in Int /\ hs \in Int /\ vs \in Int /\ vm \in Int
    BY <1>0, <2>2
  <2>4. tau * vs > 0 /\ tau * vm > 0
    BY <2>2
  <2>5. up * hb * tau <= 0 /\ up * hs * tau <= 0 /\ up * y >= 0
    BY <1>1, <2>2
  <2>6. up = -1 \/ y > 0
    BY <1>0, <1>1
  <2>7. y = 0 /\ hb = 0 => vm = 0
    <3> SUFFICES ASSUME y = 0, hb = 0 PROVE vm = 0
      OBVIOUS
    <3>1. points[m].y = p.y /\ points[Before(points, m)].y = p.y
      BY <1>0, <2>2
    <3> QED BY <3>1, LevelEdge
  <2> HIDE DEF s, b, y, hb, hs, vs, vm
  <2>8. up * (hb * vs) <= 0 /\ up * (hs * vm) <= 0 /\ (y = 0 => hb = 0 \/ up * (hb * vs) < 0)
    <3>1. CASE up = 1 /\ tau = 1
      BY <2>3, <2>4, <2>5, <3>1, Products
    <3>2. CASE up = 1 /\ tau = -1
      BY <2>3, <2>4, <2>5, <3>2, Products
    <3>3. CASE up = -1 /\ tau = 1
      BY <2>3, <2>4, <2>5, <3>3, Products
    <3>4. CASE up = -1 /\ tau = -1
      BY <2>3, <2>4, <2>5, <3>4, Products
    <3> QED BY <3>1, <3>2, <3>3, <3>4 DEF Orientation
  <2>9. up * (y * turn) <= 0 /\ (y = 0 => y * turn = 0)
    <3>1. hb * vs \in Int /\ hs * vm \in Int /\ y * turn \in Int
      BY <2>1, <2>3, Products
    <3> QED BY <2>1, <2>3, <2>8, <3>1 DEF Orientation
  <2>10. y = 0
    <3>1. y > 0 => y * turn > 0
      BY <2>1, <2>3, Products
    <3>2. y < 0 => y * turn < 0
      BY <2>1, <2>3, Products
    <3>3. y * turn \in Int
      BY <2>1, <2>3, Products
    <3> QED BY <2>3, <2>5, <2>9, <3>1, <3>2, <3>3 DEF Orientation
  <2>11. hb = 0
    <3>1. hb * vs \in Int /\ hs * vm \in Int
      BY <2>3, Products
    <3>2. hb * vs + hs * vm = 0
      BY <2>1, <2>9, <2>10
    <3> QED BY <2>8, <2>10, <3>1, <3>2 DEF Orientation
  <2> QED BY <2>3, <2>4, <2>7, <2>10, <2>11 DEF Orientation
<1>2. PICK low \in DOMAIN points : \A k \in DOMAIN points : points[low].y <= points[k].y
  BY Extremes
<1>3. PICK high \in DOMAIN points : \A k \in DOMAIN points : points[high].y >= points[k].y
  BY Extremes
<1>4. ASSUME \A k \in DOMAIN points : Above(points, k, p) PROVE FALSE
  <2>1. \A k \in DOMAIN points : points[k].y > p.y
    BY <1>4 DEF Above
  <2>2. CASE tau = 1
    <3>1. \A k \in DOMAIN points : 1 * (points[low].y - points[k].y) * tau <= 0
      BY <1>0, <1>2, <2>2
    <3>2. \A k \in DOMAIN points : 1 * (points[k].y - p.y) >= 0
      BY <1>0, <2>1
    <3> QED BY <1>1, <2>1, <3>1, <3>2 DEF Orientation
  <2>3. CASE tau = -1
    <3>1. \A k \in DOMAIN points : 1 * (points[high].y - points[k].y) * tau <= 0
      BY <1>0, <1>3, <2>3
    <3>2. \A k \in DOMAIN points : 1 * (points[k].y - p.y) >= 0
      BY <1>0, <2>1
    <3> QED BY <1>1, <2>1, <3>1, <3>2 DEF Orientation
  <2> QED BY <2>2, <2>3 DEF Orientation
<1>5. ASSUME \A k \in DOMAIN points : ~ Above(points, k, p) PROVE FALSE
  <2>1. \A k \in DOMAIN points : points[k].y <= p.y
    BY <1>0, <1>5 DEF Above
  <2>2. CASE tau = 1
    <3>1. \A k \in DOMAIN points : (-1) * (points[high].y - points[k].y) * tau <= 0
      BY <1>0, <1>3, <2>2
    <3>2. \A k \in DOMAIN points : (-1) * (points[k].y - p.y) >= 0
      BY <1>0, <2>1
    <3> QED BY <1>1, <3>1, <3>2 DEF Orientation
  <2>3. CASE tau = -1
    <3>1. \A k \in DOMAIN points : (-1) * (points[low].y - points[k].y) * tau <= 0
      BY <1>0, <1>2, <2>3
    <3>2. \A k \in DOMAIN points : (-1) * (points[k].y - p.y) >= 0
      BY <1>0, <2>1
    <3> QED BY <1>1, <3>1, <3>2 DEF Orientation
  <2> QED BY <2>2, <2>3 DEF Orientation
<1> QED BY <1>4, <1>5

\* The side of an edge and how it is seen have the same sign, or opposite ones.
LEMMA SeenSign ==
  ASSUME NEW points \in Ring, NEW side \in Orientation, NEW p \in Plane,
         NEW c \in DOMAIN points
  PROVE  /\ Side(points, c, p) \in Int /\ Seen(points, side, c, p) \in Int
         /\ side = 1 => Seen(points, side, c, p) = Side(points, c, p)
         /\ side = -1 => Seen(points, side, c, p) = -Side(points, c, p)
<1>1. Side(points, c, p) \in Int
  BY RingEdge, TurnIsInt DEF Side
<1>. QED
  BY <1>1 DEF Seen, Orientation

\* The crossings of the ray: at most the rise and the fall.
LEMMA CrossingsAre ==
  ASSUME NEW points \in Ring, NEW side \in Orientation, Turned(points, side),
         NEW p \in Plane, NEW u \in DOMAIN points, NEW d \in DOMAIN points,
         Rises(points, u, p), Falls(points, d, p)
  PROVE  /\ u # d
         /\ {c \in DOMAIN points : Crosses(points, c, p)} =
              {c \in {u, d} : \/ c = u /\ Side(points, u, p) > 0
                              \/ c = d /\ Side(points, d, p) < 0}
<1>1. u # d
  BY DEF Rises, Falls
<1>2. ASSUME NEW c \in DOMAIN points
      PROVE  Crosses(points, c, p) <=> \/ c = u /\ Side(points, u, p) > 0
                                       \/ c = d /\ Side(points, d, p) < 0
  <2>1. Rises(points, c, p) <=> c = u
    BY OneRiseOneFall
  <2>2. Falls(points, c, p) <=> c = d
    BY OneRiseOneFall
  <2>. QED
    BY <2>1, <2>2, CrossesBySide
<1>. QED
  BY <1>1, <1>2

\* Rise and fall are not both seen from the outside.
LEMMA SomeSeenFromInside ==
  ASSUME NEW points \in Ring, NEW side \in Orientation, Turned(points, side),
         NEW p \in Plane, NEW u \in DOMAIN points, NEW d \in DOMAIN points,
         Rises(points, u, p), Falls(points, d, p)
  PROVE  LET su == Seen(points, side, u, p)
             sd == Seen(points, side, d, p)
         IN  /\ su \in Int /\ sd \in Int
             /\ ~(su < 0 /\ sd <= 0) /\ ~(su <= 0 /\ sd < 0)
<1>. DEFINE su == Seen(points, side, u, p)  sd == Seen(points, side, d, p)
            hu == Height(points, u)  hd == Height(points, d)
<1>1. su \in Int /\ sd \in Int
  BY SeenSign
<1>2. hu \in Int /\ hd \in Int /\ hu > 0 /\ hd < 0
  BY HeightsOf
<1>3. hu * sd >= hd * su
  BY RiseBounds
<1>. HIDE DEF su, sd, hu, hd
<1>4. ASSUME su < 0, sd <= 0 PROVE FALSE
  <2>1. hu * sd \in Int /\ hu * sd <= 0
    BY <1>1, <1>2, <1>4, Products
  <2>2. hd * su \in Int /\ hd * su > 0
    BY <1>1, <1>2, <1>4, Products
  <2>. QED
    BY <1>3, <2>1, <2>2
<1>5. ASSUME su <= 0, sd < 0 PROVE FALSE
  <2>1. hu * sd \in Int /\ hu * sd < 0
    BY <1>1, <1>2, <1>5, Products
  <2>2. hd * su \in Int /\ hd * su >= 0
    BY <1>1, <1>2, <1>5, Products
  <2>. QED
    BY <1>3, <2>1, <2>2
<1>. QED
  BY <1>1, <1>4, <1>5 DEF su, sd

\* Where rise and fall are seen from the inside, so is every edge.
LEMMA AllSeenFromInside ==
  ASSUME NEW points \in Ring, NEW side \in Orientation, Turned(points, side),
         NEW p \in Plane, NEW u \in DOMAIN points, NEW d \in DOMAIN points,
         Rises(points, u, p), Falls(points, d, p),
         Seen(points, side, u, p) >= 0, Seen(points, side, d, p) >= 0,
         NEW e \in DOMAIN points
  PROVE  Seen(points, side, e, p) >= 0
<1>. DEFINE su == Seen(points, side, u, p)  sd == Seen(points, side, d, p)
            se == Seen(points, side, e, p)
            hu == Height(points, u)  hd == Height(points, d)  he == Height(points, e)
<1>1. su \in Int /\ sd \in Int /\ se \in Int /\ su >= 0 /\ sd >= 0
  BY SeenSign
<1>2. hu \in Int /\ hd \in Int /\ he \in Int /\ hu > 0 /\ hd < 0
  BY HeightsOf
<1>3. hu * se >= he * su /\ hd * se <= he * sd
  BY RiseBounds, FallBounds
<1>. HIDE DEF su, sd, se, hu, hd, he
<1>4. ASSUME se < 0 PROVE FALSE
  <2>1. hu * se \in Int /\ hu * se < 0 /\ hd * se \in Int /\ hd * se > 0
    BY <1>1, <1>2, <1>4, Products
  <2>2. CASE he >= 0
    <3>1. he * su \in Int /\ he * su >= 0
      BY <1>1, <1>2, <2>2, Products
    <3>. QED
      BY <1>3, <2>1, <3>1
  <2>3. CASE he <= 0
    <3>1. he * sd \in Int /\ he * sd <= 0
      BY <1>1, <1>2, <2>3, Products
    <3>. QED
      BY <1>3, <2>1, <3>1
  <2>. QED
    BY <1>2, <2>2, <2>3
<1>. QED
  BY <1>1, <1>4 DEF se

\* The ray from a point strictly inside crosses once.  (pointInsideRing.)
LEMMA InsideIsFound ==
  ASSUME NEW points \in Ring, NEW side \in Orientation, Turned(points, side),
         NEW p \in Plane, StrictlyInside(points, p)
  PROVE  pointInsideRing(points, p)
<1>. DEFINE K == {c \in DOMAIN points : Crosses(points, c, p)}
<1>1. PICK tau \in Orientation : \A c \in DOMAIN points : tau * Seen(points, side, c, p) > 0
  <2>1. Turns(points, p) = {Side(points, c, p) : c \in DOMAIN points}
    BY DEF Turns, Side
  <2>2. \/ \A c \in DOMAIN points : Side(points, c, p) > 0
        \/ \A c \in DOMAIN points : Side(points, c, p) < 0
    BY <2>1 DEF StrictlyInside
  <2>3. \/ \A c \in DOMAIN points : Seen(points, side, c, p) > 0
        \/ \A c \in DOMAIN points : Seen(points, side, c, p) < 0
    <3>1. CASE side = 1
      BY <2>2, <3>1, SeenSign
    <3>2. CASE side = -1
      <4>1. \A c \in DOMAIN points : /\ Side(points, c, p) \in Int
                                     /\ Seen(points, side, c, p) = -Side(points, c, p)
        BY <3>2, SeenSign
      <4>2. \A c \in DOMAIN points : /\ Side(points, c, p) > 0 => Seen(points, side, c, p) < 0
                                     /\ Side(points, c, p) < 0 => Seen(points, side, c, p) > 0
        BY <4>1
      <4>. QED
        BY <2>2, <4>2
    <3>. QED
      BY <3>1, <3>2 DEF Orientation
  <2>4. CASE \A c \in DOMAIN points : Seen(points, side, c, p) > 0
    <3>1. \A c \in DOMAIN points : 1 * Seen(points, side, c, p) > 0
      BY <2>4, SeenSign
    <3>. QED
      BY <3>1 DEF Orientation
  <2>5. CASE \A c \in DOMAIN points : Seen(points, side, c, p) < 0
    <3>1. \A c \in DOMAIN points : (-1) * Seen(points, side, c, p) > 0
      BY <2>5, SeenSign
    <3>. QED
      BY <3>1 DEF Orientation
  <2>. QED
    BY <2>3, <2>4, <2>5
<1>2. PICK u \in DOMAIN points, d \in DOMAIN points : Rises(points, u, p) /\ Falls(points, d, p)
  BY <1>1, SeenFromWithin, RisesAndFalls
<1>3. /\ Seen(points, side, u, p) \in Int /\ Seen(points, side, d, p) \in Int
      /\ ~(Seen(points, side, u, p) < 0 /\ Seen(points, side, d, p) <= 0)
  BY <1>2, SomeSeenFromInside
<1>4. Seen(points, side, u, p) > 0 /\ Seen(points, side, d, p) > 0
  BY <1>1, <1>3 DEF Orientation
<1>5. /\ u # d
      /\ K = {c \in {u, d} : \/ c = u /\ Side(points, u, p) > 0
                             \/ c = d /\ Side(points, d, p) < 0}
  BY <1>2, CrossingsAre
<1>6. \E c : K = {c}
  <2>1. CASE side = 1
    <3>1. Side(points, u, p) > 0 /\ ~(Side(points, d, p) < 0)
      BY <1>4, <2>1, SeenSign
    <3>. QED
      BY <1>5, <3>1
  <2>2. CASE side = -1
    <3>1. ~(Side(points, u, p) > 0) /\ Side(points, d, p) < 0
      BY <1>4, <2>2, SeenSign
    <3>. QED
      BY <1>5, <3>1
  <2>. QED
    BY <2>1, <2>2 DEF Orientation
<1>7. Cardinality(K) = 1
  BY <1>6, FS_Singleton
<1>. QED
  BY <1>7 DEF pointInsideRing

\* The ray from a point strictly outside crosses twice or not at all.
\* (pointInsideRing.)
LEMMA OutsideIsFound ==
  ASSUME NEW points \in Ring, NEW side \in Orientation, Turned(points, side),
         NEW p \in Plane, StrictlyOutside(points, p)
  PROVE  ~ pointInsideRing(points, p)
<1>. DEFINE K == {c \in DOMAIN points : Crosses(points, c, p)}
<1>1. \E c \in DOMAIN points : Seen(points, side, c, p) < 0
  <2>1. PICK s \in Turns(points, p), t \in Turns(points, p) : s < 0 /\ t > 0
    BY DEF StrictlyOutside
  <2>2. PICK c \in DOMAIN points, e \in DOMAIN points :
          Side(points, c, p) < 0 /\ Side(points, e, p) > 0
    BY <2>1 DEF Turns, Side
  <2>3. CASE side = 1
    BY <2>2, <2>3, SeenSign
  <2>4. CASE side = -1
    <3>1. Side(points, e, p) \in Int /\ Seen(points, side, e, p) = -Side(points, e, p)
      BY <2>4, SeenSign
    <3>. QED
      BY <2>2, <3>1
  <2>. QED
    BY <2>3, <2>4 DEF Orientation
<1>2. K = {} \/ \E u, d : u # d /\ K = {u, d}
  <2>1. CASE \E u \in DOMAIN points, d \in DOMAIN points : Rises(points, u, p) /\ Falls(points, d, p)
    <3>1. PICK u \in DOMAIN points, d \in DOMAIN points : Rises(points, u, p) /\ Falls(points, d, p)
      BY <2>1
    <3>2. /\ u # d
          /\ K = {c \in {u, d} : \/ c = u /\ Side(points, u, p) > 0
                                 \/ c = d /\ Side(points, d, p) < 0}
      BY <3>1, CrossingsAre
    <3>. DEFINE su == Seen(points, side, u, p)  sd == Seen(points, side, d, p)
    <3>3. /\ su \in Int /\ sd \in Int
          /\ ~(su < 0 /\ sd <= 0) /\ ~(su <= 0 /\ sd < 0)
      BY <3>1, SomeSeenFromInside
    <3>4. ~(su >= 0 /\ sd >= 0)
      <4>1. PICK e \in DOMAIN points : Seen(points, side, e, p) < 0
        BY <1>1
      <4>2. Seen(points, side, e, p) \in Int
        BY SeenSign
      <4>3. su >= 0 /\ sd >= 0 => Seen(points, side, e, p) >= 0
        BY <3>1, AllSeenFromInside
      <4>. HIDE DEF su, sd
      <4>. QED
        BY <4>1, <4>2, <4>3
    <3>5. (su < 0 /\ sd > 0) \/ (su > 0 /\ sd < 0)
      <4>. HIDE DEF su, sd
      <4>. QED
        BY <3>3, <3>4
    <3>6. /\ Side(points, u, p) \in Int /\ Side(points, d, p) \in Int
          /\ side = 1 => su = Side(points, u, p) /\ sd = Side(points, d, p)
          /\ side = -1 => su = -Side(points, u, p) /\ sd = -Side(points, d, p)
      BY SeenSign
    <3>. HIDE DEF su, sd
    <3>7. Side(points, u, p) > 0 <=> Side(points, d, p) < 0
      BY <3>5, <3>6 DEF Orientation
    <3>. QED
      BY <3>2, <3>7
  <2>2. CASE ~ \E u \in DOMAIN points, d \in DOMAIN points : Rises(points, u, p) /\ Falls(points, d, p)
    <3>1. ASSUME NEW c \in DOMAIN points PROVE ~Rises(points, c, p) /\ ~Falls(points, c, p)
      <4>1. Before(points, c) \in DOMAIN points
        BY RingEdge
      <4>. QED
        BY <2>2, <4>1, RisesAndFalls DEF Rises, Falls
    <3>. QED
      BY <3>1, CrossesBySide
  <2>. QED
    BY <2>1, <2>2
<1>. HIDE DEF K
<1>3. Cardinality(K) = 0 \/ Cardinality(K) = 2
  <2>1. CASE K = {}
    BY <2>1, FS_EmptySet
  <2>2. CASE \E u, d : u # d /\ K = {u, d}
    <3>1. PICK u, d : u # d /\ K = {u, d}
      BY <2>2
    <3>2. IsFiniteSet({u}) /\ Cardinality({u}) = 1 /\ d \notin {u} /\ K = {u} \cup {d}
      BY <3>1, FS_Singleton
    <3>3. Cardinality({u} \cup {d}) = Cardinality({u}) + 1
      BY <3>2, FS_AddElement
    <3>. QED
      BY <3>2, <3>3
  <2>. QED
    BY <1>2, <2>1, <2>2
<1>. QED
  BY <1>3 DEF pointInsideRing, K

-----------------------------------------------------------------------------
(***************************************************************************)
(* The rings of a detection.                                               *)
(***************************************************************************)
Shape == [exterior : Ring, holes : Seq(Ring)]

\* Each hole was found in its exterior and no exterior in an earlier one.
Plays(ps) ==
  /\ ps \in Seq(Shape)
  /\ \A p \in DOMAIN ps : \A h \in DOMAIN ps[p].holes :
       pointInsideRing(ps[p].exterior, ps[p].holes[h][1])
  /\ \A p, q \in DOMAIN ps :
       p < q => ~ pointInsideRing(ps[p].exterior, ps[q].exterior[1])

AllRings(ps) == UNION {Rings(ps[p]) : p \in DOMAIN ps}

RingsUpTo(n) == {Points(r) : r \in FirstRing(i) .. n - 1}

RingsInv ==
  /\ Plays(polygons)
  /\ pc \notin {"ring", "emplace", "failed"} => polygons = <<>>
  /\ pc = "ring" => AllRings(polygons) = RingsUpTo(ring)
  /\ pc = "emplace" /\ variant = "Polygon" => AllRings(polygons) = RingsOf(i)
  /\ variant = "Polygon" =>
       \A k \in 0 .. i - 1 : /\ Plays(results[k + 1].polygons)
                             /\ AllRings(results[k + 1].polygons) = RingsOf(k)

\* Before the first ring.
LEMMA NoRings == Plays(<<>>) /\ AllRings(<<>>) = {}
BY DEF Plays, AllRings

\* A ring that fits is one.
LEMMA FittingRing ==
  ASSUME answer \in Answers,
         {"RING_POINT_OFFSETS", "POLYGON_POINTS"} \subseteq DOMAIN answer,
         NEW r \in Nat, r + 1 < Len(answer["RING_POINT_OFFSETS"]), RingFits(r)
  PROVE  Points(r) \in Ring
<1>. DEFINE begin == At("RING_POINT_OFFSETS", r)
            end == At("RING_POINT_OFFSETS", r + 1)
            size == Len(answer["POLYGON_POINTS"])
            Point(c) == [x |-> At("POLYGON_POINTS", 2 * (begin + c - 1)),
                         y |-> At("POLYGON_POINTS", 2 * (begin + c - 1) + 1)]
<1>1. "RING_POINT_OFFSETS" \in Numbers /\ "POLYGON_POINTS" \in Numbers
  BY DEF Numbers
<1>2. begin \in Int /\ end \in Int /\ size \in Nat
  <2>1. Len(answer["RING_POINT_OFFSETS"]) \in Nat
    BY <1>1, Elements
  <2>2. Holds("RING_POINT_OFFSETS", r) /\ Holds("RING_POINT_OFFSETS", r + 1)
    BY <2>1 DEF Holds
  <2>. QED
    BY <1>1, <2>2, Elements
<1>3. 0 <= begin /\ begin <= end /\ end <= size \div 2 /\ end - begin >= 3
  BY DEF RingFits, PointsInside, WholeRing
<1>4. Points(r) = [c \in 1 .. end - begin |-> Point(c)]
  BY DEF Points
<1>5. ASSUME NEW c \in 1 .. end - begin PROVE Point(c) \in Plane
  <2>. DEFINE k == 2 * (begin + c - 1)
  <2>1. k \in Nat /\ k + 1 \in Nat /\ k + 1 < size
    <3>. HIDE DEF begin, end, size
    <3>1. 2 * (size \div 2) <= size
      BY <1>2
    <3>2. size \div 2 \in Nat
      BY <1>2
    <3>. QED
      BY <1>2, <1>3, <3>1, <3>2
  <2>2. Holds("POLYGON_POINTS", k) /\ Holds("POLYGON_POINTS", k + 1)
    <3>. HIDE DEF k
    <3>. QED
      BY <1>2, <2>1 DEF Holds
  <2>3. At("POLYGON_POINTS", k) \in Int /\ At("POLYGON_POINTS", k + 1) \in Int
    <3>. HIDE DEF k
    <3>. QED
      BY <1>1, <2>1, <2>2, Elements
  <2>. QED
    BY <2>3 DEF Plane
<1>. HIDE DEF begin, end, Point
<1>6. end - begin \in Nat
  BY <1>2, <1>3
<1>7. Points(r) \in [1 .. end - begin -> Plane]
  BY <1>4, <1>5
<1>8. Points(r) \in Seq(Plane) /\ Len(Points(r)) = end - begin
  BY <1>4, <1>6, <1>7
<1>. QED
  BY <1>3, <1>8 DEF Ring

\* A ring that is added plays its part: a hole of the first polygon it starts
\* in, or an exterior.  (The search for the owner in decodePolygonEnvelope.)
LEMMA AddRingPlays ==
  ASSUME Plays(polygons), NEW points \in Ring
  PROVE  /\ Plays(AddRing(points))
         /\ AllRings(AddRing(points)) = AllRings(polygons) \cup {points}
<1>1. /\ polygons \in Seq(Shape) /\ Len(polygons) \in Nat
      /\ DOMAIN polygons = 1 .. Len(polygons)
      /\ \A p \in DOMAIN polygons : /\ polygons[p] \in Shape /\ polygons[p].exterior \in Ring
                                    /\ polygons[p].holes \in Seq(Ring)
  <2>1. polygons \in Seq(Shape)
    BY DEF Plays
  <2>2. \A p \in DOMAIN polygons : polygons[p] \in Shape
    BY <2>1
  <2>. QED
    BY <2>1, <2>2 DEF Shape
<1>2. CASE Containers(points) = {}
  <2>. DEFINE new == [exterior |-> points, holes |-> <<>>]
              ps == Append(polygons, new)  n == Len(polygons)
  <2>1. AddRing(points) = ps
    BY <1>2 DEF AddRing
  <2>2. new \in Shape /\ new.exterior = points /\ DOMAIN new.holes = {}
    <3>1. <<>> \in Seq(Ring)
      OBVIOUS
    <3>. QED
      BY <3>1 DEF Shape
  <2>3. Rings(new) = {points}
    BY <2>2 DEF Rings
  <2>. HIDE DEF new
  <2>4. /\ ps \in Seq(Shape) /\ DOMAIN ps = 1 .. n + 1 /\ ps[n + 1] = new
        /\ \A p \in 1 .. n : ps[p] = polygons[p]
    BY <1>1, <2>2
  <2>. HIDE DEF ps
  <2>5. \A p \in 1 .. n + 1 : p \in 1 .. n \/ p = n + 1
    BY <1>1
  <2>6. ASSUME NEW p \in DOMAIN ps, NEW h \in DOMAIN ps[p].holes
        PROVE  pointInsideRing(ps[p].exterior, ps[p].holes[h][1])
    BY <1>1, <2>2, <2>4, <2>5, <2>6 DEF Plays
  <2>7. ASSUME NEW p \in DOMAIN ps, NEW q \in DOMAIN ps, p < q
        PROVE  ~ pointInsideRing(ps[p].exterior, ps[q].exterior[1])
    <3>1. p \in 1 .. n
      BY <1>1, <2>4, <2>7
    <3>2. CASE q \in 1 .. n
      BY <1>1, <2>4, <2>7, <3>1, <3>2 DEF Plays
    <3>3. CASE q = n + 1
      <4>1. ~ pointInsideRing(polygons[p].exterior, points[1])
        BY <1>1, <1>2, <3>1 DEF Containers
      <4>. QED
        BY <2>2, <2>4, <3>1, <3>3, <4>1
    <3>. QED
      BY <2>4, <2>5, <3>2, <3>3
  <2>8. AllRings(ps) = AllRings(polygons) \cup {points}
    <3>1. {Rings(ps[p]) : p \in DOMAIN ps} = {Rings(polygons[p]) : p \in DOMAIN polygons} \cup {{points}}
      <4>1. n + 1 \in 1 .. n + 1 /\ \A p \in 1 .. n : p \in 1 .. n + 1
        BY <1>1
      <4>. QED
        BY <1>1, <2>3, <2>4, <2>5, <4>1
    <3>. QED
      BY <3>1 DEF AllRings
  <2>. QED
    BY <2>1, <2>4, <2>6, <2>7, <2>8 DEF Plays
<1>3. CASE Containers(points) # {}
  <2>. DEFINE First(q) == \A other \in Containers(points) : q <= other
              p == CHOOSE q \in Containers(points) : First(q)
              more == Append(polygons[p].holes, points)
              ps == [polygons EXCEPT ![p].holes = Append(@, points)]
  <2>1. AddRing(points) = ps
    BY <1>3 DEF AddRing
  <2>2. p \in Containers(points)
    <3>1. Containers(points) \subseteq Nat
      BY <1>1 DEF Containers
    <3>2. \E q \in Containers(points) : First(q)
      BY <1>3, <3>1, Smallest
    <3>. HIDE DEF First
    <3>. QED
      BY <3>2
  <2>3. p \in DOMAIN polygons /\ pointInsideRing(polygons[p].exterior, points[1])
    BY <2>2 DEF Containers
  <2>. HIDE DEF p
  <2>4. /\ more \in Seq(Ring) /\ DOMAIN more = 1 .. Len(polygons[p].holes) + 1
        /\ Len(polygons[p].holes) \in Nat
        /\ DOMAIN polygons[p].holes = 1 .. Len(polygons[p].holes)
        /\ more[Len(polygons[p].holes) + 1] = points
        /\ \A h \in DOMAIN polygons[p].holes : more[h] = polygons[p].holes[h]
    <3>. DEFINE holes == polygons[p].holes
    <3>1. holes \in Seq(Ring)
      BY <1>1, <2>3
    <3>. HIDE DEF holes
    <3>2. /\ Append(holes, points) \in Seq(Ring)
          /\ DOMAIN Append(holes, points) = 1 .. Len(holes) + 1
          /\ Len(holes) \in Nat /\ DOMAIN holes = 1 .. Len(holes)
          /\ Append(holes, points)[Len(holes) + 1] = points
          /\ \A h \in DOMAIN holes : Append(holes, points)[h] = holes[h]
      BY <3>1
    <3>. QED
      BY <3>2 DEF holes
  <2>5. DOMAIN ps = DOMAIN polygons
    OBVIOUS
  <2>6. ps[p] = [exterior |-> polygons[p].exterior, holes |-> more]
    <3>1. ps[p] = [polygons[p] EXCEPT !.holes = Append(@, points)]
      BY <2>3
    <3>2. polygons[p] = [exterior |-> polygons[p].exterior, holes |-> polygons[p].holes]
      BY <1>1, <2>3 DEF Shape
    <3>. QED
      BY <3>1, <3>2, Zenon
  <2>7. \A q \in DOMAIN polygons : q # p => ps[q] = polygons[q]
    OBVIOUS
  <2>. HIDE DEF ps, more
  <2>8. \A q \in DOMAIN polygons : ps[q].exterior = polygons[q].exterior /\ ps[q] \in Shape
    <3>1. ps[p].exterior = polygons[p].exterior /\ ps[p] \in Shape
      BY <1>1, <2>3, <2>4, <2>6 DEF Shape
    <3>. QED
      BY <1>1, <2>7, <3>1
  <2>9. ps \in Seq(Shape)
    <3>1. ps \in [1 .. Len(polygons) -> Shape]
      <4>1. ps = [q \in DOMAIN polygons |-> ps[q]]
        BY DEF ps
      <4>. QED
        BY <1>1, <2>8, <4>1
    <3>. QED
      BY <1>1, <3>1
  <2>10. ASSUME NEW q \in DOMAIN ps, NEW h \in DOMAIN ps[q].holes
         PROVE  pointInsideRing(ps[q].exterior, ps[q].holes[h][1])
    <3>1. CASE q # p
      BY <2>5, <2>7, <2>10, <3>1 DEF Plays
    <3>2. CASE q = p
      <4>1. ps[q].holes = more /\ ps[q].exterior = polygons[p].exterior
        BY <2>6, <3>2
      <4>2. h \in DOMAIN polygons[p].holes \/ h = Len(polygons[p].holes) + 1
        BY <2>4, <2>10, <4>1
      <4>3. CASE h \in DOMAIN polygons[p].holes
        BY <2>3, <2>4, <4>1, <4>3 DEF Plays
      <4>4. CASE h = Len(polygons[p].holes) + 1
        BY <2>3, <2>4, <4>1, <4>4
      <4>. QED
        BY <4>2, <4>3, <4>4
    <3>. QED
      BY <3>1, <3>2
  <2>11. \A a, b \in DOMAIN ps : a < b => ~ pointInsideRing(ps[a].exterior, ps[b].exterior[1])
    BY <2>5, <2>8 DEF Plays
  <2>12. AllRings(ps) = AllRings(polygons) \cup {points}
    <3>1. Rings(ps[p]) = Rings(polygons[p]) \cup {points}
      <4>1. {more[h] : h \in DOMAIN more} =
              {polygons[p].holes[h] : h \in DOMAIN polygons[p].holes} \cup {points}
        <5>1. /\ Len(polygons[p].holes) + 1 \in DOMAIN more
              /\ \A h \in DOMAIN more : \/ h \in DOMAIN polygons[p].holes
                                        \/ h = Len(polygons[p].holes) + 1
              /\ DOMAIN polygons[p].holes \subseteq DOMAIN more
          BY <2>4
        <5>. QED
          BY <2>4, <5>1
      <4>2. ps[p].exterior = polygons[p].exterior /\ ps[p].holes = more
        BY <2>6
      <4>. QED
        BY <4>1, <4>2 DEF Rings
    <3>2. \A q \in DOMAIN polygons : q # p => Rings(ps[q]) = Rings(polygons[q])
      BY <2>7
    <3>. QED
      BY <2>3, <2>5, <3>1, <3>2 DEF AllRings
  <2>. QED
    BY <2>1, <2>9, <2>10, <2>11, <2>12 DEF Plays
<1>. QED
  BY <1>2, <1>3

\* While the input does not change, nor do the rings.
LEMMA RingsAreKept ==
  ASSUME UNCHANGED input
  PROVE  /\ \A r : Points(r)' = Points(r)
         /\ \A k : RingsOf(k)' = RingsOf(k) /\ FirstRing(k)' = FirstRing(k)
<1>1. answer' = answer
  BY DEF input
<1>2. \A r : Points(r)' = Points(r)
  BY <1>1 DEF Points, At
<1>. QED
  BY <1>1, <1>2 DEF RingsOf, FirstRing, At

\* What is found of polygons and results that do not change.
LEMMA PlaysKept ==
  /\ polygons' = polygons => /\ Plays(polygons)' = Plays(polygons)
                             /\ AllRings(polygons)' = AllRings(polygons)
  /\ results' = results => \A k : /\ Plays(results[k].polygons)' = Plays(results[k].polygons)
                                  /\ AllRings(results[k].polygons)' = AllRings(results[k].polygons)
OBVIOUS

\* A step that touches neither the rings in hand nor the results.
LEMMA QuietStep ==
  ASSUME RingsInv, UNCHANGED <<input, i, polygons, results>>,
         pc \notin {"ring", "emplace", "failed"}, pc' # "ring",
         pc' = "emplace" => variant # "Polygon"
  PROVE  RingsInv'
<1>1. UNCHANGED <<variant, i, polygons, results>>
  BY DEF input
<1>2. \A k : RingsOf(k)' = RingsOf(k)
  BY RingsAreKept
<1>. QED
  BY <1>1, <1>2, PlaysKept DEF RingsInv

\* Nothing is found before the first step.
LEMMA InitRings == Init => RingsInv
BY NoRings DEF Init, RingsInv

\* No ring is in hand when the range is read.
LEMMA ReadRangeRings ==
  ASSUME Inv, RingsInv, ReadRingRange PROVE RingsInv'
<1>. DEFINE first == FirstRing(i)
<1>1. /\ pc = "rings" /\ pc' \in {"ring", "failed"} /\ ring' = first
      /\ UNCHANGED <<input, i, polygons, results>>
  BY DEF ReadRingRange, Step, FirstRing
<1>2. UNCHANGED variant /\ \A k : RingsOf(k)' = RingsOf(k) /\ FirstRing(k)' = FirstRing(k)
  BY <1>1, RingsAreKept DEF input
<1>3. polygons = <<>> /\ polygons' = polygons
  BY <1>1 DEF RingsInv
<1>4. RingsUpTo(ring)' = {}
  <2>1. first \in Int
    BY <1>1, RingOffsetsAreInts
  <2>2. first .. first - 1 = {}
    <3>. HIDE DEF first
    <3>. QED
      BY <2>1
  <2>3. FirstRing(i)' = first
    BY <1>1, <1>2
  <2>4. (FirstRing(i) .. ring - 1)' = {}
    BY <1>1, <2>2, <2>3
  <2>. QED
    BY <2>4 DEF RingsUpTo
<1>5. AllRings(polygons)' = {}
  BY <1>3, NoRings, PlaysKept
<1>. QED
  BY <1>1, <1>2, <1>4, <1>5, PlaysKept DEF RingsInv

\* A ring that is decoded joins those before it.
LEMMA DecodeRingRings ==
  ASSUME Inv, RingsInv, DecodeRing PROVE RingsInv'
<1>. DEFINE ok == RingFits(ring)  first == FirstRing(i)  last == FirstRing(i + 1)
<1>1. /\ ring < last_ring /\ pc = "ring" /\ pc' = (IF ok THEN "ring" ELSE "failed")
      /\ ring' = ring + 1
      /\ polygons' = IF ok THEN AddRing(Points(ring)) ELSE polygons
      /\ UNCHANGED <<input, i, results>>
  BY DEF DecodeRing, RingFits, Step
<1>2. /\ UNCHANGED variant
      /\ \A k : RingsOf(k)' = RingsOf(k) /\ FirstRing(k)' = FirstRing(k)
      /\ \A r : Points(r)' = Points(r)
  BY <1>1, RingsAreKept DEF input
<1>3. /\ RingsInside(first, last) /\ last_ring = last
      /\ ring \in first .. last - 1
      /\ first \in Nat /\ last \in Nat
  <2>1. first \in Int /\ last \in Int
    BY <1>1, RingOffsetsAreInts
  <2>. QED
    BY <1>1, <2>1 DEF Inv, DetectionOK, RingsInside
<1>4. CASE ~ok
  <2>1. polygons' = polygons /\ pc' = "failed"
    BY <1>1, <1>4
  <2>. QED
    BY <1>1, <1>2, <2>1, PlaysKept DEF RingsInv
<1>5. CASE ok
  <2>1. Points(ring) \in Ring
    <3>1. {"RING_POINT_OFFSETS", "POLYGON_POINTS"} \subseteq DOMAIN answer
          /\ answer \in Answers /\ "RING_POINT_OFFSETS" \in Numbers
      BY <1>1, RingOffsetsAreInts DEF Inv, InputOK, Numbers
    <3>2. Len(answer["RING_POINT_OFFSETS"]) \in Nat
      BY <3>1, Elements
    <3>3. ring \in Nat /\ ring + 1 < Len(answer["RING_POINT_OFFSETS"])
      BY <1>3, <3>2 DEF RingsInside
    <3>. QED
      BY <1>5, <3>1, <3>3, FittingRing
  <2>. DEFINE ps == AddRing(Points(ring))
  <2>2. Plays(ps) /\ AllRings(ps) = AllRings(polygons) \cup {Points(ring)}
    BY <2>1, AddRingPlays DEF RingsInv
  <2>3. polygons' = ps /\ pc' = "ring"
    BY <1>1, <1>5
  <2>. HIDE DEF ps
  <2>4. Plays(polygons)' /\ AllRings(polygons)' = AllRings(polygons) \cup {Points(ring)}
    BY <2>2, <2>3
  <2>5. RingsUpTo(ring)' = RingsUpTo(ring) \cup {Points(ring)}
    <3>1. first .. (ring + 1) - 1 = (first .. ring - 1) \cup {ring}
      <4>. HIDE DEF first, last
      <4>. QED
        BY <1>3
    <3>2. (FirstRing(i) .. ring - 1)' = (FirstRing(i) .. ring - 1) \cup {ring}
      BY <1>1, <1>2, <3>1
    <3>. HIDE DEF first
    <3>. QED
      BY <1>2, <3>2 DEF RingsUpTo
  <2>6. AllRings(polygons) = RingsUpTo(ring)
    BY <1>1 DEF RingsInv
  <2>. QED
    BY <1>1, <1>2, <2>3, <2>4, <2>5, <2>6, PlaysKept DEF RingsInv
<1>. QED
  BY <1>4, <1>5

\* After the last ring all of the detection's rings are in hand.
LEMMA EndRingsRings ==
  ASSUME Inv, RingsInv, EndRings PROVE RingsInv'
<1>1. /\ pc = "ring" /\ pc' = "emplace" /\ ring = last_ring
      /\ UNCHANGED <<input, i, polygons, results>>
  BY DEF EndRings, Step, detection
<1>2. UNCHANGED variant /\ \A k : RingsOf(k)' = RingsOf(k)
  BY <1>1, RingsAreKept DEF input
<1>3. RingsUpTo(ring) = RingsOf(i)
  BY <1>1 DEF Inv, DetectionOK, RingsUpTo, RingsOf, FirstRing
<1>. QED
  BY <1>1, <1>2, <1>3, PlaysKept DEF RingsInv

\* The result takes the rings in hand.
LEMMA EmplaceRings ==
  ASSUME Inv, RingsInv, Emplace PROVE RingsInv'
<1>. DEFINE new == [detection |-> i,
                    box       |-> clampBoxToFrame(Sent(i)),
                    score     |-> At("SCORES", i).value,
                    class     |-> At("CLASSES", i),
                    run       |-> IF variant = "Mask" THEN Run(i) ELSE <<>>,
                    mask      |-> mask,
                    polygons  |-> polygons]
<1>1. /\ pc = "emplace" /\ pc' = "box" /\ results' = Append(results, new)
      /\ i' = i + 1 /\ polygons' = <<>> /\ UNCHANGED input
  BY DEF Emplace, Step
<1>2. new.polygons = polygons
  OBVIOUS
<1>. HIDE DEF new
<1>3. UNCHANGED variant /\ \A k : RingsOf(k)' = RingsOf(k)
  BY <1>1, RingsAreKept DEF input
<1>4. /\ i \in Nat /\ Len(results) = i
      /\ \A k \in 1 .. i : Append(results, new)[k] = results[k]
      /\ Append(results, new)[i + 1] = new
  <2>1. IsSeq(results) /\ Len(results) = i
    BY DEF Inv, ResultsOK
  <2>. QED
    BY <2>1, AppendIsSeq
<1>5. ASSUME variant = "Polygon", NEW k \in 0 .. i
      PROVE  LET ps == Append(results, new)[k + 1].polygons
             IN  Plays(ps) /\ AllRings(ps) = RingsOf(k)
  <2>1. CASE k = i
    BY <1>1, <1>2, <1>4, <1>5, <2>1 DEF RingsInv
  <2>2. CASE k # i
    <3>1. k \in 0 .. i - 1 /\ k + 1 \in 1 .. i
      BY <1>4, <2>2
    <3>. QED
      BY <1>4, <1>5, <3>1 DEF RingsInv
  <2>. QED
    BY <2>1, <2>2
<1>6. ASSUME variant' = "Polygon", NEW k \in 0 .. i' - 1
      PROVE  (/\ Plays(results[k + 1].polygons)
              /\ AllRings(results[k + 1].polygons) = RingsOf(k))'
  <2>1. k \in 0 .. i /\ variant = "Polygon"
    BY <1>1, <1>3, <1>4, <1>6
  <2>2. Plays(results'[k + 1].polygons) /\ AllRings(results'[k + 1].polygons) = RingsOf(k)
    BY <1>1, <1>5, <2>1
  <2>. QED
    BY <1>3, <2>2
<1>7. Plays(polygons)'
  BY <1>1, NoRings
<1>. QED
  BY <1>1, <1>6, <1>7 DEF RingsInv

\* What is found of the rings of a detection holds at every step.
LEMMA StepKeepsRings == Inv /\ RingsInv /\ [Next]_vars => RingsInv'
<1>. SUFFICES ASSUME Inv, RingsInv, [Next]_vars PROVE RingsInv'
  OBVIOUS
<1>1. CASE ReadDetectionCount
  BY <1>1, QuietStep DEF ReadDetectionCount, Step, detection
<1>2. CASE OpenTensors
  BY <1>2, QuietStep DEF OpenTensors, Step, detection
<1>3. CASE ReadDetection
  <2>1. variant \in {"Detection", "Mask", "Polygon"}
    BY DEF Inv, InputOK
  <2>. DEFINE next == CASE variant = "Detection" -> "emplace"
                        [] variant = "Mask"      -> "mask"
                        [] variant = "Polygon"   -> "rings"
  <2>2. pc = "box" /\ pc' \in {next, "failed"} /\ UNCHANGED <<input, i, polygons, results>>
    BY <1>3 DEF ReadDetection, Step, detection
  <2>3. next # "ring" /\ (next = "emplace" => variant # "Polygon")
    BY <2>1
  <2>. HIDE DEF next
  <2>. QED
    BY <2>2, <2>3, QuietStep
<1>4. CASE DecodeMask
  <2>1. pc = "mask" /\ pc' \in {"emplace", "failed"} /\ UNCHANGED <<input, i, polygons, results>>
    BY <1>4 DEF DecodeMask, Step
  <2>2. variant # "Polygon"
    BY <2>1 DEF Inv, ControlOK
  <2>. QED
    BY <2>1, <2>2, QuietStep
<1>5. CASE EndDetections
  BY <1>5, QuietStep DEF EndDetections, Step, detection
<1>6. CASE filterByConfidence
  BY <1>6, QuietStep DEF filterByConfidence, Step, detection
<1>7. CASE EndFilter
  BY <1>7, QuietStep DEF EndFilter, Step, detection
<1>8. CASE UNCHANGED vars
  <2>1. UNCHANGED <<input, pc, i, ring, polygons, results>>
    BY <1>8 DEF vars, detection
  <2>2. /\ UNCHANGED variant /\ RingsUpTo(ring)' = RingsUpTo(ring)
        /\ \A k : RingsOf(k)' = RingsOf(k)
    BY <2>1, RingsAreKept DEF input, RingsUpTo
  <2>. QED
    BY <2>1, <2>2, PlaysKept DEF RingsInv
<1>. QED
  BY <1>1, <1>2, <1>3, <1>4, <1>5, <1>6, <1>7, <1>8, ReadRangeRings, DecodeRingRings,
     EndRingsRings, EmplaceRings DEF Next, Ended

\* Every ring of a detection is in its polygons; a hole lies in its exterior
\* and no exterior in an earlier one, wherever that is convex, however many
\* points it has.  (pointInsideRing and the search for the owner in
\* decodePolygonEnvelope.)
THEOREM RingsPlay == Spec => []RingsPlayTheirPart
<1>1. Init => RingsInv
  BY InitRings
<1>2. Inv /\ RingsInv /\ [Next]_vars => RingsInv'
  BY StepKeepsRings
<1>3. Inv /\ RingsInv => RingsPlayTheirPart
  <2>. SUFFICES ASSUME Inv, RingsInv, variant = "Polygon", NEW r \in DOMAIN results
                PROVE  LET ps == results[r].polygons
                       IN  /\ UNION {Rings(ps[p]) : p \in DOMAIN ps} = RingsOf(results[r].detection)
                           /\ \A p \in DOMAIN ps : Convex(ps[p].exterior) =>
                                /\ \A h \in DOMAIN ps[p].holes :
                                     ~StrictlyOutside(ps[p].exterior, ps[p].holes[h][1])
                                /\ \A q \in DOMAIN ps :
                                     p < q => ~StrictlyInside(ps[p].exterior, ps[q].exterior[1])
    BY DEF RingsPlayTheirPart
  <2>. DEFINE ps == results[r].polygons
  <2>1. Plays(ps) /\ AllRings(ps) = RingsOf(results[r].detection)
    <3>1. results[r].detection = r - 1 /\ r - 1 \in 0 .. i - 1 /\ (r - 1) + 1 = r
      <4>1. IsSeq(results) /\ Len(results) = i
        BY DEF Inv, ResultsOK
      <4>2. r \in 1 .. i /\ i \in Nat
        BY <4>1, AppendIsSeq
      <4>. QED
        BY <4>2, DecodedFacts
    <3>. QED
      BY <3>1 DEF RingsInv
  <2>. HIDE DEF ps
  <2>2. ASSUME NEW p \in DOMAIN ps
        PROVE  /\ ps[p].exterior \in Ring /\ ps[p].exterior[1] \in Plane
               /\ \A h \in DOMAIN ps[p].holes : ps[p].holes[h][1] \in Plane
    <3>1. ps[p] \in Shape
      BY <2>1 DEF Plays
    <3>2. \A points \in Ring : points[1] \in Plane
      BY DEF Ring
    <3>. QED
      BY <3>1, <3>2 DEF Shape
  <2>3. ASSUME NEW p \in DOMAIN ps, Convex(ps[p].exterior)
        PROVE  \E side \in Orientation : Turned(ps[p].exterior, side)
    BY <2>3 DEF Convex, Orientation, Turned
  <2>4. ASSUME NEW p \in DOMAIN ps, Convex(ps[p].exterior), NEW h \in DOMAIN ps[p].holes
        PROVE  ~StrictlyOutside(ps[p].exterior, ps[p].holes[h][1])
    BY <2>1, <2>2, <2>3, <2>4, OutsideIsFound DEF Plays
  <2>5. ASSUME NEW p \in DOMAIN ps, Convex(ps[p].exterior), NEW q \in DOMAIN ps, p < q
        PROVE  ~StrictlyInside(ps[p].exterior, ps[q].exterior[1])
    BY <2>1, <2>2, <2>3, <2>5, InsideIsFound DEF Plays
  <2>. QED
    BY <2>1, <2>4, <2>5 DEF AllRings, ps
<1>. QED
  BY <1>1, <1>2, <1>3, DecoderCorrect, PTL DEF Spec
=============================================================================
