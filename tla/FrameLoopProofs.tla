--------------------------- MODULE FrameLoopProofs ---------------------------
(***************************************************************************)
(* Theorems about FrameLoop, for every source length, window, queue        *)
(* capacity and configuration.                                             *)
(***************************************************************************)
EXTENDS FrameLoopInvariant, SequenceTheorems, TLAPS

(***************************************************************************)
(* The run report, for every report and every stage.                       *)
(***************************************************************************)
\* Every method leaves a well-formed report well-formed (class RunReport).
LEMMA ReportTypes ==
  ASSUME NEW r \in Report, NEW stage \in RunStage, NEW n \in Nat
  PROVE  /\ BeginStage(r, stage) \in Report
         /\ AddStageMs(r, stage, n) \in Report
         /\ SuspendTiming(r) \in Report
         /\ ResumeTiming(r) \in Report
         /\ AddSample(r) \in Report
         /\ AddFrames(r, n) \in Report
         /\ Fail(r, stage) \in Report
<1>1. AddStageMs(r, stage, n) \in Report
  <2>1. CASE r.suspended > 0 \/ stage \notin TimedStage
    BY <2>1 DEF AddStageMs
  <2>2. CASE ~(r.suspended > 0 \/ stage \notin TimedStage)
    <3>1. [r.ms EXCEPT ![stage] = @ + n] \in [TimedStage -> Nat]
      BY <2>2 DEF Report
    <3>2. AddStageMs(r, stage, n) = [r EXCEPT !.ms = [r.ms EXCEPT ![stage] = @ + n]]
      BY <2>2 DEF AddStageMs, Report
    <3> QED BY <3>1, <3>2 DEF Report
  <2> QED BY <2>1, <2>2
<1>2. BeginStage(r, stage) \in Report  BY DEF BeginStage, Report
<1>3. SuspendTiming(r) \in Report      BY DEF SuspendTiming, Report
<1>4. ResumeTiming(r) \in Report       BY DEF ResumeTiming, Report
<1>5. AddSample(r) \in Report          BY DEF AddSample, Report
<1>6. AddFrames(r, n) \in Report
  <2>1. CASE n = 0
    BY <2>1 DEF AddFrames
  <2>2. CASE n # 0
    <3>1. AddFrames(r, n) = [[r EXCEPT !.sawFrames = TRUE]
                                EXCEPT !.frames = r.frames + n]
      BY <2>2 DEF AddFrames, Report
    <3>2. [r EXCEPT !.sawFrames = TRUE] \in Report
      BY DEF Report
    <3>3. r.frames + n \in Nat
      BY DEF Report
    <3> QED BY <3>1, <3>2, <3>3 DEF Report
  <2> QED BY <2>1, <2>2
<1>7. Fail(r, stage) \in Report        BY DEF Fail, Report
<1> QED BY <1>1, <1>2, <1>3, <1>4, <1>5, <1>6, <1>7

\* A StageTimer's two halves together: also well-formed.
LEMMA TimedType ==
  ASSUME NEW r \in Report, NEW stage \in RunStage, NEW n \in Nat
  PROVE  Timed(r, stage, n) \in Report
<1>1. BeginStage(r, stage) \in Report
  BY ReportTypes
<1> QED BY <1>1, ReportTypes DEF Timed

\* A new report is well-formed.
LEMMA NewReportType == NewReport \in Report
<1>1. "configuration" \in RunStage
  BY DEF RunStage
<1>2. [s \in TimedStage |-> 0] \in [TimedStage -> Nat]
  OBVIOUS
<1> QED BY <1>1, <1>2 DEF NewReport, Report

\* Stages, intervals and frames leave the outcome and the samples alone.
LEMMA KeepsOutcome ==
  ASSUME NEW r \in Report, NEW stage \in RunStage, NEW n \in Nat
  PROVE  /\ BeginStage(r, stage).failure = r.failure
         /\ BeginStage(r, stage).samples = r.samples
         /\ AddStageMs(r, stage, n).failure = r.failure
         /\ AddStageMs(r, stage, n).samples = r.samples
         /\ AddFrames(r, n).failure = r.failure
         /\ AddFrames(r, n).samples = r.samples
  BY DEF Report, BeginStage, AddStageMs, AddFrames

LEMMA TimedKeepsOutcome ==
  ASSUME NEW r \in Report, NEW stage \in RunStage, NEW n \in Nat
  PROVE  /\ Timed(r, stage, n).failure = r.failure
         /\ Timed(r, stage, n).samples = r.samples
<1>1. BeginStage(r, stage) \in Report
  BY ReportTypes
<1> QED BY <1>1, KeepsOutcome DEF Timed

(***************************************************************************)
(* The first failure is the one that ended the run: once a failure is      *)
(* recorded, no later call of any method changes it (RunReport::fail keeps *)
(* the first, and no other method writes failure_).                        *)
(***************************************************************************)
THEOREM FirstFailureWins ==
  ASSUME NEW r \in Report, NEW stage \in RunStage, NEW n \in Nat,
         r.failure # NoFailure
  PROVE  /\ BeginStage(r, stage).failure = r.failure
         /\ AddStageMs(r, stage, n).failure = r.failure
         /\ SuspendTiming(r).failure = r.failure
         /\ ResumeTiming(r).failure = r.failure
         /\ AddSample(r).failure = r.failure
         /\ AddFrames(r, n).failure = r.failure
         /\ Fail(r, stage).failure = r.failure
  BY DEF Report, BeginStage, AddStageMs, SuspendTiming, ResumeTiming,
         AddSample, AddFrames, Fail

(***************************************************************************)
(* What the document says: a failed run is never published with a rate and *)
(* is attributed to the stage of its failure, whatever was begun since.    *)
(***************************************************************************)
THEOREM FailedDocument ==
  ASSUME NEW r \in Report, r.failure # NoFailure
  PROVE  /\ Document(r).status = "failed"
         /\ Document(r).stage = r.failure
         /\ Document(r).throughput = <<>>
  BY DEF Report, Document, PublishesThroughput

(***************************************************************************)
(* The frame loops.                                                        *)
(***************************************************************************)
LEMMA StagesAreStages ==
  /\ "source" \in RunStage /\ "preprocess" \in RunStage
  /\ "inference" \in RunStage /\ "postprocess" \in RunStage
  /\ "render" \in RunStage
  BY DEF RunStage, TimedStage

\* A frame read and a picture drawn on are pictures.
LEMMA PictureTypes ==
  /\ \A k \in Nat \ {0} : Raw(k) \in Picture
  /\ \A p \in Picture, k \in Nat : Drawn(p, k) \in Picture
  BY DEF Picture, Raw, Drawn

\* Whatever a well-typed Mat shows is a picture.
LEMMA PixelsType ==
  ASSUME storage \in Picture, NEW mat \in Picture \cup {View}
  PROVE  Pixels(mat) \in Picture /\ Clone(mat) \in Picture /\ toFrame(mat) \in Picture
  BY DEF Pixels, Clone, toFrame

\* The inference timers keep the report well-formed, however far they got.
LEMMA TimedThroughType ==
  ASSUME report \in Report,
         NEW stage \in InferenceFault \cup {"imencode"}
  PROVE  TimedThrough(report, stage) \in Report
<1> DEFINE pre == IF cfg.encoded THEN report ELSE Timed(report, "preprocess", 1)
           inf == Timed(pre, "inference", 1)
<1>1. pre \in Report
  BY TimedType, StagesAreStages
<1>2. inf \in Report
  BY <1>1, TimedType, StagesAreStages
<1>3. Timed(inf, "postprocess", 1) \in Report
  BY <1>2, TimedType, StagesAreStages
<1>4. CASE stage = "imencode"    BY <1>4 DEF TimedThrough
<1>5. CASE stage = "preprocess"  BY <1>5, <1>1 DEF TimedThrough
<1>6. CASE stage = "inference"   BY <1>6, <1>2 DEF TimedThrough
<1>7. CASE stage = "postprocess" BY <1>7, <1>3 DEF TimedThrough
<1> QED BY <1>4, <1>5, <1>6, <1>7 DEF InferenceFault

LEMMA TimedThroughKeepsOutcome ==
  ASSUME report \in Report,
         NEW stage \in InferenceFault \cup {"imencode"}
  PROVE  /\ TimedThrough(report, stage).failure = report.failure
         /\ TimedThrough(report, stage).samples = report.samples
<1> DEFINE pre == IF cfg.encoded THEN report ELSE Timed(report, "preprocess", 1)
           inf == Timed(pre, "inference", 1)
           post == Timed(inf, "postprocess", 1)
<1>1. pre \in Report /\ pre.failure = report.failure /\ pre.samples = report.samples
  BY TimedType, TimedKeepsOutcome, StagesAreStages
<1>2. inf \in Report /\ inf.failure = report.failure /\ inf.samples = report.samples
  <2> HIDE DEF pre
  <2> QED BY <1>1, TimedType, TimedKeepsOutcome, StagesAreStages
<1>3. post.failure = report.failure /\ post.samples = report.samples
  <2> HIDE DEF inf
  <2> QED BY <1>2, TimedKeepsOutcome, StagesAreStages
<1>4. CASE stage = "imencode"    BY <1>4 DEF TimedThrough
<1>5. CASE stage = "preprocess"  BY <1>5, <1>1 DEF TimedThrough
<1>6. CASE stage = "inference"   BY <1>6, <1>2 DEF TimedThrough
<1>7. CASE stage = "postprocess" BY <1>7, <1>3 DEF TimedThrough
<1> QED BY <1>4, <1>5, <1>6, <1>7 DEF InferenceFault

-----------------------------------------------------------------------------
TypeInv == TypeOK /\ Shape

LEMMA TypeInit == Init => TypeInv
<1> SUFFICES ASSUME Init PROVE TypeInv
  OBVIOUS
<1>1. <<>> \in Seq(Picture) /\ <<>> \in Seq(Nat) /\ Len(<<>>) = 0
  BY EmptySeq
<1>2. WriterTypeOK
  <2>1. queue = <<>> /\ file = <<>> /\ broken = FALSE /\ container = "absent" /\ releases = 0
    BY DEF Init, WriterInit
  <2>2. Len(queue) <= QueueCapacity
    BY <1>1, <2>1, QueueCapacityAssumption
  <2>3. container \in Container
    BY <2>1 DEF Container
  <2> QED BY <1>1, <2>1, <2>2, <2>3 DEF WriterTypeOK
<1>3. Raw(1) \in Picture
  BY PictureTypes
<1>4. report \in Report
  BY NewReportType DEF Init
<1>5. pc \in PC
  BY DEF Init, PC
<1>6. TypeOK
  <2>1. read \in 0 .. MaxFrames /\ frame_index \in Nat
    BY FrameLoopAssumption DEF Init
  <2>2. storage \in Picture /\ image \in Picture \cup {View} /\ cfg \in Config
    BY <1>3 DEF Init
  <2>3. frameBuffer \in Seq(Picture) /\ asked \in Seq(Picture) /\ submitted \in Seq(Picture) /\ rows \in Seq(Nat)
    BY <1>1 DEF Init
  <2>4. read_to_end \in BOOLEAN /\ sink \in {"none", "open", "released"}
    BY DEF Init
  <2>5. timings \in {"off", "open", "flushed"} /\ fault \in Fault \cup {"none"}
    BY DEF Init
  <2> QED BY <1>2, <1>4, <1>5, <2>1, <2>2, <2>3, <2>4, <2>5 DEF TypeOK
<1>7. Shape
  BY DEF Shape, Init
<1> QED BY <1>6, <1>7 DEF TypeInv

LEMMA TypeStep == TypeInv /\ [Next]_vars => TypeInv'
<1> SUFFICES ASSUME TypeInv, [Next]_vars PROVE TypeInv'
  OBVIOUS
<1> USE FrameLoopAssumption, QueueCapacityAssumption
    DEF TypeInv, runVars, pixelVars, sinkVars, csvVars, writerVars, loopVars
<1> USE DEF TypeOK, WriterTypeOK, Step, Throws
<1>1. CASE OpenSource
  <2>1. report' \in Report
    BY <1>1, TimedType, StagesAreStages DEF OpenSource
  <2> QED BY <1>1, <2>1 DEF OpenSource, PC, Fault, Shape
<1>2. CASE OpenTimings
  <2>1. report' \in Report
    BY <1>2, ReportTypes, StagesAreStages DEF OpenTimings, attributeTo
  <2> QED BY <1>2, <2>1 DEF OpenTimings, PC, Fault, Shape
<1>3. CASE ReadFrame
  <2>1. report' \in Report
    BY <1>3, TimedType, StagesAreStages DEF ReadFrame
  <2>2. storage' \in Picture /\ read' \in 0 .. MaxFrames /\ read_to_end' \in BOOLEAN
    <3>1. CASE EndOfSource \/ Throws("read", "read")
      BY <1>3, <3>1 DEF ReadFrame, EndOfSource
    <3>2. CASE read < MaxFrames /\ read' = read + 1 /\ storage' = Raw(read + 1) /\ UNCHANGED read_to_end
      <4>1. read + 1 \in Nat \ {0}
        OBVIOUS
      <4> QED BY <3>2, <4>1, PictureTypes
    <3> QED BY <1>3, <3>1, <3>2 DEF ReadFrame, EndOfSource
  <2>3. pc' \in {"convert", "tail", "unwinding"} /\ fault' \in Fault \cup {"none"}
    BY <1>3 DEF ReadFrame, EndOfSource, Fault
  <2> QED BY <1>3, <2>1, <2>2, <2>3 DEF ReadFrame, PC, Shape
<1>4. CASE Convert
  <2>1. toBgrMat \in Picture \cup {View}
    BY DEF toBgrMat
  <2> QED BY <1>4, <2>1 DEF Convert, PC, Fault, Shape
<1>5. CASE OpenSink
  <2>1. report' \in Report
    BY <1>5, ReportTypes, StagesAreStages DEF OpenSink, attributeTo
  <2>2. WriterTypeOK'
    BY <1>5 DEF OpenSink, WriterInitialize, Container
  <2>3. /\ pc' \in {"infer", "buffer", "unwinding"}
        /\ pc' = "infer" => cfg.mode = "video"
        /\ fault' \in Fault \cup {"none"}
    BY <1>5 DEF OpenSink, Fault
  <2>4. sink' \in {"none", "open", "released"}
    BY <1>5 DEF OpenSink
  <2> QED BY <1>5, <2>1, <2>2, <2>3, <2>4 DEF OpenSink, PC, Shape
<1>6. CASE Buffer
  <2>1. report' \in Report
    BY <1>6, ReportTypes, StagesAreStages DEF Buffer
  <2>2. Clone(image) \in Picture
    BY PixelsType
  <2>3. frameBuffer' \in Seq(Picture)
    BY <1>6, <2>2, AppendProperties DEF Buffer
  <2>4. /\ pc' \in {"infer", "write", "key"}
        /\ pc' = "infer" => Len(frameBuffer') >= Window
        /\ UNCHANGED fault
    BY <1>6 DEF Buffer
  <2>5. frame_index' \in Nat /\ frame_index' > 0
    BY <1>6 DEF Buffer
  <2> QED BY <1>6, <2>1, <2>3, <2>4, <2>5 DEF Buffer, PC, Shape
<1>7. CASE InferFrame
  <2>1. report' \in Report
    <3>1. CASE Step("infer", "row") /\ report' = AddFrames(TimedThrough(report, "postprocess"), 1)
      <4>1. TimedThrough(report, "postprocess") \in Report
        BY TimedThroughType DEF InferenceFault
      <4> QED BY <3>1, <4>1, ReportTypes, StagesAreStages
    <3>2. ASSUME NEW S \in SUBSET (InferenceFault \cup {"imencode"}), InferenceThrows(S)
          PROVE  report' \in Report
      BY <3>2, TimedThroughType DEF InferenceThrows
    <3> QED BY <1>7, <3>1, <3>2 DEF InferFrame, InferenceFault
  <2>2. asked' \in Seq(Picture) /\ asked' # <<>>
    BY <1>7, PixelsType DEF InferFrame
  <2>3. pc' \in {"row", "unwinding"} /\ fault' \in Fault \cup {"none"}
    BY <1>7 DEF InferFrame, InferenceThrows, Fault, InferenceFault
  <2> QED BY <1>7, <2>1, <2>2, <2>3 DEF InferFrame, PC, Shape
<1>8. CASE InferWindow
  <2>1. report' \in Report
    BY <1>8, TimedThroughType DEF InferWindow, InferenceThrows, InferenceFault
  <2>2. asked' \in Seq(Picture) /\ asked' = frameBuffer
    <3>1. \A k \in DOMAIN frameBuffer : Pixels(frameBuffer[k]) = frameBuffer[k]
      BY ElementOfSeq, LenProperties DEF Pixels
    <3>2. frameBuffer = [k \in DOMAIN frameBuffer |-> frameBuffer[k]]
      BY LenProperties
    <3>3. asked' = [k \in DOMAIN frameBuffer |-> Pixels(frameBuffer[k])]
      BY <1>8 DEF InferWindow
    <3>4. asked' = frameBuffer
      BY <3>1, <3>2, <3>3
    <3>5. frameBuffer \in Seq(Picture)
      OBVIOUS
    <3> QED BY <3>4, <3>5
  <2>3. asked' # <<>> /\ Len(frameBuffer) >= Window /\ frame_index > 0
    BY <1>8, <2>2, EmptySeq DEF InferWindow, Shape, InferenceThrows
  <2>4. pc' \in {"row", "unwinding"} /\ fault' \in Fault \cup {"none"}
    BY <1>8 DEF InferWindow, InferenceThrows, Fault, InferenceFault
  <2> QED BY <1>8, <2>1, <2>2, <2>3, <2>4 DEF InferWindow, PC, Shape
<1>9. CASE AddTiming
  <2>1. report' \in Report
    BY <1>9, ReportTypes, StagesAreStages DEF AddTiming, attributeTo
  <2>2. TimingRow \in Nat
    BY <1>9 DEF AddTiming, TimingRow, Shape, Config
  <2>3. rows' \in Seq(Nat)
    <3>1. Append(rows, TimingRow) \in Seq(Nat)
      BY <2>2, AppendProperties
    <3> QED BY <1>9, <3>1 DEF AddTiming
  <2> QED BY <1>9, <2>1, <2>3 DEF AddTiming, PC, Fault, Shape
<1>10. asked # <<>> => Result \in Nat
  <2> SUFFICES ASSUME asked # <<>> PROVE Result \in Nat
    OBVIOUS
  <2>1. Len(asked) \in 1 .. Len(asked)
    BY EmptySeq
  <2>2. asked[Len(asked)] \in Picture
    BY <2>1, ElementOfSeq
  <2> QED BY <2>2 DEF Result, Picture
<1>11. CASE DrawFrame
  <2>1. report' \in Report
    <3>1. BeginStage(report, "render") \in Report
      BY ReportTypes, StagesAreStages
    <3>2. Timed(report, "render", 1) \in Report
      BY TimedType, StagesAreStages
    <3> QED BY <1>11, <3>1, <3>2 DEF DrawFrame
  <2>2. Result \in Nat
    BY <1>10, <1>11 DEF DrawFrame, Shape
  <2>3. storage' \in Picture /\ image' \in Picture \cup {View}
    BY <1>11, <2>2, PictureTypes DEF DrawFrame
  <2>4. pc' \in {"write", "unwinding"} /\ fault' \in Fault \cup {"none"}
    BY <1>11 DEF DrawFrame, Fault
  <2> QED BY <1>11, <2>1, <2>3, <2>4 DEF DrawFrame, PC, Shape
<1>12. CASE DrawWindow
  <2>1. report' \in Report
    <3>1. BeginStage(report, "render") \in Report
      BY ReportTypes, StagesAreStages
    <3>2. Timed(report, "render", 1) \in Report
      BY TimedType, StagesAreStages
    <3> QED BY <1>12, <3>1, <3>2 DEF DrawWindow
  <2>2. Result \in Nat
    BY <1>10, <1>12 DEF DrawWindow, Shape
  <2>3. frameBuffer[Len(frameBuffer)] \in Picture
    <3>1. Len(frameBuffer) \in 1 .. Len(frameBuffer)
      BY <1>12, LenProperties DEF DrawWindow, Shape
    <3> QED BY <3>1, ElementOfSeq
  <2>4. image' \in Picture
    BY <1>12, <2>2, <2>3, PictureTypes, PixelsType DEF DrawWindow
  <2>5. pc' \in {"write", "unwinding"} /\ fault' \in Fault \cup {"none"}
    BY <1>12 DEF DrawWindow, Fault
  <2> QED BY <1>12, <2>1, <2>4, <2>5 DEF DrawWindow, PC, Shape
<1>13. CASE Write
  <2>1. report' \in Report
    BY <1>13, TimedType, StagesAreStages DEF Write
  <2>2. toFrame(image) \in Picture
    BY PixelsType
  <2>3. WriterTypeOK' /\ submitted' \in Seq(Picture)
    <3>1. CASE UNCHANGED <<submitted, writerVars>>
      BY <3>1
    <3>2. CASE WriterAccept(toFrame(image)) /\ submitted' = Append(submitted, toFrame(image))
      BY <2>2, <3>2, AppendProperties DEF WriterAccept
    <3> QED BY <1>13, <3>1, <3>2 DEF Write, WriterRefuse
  <2>4. frame_index' \in Nat
    BY <1>13 DEF Write
  <2>5. frameBuffer' \in Seq(Picture)
    <3>1. Len(frameBuffer) >= Window => Tail(frameBuffer) \in Seq(Picture)
      BY HeadTailProperties, EmptySeq
    <3> QED BY <1>13, <3>1 DEF Write
  <2>6. pc' \in {"key", "unwinding"} /\ fault' \in Fault \cup {"none"}
    BY <1>13 DEF Write, Fault
  <2> QED BY <1>13, <2>1, <2>3, <2>4, <2>5, <2>6 DEF Write, PC, Shape
<1>14. CASE WaitKey
  BY <1>14 DEF WaitKey, PC, Shape
<1>15. CASE CloseTimings
  <2>1. report' \in Report
    BY <1>15, ReportTypes, StagesAreStages DEF CloseTimings, attributeTo
  <2>2. pc' \in {"finish", "sample", "unwinding"} /\ fault' \in Fault \cup {"none"}
    BY <1>15 DEF CloseTimings, AfterTimings, Fault
  <2>3. timings' \in {"off", "open", "flushed"}
    BY <1>15 DEF CloseTimings
  <2> QED BY <1>15, <2>1, <2>2, <2>3 DEF CloseTimings, PC, Shape
<1>16. CASE Finish
  <2>1. report' \in Report
    BY <1>16, ReportTypes, StagesAreStages DEF Finish
  <2> QED BY <1>16, <2>1 DEF Finish, PC, Shape
<1>17. CASE FinishReturns
  <2>1. report' \in Report
    BY <1>17, ReportTypes, StagesAreStages DEF FinishReturns
  <2>2. WriterTypeOK'
    BY <1>17 DEF FinishReturns, WriterRelease, Container
  <2>3. pc' \in {"sample", "unwinding"} /\ fault' \in Fault \cup {"none"}
    BY <1>17 DEF FinishReturns, Fault
  <2> QED BY <1>17, <2>1, <2>2, <2>3 DEF FinishReturns, PC, Shape
<1>18. CASE CountSample
  <2>1. report' \in Report
    BY <1>18, ReportTypes, StagesAreStages DEF CountSample
  <2> QED BY <1>18, <2>1 DEF CountSample, PC, Shape
<1>19. CASE Unwind
  <2>1. WriterTypeOK' /\ sink' \in {"none", "open", "released"}
    BY <1>19 DEF Unwind, WriterRelease, Container
  <2> QED BY <1>19, <2>1 DEF Unwind, PC, Shape
<1>20. CASE Catch
  <2>1. report.stage \in RunStage
    BY DEF Report
  <2>2. report' \in Report
    BY <1>20, <2>1, ReportTypes DEF Catch
  <2> QED BY <1>20, <2>2 DEF Catch, PC, Shape
<1>21. CASE Encode
  <2>1. queue # <<>> /\ Head(queue) \in Picture /\ Tail(queue) \in Seq(Picture) /\ Len(Tail(queue)) <= Len(queue)
    BY <1>21, HeadTailProperties, LenProperties DEF Encode
  <2>2. Pixels(Head(queue)) \in Picture
    BY <2>1, PixelsType
  <2>3. file' \in Seq(Picture)
    BY <1>21, <2>2, AppendProperties DEF Encode, WriterEncode
  <2>4. WriterTypeOK'
    BY <1>21, <2>1, <2>3 DEF Encode, WriterEncode
  <2> QED BY <1>21, <2>4 DEF Encode, Shape
<1>22. CASE EncodeFails
  <2>1. queue # <<>> /\ Tail(queue) \in Seq(Picture) /\ Len(Tail(queue)) <= Len(queue)
    BY <1>22, HeadTailProperties, LenProperties DEF EncodeFails, WriterEncodeFails
  <2>2. <<>> \in Seq(Picture) /\ Len(<<>>) = 0
    BY EmptySeq
  <2>3. WriterTypeOK'
    <3>1. Len(queue') <= QueueCapacity /\ queue' \in Seq(Picture)
      <4>1. Len(queue) \in Nat /\ Len(Tail(queue)) \in Nat
        BY <2>1, LenProperties
      <4>2. CASE queue' = Tail(queue)  BY <2>1, <4>1, <4>2
      <4>3. CASE queue' = <<>>         BY <2>2, <4>3
      <4> QED BY <1>22, <4>2, <4>3 DEF EncodeFails, WriterEncodeFails
    <3> QED BY <1>22, <3>1 DEF EncodeFails, WriterEncodeFails
  <2> QED BY <1>22, <2>3 DEF EncodeFails, Shape
<1>23. CASE UNCHANGED vars
  BY <1>23 DEF vars, Shape, Result
<1> QED
  BY <1>1, <1>2, <1>3, <1>4, <1>5, <1>6, <1>7, <1>8, <1>9, <1>11, <1>12, <1>13,
     <1>14, <1>15, <1>16, <1>17, <1>18, <1>19, <1>20, <1>21, <1>22, <1>23
  DEF Next, LoopThread, EncoderThread, Terminated

(***************************************************************************)
(* The types of every variable, for every source and configuration: in     *)
(* particular the queue never holds more than QueueCapacity pictures and   *)
(* neither the window nor the queue ever holds a view onto frame storage.  *)
(***************************************************************************)
THEOREM TypeCorrect == Spec => []TypeOK
<1>1. TypeInv => TypeOK
  BY DEF TypeInv
<1> QED BY TypeInit, TypeStep, <1>1, PTL DEF Spec

LEMMA TypeAlways == Spec => []TypeInv
  BY TypeInit, TypeStep, PTL DEF Spec

-----------------------------------------------------------------------------
\* Only Catch decides the outcome and only CountSample counts a sample.
LEMMA OutcomeKept ==
  ASSUME TypeInv, [Next]_vars, ~Catch
  PROVE  /\ report'.failure = report.failure
         /\ ~CountSample => report'.samples = report.samples
<1> USE DEF TypeInv, TypeOK
<1> DEFINE Kept == report'.failure = report.failure /\ report'.samples = report.samples
<1>1. CASE OpenSource
  BY <1>1, TimedKeepsOutcome, StagesAreStages DEF OpenSource
<1>2. CASE OpenTimings
  BY <1>2, KeepsOutcome, StagesAreStages DEF OpenTimings, attributeTo
<1>3. CASE ReadFrame
  BY <1>3, TimedKeepsOutcome, StagesAreStages DEF ReadFrame
<1>4. CASE Convert
  BY <1>4 DEF Convert
<1>5. CASE OpenSink
  BY <1>5, KeepsOutcome, StagesAreStages DEF OpenSink, attributeTo
<1>6. CASE Buffer
  BY <1>6, KeepsOutcome, StagesAreStages DEF Buffer
<1>7. CASE InferFrame
  <2>1. CASE report' = AddFrames(TimedThrough(report, "postprocess"), 1)
    <3>1. TimedThrough(report, "postprocess") \in Report
      BY TimedThroughType DEF InferenceFault
    <3>2. /\ TimedThrough(report, "postprocess").failure = report.failure
          /\ TimedThrough(report, "postprocess").samples = report.samples
      BY TimedThroughKeepsOutcome DEF InferenceFault
    <3> QED BY <2>1, <3>1, <3>2, KeepsOutcome, StagesAreStages
  <2>2. ASSUME NEW S \in SUBSET (InferenceFault \cup {"imencode"}), InferenceThrows(S)
        PROVE  Kept
    <3>1. PICK stage \in S : report' = TimedThrough(report, stage)
      BY <2>2 DEF InferenceThrows
    <3>2. stage \in InferenceFault \cup {"imencode"}
      OBVIOUS
    <3> QED BY <3>1, <3>2, TimedThroughKeepsOutcome
  <2> QED BY <1>7, <2>1, <2>2 DEF InferFrame, InferenceFault
<1>8. CASE InferWindow
  BY <1>8, TimedThroughKeepsOutcome DEF InferWindow, InferenceThrows, InferenceFault
<1>9. CASE AddTiming
  BY <1>9, KeepsOutcome, StagesAreStages DEF AddTiming, attributeTo
<1>10. CASE DrawFrame
  <2>1. CASE report' = BeginStage(report, "render")  BY <2>1, KeepsOutcome, StagesAreStages
  <2>2. CASE report' = Timed(report, "render", 1)    BY <2>2, TimedKeepsOutcome, StagesAreStages
  <2> QED BY <1>10, <2>1, <2>2 DEF DrawFrame
<1>11. CASE DrawWindow
  <2>1. CASE report' = BeginStage(report, "render")  BY <2>1, KeepsOutcome, StagesAreStages
  <2>2. CASE report' = Timed(report, "render", 1)    BY <2>2, TimedKeepsOutcome, StagesAreStages
  <2> QED BY <1>11, <2>1, <2>2 DEF DrawWindow
<1>12. CASE Write
  BY <1>12, TimedKeepsOutcome, StagesAreStages DEF Write
<1>13. CASE WaitKey
  BY <1>13 DEF WaitKey
<1>14. CASE CloseTimings
  BY <1>14, KeepsOutcome, StagesAreStages DEF CloseTimings, attributeTo
<1>15. CASE Finish
  BY <1>15, KeepsOutcome, StagesAreStages DEF Finish
<1>16. CASE FinishReturns
  BY <1>16, KeepsOutcome, StagesAreStages DEF FinishReturns
<1>17. CASE CountSample
  BY <1>17 DEF CountSample, AddSample, Report
<1>18. CASE Unwind
  BY <1>18 DEF Unwind
<1>19. CASE Encode \/ EncodeFails \/ UNCHANGED vars
  BY <1>19 DEF Encode, EncodeFails, loopVars, vars
<1> QED
  BY <1>1, <1>2, <1>3, <1>4, <1>5, <1>6, <1>7, <1>8, <1>9, <1>10, <1>11, <1>12,
     <1>13, <1>14, <1>15, <1>16, <1>17, <1>18, <1>19
  DEF Next, LoopThread, EncoderThread, Terminated

\* The counts follow the loop's place in the iteration.
LEMMA PositionStep ==
  ASSUME TypeInv, TypeInv', Position, [Next]_vars
  PROVE  Position'
<1> USE FrameLoopAssumption DEF TypeInv, TypeOK, WriterTypeOK, Step, Throws, Normal, InHand,
             runVars, pixelVars, sinkVars, csvVars, writerVars, loopVars, Position
<1>1. CASE OpenSource
  BY <1>1 DEF OpenSource
<1>2. CASE OpenTimings
  BY <1>2 DEF OpenTimings, attributeTo
<1>3. CASE ReadFrame
  <2>1. CASE /\ Step("read", "convert")
              /\ read' = read + 1
              /\ UNCHANGED <<read_to_end, frame_index, frameBuffer, cfg>>
    BY <2>1
  <2>2. CASE EndOfSource /\ UNCHANGED <<frame_index, frameBuffer, cfg>>
    BY <2>2 DEF EndOfSource
  <2>3. CASE Throws("read", "read") /\ UNCHANGED <<read, read_to_end, frame_index, frameBuffer, cfg>>
    BY <2>3
  <2> QED BY <1>3, <2>1, <2>2, <2>3 DEF ReadFrame
<1>4. CASE Convert
  BY <1>4 DEF Convert, toBgrMat
<1>5. CASE OpenSink
  BY <1>5 DEF OpenSink, attributeTo, WriterInitialize
<1>6. CASE Buffer
  BY <1>6 DEF Buffer
<1>7. CASE InferFrame
  BY <1>7 DEF InferFrame, InferenceThrows
<1>8. CASE InferWindow
  BY <1>8 DEF InferWindow, InferenceThrows
<1>9. CASE AddTiming
  BY <1>9 DEF AddTiming, attributeTo
<1>10. CASE DrawFrame
  BY <1>10 DEF DrawFrame
<1>11. CASE DrawWindow
  BY <1>11 DEF DrawWindow
<1>12. CASE Write
  <2>1. cfg.mode = "video" => frameBuffer' = <<>>
    BY <1>12, EmptySeq DEF Write
  <2>2. UNCHANGED <<cfg, read, read_to_end>>
    BY <1>12 DEF Write
  <2>3. CASE pc' = "unwinding"
    BY <2>1, <2>2, <2>3
  <2>4. CASE /\ Step("write", "key")
              /\ frame_index' = IF cfg.mode = "video" THEN frame_index + 1 ELSE frame_index
    BY <2>1, <2>2, <2>4
  <2> QED BY <1>12, <2>3, <2>4 DEF Write
<1>13. CASE WaitKey
  BY <1>13 DEF WaitKey
<1>14. CASE CloseTimings
  BY <1>14 DEF CloseTimings, attributeTo, AfterTimings
<1>15. CASE Finish
  BY <1>15 DEF Finish
<1>16. CASE FinishReturns
  BY <1>16 DEF FinishReturns, WriterRelease
<1>17. CASE CountSample
  BY <1>17 DEF CountSample
<1>18. CASE Unwind
  BY <1>18 DEF Unwind, WriterRelease
<1>19. CASE Catch
  BY <1>19 DEF Catch
<1>20. CASE Encode
  BY <1>20 DEF Encode, WriterEncode
<1>21. CASE EncodeFails
  BY <1>21 DEF EncodeFails, WriterEncodeFails
<1>22. CASE UNCHANGED vars
  BY <1>22 DEF vars
<1> QED
  BY <1>1, <1>2, <1>3, <1>4, <1>5, <1>6, <1>7, <1>8, <1>9, <1>10, <1>11, <1>12,
     <1>13, <1>14, <1>15, <1>16, <1>17, <1>18, <1>19, <1>20, <1>21, <1>22
  DEF Next, LoopThread, EncoderThread, Terminated

\* The sink is opened once and released once, on every way out.
LEMMA SinkLifeStep ==
  ASSUME TypeInv, TypeInv', Position, SinkLife, [Next]_vars
  PROVE  SinkLife'
<1> USE FrameLoopAssumption DEF TypeInv, TypeOK, WriterTypeOK, Step, Throws, Normal, InHand,
             runVars, pixelVars, sinkVars, csvVars, writerVars, loopVars,
             SinkLife, Position, Container
<1>1. CASE OpenSource
  BY <1>1 DEF OpenSource
<1>2. CASE OpenTimings
  BY <1>2 DEF OpenTimings, attributeTo
<1>3. CASE ReadFrame
  BY <1>3 DEF ReadFrame, EndOfSource
<1>4. CASE Convert
  BY <1>4 DEF Convert, toBgrMat
<1>5. CASE OpenSink
  BY <1>5 DEF OpenSink, attributeTo, WriterInitialize
<1>6. CASE Buffer
  BY <1>6 DEF Buffer
<1>7. CASE InferFrame
  BY <1>7 DEF InferFrame, InferenceThrows
<1>8. CASE InferWindow
  BY <1>8 DEF InferWindow, InferenceThrows
<1>9. CASE AddTiming
  BY <1>9 DEF AddTiming, attributeTo
<1>10. CASE DrawFrame
  BY <1>10 DEF DrawFrame
<1>11. CASE DrawWindow
  BY <1>11 DEF DrawWindow
<1>12. CASE Write
  BY <1>12 DEF Write, WriterAccept, WriterRefuse
<1>13. CASE WaitKey
  BY <1>13 DEF WaitKey
<1>14. CASE CloseTimings
  BY <1>14 DEF CloseTimings, attributeTo, AfterTimings
<1>15. CASE Finish
  BY <1>15 DEF Finish
<1>16. CASE FinishReturns
  BY <1>16 DEF FinishReturns, WriterRelease
<1>17. CASE CountSample
  BY <1>17 DEF CountSample
<1>18. CASE Unwind
  BY <1>18 DEF Unwind, WriterRelease
<1>19. CASE Catch
  BY <1>19 DEF Catch
<1>20. CASE Encode
  BY <1>20 DEF Encode, WriterEncode
<1>21. CASE EncodeFails
  BY <1>21 DEF EncodeFails, WriterEncodeFails
<1>22. CASE UNCHANGED vars
  BY <1>22 DEF vars
<1> QED
  BY <1>1, <1>2, <1>3, <1>4, <1>5, <1>6, <1>7, <1>8, <1>9, <1>10, <1>11, <1>12,
     <1>13, <1>14, <1>15, <1>16, <1>17, <1>18, <1>19, <1>20, <1>21, <1>22
  DEF Next, LoopThread, EncoderThread, Terminated

\* A window of the latest frames stays one when the next frame joins it.
LEMMA WindowGrows ==
  ASSUME NEW s \in Seq(Picture), NEW fi \in Nat, NEW next \in Nat, next = fi + 1,
         Raw(next) \in Picture, NEW t \in Seq(Picture), t = Append(s, Raw(next)),
         \A k \in DOMAIN s : s[k] = Raw(fi - Len(s) + k)
  PROVE  /\ Len(t) = Len(s) + 1
         /\ \A k \in DOMAIN t : t[k] = Raw(next - Len(t) + k)
<1>1. /\ Len(t) = Len(s) + 1
      /\ t[Len(s) + 1] = Raw(next)
      /\ \A k \in 1 .. Len(s) : t[k] = s[k]
  BY AppendProperties
<1>2. DOMAIN t = 1 .. Len(t) /\ DOMAIN s = 1 .. Len(s) /\ Len(s) \in Nat
  BY <1>1, LenProperties
<1>3. ASSUME NEW k \in DOMAIN t
      PROVE  t[k] = Raw(next - Len(t) + k)
  <2>0. k \in Nat /\ (k = Len(s) + 1 \/ k \in 1 .. Len(s))
    BY <1>1, <1>2
  <2>1. CASE k = Len(s) + 1
    <3>1. next - Len(t) + k = next
      BY <1>1, <1>2, <2>1
    <3> QED BY <1>1, <2>1, <3>1
  <2>2. CASE k \in 1 .. Len(s)
    <3>1. next - Len(t) + k = fi - Len(s) + k
      BY <1>1, <1>2, <2>2
    <3>2. t[k] = Raw(fi - Len(s) + k)
      BY <1>1, <1>2, <2>2
    <3> QED BY <3>1, <3>2
  <2> QED BY <2>0, <2>1, <2>2
<1> QED BY <1>1, <1>3

\* And when its oldest frame leaves.
LEMMA WindowSlides ==
  ASSUME NEW s \in Seq(Picture), NEW fi \in Nat, Len(s) > 0,
         \A k \in DOMAIN s : s[k] = Raw(fi - Len(s) + k)
  PROVE  /\ Len(Tail(s)) = Len(s) - 1
         /\ \A k \in DOMAIN Tail(s) : Tail(s)[k] = Raw(fi - Len(Tail(s)) + k)
<1> DEFINE t == Tail(s)
<1>1. /\ t \in Seq(Picture)
      /\ Len(t) = Len(s) - 1
      /\ \A k \in 1 .. Len(t) : t[k] = s[k + 1]
  BY HeadTailProperties, EmptySeq
<1>2. DOMAIN t = 1 .. Len(t) /\ DOMAIN s = 1 .. Len(s) /\ Len(s) \in Nat
  BY <1>1, LenProperties
<1> HIDE DEF t
<1>3. ASSUME NEW k \in DOMAIN t
      PROVE  t[k] = Raw(fi - Len(t) + k)
  <2>1. k \in Nat /\ k \in 1 .. Len(t) /\ k + 1 \in 1 .. Len(s)
    BY <1>1, <1>2
  <2>2. fi - Len(t) + k = fi - Len(s) + (k + 1)
    BY <1>1, <1>2, <2>1
  <2>3. s[k + 1] = Raw(fi - Len(s) + (k + 1))
    BY <1>2, <2>1
  <2> QED BY <1>1, <2>1, <2>2, <2>3
<1> QED BY <1>1, <1>3 DEF t

\* When the window is used, its last frame is the one just read.
LEMMA LastOfWindow ==
  ASSUME TypeInv, Position, WindowContents,
         cfg.mode = "classification", pc \in {"infer", "row", "draw"}
  PROVE  /\ Len(frameBuffer) \in 1 .. Len(frameBuffer)
         /\ frameBuffer[Len(frameBuffer)] = Raw(read)
         /\ read >= Window
<1>1. frame_index = read /\ frame_index >= Window
  BY DEF Position, WindowContents, Normal, InHand
<1>2. Len(frameBuffer) = Window
  BY <1>1, FrameLoopAssumption DEF WindowContents, Normal, Least, TypeInv, TypeOK
<1>3. DOMAIN frameBuffer = 1 .. Len(frameBuffer)
  BY LenProperties DEF TypeInv, TypeOK
<1>4. Len(frameBuffer) \in 1 .. Len(frameBuffer)
  BY <1>2, FrameLoopAssumption
<1>5. frameBuffer[Len(frameBuffer)] = Raw(frame_index - Len(frameBuffer) + Len(frameBuffer))
  BY <1>3, <1>4 DEF WindowContents, Normal
<1>6. frame_index - Len(frameBuffer) + Len(frameBuffer) = frame_index
  BY <1>2, FrameLoopAssumption DEF TypeInv, TypeOK
<1> QED BY <1>1, <1>4, <1>5, <1>6

\* The window holds the latest frames.
LEMMA WindowContentsStep ==
  ASSUME TypeInv, TypeInv', Position, Position', PictureInHand, WindowContents, [Next]_vars
  PROVE  WindowContents'
<1> USE FrameLoopAssumption DEF TypeInv, TypeOK, WriterTypeOK, Step, Throws, Normal, InHand,
             runVars, pixelVars, sinkVars, csvVars, writerVars, loopVars,
             Position, WindowContents, Least
<1>1. CASE OpenSource
  BY <1>1 DEF OpenSource
<1>2. CASE OpenTimings
  BY <1>2 DEF OpenTimings, attributeTo
<1>3. CASE ReadFrame
  BY <1>3 DEF ReadFrame, EndOfSource
<1>4. CASE Convert
  BY <1>4 DEF Convert, toBgrMat
<1>5. CASE OpenSink
  BY <1>5 DEF OpenSink, attributeTo, WriterInitialize
<1>6. CASE Buffer
  <2>1. Clone(image) = Raw(read)
    BY <1>6 DEF Buffer, PictureInHand, Clone, Pixels
  <2>2. /\ Raw(frame_index') \in Picture
        /\ frameBuffer' = Append(frameBuffer, Raw(frame_index'))
        /\ frame_index' = frame_index + 1
        /\ cfg.mode = "classification" /\ UNCHANGED cfg
    <3>1. read = frame_index + 1 /\ cfg.mode = "classification"
      BY <1>6 DEF Buffer, Config
    <3>2. Raw(read) \in Picture
      BY <2>1, PixelsType
    <3>3. frameBuffer' = Append(frameBuffer, Clone(image)) /\ frame_index' = frame_index + 1 /\ UNCHANGED cfg
      BY <1>6 DEF Buffer
    <3> QED BY <2>1, <3>1, <3>2, <3>3
  <2>3. /\ Len(frameBuffer) = Least(frame_index, Window - 1)
        /\ \A k \in DOMAIN frameBuffer : frameBuffer[k] = Raw(frame_index - Len(frameBuffer) + k)
    BY <1>6, <2>2 DEF Buffer
  <2>4. /\ Len(frameBuffer') = Len(frameBuffer) + 1
        /\ \A k \in DOMAIN frameBuffer' : frameBuffer'[k] = Raw(frame_index' - Len(frameBuffer') + k)
    <3>1. /\ frameBuffer \in Seq(Picture) /\ frame_index \in Nat
          /\ frameBuffer' \in Seq(Picture) /\ frame_index' \in Nat
      OBVIOUS
    <3> QED BY ONLY <2>2, <2>3, <3>1, WindowGrows
  <2>5. pc' = IF Len(frameBuffer') >= Window THEN "infer" ELSE IF sink = "open" THEN "write" ELSE "key"
    BY <1>6 DEF Buffer
  <2>6. /\ Len(frameBuffer') = Least(frame_index',
             IF pc' \in {"infer", "row", "draw", "write"} THEN Window ELSE Window - 1)
        /\ pc' \in {"infer", "row", "draw"} => frame_index' >= Window
    <3>1. /\ frame_index \in Nat /\ frame_index' = frame_index + 1 /\ Window \in Nat \ {0}
          /\ Len(frameBuffer) \in Nat /\ Len(frameBuffer') \in Nat
      BY <2>2
    <3>2. CASE Len(frameBuffer') >= Window
      <4>1. pc' = "infer"
        BY <2>5, <3>2
      <4> QED BY ONLY <2>3, <2>4, <3>1, <3>2, <4>1 DEF Least
    <3>3. CASE ~(Len(frameBuffer') >= Window)
      <4>1. pc' \in {"write", "key"}
        BY <2>5, <3>3
      <4>2. frame_index' < Window
        BY ONLY <2>3, <2>4, <3>1, <3>3 DEF Least
      <4>3. Len(frameBuffer') = Least(frame_index', Window - 1)
        BY ONLY <2>3, <2>4, <3>1, <3>3 DEF Least
      <4> QED BY ONLY <3>1, <4>1, <4>2, <4>3 DEF Least
    <3> QED BY <3>2, <3>3
  <2> QED BY <2>4, <2>6
<1>7. CASE InferFrame
  BY <1>7 DEF InferFrame, InferenceThrows
<1>8. CASE InferWindow
  BY <1>8 DEF InferWindow, InferenceThrows
<1>9. CASE AddTiming
  BY <1>9 DEF AddTiming, attributeTo
<1>10. CASE DrawFrame
  BY <1>10 DEF DrawFrame
<1>11. CASE DrawWindow
  BY <1>11 DEF DrawWindow
<1>12. CASE Write
  <2>1. CASE pc' = "unwinding"
    BY <2>1
  <2>2. CASE pc = "write" /\ pc' = "key" /\ cfg.mode = "classification"
    <3>1. /\ Len(frameBuffer) = Least(frame_index, Window)
          /\ frame_index' = frame_index /\ UNCHANGED cfg
          /\ \A k \in DOMAIN frameBuffer : frameBuffer[k] = Raw(frame_index - Len(frameBuffer) + k)
          /\ frameBuffer' = IF Len(frameBuffer) >= Window THEN Tail(frameBuffer) ELSE frameBuffer
      BY <1>12, <2>2 DEF Write
    <3>2. CASE Len(frameBuffer) >= Window
      <4>1. /\ Len(frameBuffer') = Len(frameBuffer) - 1
            /\ \A k \in DOMAIN frameBuffer' : frameBuffer'[k] = Raw(frame_index' - Len(frameBuffer') + k)
        <5>1. frameBuffer \in Seq(Picture) /\ frame_index \in Nat /\ Len(frameBuffer) > 0
          BY <3>2, LenProperties
        <5>2. /\ Len(Tail(frameBuffer)) = Len(frameBuffer) - 1
              /\ \A k \in DOMAIN Tail(frameBuffer) :
                   Tail(frameBuffer)[k] = Raw(frame_index - Len(Tail(frameBuffer)) + k)
          BY ONLY <3>1, <5>1, WindowSlides
        <5>3. frameBuffer' = Tail(frameBuffer) /\ frame_index' = frame_index
          BY <3>1, <3>2
        <5> QED BY ONLY <5>2, <5>3
      <4>2. Len(frameBuffer') = Least(frame_index', Window - 1)
        BY <3>1, <3>2, <4>1
      <4> QED BY <2>2, <4>1, <4>2
    <3>3. CASE Len(frameBuffer) < Window
      <4>1. UNCHANGED frameBuffer
        BY <3>1, <3>3
      <4>2. Len(frameBuffer') = Least(frame_index', Window - 1)
        BY <3>1, <3>3, <4>1
      <4> QED BY <2>2, <3>1, <4>1, <4>2
    <3>4. Len(frameBuffer) \in Nat
      BY LenProperties
    <3> QED BY <3>2, <3>3, <3>4
  <2> QED BY <1>12, <2>1, <2>2 DEF Write, Config
<1>13. CASE WaitKey
  BY <1>13 DEF WaitKey
<1>14. CASE CloseTimings
  BY <1>14 DEF CloseTimings, attributeTo, AfterTimings
<1>15. CASE Finish
  BY <1>15 DEF Finish
<1>16. CASE FinishReturns
  BY <1>16 DEF FinishReturns, WriterRelease
<1>17. CASE CountSample
  BY <1>17 DEF CountSample
<1>18. CASE Unwind
  BY <1>18 DEF Unwind, WriterRelease
<1>19. CASE Catch
  BY <1>19 DEF Catch
<1>20. CASE Encode
  BY <1>20 DEF Encode, WriterEncode
<1>21. CASE EncodeFails
  BY <1>21 DEF EncodeFails, WriterEncodeFails
<1>22. CASE UNCHANGED vars
  BY <1>22 DEF vars
<1> QED
  BY <1>1, <1>2, <1>3, <1>4, <1>5, <1>6, <1>7, <1>8, <1>9, <1>10, <1>11, <1>12,
     <1>13, <1>14, <1>15, <1>16, <1>17, <1>18, <1>19, <1>20, <1>21, <1>22
  DEF Next, LoopThread, EncoderThread, Terminated

\* The Mat in hand shows the frame just read.
LEMMA PictureInHandStep ==
  ASSUME TypeInv, TypeInv', Position, Position', WindowContents, WindowContents', PictureInHand, [Next]_vars
  PROVE  PictureInHand'
<1> USE FrameLoopAssumption DEF TypeInv, TypeOK, WriterTypeOK, Step, Throws, Normal, InHand,
             runVars, pixelVars, sinkVars, csvVars, writerVars, loopVars,
             Position, PictureInHand, Pixels, Result, Raw, Expected
<1>1. CASE OpenSource
  BY <1>1 DEF OpenSource
<1>2. CASE OpenTimings
  BY <1>2 DEF OpenTimings, attributeTo
<1>3. CASE ReadFrame
  BY <1>3 DEF ReadFrame, EndOfSource
<1>4. CASE Convert
  BY <1>4 DEF Convert, toBgrMat
<1>5. CASE OpenSink
  BY <1>5 DEF OpenSink, attributeTo, WriterInitialize
<1>6. CASE Buffer
  <2>1. /\ cfg.mode = "classification" /\ pc = "buffer"
        /\ UNCHANGED <<cfg, read, storage, image>>
        /\ pc' = IF Len(frameBuffer') >= Window THEN "infer" ELSE IF sink = "open" THEN "write" ELSE "key"
    BY <1>6 DEF Buffer, Config
  <2>2. frame_index' = read
    BY <1>6, <2>1 DEF Buffer
  <2>3. pc' = "write" => read < Window
    <3> SUFFICES ASSUME pc' = "write" PROVE read < Window
      OBVIOUS
    <3>1. Len(frameBuffer') = Least(frame_index', Window)
      BY <2>1 DEF WindowContents
    <3>2. ~(Len(frameBuffer') >= Window)
      BY <2>1
    <3>3. read \in Nat /\ Window \in Nat
      OBVIOUS
    <3> QED BY ONLY <2>2, <3>1, <3>2, <3>3 DEF Least
  <2> QED BY <2>1, <2>2, <2>3
<1>7. CASE InferFrame
  <2>1. Pixels(image).frame = read
    BY <1>7 DEF InferFrame, Pixels, InferenceThrows
  <2>2. asked' = <<Pixels(image)>>
    BY <1>7 DEF InferFrame
  <2>3. asked'[Len(asked')].frame = read
    BY <2>1, <2>2
  <2>4. pc' \in {"row", "unwinding"} /\ UNCHANGED <<cfg, read, storage, image>> /\ pc = "infer"
    BY <1>7 DEF InferFrame, InferenceThrows
  <2> QED BY <2>3, <2>4
<1>8. CASE InferWindow
  <2>1. asked' = [k \in DOMAIN frameBuffer |-> Pixels(frameBuffer[k])]
    BY <1>8 DEF InferWindow
  <2>2. pc' \in {"row", "unwinding"} /\ UNCHANGED <<cfg, read, storage, image>> /\ pc = "infer"
        /\ cfg.mode = "classification"
    BY <1>8 DEF InferWindow, InferenceThrows
  <2>3. /\ Len(frameBuffer) \in 1 .. Len(frameBuffer)
        /\ frameBuffer[Len(frameBuffer)] = Raw(read)
    BY <2>2, LastOfWindow
  <2>4. Len(asked') = Len(frameBuffer)
    BY <2>1, LenProperties
  <2>5. asked'[Len(asked')].frame = read
    BY <2>1, <2>3, <2>4, LenProperties
  <2> QED BY <2>2, <2>5
<1>9. CASE AddTiming
  BY <1>9 DEF AddTiming, attributeTo
<1>10. CASE DrawFrame
  <2>1. Result = read /\ image \in {View, Raw(read)} /\ storage = Raw(read)
    BY <1>10 DEF DrawFrame
  <2>2. Drawn(Raw(read), read) = [frame |-> read, overlay |-> read]
    BY DEF Drawn
  <2>3. [frame |-> read, overlay |-> read] \in Picture
    BY <1>10 DEF Picture, DrawFrame
  <2>4. /\ pc' \in {"write", "unwinding"} /\ UNCHANGED <<cfg, read>> /\ cfg.mode = "video"
        /\ storage' = IF image = View THEN Drawn(storage, Result) ELSE storage
        /\ image' = IF image = View THEN View ELSE Drawn(image, Result)
    BY <1>10 DEF DrawFrame
  <2>5. (IF image' = View THEN storage' ELSE image') = [frame |-> read, overlay |-> read]
    BY <2>1, <2>2, <2>3, <2>4
  <2> QED BY <2>4, <2>5
<1>11. CASE DrawWindow
  <2>1. Result = read /\ pc = "draw" /\ cfg.mode = "classification"
    BY <1>11 DEF DrawWindow
  <2>2. /\ Len(frameBuffer) \in 1 .. Len(frameBuffer)
        /\ frameBuffer[Len(frameBuffer)] = Raw(read)
        /\ read >= Window
    BY <2>1, LastOfWindow
  <2>3. Raw(read) \in Picture /\ Clone(Raw(read)) = Raw(read)
    BY <2>1, PictureTypes DEF Clone
  <2>4. image' = [frame |-> read, overlay |-> read]
    BY <1>11, <2>1, <2>2, <2>3 DEF DrawWindow, Drawn
  <2>5. [frame |-> read, overlay |-> read] \in Picture
    BY <2>1 DEF Picture
  <2>6. pc' \in {"write", "unwinding"} /\ UNCHANGED <<cfg, read>>
    BY <1>11 DEF DrawWindow
  <2> QED BY <2>1, <2>2, <2>4, <2>5, <2>6
<1>12. CASE Write
  BY <1>12 DEF Write, WriterAccept, WriterRefuse
<1>13. CASE WaitKey
  BY <1>13 DEF WaitKey
<1>14. CASE CloseTimings
  BY <1>14 DEF CloseTimings, attributeTo, AfterTimings
<1>15. CASE Finish
  BY <1>15 DEF Finish
<1>16. CASE FinishReturns
  BY <1>16 DEF FinishReturns, WriterRelease
<1>17. CASE CountSample
  BY <1>17 DEF CountSample
<1>18. CASE Unwind
  BY <1>18 DEF Unwind, WriterRelease
<1>19. CASE Catch
  BY <1>19 DEF Catch
<1>20. CASE Encode
  BY <1>20 DEF Encode, WriterEncode
<1>21. CASE EncodeFails
  BY <1>21 DEF EncodeFails, WriterEncodeFails
<1>22. CASE UNCHANGED vars
  BY <1>22 DEF vars
<1> QED
  BY <1>1, <1>2, <1>3, <1>4, <1>5, <1>6, <1>7, <1>8, <1>9, <1>10, <1>11, <1>12,
     <1>13, <1>14, <1>15, <1>16, <1>17, <1>18, <1>19, <1>20, <1>21, <1>22
  DEF Next, LoopThread, EncoderThread, Terminated

LEMMA FaultsAreFaults == "none" \notin Fault /\ InferenceFault \cup {"imencode"} \subseteq Fault
  BY DEF Fault, InferenceFault

\* Every frame read reaches the writer.
LEMMA HandedOverStep ==
  ASSUME TypeInv, TypeInv', Position, SinkLife, SinkLife', Position', HandedOver, Recorded, [Next]_vars
  PROVE  HandedOver'
<1> USE FrameLoopAssumption DEF TypeInv, TypeOK, WriterTypeOK, Step, Throws, Normal, InHand,
             runVars, pixelVars, sinkVars, csvVars, writerVars, loopVars,
             SinkLife, Position, HandedOver, Recorded, Succeeded, Failed
<1>1. CASE OpenSource
  BY <1>1 DEF OpenSource
<1>2. CASE OpenTimings
  BY <1>2 DEF OpenTimings, attributeTo
<1>3. CASE ReadFrame
  <2>1. CASE /\ Step("read", "convert")
              /\ read' = read + 1
              /\ UNCHANGED <<cfg, sink, submitted>>
    BY <2>1
  <2>2. CASE EndOfSource /\ UNCHANGED <<cfg, sink, submitted>>
    BY <2>2 DEF EndOfSource
  <2>3. CASE Throws("read", "read") /\ UNCHANGED <<cfg, sink, submitted>>
    BY <2>3
  <2> QED BY <1>3, <2>1, <2>2, <2>3 DEF ReadFrame
<1>4. CASE Convert
  BY <1>4 DEF Convert, toBgrMat
<1>5. CASE OpenSink
  BY <1>5 DEF OpenSink, attributeTo, WriterInitialize
<1>6. CASE Buffer
  BY <1>6 DEF Buffer
<1>7. CASE InferFrame
  BY <1>7 DEF InferFrame, InferenceThrows
<1>8. CASE InferWindow
  BY <1>8 DEF InferWindow, InferenceThrows
<1>9. CASE AddTiming
  BY <1>9 DEF AddTiming, attributeTo
<1>10. CASE DrawFrame
  BY <1>10 DEF DrawFrame
<1>11. CASE DrawWindow
  BY <1>11 DEF DrawWindow
<1>12. CASE Write
  <2>1. UNCHANGED <<cfg, read, sink>>
    BY <1>12 DEF Write
  <2>2. CASE pc' = "unwinding"
    BY <2>2
  <2>3. CASE Step("write", "key") /\ sink # "open" /\ UNCHANGED submitted
    BY <2>1, <2>3
  <2>4. CASE Step("write", "key") /\ sink = "open" /\ submitted' = Append(submitted, toFrame(image))
    <3>1. toFrame(image) \in Picture
      BY PixelsType
    <3>2. Len(submitted') = Len(submitted) + 1
      BY <2>4, <3>1, AppendProperties
    <3> QED BY <2>1, <2>4, <3>2
  <2> QED BY <1>12, <2>2, <2>3, <2>4 DEF Write
<1>13. CASE WaitKey
  BY <1>13 DEF WaitKey
<1>14. CASE CloseTimings
  BY <1>14 DEF CloseTimings, attributeTo, AfterTimings
<1>15. CASE Finish
  BY <1>15 DEF Finish
<1>16. CASE FinishReturns
  BY <1>16 DEF FinishReturns, WriterRelease
<1>17. CASE CountSample
  BY <1>17 DEF CountSample
<1>18. CASE Unwind
  BY <1>18 DEF Unwind, WriterRelease
<1>19. CASE Catch
  <2>1. report'.failure # NoFailure
    <3>1. report.stage \in RunStage /\ NoFailure \notin RunStage
      BY DEF Report, RunStage, TimedStage, NoFailure
    <3> QED BY <1>19, <3>1 DEF Catch, Fail, Report
  <2> QED BY <1>19, <2>1 DEF Catch
<1>20. CASE Encode
  BY <1>20 DEF Encode, WriterEncode
<1>21. CASE EncodeFails
  BY <1>21 DEF EncodeFails, WriterEncodeFails
<1>22. CASE UNCHANGED vars
  BY <1>22 DEF vars
<1> QED
  BY <1>1, <1>2, <1>3, <1>4, <1>5, <1>6, <1>7, <1>8, <1>9, <1>10, <1>11, <1>12,
     <1>13, <1>14, <1>15, <1>16, <1>17, <1>18, <1>19, <1>20, <1>21, <1>22
  DEF Next, LoopThread, EncoderThread, Terminated

\* The report follows the control state.
LEMMA RecordedStep ==
  ASSUME TypeInv, TypeInv', Position, Position', SinkLife, SinkLife', HandedOver, Recorded, [Next]_vars
  PROVE  Recorded'
<1> USE FrameLoopAssumption DEF TypeInv, TypeOK, WriterTypeOK, Step, Throws, Normal, InHand,
             runVars, pixelVars, sinkVars, csvVars, writerVars, loopVars,
             Position, Recorded, SinkLife, HandedOver, Succeeded, Failed,
             Catch, CountSample, AfterTimings
<1>0. \/ Catch
      \/ /\ report'.failure = report.failure
         /\ CountSample \/ report'.samples = report.samples
  BY OutcomeKept
<1>1. CASE OpenSource
  BY <1>0, <1>1, FaultsAreFaults DEF OpenSource
<1>2. CASE OpenTimings
  BY <1>0, <1>2, FaultsAreFaults DEF OpenTimings, attributeTo
<1>3. CASE ReadFrame
  BY <1>0, <1>3, FaultsAreFaults DEF ReadFrame, EndOfSource
<1>4. CASE Convert
  BY <1>0, <1>4, FaultsAreFaults DEF Convert, toBgrMat
<1>5. CASE OpenSink
  BY <1>0, <1>5, FaultsAreFaults DEF OpenSink, attributeTo, WriterInitialize
<1>6. CASE Buffer
  BY <1>0, <1>6, FaultsAreFaults DEF Buffer
<1>7. CASE InferFrame
  BY <1>0, <1>7, FaultsAreFaults DEF InferFrame, InferenceThrows
<1>8. CASE InferWindow
  BY <1>0, <1>8, FaultsAreFaults DEF InferWindow, InferenceThrows
<1>9. CASE AddTiming
  BY <1>0, <1>9, FaultsAreFaults DEF AddTiming, attributeTo
<1>10. CASE DrawFrame
  BY <1>0, <1>10, FaultsAreFaults DEF DrawFrame
<1>11. CASE DrawWindow
  BY <1>0, <1>11, FaultsAreFaults DEF DrawWindow
<1>12. CASE Write
  BY <1>0, <1>12, FaultsAreFaults DEF Write, WriterAccept, WriterRefuse
<1>13. CASE WaitKey
  BY <1>0, <1>13, FaultsAreFaults DEF WaitKey
<1>14. CASE CloseTimings
  BY <1>0, <1>14, FaultsAreFaults DEF CloseTimings, attributeTo, AfterTimings
<1>15. CASE Finish
  BY <1>0, <1>15, FaultsAreFaults DEF Finish
<1>16. CASE FinishReturns
  BY <1>0, <1>16, FaultsAreFaults DEF FinishReturns, WriterRelease
<1>17. CASE CountSample
  BY <1>0, <1>17, FaultsAreFaults DEF CountSample
<1>18. CASE Unwind
  BY <1>0, <1>18, FaultsAreFaults DEF Unwind, WriterRelease
<1>19. CASE Catch
  <2>1. report'.failure # NoFailure
    <3>1. report.stage \in RunStage /\ NoFailure \notin RunStage
      BY DEF Report, RunStage, TimedStage, NoFailure
    <3> QED BY <1>19, <3>1 DEF Fail, Report
  <2>2. report'.samples = report.samples
    BY <1>0, <1>19, FaultsAreFaults DEF Fail, Report
  <2> QED BY <1>19, <2>1, <2>2
<1>20. CASE Encode
  BY <1>0, <1>20, FaultsAreFaults DEF Encode, WriterEncode
<1>21. CASE EncodeFails
  BY <1>0, <1>21, FaultsAreFaults DEF EncodeFails, WriterEncodeFails
<1>22. CASE UNCHANGED vars
  BY <1>0, <1>22, FaultsAreFaults DEF vars
<1> QED
  BY <1>1, <1>2, <1>3, <1>4, <1>5, <1>6, <1>7, <1>8, <1>9, <1>10, <1>11, <1>12,
     <1>13, <1>14, <1>15, <1>16, <1>17, <1>18, <1>19, <1>20, <1>21, <1>22
  DEF Next, LoopThread, EncoderThread, Terminated

\* Accepting a picture extends what is in the file and in the queue together.
LEMMA AcceptExtends ==
  ASSUME NEW f \in Seq(Picture), NEW q \in Seq(Picture), NEW p \in Picture
  PROVE  f \o Append(q, p) = Append(f \o q, p)
<1>1. Append(q, p) = q \o <<p>> /\ <<p>> \in Seq(Picture)
  BY AppendIsConcat
<1>2. f \o q \in Seq(Picture)
  BY ConcatProperties
<1>3. Append(f \o q, p) = (f \o q) \o <<p>>
  BY <1>2, AppendIsConcat
<1> QED BY <1>1, <1>3, ConcatAssociative

\* Encoding the head of the queue moves it to the end of the file.
LEMMA EncodeMoves ==
  ASSUME NEW f \in Seq(Picture), NEW q \in Seq(Picture), q # <<>>
  PROVE  Append(f, Head(q)) \o Tail(q) = f \o q
<1>1. Head(q) \in Picture /\ Tail(q) \in Seq(Picture) /\ <<Head(q)>> \in Seq(Picture)
  BY HeadTailProperties
<1>2. q = <<Head(q)>> \o Tail(q)
  <2>1. Len(q) \in Nat /\ 1 \in 1 .. Len(q)
    BY LenProperties, EmptySeq
  <2>2. SubSeq(q, 1, Len(q)) = q
    BY SubSeqFull
  <2>3. SubSeq(q, 1, Len(q)) = <<q[1]>> \o SubSeq(q, 1 + 1, Len(q))
    BY <2>1, SubSeqRecursiveFirst
  <2>4. Tail(q) = SubSeq(q, 2, Len(q)) /\ Head(q) = q[1]
    BY TailIsSubSeq
  <2> QED BY <2>2, <2>3, <2>4
<1>3. Append(f, Head(q)) = f \o <<Head(q)>>
  BY <1>1, AppendIsConcat
<1>4. (f \o <<Head(q)>>) \o Tail(q) = f \o (<<Head(q)>> \o Tail(q))
  BY <1>1, ConcatAssociative
<1> QED BY <1>2, <1>3, <1>4

\* The encoder finds the pixels the loop handed over.
LEMMA HeadIsItself ==
  ASSUME TypeInv, queue # <<>>
  PROVE  Pixels(Head(queue)) = Head(queue) /\ Head(queue) \in Picture
  BY HeadTailProperties, FrameLoopAssumption DEF TypeInv, TypeOK, WriterTypeOK, Pixels

\* An appended picture is the new last one; the others stay where they are.
LEMMA AppendCases ==
  ASSUME NEW s \in Seq(Picture), NEW p \in Picture, NEW t \in Seq(Picture), t = Append(s, p)
  PROVE  /\ Len(t) = Len(s) + 1 /\ Len(s) \in Nat
         /\ \A k \in DOMAIN t : \/ k \in DOMAIN s /\ t[k] = s[k]
                                \/ k = Len(s) + 1 /\ t[k] = p
         /\ \A k \in DOMAIN s : k \in Nat /\ k <= Len(s)
  BY AppendProperties, LenProperties

\* Without its head, a queue holds the same pictures one place earlier.
LEMMA TailCases ==
  ASSUME NEW s \in Seq(Picture), s # <<>>, NEW t \in Seq(Picture), t = Tail(s)
  PROVE  /\ 1 \in DOMAIN s /\ Head(s) = s[1]
         /\ \A k \in DOMAIN t : /\ k \in Nat /\ k + 1 \in DOMAIN s /\ 1 < k + 1
                                /\ t[k] = s[k + 1]
<1>1. /\ \A k \in 1 .. Len(t) : t[k] = s[k + 1]
      /\ Len(t) = Len(s) - 1 /\ Len(s) \in Nat /\ Len(s) # 0
      /\ DOMAIN s = 1 .. Len(s) /\ DOMAIN t = 1 .. Len(t)
  BY HeadTailProperties, LenProperties, EmptySeq
<1> QED BY <1>1

\* Every picture in a sequence of pictures names a frame.
LEMMA FramesAreNumbers ==
  ASSUME NEW s \in Seq(Picture)
  PROVE  \A k \in DOMAIN s : s[k] \in Picture /\ s[k].frame \in Nat
<1>1. \A k \in DOMAIN s : s[k] \in Picture
  BY ElementOfSeq, LenProperties
<1> QED BY <1>1 DEF Picture

LEMMA StreamStep ==
  ASSUME TypeInv, TypeInv', Position, PictureInHand, HandedOver, Stream, [Next]_vars
  PROVE  Stream'
<1> USE DEF TypeInv, TypeOK, WriterTypeOK
<1>0. UNCHANGED cfg
  BY DEF Next, LoopThread, EncoderThread, Terminated, OpenSource, OpenTimings,
         ReadFrame, Convert, OpenSink, Buffer, InferFrame, InferWindow, AddTiming,
         DrawFrame, DrawWindow, Write, WaitKey, CloseTimings, Finish, FinishReturns,
         CountSample, Unwind, Catch, Encode, EncodeFails, vars, loopVars, runVars
<1>a. /\ submitted \in Seq(Picture) /\ queue \in Seq(Picture) /\ file \in Seq(Picture)
      /\ submitted' \in Seq(Picture) /\ queue' \in Seq(Picture) /\ file' \in Seq(Picture)
  OBVIOUS
<1>1. CASE UNCHANGED <<submitted, queue, file, broken>>
  BY <1>0, <1>1 DEF Stream, NothingLost, EachFrameOnce, Expected
<1>2. CASE WriterAccept(toFrame(image)) /\ submitted' = Append(submitted, toFrame(image)) /\ Write
  <2> DEFINE p == toFrame(image)
  <2>1. p = Expected(Len(submitted) + 1) /\ p \in Picture
    <3>1. pc = "write" /\ sink = "open"
      BY <1>2 DEF Write, WriterAccept, WriterRefuse, Step, Throws
    <3>2. Len(submitted) = read - 1 /\ Pixels(image) = Expected(read)
      BY <3>1 DEF HandedOver, PictureInHand, Normal, InHand
    <3>3. read = Len(submitted) + 1
      BY <3>2, LenProperties
    <3> QED BY <3>2, <3>3, PixelsType DEF toFrame
  <2>2. p.frame = Len(submitted) + 1 /\ p = Expected(p.frame)
    BY <2>1 DEF Expected
  <2>3. /\ queue' = Append(queue, p) /\ submitted' = Append(submitted, p)
        /\ UNCHANGED <<file, broken>> /\ ~broken
    BY <1>2 DEF WriterAccept
  <2> HIDE DEF p
  <2>4. /\ Len(submitted') = Len(submitted) + 1 /\ Len(submitted) \in Nat
        /\ \A k \in DOMAIN submitted' : \/ k \in DOMAIN submitted /\ submitted'[k] = submitted[k]
                                        \/ k = Len(submitted) + 1 /\ submitted'[k] = p
    BY ONLY <1>a, <2>1, <2>3, AppendCases
  <2>5. /\ Len(queue) \in Nat
        /\ \A k \in DOMAIN queue' : \/ k \in DOMAIN queue /\ queue'[k] = queue[k]
                                    \/ k = Len(queue) + 1 /\ queue'[k] = p
        /\ \A k \in DOMAIN queue : k \in Nat /\ k <= Len(queue)
    BY ONLY <1>a, <2>1, <2>3, AppendCases
  <2>6. file \o queue' = submitted'
    <3>1. file \o Append(queue, p) = Append(file \o queue, p)
      BY ONLY <1>a, <2>1, AcceptExtends
    <3>2. file \o queue = submitted
      BY <2>3 DEF Stream, NothingLost
    <3> QED BY ONLY <2>3, <3>1, <3>2
  <2>7. \A k \in DOMAIN submitted' : submitted'[k] = Expected(k)
    <3>1. \A k \in DOMAIN submitted : submitted[k] = Expected(k)
      BY DEF Stream, EachFrameOnce
    <3> QED BY ONLY <2>1, <2>4, <3>1
  <2>8. \A k \in DOMAIN queue : /\ queue[k].frame \in Nat /\ queue[k].frame <= Len(submitted)
                                /\ queue[k] = Expected(queue[k].frame)
    BY FramesAreNumbers DEF Stream
  <2>9. \A k \in DOMAIN file : file[k].frame \in Nat /\ file[k].frame <= Len(submitted)
    BY FramesAreNumbers DEF Stream
  <2>10. \A k \in DOMAIN queue' : queue'[k] = Expected(queue'[k].frame)
    BY ONLY <2>2, <2>5, <2>8
  <2>11. \A j, k \in DOMAIN queue' : j < k => queue'[j].frame < queue'[k].frame
    <3> SUFFICES ASSUME NEW j \in DOMAIN queue', NEW k \in DOMAIN queue', j < k
                 PROVE  queue'[j].frame < queue'[k].frame
      OBVIOUS
    <3>1. j \in DOMAIN queue /\ queue'[j] = queue[j]
      BY ONLY <2>5, j \in DOMAIN queue', k \in DOMAIN queue', j < k
    <3>2. CASE k \in DOMAIN queue /\ queue'[k] = queue[k]
      BY <3>1, <3>2 DEF Stream
    <3>3. CASE k = Len(queue) + 1 /\ queue'[k] = p
      BY ONLY <2>2, <2>4, <2>8, <3>1, <3>3
    <3> QED BY <2>5, <3>2, <3>3
  <2>12. \A j \in DOMAIN file, k \in DOMAIN queue' : file[j].frame < queue'[k].frame
    <3> SUFFICES ASSUME NEW j \in DOMAIN file, NEW k \in DOMAIN queue'
                 PROVE  file[j].frame < queue'[k].frame
      OBVIOUS
    <3>1. CASE k \in DOMAIN queue /\ queue'[k] = queue[k]
      BY <3>1 DEF Stream
    <3>2. CASE k = Len(queue) + 1 /\ queue'[k] = p
      BY ONLY <2>2, <2>4, <2>9, <3>2, j \in DOMAIN file
    <3> QED BY <2>5, <3>1, <3>2
  <2>13. \A k \in DOMAIN queue' : queue'[k].frame <= Len(submitted')
    BY ONLY <2>2, <2>4, <2>5, <2>8
  <2>14. \A k \in DOMAIN file : file[k].frame <= Len(submitted')
    BY ONLY <2>4, <2>9
  <2>15. /\ \A k \in DOMAIN file : file[k] = Expected(file[k].frame)
         /\ \A j, k \in DOMAIN file : j < k => file[j].frame < file[k].frame
    BY DEF Stream, EachFrameOnce
  <2> QED BY <1>0, <2>3, <2>6, <2>7, <2>10, <2>11, <2>12, <2>13, <2>14, <2>15
          DEF Stream, NothingLost, EachFrameOnce, Expected
<1>3. CASE Encode
  <2> DEFINE p == Head(queue)
  <2>1. /\ queue # <<>> /\ queue' = Tail(queue) /\ file' = Append(file, p)
        /\ UNCHANGED <<broken, submitted>>
    BY <1>3, HeadIsItself DEF Encode, WriterEncode, loopVars
  <2>2. p \in Picture /\ p = queue[1] /\ 1 \in DOMAIN queue
    BY <2>1, HeadTailProperties, LenProperties, EmptySeq
  <2>3. file' \o queue' = file \o queue
    BY <2>1, EncodeMoves
  <2> HIDE DEF p
  <2>4. /\ Len(file) \in Nat
        /\ \A k \in DOMAIN file' : \/ k \in DOMAIN file /\ file'[k] = file[k]
                                   \/ k = Len(file) + 1 /\ file'[k] = p
        /\ \A k \in DOMAIN file : k \in Nat /\ k <= Len(file)
    BY ONLY <1>a, <2>1, <2>2, AppendCases
  <2>5. /\ 1 \in DOMAIN queue /\ p = queue[1]
        /\ \A k \in DOMAIN queue' : /\ k \in Nat /\ k + 1 \in DOMAIN queue /\ 1 < k + 1
                                    /\ queue'[k] = queue[k + 1]
    BY ONLY <1>a, <2>1, TailCases DEF p
  <2>6. /\ \A k \in DOMAIN queue : /\ queue[k] = Expected(queue[k].frame)
                                   /\ queue[k].frame <= Len(submitted)
        /\ \A j, k \in DOMAIN queue : j < k => queue[j].frame < queue[k].frame
        /\ \A j \in DOMAIN file, k \in DOMAIN queue : file[j].frame < queue[k].frame
        /\ \A k \in DOMAIN file : file[k].frame <= Len(submitted) /\ file[k] = Expected(file[k].frame)
        /\ \A j, k \in DOMAIN file : j < k => file[j].frame < file[k].frame
    BY DEF Stream, EachFrameOnce
  <2>7. \A k \in DOMAIN file' : file'[k] = Expected(file'[k].frame)
    BY ONLY <2>4, <2>5, <2>6
  <2>8. \A j, k \in DOMAIN file' : j < k => file'[j].frame < file'[k].frame
    <3> SUFFICES ASSUME NEW j \in DOMAIN file', NEW k \in DOMAIN file', j < k
                 PROVE  file'[j].frame < file'[k].frame
      OBVIOUS
    <3>1. j \in DOMAIN file /\ file'[j] = file[j]
      BY ONLY <2>4, j \in DOMAIN file', k \in DOMAIN file', j < k
    <3> QED BY ONLY <2>4, <2>5, <2>6, <3>1, k \in DOMAIN file', j < k
  <2>9. \A k \in DOMAIN queue' : queue'[k] = Expected(queue'[k].frame)
    BY ONLY <2>5, <2>6
  <2>10. \A j, k \in DOMAIN queue' : j < k => queue'[j].frame < queue'[k].frame
    <3> SUFFICES ASSUME NEW j \in DOMAIN queue', NEW k \in DOMAIN queue', j < k
                 PROVE  queue'[j].frame < queue'[k].frame
      OBVIOUS
    <3>1. j + 1 < k + 1 /\ j + 1 \in DOMAIN queue /\ k + 1 \in DOMAIN queue
      BY ONLY <2>5, j \in DOMAIN queue', k \in DOMAIN queue', j < k
    <3>2. queue[j + 1].frame < queue[k + 1].frame
      BY ONLY <2>6, <3>1
    <3> QED BY ONLY <2>5, <3>2, j \in DOMAIN queue', k \in DOMAIN queue'
  <2>11. \A j \in DOMAIN file', k \in DOMAIN queue' : file'[j].frame < queue'[k].frame
    <3> SUFFICES ASSUME NEW j \in DOMAIN file', NEW k \in DOMAIN queue'
                 PROVE  file'[j].frame < queue'[k].frame
      OBVIOUS
    <3>1. 1 < k + 1 /\ k + 1 \in DOMAIN queue /\ queue'[k] = queue[k + 1]
      BY ONLY <2>5, k \in DOMAIN queue'
    <3>2. queue[1].frame < queue[k + 1].frame
      BY ONLY <2>5, <2>6, <3>1
    <3> QED BY ONLY <2>4, <2>5, <2>6, <3>1, <3>2, j \in DOMAIN file'
  <2>12. \A k \in DOMAIN file' : file'[k].frame <= Len(submitted)
    BY ONLY <2>4, <2>5, <2>6
  <2>13. \A k \in DOMAIN queue' : queue'[k].frame <= Len(submitted)
    BY ONLY <2>5, <2>6
  <2>14. (\A k \in DOMAIN submitted : submitted[k] = Expected(k)) /\ (~broken => file \o queue = submitted)
    BY DEF Stream, NothingLost, EachFrameOnce
  <2> QED BY <1>0, <2>1, <2>3, <2>7, <2>8, <2>9, <2>10, <2>11, <2>12, <2>13, <2>14
          DEF Stream, NothingLost, EachFrameOnce, Expected
<1>4. CASE EncodeFails
  <2>1. queue # <<>> /\ broken' = TRUE /\ UNCHANGED <<file, submitted>>
    BY <1>4 DEF EncodeFails, WriterEncodeFails, loopVars
  <2>2. CASE queue' = <<>>
    <3>1. DOMAIN queue' = {}
      BY <2>2, EmptySeq, LenProperties
    <3> QED BY <1>0, <2>1, <3>1 DEF Stream, NothingLost, EachFrameOnce, Expected
  <2>3. CASE queue' = Tail(queue)
    <3>2. \A k \in DOMAIN queue' : k \in Nat /\ k + 1 \in DOMAIN queue /\ queue'[k] = queue[k + 1]
      BY ONLY <1>a, <2>1, <2>3, TailCases
    <3>3. \A k \in DOMAIN queue' : queue'[k] = Expected(queue'[k].frame)
      BY <3>2 DEF Stream
    <3>4. \A j, k \in DOMAIN queue' : j < k => queue'[j].frame < queue'[k].frame
      <4> SUFFICES ASSUME NEW j \in DOMAIN queue', NEW k \in DOMAIN queue', j < k
                   PROVE  queue'[j].frame < queue'[k].frame
        OBVIOUS
      <4>1. j + 1 < k + 1 /\ j + 1 \in DOMAIN queue /\ k + 1 \in DOMAIN queue
        BY ONLY <3>2, j \in DOMAIN queue', k \in DOMAIN queue', j < k
      <4>2. queue[j + 1].frame < queue[k + 1].frame
        BY <4>1 DEF Stream
      <4> QED BY <3>2, <4>2
    <3>5. \A j \in DOMAIN file, k \in DOMAIN queue' : file[j].frame < queue'[k].frame
      BY <3>2 DEF Stream
    <3>6. \A k \in DOMAIN queue' : queue'[k].frame <= Len(submitted)
      BY <3>2 DEF Stream
    <3> QED BY <1>0, <2>1, <3>3, <3>4, <3>5, <3>6 DEF Stream, NothingLost, EachFrameOnce, Expected
  <2> QED BY <1>4, <2>2, <2>3 DEF EncodeFails, WriterEncodeFails
<1>5. \/ UNCHANGED <<submitted, queue, file, broken>>
      \/ WriterAccept(toFrame(image)) /\ submitted' = Append(submitted, toFrame(image)) /\ Write
      \/ Encode \/ EncodeFails
  BY DEF Next, LoopThread, EncoderThread, Terminated, OpenSource, OpenTimings,
         ReadFrame, Convert, OpenSink, Buffer, InferFrame, InferWindow, AddTiming,
         DrawFrame, DrawWindow, Write, WaitKey, CloseTimings, Finish, FinishReturns,
         CountSample, Unwind, Catch, WriterInitialize, WriterRefuse, WriterRelease,
         vars, sinkVars, loopVars, writerVars
<1> QED BY <1>1, <1>2, <1>3, <1>4, <1>5

\* A begun stage is the current one, and intervals and counts leave it alone.
LEMMA StageBegun ==
  ASSUME NEW r \in Report, NEW stage \in RunStage, NEW n \in Nat
  PROVE  /\ BeginStage(r, stage).stage = stage
         /\ AddStageMs(r, stage, n).stage = r.stage
         /\ AddFrames(r, n).stage = r.stage
         /\ Timed(r, stage, n).stage = stage
<1>1. BeginStage(r, stage).stage = stage
  BY DEF BeginStage, Report
<1>2. \A q \in Report : AddStageMs(q, stage, n).stage = q.stage
  BY DEF AddStageMs, Report
<1>3. AddFrames(r, n).stage = r.stage
  BY DEF AddFrames, Report
<1>4. BeginStage(r, stage) \in Report
  BY ReportTypes
<1> QED BY <1>1, <1>2, <1>3, <1>4 DEF Timed

\* The inference timers leave the stage they reached.
LEMMA StageReached ==
  ASSUME report \in Report, NEW stage \in InferenceFault,
         cfg.encoded => stage # "preprocess"
  PROVE  TimedThrough(report, stage).stage = stage
<1> DEFINE pre == IF cfg.encoded THEN report ELSE Timed(report, "preprocess", 1)
           inf == Timed(pre, "inference", 1)
           post == Timed(inf, "postprocess", 1)
<1>1. pre \in Report /\ (~cfg.encoded => pre.stage = "preprocess")
  <2>1. /\ Timed(report, "preprocess", 1) \in Report
        /\ Timed(report, "preprocess", 1).stage = "preprocess"
    BY TimedType, StageBegun, StagesAreStages
  <2>2. CASE cfg.encoded  BY <2>2
  <2>3. CASE ~cfg.encoded BY <2>1, <2>3
  <2> QED BY <2>2, <2>3
<1>2. inf \in Report /\ inf.stage = "inference"
  <2> HIDE DEF pre
  <2> QED BY <1>1, TimedType, StageBegun, StagesAreStages
<1>3. post.stage = "postprocess"
  <2> HIDE DEF inf
  <2> QED BY <1>2, StageBegun, StagesAreStages
<1>4. CASE stage = "preprocess"
  <2>1. TimedThrough(report, stage) = pre
    BY <1>4 DEF TimedThrough
  <2> HIDE DEF pre
  <2> QED BY <1>1, <1>4, <2>1
<1>5. CASE stage = "inference"
  <2>1. TimedThrough(report, stage) = inf
    BY <1>5 DEF TimedThrough
  <2> HIDE DEF inf
  <2> QED BY <1>2, <1>5, <2>1
<1>6. CASE stage = "postprocess"
  <2>1. TimedThrough(report, stage) = post
    BY <1>6 DEF TimedThrough
  <2> HIDE DEF post
  <2> QED BY <1>3, <1>6, <2>1
<1> QED BY <1>4, <1>5, <1>6 DEF InferenceFault

\* The stage on record is that of the step that threw.
LEMMA StageHeldStep ==
  ASSUME TypeInv, TypeInv', Recorded, Recorded', StageHeld, [Next]_vars
  PROVE  StageHeld'
<1> USE FrameLoopAssumption DEF TypeInv, TypeOK, Step, Throws,
             runVars, pixelVars, sinkVars, csvVars, writerVars, loopVars, StageHeld, StageOfFault
<1>1. CASE OpenSource
  <2>1. report' = Timed(report, "source", 1)
    BY <1>1 DEF OpenSource
  <2>2. report'.stage = "source"
    <3>1. report \in Report
      OBVIOUS
    <3> QED BY ONLY <2>1, <3>1, StageBegun, StagesAreStages
  <2>3. CASE Step("open", "timings")
    BY <1>1, <2>3
  <2>4. CASE Throws("open", "open")
    BY <2>2, <2>4
  <2> QED BY <1>1, <2>3, <2>4 DEF OpenSource
<1>2. CASE OpenTimings
  <2>1. report' = BeginStage(report, "render")
    BY <1>2 DEF OpenTimings, attributeTo
  <2>2. report'.stage = "render"
    <3>1. report \in Report
      OBVIOUS
    <3> QED BY ONLY <2>1, <3>1, StageBegun, StagesAreStages
  <2>3. CASE Step("timings", "read")
    BY <1>2, <2>3
  <2>4. CASE Throws("timings", "timings")
    BY <2>2, <2>4
  <2> QED BY <1>2, <2>3, <2>4 DEF OpenTimings
<1>3. CASE ReadFrame
  BY <1>3, StageBegun, StagesAreStages DEF ReadFrame, EndOfSource
<1>4. CASE Convert
  BY <1>4, StageBegun, StagesAreStages DEF Convert, toBgrMat
<1>5. CASE OpenSink
  BY <1>5, StageBegun, StagesAreStages DEF OpenSink, attributeTo, WriterInitialize
<1>6. CASE Buffer
  BY <1>6, StageBegun, StagesAreStages DEF Buffer
<1>7. CASE InferFrame
  <2>1. CASE Step("infer", "row")
    BY <2>1
  <2>2. ASSUME NEW stage \in InferenceFault \cup {"imencode"}, Throws("infer", stage),
               cfg.encoded => stage # "preprocess",
               report' = TimedThrough(report, stage)
        PROVE  StageHeld'
    <3>1. CASE stage = "imencode"
      BY <2>2, <3>1
    <3>2. CASE stage \in InferenceFault
      <4>1. report'.stage = stage
        BY <2>2, <3>2, StageReached
      <4> QED BY <2>2, <3>2, <4>1 DEF InferenceFault
    <3> QED BY <2>2, <3>1, <3>2
  <2> QED BY <1>7, <2>1, <2>2 DEF InferFrame, InferenceThrows, InferenceFault
<1>8. CASE InferWindow
  <2>1. CASE Step("infer", "row")
    BY <2>1
  <2>2. ASSUME NEW stage \in InferenceFault, Throws("infer", stage),
               report' = TimedThrough(report, stage)
        PROVE  StageHeld'
    <3>1. ~cfg.encoded
      BY <1>8, StageBegun, StagesAreStages DEF InferWindow, Config
    <3>2. report'.stage = stage
      BY <2>2, <3>1, StageReached
    <3> QED BY <2>2, <3>2 DEF InferenceFault
  <2> QED BY <1>8, <2>1, <2>2 DEF InferWindow, InferenceThrows
<1>9. CASE AddTiming
  BY <1>9, StageBegun, StagesAreStages DEF AddTiming, attributeTo
<1>10. CASE DrawFrame
  BY <1>10, StageBegun, StagesAreStages DEF DrawFrame
<1>11. CASE DrawWindow
  BY <1>11, StageBegun, StagesAreStages DEF DrawWindow
<1>12. CASE Write
  <2>1. report'.stage = "render"
    <3>1. report' = Timed(report, "render", 1)
      BY <1>12, StageBegun, StagesAreStages DEF Write
    <3>2. report \in Report /\ "render" \in RunStage /\ 1 \in Nat
      BY StagesAreStages
    <3> QED BY ONLY <3>1, <3>2, StageBegun
  <2>2. CASE Throws("write", "write")
    BY <2>1, <2>2
  <2>3. CASE Step("write", "key")
    BY <2>3
  <2> QED BY <1>12, <2>2, <2>3 DEF Write
<1>13. CASE WaitKey
  BY <1>13, StageBegun, StagesAreStages DEF WaitKey
<1>14. CASE CloseTimings
  BY <1>14, StageBegun, StagesAreStages DEF CloseTimings, attributeTo, AfterTimings
<1>15. CASE Finish
  BY <1>15, StageBegun, StagesAreStages DEF Finish
<1>16. CASE FinishReturns
  BY <1>16, StageBegun, StagesAreStages DEF FinishReturns, WriterRelease
<1>17. CASE CountSample
  <2>1. fault = "none"
    BY <1>17, StageBegun, StagesAreStages DEF CountSample, Recorded
  <2> QED BY <1>17, <2>1 DEF CountSample
<1>18. CASE Unwind
  BY <1>18, StageBegun, StagesAreStages DEF Unwind, WriterRelease
<1>19. CASE Catch
  <2>1. report.failure = NoFailure
    BY <1>19, StageBegun, StagesAreStages DEF Catch, Recorded, Failed
  <2>2. report'.failure = report.stage
    BY <1>19, <2>1 DEF Catch, Fail, Report
  <2> QED BY <1>19, <2>2 DEF Catch
<1>20. CASE Encode
  BY <1>20, StageBegun, StagesAreStages DEF Encode, WriterEncode
<1>21. CASE EncodeFails
  BY <1>21, StageBegun, StagesAreStages DEF EncodeFails, WriterEncodeFails
<1>22. CASE UNCHANGED vars
  BY <1>22, StageBegun, StagesAreStages DEF vars
<1> QED
  BY <1>1, <1>2, <1>3, <1>4, <1>5, <1>6, <1>7, <1>8, <1>9, <1>10, <1>11, <1>12,
     <1>13, <1>14, <1>15, <1>16, <1>17, <1>18, <1>19, <1>20, <1>21, <1>22
  DEF Next, LoopThread, EncoderThread, Terminated

-----------------------------------------------------------------------------
IInv == TypeInv /\ LoopInv

LEMMA LoopInit == Init => LoopInv
<1> SUFFICES ASSUME Init PROVE LoopInv
  OBVIOUS
<1>1. DOMAIN <<>> = {} /\ Len(<<>>) = 0 /\ <<>> \o <<>> = <<>>
  BY EmptySeq, LenProperties, ConcatEmptySeq
<1>2. report.failure = NoFailure /\ report.samples = 0
  BY DEF Init, NewReport
<1>3. Shape /\ Position
  BY DEF Init, Shape, Position, Normal, InHand
<1>4. WindowContents
  BY <1>1, FrameLoopAssumption DEF Init, WindowContents, Normal, Least
<1>5. PictureInHand
  BY DEF Init, PictureInHand, InHand
<1>6. SinkLife
  BY DEF Init, WriterInit, SinkLife
<1>7. HandedOver
  BY DEF Init, HandedOver, Normal, InHand, Succeeded
<1>8. Recorded
  BY <1>2 DEF Init, Recorded, Failed, Succeeded, InHand
<1>9. StageHeld
  BY DEF Init, StageHeld
<1>10. Stream
  BY <1>1 DEF Init, WriterInit, Stream, NothingLost, EachFrameOnce
<1> QED BY <1>3, <1>4, <1>5, <1>6, <1>7, <1>8, <1>9, <1>10 DEF LoopInv

LEMMA LoopStep == IInv /\ [Next]_vars => IInv'
<1> SUFFICES ASSUME IInv, [Next]_vars PROVE IInv'
  OBVIOUS
<1>1. TypeInv /\ TypeInv'
  BY TypeStep DEF IInv
<1>2. /\ Position /\ WindowContents /\ PictureInHand /\ SinkLife
      /\ HandedOver /\ Recorded /\ StageHeld /\ Stream
  BY DEF IInv, LoopInv
<1>3. Position'       BY <1>1, <1>2, PositionStep
<1>4. SinkLife'       BY <1>1, <1>2, SinkLifeStep
<1>5. WindowContents' BY <1>1, <1>2, <1>3, WindowContentsStep
<1>6. PictureInHand'  BY <1>1, <1>2, <1>3, <1>5, PictureInHandStep
<1>7. HandedOver'     BY <1>1, <1>2, <1>3, <1>4, HandedOverStep
<1>8. Recorded'       BY <1>1, <1>2, <1>3, <1>4, RecordedStep
<1>9. Stream'         BY <1>1, <1>2, StreamStep
<1>10. StageHeld'     BY <1>1, <1>2, <1>8, StageHeldStep
<1> QED BY <1>1, <1>3, <1>4, <1>5, <1>6, <1>7, <1>8, <1>9, <1>10 DEF IInv, LoopInv, TypeInv

(***************************************************************************)
(* The inductive invariant: where the loop is, what it holds, who owns the *)
(* sink and what was recorded agree, for every source and configuration.   *)
(***************************************************************************)
THEOREM LoopCorrect == Spec => []LoopInv
<1>1. Init => IInv
  BY TypeInit, LoopInit DEF IInv
<1>2. IInv => LoopInv
  BY DEF IInv
<1> QED BY <1>1, LoopStep, <1>2, PTL DEF Spec

\* Both layers of the invariant together.
LEMMA IInvAlways == Spec => []IInv
<1>1. Init => IInv
  BY TypeInit, LoopInit DEF IInv
<1> QED BY <1>1, LoopStep, PTL DEF Spec

(***************************************************************************)
(* The writer loses and reorders nothing, for every queue capacity and     *)
(* every source length: what OutputVideoSink::write hands over is in the   *)
(* file or in the queue, in order, until a picture fails to encode.        *)
(***************************************************************************)
THEOREM NothingIsLost == Spec => []NothingLost
<1>1. IInv => NothingLost
  BY DEF IInv, LoopInv, Stream
<1> QED BY IInvAlways, <1>1, PTL

(***************************************************************************)
(* Frame k of the source is the k-th picture submitted and carries its own *)
(* results; the file holds distinct frames in source order.                *)
(***************************************************************************)
THEOREM FramesOnceInOrder == Spec => []EachFrameOnce
<1>1. IInv => EachFrameOnce
  BY DEF IInv, LoopInv, Stream
<1> QED BY IInvAlways, <1>1, PTL

(***************************************************************************)
(* A run that reports success has finalised a file that holds every frame  *)
(* it read: the end of processVideo and processVideoClassification.        *)
(***************************************************************************)
THEOREM SuccessIsDelivered == Spec => []SuccessHasItsVideo
<1>1. ASSUME IInv PROVE SuccessHasItsVideo
  <2> SUFFICES ASSUME Succeeded, cfg.output
               PROVE  container = "complete" /\ file = [k \in 1 .. read |-> Expected(k)]
    BY DEF SuccessHasItsVideo
  <2>1. container = "complete" /\ Len(submitted) = read
    BY <1>1 DEF IInv, LoopInv, Recorded, HandedOver
  <2>2. queue = <<>> /\ ~broken
    BY <1>1, <2>1 DEF IInv, LoopInv, SinkLife
  <2>3. file \in Seq(Picture) /\ submitted \in Seq(Picture)
    BY <1>1 DEF IInv, TypeInv, TypeOK, WriterTypeOK
  <2>4. file = submitted
    BY <1>1, <2>2, <2>3, ConcatEmptySeq DEF IInv, LoopInv, Stream, NothingLost
  <2>5. submitted = [k \in 1 .. read |-> submitted[k]]
    BY <2>1, <2>3, LenProperties
  <2>6. \A k \in 1 .. read : submitted[k] = Expected(k)
    <3>1. DOMAIN submitted = 1 .. read
      BY <2>1, <2>3, LenProperties
    <3> QED BY <1>1, <3>1 DEF IInv, LoopInv, Stream, EachFrameOnce
  <2> QED BY <2>1, <2>4, <2>5, <2>6
<1> QED BY IInvAlways, <1>1, PTL

(***************************************************************************)
(* A counted sample stands for a finished video and flushed timings.       *)
(***************************************************************************)
THEOREM SamplesAreDelivered == Spec => []SampleMeansDelivered
<1>1. IInv => SampleMeansDelivered
  BY DEF IInv, LoopInv, Recorded, SampleMeansDelivered
<1> QED BY IInvAlways, <1>1, PTL

(***************************************************************************)
(* release() is called exactly once, on every way out of the loop.         *)
(***************************************************************************)
THEOREM ReleasedOnce == Spec => []ReleasedExactlyOnce
<1>1. IInv => ReleasedExactlyOnce
  BY DEF IInv, TypeInv, TypeOK, WriterTypeOK, LoopInv, SinkLife, ReleasedExactlyOnce
<1> QED BY IInvAlways, <1>1, PTL

-----------------------------------------------------------------------------
LEMMA AskedStep ==
  ASSUME TypeInv, TypeInv', Position, WindowContents, PictureInHand,
         AskedAboutSourceFrames, [Next]_vars
  PROVE  AskedAboutSourceFrames'
<1> USE FrameLoopAssumption DEF TypeInv, TypeOK
<1>1. CASE UNCHANGED <<asked, cfg>>
  BY <1>1 DEF AskedAboutSourceFrames, Result, Raw
<1>2. CASE InferFrame
  <2>1. Pixels(image) = Raw(read) /\ cfg.mode = "video" /\ UNCHANGED cfg
        /\ asked' = <<Pixels(image)>>
    BY <1>2 DEF InferFrame, InferenceThrows, Step, Throws, PictureInHand, InHand,
                Pixels, runVars
  <2>2. /\ Len(asked') = 1 /\ DOMAIN asked' = {1} /\ asked'[1] = Raw(read)
        /\ asked'[Len(asked')].frame = read
    BY <2>1 DEF Raw
  <2>3. read - 1 + 1 = read
    OBVIOUS
  <2> QED BY <2>1, <2>2, <2>3 DEF AskedAboutSourceFrames, Result, Raw
<1>3. CASE InferWindow
  <2>1. /\ asked' = [k \in DOMAIN frameBuffer |-> Pixels(frameBuffer[k])]
        /\ cfg.mode = "classification" /\ UNCHANGED cfg /\ pc = "infer"
    BY <1>3 DEF InferWindow, InferenceThrows, Step, Throws, runVars
  <2>2. asked' = frameBuffer
    <3>1. \A k \in DOMAIN frameBuffer : Pixels(frameBuffer[k]) = frameBuffer[k]
      BY ElementOfSeq, LenProperties DEF Pixels
    <3>2. frameBuffer = [k \in DOMAIN frameBuffer |-> frameBuffer[k]]
      BY LenProperties
    <3> QED BY <2>1, <3>1, <3>2
  <2>3. /\ frame_index = read /\ frame_index >= Window
        /\ Len(frameBuffer) = Least(frame_index, Window)
        /\ \A k \in DOMAIN frameBuffer : frameBuffer[k] = Raw(frame_index - Len(frameBuffer) + k)
    BY <2>1 DEF Position, WindowContents, Normal, InHand
  <2>4. Len(frameBuffer) = Window
    BY <2>3 DEF Least
  <2>5. frameBuffer[Len(frameBuffer)].frame = read
    BY <2>1, LastOfWindow DEF Raw
  <2> QED BY <2>1, <2>2, <2>3, <2>4, <2>5 DEF AskedAboutSourceFrames, Result, Raw
<1>4. UNCHANGED <<asked, cfg>> \/ InferFrame \/ InferWindow
  BY DEF Next, LoopThread, EncoderThread, Terminated, OpenSource, OpenTimings,
         ReadFrame, Convert, OpenSink, Buffer, AddTiming, DrawFrame, DrawWindow,
         Write, WaitKey, CloseTimings, Finish, FinishReturns, CountSample, Unwind,
         Catch, Encode, EncodeFails, WriterEncodeFails, vars, loopVars, runVars, pixelVars
<1> QED BY <1>1, <1>2, <1>3, <1>4

(***************************************************************************)
(* The model is asked about clean, current frames, for every window size:  *)
(* processVideo's bridged frame and processVideoClassification's window    *)
(* never show an overlay or a later read of the capture's storage.         *)
(***************************************************************************)
THEOREM CleanFramesAsked == Spec => []AskedAboutSourceFrames
<1>1. Init => AskedAboutSourceFrames
  BY DEF Init, AskedAboutSourceFrames
<1>2. IInv /\ IInv' /\ AskedAboutSourceFrames /\ [Next]_vars => AskedAboutSourceFrames'
  BY AskedStep DEF IInv, LoopInv
<1> QED BY IInvAlways, <1>1, <1>2, PTL DEF Spec

(***************************************************************************)
(* Every failure but the re-encoding of a frame is attributed to the stage *)
(* of the step that threw (attributeTo, StageTimer, NeuriploInfer::run).   *)
(***************************************************************************)
THEOREM FailuresAreAttributed == Spec => []FailureNamesItsStage
<1>1. IInv => FailureNamesItsStage
  BY DEF IInv, LoopInv, Recorded, StageHeld, FailureNamesItsStage
<1> QED BY IInvAlways, <1>1, PTL

-----------------------------------------------------------------------------
(* What the CSV and the report count.                                      *)

\* Marking a stage counts nothing.
SameCounts(r, t) ==
  /\ t.frames = r.frames
  /\ t.sawFrames = r.sawFrames
  /\ t.suspended = r.suspended

LEMMA BegunCounts ==
  ASSUME NEW r \in Report, NEW stage \in RunStage
  PROVE  /\ BeginStage(r, stage) \in Report
         /\ SameCounts(r, BeginStage(r, stage))
         /\ BeginStage(r, stage).ms["inference"] = r.ms["inference"]
<1>1. BeginStage(r, stage) \in Report
  BY ReportTypes
<1> QED BY <1>1 DEF BeginStage, SameCounts, Report

\* A timer that is not suspended measures its own stage and counts nothing.
LEMMA TimedCounts ==
  ASSUME NEW r \in Report, NEW stage \in RunStage, r.suspended = 0
  PROVE  /\ Timed(r, stage, 1) \in Report
         /\ SameCounts(r, Timed(r, stage, 1))
         /\ Timed(r, stage, 1).ms["inference"] =
              r.ms["inference"] + (IF stage = "inference" THEN 1 ELSE 0)
<1> DEFINE b == BeginStage(r, stage)
<1>1. b \in Report /\ SameCounts(r, b) /\ b.ms["inference"] = r.ms["inference"]
  BY BegunCounts
<1>2. Timed(r, stage, 1) = AddStageMs(b, stage, 1)
  BY DEF Timed
<1>3. Timed(r, stage, 1) \in Report
  BY TimedType
<1> HIDE DEF b
<1>4. "inference" \in TimedStage
  BY DEF TimedStage
<1>5. b.suspended = 0
  BY <1>1 DEF SameCounts
<1>6. CASE stage \notin TimedStage
  BY <1>1, <1>2, <1>3, <1>4, <1>5, <1>6 DEF AddStageMs, Report
<1>7. CASE stage \in TimedStage
  <2>1. AddStageMs(b, stage, 1) = [b EXCEPT !.ms[stage] = @ + 1]
    BY <1>5, <1>7 DEF AddStageMs
  <2>2. SameCounts(r, AddStageMs(b, stage, 1))
    BY <1>1, <2>1 DEF SameCounts, Report
  <2>3. AddStageMs(b, stage, 1).ms = [b.ms EXCEPT ![stage] = @ + 1]
    BY <1>1, <2>1 DEF Report
  <2>4. b.ms \in [TimedStage -> Nat] /\ r.ms["inference"] \in Nat
    BY <1>1, <1>4 DEF Report
  <2> QED BY <1>1, <1>2, <1>3, <1>4, <1>7, <2>2, <2>3, <2>4
<1> QED BY <1>6, <1>7

\* The timers of an inference measure it once if they get that far.
LEMMA TimedThroughCounts ==
  ASSUME report \in Report, report.suspended = 0,
         NEW stage \in InferenceFault \cup {"imencode"}
  PROVE  /\ TimedThrough(report, stage) \in Report
         /\ SameCounts(report, TimedThrough(report, stage))
         /\ stage = "postprocess" =>
              TimedThrough(report, stage).ms["inference"] = report.ms["inference"] + 1
<1> DEFINE pre == IF cfg.encoded THEN report ELSE Timed(report, "preprocess", 1)
           inf == Timed(pre, "inference", 1)
           post == Timed(inf, "postprocess", 1)
<1>0. report.ms["inference"] \in Nat
  BY DEF Report, TimedStage
<1>1. pre \in Report /\ SameCounts(report, pre) /\ pre.ms["inference"] = report.ms["inference"]
  BY <1>0, TimedCounts, StagesAreStages DEF SameCounts
<1>2. inf \in Report /\ SameCounts(report, inf) /\ inf.ms["inference"] = report.ms["inference"] + 1
  <2> HIDE DEF pre
  <2> QED BY <1>1, TimedCounts, StagesAreStages DEF SameCounts
<1>3. post \in Report /\ SameCounts(report, post) /\ post.ms["inference"] = report.ms["inference"] + 1
  <2> HIDE DEF inf
  <2> QED BY <1>0, <1>2, TimedCounts, StagesAreStages DEF SameCounts
<1>4. CASE stage = "imencode"    BY <1>4 DEF TimedThrough, SameCounts
<1>5. CASE stage = "preprocess"  BY <1>5, <1>1 DEF TimedThrough
<1>6. CASE stage = "inference"   BY <1>6, <1>2 DEF TimedThrough
<1>7. CASE stage = "postprocess" BY <1>7, <1>3 DEF TimedThrough
<1> QED BY <1>4, <1>5, <1>6, <1>7 DEF InferenceFault

\* addFrames(1) counts one frame and measures nothing.
LEMMA AddedCounts ==
  ASSUME NEW r \in Report
  PROVE  /\ AddFrames(r, 1).frames = r.frames + 1
         /\ AddFrames(r, 1).sawFrames
         /\ AddFrames(r, 1).suspended = r.suspended
         /\ AddFrames(r, 1).ms = r.ms
  BY DEF AddFrames, Report

LEMMA RowsStep ==
  ASSUME IInv, IInv', RowsSoFar, [Next]_vars
  PROVE  RowsSoFar'
<1> USE FrameLoopAssumption
        DEF IInv, TypeInv, TypeOK, LoopInv, Step, Throws, Normal, InHand,
            runVars, csvVars, loopVars, Position, RowsSoFar, RowsThrough, FirstRow,
            Succeeded, Failed
<1>0. \/ cfg.mode \in {"video", "classification"} /\ report'.failure = report.failure
      \/ Catch
  BY OutcomeKept DEF Config
<1>1. CASE OpenSource
  BY <1>0, <1>1 DEF OpenSource
<1>2. CASE OpenTimings
  BY <1>0, <1>2 DEF OpenTimings
<1>3. CASE ReadFrame
  BY <1>0, <1>3 DEF ReadFrame, EndOfSource
<1>4. CASE Convert
  BY <1>0, <1>4 DEF Convert
<1>5. CASE OpenSink
  BY <1>0, <1>5 DEF OpenSink
<1>6. CASE Buffer
  <2>1. /\ cfg.mode = "classification" /\ read = frame_index + 1
        /\ Len(frameBuffer) = IF frame_index <= Window - 1 THEN frame_index ELSE Window - 1
        /\ UNCHANGED <<cfg, rows, read>> /\ Normal /\ pc = "buffer" /\ report'.failure = report.failure
    BY <1>0, <1>6 DEF Buffer, WindowContents, Least, Catch
  <2>2. Len(frameBuffer') = Len(frameBuffer) + 1
    BY <1>6 DEF Buffer
  <2>3. /\ pc' \in {"infer", "write", "key"}
        /\ pc' # "infer" => Len(frameBuffer') < Window
    BY <1>6, <2>2 DEF Buffer
  <2>4. pc' # "infer" => read <= Window - 1
    BY <2>1, <2>2, <2>3
  <2> HIDE DEF IInv, LoopInv
  <2> QED BY <2>1, <2>3, <2>4
<1>7. CASE InferFrame
  BY <1>0, <1>7 DEF InferFrame, InferenceThrows
<1>8. CASE InferWindow
  BY <1>0, <1>8 DEF InferWindow, InferenceThrows
<1>9. CASE AddTiming
  <2>1. CASE ~cfg.csv \/ pc' # "draw"
    BY <1>9, <2>1 DEF AddTiming
  <2>2. CASE cfg.csv /\ pc' = "draw"
    <3>1. /\ rows' = Append(rows, TimingRow) /\ pc = "row"
          /\ UNCHANGED <<cfg, read, frame_index>>
      BY <1>9, <2>2 DEF AddTiming, Recorded
    <3>2. /\ TimingRow = read - 1 /\ read > FirstRow
          /\ Len(rows) = read - 1 - FirstRow
          /\ \A i \in DOMAIN rows : rows[i] = FirstRow + i - 1
      <4>1. /\ cfg.mode \in {"video", "classification"}
            /\ read > 0
            /\ frame_index = IF cfg.mode = "video" THEN read - 1 ELSE read
            /\ Len(rows) = IF read - 1 > FirstRow THEN read - 1 - FirstRow ELSE 0
            /\ \A i \in DOMAIN rows : rows[i] = FirstRow + i - 1
        BY <1>0, <2>2, <3>1 DEF Catch
      <4>2. cfg.mode = "classification" => frame_index >= Window
        BY <3>1 DEF WindowContents
      <4> HIDE DEF IInv, LoopInv, TypeInv
      <4>3. read \in Nat
        BY DEF IInv, TypeInv, TypeOK
      <4> QED BY <4>1, <4>2, <4>3 DEF TimingRow
    <3>3. /\ Len(rows') = Len(rows) + 1 /\ DOMAIN rows' = 1 .. Len(rows) + 1
          /\ \A i \in 1 .. Len(rows) : rows'[i] = rows[i]
          /\ rows'[Len(rows) + 1] = TimingRow
          /\ DOMAIN rows = 1 .. Len(rows) /\ Len(rows) \in Nat
      <4>1. rows \in Seq(Nat) /\ rows' \in Seq(Nat)
        OBVIOUS
      <4> HIDE DEF IInv, LoopInv, TypeInv, RowsSoFar, FirstRow
      <4>2. TimingRow \in Nat
        BY <3>2, FrameLoopAssumption DEF FirstRow, IInv, TypeInv, TypeOK
      <4> QED BY ONLY <4>1, <4>2, <3>1, AppendProperties, LenProperties
    <3>4. FirstRow \in Nat /\ FirstRow' = FirstRow /\ RowsThrough' = read
      BY <1>0, <2>2, <3>1 DEF Catch
    <3>5. Len(rows') = read - FirstRow
      BY <3>2, <3>3, <3>4
    <3>6. \A i \in DOMAIN rows' : rows'[i] = FirstRow + i - 1
      <4> SUFFICES ASSUME NEW i \in 1 .. Len(rows) + 1 PROVE rows'[i] = FirstRow + i - 1
        BY <3>3
      <4> HIDE DEF IInv, LoopInv, FirstRow, TypeInv
      <4>1. CASE i = Len(rows) + 1  BY <3>2, <3>3, <3>4, <4>1
      <4>2. CASE i \in 1 .. Len(rows) BY <3>2, <3>3, <3>4, <4>2
      <4> QED BY <3>3, <4>1, <4>2
    <3>7. read \in Nat
      OBVIOUS
    <3> HIDE DEF FirstRow, RowsThrough
    <3> QED BY <3>2, <3>4, <3>5, <3>6, <3>7
  <2> QED BY <2>1, <2>2
<1>10. CASE DrawFrame
  BY <1>0, <1>10 DEF DrawFrame
<1>11. CASE DrawWindow
  BY <1>0, <1>11 DEF DrawWindow
<1>12. CASE Write
  BY <1>0, <1>12 DEF Write
<1>13. CASE WaitKey
  BY <1>0, <1>13 DEF WaitKey
<1>14. CASE CloseTimings
  BY <1>0, <1>14 DEF CloseTimings, AfterTimings
<1>15. CASE Finish
  BY <1>0, <1>15 DEF Finish
<1>16. CASE FinishReturns
  BY <1>0, <1>16 DEF FinishReturns
<1>17. CASE CountSample
  BY <1>0, <1>17 DEF CountSample
<1>18. CASE Unwind
  BY <1>0, <1>18 DEF Unwind
<1>19. CASE Catch
  <2>1. report'.failure # NoFailure
    <3>1. report.stage \in RunStage /\ NoFailure \notin RunStage
      BY DEF Report, RunStage, TimedStage, NoFailure
    <3> QED BY <1>19, <3>1 DEF Catch, Fail, Report
  <2> QED BY <1>19, <2>1 DEF Catch
<1>20. CASE Encode \/ EncodeFails
  BY <1>0, <1>20 DEF Encode, EncodeFails, WriterEncodeFails
<1>21. CASE UNCHANGED vars
  BY <1>21 DEF vars
<1> QED
  BY <1>1, <1>2, <1>3, <1>4, <1>5, <1>6, <1>7, <1>8, <1>9, <1>10, <1>11, <1>12,
     <1>13, <1>14, <1>15, <1>16, <1>17, <1>18, <1>19, <1>20, <1>21
  DEF Next, LoopThread, EncoderThread, Terminated

LEMMA CountsStep ==
  ASSUME IInv, IInv', CountsSoFar, [Next]_vars
  PROVE  CountsSoFar'
<1> USE FrameLoopAssumption, StagesAreStages
        DEF IInv, TypeInv, TypeOK, LoopInv, Step, Throws, Normal, InHand,
            runVars, loopVars, Position, CountsSoFar, Uncounted,
            SameCounts, Succeeded, Failed
<1>0. \/ cfg.mode \in {"video", "classification"} /\ report'.failure = report.failure
      \/ Catch
  BY OutcomeKept DEF Config
<1>a. /\ report \in Report /\ report.frames \in Nat /\ report.ms["inference"] \in Nat
      /\ report.suspended = 0 /\ report.sawFrames \in BOOLEAN
  BY DEF Report, TimedStage
<1>b. /\ SameCounts(report, Timed(report, "source", 1))
      /\ SameCounts(report, Timed(report, "render", 1))
      /\ Timed(report, "source", 1).ms["inference"] = report.ms["inference"]
      /\ Timed(report, "render", 1).ms["inference"] = report.ms["inference"]
  <2>1. "source" # "inference" /\ "render" # "inference" /\ report.ms["inference"] + 0 = report.ms["inference"]
    BY <1>a
  <2> QED BY ONLY <2>1, <1>a, TimedCounts, StagesAreStages
<1>c. /\ SameCounts(report, BeginStage(report, "render"))
      /\ BeginStage(report, "render").ms["inference"] = report.ms["inference"]
  BY <1>a, BegunCounts
<1>1. CASE OpenSource
  BY <1>0, <1>a, <1>b, <1>1 DEF OpenSource
<1>2. CASE OpenTimings
  BY <1>0, <1>a, <1>c, <1>2 DEF OpenTimings, attributeTo
<1>3. CASE ReadFrame
  BY <1>0, <1>a, <1>b, <1>3 DEF ReadFrame, EndOfSource
<1>4. CASE Convert
  BY <1>0, <1>4 DEF Convert
<1>5. CASE OpenSink
  BY <1>0, <1>a, <1>c, <1>5 DEF OpenSink, attributeTo
<1>6. CASE Buffer
  <2>1. /\ cfg.mode = "classification" /\ UNCHANGED <<cfg, read>>
        /\ pc = "buffer" /\ pc' \in {"infer", "write", "key"}
        /\ report' = AddFrames(report, 1)
    BY <1>0, <1>6 DEF Buffer, Catch
  <2>2. report.frames = read - 1 /\ report.ms["inference"] <= report.frames
    BY <2>1, <1>a
  <2>3. /\ report'.frames = report.frames + 1 /\ report'.sawFrames
        /\ report'.suspended = 0 /\ report'.ms = report.ms
    BY <1>a, <2>1, AddedCounts
  <2>4. read \in Nat
    OBVIOUS
  <2> QED BY ONLY <1>a, <2>1, <2>2, <2>3, <2>4 DEF CountsSoFar, Uncounted
<1>7. CASE InferFrame
  <2>1. CASE Step("infer", "row") /\ report' = AddFrames(TimedThrough(report, "postprocess"), 1)
    BY <1>0, <1>a, <1>7, <2>1, AddedCounts, TimedThroughCounts DEF InferFrame, InferenceFault
  <2>2. ASSUME NEW S \in SUBSET (InferenceFault \cup {"imencode"}), InferenceThrows(S)
        PROVE  CountsSoFar'
    <3>1. PICK stage \in S : pc' = "unwinding" /\ report' = TimedThrough(report, stage)
      BY <2>2 DEF InferenceThrows
    <3> QED BY <1>a, <3>1, TimedThroughCounts
  <2> QED BY <1>7, <2>1, <2>2 DEF InferFrame, InferenceFault
<1>8. CASE InferWindow
  <2>1. CASE Step("infer", "row") /\ report' = TimedThrough(report, "postprocess")
    BY <1>0, <1>a, <1>8, <2>1, TimedThroughCounts DEF InferWindow, InferenceFault
  <2>2. CASE InferenceThrows(InferenceFault)
    <3>1. PICK stage \in InferenceFault : pc' = "unwinding" /\ report' = TimedThrough(report, stage)
      BY <2>2 DEF InferenceThrows
    <3> QED BY <1>a, <3>1, TimedThroughCounts
  <2> QED BY <1>8, <2>1, <2>2 DEF InferWindow
<1>9. CASE AddTiming
  BY <1>0, <1>a, <1>c, <1>9 DEF AddTiming, attributeTo
<1>10. CASE DrawFrame
  BY <1>0, <1>a, <1>b, <1>c, <1>10 DEF DrawFrame
<1>11. CASE DrawWindow
  BY <1>0, <1>a, <1>b, <1>c, <1>11 DEF DrawWindow
<1>12. CASE Write
  BY <1>0, <1>a, <1>b, <1>12 DEF Write
<1>13. CASE WaitKey
  BY <1>0, <1>13 DEF WaitKey
<1>14. CASE CloseTimings
  BY <1>0, <1>a, <1>c, <1>14 DEF CloseTimings, AfterTimings, attributeTo
<1>15. CASE Finish
  BY <1>0, <1>a, <1>c, <1>15 DEF Finish
<1>16. CASE FinishReturns
  <2>1. /\ SameCounts(report, AddStageMs(report, "render", 1))
        /\ AddStageMs(report, "render", 1).ms["inference"] = report.ms["inference"]
    BY <1>a DEF AddStageMs, Report, TimedStage
  <2> QED BY <1>0, <1>a, <1>16, <2>1 DEF FinishReturns
<1>17. CASE CountSample
  <2>1. /\ SameCounts(report, AddSample(report))
        /\ AddSample(report).ms = report.ms
    BY <1>a DEF AddSample, Report
  <2> QED BY <1>0, <1>a, <1>17, <2>1 DEF CountSample
<1>18. CASE Unwind
  BY <1>0, <1>18 DEF Unwind
<1>19. CASE Catch
  <2>1. report.stage \in RunStage /\ NoFailure \notin RunStage
    BY <1>a DEF Report, RunStage, TimedStage, NoFailure
  <2>2. report'.failure # NoFailure /\ SameCounts(report, report')
    BY <1>19, <1>a, <2>1 DEF Catch, Fail, Report
  <2> QED BY <1>19, <2>2 DEF Catch
<1>20. CASE Encode \/ EncodeFails
  BY <1>0, <1>20 DEF Encode, EncodeFails, WriterEncodeFails
<1>21. CASE UNCHANGED vars
  BY <1>21 DEF vars
<1> QED
  BY <1>1, <1>2, <1>3, <1>4, <1>5, <1>6, <1>7, <1>8, <1>9, <1>10, <1>11, <1>12,
     <1>13, <1>14, <1>15, <1>16, <1>17, <1>18, <1>19, <1>20, <1>21
  DEF Next, LoopThread, EncoderThread, Terminated

(***************************************************************************)
(* The rows of a successful run's CSV are its inferences, each naming the  *)
(* frame it closed on, for every window and length of the source           *)
(* (FrameTimingsCsv::add and its callers in both loops).                   *)
(***************************************************************************)
THEOREM RowsAreInferences == Spec => []RowsNameTheirFrames
<1>1. Init => RowsSoFar
  <2>1. Init => rows = <<>> /\ read = 0 /\ pc = "open"
    BY DEF Init
  <2>2. Len(<<>>) = 0 /\ DOMAIN <<>> = {}
    BY EmptySeq, LenProperties
  <2> QED BY <2>1, <2>2, FrameLoopAssumption DEF RowsSoFar, RowsThrough, FirstRow
<1>2. IInv /\ IInv' /\ RowsSoFar /\ [Next]_vars => RowsSoFar'
  BY RowsStep
<1>3. IInv /\ RowsSoFar => RowsNameTheirFrames
  BY DEF IInv, LoopInv, Recorded, RowsSoFar, RowsThrough, FirstRow,
         RowsNameTheirFrames, Succeeded
<1> QED BY IInvAlways, <1>1, <1>2, <1>3, PTL DEF Spec

(***************************************************************************)
(* A published rate divides frames by the inferences measured on them, for *)
(* every window and length of the source (RunReport::toJson, addFrames and *)
(* the inference timer of both loops).                                     *)
(***************************************************************************)
THEOREM RatesAreOfFrames == Spec => []RateDividesLikeByLike
<1>1. Init => CountsSoFar
  BY DEF Init, NewReport, CountsSoFar, TimedStage, Uncounted
<1>2. IInv /\ IInv' /\ CountsSoFar /\ [Next]_vars => CountsSoFar'
  BY CountsStep
<1>3. IInv /\ CountsSoFar => RateDividesLikeByLike
  <2> SUFFICES ASSUME IInv, CountsSoFar, pc = "done", Document(report).throughput # <<>>
               PROVE  /\ fault = "none"
                      /\ cfg.mode = "video" => Document(report).throughput = <<read, read>>
                      /\ cfg.mode = "classification" =>
                           /\ Document(report).throughput[1] = read
                           /\ Document(report).throughput[2] <= read
    BY DEF RateDividesLikeByLike
  <2>1. /\ PublishesThroughput(report)
        /\ Document(report).throughput = <<Processed(report), report.ms["inference"]>>
    BY DEF Document
  <2>2. Succeeded /\ fault = "none"
    BY <2>1 DEF IInv, LoopInv, Recorded, PublishesThroughput, Succeeded, Failed
  <2>3. report.frames \in Nat /\ report.ms["inference"] \in Nat
    BY DEF IInv, TypeInv, TypeOK, Report, TimedStage
  <2>4. /\ report.frames = read
        /\ cfg.mode = "video" => report.ms["inference"] = read
        /\ report.ms["inference"] <= read
    BY <2>2, <2>3 DEF CountsSoFar, Uncounted
  <2>5. Processed(report) = read
    BY <2>1, <2>3, <2>4 DEF Processed, PublishesThroughput, CountsSoFar
  <2> QED BY <2>1, <2>2, <2>4, <2>5
<1> QED BY IInvAlways, <1>1, <1>2, <1>3, PTL DEF Spec

-----------------------------------------------------------------------------
(* The loop and the encoder implement the artifact contract.               *)

\* The frames in the destination.
Stored == [k \in DOMAIN file |-> file[k].frame]

Outcome == IF pc # "done" THEN "running" ELSE IF Failed THEN "failed" ELSE "delivered"

\* The last frame in the destination, and 0 when there is none.
LastStored == IF file = <<>> THEN 0 ELSE file[Len(file)].frame

LEMMA StoredProperties ==
  ASSUME TypeInv
  PROVE  /\ Stored \in Seq(Nat)
         /\ Len(Stored) = Len(file)
         /\ Artifact!Last = LastStored
<1> USE DEF TypeInv, TypeOK, WriterTypeOK
<1>1. file \in Seq(Picture) /\ Len(file) \in Nat /\ DOMAIN file = 1 .. Len(file)
  BY LenProperties
<1>2. Stored \in [1 .. Len(file) -> Nat]
  BY <1>1, FramesAreNumbers DEF Stored
<1>3. Stored \in Seq(Nat) /\ Len(Stored) = Len(file)
  <2>1. Stored \in Seq(Nat)
    BY ONLY <1>1, <1>2, SeqDef
  <2>2. Len(Stored) \in Nat /\ DOMAIN Stored = 1 .. Len(Stored)
    BY ONLY <2>1, LenProperties
  <2>3. 1 .. Len(Stored) = 1 .. Len(file)
    BY ONLY <1>1, <1>2, <2>2
  <2>4. \A m, n \in Nat : 1 .. m = 1 .. n => m = n
    <3> SUFFICES ASSUME NEW m \in Nat, NEW n \in Nat, 1 .. m = 1 .. n PROVE m = n
      OBVIOUS
    <3>1. (m \in 1 .. m <=> m \in 1 .. n) /\ (n \in 1 .. n <=> n \in 1 .. m)
      OBVIOUS
    <3> QED BY <3>1
  <2> QED BY ONLY <1>1, <2>1, <2>2, <2>3, <2>4
<1>4. CASE file = <<>>
  <2>1. Stored = <<>>
    BY <1>3, <1>4, EmptySeq
  <2> QED BY <1>3, <1>4, <2>1 DEF Artifact!Last, LastStored, Stored
<1>5. CASE file # <<>>
  <2>1. Stored # <<>> /\ Len(file) \in DOMAIN file
    BY <1>1, <1>3, <1>5, EmptySeq
  <2> QED BY <1>3, <1>5, <2>1 DEF Artifact!Last, LastStored, Stored
<1> QED BY <1>3, <1>4, <1>5

\* As long as nothing was lost, the file is a prefix of what was submitted.
LEMMA FileIsPrefix ==
  ASSUME TypeInv, Stream, ~broken
  PROVE  /\ LastStored = Len(file)
         /\ queue # <<>> => Head(queue).frame = Len(file) + 1
         /\ queue = <<>> => Len(file) = Len(submitted)
<1> USE DEF TypeInv, TypeOK, WriterTypeOK
<1>1. /\ file \in Seq(Picture) /\ queue \in Seq(Picture) /\ submitted \in Seq(Picture)
      /\ file \o queue = submitted
      /\ Len(file) \in Nat /\ Len(queue) \in Nat
  BY LenProperties DEF Stream, NothingLost
<1>2. /\ Len(submitted) = Len(file) + Len(queue)
      /\ \A i \in 1 .. Len(file) + Len(queue) :
           submitted[i] = IF i <= Len(file) THEN file[i] ELSE queue[i - Len(file)]
  BY ONLY <1>1, ConcatProperties
<1>3. \A k \in 1 .. Len(submitted) : submitted[k].frame = k
  <2>1. DOMAIN submitted = 1 .. Len(submitted)
    BY ONLY <1>1, LenProperties
  <2>2. \A k \in DOMAIN submitted : submitted[k] = Expected(k)
    BY DEF Stream, EachFrameOnce
  <2> QED BY ONLY <2>1, <2>2 DEF Expected
<1>4. LastStored = Len(file)
  <2>1. CASE file = <<>>
    BY <2>1, EmptySeq DEF LastStored
  <2>2. CASE file # <<>>
    <3>1. Len(file) \in 1 .. Len(file) + Len(queue)
      BY <1>1, <2>2, EmptySeq
    <3>2. submitted[Len(file)] = file[Len(file)]
      BY <1>1, <1>2, <3>1
    <3>3. submitted[Len(file)].frame = Len(file)
      BY ONLY <1>2, <1>3, <3>1
    <3> QED BY ONLY <2>2, <3>2, <3>3 DEF LastStored
  <2> QED BY <2>1, <2>2
<1>5. ASSUME queue # <<>> PROVE Head(queue).frame = Len(file) + 1
  <2>1. Head(queue) = queue[1] /\ Len(queue) >= 1
    BY <1>1, <1>5, EmptySeq
  <2>2. Len(file) + 1 \in 1 .. Len(file) + Len(queue) /\ (Len(file) + 1) - Len(file) = 1
        /\ ~(Len(file) + 1 <= Len(file))
    BY <1>1, <2>1
  <2>3. submitted[Len(file) + 1] = queue[1]
    BY ONLY <1>2, <2>2
  <2>4. submitted[Len(file) + 1].frame = Len(file) + 1
    BY ONLY <1>2, <1>3, <2>2
  <2> QED BY ONLY <2>1, <2>3, <2>4
<1>6. queue = <<>> => Len(file) = Len(submitted)
  BY <1>1, <1>2, EmptySeq
<1> QED BY <1>4, <1>5, <1>6

LEMMA ArtifactInit == Init => Artifact!Init
<1> SUFFICES ASSUME Init PROVE Artifact!Init
  OBVIOUS
<1>1. file = <<>> /\ submitted = <<>> /\ broken = FALSE /\ pc = "open"
  BY DEF Init, WriterInit
<1>2. Len(<<>>) = 0 /\ DOMAIN <<>> = {} /\ [k \in DOMAIN <<>> |-> file[k].frame] = <<>>
  BY EmptySeq
<1> QED BY <1>1, <1>2 DEF Artifact!Init

LEMMA ArtifactStep ==
  ASSUME IInv, IInv', [Next]_vars
  PROVE  [Artifact!Next]_(Artifact!vars)
<1> USE DEF IInv
<1>1. TypeInv /\ TypeInv' /\ Stream /\ SinkLife /\ Recorded /\ HandedOver
  BY DEF LoopInv
<1>2. /\ submitted \in Seq(Picture) /\ queue \in Seq(Picture) /\ file \in Seq(Picture)
      /\ submitted' \in Seq(Picture) /\ queue' \in Seq(Picture) /\ file' \in Seq(Picture)
      /\ Len(submitted) \in Nat
  BY <1>1, LenProperties DEF TypeInv, TypeOK, WriterTypeOK
<1>3. CASE UNCHANGED <<submitted, file, broken>> /\ pc # "done" /\ pc' # "done"
  BY <1>3 DEF Artifact!vars
<1>4. CASE UNCHANGED vars
  BY <1>4 DEF Artifact!vars, vars, loopVars, writerVars, Failed
<1>5. CASE Write /\ submitted' = Append(submitted, toFrame(image)) /\ UNCHANGED <<file, broken>>
  <2>1. pc # "done" /\ pc' # "done"
    BY <1>5 DEF Write, Step, Throws
  <2>2. toFrame(image) \in Picture
    BY <1>1, PixelsType DEF TypeInv, TypeOK
  <2>3. Len(submitted') = Len(submitted) + 1
    BY <1>2, <1>5, <2>2, AppendProperties
  <2> QED BY <1>5, <2>1, <2>3 DEF Artifact!Next, Artifact!Offer
<1>6. ASSUME queue # <<>> PROVE pc # "done"
  BY <1>1, <1>6 DEF SinkLife, TypeInv, TypeOK, WriterTypeOK
<1>7. ASSUME queue # <<>>
      PROVE  /\ Head(queue) \in Picture
             /\ LastStored < Head(queue).frame /\ Head(queue).frame <= Len(submitted)
             /\ LastStored \in Nat
  <2>1. /\ 1 \in DOMAIN queue /\ Head(queue) = queue[1] /\ Head(queue) \in Picture
    BY <1>2, <1>7, TailCases, HeadTailProperties
  <2>2. queue[1].frame <= Len(submitted) /\ \A j \in DOMAIN file : file[j].frame < queue[1].frame
    BY <1>1, <2>1 DEF Stream
  <2>3. CASE file = <<>>
    BY <2>1, <2>2, <2>3 DEF LastStored, Picture
  <2>4. CASE file # <<>>
    <3>1. Len(file) \in DOMAIN file
      BY <1>2, <2>4, LenProperties, EmptySeq
    <3>2. file[Len(file)].frame \in Nat
      BY <1>2, <3>1, FramesAreNumbers
    <3> QED BY <2>1, <2>2, <2>4, <3>1, <3>2 DEF LastStored
  <2> QED BY <2>3, <2>4
<1>8. CASE Encode
  <2>1. /\ queue # <<>> /\ file' = Append(file, Head(queue))
        /\ UNCHANGED <<submitted, broken, pc, report>>
    BY <1>1, <1>8, HeadIsItself DEF Encode, WriterEncode, loopVars
  <2>2. Head(queue).frame \in (LastStored + 1) .. Len(submitted)
    BY <1>2, <1>7, <2>1 DEF Picture
  <2>3. Head(queue).frame = LastStored + 1 \/ broken
    BY <1>1, <2>1, FileIsPrefix DEF TypeInv, TypeOK, WriterTypeOK
  <2>4. [k \in DOMAIN file' |-> file'[k].frame] = Append(Stored, Head(queue).frame)
    <3>1. Head(queue) \in Picture /\ Head(queue).frame \in Nat
      BY <1>7, <2>1 DEF Picture
    <3>2. /\ Len(file') = Len(file) + 1 /\ file'[Len(file) + 1] = Head(queue)
          /\ \A i \in 1 .. Len(file) : file'[i] = file[i]
          /\ DOMAIN file' = 1 .. Len(file') /\ DOMAIN file = 1 .. Len(file) /\ Len(file) \in Nat
      BY ONLY <1>2, <2>1, <3>1, AppendProperties, LenProperties
    <3>3. Stored \in Seq(Nat) /\ Len(Stored) = Len(file)
      BY <1>1, StoredProperties
    <3> DEFINE t == Append(Stored, Head(queue).frame)
    <3>4. /\ Len(t) = Len(Stored) + 1 /\ t[Len(Stored) + 1] = Head(queue).frame
          /\ \A i \in 1 .. Len(Stored) : t[i] = Stored[i]
          /\ t \in Seq(Nat)
      BY ONLY <3>1, <3>3, AppendProperties
    <3>5. DOMAIN t = 1 .. Len(t) /\ t = [k \in DOMAIN t |-> t[k]]
      BY ONLY <3>4, LenProperties
    <3> HIDE DEF t
    <3>6. ASSUME NEW k \in DOMAIN file' PROVE file'[k].frame = t[k]
      <4>1. CASE k = Len(file) + 1
        BY <3>2, <3>3, <3>4, <4>1
      <4>2. CASE k \in 1 .. Len(file)
        <5>1. Stored[k] = file[k].frame
          BY <3>2, <4>2 DEF Stored
        <5> QED BY <3>2, <3>3, <3>4, <4>2, <5>1
      <4> QED BY <3>2, <4>1, <4>2
    <3>7. DOMAIN file' = DOMAIN t
      BY <3>2, <3>3, <3>4, <3>5
    <3>8. [k \in DOMAIN file' |-> file'[k].frame] = t
      BY ONLY <3>5, <3>6, <3>7
    <3> QED BY ONLY <3>8 DEF t
  <2>5. pc # "done" /\ pc' # "done"
    BY <1>6, <2>1
  <2>6. Artifact!Last = LastStored
    BY <1>1, StoredProperties
  <2>7. Artifact!Store
    <3>1. \E frame \in (Artifact!Last + 1) .. Len(submitted) :
            /\ frame = Artifact!Last + 1 \/ broken
            /\ [k \in DOMAIN file' |-> file'[k].frame] = Append(Stored, frame)
      BY <2>2, <2>3, <2>4, <2>6
    <3> QED BY <2>1, <2>5, <3>1 DEF Artifact!Store, Stored
  <2> QED BY <2>7 DEF Artifact!Next
<1>9. CASE EncodeFails
  <2>1. queue # <<>> /\ broken' = TRUE /\ UNCHANGED <<file, submitted, pc, report>>
    BY <1>9 DEF EncodeFails, WriterEncodeFails, loopVars
  <2>2. Artifact!Last < Len(submitted)
    <3>1. Artifact!Last = LastStored
      BY <1>1, StoredProperties
    <3>2. LastStored < Len(submitted)
      BY <1>2, <1>7, <2>1 DEF Picture
    <3> QED BY <3>1, <3>2
  <2>3. pc # "done" /\ pc' # "done"
    BY <1>6, <2>1
  <2>4. Artifact!Lose
    BY <2>1, <2>2, <2>3 DEF Artifact!Lose
  <2> QED BY <2>4 DEF Artifact!Next
<1>10. CASE CountSample
  <2>1. /\ pc = "sample" /\ pc' = "done" /\ UNCHANGED <<submitted, file, broken, cfg>>
        /\ report'.failure = report.failure
    BY <1>10, <1>1, OutcomeKept DEF CountSample, Step, sinkVars, writerVars, runVars, Catch
  <2>2. ~Failed /\ ~Failed'
    BY <1>1, <2>1 DEF Recorded, Failed
  <2>3. queue = <<>> /\ ~broken
    BY <1>1, <2>1 DEF SinkLife, Recorded, TypeInv, TypeOK, WriterTypeOK
  <2>4. Artifact!Last = Len(submitted)
    BY <1>1, <2>3, StoredProperties, FileIsPrefix
  <2>5. Artifact!Deliver
    BY <2>1, <2>2, <2>3, <2>4 DEF Artifact!Deliver
  <2> QED BY <2>5 DEF Artifact!Next
<1>11. CASE Catch
  <2>1. pc = "caught" /\ pc' = "done" /\ UNCHANGED <<submitted, file, broken>>
    BY <1>11 DEF Catch, Step, sinkVars, writerVars
  <2>2. Failed'
    <3>1. (fault # "none")' <=> Failed'
      BY <2>1, <1>1 DEF LoopInv, Recorded
    <3>2. fault # "none" /\ fault' = fault
      BY <1>11, <2>1, <1>1 DEF Recorded, Catch, Step
    <3> QED BY <3>1, <3>2
  <2>3. Artifact!Fail
    BY <2>1, <2>2 DEF Artifact!Fail
  <2> QED BY <2>3 DEF Artifact!Next
<1>12. \/ UNCHANGED <<submitted, file, broken>> /\ pc # "done" /\ pc' # "done"
       \/ UNCHANGED vars
       \/ Write /\ submitted' = Append(submitted, toFrame(image)) /\ UNCHANGED <<file, broken>>
       \/ Encode \/ EncodeFails \/ CountSample \/ Catch
  BY DEF Next, LoopThread, EncoderThread, Terminated, OpenSource, OpenTimings,
         ReadFrame, EndOfSource, Convert, OpenSink, Buffer, InferFrame, InferWindow,
         InferenceThrows, AddTiming, DrawFrame, DrawWindow, Write, WaitKey,
         CloseTimings, AfterTimings, Finish, FinishReturns, Unwind, Step, Throws,
         WriterInitialize, WriterAccept, WriterRefuse, WriterRelease,
         sinkVars, writerVars
<1> QED BY <1>3, <1>4, <1>5, <1>8, <1>9, <1>10, <1>11, <1>12

(***************************************************************************)
(* The frame loop, its sink and the encoder implement the artifact         *)
(* contract: every step offers, stores, loses, delivers or fails as        *)
(* VideoArtifact allows, or changes nothing a user can see.                *)
(***************************************************************************)
THEOREM ImplementsArtifact == Spec => ArtifactSpec
<1>1. IInv /\ IInv' /\ [Next]_vars => [Artifact!Next]_(Artifact!vars)
  BY ArtifactStep
<1> QED BY IInvAlways, ArtifactInit, <1>1, PTL DEF Spec, ArtifactSpec, Artifact!Spec
=============================================================================
