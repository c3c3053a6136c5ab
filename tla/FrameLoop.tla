------------------------------ MODULE FrameLoop ------------------------------
(***************************************************************************)
(* The frame loop of a video run: processVideo and                         *)
(* processVideoClassification of app/src/CLICommands.cpp, with the output  *)
(* sink (app/src/OutputVideoSink.cpp) and the timings CSV they own, running *)
(* beside the encoder thread of VideoWriter.                               *)
(*                                                                         *)
(* The loop is sequential; its control state is pc.  A step that throws    *)
(* goes to "unwinding", where the sink's destructor runs, and from there   *)
(* to the catch block of NeuriploInfer::run.  Pixels are modelled by what  *)
(* they show (VideoWriter!Picture), and a cv::Mat by whether it owns them  *)
(* or is a view onto the storage that the next read overwrites.            *)
(***************************************************************************)
EXTENDS VideoWriter, RunReport

CONSTANTS
  MaxFrames,  \* bound: frames the source may deliver
  Window,     \* getRequiredFrameCount(): frames per classification window
  View        \* a cv::Mat that aliases the capture frame's storage

ASSUME FrameLoopAssumption ==
  /\ MaxFrames \in Nat
  /\ Window \in Nat \ {0}
  /\ View \notin Picture

VARIABLES
  cfg,          \* the options of the run the loop depends on
  pc,           \* the next step of the loop
  read,         \* frames the capture has delivered
  frame_index,  \* the loop's own count
  read_to_end,  \* readFrame returned false
  storage,      \* the pixels in the capture frame
  image,        \* the cv::Mat the step works on
  frameBuffer,  \* the classification window
  asked,        \* the pictures of the latest inference
  sink,         \* "none", "open", or "released": released_ is set
  submitted,    \* history: every picture the writer accepted
  timings,      \* "off", "open", or "flushed": the timings CSV
  rows,         \* the frame column of the CSV rows
  report,       \* the run report
  fault         \* history: the step that threw, or "none"

loopVars == <<cfg, pc, read, frame_index, read_to_end, storage, image,
              frameBuffer, asked, sink, submitted, timings, rows, report, fault>>

runVars   == <<cfg, read, frame_index, read_to_end>>
pixelVars == <<storage, image, frameBuffer, asked>>
sinkVars  == <<sink, submitted, writerVars>>
csvVars   == <<timings, rows>>

vars == <<loopVars, writerVars>>

\* The steps that can throw.
Fault == {"open", "timings", "read", "convert", "sink", "imencode",
          "preprocess", "inference", "postprocess", "row", "draw", "write",
          "close", "empty", "finish"}

PC == {"open", "timings", "read", "convert", "sink", "buffer", "infer", "row",
       "draw", "write", "key", "tail", "finish", "draining", "sample",
       "unwinding", "caught", "done"}

\* encoded: --input_mode=encoded-image, which no classification task supports.
Config == {c \in [mode    : {"video", "classification"},
                  output  : BOOLEAN,   \* --output_video
                  csv     : BOOLEAN,   \* --timings_csv
                  display : BOOLEAN,   \* a window is shown: q and Escape work
                  packed  : BOOLEAN,   \* frames are BGR8, bridged without copy
                  encoded : BOOLEAN] :
            c.mode = "classification" => ~c.encoded}

TypeOK ==
  /\ WriterTypeOK
  /\ cfg \in Config
  /\ pc \in PC
  /\ read \in 0 .. MaxFrames
  /\ frame_index \in Nat
  /\ read_to_end \in BOOLEAN
  /\ storage \in Picture
  /\ image \in Picture \cup {View}
  /\ frameBuffer \in Seq(Picture)
  /\ asked \in Seq(Picture)
  /\ sink \in {"none", "open", "released"}
  /\ submitted \in Seq(Picture)
  /\ timings \in {"off", "open", "flushed"}
  /\ rows \in Seq(Nat)
  /\ report \in Report
  /\ fault \in Fault \cup {"none"}

-----------------------------------------------------------------------------
(* Pixels and the cv::Mat that hold them.                                  *)

\* Frame k as the capture delivers it, and a picture with results drawn on it.
Raw(k) == [frame |-> k, overlay |-> 0]

Drawn(picture, k) == [picture EXCEPT !.overlay = k]

\* What is seen through a Mat now.
Pixels(mat) == IF mat = View THEN storage ELSE mat

\* Mutant: the Mat is shared instead of copied.
toFrame_Shared(mat) == mat

\* cv::Mat::clone and toFrame copy what the Mat shows.
Clone(mat) == Pixels(mat)

toFrame(mat) == Pixels(mat)

\* toBgrMat: a header over the storage for BGR8, converted pixels otherwise.
toBgrMat == IF cfg.packed THEN View ELSE storage

-----------------------------------------------------------------------------
(* Control.                                                                *)

Step(from, to) == pc = from /\ pc' = to /\ UNCHANGED fault

Throws(from, step) == pc = from /\ pc' = "unwinding" /\ fault' = step

\* attributeTo: the stage untimed work belongs to.  Mutant: it is forgotten.
attributeTo_Skipped(stage) == report' = report

attributeTo(stage) == report' = BeginStage(report, stage)

Init ==
  /\ WriterInit
  /\ cfg \in Config
  /\ pc = "open"
  /\ read = 0
  /\ frame_index = 0
  /\ read_to_end = FALSE
  /\ storage = Raw(1)   \* never shown: the first read overwrites it
  /\ image = View
  /\ frameBuffer = <<>>
  /\ asked = <<>>
  /\ sink = "none"
  /\ submitted = <<>>
  /\ timings = "off"
  /\ rows = <<>>
  /\ report = NewReport
  /\ fault = "none"

-----------------------------------------------------------------------------
(* Before the loop.                                                        *)

OpenSource ==
  /\ Step("open", "timings") \/ Throws("open", "open")
  /\ report' = Timed(report, "source", 1)
  /\ UNCHANGED <<runVars, pixelVars, sinkVars, csvVars>>

\* FrameTimingsCsv's constructor: opens the file and writes the header.
OpenTimings ==
  /\ \/ /\ Step("timings", "read")
        /\ timings' = IF cfg.csv THEN "open" ELSE "off"
     \/ /\ cfg.csv
        /\ Throws("timings", "timings")
        /\ UNCHANGED timings
  /\ attributeTo("render")
  /\ UNCHANGED <<runVars, pixelVars, sinkVars, rows>>

-----------------------------------------------------------------------------
(* One iteration.                                                          *)

\* readFrame returned false.  Mutant: it is taken for a frame that was dropped.
EndOfSource_Retried ==
  Step("read", "key") /\ UNCHANGED <<read, storage, read_to_end>>

EndOfSource ==
  /\ Step("read", "tail")
  /\ read_to_end' = TRUE
  /\ UNCHANGED <<read, storage>>

\* Every read is source work; the frame's storage is reused.
ReadFrame ==
  /\ \/ /\ Step("read", "convert")
        /\ read < MaxFrames
        /\ read' = read + 1
        /\ storage' = Raw(read + 1)
        /\ UNCHANGED read_to_end
     \/ EndOfSource
     \/ /\ Throws("read", "read")
        /\ UNCHANGED <<read, storage, read_to_end>>
  /\ report' = Timed(report, "source", 1)
  /\ UNCHANGED <<sinkVars, csvVars, cfg, frame_index, image, frameBuffer, asked>>

\* A pixel format that has to be converted may be refused.
Convert ==
  /\ \/ /\ Step("convert", "sink")
        /\ image' = toBgrMat
     \/ /\ ~cfg.packed
        /\ Throws("convert", "convert")
        /\ UNCHANGED image
  /\ UNCHANGED <<runVars, sinkVars, csvVars, storage, frameBuffer, asked, report>>

\* OutputVideoSink's constructor, on the first frame only.
OpenSink ==
  LET next == IF cfg.mode = "video" THEN "infer" ELSE "buffer"
      configure == cfg.output /\ sink = "none"
  IN  /\ \/ /\ ~configure
            /\ Step("sink", next)
            /\ UNCHANGED <<sink, report, writerVars>>
         \/ /\ configure
            /\ attributeTo("render")
            /\ \/ /\ WriterInitialize
                  /\ sink' = "open"
                  /\ Step("sink", next)
               \/ /\ Throws("sink", "sink")
                  /\ UNCHANGED <<sink, writerVars>>
      /\ UNCHANGED <<runVars, pixelVars, csvVars, submitted>>

\* Classification: the frame joins the window and is counted, inferred or not.
\* Until the window is full it is only written, if there is a sink.
Buffer ==
  /\ frameBuffer' = Append(frameBuffer, Clone(image))
  /\ Step("buffer", IF Len(frameBuffer') >= Window THEN "infer"
                    ELSE IF sink = "open" THEN "write" ELSE "key")
  /\ frame_index' = frame_index + 1
  /\ report' = AddFrames(report, 1)
  /\ UNCHANGED <<sinkVars, csvVars, cfg, read, read_to_end, storage, image, asked>>

\* inferFrame's timers, up to and including the one of the stage.  The
\* encoded-image path has no client-side preprocessing.
TimedThrough(r, stage) ==
  LET preprocessed == IF cfg.encoded THEN r ELSE Timed(r, "preprocess", 1)
      inferred     == Timed(preprocessed, "inference", 1)
  IN  CASE stage = "imencode"    -> r
        [] stage = "preprocess"  -> preprocessed
        [] stage = "inference"   -> inferred
        [] stage = "postprocess" -> Timed(inferred, "postprocess", 1)

InferenceFault == {"preprocess", "inference", "postprocess"}

\* A stage of the inference throws; its timer records the attempt as it
\* unwinds.
InferenceThrows(stages) ==
  \E stage \in stages : /\ Throws("infer", stage)
                        /\ report' = TimedThrough(report, stage)

\* processVideo: one frame, counted once its results are there.
InferFrame ==
  /\ cfg.mode = "video"
  /\ asked' = <<Pixels(image)>>
  /\ \/ /\ Step("infer", "row")
        /\ report' = AddFrames(TimedThrough(report, "postprocess"), 1)
     \/ InferenceThrows(IF cfg.encoded
                        THEN {"imencode", "inference", "postprocess"}
                        ELSE InferenceFault)
  /\ UNCHANGED <<runVars, sinkVars, csvVars, storage, image, frameBuffer>>

\* processVideoClassification: the whole window, counted when it was read.
InferWindow ==
  /\ cfg.mode = "classification"
  /\ asked' = [k \in DOMAIN frameBuffer |-> Pixels(frameBuffer[k])]
  /\ \/ /\ Step("infer", "row")
        /\ report' = TimedThrough(report, "postprocess")
     \/ InferenceThrows(InferenceFault)
  /\ UNCHANGED <<runVars, sinkVars, csvVars, storage, image, frameBuffer>>

\* The frame a row is about: the one the inference closed on, from 0.  A
\* window's frame is already counted.  Mutant: both loops pass frame_index.
TimingRow_Unadjusted == frame_index

TimingRow == IF cfg.mode = "video" THEN frame_index ELSE frame_index - 1

\* FrameTimingsCsv::add.
AddTiming ==
  /\ \/ /\ Step("row", "draw")
        /\ rows' = IF timings = "open" THEN Append(rows, TimingRow) ELSE rows
     \/ /\ timings = "open"
        /\ Throws("row", "row")
        /\ UNCHANGED rows
  /\ attributeTo("render")
  /\ UNCHANGED <<runVars, pixelVars, sinkVars, timings>>

\* The frame whose results are drawn: the last one the model was asked about.
Result == asked[Len(asked)].frame

\* processVideo draws on the bridged Mat itself, and through a view on storage.
DrawFrame ==
  /\ cfg.mode = "video"
  /\ \/ /\ Step("draw", "write")
        /\ report' = BeginStage(report, "render")
     \/ /\ Throws("draw", "draw")
        /\ report' = Timed(report, "render", 1)
  /\ storage' = IF image = View THEN Drawn(storage, Result) ELSE storage
  /\ image' = IF image = View THEN View ELSE Drawn(image, Result)
  /\ UNCHANGED <<runVars, sinkVars, csvVars, frameBuffer, asked>>

\* processVideoClassification draws on a clone: the window is used again.
DrawWindow ==
  /\ cfg.mode = "classification"
  /\ \/ /\ Step("draw", "write")
        /\ report' = BeginStage(report, "render")
     \/ /\ Throws("draw", "draw")
        /\ report' = Timed(report, "render", 1)
  /\ image' = Drawn(Clone(frameBuffer[Len(frameBuffer)]), Result)
  /\ UNCHANGED <<runVars, sinkVars, csvVars, storage, frameBuffer, asked>>

\* OutputVideoSink::write, and the rest of the iteration's render work.  The
\* step waits while the encoder's queue is full.
Write ==
  /\ \/ /\ Step("write", "key")
        /\ \/ sink # "open" /\ UNCHANGED <<submitted, writerVars>>
           \/ /\ sink = "open"
              /\ WriterAccept(toFrame(image))
              /\ submitted' = Append(submitted, toFrame(image))
        /\ frame_index' = IF cfg.mode = "video" THEN frame_index + 1
                                                ELSE frame_index
        /\ frameBuffer' = IF Len(frameBuffer) >= Window THEN Tail(frameBuffer)
                                                        ELSE frameBuffer
     \/ /\ sink = "open"
        /\ WriterRefuse
        /\ Throws("write", "write")
        /\ UNCHANGED <<submitted, frame_index, frameBuffer>>
  /\ report' = Timed(report, "render", 1)
  /\ UNCHANGED <<csvVars, cfg, read, read_to_end, storage, image, asked, sink>>

\* Only a shown window can be asked to close.
WaitKey ==
  /\ Step("key", "read") \/ (cfg.display /\ Step("key", "tail"))
  /\ UNCHANGED <<runVars, pixelVars, sinkVars, csvVars, report>>

-----------------------------------------------------------------------------
(* After the loop.                                                         *)

\* Mutant: a run the operator stopped leaves the sink to its destructor.
AfterTimings_EndOnly ==
  IF sink = "open" /\ read_to_end THEN "finish" ELSE "sample"

AfterTimings == IF sink = "open" THEN "finish" ELSE "sample"

\* timings.finish(), the release of the capture, and the empty-video check.
CloseTimings ==
  /\ \/ /\ timings = "open"
        /\ Throws("tail", "close")
        /\ UNCHANGED timings
     \/ /\ timings' = IF timings = "open" THEN "flushed" ELSE timings
        /\ IF read_to_end /\ cfg.output /\ sink = "none"
           THEN Throws("tail", "empty")
           ELSE Step("tail", AfterTimings)
  /\ attributeTo("render")
  /\ UNCHANGED <<runVars, pixelVars, sinkVars, rows>>

\* OutputVideoSink::finish up to the call of release: released_ is set first.
Finish ==
  /\ Step("finish", "draining")
  /\ sink' = "released"
  /\ report' = BeginStage(report, "render")
  /\ UNCHANGED <<runVars, pixelVars, csvVars, submitted, writerVars>>

\* Mutant: what release() returned is ignored.
FinishReturns_ResultIgnored ==
  /\ \E finalized \in BOOLEAN : WriterRelease(finalized)
  /\ Step("draining", "sample")
  /\ report' = AddStageMs(report, "render", 1)
  /\ UNCHANGED <<runVars, pixelVars, csvVars, sink, submitted>>

\* release returned to finish.
FinishReturns ==
  /\ \E finalized \in BOOLEAN : WriterRelease(finalized)
  /\ IF container' = "complete" THEN Step("draining", "sample")
                                ELSE Throws("draining", "finish")
  /\ report' = AddStageMs(report, "render", 1)
  /\ UNCHANGED <<runVars, pixelVars, csvVars, sink, submitted>>

\* Mutant: the sample is counted however the loop ended.
CountSample_AnyEnd ==
  /\ Step("sample", "done")
  /\ report' = AddSample(report)
  /\ UNCHANGED <<runVars, pixelVars, sinkVars, csvVars>>

\* A video the operator stopped early is not a sample.
CountSample ==
  /\ Step("sample", "done")
  /\ report' = IF read_to_end THEN AddSample(report) ELSE report
  /\ UNCHANGED <<runVars, pixelVars, sinkVars, csvVars>>

-----------------------------------------------------------------------------
(* The way out of a step that threw.                                       *)

\* ~OutputVideoSink: releases a sink that finish() did not, and only logs.
Unwind ==
  /\ Step("unwinding", "caught")
  /\ IF sink = "open"
     THEN /\ \E finalized \in BOOLEAN : WriterRelease(finalized)
          /\ sink' = "released"
     ELSE UNCHANGED <<sink, writerVars>>
  /\ UNCHANGED <<runVars, pixelVars, csvVars, submitted, report>>

\* The catch block of NeuriploInfer::run.
Catch ==
  /\ Step("caught", "done")
  /\ report' = Fail(report, report.stage)
  /\ UNCHANGED <<runVars, pixelVars, sinkVars, csvVars>>

-----------------------------------------------------------------------------
LoopThread ==
  \/ OpenSource \/ OpenTimings
  \/ ReadFrame \/ Convert \/ OpenSink \/ Buffer \/ InferFrame \/ InferWindow
  \/ AddTiming \/ DrawFrame \/ DrawWindow \/ Write \/ WaitKey
  \/ CloseTimings \/ Finish \/ FinishReturns \/ CountSample
  \/ Unwind \/ Catch

Encode ==
  /\ queue # <<>>
  /\ WriterEncode(Pixels(Head(queue)))
  /\ UNCHANGED loopVars

EncodeFails == WriterEncodeFails /\ UNCHANGED loopVars

EncoderThread == Encode \/ EncodeFails

\* The run ended: nothing moves any more.
Terminated == pc = "done" /\ UNCHANGED vars

Next == LoopThread \/ EncoderThread \/ Terminated

\* Both threads are scheduled: a step that stays possible is taken.
Fairness == WF_vars(LoopThread) /\ WF_vars(EncoderThread)

Spec == Init /\ [][Next]_vars

FairSpec == Spec /\ Fairness

-----------------------------------------------------------------------------
(***************************************************************************)
(* Properties.                                                             *)
(***************************************************************************)

Failed == report.failure # NoFailure

Succeeded == pc = "done" /\ ~Failed

\* What the destination should show of frame k: its own results, or nothing
\* when no classification window had closed yet.
Expected(k) ==
  [frame   |-> k,
   overlay |-> IF cfg.mode = "video" \/ k >= Window THEN k ELSE 0]

(***************************************************************************)
(* The writer loses and reorders nothing: as long as no picture failed to  *)
(* encode, what is in the file and what is still queued are together       *)
(* exactly the pictures the loop submitted, in submission order            *)
(* (OutputVideoSink::write, "Frames keep submission order and are never    *)
(* dropped").                                                              *)
(***************************************************************************)
NothingLost == ~broken => file \o queue = submitted

(***************************************************************************)
(* Every source frame is submitted exactly once, in source order, showing  *)
(* the results computed for that very frame and no older overlay: frame k  *)
(* is the k-th picture.  The picture of a frame is handed over by copy, so *)
(* neither the next read nor the next overlay shows through in the file.   *)
(***************************************************************************)
EachFrameOnce ==
  /\ \A k \in DOMAIN submitted : submitted[k] = Expected(k)
  /\ \A k \in DOMAIN file : file[k] = Expected(file[k].frame)
  /\ \A j, k \in DOMAIN file : j < k => file[j].frame < file[k].frame

(***************************************************************************)
(* A run that asked for an output video and reports success has delivered  *)
(* it: the container was finalised and holds every frame read, whether the *)
(* source ended or the operator stopped the run.                           *)
(***************************************************************************)
SuccessHasItsVideo ==
  Succeeded /\ cfg.output =>
    /\ container = "complete"
    /\ file = [k \in 1 .. read |-> Expected(k)]

(***************************************************************************)
(* A sample is counted only for a video read to its end, after everything  *)
(* the run promised for it is on disk: the container is finalised and the  *)
(* timings CSV flushed (the order at the end of processVideo).             *)
(***************************************************************************)
SampleMeansDelivered ==
  report.samples > 0 =>
    /\ read_to_end
    /\ cfg.output => container = "complete"
    /\ cfg.csv => timings = "flushed"

(***************************************************************************)
(* release() is called exactly once on a writer that was initialised, on   *)
(* every way out of the loop: the normal end, the operator's stop, and an  *)
(* exception from any step, the failed finish() included.                  *)
(***************************************************************************)
ReleasedExactlyOnce ==
  /\ releases <= 1
  /\ pc = "done" /\ container # "absent" => releases = 1

\* The stage a step's failure belongs to, by what the step does.
StageOfFault(step) ==
  CASE step \in {"open", "read", "convert"} -> "source"
    [] step \in {"preprocess", "imencode"}   -> "preprocess"
    [] step = "inference"                    -> "inference"
    [] step = "postprocess"                  -> "postprocess"
    [] OTHER                                 -> "render"

(***************************************************************************)
(* A failed run is attributed to the stage of the step that failed.  The   *)
(* stage is recorded by sparse beginStage calls, and untimed steps (the    *)
(* CSV, the sink's constructor) inherit whatever was recorded last, unless *)
(* attributeTo was called on every path that reaches them.  The re-encoding*)
(* of a frame for the ensemble is left out: the code attributes a throw    *)
(* from it to whatever ran before.                                         *)
(***************************************************************************)
FailureNamesItsStage ==
  pc = "done" =>
    /\ Failed <=> fault # "none"
    /\ fault \notin {"none", "imencode"} => report.failure = StageOfFault(fault)

(***************************************************************************)
(* What the model is asked about is clean and current: a video's single    *)
(* frame, or a window of Window consecutive frames in source order, none   *)
(* of them with an overlay of an earlier result drawn into it and none     *)
(* replaced by a later read of the storage it was bridged from.            *)
(***************************************************************************)
AskedAboutSourceFrames ==
  asked # <<>> =>
    /\ Len(asked) = IF cfg.mode = "video" THEN 1 ELSE Window
    /\ \A k \in DOMAIN asked : asked[k] = Raw(Result - Len(asked) + k)

(***************************************************************************)
(* The timings CSV of a successful run has one row per inference, and the  *)
(* row names the frame the inference closed on, counted from 0: every      *)
(* frame of a video, every frame from the Window-th on of a classification.*)
(***************************************************************************)
RowsNameTheirFrames ==
  Succeeded /\ cfg.csv =>
    LET first == IF cfg.mode = "video" THEN 0 ELSE Window - 1
    IN  /\ timings = "flushed"
        /\ Len(rows) = IF read > first THEN read - first ELSE 0
        /\ \A i \in DOMAIN rows : rows[i] = first + i - 1

(***************************************************************************)
(* Counts are added after work succeeds (RunReport::toJson): when the      *)
(* inference on the frame just read throws, that frame is not counted.     *)
(***************************************************************************)
FailedFrameNotCounted ==
  fault \in InferenceFault \cup {"imencode"} => report.frames = read - 1

(***************************************************************************)
(* A rate that is published divides like by like: in a video run each      *)
(* counted frame is one measured inference and each measured inference one *)
(* counted frame, and there is no rate for a failed run.                   *)
(***************************************************************************)
RateDividesLikeByLike ==
  LET rate == Document(report).throughput
  IN  pc = "done" /\ rate # <<>> =>
        /\ fault = "none"
        /\ cfg.mode = "video" => rate = <<read, read>>
        /\ cfg.mode = "classification" => rate[1] = read /\ rate[2] <= read

\* Neither a full queue, nor a writer that broke while the loop waited for
\* room, nor the drain at the end keeps a run of a finite source from ending.
RunEnds == <>(pc = "done")

(***************************************************************************)
(* The loop and the encoder together implement the artifact contract.      *)
(***************************************************************************)
Artifact == INSTANCE VideoArtifact WITH
  offered <- Len(submitted),
  stored  <- [k \in DOMAIN file |-> file[k].frame],
  lost    <- broken,
  outcome <- IF pc # "done" THEN "running"
             ELSE IF Failed THEN "failed" ELSE "delivered"

ArtifactSpec == Artifact!Spec

=============================================================================
