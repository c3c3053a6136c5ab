---------------------------- MODULE TaskRunInvariant ----------------------------
(***************************************************************************)
(* The inductive invariant of TaskRun.  A run's properties compare what    *)
(* was asked, written, counted and timed, which the code does in steps     *)
(* apart from each other: each part says how far apart two of them are at  *)
(* each step.                                                              *)
(***************************************************************************)
EXTENDS TaskRun

SetupPC == {"labels", "backend", "task", "dispatch", "export"}

ImagePC == {"image_read", "image_bytes", "warmup", "image_inputs", "image_infer",
            "image_render", "image_sample", "benchmark"}

FlowPC == {"flow_read", "flow_infer", "flow_render", "flow_sample"}

TextPC == {"text_read", "text_infer", "text_render", "text_sample"}

\* The steps between an inference and the sample counted for it.
RenderPC == {"image_render", "flow_render", "text_render"}

SamplePC == {"image_sample", "flow_sample", "text_sample"}

ImageRun == /\ Task # "ImageUnderstanding" /\ ~o.export_metadata
            /\ AnyStill(o) /\ Len(o.sources) = 1

FlowRun == /\ Task = "OpticalFlow" /\ ~o.export_metadata
           /\ AnyStill(o) /\ Len(o.sources) # 1

TextRun == Task = "ImageUnderstanding" /\ ~o.export_metadata

FrameRun == /\ Task # "ImageUnderstanding" /\ ~o.export_metadata
            /\ ~AnyStill(o) /\ Len(o.sources) = 1

\* Which step a run can be at, by its options.
OnPath ==
  /\ o \in Options
  /\ Accepts(o)
  /\ pc = "export" => o.export_metadata
  /\ pc = "dispatch" => ~o.export_metadata
  /\ pc \in ImagePC => ImageRun
  /\ pc \in FlowPC => FlowRun
  /\ pc \in TextPC => TextRun
  /\ pc = "frames" => FrameRun
  /\ pc = "warmup" => o.warmup
  /\ pc = "benchmark" => o.benchmark

\* Nothing happens before a path begins.
Fresh ==
  pc \in SetupPC => /\ report.samples = 0 /\ requests = {} /\ artifacts = {}
                   /\ image = "none"

\* A model is asked only once setup has let it through.
Fitted ==
  pc \notin {"labels", "backend", "task", "caught", "done"} \/ requests # {} => TaskFits

\* The stage reported for a step that threw: of a refusal of the sources, the
\* one that setup left.
Reported(step) == IF step = "dispatch" THEN "model_load" ELSE StageOf(step)

\* The stage on record is the one the next untimed step would be blamed on; a
\* throw has recorded its own by the time it is caught.
Blamed ==
  /\ pc = "labels" => report.stage = "configuration"
  /\ pc \in {"task", "dispatch"} => report.stage = "model_load"
  /\ pc = "image_bytes" => report.stage = "source"
  /\ pc = "caught" => report.stage = Reported(fault)
  /\ pc # "done" => report.failure = NoFailure
  /\ pc \notin {"caught", "done"} => fault = "none"
  /\ pc = "caught" => fault # "none"
  /\ pc = "done" => report.failure = IF fault = "none" THEN NoFailure ELSE Reported(fault)

\* Timing is suspended during repeated inference, and then only.
Suspended == report.suspended = IF pc \in {"warmup", "benchmark"} THEN 1 ELSE 0

\* The stages timed for a sample that has not been counted yet.
InHand ==
  IF pc \in RenderPC THEN PerSample \ {"render"}
  ELSE IF pc \in SamplePC THEN PerSample
  ELSE {}

TimesMatch ==
  \A s \in PerSample :
    \/ report.ms[s] = report.samples + (IF s \in InHand THEN 1 ELSE 0)
    \/ fault # "none" /\ report.ms[s] = report.samples + 1

\* Samples of the run that are through, the one about to be counted included.
Rendered == IF pc \in SamplePC THEN report.samples + 1 ELSE report.samples

Inferred == IF pc \in RenderPC THEN report.samples + 1 ELSE Rendered

\* One image run is one sample; each flow pair is a file of its own.
Written ==
  /\ ImageRun => \/ Rendered = 0 /\ artifacts = {}
                 \/ Rendered = 1 /\ \E place \in Place : artifacts = {<<place, 1>>}
  /\ FlowRun => artifacts = {<<"flow", i>> : i \in 1 .. Rendered}
  /\ ~ImageRun /\ ~FlowRun => artifacts = {}
  /\ ~ImageRun /\ ~FlowRun /\ ~TextRun => report.samples = 0

RunRequests == {q \in requests : q[1] = "run"}

\* The pair in hand is the next to be counted, and has a second source.
PairInHand ==
  /\ pc \notin FlowPC \cup {"caught", "done"} => pair = 1
  /\ ~FlowRun => pair = 1
  /\ pc \in FlowPC => pair = report.samples + 1 /\ pair < Len(o.sources)

\* What the run has asked of the model, failed runs apart.
AskedSoFar ==
  fault = "none" =>
    /\ ImageRun =>
         RunRequests = IF Inferred = 0 THEN {}
                       ELSE {<<"run", IF o.encoded THEN "file" ELSE "decoded", 1>>}
    /\ FlowRun => RunRequests = {<<"run", "pair", i>> : i \in 1 .. Inferred}
    /\ TextRun =>
         RunRequests = IF Inferred = 0 THEN {}
                       ELSE {<<"run", IF o.sources = <<>> THEN "none" ELSE "decoded", 1>>}
    /\ o.export_metadata => RunRequests = {}

\* A run that ended well has been through all it was to do.
EndedWell ==
  pc = "done" /\ fault = "none" =>
    \/ o.export_metadata
    \/ ImageRun /\ report.samples = 1
    \/ FlowRun /\ report.samples = Len(o.sources) - 1
    \/ TextRun /\ report.samples = 1

\* The image in hand, and what it is sent as.
ImageInHand ==
  /\ pc \in {"image_bytes", "warmup", "image_inputs", "image_infer", "image_render"} =>
       image = "decoded"
  /\ pc = "text_read" => image = "none"
  /\ pc = "text_infer" => image = IF o.sources = <<>> THEN "none" ELSE "decoded"

\* Rounds that were asked for have been asked of the model.
Repeated ==
  /\ pc \notin {"warmup", "benchmark", "caught", "done"} => round = 0
  /\ pc = "warmup" /\ round > 0 => Asks("warmup")
  /\ pc = "benchmark" /\ round > 0 => Asks("benchmark")
  /\ o.warmup /\ WarmupRounds > 0 =>
       /\ pc \in {"image_inputs", "image_infer", "image_render", "image_sample",
                  "benchmark"} => Asks("warmup")
       /\ pc = "done" /\ fault = "none" => Asks("warmup")
  /\ o.benchmark /\ o.iterations > 0 /\ pc = "done" /\ fault = "none" => Asks("benchmark")

\* How many samples there are at most, where there is no loop.
Counted ==
  /\ pc \in {"image_read", "image_bytes", "warmup", "image_inputs", "image_infer", "image_render",
             "image_sample", "text_read", "text_infer", "text_render",
             "text_sample", "frames"} => report.samples = 0
  /\ pc = "benchmark" => report.samples = 1

RunInv ==
  /\ TypeOK /\ OnPath /\ Fresh /\ Fitted /\ Blamed /\ Suspended /\ TimesMatch /\ Written
  /\ PairInHand /\ AskedSoFar /\ EndedWell /\ ImageInHand /\ Repeated /\ Counted
  /\ EncodedPayloadIsTheFile
=============================================================================
