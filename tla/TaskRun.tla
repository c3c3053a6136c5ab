-------------------------------- MODULE TaskRun --------------------------------
(***************************************************************************)
(* A run from accepted options to its end: InferencePipelineBuilder::build *)
(* (app/src/InferencePipeline.cpp), RunInferenceCommand's dispatch, and    *)
(* the still-image, optical-flow and image-understanding runs with their   *)
(* warmup and benchmark (app/src/CLICommands.cpp).  A run dispatched to a  *)
(* frame loop is handed over to FrameLoop.                                 *)
(*                                                                         *)
(* The run is sequential and meets what it does not control: a backend or  *)
(* a server whose model may be any, files that cannot be read or written,  *)
(* and a task that may throw at every step.                                *)
(***************************************************************************)
EXTENDS Arguments, FiniteSets, RunReport

CONSTANT WarmupRounds  \* five in the code

ASSUME TaskRunAssumption == WarmupRounds \in Nat

VARIABLES
  o,          \* the accepted options
  pc,         \* the next step
  served,     \* what the backend or the server says of its model
  round,      \* warmup or benchmark rounds done
  pair,       \* the optical-flow pair in hand
  image,      \* what the loaded image shows
  requests,   \* history: <<purpose, payload, pair>> of every inference request
  artifacts,  \* history: <<place, pair>> of every image written
  report,     \* the run report
  fault       \* history: the step that threw, or "none"

vars == <<o, pc, served, round, pair, image, requests, artifacts, report, fault>>

PC == {"labels", "backend", "task", "dispatch", "export",
       "image_read", "image_bytes", "warmup", "image_inputs", "image_infer",
       "image_render", "image_sample", "benchmark",
       "flow_read", "flow_infer", "flow_render", "flow_sample",
       "text_read", "text_infer", "text_render", "text_sample",
       "frames", "caught", "done"}

InferenceFault == {"preprocess", "inference", "postprocess"}

\* The steps that can throw; "dispatch" refuses the sources.
Fault == {"labels", "backend", "task", "dispatch", "read", "inputs", "render"}
         \cup InferenceFault

Envelope == {"none", "detection", "mask", "polygon"}

\* image: one UINT8 input named IMAGE; envelope: the decoded result it
\* declares; complete: with all its outputs; passthrough: its leading outputs
\* are the inner model's; dense: the image input is FP32 or UINT8.
ServedModel == [image : BOOLEAN, envelope : Envelope, complete : BOOLEAN,
                passthrough : BOOLEAN, dense : BOOLEAN]

\* What is looked at of a model that is fed tensors.
PlainModel == {m \in ServedModel :
                 ~m.image /\ m.envelope = "none" /\ ~m.complete /\ ~m.passthrough}

Unknown == [image |-> FALSE, envelope |-> "none", complete |-> FALSE,
            passthrough |-> FALSE, dense |-> FALSE]

\* The bytes of the file, or pixels: as decoded, drawn on, or of two images.
Payload == {"file", "decoded", "drawn", "pair", "none"}

\* WarmupCommand, the run itself, BenchmarkCommand.
Purpose == {"warmup", "run", "benchmark"}

Place == {"primary", "fallback", "flow"}

\* Types; a pair about to be read is a pair of sources.
TypeOK ==
  /\ o \in Options
  /\ pc \in PC
  /\ served \in ServedModel
  /\ round \in Nat
  /\ pair \in Nat
  /\ pc = "flow_read" => {pair, pair + 1} \subseteq DOMAIN o.sources
  /\ image \in {"none", "decoded", "drawn"}
  /\ requests \subseteq Purpose \X Payload \X Nat
  /\ artifacts \subseteq Place \X Nat
  /\ report \in Report
  /\ fault \in Fault \cup {"none"}

Init ==
  /\ o \in Options
  /\ Accepts(o)
  /\ pc = "labels"
  /\ served = Unknown
  /\ round = 0
  /\ pair = 1
  /\ image = "none"
  /\ requests = {}
  /\ artifacts = {}
  /\ report = NewReport
  /\ fault = "none"

-----------------------------------------------------------------------------
Step(from, to) == pc = from /\ pc' = to /\ UNCHANGED fault

\* What throws is caught by NeuriploInfer::run.
Throws(from, step) == pc = from /\ pc' = "caught" /\ fault' = step

runVars == <<round, pair, image, requests, artifacts>>

Task == TaskOf(o.type)

(***************************************************************************)
(* build().                                                                *)
(***************************************************************************)
LoadLabels ==
  /\ Step("labels", "backend") \/ Throws("labels", "labels")
  /\ UNCHANGED <<o, served, runVars, report>>

\* setupBackend; a throw leaves the timer running out at this stage.
SetupBackend ==
  /\ \/ /\ Step("backend", "task")
        /\ report' = BeginStage(report, "model_load")
        /\ served' \in IF o.encoded THEN ServedModel ELSE PlainModel
     \/ /\ Throws("backend", "backend")
        /\ report' = Timed(report, "model_load", 1)
        /\ UNCHANGED served
  /\ UNCHANGED <<o, runVars>>

\* The result type of an envelope is the one the task draws.
requireEnvelopeMatchesTask ==
  Task = IF served.envelope = "detection" THEN "Detection"
                                          ELSE "InstanceSegmentation"

\* And an explicit --segmentation_output is the form of its masks.
requireServerPostprocessMatchesTask ==
  /\ requireEnvelopeMatchesTask
  /\ served.envelope = "mask" => o.segmentation_output # "polygon"
  /\ served.envelope = "polygon" => o.segmentation_output # "mask"

\* Only a task that sends its input through inferFrame sends encoded bytes.
requireEncodedImageSupport ==
  Task \notin {"VideoClassification", "OpticalFlow", "ImageUnderstanding",
               "OpenVocabDetection"}

\* Mutant: the envelope is not held against the task.
TaskFits_AnyEnvelope ==
  IF ~o.encoded THEN served.dense
  ELSE /\ served.image
       /\ IF o.gpu THEN served.envelope # "none" /\ served.complete
                   ELSE served.passthrough
       /\ requireEncodedImageSupport

\* setupTask lets this model and this task through.
TaskFits ==
  IF ~o.encoded THEN served.dense
  ELSE /\ served.image
       /\ IF o.gpu
          THEN /\ served.envelope # "none"
               /\ served.complete
               /\ requireServerPostprocessMatchesTask
          ELSE served.passthrough
       /\ requireEncodedImageSupport

\* The metadata may be out of reach, the task impossible to make.
SetupTask ==
  /\ \/ TaskFits /\ Step("task", IF o.export_metadata THEN "export" ELSE "dispatch")
     \/ Throws("task", "task")
  /\ report' = AddStageMs(report, "model_load", 1)
  /\ UNCHANGED <<o, served, runVars>>

ExportMetadata ==
  /\ Step("export", "done")
  /\ UNCHANGED <<o, served, runVars, report>>

\* RunInferenceCommand::execute.
Dispatch ==
  /\ IF Task = "ImageUnderstanding" THEN Step("dispatch", "text_read")
     ELSE IF AnyStill(o)
     THEN IF Len(o.sources) = 1 THEN Step("dispatch", "image_read")
          ELSE IF Task = "OpticalFlow" THEN Step("dispatch", "flow_read")
          ELSE Throws("dispatch", "dispatch")
     ELSE IF Len(o.sources) = 1 THEN Step("dispatch", "frames")
     ELSE Throws("dispatch", "dispatch")
  /\ UNCHANGED <<o, served, runVars, report>>

(***************************************************************************)
(* inferFrame, and the same three stages where they are spelled out.  The  *)
(* server preprocesses an encoded image.                                   *)
(***************************************************************************)
TimedThrough(r, stage) ==
  LET pre  == IF o.encoded THEN r ELSE Timed(r, "preprocess", 1)
      inf  == Timed(pre, "inference", 1)
      post == Timed(inf, "postprocess", 1)
  IN  CASE stage = "preprocess"  -> pre
        [] stage = "inference"   -> inf
        [] stage = "postprocess" -> post

Stages == IF o.encoded THEN InferenceFault \ {"preprocess"} ELSE InferenceFault

\* A request is sent once preprocessing is through.
Asked(purpose, payload, stage) ==
  requests' = IF stage = "preprocess" THEN requests
              ELSE requests \cup {<<purpose, payload, pair>>}

\* One request that succeeds, or throws in one of its stages.
Infer(from, to, purpose, payload) ==
  \/ /\ Step(from, to)
     /\ report' = TimedThrough(report, "postprocess")
     /\ Asked(purpose, payload, "postprocess")
  \/ \E stage \in Stages :
       /\ Throws(from, stage)
       /\ report' = TimedThrough(report, stage)
       /\ Asked(purpose, payload, stage)

\* Encoded, the file's own bytes; otherwise the image as it is now.
SourcePayload == IF o.encoded THEN "file" ELSE image

(***************************************************************************)
(* processImage.                                                           *)
(***************************************************************************)
ReadImage ==
  /\ \/ /\ Step("image_read", "image_bytes")
        /\ image' = "decoded"
     \/ Throws("image_read", "read") /\ UNCHANGED image
  /\ report' = Timed(report, "source", 1)
  /\ UNCHANGED <<o, served, round, pair, requests, artifacts>>

\* Mutant: repeated inference is timed like the run's own.
BeginRepeat_Timed(r) == r

\* TimingSuspension: what is repeated produces nothing, so nothing is timed.
BeginRepeat(r) == SuspendTiming(r)

\* The file's bytes, in encoded mode; then warmup.
ReadBytes ==
  /\ \/ /\ Step("image_bytes", IF o.warmup THEN "warmup" ELSE "image_inputs")
        /\ report' = IF o.warmup THEN BeginRepeat(report) ELSE report
     \/ /\ o.encoded
        /\ Throws("image_bytes", "read")
        /\ UNCHANGED report
  /\ UNCHANGED <<o, served, runVars>>

\* One round of a command that repeats inference: its suspension is lifted
\* when the rounds are over and when one of them throws.
Repeat(here, rounds, there, purpose, payload) ==
  /\ pc = here
  /\ IF round >= rounds
     THEN /\ Step(here, there)
          /\ round' = 0
          /\ report' = ResumeTiming(report)
          /\ UNCHANGED requests
     ELSE \/ /\ Step(here, here)
             /\ round' = round + 1
             /\ report' = TimedThrough(report, "postprocess")
             /\ Asked(purpose, payload, "postprocess")
          \/ \E stage \in Stages :
               /\ Throws(here, stage)
               /\ report' = ResumeTiming(TimedThrough(report, stage))
               /\ Asked(purpose, payload, stage)
               /\ UNCHANGED round
  /\ UNCHANGED <<o, served, pair, image, artifacts>>

Warmup == Repeat("warmup", WarmupRounds, "image_inputs", "warmup", SourcePayload)

\* Mutant: the work between warmup and inference is not attributed.
CheckInputs_Unattributed ==
  /\ Step("image_inputs", "image_infer") \/ Throws("image_inputs", "inputs")
  /\ UNCHANGED <<o, served, runVars, report>>

\* attributeTo(preprocess), untimed: the model must have an image input.
CheckInputs ==
  /\ Step("image_inputs", "image_infer") \/ Throws("image_inputs", "inputs")
  /\ report' = BeginStage(report, "preprocess")
  /\ UNCHANGED <<o, served, runVars>>

InferImage ==
  /\ Infer("image_infer", "image_render", "run", SourcePayload)
  /\ UNCHANGED <<o, served, round, pair, image, artifacts>>

\* Drawing, and writing to data/output or else to /tmp.
RenderImage ==
  /\ \/ /\ Step("image_render", "image_sample")
        /\ \E place \in {"primary", "fallback"} : artifacts' = artifacts \cup {<<place, pair>>}
     \/ Throws("image_render", "render") /\ UNCHANGED artifacts
  /\ image' = "drawn"
  /\ report' = Timed(report, "render", 1)
  /\ UNCHANGED <<o, served, round, pair, requests>>

ImageSample(r) == AddSample(r)

\* The sample; then the benchmark.
SampleImage ==
  /\ Step("image_sample", IF o.benchmark THEN "benchmark" ELSE "done")
  /\ report' = IF o.benchmark THEN BeginRepeat(ImageSample(report))
                              ELSE ImageSample(report)
  /\ UNCHANGED <<o, served, runVars>>

\* Mutant: the benchmark is given the image alone.
BenchmarkPayload_Image == image

BenchmarkPayload == SourcePayload

Benchmark == Repeat("benchmark", o.iterations, "done", "benchmark", BenchmarkPayload)

(***************************************************************************)
(* processOpticalFlow: one iteration per pair of neighbouring sources.     *)
(***************************************************************************)
\* Both images of the pair; a moving source cannot be read as an image.
ReadPair ==
  /\ \/ /\ Step("flow_read", "flow_infer")
        /\ {o.sources[pair], o.sources[pair + 1]} = {"still"}
     \/ Throws("flow_read", "read")
  /\ report' = Timed(report, "source", 1)
  /\ UNCHANGED <<o, served, runVars>>

InferPair ==
  /\ Infer("flow_infer", "flow_render", "run", "pair")
  /\ UNCHANGED <<o, served, round, pair, image, artifacts>>

\* Mutant: one name for every pair.
FlowFile_Fixed(i) == 1

FlowFile(i) == i

RenderPair ==
  /\ \/ /\ Step("flow_render", "flow_sample")
        /\ artifacts' = artifacts \cup {<<"flow", FlowFile(pair)>>}
     \/ Throws("flow_render", "render") /\ UNCHANGED artifacts
  /\ report' = Timed(report, "render", 1)
  /\ UNCHANGED <<o, served, round, pair, image, requests>>

\* The loop's condition, of the pair after this one.
MorePairs == pair + 1 < Len(o.sources)

SamplePair ==
  /\ Step("flow_sample", IF MorePairs THEN "flow_read" ELSE "done")
  /\ pair' = pair + 1
  /\ report' = AddSample(report)
  /\ UNCHANGED <<o, served, round, image, requests, artifacts>>

(***************************************************************************)
(* processImageUnderstanding: with one image, or with the prompt alone.    *)
(***************************************************************************)
\* Mutant: an image that cannot be read is answered from the prompt alone.
ReadPrompt_Quiet ==
  /\ Step("text_read", "text_infer")
  /\ image' \in IF o.sources = <<>> THEN {image} ELSE {image, "decoded"}
  /\ report' = Timed(report, "source", 1)
  /\ UNCHANGED <<o, served, round, pair, requests, artifacts>>

ReadPrompt ==
  /\ \/ /\ Step("text_read", "text_infer")
        /\ image' = IF o.sources = <<>> THEN image ELSE "decoded"
     \/ /\ o.sources # <<>>
        /\ Throws("text_read", "read")
        /\ UNCHANGED image
  /\ report' = Timed(report, "source", 1)
  /\ UNCHANGED <<o, served, round, pair, requests, artifacts>>

InferPrompt ==
  /\ Infer("text_infer", "text_render", "run", image)
  /\ UNCHANGED <<o, served, round, pair, image, artifacts>>

RenderAnswer ==
  /\ Step("text_render", "text_sample") \/ Throws("text_render", "render")
  /\ report' = Timed(report, "render", 1)
  /\ UNCHANGED <<o, served, runVars>>

SampleAnswer ==
  /\ Step("text_sample", "done")
  /\ report' = AddSample(report)
  /\ UNCHANGED <<o, served, runVars>>

-----------------------------------------------------------------------------
\* NeuriploInfer::run: the stage the run had reached is the one that failed.
Catch ==
  /\ Step("caught", "done")
  /\ report' = Fail(report, report.stage)
  /\ UNCHANGED <<o, served, runVars>>

Ended == pc \in {"frames", "done"} /\ UNCHANGED vars

Next ==
  \/ LoadLabels \/ SetupBackend \/ SetupTask \/ ExportMetadata \/ Dispatch
  \/ ReadImage \/ ReadBytes \/ Warmup \/ CheckInputs \/ InferImage
  \/ RenderImage \/ SampleImage \/ Benchmark
  \/ ReadPair \/ InferPair \/ RenderPair \/ SamplePair
  \/ ReadPrompt \/ InferPrompt \/ RenderAnswer \/ SampleAnswer
  \/ Catch \/ Ended

Spec == Init /\ [][Next]_vars

-----------------------------------------------------------------------------
(***************************************************************************)
(* Properties.                                                             *)
(***************************************************************************)
Succeeded == pc = "done" /\ report.failure = NoFailure

\* The steps that run while the stage on record is their own, in a timer, behind
\* an attributeTo or right after either: all but the refusal of the sources.
Attributed == Fault \ {"dispatch"}

\* The stage an operator would look for the fault of such a step in.
StageOf(step) ==
  CASE step = "labels"              -> "configuration"
    [] step \in {"backend", "task"} -> "model_load"
    [] step = "read"                -> "source"
    [] step = "inputs"              -> "preprocess"
    [] OTHER                        -> step

\* A run has failed exactly when one of its steps threw, and its report names
\* the stage of that step whatever ran before: the stage of a warmup round or
\* of an earlier pair is never left standing.  Of one failure this is not
\* said: execute refuses sources it has no run for outside every stage, and
\* the report names the stage setup ended in.
\* (StageTimer and attributeTo along every path; NeuriploInfer::run.)
FailureNamesItsStage ==
  pc = "done" =>
    /\ (report.failure = NoFailure) <=> (fault = "none")
    /\ fault \in Attributed => report.failure = StageOf(fault)

\* Stages whose intervals are summed next to the samples.
PerSample == {"inference", "postprocess", "render"}
             \cup (IF o.encoded THEN {} ELSE {"preprocess"})

\* The report never holds an interval without its sample, but for the sample
\* in hand; a successful run holds one of each stage for every sample.  So
\* neither warmup nor the benchmark leaves a trace in what the throughput is
\* computed from, and the inference after a warmup is timed again.
\* (TimingSuspension in WarmupCommand and BenchmarkCommand.)
TimesMatchSamples ==
  /\ \A s \in PerSample :
       report.ms[s] \in {report.samples, report.samples + 1}
  /\ Succeeded => \A s \in PerSample : report.ms[s] = report.samples

\* What the run itself must ask of the model, by its sources.
Wanted ==
  IF o.export_metadata THEN {}
  ELSE IF Task = "ImageUnderstanding"
  THEN {<<"run", IF o.sources = <<>> THEN "none" ELSE "decoded", 1>>}
  ELSE IF Len(o.sources) = 1
  THEN {<<"run", IF o.encoded THEN "file" ELSE "decoded", 1>>}
  ELSE {<<"run", "pair", i>> : i \in 1 .. Len(o.sources) - 1}

\* A successful run has put every source it was given to the model: none is
\* skipped because it could not be read, and no prompt is answered without
\* the image it came with.
\* (imread checks of processImage, processOpticalFlow and
\* processImageUnderstanding.)
NoSourceIsSkipped ==
  Succeeded => {q \in requests : q[1] = "run"} = Wanted

\* Every sample of a run over images is an image of its own on disk: no pair
\* overwrites the flow of another and none is counted without its file.
\* (imwrite and addSample in processImage and processOpticalFlow.)
SamplesHaveArtifacts ==
  Task # "ImageUnderstanding" =>
    /\ report.samples <= Cardinality(artifacts)
    /\ Succeeded => report.samples = Cardinality(artifacts)

\* In encoded-image mode warmup, run and benchmark send one payload, the
\* source file's own bytes, although the image is drawn on in between.
\* (source_bytes in processImage; inferFrame.)
EncodedPayloadIsTheFile ==
  o.encoded => \A q \in requests : q[2] = "file"

Asks(purpose) == \E q \in requests : q[1] = purpose

\* No accepted flag is dropped in silence.  A successful run has done the
\* warmup and the benchmark rounds it was asked for and was not asked for
\* the artifacts only a frame loop writes; a frame loop is entered with one
\* moving source and without warmup, benchmark or prompt.
\* (validateArguments and validateRunModes against RunInferenceCommand.)
FlagsAreHonoured ==
  /\ Succeeded =>
       /\ ~o.timings_csv /\ ~o.output_video
       /\ o.warmup /\ WarmupRounds > 0 => Asks("warmup")
       /\ o.benchmark /\ o.iterations > 0 => Asks("benchmark")
  /\ pc = "frames" =>
       /\ o.sources = <<"moving">>
       /\ ~o.warmup /\ ~o.benchmark /\ ~IsText(o)

\* What decodeEnvelope returns, by the envelope the ensemble declares.
Decoded ==
  [result |-> IF served.envelope = "detection" THEN "Detection"
                                               ELSE "InstanceSegmentation",
   form   |-> served.envelope]

\* Encoded bytes reach only a model that takes them, and what the server
\* postprocessed is what this run's renderer draws, in the form the operator
\* asked for: a mismatch decodes well and draws nothing.
\* (setupTask's validations, by the time inferFrame and renderResults run.)
ServerFitsTheRun ==
  o.encoded /\ requests # {} =>
    /\ served.image
    /\ o.gpu  => /\ Decoded.result = Task
                 /\ o.segmentation_output = "default" \/ Task = "Detection"
                      \/ Decoded.form = o.segmentation_output
    /\ ~o.gpu => served.passthrough

\* Refuted: "encoded_source: ... so warmup and benchmark send the same payload
\* as the real request. Empty for every other mode, where the decoded image is
\* what gets sent." (app/inc/CLICommands.hpp:14-16)
DecodedImageIsSent ==
  ~o.encoded => \A q \in requests : q[1] = "benchmark" => q[2] = "decoded"
=============================================================================
