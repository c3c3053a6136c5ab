------------------------------- MODULE Arguments -------------------------------
(***************************************************************************)
(* Which combinations of options CommandLineParser accepts                 *)
(* (app/src/CommandLineParser.cpp), and which task a model type means      *)
(* (app/src/NeuriploInferTaskRouting.cpp).                                 *)
(*                                                                         *)
(* A model type stands for every name that routing and the rules treat     *)
(* alike; a source is a still image or not, by its extension.  Left out    *)
(* are the options no later step depends on (paths that must exist, batch, *)
(* input sizes, tokenizers), and the build: it has KServe, local backends  *)
(* and the video writer.                                                   *)
(***************************************************************************)
EXTENDS Naturals, Sequences

CONSTANTS
  MaxSources,     \* bound: sources on a command line
  MaxIterations   \* bound: --iterations

ASSUME ArgumentsAssumption == MaxSources \in Nat /\ MaxIterations \in Nat

ModelType == {"yolo", "yoloseg", "resnet", "videomae", "raft", "owlvit", "gemma"}

\* getTaskTypeForModel.
TaskOf(type) ==
  CASE type = "videomae" -> "VideoClassification"
    [] type = "resnet"   -> "Classification"
    [] type = "yoloseg"  -> "InstanceSegmentation"
    [] type = "raft"     -> "OpticalFlow"
    [] type = "owlvit"   -> "OpenVocabDetection"
    [] type = "gemma"    -> "ImageUnderstanding"
    [] OTHER             -> "Detection"

SourceList == UNION {[1 .. n -> {"still", "moving"}] : n \in 0 .. MaxSources}

\* segmentation_output: "default" when the option was not given.
Options ==
  [type            : ModelType,
   sources         : SourceList,
   warmup          : BOOLEAN,
   benchmark       : BOOLEAN,
   iterations      : 0 .. MaxIterations,
   export_metadata : BOOLEAN,
   timings_csv     : BOOLEAN,
   output_video    : BOOLEAN,
   kserve_endpoint : BOOLEAN,
   encoded         : BOOLEAN,   \* --input_mode=encoded-image
   task_model      : BOOLEAN,
   gpu             : BOOLEAN,   \* --postprocess_mode=gpu
   thresholds      : BOOLEAN,   \* --nms_threshold or --mask_threshold given
   segmentation_output : {"default", "mask", "polygon"}]

\* is_text_task: the parser's own list of names.
IsText(o) == o.type = "gemma"

AnyStill(o) == \E i \in DOMAIN o.sources : o.sources[i] = "still"

AllStill(o) == o.sources # <<>> /\ \A i \in DOMAIN o.sources : o.sources[i] = "still"

FrameLoopRun(o) ==
  o.sources # <<>> /\ ~AnyStill(o) /\ ~IsText(o) /\ ~o.export_metadata

\* Mutant: any still image will do.
SingleImageRun_AnyStill(o) == AnyStill(o) /\ ~IsText(o) /\ ~o.export_metadata

SingleImageRun(o) ==
  Len(o.sources) = 1 /\ AllStill(o) /\ ~IsText(o) /\ ~o.export_metadata

-----------------------------------------------------------------------------
\* validateArguments: something to run on.
SourceRules(o) == o.sources # <<>> \/ IsText(o) \/ o.export_metadata

\* validateArguments: --output_video only where frames go.
OutputVideoRules(o) ==
  o.output_video =>
    ~o.export_metadata /\ ~IsText(o) /\ o.sources # <<>> /\ ~AnyStill(o)

EnsembleRules(o) ==
  /\ o.encoded => o.kserve_endpoint /\ o.task_model
  /\ o.gpu => o.encoded

\* validateRunModes: what only some run modes honour is refused in the others.
RunModeRules(o) ==
  /\ o.timings_csv => FrameLoopRun(o)
  /\ o.warmup \/ o.benchmark => SingleImageRun(o)
  /\ IsText(o) => o.sources = <<>> \/ (Len(o.sources) = 1 /\ AllStill(o))
  /\ o.task_model => o.encoded
  /\ o.gpu => ~o.thresholds

\* What validateArguments and validateRunModes both let through.
Accepts(o) ==
  SourceRules(o) /\ OutputVideoRules(o) /\ EnsembleRules(o) /\ RunModeRules(o)
=============================================================================
