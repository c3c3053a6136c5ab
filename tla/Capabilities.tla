----------------------------- MODULE Capabilities -----------------------------
(***************************************************************************)
(* What --capabilities tells a consumer it may ask for: the tasks with     *)
(* their models, sources and parameters, the ways to execute them and the  *)
(* values a parameter takes (app/src/Capabilities.cpp).  The document      *)
(* depends on the build; of it, local backends and KServe are in.          *)
(*                                                                         *)
(* Model names are sequences of words (TaskRouting).  A parameter goes by  *)
(* its flag, and thresholds are in hundredths.                             *)
(***************************************************************************)
EXTENDS Integers, TaskRouting


Unbounded == 1000000   \* max_items of -1, and no "maximum"

Local == "local"

ClientServer == "client_server"

Workflow == {Local, ClientServer}

WorkflowRequired(workflow) ==
  IF workflow = Local THEN {"weights"} ELSE {"kserve_endpoint"}

WorkflowOptional(workflow) ==
  IF workflow = Local THEN {"use-gpu", "warmup", "benchmark", "iterations"}
  ELSE {"kserve_model_name", "kserve_model_version", "kserve_transport",
        "kserve_timeout_ms", "input_mode", "task_model", "task_model_version",
        "postprocess_mode", "benchmark", "iterations"}

\* The enums, and the numbers with a least or a greatest value.
Values(build, p) ==
  CASE p = "segmentation_output" -> {"mask", "polygon"}
    [] p = "kserve_transport"    -> {"http"} \cup (IF build.grpc THEN {"grpc"} ELSE {})
    [] p = "input_mode"          -> {"preprocessed", "encoded-image"}
    [] p = "postprocess_mode"    -> {"cpu", "gpu"}

Enum == {"segmentation_output", "kserve_transport", "input_mode", "postprocess_mode"}

Minimum(p) ==
  IF p \in {"batch", "iterations", "kserve_timeout_ms"} THEN 1 ELSE 0

Maximum(p) ==
  IF p \in {"min_confidence", "nms_threshold", "mask_threshold"} THEN 100 ELSE Unbounded

Ranged == {"batch", "iterations", "num_frames", "kserve_timeout_ms",
           "min_confidence", "nms_threshold", "mask_threshold"}

-----------------------------------------------------------------------------
Task == {"object_detection", "instance_segmentation", "classification",
         "video_classification", "optical_flow", "pose_estimation",
         "depth_estimation", "open_vocabulary_detection", "image_understanding",
         "gaussian_splatting"}

\* The task type that goes by this name in the program.
TypeOfTask(task) ==
  CASE task = "object_detection"          -> "Detection"
    [] task = "instance_segmentation"     -> "InstanceSegmentation"
    [] task = "classification"            -> "Classification"
    [] task = "video_classification"      -> "VideoClassification"
    [] task = "optical_flow"              -> "OpticalFlow"
    [] task = "pose_estimation"           -> "PoseEstimation"
    [] task = "depth_estimation"          -> "DepthEstimation"
    [] task = "open_vocabulary_detection" -> "OpenVocabDetection"
    [] task = "image_understanding"       -> "ImageUnderstanding"
    [] task = "gaussian_splatting"        -> "GaussianSplatting"

\* The ids and aliases of a task's models.
Selectors(task) ==
  CASE task = "object_detection" ->
         {<<"yolo">>, <<"yolo", "v4">>, <<"yolo", "v7e2e">>, <<"yolo", "v10">>,
          <<"yolo", "26">>, <<"yolo", "nas">>, <<"rtdetr">>, <<"rtdetr", "v2">>,
          <<"rtdetr", "ul">>, <<"rtdetr", "ultralytics">>, <<"dfine">>, <<"deim">>,
          <<"deim", "v2">>, <<"rfdetr">>, <<"ec", "det">>, <<"edgecrafter">>,
          <<"edgecrafter", "-", "det">>}
    [] task = "instance_segmentation" ->
         {<<"yolo", "seg">>, <<"yolo", "-", "seg">>, <<"yolo", "v8", "-", "seg">>,
          <<"yolo", "v10", "seg">>, <<"yolo", "26", "seg">>, <<"rfdetr", "seg">>,
          <<"ec", "seg">>}
    [] task = "classification" ->
         {<<"torchvision", "-", "classifier">>, <<"tensorflow", "-", "classifier">>,
          <<"vit", "-", "classifier">>}
    [] task = "video_classification" -> {<<"videomae">>, <<"vivit">>, <<"timesformer">>}
    [] task = "optical_flow" -> {<<"raft">>}
    [] task = "pose_estimation" ->
         {<<"vit", "pose">>, <<"ec", "pose">>}
           \cup {<<"yolo", v, "pose">> : v \in {"v8", "11", "26", "v5"}}
           \cup {<<"yolo", v, "-", "pose">> : v \in {"v8", "11", "26", "v5"}}
           \cup {<<"rfdetr", p>> : p \in {"pose", "keypoint", "kpt"}}
           \cup {<<"rfdetr", "-", p>> : p \in {"pose", "keypoint", "kpt"}}
    [] task = "depth_estimation" ->
         {<<"depth", "_", "anything", "_", "v2">>, <<"depth", "-", "anything", "-", "v2">>,
          <<"yolo", "-", "depth">>, <<"yolo", "26n", "-", "depth">>}
    [] task = "open_vocabulary_detection" -> {<<"owlv2">>, <<"owlvit">>, <<"groundingdino">>}
    [] task = "image_understanding" ->
         {<<"gemma", "4">>, <<"gemma">>, <<"llama">>, <<"llamacpp">>,
          <<"imageunderstanding">>}
    [] task = "gaussian_splatting" ->
         {<<"lgm">>, <<"lgm", "-", "mini">>, <<"grm">>, <<"gaussian", "splat", "ting">>}

ModelRequired(name) ==
  CASE name \in {<<"owlv2">>, <<"owlvit">>} ->
         {"text_prompts", "tokenizer_vocab", "tokenizer_merges"}
    [] name = <<"groundingdino">> -> {"text_prompts", "bert_tokenizer_vocab"}
    [] OTHER -> {}

SourceTypes(task) ==
  CASE task = "video_classification" -> {"video"}
    [] task \in {"optical_flow", "image_understanding", "gaussian_splatting"} -> {"image"}
    [] OTHER -> {"image", "video"}

MinSources(task) ==
  CASE task = "optical_flow"        -> 2
    [] task = "image_understanding" -> 0
    [] OTHER                        -> 1

MaxSources(task) == IF task = "optical_flow" THEN Unbounded ELSE 1

\* withVideoRunParameters.
VideoRun(build) ==
  {"timings_csv", "no_display"} \cup (IF build.writer THEN {"output_video"} ELSE {})

\* Mutant: optical flow, which has frames, is offered what frame loops read.
RunsFrames_Flow(task) == task \notin {"gaussian_splatting", "image_understanding"}

\* The tasks whose parameters are withVideoRunParameters.
RunsFrames(task) ==
  task \notin {"optical_flow", "gaussian_splatting", "image_understanding"}

\* The parameters of the task, and of its model.
TaskOptional(build, task) ==
  (IF RunsFrames(task) THEN VideoRun(build) ELSE {})
    \cup CASE task \in {"optical_flow", "gaussian_splatting"} -> {"input_sizes"}
           [] task = "image_understanding"  -> {"prompt", "input_sizes", "mmproj"}
           [] task = "classification"       -> {"labels", "batch", "input_sizes"}
           [] task = "video_classification" -> {"labels", "num_frames", "batch", "input_sizes"}
           [] task = "depth_estimation"     -> {"batch", "input_sizes"}
           [] task = "open_vocabulary_detection" ->
                {"min_confidence", "nms_threshold", "batch", "input_sizes"}
           [] task \in {"object_detection", "pose_estimation"} ->
                {"labels", "min_confidence", "nms_threshold", "batch", "input_sizes"}
           [] task = "instance_segmentation" ->
                {"labels", "min_confidence", "nms_threshold", "mask_threshold",
                 "segmentation_output", "batch", "input_sizes"}
=============================================================================
