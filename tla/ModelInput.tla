------------------------------ MODULE ModelInput ------------------------------
(***************************************************************************)
(* How the input shapes and datatypes a KServe model advertises become the *)
(* task's ModelInfo (setupTask, buildModelInfo, setInputFormat and         *)
(* inputDatatypes in app/src/InferencePipeline.cpp, taskInputShape and     *)
(* applyInputDatatypes in app/src/ModelInputTypes.cpp), and how the        *)
(* tensors the task then prepares are shaped and labelled for the wire     *)
(* (get_infer_results, with the operators of TensorBytes).  --input_sizes  *)
(* acts on both ends, and each end reads it its own way.                   *)
(*                                                                         *)
(* One picture, or one clip, is prepared and sent.                         *)
(*                                                                         *)
(* No name here is one of KserveEngine's, whose lemmas about the sizing    *)
(* rules this module shares in KserveEngineProofs.                         *)
(***************************************************************************)
EXTENDS TensorBytes

CONSTANTS
  PictureModels,  \* [inputs, layout]: what a server advertises, a sequence of
                  \* [shape, datatype], and how it reads its image inputs
  PictureSizes,   \* values of --input_sizes: one sequence for each input
  TaskExtents     \* extents a task may pick for an axis ModelInfo leaves dynamic

\* kserve::datatypeByteWidth.
Width == [FP32 |-> 4, UINT8 |-> 1, FP16 |-> 2, INT32 |-> 4, INT64 |-> 8]

Channels(extent) == extent \in {1, 3}

\* neuriplo_tasks::isImageInputShape.
isImageInputShape(shape) == Len(shape) >= 3

\* The extents of one picture or clip, batched or not, any of them dynamic.
\* Sides of three and less would pass for channels.
ForOnePicture(shape, layout) ==
  LET n        == Len(shape)
      rank     == IF layout = "NTCHW" THEN 4 ELSE 3
      channels == n - (IF layout = "NHWC" THEN 0 ELSE 2)
  IN  /\ n = rank \/ (n = rank + 1 /\ shape[1] \in {-1, 1})
      /\ \A a \in DOMAIN shape : shape[a] = -1 \/ shape[a] > 0
      /\ \A a \in n - 2 .. n :
           shape[a] # -1 => IF a = channels THEN Channels(shape[a]) ELSE shape[a] > 3

\* A model takes a picture first; beside it another one, or an input without
\* an image whose extents are fixed but for a batch.
PictureModel(m) ==
  /\ m.layout \in {"NCHW", "NHWC", "NTCHW"}
  /\ m.inputs \in Seq([shape : Seq(Int), datatype : DOMAIN Width])
  /\ Len(m.inputs) \in {1, 2} /\ isImageInputShape(m.inputs[1].shape)
  /\ \A i \in DOMAIN m.inputs :
       LET shape == m.inputs[i].shape
       IN  IF isImageInputShape(shape) THEN ForOnePicture(shape, m.layout)
           ELSE \A a \in DOMAIN shape : shape[a] > 0 \/ (a = 1 /\ shape[a] = -1)

ASSUME ModelInputAssumption ==
  /\ \A m \in PictureModels : PictureModel(m)
  /\ PictureSizes \subseteq Seq(Seq(Int))
  /\ TaskExtents \subseteq Nat \ {0}

VARIABLES
  served,      \* the model of the server
  givenSizes,  \* config.input_sizes
  encoded,     \* --input_mode=encoded-image: the server preprocesses
  phase,
  metadata,    \* inference_metadata
  info,        \* model_info
  tensors,     \* what the task prepared
  sentInputs   \* the inputs of the request

pathVars == <<served, givenSizes, encoded, phase, metadata, info, tensors, sentInputs>>

NoInfo == [shapes |-> <<>>, format |-> "default", types |-> <<>>, datatypes |-> <<>>]

PathInit ==
  /\ served \in PictureModels
  /\ givenSizes \in PictureSizes
  /\ encoded \in BOOLEAN
  /\ encoded => givenSizes = <<>>
  /\ phase = "setup"
  /\ metadata = <<>>
  /\ info = NoInfo
  /\ tensors = <<>>
  /\ sentInputs = <<>>

-----------------------------------------------------------------------------
PhaseStep(from, to) == phase = from /\ phase' = to

SizesOf(i) == IF i \in DOMAIN givenSizes THEN givenSizes[i] ELSE <<>>

\* The extent of the first axis, whatever that axis is.
batchSize(shape) == IF shape # <<>> /\ shape[1] > 0 THEN shape[1] ELSE 1

\* Tags the metadata enum cannot hold become its default.
toTensorDataType(tag) == IF tag = "FP16" THEN "FP32" ELSE tag

(***************************************************************************)
(* setupTask: the metadata of the engine, or, for an ensemble fed encoded  *)
(* images, that of the inner model.                                        *)
(***************************************************************************)
SetupTask ==
  /\ PhaseStep("setup", "build")
  /\ metadata' = [i \in DOMAIN served.inputs |->
       LET input == served.inputs[i]
       IN  [shape |-> input.shape,
            batch |-> IF encoded THEN 1 ELSE batchSize(input.shape),
            datatype |-> IF encoded THEN "FP32" ELSE toTensorDataType(input.datatype)]]
  /\ UNCHANGED <<served, givenSizes, encoded, info, tensors, sentInputs>>

\* A server's tags as they are; else the tags of the metadata.
inputDatatypes ==
  [i \in DOMAIN metadata |-> IF encoded THEN metadata[i].datatype
                             ELSE served.inputs[i].datatype]

\* getTaskTypeForModel of a type the operator chose for this model.
VideoClassification == served.layout = "NTCHW"

taskInputShape(shape, batch) ==
  IF Len(shape) = 3 \/ (VideoClassification /\ Len(shape) = 4)
  THEN <<batch>> \o shape ELSE shape

\* --input_sizes takes the place of the advertised shape.
builtShape(i) ==
  taskInputShape(IF SizesOf(i) # <<>> THEN SizesOf(i) ELSE metadata[i].shape,
                 metadata[i].batch)

\* Mutant: channels last unless the second extent counts channels.
setInputFormat_Second(shape) ==
  IF Len(shape) # 4 THEN "default" ELSE IF Channels(shape[2]) THEN "NCHW" ELSE "NHWC"

setInputFormat(shape) ==
  LET nchw == Channels(shape[2])
      nhwc == Channels(shape[4])
      last == \/ nhwc /\ ~ nchw
              \/ /\ nchw <=> nhwc
                 /\ ~ (shape[3] > 3 /\ shape[4] > 3)
                 /\ shape[2] > 3 /\ shape[3] > 3
  IN  CASE Len(shape) = 4 -> IF last THEN "NHWC" ELSE "NCHW"
        [] Len(shape) = 3 -> "NCHW"
        [] OTHER          -> "default"

\* Mutant: inputs that carry no image are held to the image types too.
Unpreparable_All(shapes, tags) == {i \in DOMAIN shapes : tags[i] \notin {"FP32", "UINT8"}}

\* Image inputs of a type no preprocessing produces.
Unpreparable(shapes, tags) ==
  {i \in DOMAIN shapes : isImageInputShape(shapes[i]) /\ tags[i] \notin {"FP32", "UINT8"}}

(***************************************************************************)
(* buildModelInfo, ending in applyInputDatatypes.                          *)
(***************************************************************************)
BuildModelInfo ==
  LET shapes == [i \in DOMAIN metadata |-> builtShape(i)]
      tags   == inputDatatypes
      built  == [shapes |-> shapes, format |-> setInputFormat(shapes[1]),
                 types |-> [i \in DOMAIN shapes |-> "FP32"], datatypes |-> <<>>]
      typed  == [built EXCEPT
                   !.datatypes = tags,
                   !.types = [i \in DOMAIN shapes |->
                     IF isImageInputShape(shapes[i]) THEN tags[i] ELSE built.types[i]]]
  IN  /\ \/ encoded /\ PhaseStep("build", "encoded") /\ info' = built
         \/ /\ ~ encoded
            /\ Unpreparable(shapes, tags) = {}
            /\ PhaseStep("build", "preprocess")
            /\ info' = typed
         \/ /\ ~ encoded
            /\ Unpreparable(shapes, tags) # {}
            /\ PhaseStep("build", "refused")
            /\ UNCHANGED info
      /\ UNCHANGED <<served, givenSizes, encoded, metadata, tensors, sentInputs>>

(***************************************************************************)
(* The task (neuriplo-tasks): an image input becomes one picture or clip   *)
(* of ModelInfo's extents after the batch axis, in its format and pixel    *)
(* type, the task choosing extents that are left dynamic; what an input    *)
(* without an image takes is the task's own knowledge.                     *)
(***************************************************************************)
Chosen(shape) ==
  {Filled(shape, extents) : extents \in [DynamicAxes(shape) -> TaskExtents]}

Tensor(i) ==
  IF isImageInputShape(info.shapes[i])
  THEN [extents  : Chosen(Tail(info.shapes[i])),
        layout   : {IF Len(info.shapes[i]) = 5 THEN "NTCHW" ELSE info.format},
        datatype : {info.types[i]}]
  ELSE [extents  : {[a \in DOMAIN served.inputs[i].shape |->
                       IF served.inputs[i].shape[a] < 0 THEN 1
                       ELSE served.inputs[i].shape[a]]},
        layout   : {"none"},
        datatype : {info.datatypes[i]}]

Bytes(tensor) == Elements(tensor.extents) * Width[tensor.datatype]

\* What was prepared is in memory.
Preprocess ==
  /\ PhaseStep("preprocess", "infer")
  /\ \/ Len(info.shapes) = 1 /\ tensors' \in {<<t>> : t \in Tensor(1)}
     \/ Len(info.shapes) = 2 /\ tensors' \in {<<t, u>> : t \in Tensor(1), u \in Tensor(2)}
  /\ \A i \in DOMAIN tensors' : Bytes(tensors'[i]) \in ByteCount
  /\ UNCHANGED <<served, givenSizes, encoded, metadata, info, sentInputs>>

(***************************************************************************)
(* get_infer_results, up to the request.                                   *)
(***************************************************************************)
Advertised(i) ==
  [shape |-> applyInputSizes(served.inputs[i].shape, SizesOf(i)),
   width |-> Width[served.inputs[i].datatype]]

Labelled(i) == [shape    |-> concreteInputShape(Advertised(i), Bytes(tensors[i])),
                datatype |-> served.inputs[i].datatype]

Sendable(i) == /\ validateInputBytes(Advertised(i), Bytes(tensors[i]))
               /\ DynamicAxes(Labelled(i).shape) = {}

SendPictures ==
  /\ \/ /\ \A i \in DOMAIN tensors : Sendable(i)
        /\ PhaseStep("infer", "sent")
        /\ sentInputs' = [i \in DOMAIN tensors |-> Labelled(i)]
     \/ /\ \E i \in DOMAIN tensors : ~ Sendable(i)
        /\ PhaseStep("infer", "rejected")
        /\ UNCHANGED sentInputs
  /\ UNCHANGED <<served, givenSizes, encoded, metadata, info, tensors>>

PathNext == SetupTask \/ BuildModelInfo \/ Preprocess \/ SendPictures

PathSpec == PathInit /\ [][PathNext]_pathVars

-----------------------------------------------------------------------------
(***************************************************************************)
(* Correctness.                                                            *)
(***************************************************************************)
ImageInputs == {i \in DOMAIN tensors : isImageInputShape(info.shapes[i])}

\* The sizes the operator gave are meant for this model and keep every extent
\* the server fixed.
SizesAgree ==
  \A i \in DOMAIN served.inputs :
    LET shape  == served.inputs[i].shape
        given  == SizesOf(i)
        offset == Len(shape) - Len(given)
    IN  /\ offset >= 0
        /\ \A a \in DOMAIN given : shape[offset + a] \in {-1, given[a]}
        /\ given = <<>> \/ IF isImageInputShape(shape)
                           THEN ForOnePicture(given, served.layout) /\ DynamicAxes(given) = {}
                           ELSE offset > 0

\* The wire shape is the tensor's own, alone in a batch if the model has one.
ArrivesAs(shape, tensor) == shape \in {tensor.extents, <<1>> \o tensor.extents}

\* A picture is never sent under another datatype than it was prepared in and,
\* when the sizes agree with the server, neither in another shape nor laid out
\* otherwise than the model reads it (inputDatatypes keeps the server's tags
\* because the metadata enum folds FP16 into its default; buildModelInfo
\* replaces the shape by --input_sizes, applyInputSizes fills it in and
\* concreteInputShape guesses the rest from the byte count; setInputFormat has
\* only extents to guess from; nothing compares what came of them).
PicturesArriveAsPrepared ==
  phase = "sent" =>
    /\ \A i \in ImageInputs : sentInputs[i].datatype = tensors[i].datatype
    /\ SizesAgree =>
         /\ tensors[1].layout = served.layout
         /\ \A i \in ImageInputs : ArrivesAs(sentInputs[i].shape, tensors[i])

\* With sizes that agree, setup fails only for an image input of a type no
\* preprocessing produces, and a request is refused only for an input that
\* still has two dynamic axes (applyInputDatatypes; validateInputBytes and the
\* check of what concreteInputShape left).
RefusalHasItsCause ==
  SizesAgree =>
    /\ phase = "refused" =>
         \E i \in DOMAIN served.inputs :
           /\ Len(served.inputs[i].shape) >= 3
           /\ served.inputs[i].datatype \notin {"FP32", "UINT8"}
    /\ phase = "rejected" =>
         \E i \in DOMAIN served.inputs :
           Cardinality(DynamicAxes(Advertised(i).shape)) >= 2
=============================================================================
