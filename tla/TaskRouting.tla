------------------------------ MODULE TaskRouting ------------------------------
(***************************************************************************)
(* Which task a model type means: getTaskTypeForModel                      *)
(* (app/src/NeuriploInferTaskRouting.cpp) and normalizeModelType           *)
(* (app/src/utils.cpp).                                                    *)
(*                                                                         *)
(* A name is the sequence of the words it is written with, <<"yolo",       *)
(* "v8", "-", "seg">>: words are cut so that a text the code looks for is  *)
(* a run of whole words.  Of upper case, two words stand for all.          *)
(***************************************************************************)
EXTENDS Naturals, Sequences

Separator == {"-", "_", " "}

LowerCase(word) ==
  CASE word = "YOLO"  -> "yolo"
    [] word = "OWLv2" -> "owlv2"
    [] OTHER          -> word

\* normalizeModelType: neither case nor what separates the words counts.
normalizeModelType(name) ==
  LET normalized[n \in 0 .. Len(name)] ==
        IF n = 0 THEN <<>>
        ELSE IF name[n] \in Separator THEN normalized[n - 1]
        ELSE Append(normalized[n - 1], LowerCase(name[n]))
  IN  normalized[Len(name)]

startsWith(name, prefix) ==
  Len(prefix) <= Len(name) /\ SubSeq(name, 1, Len(prefix)) = prefix

\* The words stand next to each other somewhere from position first on.
Holds(name, needle, first) ==
  \E i \in first .. Len(name) : startsWith(SubSeq(name, i, Len(name)), needle)

contains(name, needle) == Holds(name, needle, 1)

\* Whether the test for a task takes the name.
Claims(task, name) ==
  CASE task = "VideoClassification" ->
         name \in {<<"timesformer">>, <<"videomae">>, <<"vivit">>}
    [] task = "Classification" ->
         \/ name \in {<<"torchvision", "classifier">>, <<"vit", "classifier">>}
         \/ startsWith(name, <<"resnet">>)
         \/ contains(name, <<"tensorflow">>)
    [] task = "InstanceSegmentation" -> contains(name, <<"seg">>)
    [] task = "OpticalFlow" -> name = <<"raft">>
    [] task = "PoseEstimation" ->
         \/ contains(name, <<"pose">>)
         \/ /\ startsWith(name, <<"rfdetr">>)
            /\ contains(name, <<"keypoint">>) \/ contains(name, <<"kpt">>)
    [] task = "DepthEstimation" ->
         \/ startsWith(name, <<"yolo">>) /\ contains(name, <<"depth">>)
         \/ contains(name, <<"depth", "anything", "v2">>)
    [] task = "GaussianSplatting" ->
         \/ name \in {<<"lgm">>, <<"grm">>, <<"lgm", "mini">>}
         \/ contains(name, <<"splat">>)
    [] task = "OpenVocabDetection" ->
         name \in {<<"owlv2">>, <<"owlvit">>, <<"groundingdino">>}
    [] task = "ImageUnderstanding" ->
         name \in {<<"gemma", "4">>, <<"gemma">>, <<"llama">>, <<"llamacpp">>,
                   <<"imageunderstanding">>}

\* The order the tests are made in.
Precedence == <<"VideoClassification", "Classification", "InstanceSegmentation",
                "OpticalFlow", "PoseEstimation", "DepthEstimation",
                "GaussianSplatting", "OpenVocabDetection", "ImageUnderstanding">>

\* Mutant: the generic names are tested before the families.
getTaskTypeForModel_DetectionFirst(type) ==
  LET name   == normalizeModelType(type)
      claims == {i \in DOMAIN Precedence : Claims(Precedence[i], name)}
  IN  IF claims = {} \/ startsWith(name, <<"yolo">>) THEN "Detection"
      ELSE Precedence[CHOOSE i \in claims : \A j \in claims : i <= j]

\* The first test that takes the name decides; none takes a detector's.
getTaskTypeForModel(type) ==
  LET name   == normalizeModelType(type)
      claims == {i \in DOMAIN Precedence : Claims(Precedence[i], name)}
  IN  IF claims = {} THEN "Detection"
      ELSE Precedence[CHOOSE i \in claims : \A j \in claims : i <= j]
=============================================================================
