----------------------------- MODULE MCCommandLine -----------------------------
(***************************************************************************)
(* CommandLine over short command lines: each starts as one of seven plain *)
(* runs and is given up to MaxMore options more.  Every rule can be kept   *)
(* and broken, some options are typed by their alias, in upper case or     *)
(* with a text that is no value, and one is not an option at all.          *)
(***************************************************************************)
EXTENDS CommandLine, TLC

CONSTANTS
  Word,      \* abc: neither a number nor a switch
  Trailing,  \* 4x: a number and more
  Excess,    \* a number beyond int
  Blank      \* nothing

MCAsNumber ==
  (Word :> [value |-> 0, noted |-> TRUE]) @@ (Trailing :> [value |-> 4, noted |-> FALSE])
  @@ (Excess :> [value |-> 2147483647, noted |-> TRUE])
  @@ (Blank :> [value |-> 0, noted |-> TRUE])

MCAsSwitch ==
  (Word :> [value |-> FALSE, noted |-> FALSE]) @@ (Blank :> [value |-> FALSE, noted |-> TRUE])

\* Two texts for the video, two for the report, and one that has no canonical
\* form; the names of files are of no interest otherwise.
MCCanonical ==
  [p \in {"clip", "./clip", "photo", "photo2", "photo3", "model", "words", "out",
          "report", "./report", "loop", "stream"} |->
     CASE p = "./clip"   -> "clip"
       [] p = "./report" -> "report"
       [] p = "loop"     -> "unresolvable"
       [] OTHER          -> p]

MCExisting == {"clip", "./clip", "photo", "photo2", "photo3", "model", "words"}

Video    == ("source" :> <<"clip">>) @@ ("w" :> "model")
Photo    == ("s" :> <<"photo">>) @@ ("weights" :> "model")
Words    == ("type" :> <<"gemma", "4">>) @@ ("weights" :> "model")
Named    == ("type" :> <<"OWLv2">>) @@ ("text_prompts" :> "cat") @@ Photo
Remote   == ("source" :> <<"photo">>) @@ ("kserve_endpoint" :> "host")
Ensemble == Remote @@ ("im" :> "Encoded-Image") @@ ("tm" :> "inner")

MCBases == {<<>>, Video, Photo, Words, Named, Remote, Ensemble}

Number(n) == [number |-> TRUE, value |-> n, rest |-> FALSE]

NoNumber == [number |-> FALSE, value |-> 0, rest |-> FALSE]

MCChoices ==
  ("type" :> {<<"yolo", "v8", "-", "seg">>, <<"YOLO", "_", "nas">>, <<"gemma", "3">>,
              <<"groundingdino">>, <<"raft">>, <<"videomae">>, <<"resnet", "50">>, <<"owlvit">>})
  @@ ("source" :> {<<"clip">>, <<"photo", "photo2">>, <<"clip", "photo">>,
                   <<"stream">>})
  @@ ("w" :> {"lost"})
  @@ ("kserve_endpoint" :> {"host"})
  @@ ("kserve_model_name" :> {"served"})
  @@ ("kserve_timeout_ms" :> {Word, Excess, 0})
  @@ ("kserve_transport" :> {"HTTP", "grpc"})
  @@ ("im" :> {"Encoded-Image", "raw"})
  @@ ("tm" :> {"inner"})
  @@ ("postprocess_mode" :> {"GPU"})
  @@ ("nms_threshold" :> {30, Word})
  @@ ("so" :> {"Polygon", "boxes"})
  @@ ("b" :> {2, Word, Trailing})
  @@ ("is" :> {<<<<Number(3), Number(224)>>, <<Number(2)>>>>, <<<<NoNumber>>>>})
  @@ ("timings_csv" :> {"out", "./clip", "photo", "loop"})
  @@ ("output_video" :> {"out", "clip", "./report"})
  @@ ("warmup" :> {TRUE})
  @@ ("benchmark" :> {TRUE})
  @@ ("iterations" :> {3})
  @@ ("export_metadata" :> {TRUE, Word, Blank})
  @@ ("capabilities" :> {TRUE, Word, Blank})
  @@ ("h" :> {"true"})
  @@ ("output-video" :> {"out"})
  @@ ("labels" :> {"lost"})
  @@ ("output_format" :> {"xml"})
  @@ ("sample_stride" :> {2})
  @@ ("max_frames" :> {-1})
  @@ ("tp" :> {"cat"})
  @@ ("tokenizer_vocab" :> {"words"})
  @@ ("tokenizer_merges" :> {"words"})
  @@ ("bert_tokenizer_vocab" :> {"words"})
=============================================================================
