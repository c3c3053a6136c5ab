------------------------------ MODULE CommandLine ------------------------------
(***************************************************************************)
(* From what is typed to the configuration of a run:                       *)
(* CommandLineParser::parseCommandLineArguments                            *)
(* (app/src/CommandLineParser.cpp).                                        *)
(*                                                                         *)
(* cv::CommandLineParser, which it is built on, converts a value when it   *)
(* is read, by streaming it in.  A text that begins with a number is read  *)
(* as that number, whatever follows; of any other it makes 0 or, beyond    *)
(* int, the limit, and notes an error.  A switch is parsed on the side: a  *)
(* text that is no switch reads as one, and only an empty one is noted.    *)
(* Only check() reports what was noted, so that what is judged before a    *)
(* check may be judged on a value nobody wrote.                            *)
(*                                                                         *)
(* Thresholds are in hundredths.  A path is a text that names a file, or   *)
(* one that cannot be resolved; a source list is already split at its      *)
(* commas; a file that exists stands for a regular file or a directory,    *)
(* and looking it up does not throw.  The build has KServe.                *)
(*                                                                         *)
(* Arguments, the account of the same rules that TaskRun starts from, is   *)
(* held against them at the end.                                           *)
(***************************************************************************)
EXTENDS Integers, FiniteSets, TaskRouting

CONSTANTS
  AsNumber,      \* the texts that are not a number throughout: what each is read as
  AsSwitch,      \* the texts that are neither true nor false: what each is read as
  Unresolvable,  \* what weakly_canonical makes of a path it fails on
  Existing,      \* the path texts of existing files
  Still,         \* the path texts with a still image's extension
  Canonical,     \* the file each path text names
  ReportPath,    \* RunReport::kDefaultPath
  Bases,         \* the command lines typing starts from
  Choices,       \* what else may be typed: spelling -> values
  MaxMore        \* bound: options typed besides

ASSUME CommandLineAssumption ==
  /\ Existing \cup Still \subseteq DOMAIN Canonical
  /\ ReportPath \in DOMAIN Canonical
  /\ AsNumber \in [DOMAIN AsNumber -> [value : Int, noted : BOOLEAN]]
  /\ AsSwitch \in [DOMAIN AsSwitch -> [value : BOOLEAN, noted : BOOLEAN]]
  /\ MaxMore \in Nat

VARIABLES
  build,    \* what was compiled in
  given,    \* the options typed: spelling -> value
  pc,       \* the next step of the parser
  errors,   \* the options an error was noted for when they were read
  config,   \* the configuration filled in so far
  outcome   \* how parsing ended, or "none"

vars == <<build, given, pc, errors, config, outcome>>

-----------------------------------------------------------------------------
Switch == {"capabilities", "use-gpu", "warmup", "benchmark", "export_metadata",
           "no_gif", "no_display"}

Count == {"batch", "iterations", "num_frames", "sample_stride", "max_frames",
          "kserve_timeout_ms"}

Threshold == {"min_confidence", "nms_threshold", "mask_threshold"}

Typed == Switch \cup Count \cup Threshold

Text == {"help", "type", "source", "labels", "text_prompts", "prompt", "mmproj",
         "output_format", "tokenizer_vocab", "tokenizer_merges",
         "bert_tokenizer_vocab", "weights", "segmentation_output", "input_sizes",
         "kserve_endpoint", "kserve_model_name", "kserve_model_version",
         "kserve_transport", "input_mode", "task_model", "postprocess_mode",
         "task_model_version", "timings_csv", "output_video"}

Option == Typed \cup Text

Alias == [h  |-> "help",        s  |-> "source",      lb  |-> "labels",
          tp |-> "text_prompts", w |-> "weights",     b   |-> "batch",
          so |-> "segmentation_output",               is  |-> "input_sizes",
          nf |-> "num_frames",  im |-> "input_mode",  tm  |-> "task_model",
          pm |-> "postprocess_mode",                  tmv |-> "task_model_version"]

\* knownOptionKeys.
Known == Option \cup DOMAIN Alias

Primary(spelling) ==
  IF spelling \in DOMAIN Alias THEN Alias[spelling] ELSE spelling

\* providedOptionKeys.
Provided(g) == {Primary(s) : s \in DOMAIN g}

DefaultTransport(bd) == IF bd.grpc THEN "grpc" ELSE "http"

\* The defaults of params.
ValueDefault(bd, o) ==
  CASE o = "batch"                 -> 1
    [] o = "iterations"            -> 10
    [] o = "kserve_timeout_ms"     -> 30000
    [] o = "min_confidence"        -> 25
    [] o = "nms_threshold"         -> 45
    [] o = "mask_threshold"        -> 50
    [] o = "type"                  -> <<"yolo", "v10">>
    [] o \in {"source", "input_sizes"} -> <<>>
    [] o = "segmentation_output"   -> "mask"
    [] o = "input_mode"            -> "preprocessed"
    [] o = "postprocess_mode"      -> "cpu"
    [] o = "kserve_transport"      -> DefaultTransport(bd)
    [] o \in {"kserve_model_version", "task_model_version"} -> "1"
    [] o \in {"num_frames", "sample_stride", "max_frames"} -> 0
    [] OTHER                       -> ""

Default(bd, o) == IF o \in Switch THEN FALSE ELSE ValueDefault(bd, o)

\* The text of an option, its default when it was not typed.
Raw(bd, g, o) ==
  IF \E s \in DOMAIN g : Primary(s) = o
  THEN g[CHOOSE s \in DOMAIN g : Primary(s) = o]
  ELSE Default(bd, o)

\* What get<bool>, get<int> and get<float> make of a text that is no value of
\* the type.
Conversion(o) == IF o \in Switch THEN AsSwitch ELSE AsNumber

Misfit(o, text) == o \in Typed /\ text \in DOMAIN Conversion(o)

Read(bd, g, o) ==
  IF Misfit(o, Raw(bd, g, o)) THEN Conversion(o)[Raw(bd, g, o)].value ELSE Raw(bd, g, o)

\* The options whose reading notes an error.
Bad(bd, g, options) ==
  {o \in options : Misfit(o, Raw(bd, g, o)) /\ Conversion(o)[Raw(bd, g, o)].noted}

Lowered(value) ==
  CASE value = "Polygon"       -> "polygon"
    [] value = "Encoded-Image" -> "encoded-image"
    [] value = "GPU"           -> "gpu"
    [] value = "HTTP"          -> "http"
    [] value = "JSON"          -> "json"
    [] OTHER                   -> value

-----------------------------------------------------------------------------
(* validateArguments.                                                      *)

Source(bd, g) == Read(bd, g, "source")

AnyStill(sources) == \E i \in DOMAIN sources : sources[i] \in Still

AllStill(sources) ==
  sources # <<>> /\ \A i \in DOMAIN sources : sources[i] \in Still

\* Mutant: a later revision of the family is taken for a text model.
IsTextTask_Family(bd, g) ==
  \/ startsWith(normalizeModelType(Read(bd, g, "type")), <<"gemma">>)
  \/ normalizeModelType(Read(bd, g, "type")) \in
       {<<"llama">>, <<"llamacpp">>, <<"imageunderstanding">>}

IsTextTask(bd, g) ==
  normalizeModelType(Read(bd, g, "type")) \in
    {<<"gemma", "4">>, <<"gemma">>, <<"llama">>, <<"llamacpp">>,
     <<"imageunderstanding">>}

IsFile(path) == path \in Existing

SourceRules(bd, g) ==
  /\ Source(bd, g) # <<>> \/ IsTextTask(bd, g) \/ Read(bd, g, "export_metadata")
  /\ \A i \in DOMAIN Source(bd, g) : IsFile(Source(bd, g)[i])

\* Weights to load, or an endpoint to ask.
EngineRules(bd, g) ==
  IF Read(bd, g, "kserve_endpoint") = "" THEN IsFile(Read(bd, g, "weights"))
  ELSE /\ Read(bd, g, "kserve_timeout_ms") > 0
       /\ Lowered(Read(bd, g, "kserve_transport")) \in
            IF bd.grpc THEN {"grpc", "http"} ELSE {"http"}

FileRules(bd, g) ==
  \A o \in {"labels", "mmproj"} : Read(bd, g, o) = "" \/ IsFile(Read(bd, g, o))

\* Prompts, and the files that turn them into tokens.
OpenVocabRules(bd, g) ==
  LET name == normalizeModelType(Read(bd, g, "type"))
      Files(options) == \A o \in options : IsFile(Read(bd, g, o))
  IN  /\ name \in {<<"owlv2">>, <<"owlvit">>} =>
           Read(bd, g, "text_prompts") # "" /\ Files({"tokenizer_vocab", "tokenizer_merges"})
      /\ name = <<"groundingdino">> =>
           Read(bd, g, "text_prompts") # "" /\ Files({"bert_tokenizer_vocab"})

Mode(bd, g, o) == Lowered(Read(bd, g, o))

ValueRules(bd, g) ==
  /\ Mode(bd, g, "output_format") \in {"", "text", "json"}
  /\ Mode(bd, g, "segmentation_output") \in {"mask", "polygon"}
  /\ Mode(bd, g, "input_mode") \in {"preprocessed", "encoded-image"}
  /\ Mode(bd, g, "postprocess_mode") \in {"cpu", "gpu"}
  /\ Read(bd, g, "sample_stride") >= 0
  /\ Read(bd, g, "max_frames") >= 0

Encoded(bd, g) == Mode(bd, g, "input_mode") = "encoded-image"

Gpu(bd, g) == Mode(bd, g, "postprocess_mode") = "gpu"

\* validateEnsembleArguments.
EnsembleRules(bd, g) ==
  /\ Encoded(bd, g) => /\ Read(bd, g, "kserve_endpoint") # ""
                       /\ Read(bd, g, "task_model") # ""
                       /\ Read(bd, g, "batch") = 1
                       /\ Read(bd, g, "input_sizes") = <<>>
  /\ Gpu(bd, g) => Encoded(bd, g)

OutputVideoRules(bd, g) ==
  Read(bd, g, "output_video") # "" =>
    /\ ~Read(bd, g, "export_metadata")
    /\ ~IsTextTask(bd, g)
    /\ Source(bd, g) # <<>>
    /\ ~AnyStill(Source(bd, g))
    /\ bd.writer

ArgumentRules(bd, g) ==
  /\ SourceRules(bd, g) /\ EngineRules(bd, g) /\ FileRules(bd, g)
  /\ OpenVocabRules(bd, g) /\ ValueRules(bd, g) /\ EnsembleRules(bd, g)
  /\ OutputVideoRules(bd, g)

-----------------------------------------------------------------------------
(* validateRunModes.                                                       *)

FrameLoopRun(bd, g) ==
  /\ Source(bd, g) # <<>> /\ ~AnyStill(Source(bd, g))
  /\ ~IsTextTask(bd, g) /\ ~Read(bd, g, "export_metadata")

SingleImageRun(bd, g) ==
  /\ Len(Source(bd, g)) = 1 /\ AllStill(Source(bd, g))
  /\ ~IsTextTask(bd, g) /\ ~Read(bd, g, "export_metadata")

TextRules(bd, g) ==
  IsTextTask(bd, g) =>
    /\ Source(bd, g) = <<>> \/ (Len(Source(bd, g)) = 1 /\ AllStill(Source(bd, g)))
    /\ Read(bd, g, "sample_stride") <= 0
    /\ Read(bd, g, "max_frames") <= 0
    /\ Read(bd, g, "output_format") = ""

\* Mutant: the text after the flag is all that is compared.
samePath_Literal(lhs, rhs) == lhs = rhs

\* Two texts for one file; literally, when one cannot be resolved.
samePath(lhs, rhs) ==
  IF Unresolvable \in {Canonical[lhs], Canonical[rhs]} THEN lhs = rhs
  ELSE Canonical[lhs] = Canonical[rhs]

Outputs(bd, g) ==
  {Read(bd, g, o) : o \in {"timings_csv", "output_video"}} \ {""}

OutputRules(bd, g) ==
  /\ Read(bd, g, "timings_csv") # "" /\ Read(bd, g, "output_video") # "" =>
       ~samePath(Read(bd, g, "timings_csv"), Read(bd, g, "output_video"))
  /\ \A output \in Outputs(bd, g) :
       /\ ~samePath(output, ReportPath)
       /\ \A i \in DOMAIN Source(bd, g) : ~samePath(output, Source(bd, g)[i])

\* Mutant: an inner model may be named for a model that is sent tensors.
RunModeRules_AnyTaskModel(bd, g) ==
  /\ Read(bd, g, "timings_csv") # "" => FrameLoopRun(bd, g)
  /\ Read(bd, g, "warmup") \/ Read(bd, g, "benchmark") => SingleImageRun(bd, g)
  /\ TextRules(bd, g)
  /\ Gpu(bd, g) => Provided(g) \cap {"nms_threshold", "mask_threshold"} = {}
  /\ OutputRules(bd, g)

RunModeRules(bd, g) ==
  /\ Read(bd, g, "timings_csv") # "" => FrameLoopRun(bd, g)
  /\ Read(bd, g, "warmup") \/ Read(bd, g, "benchmark") => SingleImageRun(bd, g)
  /\ TextRules(bd, g)
  /\ Read(bd, g, "task_model") # "" => Encoded(bd, g)
  /\ Gpu(bd, g) => Provided(g) \cap {"nms_threshold", "mask_threshold"} = {}
  /\ OutputRules(bd, g)

-----------------------------------------------------------------------------
(* The configuration.                                                      *)

\* parseInputSizes.  A dimension is what std::stoi finds: a number that fits,
\* or none, and whether text is left over behind it, which it does not mind.
SizesThrow(sizes) ==
  \E i \in DOMAIN sizes : \E j \in DOMAIN sizes[i] : ~sizes[i][j].number

ParsedSizes(sizes) ==
  [i \in DOMAIN sizes |-> [j \in DOMAIN sizes[i] |-> sizes[i][j].value]]

Modes == {"output_format", "segmentation_output", "kserve_transport",
          "input_mode", "postprocess_mode"}

\* The options the configuration has a field for, and two fields more.
Copied == Option \ {"help", "capabilities"}

Field == Copied \cup {"segmentation_output_explicit", "show_capabilities"}

NoConfig == [show_capabilities |-> FALSE]

\* The model is named after its type on a server, unless it was named.
ModelName(bd, g) ==
  IF Read(bd, g, "kserve_endpoint") # "" /\ Read(bd, g, "kserve_model_name") = ""
  THEN Read(bd, g, "type") ELSE Read(bd, g, "kserve_model_name")

Value(bd, g, f) ==
  CASE f = "input_sizes"                  -> ParsedSizes(Read(bd, g, f))
    [] f = "kserve_model_name"            -> ModelName(bd, g)
    [] f = "segmentation_output_explicit" -> "segmentation_output" \in Provided(g)
    [] f = "show_capabilities"            -> FALSE
    [] f \in Modes                        -> Mode(bd, g, f)
    [] OTHER                              -> Read(bd, g, f)

Filled(bd, g) == [f \in Field |-> Value(bd, g, f)]

\* No option is typed twice, under any of its names, and sources are a list.
ASSUME TypingAssumption ==
  /\ \A base \in Bases : \A s, t \in DOMAIN base : Primary(s) = Primary(t) => s = t
  /\ \A base \in Bases : \A s \in DOMAIN base :
       Primary(s) = "source" => base[s] \in Seq(DOMAIN Canonical)
  /\ \A s \in DOMAIN Choices :
       Primary(s) = "source" => Choices[s] \subseteq Seq(DOMAIN Canonical)

-----------------------------------------------------------------------------
Outcome == {"none", "unknown option", "help", "capabilities", "malformed",
            "refused", "throws", "config"}

PC == {"typing", "keys", "help", "capabilities", "arguments", "modes", "fill",
       "check", "done"}

\* Types; a configuration that is handed out has every field.
TypeOK ==
  /\ build \in [grpc : BOOLEAN, writer : BOOLEAN]
  /\ pc \in PC
  /\ errors \subseteq Option
  /\ outcome \in Outcome
  /\ (pc = "done") = (outcome # "none")
  /\ (outcome = "config") => (config = Filled(build, given))

Init ==
  /\ build \in [grpc : BOOLEAN, writer : BOOLEAN]
  /\ given \in Bases
  /\ pc = "typing"
  /\ errors = {}
  /\ config = NoConfig
  /\ outcome = "none"

Goto(from, to) == pc = from /\ pc' = to /\ UNCHANGED outcome

Ends(from, how) == pc = from /\ pc' = "done" /\ outcome' = how

\* One more option.
Type(s, v) ==
  /\ pc = "typing"
  /\ \A t \in DOMAIN given : Primary(t) # Primary(s)
  /\ \E base \in Bases :
       /\ DOMAIN base \subseteq DOMAIN given
       /\ \A t \in DOMAIN base : given[t] = base[t]
       /\ Cardinality(DOMAIN given \ DOMAIN base) < MaxMore
  /\ given' = [t \in DOMAIN given \cup {s} |-> IF t = s THEN v ELSE given[t]]
  /\ UNCHANGED <<build, pc, errors, config, outcome>>

Run ==
  /\ Goto("typing", "keys")
  /\ UNCHANGED <<build, given, errors, config>>

\* providedOptionKeys: a key it does not know ends the program.
CheckKeys ==
  /\ IF DOMAIN given \subseteq Known THEN Goto("keys", "help")
                                     ELSE Ends("keys", "unknown option")
  /\ UNCHANGED <<build, given, errors, config>>

PrintHelp ==
  /\ IF "help" \in Provided(given) THEN Ends("help", "help")
                                   ELSE Goto("help", "capabilities")
  /\ UNCHANGED <<build, given, errors, config>>

ReadValues(options) == errors' = errors \cup Bad(build, given, options)

ReadCapabilities ==
  /\ IF Read(build, given, "capabilities")
     THEN Ends("capabilities", "capabilities") /\ config' = [show_capabilities |-> TRUE]
     ELSE Goto("capabilities", "arguments") /\ UNCHANGED config
  /\ ReadValues({"capabilities"})
  /\ UNCHANGED <<build, given>>

\* validateArguments checks what was read before it, and reads more.
ValidateArguments ==
  /\ IF errors # {} THEN Ends("arguments", "malformed")
     ELSE IF ArgumentRules(build, given) THEN Goto("arguments", "modes")
     ELSE Ends("arguments", "refused")
  /\ ReadValues({"export_metadata", "sample_stride", "max_frames"}
                \cup {o \in {"kserve_timeout_ms"} : Read(build, given, "kserve_endpoint") # ""}
                \cup {o \in {"batch"} : Encoded(build, given)})
  /\ UNCHANGED <<build, given, config>>

ValidateRunModes ==
  /\ IF RunModeRules(build, given) THEN Goto("modes", "fill") ELSE Ends("modes", "refused")
  /\ ReadValues({"export_metadata", "warmup", "benchmark"})
  /\ UNCHANGED <<build, given, config>>

\* Every option is read; the sizes are parsed on the way.
FillConfig ==
  /\ IF SizesThrow(Read(build, given, "input_sizes"))
     THEN Ends("fill", "throws") /\ UNCHANGED config
     ELSE Goto("fill", "check") /\ config' = Filled(build, given)
  /\ ReadValues(Copied)
  /\ UNCHANGED <<build, given>>

\* Mutant: what is read while filling the configuration is not checked.
CheckValues_Earlier ==
  /\ Ends("check", "config")
  /\ UNCHANGED <<build, given, errors, config>>

\* The check after every read.
CheckValues ==
  /\ Ends("check", IF errors = {} THEN "config" ELSE "malformed")
  /\ UNCHANGED <<build, given, errors, config>>

Done == pc = "done" /\ UNCHANGED vars

Next ==
  \/ \E s \in DOMAIN Choices : \E v \in Choices[s] : Type(s, v)
  \/ Run \/ CheckKeys \/ PrintHelp \/ ReadCapabilities
  \/ ValidateArguments \/ ValidateRunModes \/ FillConfig \/ CheckValues
  \/ Done

Spec == Init /\ [][Next]_vars

-----------------------------------------------------------------------------
Configured == outcome = "config"

\* A configuration comes of options that are all known, and of no text that
\* an error is noted for when it is read: no rule was judged, and no field
\* filled, on the 0 of a text without a number, on the limit in place of a larger
\* number, or on nothing in place of a switch.  Other malformed values are not
\* refused, for nothing notes them: a switch that is neither true nor false, and
\* the text behind a number, in --input_sizes as well.
\* (Errors are noted between two checks; every option is read by the last.)
NothingNotedIsUsed ==
  Configured =>
    /\ DOMAIN given \subseteq Known
    /\ \A s \in DOMAIN given :
         Misfit(Primary(s), given[s]) => ~ Conversion(Primary(s))[given[s]].noted

\* What was judged is what is used: the modes the rest of the program compares
\* with are the ones the rules allowed, however they were typed.
\* (validateEnsembleArguments lowers them to judge, the parser to copy.)
JudgedIsUsed ==
  Configured =>
    /\ config["input_mode"] \in {"preprocessed", "encoded-image"}
    /\ config["segmentation_output"] \in {"mask", "polygon"}
    /\ config["kserve_endpoint"] # "" => config["kserve_transport"] \in {"grpc", "http"}
    /\ config["input_mode"] = "encoded-image" =>
         config["task_model"] # "" /\ config["batch"] = 1 /\ config["input_sizes"] = <<>>
    /\ config["postprocess_mode"] \in {"cpu", "gpu"}
    /\ config["postprocess_mode"] = "gpu" => config["input_mode"] = "encoded-image"

\* Neither file a flag has a run write is one it reads its frames from, the run
\* report or the other of the two, under whatever names.  (Names only: links,
\* still images and the report's temporary file are not compared.)
\* (validateRunModes compares paths in canonical form.)
OutputsAreTheirOwn ==
  Configured =>
    LET outputs == Outputs(build, given)
        others  == {ReportPath} \cup {config["source"][i] : i \in DOMAIN config["source"]}
    IN  /\ \A a \in outputs : \A b \in others :
             Canonical[a] # Unresolvable => Canonical[a] # Canonical[b]
        /\ config["timings_csv"] # "" /\ config["output_video"] # "" =>
             \/ Canonical[config["timings_csv"]] = Unresolvable
             \/ Canonical[config["timings_csv"]] # Canonical[config["output_video"]]

\* What the rules ask of a command line is what the task it is routed to
\* needs: a run without a source is one that asks for no picture, and a task
\* that is asked in words has its words and the files to read them by.
\* (validateArguments and validateRunModes have lists of model names of their
\* own beside getTaskTypeForModel's; processVideo takes sources[0] unasked.)
RulesFitTheTask ==
  Configured =>
    LET task == getTaskTypeForModel(config["type"])
    IN  /\ config["source"] = <<>> => config["export_metadata"] \/ task = "ImageUnderstanding"
        /\ task = "OpenVocabDetection" =>
             /\ config["text_prompts"] # ""
             /\ \/ {config["tokenizer_vocab"], config["tokenizer_merges"]} \subseteq Existing
                \/ config["bert_tokenizer_vocab"] \in Existing

-----------------------------------------------------------------------------
(* What Arguments says of the same command line.                           *)

ModelTypeOf(task) ==
  CASE task = "InstanceSegmentation" -> "yoloseg"
    [] task = "Classification"       -> "resnet"
    [] task = "VideoClassification"  -> "videomae"
    [] task = "OpticalFlow"          -> "raft"
    [] task = "OpenVocabDetection"   -> "owlvit"
    [] task = "ImageUnderstanding"   -> "gemma"
    [] OTHER                         -> "yolo"

Is(o) == Read(build, given, o) # ""

AsOptions ==
  [type            |-> ModelTypeOf(getTaskTypeForModel(Read(build, given, "type"))),
   sources         |-> [i \in DOMAIN Source(build, given) |->
                          IF Source(build, given)[i] \in Still THEN "still" ELSE "moving"],
   warmup          |-> Read(build, given, "warmup"),
   benchmark       |-> Read(build, given, "benchmark"),
   export_metadata |-> Read(build, given, "export_metadata"),
   timings_csv     |-> Is("timings_csv"),
   output_video    |-> Is("output_video"),
   kserve_endpoint |-> Is("kserve_endpoint"),
   encoded         |-> Encoded(build, given),
   task_model      |-> Is("task_model"),
   gpu             |-> Gpu(build, given),
   thresholds      |-> Provided(given) \cap {"nms_threshold", "mask_threshold"} # {}]

\* The rules do not depend on the bounds.
Abstract == INSTANCE Arguments WITH MaxSources <- 0, MaxIterations <- 0

\* The rules on single values and on files, which Arguments leaves out.
SingleRules ==
  /\ \A i \in DOMAIN Source(build, given) : IsFile(Source(build, given)[i])
  /\ EngineRules(build, given) /\ FileRules(build, given)
  /\ OpenVocabRules(build, given) /\ ValueRules(build, given)
  /\ OutputRules(build, given)
  /\ Encoded(build, given) =>
       Read(build, given, "batch") = 1 /\ Read(build, given, "input_sizes") = <<>>
  /\ Is("output_video") => build.writer
  /\ IsTextTask(build, given) =>
       /\ Read(build, given, "sample_stride") <= 0
       /\ Read(build, given, "max_frames") <= 0
       /\ ~Is("output_format")

\* The one-predicate account of the rules that TaskRun starts from is the
\* parser's: a command line is let through by both or by neither, but for the
\* rules on single values.
\* (validateArguments and validateRunModes, step by step, against Arguments.)
ArgumentsAgree ==
  /\ outcome = "config" => Abstract!Accepts(AsOptions)
  /\ outcome = "refused" => ~(Abstract!Accepts(AsOptions) /\ SingleRules)
=============================================================================
