--------------------------- MODULE CommandLineProofs ---------------------------
(***************************************************************************)
(* What holds of every configuration the parser returns, whatever was      *)
(* typed: it is judged and filled from the same values, none of them a     *)
(* substitute, its outputs overwrite nothing it reads, its task has what   *)
(* it needs; and the rules are those Arguments gives of them.              *)
(*                                                                         *)
(* And of every line a consumer makes of the capabilities document: its    *)
(* model is routed to the task it is listed under, what is said to be      *)
(* enough is enough, and each parameter offered can be given.              *)
(***************************************************************************)
EXTENDS DocumentUse, SequenceTheorems, WellFoundedInduction, TLAPS

\* How far the parser has come is what it has established.
Established ==
  /\ pc \notin {"typing", "keys"} /\ outcome # "unknown option" =>
       DOMAIN given \subseteq Known
  /\ pc \in {"modes", "fill", "check"} => ArgumentRules(build, given)
  /\ pc \in {"fill", "check"} => RunModeRules(build, given)
  /\ pc = "check" => /\ config = Filled(build, given)
                     /\ Bad(build, given, Copied) \subseteq errors

\* What a configuration is returned with.
Returned ==
  /\ DOMAIN given \subseteq Known
  /\ ArgumentRules(build, given)
  /\ RunModeRules(build, given)
  /\ config = Filled(build, given)
  /\ Bad(build, given, Copied) = {}

\* "capabilities" is read before the first check, and not copied.
Noted ==
  pc \in {"arguments"} => Bad(build, given, {"capabilities"}) \subseteq errors

Passed == pc \in {"modes", "fill", "check"} => Bad(build, given, {"capabilities"}) = {}

\* Every option has one text.
TypedWell == \A s, t \in DOMAIN given : Primary(s) = Primary(t) => s = t

IInv ==
  /\ TypedWell
  /\ Established
  /\ Noted
  /\ Passed
  /\ (pc = "done") <=> (outcome # "none")
  /\ Configured => Returned /\ Bad(build, given, {"capabilities"}) = {}

-----------------------------------------------------------------------------
\* A line that has been typed and not yet parsed satisfies the invariant.
\* (parseCommandLineArguments, before its first check.)
LEMMA InitEstablishes == Init => IInv
<1> SUFFICES ASSUME Init PROVE IInv
  OBVIOUS
<1>1. TypedWell
  BY TypingAssumption DEF Init, TypedWell
<1>2. pc = "typing" /\ outcome = "none"
  BY DEF Init
<1>3. Established /\ Noted /\ Passed
  BY <1>2 DEF Established, Noted, Passed
<1>4. QED
  BY <1>1, <1>2, <1>3 DEF IInv, Configured

\* Typing one more option keeps every option with one text.
LEMMA TypeKeeps ==
  ASSUME IInv, NEW s \in DOMAIN Choices, NEW v \in Choices[s], Type(s, v)
  PROVE  IInv'
<1>1. pc = "typing" /\ pc' = "typing" /\ outcome' = outcome
  BY DEF Type
<1>2. \A t \in DOMAIN given : Primary(t) # Primary(s)
  BY DEF Type
<1>3. given' = [t \in DOMAIN given \cup {s} |-> IF t = s THEN v ELSE given[t]]
  BY DEF Type
<1>4. DOMAIN given' = DOMAIN given \cup {s}
  BY <1>3
<1>5. \A t, u \in DOMAIN given' : Primary(t) = Primary(u) => t = u
  BY <1>2, <1>4 DEF IInv, TypedWell
<1>7. TypedWell'
  BY <1>5 DEF TypedWell
<1>8. Established' /\ Noted' /\ Passed'
  BY <1>1 DEF Established, Noted, Passed
<1>9. outcome = "none"
  BY <1>1 DEF IInv
<1>10. QED
  BY <1>1, <1>7, <1>8, <1>9 DEF IInv, Configured

\* The steps of the parser; none of them changes what was typed.
LEMMA ParseKeeps ==
  ASSUME IInv,
         \/ Run \/ CheckKeys \/ PrintHelp \/ ReadCapabilities
         \/ ValidateArguments \/ ValidateRunModes \/ FillConfig \/ CheckValues
  PROVE  IInv'
<1>1. UNCHANGED <<build, given>>
  BY DEF Run, CheckKeys, PrintHelp, ReadCapabilities, ValidateArguments,
         ValidateRunModes, FillConfig, CheckValues
<1>2. TypedWell'
  BY <1>1 DEF IInv, TypedWell
<1>3. CASE Run
  BY <1>1, <1>2, <1>3 DEF Run, Goto, IInv, Established, Noted, Passed, Configured
<1>4. CASE CheckKeys
  BY <1>1, <1>2, <1>4 DEF CheckKeys, Goto, Ends, IInv, Established, Noted, Passed, Configured
<1>5. CASE PrintHelp
  BY <1>1, <1>2, <1>5 DEF PrintHelp, Goto, Ends, IInv, Established, Noted, Passed, Configured
<1>6. CASE ReadCapabilities
  <2>1. errors' = errors \cup Bad(build, given, {"capabilities"})
    BY <1>6 DEF ReadCapabilities, ReadValues
  <2>2. \/ pc' = "done" /\ outcome' = "capabilities"
        \/ pc' = "arguments" /\ outcome' = outcome
    BY <1>6 DEF ReadCapabilities, Goto, Ends
  <2>3. pc = "capabilities"
    BY <1>6 DEF ReadCapabilities, Goto, Ends
  <2>4. QED
    BY <1>1, <1>2, <2>1, <2>2, <2>3 DEF IInv, Established, Noted, Passed, Configured, Bad
<1>7. CASE ValidateArguments
  <2>1. pc = "arguments"
    BY <1>7 DEF ValidateArguments, Goto, Ends
  <2>2. \/ pc' = "done" /\ outcome' \in {"malformed", "refused"}
        \/ /\ pc' = "modes" /\ outcome' = outcome
           /\ errors = {} /\ ArgumentRules(build, given)
    BY <1>7 DEF ValidateArguments, Goto, Ends
  <2>3. QED
    BY <1>1, <1>2, <2>1, <2>2 DEF IInv, Established, Noted, Passed, Configured
<1>8. CASE ValidateRunModes
  <2>1. pc = "modes"
    BY <1>8 DEF ValidateRunModes, Goto, Ends
  <2>2. \/ pc' = "done" /\ outcome' = "refused"
        \/ pc' = "fill" /\ outcome' = outcome /\ RunModeRules(build, given)
    BY <1>8 DEF ValidateRunModes, Goto, Ends
  <2>3. QED
    BY <1>1, <1>2, <2>1, <2>2 DEF IInv, Established, Noted, Passed, Configured
<1>9. CASE FillConfig
  <2>1. pc = "fill"
    BY <1>9 DEF FillConfig, Goto, Ends
  <2>2. \/ pc' = "done" /\ outcome' = "throws"
        \/ pc' = "check" /\ outcome' = outcome /\ config' = Filled(build, given)
    BY <1>9 DEF FillConfig, Goto, Ends
  <2>3. Bad(build, given, Copied) \subseteq errors'
    BY <1>9 DEF FillConfig, ReadValues
  <2>4. QED
    BY <1>1, <1>2, <2>1, <2>2, <2>3 DEF IInv, Established, Noted, Passed, Configured
<1>10. CASE CheckValues
  <2>1. pc = "check" /\ pc' = "done" /\ UNCHANGED <<errors, config>>
    BY <1>10 DEF CheckValues, Ends
  <2>2. outcome' = IF errors = {} THEN "config" ELSE "malformed"
    BY <1>10 DEF CheckValues, Ends
  <2>3. errors = {} => Returned' /\ Bad(build, given, {"capabilities"})' = {}
    BY <1>1, <2>1 DEF IInv, Established, Passed, Returned
  <2>4. QED
    BY <1>1, <1>2, <2>1, <2>2, <2>3 DEF IInv, Established, Noted, Passed, Configured
<1>11. QED
  BY <1>3, <1>4, <1>5, <1>6, <1>7, <1>8, <1>9, <1>10

\* A step that changes nothing keeps it: no part looks outside the variables.
LEMMA StutterKeeps == IInv /\ UNCHANGED vars => IInv'
  BY DEF vars, IInv, TypedWell, Established, Noted, Passed, Configured, Returned

\* The invariant of the parser holds of every parse: what each check has
\* established by then, and what errors were noted.
\* (parseCommandLineArguments.)
THEOREM ParserCorrect == Spec => []IInv
<1>1. IInv /\ [Next]_vars => IInv'
  <2> SUFFICES ASSUME IInv, [Next]_vars PROVE IInv'
    OBVIOUS
  <2>1. CASE \E s \in DOMAIN Choices : \E v \in Choices[s] : Type(s, v)
    BY <2>1, TypeKeeps
  <2>2. CASE \/ Run \/ CheckKeys \/ PrintHelp \/ ReadCapabilities
             \/ ValidateArguments \/ ValidateRunModes \/ FillConfig \/ CheckValues
    BY <2>2, ParseKeeps
  <2>3. CASE Done \/ UNCHANGED vars
    BY <2>3, StutterKeeps DEF Done
  <2>4. QED
    BY <2>1, <2>2, <2>3 DEF Next
<1>2. QED
  BY InitEstablishes, <1>1, PTL DEF Spec

-----------------------------------------------------------------------------
\* A value that an option was given is the text read for the option.
LEMMA GivenIsRead ==
  ASSUME TypedWell, NEW s \in DOMAIN given
  PROVE  Raw(build, given, Primary(s)) = given[s]
<1>1. \E t \in DOMAIN given : Primary(t) = Primary(s)
  OBVIOUS
<1>2. (CHOOSE t \in DOMAIN given : Primary(t) = Primary(s)) = s
  BY DEF TypedWell
<1>3. QED
  BY <1>1, <1>2 DEF Raw

\* What the parser has established by the time it returns is that it has used
\* nothing an error is noted for. (The check after every read.)
LEMMA ReturnedIsRead == IInv => NothingNotedIsUsed
<1> SUFFICES ASSUME IInv, Configured
             PROVE  /\ DOMAIN given \subseteq Known
                    /\ \A s \in DOMAIN given :
                         Misfit(Primary(s), given[s]) => ~ Conversion(Primary(s))[given[s]].noted
  BY DEF NothingNotedIsUsed
<1>1. Returned /\ Bad(build, given, {"capabilities"}) = {} /\ TypedWell
  BY DEF IInv
<1>2. ASSUME NEW s \in DOMAIN given, Misfit(Primary(s), given[s]),
             Conversion(Primary(s))[given[s]].noted
      PROVE  FALSE
  <2>1. Primary(s) \in Typed
    BY <1>2 DEF Misfit
  <2>2. Raw(build, given, Primary(s)) = given[s]
    BY <1>1, GivenIsRead
  <2>3. Primary(s) \in Copied \cup {"capabilities"}
    BY <2>1 DEF Copied, Option, Typed, Switch, Count, Threshold
  <2>4. Primary(s) \in Bad(build, given, Copied) \cup Bad(build, given, {"capabilities"})
    BY <1>2, <2>2, <2>3 DEF Bad
  <2>5. QED
    BY <1>1, <2>4 DEF Returned
<1>3. QED
  BY <1>1, <1>2 DEF Returned

\* A returned configuration comes of known options, and of no value that an
\* error is noted for: every option with a field is read before the last check,
\* and the one without a field before the first. (Both calls of check.)
THEOREM NotedIsRefused == Spec => []NothingNotedIsUsed
<1> QED
  BY ParserCorrect, ReturnedIsRead, PTL

\* A configuration handed out holds for each field the value that was filled
\* in. (The assignments at the end of parseCommandLineArguments.)
LEMMA FieldsOf ==
  ASSUME Returned, NEW f \in Field
  PROVE  config[f] = Value(build, given, f)
BY DEF Returned, Filled

\* A field that a mode option decides holds that option's mode.
\* (parseCommandLineArguments.)
LEMMA ModesOf ==
  ASSUME Returned, NEW f \in Modes
  PROVE  config[f] = Mode(build, given, f)
<1>1. f \in Field /\ f \notin {"input_sizes", "kserve_model_name",
                              "segmentation_output_explicit", "show_capabilities"}
  BY DEF Modes, Field, Copied, Option, Text
<1>2. QED
  BY <1>1, FieldsOf DEF Value

Plain == {"source", "timings_csv", "output_video", "kserve_endpoint", "task_model",
          "batch", "type", "export_metadata", "text_prompts", "tokenizer_vocab",
          "tokenizer_merges", "bert_tokenizer_vocab"}

\* A field that is copied holds what was read for it.
\* (parseCommandLineArguments.)
LEMMA PlainOf ==
  ASSUME Returned, NEW f \in Plain
  PROVE  config[f] = Read(build, given, f)
<1>1. f \in Field /\ f \notin Modes \cup {"input_sizes", "kserve_model_name",
                              "segmentation_output_explicit", "show_capabilities"}
  BY DEF Plain, Modes, Field, Copied, Option, Text, Typed, Count, Switch
<1>2. QED
  BY <1>1, FieldsOf DEF Value

\* The modes a configuration holds are the ones that were judged (they are
\* lowered to be judged, and lowered to be copied).
THEOREM JudgedUsed == Spec => []JudgedIsUsed
<1>1. IInv => JudgedIsUsed
  <2> SUFFICES ASSUME IInv, Configured PROVE JudgedIsUsed
    BY DEF JudgedIsUsed
  <2>1. Returned
    BY DEF IInv
  <2>2. ValueRules(build, given) /\ EnsembleRules(build, given) /\ EngineRules(build, given)
    BY <2>1 DEF Returned, ArgumentRules
  <2>3. \A f \in Modes : config[f] = Mode(build, given, f)
    BY <2>1, ModesOf
  <2>4. \A f \in Plain : config[f] = Read(build, given, f)
    BY <2>1, PlainOf
  <2>5. config["input_mode"] \in {"preprocessed", "encoded-image"}
    BY <2>2, <2>3 DEF ValueRules, Modes
  <2>6. config["segmentation_output"] \in {"mask", "polygon"}
    BY <2>2, <2>3 DEF ValueRules, Modes
  <2>7. config["kserve_endpoint"] # "" => config["kserve_transport"] \in {"grpc", "http"}
    <3>1. config["kserve_transport"] = Lowered(Read(build, given, "kserve_transport"))
      BY <2>3 DEF Modes, Mode
    <3>2. config["kserve_endpoint"] = Read(build, given, "kserve_endpoint")
      BY <2>4 DEF Plain
    <3>3. QED
      BY <2>2, <3>1, <3>2 DEF EngineRules
  <2>8. config["input_sizes"] = ParsedSizes(Read(build, given, "input_sizes"))
    <3>1. "input_sizes" \in Field /\ "input_sizes" \notin Modes
      BY DEF Modes, Field, Copied, Option, Text
    <3>2. config["input_sizes"] = Value(build, given, "input_sizes")
      BY <2>1, <3>1, FieldsOf
    <3>3. QED
      BY <3>1, <3>2 DEF Value
  <2>9. ParsedSizes(<<>>) = <<>>
    BY DEF ParsedSizes
  <2>10. config["input_mode"] = "encoded-image" =>
           config["task_model"] # "" /\ config["batch"] = 1 /\ config["input_sizes"] = <<>>
    <3> SUFFICES ASSUME config["input_mode"] = "encoded-image"
                 PROVE  config["task_model"] # "" /\ config["batch"] = 1
                          /\ config["input_sizes"] = <<>>
      OBVIOUS
    <3>1. Encoded(build, given)
      BY <2>3 DEF Encoded, Modes
    <3>2. /\ Read(build, given, "task_model") # ""
          /\ Read(build, given, "batch") = 1
          /\ Read(build, given, "input_sizes") = <<>>
      BY <2>2, <3>1 DEF EnsembleRules
    <3>3. QED
      BY <2>4, <2>8, <2>9, <3>2 DEF Plain
  <2>11. config["postprocess_mode"] \in {"cpu", "gpu"}
    BY <2>2, <2>3 DEF ValueRules, Modes
  <2>12. config["postprocess_mode"] = "gpu" => config["input_mode"] = "encoded-image"
    BY <2>2, <2>3 DEF EnsembleRules, Modes, Gpu, Encoded
  <2>13. QED
    BY <2>5, <2>6, <2>7, <2>10, <2>11, <2>12 DEF JudgedIsUsed
<1>2. QED
  BY ParserCorrect, <1>1, PTL

\* What it has judged of its outputs holds of the configuration. (samePath.)
LEMMA ReturnedIsApart == IInv => OutputsAreTheirOwn
<1> SUFFICES ASSUME IInv, Configured PROVE OutputsAreTheirOwn
  BY DEF OutputsAreTheirOwn
<1>1. Returned /\ OutputRules(build, given)
  BY DEF IInv, Returned, RunModeRules
<1>2. \A f \in Plain : config[f] = Read(build, given, f)
  BY <1>1, PlainOf
<1>3. config["source"] = Source(build, given)
  BY <1>2 DEF Plain, Source
<1>4. ASSUME NEW lhs, NEW rhs, ~samePath(lhs, rhs), Canonical[lhs] # Unresolvable
      PROVE  Canonical[lhs] # Canonical[rhs]
  BY <1>4 DEF samePath
<1>5. ASSUME NEW a \in Outputs(build, given), Canonical[a] # Unresolvable,
             NEW b \in {ReportPath} \cup
                         {config["source"][i] : i \in DOMAIN config["source"]}
      PROVE  Canonical[a] # Canonical[b]
  <2>1. ~samePath(a, b)
    BY <1>1, <1>3, <1>5 DEF OutputRules
  <2>2. QED
    BY <1>4, <1>5, <2>1
<1>6. ASSUME config["timings_csv"] # "", config["output_video"] # ""
      PROVE  \/ Canonical[config["timings_csv"]] = Unresolvable
             \/ Canonical[config["timings_csv"]] # Canonical[config["output_video"]]
  <2>1. ~samePath(config["timings_csv"], config["output_video"])
    BY <1>1, <1>2, <1>6 DEF OutputRules, Plain
  <2>2. QED
    BY <1>4, <2>1
<1>7. QED
  BY <1>5, <1>6 DEF OutputsAreTheirOwn

\* What a run writes is none of the files it reads its frames from, nor its
\* report, nor its other output, however the paths are spelled.
THEOREM OutputsApart == Spec => []OutputsAreTheirOwn
<1> QED
  BY ParserCorrect, ReturnedIsApart, PTL

-----------------------------------------------------------------------------
\* The names of text models, which the rules and the routing both list.
TextName == {<<"gemma", "4">>, <<"gemma">>, <<"llama">>, <<"llamacpp">>,
             <<"imageunderstanding">>}

\* A name that starts with some words starts with the first of them.
LEMMA PrefixWord ==
  ASSUME NEW Word, NEW name \in Seq(Word), NEW prefix \in Seq(Word), prefix # <<>>, startsWith(name, prefix)
  PROVE  name # <<>> /\ name[1] = prefix[1]
<1>1. Len(prefix) >= 1 /\ Len(prefix) <= Len(name) /\ SubSeq(name, 1, Len(prefix)) = prefix
  BY DEF startsWith
<1>2. SubSeq(name, 1, Len(prefix))[1] = name[1]
  BY <1>1
<1> QED
  BY <1>1, <1>2

\* A name that contains some words has the first of them somewhere.
LEMMA ContainedWord ==
  ASSUME NEW Word, NEW name \in Seq(Word), NEW needle \in Seq(Word), needle # <<>>, contains(name, needle)
  PROVE  \E i \in 1 .. Len(name) : name[i] = needle[1]
<1>1. PICK i \in 1 .. Len(name) : startsWith(SubSeq(name, i, Len(name)), needle)
  BY DEF contains, Holds
<1> DEFINE rest == SubSeq(name, i, Len(name))
<1>2. rest \in Seq(Word) /\ rest[1] = name[i]
  BY <1>1
<1> HIDE DEF rest
<1>3. rest[1] = needle[1]
  BY <1>1, <1>2, PrefixWord DEF rest
<1> QED
  BY <1>2, <1>3

\* No test of getTaskTypeForModel that comes before that for text models takes
\* a text model's name. (The order of its tests.)
LEMMA TextNameIsText ==
  ASSUME NEW name \in TextName, NEW i \in 1 .. 8
  PROVE  ~ Claims(Precedence[i], name)
<1> DEFINE Words == {"gemma", "4", "llama", "llamacpp", "imageunderstanding"}
           Other == {"resnet", "tensorflow", "seg", "pose", "rfdetr", "yolo", "splat"}
           Word  == Words \cup Other \cup {"depth", "anything", "v2"}
<1>1. name \in Seq(Word) /\ \A k \in 1 .. Len(name) : name[k] \in Words
  <2>1. ASSUME NEW v \in Words, NEW w \in Words, name = <<v, w>>
        PROVE  name \in Seq(Word) /\ \A k \in 1 .. Len(name) : name[k] \in Words
    <3> HIDE DEF Words
    <3>1. v \in Word /\ w \in Word
      OBVIOUS
    <3> HIDE DEF Word
    <3> QED
      BY <2>1, <3>1
  <2>2. ASSUME NEW w \in Words, name = <<w>>
        PROVE  name \in Seq(Word) /\ \A k \in 1 .. Len(name) : name[k] \in Words
    <3> HIDE DEF Words
    <3>1. w \in Word
      OBVIOUS
    <3> HIDE DEF Word
    <3> QED
      BY <2>2, <3>1
  <2>3. (\E v, w \in Words : name = <<v, w>>) \/ \E w \in Words : name = <<w>>
    BY DEF TextName
  <2> QED
    BY <2>1, <2>2, <2>3
<1>2. ASSUME NEW needle \in Seq(Word), needle # <<>>, needle[1] \notin Words
      PROVE  ~ startsWith(name, needle) /\ ~ contains(name, needle)
  <2> HIDE DEF Words, Word
  <2>1. ASSUME contains(name, needle) PROVE FALSE
    <3>1. PICK k \in 1 .. Len(name) : name[k] = needle[1]
      BY <1>1, <1>2, <2>1, ContainedWord
    <3> QED
      BY <1>1, <1>2, <3>1
  <2>2. ASSUME startsWith(name, needle) PROVE FALSE
    <3>1. name # <<>> /\ name[1] = needle[1]
      BY <1>1, <1>2, <2>2, PrefixWord
    <3>2. 1 \in 1 .. Len(name)
      BY <1>1, <3>1
    <3> QED
      BY <1>1, <1>2, <3>1, <3>2
  <2> QED
    BY <2>1, <2>2
<1>3. ASSUME NEW w \in Word, w \notin Words
      PROVE  ~ startsWith(name, <<w>>) /\ ~ contains(name, <<w>>)
  <2> HIDE DEF Words, Word
  <2>1. <<w>> \in Seq(Word) /\ <<w>> # <<>> /\ <<w>>[1] = w
    OBVIOUS
  <2> QED
    BY <1>2, <1>3, <2>1
<1>4. ~ contains(name, <<"depth", "anything", "v2">>)
  <2> DEFINE needle == <<"depth", "anything", "v2">>
  <2>1. "depth" \notin Words /\ {"depth", "anything", "v2"} \subseteq Word
    OBVIOUS
  <2> HIDE DEF Words, Word
  <2>2. needle \in Seq(Word) /\ needle # <<>> /\ needle[1] = "depth"
    BY <2>1
  <2> HIDE DEF needle
  <2>3. ~ contains(name, needle)
    BY <1>2, <2>1, <2>2
  <2> QED
    BY <2>3 DEF needle
<1>5. /\ ~ startsWith(name, <<"resnet">>) /\ ~ contains(name, <<"tensorflow">>)
      /\ ~ contains(name, <<"seg">>) /\ ~ contains(name, <<"pose">>)
      /\ ~ startsWith(name, <<"rfdetr">>) /\ ~ startsWith(name, <<"yolo">>)
      /\ ~ contains(name, <<"splat">>)
  <2>1. \A w \in Other : w \in Word /\ w \notin Words
    OBVIOUS
  <2>2. \A w \in Other : ~ startsWith(name, <<w>>) /\ ~ contains(name, <<w>>)
    <3> HIDE DEF Words, Word, Other
    <3> QED
      BY <1>3, <2>1
  <2>3. Other = {"resnet", "tensorflow", "seg", "pose", "rfdetr", "yolo", "splat"}
    OBVIOUS
  <2> HIDE DEF Words, Word, Other
  <2> QED
    BY <2>2, <2>3
<1>6. /\ name \notin {<<"timesformer">>, <<"videomae">>, <<"vivit">>}
      /\ name \notin {<<"torchvision", "classifier">>, <<"vit", "classifier">>}
      /\ name # <<"raft">> /\ name \notin {<<"lgm">>, <<"grm">>, <<"lgm", "mini">>}
      /\ name \notin {<<"owlv2">>, <<"owlvit">>, <<"groundingdino">>}
  BY DEF TextName
<1>7. Precedence[i] \in {"VideoClassification", "Classification", "InstanceSegmentation",
        "OpticalFlow", "PoseEstimation", "DepthEstimation", "GaussianSplatting",
        "OpenVocabDetection"}
  BY DEF Precedence
<1> QED
  BY <1>4, <1>5, <1>6, <1>7 DEF Claims

\* The task of a name is the first whose test takes it.
\* (The returns of getTaskTypeForModel.)
LEMMA FirstClaimDecides ==
  ASSUME NEW type
  PROVE  LET name == normalizeModelType(type)
             task == getTaskTypeForModel(type)
         IN  \/ task = "Detection" /\ \A i \in 1 .. 9 : ~ Claims(Precedence[i], name)
             \/ \E i \in 1 .. 9 : /\ task = Precedence[i] /\ Claims(task, name)
                                  /\ \A j \in 1 .. 9 : Claims(Precedence[j], name) => i <= j
<1> DEFINE name   == normalizeModelType(type)
           claims == {i \in DOMAIN Precedence : Claims(Precedence[i], name)}
<1>1. DOMAIN Precedence = 1 .. 9
  BY DEF Precedence
<1>2. getTaskTypeForModel(type) =
        IF claims = {} THEN "Detection"
        ELSE Precedence[CHOOSE i \in claims : \A j \in claims : i <= j]
  BY DEF getTaskTypeForModel
<1>3. CASE claims = {}
  BY <1>1, <1>2, <1>3
<1>4. CASE claims # {}
  <2>1. \E i \in claims : \A j \in claims : i <= j
    <3> HIDE DEF name
    <3> QED
      BY <1>1, <1>4
  <2>2. PICK i \in claims : /\ getTaskTypeForModel(type) = Precedence[i]
                            /\ \A j \in claims : i <= j
    BY <1>2, <1>4, <2>1
  <2> QED
    BY <1>1, <2>2
<1> QED
  BY <1>3, <1>4

\* What the rules take for a text model is routed to image understanding.
\* (is_text_task in validateArguments, and getTaskTypeForModel.)
LEMMA TextTaskIsRouted ==
  ASSUME NEW type, normalizeModelType(type) \in TextName
  PROVE  getTaskTypeForModel(type) = "ImageUnderstanding"
<1> DEFINE name == normalizeModelType(type)
<1>1. Claims("ImageUnderstanding", name) /\ Precedence[9] = "ImageUnderstanding"
  BY DEF Claims, Precedence, TextName
<1>2. \A i \in 1 .. 8 : ~ Claims(Precedence[i], name)
  BY TextNameIsText
<1> HIDE DEF name
<1>3. \/ \A i \in 1 .. 9 : ~ Claims(Precedence[i], name)
      \/ \E i \in 1 .. 9 : /\ getTaskTypeForModel(type) = Precedence[i]
                           /\ Claims(Precedence[i], name)
  BY FirstClaimDecides DEF name
<1>4. 9 \in 1 .. 9 /\ \A i \in 1 .. 9 : i = 9 \/ i \in 1 .. 8
  OBVIOUS
<1> QED
  BY <1>1, <1>2, <1>3, <1>4

\* Only the names the rules ask prompts for are routed to open vocabulary.
\* (The model names of validateArguments, and getTaskTypeForModel.)
LEMMA OpenVocabIsNamed ==
  ASSUME NEW type, getTaskTypeForModel(type) = "OpenVocabDetection"
  PROVE  normalizeModelType(type) \in {<<"owlv2">>, <<"owlvit">>, <<"groundingdino">>}
<1>1. Claims("OpenVocabDetection", normalizeModelType(type))
  BY FirstClaimDecides
<1> QED
  BY <1>1 DEF Claims

\* And what the rules ask fits the task. (getTaskTypeForModel.)
LEMMA ReturnedFits == IInv => RulesFitTheTask
<1> SUFFICES ASSUME IInv, Configured PROVE RulesFitTheTask
  BY DEF RulesFitTheTask
<1> DEFINE type == config["type"]
           task == getTaskTypeForModel(type)
<1>1. Returned /\ SourceRules(build, given) /\ OpenVocabRules(build, given)
  BY DEF IInv, Returned, ArgumentRules
<1>2. \A f \in Plain : config[f] = Read(build, given, f)
  BY <1>1, PlainOf
<1>3. /\ config["type"] = Read(build, given, "type")
      /\ config["source"] = Source(build, given)
      /\ config["export_metadata"] = Read(build, given, "export_metadata")
      /\ config["text_prompts"] = Read(build, given, "text_prompts")
      /\ config["tokenizer_vocab"] = Read(build, given, "tokenizer_vocab")
      /\ config["tokenizer_merges"] = Read(build, given, "tokenizer_merges")
      /\ config["bert_tokenizer_vocab"] = Read(build, given, "bert_tokenizer_vocab")
  BY <1>2 DEF Plain, Source
<1>4. ASSUME config["source"] = <<>>, ~ config["export_metadata"]
      PROVE  task = "ImageUnderstanding"
  <2>1. normalizeModelType(type) \in TextName
    BY <1>1, <1>3, <1>4 DEF SourceRules, IsTextTask, TextName
  <2> QED
    BY <2>1, TextTaskIsRouted
<1>5. ASSUME task = "OpenVocabDetection"
      PROVE  /\ config["text_prompts"] # ""
             /\ \/ {config["tokenizer_vocab"], config["tokenizer_merges"]} \subseteq Existing
                \/ config["bert_tokenizer_vocab"] \in Existing
  <2>1. normalizeModelType(type) \in {<<"owlv2">>, <<"owlvit">>, <<"groundingdino">>}
    BY <1>5, OpenVocabIsNamed
  <2> QED
    BY <1>1, <1>3, <2>1 DEF OpenVocabRules, IsFile
<1> QED
  BY <1>4, <1>5 DEF RulesFitTheTask

\* Whatever is typed, what the rules of the command line ask for fits the task
\* the model type is routed to: no run without a source is asked for pictures,
\* and open vocabulary has its prompts and token files.
\* (validateArguments, getTaskTypeForModel.)
THEOREM RulesFit == Spec => []RulesFitTheTask
<1> QED
  BY ParserCorrect, ReturnedFits, PTL

-----------------------------------------------------------------------------
(* Arguments and the parser.                                               *)

\* What else a parse establishes: sources are a list, and a refusal breaks a rule.
Judged ==
  /\ \A s \in DOMAIN given : Primary(s) = "source" => given[s] \in Seq(DOMAIN Canonical)
  /\ outcome = "refused" =>
       ~ (ArgumentRules(build, given) /\ RunModeRules(build, given))

\* It holds before anything has been parsed. (A line as it is typed.)
LEMMA InitJudged == Init => Judged
BY TypingAssumption DEF Init, Judged

\* Every step keeps it. (Type, and the two checks that refuse.)
LEMMA StepJudged == IInv /\ Judged /\ [Next]_vars => Judged'
<1> SUFFICES ASSUME IInv, Judged, [Next]_vars PROVE Judged'
  OBVIOUS
<1>1. ASSUME NEW s \in DOMAIN Choices, NEW v \in Choices[s], Type(s, v)
      PROVE  Judged'
  <2>1. /\ pc = "typing" /\ outcome' = outcome
        /\ given' = [t \in DOMAIN given \cup {s} |-> IF t = s THEN v ELSE given[t]]
    BY <1>1 DEF Type
  <2>2. outcome' # "refused"
    BY <2>1 DEF IInv
  <2>3. ASSUME NEW t \in DOMAIN given', Primary(t) = "source"
        PROVE  given'[t] \in Seq(DOMAIN Canonical)
    <3>1. CASE t = s
      <4>1. Choices[s] \subseteq Seq(DOMAIN Canonical)
        BY <2>3, <3>1, TypingAssumption
      <4> QED
        BY <2>1, <3>1, <4>1
    <3>2. CASE t # s
      BY <2>1, <2>3, <3>2 DEF Judged
    <3> QED
      BY <3>1, <3>2
  <2> QED
    BY <2>2, <2>3 DEF Judged
<1>2. CASE ValidateArguments
  BY <1>2 DEF ValidateArguments, Goto, Ends, Judged
<1>3. CASE ValidateRunModes
  BY <1>3 DEF ValidateRunModes, Goto, Ends, Judged
<1>4. CASE Run \/ CheckKeys \/ PrintHelp \/ ReadCapabilities \/ FillConfig \/ CheckValues
  BY <1>4 DEF Run, CheckKeys, PrintHelp, ReadCapabilities, FillConfig, CheckValues,
              Goto, Ends, Judged
<1>5. CASE UNCHANGED vars
  BY <1>5 DEF vars, Judged
<1> QED
  BY <1>1, <1>2, <1>3, <1>4, <1>5 DEF Next, Done

\* The sources that are judged are a list.
LEMMA SourceIsList ==
  ASSUME TypedWell, Judged
  PROVE  Source(build, given) \in Seq(DOMAIN Canonical)
<1>1. CASE \E s \in DOMAIN given : Primary(s) = "source"
  <2>1. PICK s \in DOMAIN given : Primary(s) = "source"
    BY <1>1
  <2>2. Raw(build, given, "source") = given[s]
    BY <2>1, GivenIsRead
  <2>3. ~ Misfit("source", given[s])
    BY DEF Misfit, Typed, Switch, Count, Threshold
  <2>4. given[s] \in Seq(DOMAIN Canonical)
    BY <2>1 DEF Judged
  <2> QED
    BY <2>2, <2>3, <2>4 DEF Source, Read
<1>2. CASE ~ \E s \in DOMAIN given : Primary(s) = "source"
  <2>1. Default(build, "source") = <<>>
    <3>1. "source" \notin Switch
      BY DEF Switch
    <3> QED
      BY <3>1 DEF Default, ValueDefault
  <2>2. Raw(build, given, "source") = <<>>
    BY <1>2, <2>1 DEF Raw
  <2>3. ~ Misfit("source", <<>>)
    BY DEF Misfit, Typed, Switch, Count, Threshold
  <2>4. <<>> \in Seq(DOMAIN Canonical)
    OBVIOUS
  <2> QED
    BY <2>2, <2>3, <2>4 DEF Source, Read
<1> QED
  BY <1>1, <1>2

\* What is read of the sources in Arguments is what is read of them here.
LEMMA SourcesAsOptions ==
  ASSUME TypedWell, Judged
  PROVE  LET sources == Source(build, given)
         IN  /\ AsOptions.sources = <<>> <=> sources = <<>>
             /\ Len(AsOptions.sources) = 1 <=> Len(sources) = 1
             /\ Abstract!AnyStill(AsOptions) <=> AnyStill(sources)
             /\ Abstract!AllStill(AsOptions) <=> AllStill(sources)
<1> DEFINE sources == Source(build, given)
           kinds == [i \in DOMAIN sources |-> IF sources[i] \in Still THEN "still" ELSE "moving"]
<1>1. sources \in Seq(DOMAIN Canonical)
  BY SourceIsList
<1>2. AsOptions.sources = kinds
  BY DEF AsOptions
<1>3. DOMAIN sources = 1 .. Len(sources) /\ Len(sources) \in Nat
  BY <1>1
<1>4. \A i \in DOMAIN sources : kinds[i] = "still" <=> sources[i] \in Still
  OBVIOUS
<1>5. DOMAIN kinds = DOMAIN sources
  OBVIOUS
<1>6. kinds \in Seq({"still", "moving"}) /\ Len(kinds) = Len(sources)
  <2>1. kinds \in [1 .. Len(sources) -> {"still", "moving"}]
    BY <1>3
  <2> QED
    BY <1>3, <2>1
<1> HIDE DEF kinds, sources
<1>7. kinds = <<>> <=> sources = <<>>
  BY <1>1, <1>6
<1>8. Abstract!AnyStill(AsOptions) <=> AnyStill(sources)
  BY <1>2, <1>4, <1>5 DEF Abstract!AnyStill, AnyStill
<1>9. Abstract!AllStill(AsOptions) <=> AllStill(sources)
  BY <1>2, <1>4, <1>5, <1>7 DEF Abstract!AllStill, AllStill
<1> QED
  BY <1>2, <1>6, <1>7, <1>8, <1>9 DEF sources

\* A text model in Arguments is one here. (is_text_task, and routing.)
LEMMA TextAsOptions == Abstract!IsText(AsOptions) <=> IsTextTask(build, given)
<1> DEFINE type == Read(build, given, "type")  task == getTaskTypeForModel(type)
<1>1. Abstract!IsText(AsOptions) <=> ModelTypeOf(task) = "gemma"
  BY DEF Abstract!IsText, AsOptions
<1>2. ModelTypeOf(task) = "gemma" <=> task = "ImageUnderstanding"
  <2> HIDE DEF task
  <2> QED
    BY DEF ModelTypeOf
<1>3. IsTextTask(build, given) <=> normalizeModelType(type) \in TextName
  BY DEF IsTextTask, TextName
<1>4. normalizeModelType(type) \in TextName => task = "ImageUnderstanding"
  BY TextTaskIsRouted
<1>5. task = "ImageUnderstanding" => normalizeModelType(type) \in TextName
  <2> SUFFICES ASSUME task = "ImageUnderstanding" PROVE normalizeModelType(type) \in TextName
    OBVIOUS
  <2>1. Claims("ImageUnderstanding", normalizeModelType(type))
    BY FirstClaimDecides
  <2> QED
    BY <2>1 DEF Claims, TextName
<1> QED
  BY <1>1, <1>2, <1>3, <1>4, <1>5

\* The rules on combinations are those of Arguments, the rest are the rules on
\* single values. (validateArguments, validateRunModes.)
LEMMA RulesAsOptions ==
  ASSUME TypedWell, Judged
  PROVE  /\ ArgumentRules(build, given) /\ RunModeRules(build, given)
              => Abstract!Accepts(AsOptions)
         /\ Abstract!Accepts(AsOptions) /\ SingleRules
              => ArgumentRules(build, given) /\ RunModeRules(build, given)
<1> DEFINE o == AsOptions  sources == Source(build, given)  text == IsTextTask(build, given)
           any == AnyStill(sources)  all == AllStill(sources)
           export == Read(build, given, "export_metadata")
<1>1. /\ o.sources = <<>> <=> sources = <<>>
      /\ Len(o.sources) = 1 <=> Len(sources) = 1
      /\ Abstract!AnyStill(o) <=> any
      /\ Abstract!AllStill(o) <=> all
      /\ Abstract!IsText(o) <=> text
  BY SourcesAsOptions, TextAsOptions
<1>2. /\ o.warmup = Read(build, given, "warmup")
      /\ o.benchmark = Read(build, given, "benchmark")
      /\ o.export_metadata = export
      /\ o.timings_csv = Is("timings_csv")
      /\ o.output_video = Is("output_video")
      /\ o.kserve_endpoint = Is("kserve_endpoint")
      /\ o.encoded = Encoded(build, given)
      /\ o.task_model = Is("task_model")
      /\ o.gpu = Gpu(build, given)
      /\ o.thresholds = (Provided(given) \cap {"nms_threshold", "mask_threshold"} # {})
  BY DEF AsOptions
<1> HIDE DEF o, sources, text, any, all, export
<1>3. Abstract!SourceRules(o) <=> sources # <<>> \/ text \/ export
  BY <1>1, <1>2 DEF Abstract!SourceRules
<1>4. SourceRules(build, given) <=> /\ sources # <<>> \/ text \/ export
                                    /\ \A i \in DOMAIN sources : IsFile(sources[i])
  BY DEF SourceRules, sources, text, export
<1>5. Abstract!OutputVideoRules(o) <=>
        (Is("output_video") => ~ export /\ ~ text /\ sources # <<>> /\ ~ any)
  BY <1>1, <1>2 DEF Abstract!OutputVideoRules
<1>6. OutputVideoRules(build, given) <=>
        (Is("output_video") => ~ export /\ ~ text /\ sources # <<>> /\ ~ any /\ build.writer)
  BY DEF OutputVideoRules, Is, sources, text, any, export
<1>7. Abstract!EnsembleRules(o) <=>
        /\ Encoded(build, given) => Is("kserve_endpoint") /\ Is("task_model")
        /\ Gpu(build, given) => Encoded(build, given)
  BY <1>2 DEF Abstract!EnsembleRules
<1>8. EnsembleRules(build, given) <=>
        /\ Encoded(build, given) => /\ Is("kserve_endpoint") /\ Is("task_model")
                                    /\ Read(build, given, "batch") = 1
                                    /\ Read(build, given, "input_sizes") = <<>>
        /\ Gpu(build, given) => Encoded(build, given)
  BY DEF EnsembleRules, Is
<1>9. FrameLoopRun(build, given) <=> Abstract!FrameLoopRun(o)
  BY <1>1, <1>2 DEF FrameLoopRun, Abstract!FrameLoopRun, sources, text, any, export
<1>10. SingleImageRun(build, given) <=> Abstract!SingleImageRun(o)
  BY <1>1, <1>2 DEF SingleImageRun, Abstract!SingleImageRun, sources, text, all, export
<1> DEFINE Still1 == sources = <<>> \/ (Len(sources) = 1 /\ all)
           Timed == Is("timings_csv") => FrameLoopRun(build, given)
           Timed1 == Read(build, given, "warmup") \/ Read(build, given, "benchmark")
                       => SingleImageRun(build, given)
           Inner == Is("task_model") => Encoded(build, given)
           Cut == Gpu(build, given) => Provided(given) \cap {"nms_threshold", "mask_threshold"} = {}
<1>11. Abstract!RunModeRules(o) <=> Timed /\ Timed1 /\ (text => Still1) /\ Inner /\ Cut
  BY <1>1, <1>2, <1>9, <1>10 DEF Abstract!RunModeRules
<1>12. TextRules(build, given) <=>
         (text => /\ Still1
                  /\ Read(build, given, "sample_stride") <= 0
                  /\ Read(build, given, "max_frames") <= 0
                  /\ ~ Is("output_format"))
  BY DEF TextRules, Is, sources, text, all
<1>13. RunModeRules(build, given) <=>
         /\ Timed /\ Timed1 /\ TextRules(build, given) /\ Inner /\ Cut
         /\ OutputRules(build, given)
  BY DEF RunModeRules, Is
<1>14. Abstract!Accepts(o) <=> /\ Abstract!SourceRules(o) /\ Abstract!OutputVideoRules(o)
                               /\ Abstract!EnsembleRules(o) /\ Abstract!RunModeRules(o)
  BY DEF Abstract!Accepts
<1>15. SingleRules <=>
         /\ \A i \in DOMAIN sources : IsFile(sources[i])
         /\ EngineRules(build, given) /\ FileRules(build, given)
         /\ OpenVocabRules(build, given) /\ ValueRules(build, given)
         /\ OutputRules(build, given)
         /\ Encoded(build, given) =>
              Read(build, given, "batch") = 1 /\ Read(build, given, "input_sizes") = <<>>
         /\ Is("output_video") => build.writer
         /\ text => /\ Read(build, given, "sample_stride") <= 0
                    /\ Read(build, given, "max_frames") <= 0
                    /\ ~ Is("output_format")
  BY DEF SingleRules, sources, text
<1>16. ArgumentRules(build, given) <=>
         /\ SourceRules(build, given) /\ EngineRules(build, given) /\ FileRules(build, given)
         /\ OpenVocabRules(build, given) /\ ValueRules(build, given)
         /\ EnsembleRules(build, given) /\ OutputVideoRules(build, given)
  BY DEF ArgumentRules
<1> HIDE DEF Still1, Timed, Timed1, Inner, Cut
<1>17. ArgumentRules(build, given) /\ RunModeRules(build, given) => Abstract!Accepts(o)
  BY <1>3, <1>4, <1>5, <1>6, <1>7, <1>8, <1>11, <1>12, <1>13, <1>14, <1>16
<1>18. Abstract!Accepts(o) /\ SingleRules
         => ArgumentRules(build, given) /\ RunModeRules(build, given)
  BY <1>3, <1>4, <1>5, <1>6, <1>7, <1>8, <1>11, <1>12, <1>13, <1>14, <1>15, <1>16
<1> QED
  BY <1>17, <1>18 DEF o

\* What was judged agrees with Arguments. (validateArguments, validateRunModes.)
LEMMA JudgedAgrees == IInv /\ Judged => ArgumentsAgree
<1> SUFFICES ASSUME IInv, Judged PROVE ArgumentsAgree
  OBVIOUS
<1>1. TypedWell
  BY DEF IInv
<1>2. outcome = "config" => ArgumentRules(build, given) /\ RunModeRules(build, given)
  BY DEF IInv, Configured, Returned
<1> QED
  BY <1>1, <1>2, RulesAsOptions DEF Judged, ArgumentsAgree

\* The one-predicate account of the rules that TaskRun starts from lets
\* through what the parser does, and no command line is refused that keeps
\* both it and the rules on single values. (validateArguments and
\* validateRunModes, step by step, against Arguments.)
THEOREM RulesAgree == Spec => []ArgumentsAgree
<1> QED
  BY JudgedAgrees, InitJudged, StepJudged, ParserCorrect, PTL DEF Spec

-----------------------------------------------------------------------------
\* What the parser is made of, but for the parts of TypeOK that IInv holds.
Typing ==
  /\ build \in [grpc : BOOLEAN, writer : BOOLEAN]
  /\ pc \in PC
  /\ errors \subseteq Option
  /\ outcome \in Outcome

\* What is copied into the configuration is the value of an option.
\* (The keys of the parser against the fields it fills.)
LEMMA CopiedAreOptions == Copied \subseteq Option
  BY DEF Copied, Option, Typed, Text, Switch, Count, Threshold

\* Each step of the parser keeps the types. (parseCommandLineArguments.)
LEMMA TypingStep == Typing /\ [Next]_vars => Typing'
<1> SUFFICES ASSUME Typing, [Next]_vars PROVE Typing'
  OBVIOUS
<1> USE DEF Typing, PC, Outcome, Goto, Ends
<1>1. ASSUME NEW options \in SUBSET Option, ReadValues(options)
      PROVE  errors' \subseteq Option
  BY <1>1 DEF ReadValues, Bad
<1>2. CASE \E s \in DOMAIN Choices : \E v \in Choices[s] : Type(s, v)
  BY <1>2 DEF Type
<1>3. CASE Run \/ CheckKeys \/ PrintHelp \/ CheckValues
  BY <1>3 DEF Run, CheckKeys, PrintHelp, CheckValues
<1>4. CASE ReadCapabilities
  <2>1. {"capabilities"} \subseteq Option
    BY DEF Option, Typed, Switch
  <2> QED
    BY <1>1, <1>4, <2>1 DEF ReadCapabilities
<1>5. CASE ValidateArguments
  <2>1. {"export_metadata", "sample_stride", "max_frames", "kserve_timeout_ms", "batch"}
          \subseteq Option
    BY DEF Option, Typed, Text, Switch, Count
  <2> DEFINE late == {o \in {"kserve_timeout_ms"} : Read(build, given, "kserve_endpoint") # ""}
             last == {o \in {"batch"} : Encoded(build, given)}
             all  == {"export_metadata", "sample_stride", "max_frames"} \cup late \cup last
  <2>2. all \subseteq Option
    BY <2>1
  <2>3. ReadValues(all)
    BY <1>5 DEF ValidateArguments
  <2>4. errors' \subseteq Option
    BY <1>1, <2>2, <2>3
  <2> QED
    BY <1>5, <2>4 DEF ValidateArguments
<1>6. CASE ValidateRunModes
  <2>1. {"export_metadata", "warmup", "benchmark"} \subseteq Option
    BY DEF Option, Typed, Text, Switch
  <2> QED
    BY <1>1, <1>6, <2>1 DEF ValidateRunModes
<1>7. CASE FillConfig
  BY <1>1, <1>7, CopiedAreOptions DEF FillConfig
<1>8. CASE Done \/ UNCHANGED vars
  BY <1>8 DEF Done, vars
<1> QED
  BY <1>2, <1>3, <1>4, <1>5, <1>6, <1>7, <1>8 DEF Next

\* The types of the parser's state: what it notes are options, and a
\* configuration it hands out is the whole one. (CommandLineParser.cpp.)
THEOREM TypeCorrect == Spec => []TypeOK
<1>1. Init => Typing
  BY DEF Init, Typing, PC, Outcome
<1>2. Typing /\ IInv => TypeOK
  BY DEF Typing, IInv, Configured, Returned, TypeOK
<1> QED
  BY <1>1, <1>2, TypingStep, ParserCorrect, PTL DEF Spec

-----------------------------------------------------------------------------
(* The routing of the models the document lists.                           *)

\* Induction on the natural numbers, in terms of sets.
LEMMA SetInduction ==
  ASSUME NEW S, 0 \in S, \A n \in Nat : n \in S => n + 1 \in S
  PROVE  Nat \subseteq S
<1> DEFINE T == Nat \ S
           R == OpToRel(<, Nat)
<1>1. SUFFICES ASSUME T # {} PROVE FALSE
  OBVIOUS
<1>2. IsWellFoundedOn(R, Nat)
  BY NatLessThanWellFounded
<1>3. PICK x \in T : \A y \in T : ~ (<<y, x>> \in R)
  <2> HIDE DEF R
  <2>1. T \subseteq Nat
    OBVIOUS
  <2> HIDE DEF T
  <2> QED
    BY WFMin, <1>1, <1>2, <2>1
<1>4. x \in Nat /\ x # 0 /\ x \notin S
  OBVIOUS
<1>5. x - 1 \in Nat /\ x - 1 < x
  BY <1>4
<1>6. <<x - 1, x>> \in R
  BY <1>4, <1>5 DEF OpToRel
<1>7. x - 1 \in S
  BY <1>3, <1>5, <1>6
<1> QED
  BY <1>4, <1>5, <1>7

\* What is left of the first n words of a name, for each n.
IsNormal(p, n, name) ==
  p = [k \in 0 .. n |->
         IF k = 0 THEN <<>>
         ELSE IF name[k] \in Separator THEN p[k - 1]
         ELSE Append(p[k - 1], LowerCase(name[k]))]

\* The loop over a name's characters has a result, the last of what it has
\* left. (normalizeModelType.)
LEMMA NormalDef ==
  ASSUME NEW name, Len(name) \in Nat
  PROVE  \E p : IsNormal(p, Len(name), name) /\ normalizeModelType(name) = p[Len(name)]
<1> DEFINE S == {n \in Nat : \E p : IsNormal(p, n, name)}
<1>1. 0 \in S
  <2>1. IsNormal([k \in 0 .. 0 |-> <<>>], 0, name)
    BY DEF IsNormal
  <2> QED
    BY <2>1
<1>2. ASSUME NEW n \in Nat, n \in S PROVE n + 1 \in S
  <2>1. PICK p : IsNormal(p, n, name)
    BY <1>2
  <2> DEFINE w == name[n + 1]
             q == [k \in 0 .. n + 1 |->
                     IF k = n + 1
                     THEN IF w \in Separator THEN p[n] ELSE Append(p[n], LowerCase(w))
                     ELSE p[k]]
  <2>2. \A k \in 0 .. n : q[k] = p[k]
    OBVIOUS
  <2>3. \A k \in 0 .. n + 1 : q[k] = IF k = 0 THEN <<>>
                                     ELSE IF name[k] \in Separator THEN q[k - 1]
                                     ELSE Append(q[k - 1], LowerCase(name[k]))
    <3> TAKE k \in 0 .. n + 1
    <3>1. CASE k = n + 1
      <4>1. q[k] = IF w \in Separator THEN p[n] ELSE Append(p[n], LowerCase(w))
        BY <3>1
      <4>2. q[k - 1] = p[n] /\ k # 0
        BY <3>1, <2>2
      <4> HIDE DEF q
      <4> QED
        BY <3>1, <4>1, <4>2
    <3>2. CASE k = 0
      <4>1. q[k] = p[k] /\ p[0] = <<>>
        BY <3>2, <2>1, <2>2 DEF IsNormal
      <4> HIDE DEF q
      <4> QED
        BY <3>2, <4>1
    <3>3. CASE k \in 1 .. n
      <4>1. k - 1 \in 0 .. n /\ k \in 0 .. n /\ k # 0
        BY <3>3
      <4>2. p[k] = IF name[k] \in Separator THEN p[k - 1]
                   ELSE Append(p[k - 1], LowerCase(name[k]))
        BY <4>1, <2>1 DEF IsNormal
      <4>3. q[k] = p[k] /\ q[k - 1] = p[k - 1]
        BY <4>1, <2>2
      <4> HIDE DEF q
      <4> QED
        BY <4>1, <4>2, <4>3
    <3> QED
      BY <3>1, <3>2, <3>3
  <2>4. q = [k \in 0 .. n + 1 |-> q[k]]
    OBVIOUS
  <2>5. IsNormal(q, n + 1, name)
    <3> HIDE DEF q
    <3> QED
      BY <2>3, <2>4 DEF IsNormal
  <2> QED
    BY <2>5
<1>3. Len(name) \in S
  <2> HIDE DEF S
  <2> QED
    BY <1>1, <1>2, SetInduction
<1> QED
  BY <1>3 DEF normalizeModelType, IsNormal

\* The words of a name that a word is looked for in.
IsWord(w) == w \notin Separator /\ LowerCase(w) = w

\* One word more, or one separator more. (The body of the loop.)
Steps(p, m, name) ==
  /\ p[0] = <<>>
  /\ \A k \in 1 .. m : /\ name[k] \in Separator => p[k] = p[k - 1]
                       /\ IsWord(name[k]) => p[k] = Append(p[k - 1], name[k])

\* The loop over a name takes these steps. (normalizeModelType.)
LEMMA NormalSteps ==
  ASSUME NEW name, NEW m \in Nat, Len(name) = m
  PROVE  \E p : Steps(p, m, name) /\ normalizeModelType(name) = p[m]
<1>1. PICK p : IsNormal(p, m, name) /\ normalizeModelType(name) = p[m]
  BY NormalDef
<1>2. p[0] = <<>>
  BY <1>1 DEF IsNormal
<1>3. ASSUME NEW k \in 1 .. m
      PROVE  /\ name[k] \in Separator => p[k] = p[k - 1]
             /\ IsWord(name[k]) => p[k] = Append(p[k - 1], name[k])
  <2>1. k \in 0 .. m /\ k # 0
    OBVIOUS
  <2>2. p[k] = IF name[k] \in Separator THEN p[k - 1]
               ELSE Append(p[k - 1], LowerCase(name[k]))
    BY <1>1, <2>1 DEF IsNormal
  <2> QED
    BY <2>2 DEF IsWord
<1>4. Steps(p, m, name)
  BY <1>2, <1>3 DEF Steps
<1> QED
  BY <1>1, <1>4

\* What is appended comes last, behind what was there.
\* (push_back in normalizeModelType.)
LEMMA Builds ==
  ASSUME NEW S, NEW s \in Seq(S), NEW e \in S, NEW t, t = Append(s, e)
  PROVE  /\ t \in Seq(S)
         /\ Len(t) = Len(s) + 1
         /\ t[Len(s) + 1] = e
         /\ \A i \in 1 .. Len(s) : t[i] = s[i]
BY AppendProperties

\* What appending builds. (Names of up to three words.)
LEMMA Appended ==
  ASSUME NEW a, NEW b, NEW c
  PROVE  /\ Append(<<>>, a) = <<a>>
         /\ Append(<<a>>, b) = <<a, b>>
         /\ Append(<<a, b>>, c) = <<a, b, c>>
<1>1. Append(<<>>, a) = <<a>>
  OBVIOUS
<1>2. Append(<<a>>, b) = <<a, b>>
  <2> DEFINE S == {a, b}  s == <<a>>  t == Append(s, b)
  <2>1. s \in Seq(S) /\ Len(s) = 1 /\ s[1] = a /\ b \in S
    OBVIOUS
  <2> HIDE DEF S, s
  <2>6. t = Append(s, b)
    OBVIOUS
  <2> HIDE DEF t
  <2>4. /\ t \in Seq(S) /\ Len(t) = Len(s) + 1 /\ t[Len(s) + 1] = b
        /\ \A i \in 1 .. Len(s) : t[i] = s[i]
    BY <2>1, <2>6, Builds
  <2>2. t \in Seq(S) /\ Len(t) = 2 /\ t[1] = a /\ t[2] = b
    BY <2>1, <2>4
  <2>3. t = <<a, b>>
    BY <2>2
  <2> QED
    BY <2>3 DEF s, t
<1>3. Append(<<a, b>>, c) = <<a, b, c>>
  <2> DEFINE S == {a, b, c}  s == <<a, b>>  t == Append(s, c)
  <2>1. Len(s) = 2 /\ s[1] = a /\ s[2] = b
    OBVIOUS
  <2>5. s \in Seq(S) /\ c \in S
    OBVIOUS
  <2> HIDE DEF S, s
  <2>6. t = Append(s, c)
    OBVIOUS
  <2> HIDE DEF t
  <2>4. /\ t \in Seq(S) /\ Len(t) = Len(s) + 1 /\ t[Len(s) + 1] = c
        /\ \A i \in 1 .. Len(s) : t[i] = s[i]
    BY <2>5, <2>6, Builds
  <2>2. t \in Seq(S) /\ Len(t) = 3 /\ t[1] = a /\ t[2] = b /\ t[3] = c
    BY <2>1, <2>4, <2>5
  <2>3. t = <<a, b, c>>
    BY <2>2
  <2> QED
    BY <2>3 DEF s, t
<1> QED
  BY <1>1, <1>2, <1>3

\* The names of the document come in these patterns of words and separators.
LEMMA OneWord ==
  ASSUME NEW a, IsWord(a)
  PROVE  normalizeModelType(<<a>>) = <<a>>
<1> DEFINE name == <<a>>
<1>1. Len(name) = 1 /\ name[1] = a
  OBVIOUS
<1> HIDE DEF name
<1>2. PICK p : Steps(p, 1, name) /\ normalizeModelType(name) = p[1]
  BY <1>1, NormalSteps
<1>3. p[1] = <<a>>
  <2>1. p[1] = Append(<<>>, a)
    BY <1>1, <1>2 DEF Steps
  <2> QED
    BY <2>1, Appended
<1> QED
  BY <1>2, <1>3 DEF name

\* Two words, as they are.
LEMMA TwoWords ==
  ASSUME NEW a, NEW b, IsWord(a), IsWord(b)
  PROVE  normalizeModelType(<<a, b>>) = <<a, b>>
<1> DEFINE name == <<a, b>>
<1>1. Len(name) = 2 /\ name[1] = a /\ name[2] = b
  OBVIOUS
<1> HIDE DEF name
<1>2. PICK p : Steps(p, 2, name) /\ normalizeModelType(name) = p[2]
  BY <1>1, NormalSteps
<1>3. p[1] = <<a>>
  <2>1. p[1] = Append(<<>>, a)
    BY <1>1, <1>2 DEF Steps
  <2> QED
    BY <2>1, Appended
<1>4. p[2] = <<a, b>>
  <2>1. p[2] = Append(p[1], b)
    BY <1>1, <1>2 DEF Steps
  <2> QED
    BY <2>1, <1>3, Appended
<1> QED
  BY <1>2, <1>4 DEF name

\* Three words, as they are.
LEMMA ThreeWords ==
  ASSUME NEW a, NEW b, NEW c, IsWord(a), IsWord(b), IsWord(c)
  PROVE  normalizeModelType(<<a, b, c>>) = <<a, b, c>>
<1> DEFINE name == <<a, b, c>>
<1>1. Len(name) = 3 /\ name[1] = a /\ name[2] = b /\ name[3] = c
  OBVIOUS
<1> HIDE DEF name
<1>2. PICK p : Steps(p, 3, name) /\ normalizeModelType(name) = p[3]
  BY <1>1, NormalSteps
<1>3. p[1] = <<a>>
  <2>1. p[1] = Append(<<>>, a)
    BY <1>1, <1>2 DEF Steps
  <2> QED
    BY <2>1, Appended
<1>4. p[2] = <<a, b>>
  <2>1. p[2] = Append(p[1], b)
    BY <1>1, <1>2 DEF Steps
  <2> QED
    BY <2>1, <1>3, Appended
<1>5. p[3] = <<a, b, c>>
  <2>1. p[3] = Append(p[2], c)
    BY <1>1, <1>2 DEF Steps
  <2> QED
    BY <2>1, <1>4, Appended
<1> QED
  BY <1>2, <1>5 DEF name

\* Two words and what is dropped between them.
LEMMA TwoWordsApart ==
  ASSUME NEW a, NEW s, NEW b, IsWord(a), s \in Separator, IsWord(b)
  PROVE  normalizeModelType(<<a, s, b>>) = <<a, b>>
<1> DEFINE name == <<a, s, b>>
<1>1. Len(name) = 3 /\ name[1] = a /\ name[2] = s /\ name[3] = b
  OBVIOUS
<1> HIDE DEF name
<1>2. PICK p : Steps(p, 3, name) /\ normalizeModelType(name) = p[3]
  BY <1>1, NormalSteps
<1>3. p[1] = <<a>>
  <2>1. p[1] = Append(<<>>, a)
    BY <1>1, <1>2 DEF Steps
  <2> QED
    BY <2>1, Appended
<1>4. p[2] = <<a>>
  <2>1. p[2] = p[1]
    BY <1>1, <1>2 DEF Steps
  <2> QED
    BY <2>1, <1>3
<1>5. p[3] = <<a, b>>
  <2>1. p[3] = Append(p[2], b)
    BY <1>1, <1>2 DEF Steps
  <2> QED
    BY <2>1, <1>4, Appended
<1> QED
  BY <1>2, <1>5 DEF name

\* Three words, a separator before the third.
LEMMA ThirdWordApart ==
  ASSUME NEW a, NEW b, NEW s, NEW c, IsWord(a), IsWord(b), s \in Separator, IsWord(c)
  PROVE  normalizeModelType(<<a, b, s, c>>) = <<a, b, c>>
<1> DEFINE name == <<a, b, s, c>>
<1>1. Len(name) = 4 /\ name[1] = a /\ name[2] = b /\ name[3] = s /\ name[4] = c
  OBVIOUS
<1> HIDE DEF name
<1>2. PICK p : Steps(p, 4, name) /\ normalizeModelType(name) = p[4]
  BY <1>1, NormalSteps
<1>3. p[1] = <<a>>
  <2>1. p[1] = Append(<<>>, a)
    BY <1>1, <1>2 DEF Steps
  <2> QED
    BY <2>1, Appended
<1>4. p[2] = <<a, b>>
  <2>1. p[2] = Append(p[1], b)
    BY <1>1, <1>2 DEF Steps
  <2> QED
    BY <2>1, <1>3, Appended
<1>5. p[3] = <<a, b>>
  <2>1. p[3] = p[2]
    BY <1>1, <1>2 DEF Steps
  <2> QED
    BY <2>1, <1>4
<1>6. p[4] = <<a, b, c>>
  <2>1. p[4] = Append(p[3], c)
    BY <1>1, <1>2 DEF Steps
  <2> QED
    BY <2>1, <1>5, Appended
<1> QED
  BY <1>2, <1>6 DEF name

\* Three words, a separator between each.
LEMMA ThreeWordsApart ==
  ASSUME NEW a, NEW s, NEW b, NEW c, IsWord(a), s \in Separator, IsWord(b), IsWord(c)
  PROVE  normalizeModelType(<<a, s, b, s, c>>) = <<a, b, c>>
<1> DEFINE name == <<a, s, b, s, c>>
<1>1. Len(name) = 5 /\ name[1] = a /\ name[2] = s /\ name[3] = b /\ name[4] = s /\ name[5] = c
  OBVIOUS
<1> HIDE DEF name
<1>2. PICK p : Steps(p, 5, name) /\ normalizeModelType(name) = p[5]
  BY <1>1, NormalSteps
<1>3. p[1] = <<a>>
  <2>1. p[1] = Append(<<>>, a)
    BY <1>1, <1>2 DEF Steps
  <2> QED
    BY <2>1, Appended
<1>4. p[2] = <<a>>
  <2>1. p[2] = p[1]
    BY <1>1, <1>2 DEF Steps
  <2> QED
    BY <2>1, <1>3
<1>5. p[3] = <<a, b>>
  <2>1. p[3] = Append(p[2], b)
    BY <1>1, <1>2 DEF Steps
  <2> QED
    BY <2>1, <1>4, Appended
<1>6. p[4] = <<a, b>>
  <2>1. p[4] = p[3]
    BY <1>1, <1>2 DEF Steps
  <2> QED
    BY <2>1, <1>5
<1>7. p[5] = <<a, b, c>>
  <2>1. p[5] = Append(p[4], c)
    BY <1>1, <1>2 DEF Steps
  <2> QED
    BY <2>1, <1>6, Appended
<1> QED
  BY <1>2, <1>7 DEF name

\* The task types that a test of getTaskTypeForModel is for.
Tested == {"VideoClassification", "Classification", "InstanceSegmentation", "OpticalFlow",
           "PoseEstimation", "DepthEstimation", "GaussianSplatting",
           "OpenVocabDetection", "ImageUnderstanding"}

\* Words of which a name that passes the test for a task has one.
Marks(task) ==
  CASE task = "VideoClassification"  -> {"timesformer", "videomae", "vivit"}
    [] task = "Classification"       -> {"classifier", "resnet", "tensorflow"}
    [] task = "InstanceSegmentation" -> {"seg"}
    [] task = "OpticalFlow"          -> {"raft"}
    [] task = "PoseEstimation"       -> {"pose", "keypoint", "kpt"}
    [] task = "DepthEstimation"      -> {"depth"}
    [] task = "GaussianSplatting"    -> {"lgm", "grm", "splat"}
    [] task = "OpenVocabDetection"   -> {"owlv2", "owlvit", "groundingdino"}
    [] task = "ImageUnderstanding"   -> {"gemma", "llama", "llamacpp", "imageunderstanding"}

Marked(name, marks) == \E i \in 1 .. Len(name) : name[i] \in marks

\* Looking for one word. (std::string::find and rfind of it.)
LEMMA OneWordTests ==
  ASSUME NEW Word, NEW name \in Seq(Word), NEW w
  PROVE  /\ startsWith(name, <<w>>) <=> Len(name) >= 1 /\ name[1] = w
         /\ contains(name, <<w>>) <=> \E i \in 1 .. Len(name) : name[i] = w
<1> DEFINE All == Word \cup {w}
<1>1. name \in Seq(All) /\ <<w>> \in Seq(All) /\ <<w>> # <<>> /\ <<w>>[1] = w
      /\ Len(<<w>>) = 1
  OBVIOUS
<1>2. ASSUME NEW s \in Seq(All)
      PROVE  startsWith(s, <<w>>) <=> Len(s) >= 1 /\ s[1] = w
  <2> HIDE DEF All
  <2>1. ASSUME startsWith(s, <<w>>) PROVE Len(s) >= 1 /\ s[1] = w
    <3>1. s # <<>> /\ s[1] = <<w>>[1]
      BY <1>1, <1>2, <2>1, PrefixWord
    <3> QED
      BY <1>1, <3>1
  <2>2. ASSUME Len(s) >= 1, s[1] = w PROVE startsWith(s, <<w>>)
    <3> DEFINE first == SubSeq(s, 1, 1)
    <3>2. first \in Seq(All) /\ Len(first) = 1 /\ first[1] = w
      BY <1>2, <2>2
    <3> HIDE DEF first
    <3>3. first = <<w>>
      BY <3>2
    <3>1. SubSeq(s, 1, 1) = <<w>>
      BY <3>3 DEF first
    <3> QED
      BY <1>1, <2>2, <3>1 DEF startsWith
  <2> QED
    BY <2>1, <2>2
<1>3. ASSUME NEW i \in 1 .. Len(name)
      PROVE  startsWith(SubSeq(name, i, Len(name)), <<w>>) <=> name[i] = w
  <2> DEFINE rest == SubSeq(name, i, Len(name))
  <2> HIDE DEF All
  <2>1. rest \in Seq(All) /\ Len(rest) >= 1 /\ rest[1] = name[i]
    BY <1>1
  <2> HIDE DEF rest
  <2>2. startsWith(rest, <<w>>) <=> name[i] = w
    BY <1>2, <2>1
  <2> QED
    BY <2>2 DEF rest
<1>4. contains(name, <<w>>) <=> \E i \in 1 .. Len(name) : name[i] = w
  BY <1>3 DEF contains, Holds
<1> QED
  BY <1>1, <1>2, <1>4

\* A test takes no name without one of its words. (getTaskTypeForModel.)
LEMMA ClaimNeedsMark ==
  ASSUME NEW Word, NEW name \in Seq(Word), NEW task \in Tested, Claims(task, name)
  PROVE  Marked(name, Marks(task))
<1>1. ASSUME NEW w, startsWith(name, <<w>>) \/ contains(name, <<w>>)
      PROVE  \E i \in 1 .. Len(name) : name[i] = w
  <2>1. CASE startsWith(name, <<w>>)
    <3>1. Len(name) >= 1 /\ name[1] = w
      BY <2>1, OneWordTests
    <3> QED
      BY <3>1
  <2>2. CASE contains(name, <<w>>)
    BY <2>2, OneWordTests
  <2> QED
    BY <1>1, <2>1, <2>2
<1>2. ASSUME NEW w, w \in Marks(task), startsWith(name, <<w>>) \/ contains(name, <<w>>)
      PROVE  Marked(name, Marks(task))
  BY <1>1, <1>2 DEF Marked
<1>3. ASSUME NEW w, w \in Marks(task), name = <<w>>
      PROVE  Marked(name, Marks(task))
  <2>1. Len(name) = 1 /\ name[1] = w
    BY <1>3
  <2> QED
    BY <1>3, <2>1 DEF Marked
<1>4. ASSUME NEW v, NEW w, v \in Marks(task) \/ w \in Marks(task), name = <<v, w>>
      PROVE  Marked(name, Marks(task))
  <2>1. Len(name) = 2 /\ name[1] = v /\ name[2] = w
    BY <1>4
  <2> QED
    BY <1>4, <2>1 DEF Marked
<1>5. CASE task = "VideoClassification"
  <2>1. \E w \in Marks(task) : name = <<w>>
    BY <1>5 DEF Claims, Marks
  <2> QED
    BY <1>3, <2>1
<1>6. CASE task = "Classification"
  <2>1. \/ name = <<"torchvision", "classifier">> \/ name = <<"vit", "classifier">>
        \/ startsWith(name, <<"resnet">>) \/ contains(name, <<"tensorflow">>)
    BY <1>6 DEF Claims
  <2>2. {"classifier", "resnet", "tensorflow"} \subseteq Marks(task)
    BY <1>6 DEF Marks
  <2> QED
    BY <1>2, <1>4, <2>1, <2>2
<1>7. CASE task = "InstanceSegmentation"
  <2>1. contains(name, <<"seg">>) /\ "seg" \in Marks(task)
    BY <1>7 DEF Claims, Marks
  <2> QED
    BY <1>2, <2>1
<1>8. CASE task = "OpticalFlow"
  <2>1. name = <<"raft">> /\ "raft" \in Marks(task)
    BY <1>8 DEF Claims, Marks
  <2> QED
    BY <1>3, <2>1
<1>9. CASE task = "PoseEstimation"
  <2>1. \/ contains(name, <<"pose">>) \/ contains(name, <<"keypoint">>)
        \/ contains(name, <<"kpt">>)
    BY <1>9 DEF Claims
  <2>2. {"pose", "keypoint", "kpt"} \subseteq Marks(task)
    BY <1>9 DEF Marks
  <2> QED
    BY <1>2, <2>1, <2>2
<1>10. CASE task = "DepthEstimation"
  <2>1. contains(name, <<"depth">>) \/ contains(name, <<"depth", "anything", "v2">>)
    BY <1>10 DEF Claims
  <2>2. "depth" \in Marks(task)
    BY <1>10 DEF Marks
  <2>3. ASSUME contains(name, <<"depth", "anything", "v2">>)
        PROVE  \E i \in 1 .. Len(name) : name[i] = "depth"
    <3> DEFINE All == Word \cup {"depth", "anything", "v2"}
               needle == <<"depth", "anything", "v2">>
    <3>1. name \in Seq(All) /\ needle \in Seq(All) /\ needle # <<>> /\ needle[1] = "depth"
      OBVIOUS
    <3> HIDE DEF All
    <3>2. contains(name, needle)
      BY <2>3
    <3> HIDE DEF needle
    <3> QED
      BY <3>1, <3>2, ContainedWord
  <2> QED
    BY <1>2, <2>1, <2>2, <2>3 DEF Marked
<1>11. CASE task = "GaussianSplatting"
  <2>1. \/ name = <<"lgm">> \/ name = <<"grm">> \/ name = <<"lgm", "mini">>
        \/ contains(name, <<"splat">>)
    BY <1>11 DEF Claims
  <2>2. {"lgm", "grm", "splat"} \subseteq Marks(task)
    BY <1>11 DEF Marks
  <2> QED
    BY <1>2, <1>3, <1>4, <2>1, <2>2
<1>12. CASE task = "OpenVocabDetection"
  <2>1. \E w \in Marks(task) : name = <<w>>
    BY <1>12 DEF Claims, Marks
  <2> QED
    BY <1>3, <2>1
<1>13. CASE task = "ImageUnderstanding"
  <2>1. name = <<"gemma", "4">> \/ \E w \in Marks(task) : name = <<w>>
    BY <1>13 DEF Claims, Marks
  <2>2. "gemma" \in Marks(task)
    BY <1>13 DEF Marks
  <2> QED
    BY <1>3, <1>4, <2>1, <2>2
<1> QED
  BY <1>5, <1>6, <1>7, <1>8, <1>9, <1>10, <1>11, <1>12, <1>13 DEF Tested

\* The words of a name say whose it is: no word of another task's is in it.
Uncontested(name, task) ==
  \A other \in Tested \ {task} : ~ Marked(name, Marks(other))

\* A name with no word of another task's is routed to the task whose test takes
\* it, and to detection when there is none. (getTaskTypeForModel.)
LEMMA UncontestedIsRouted ==
  ASSUME NEW type, NEW Word, normalizeModelType(type) \in Seq(Word),
         NEW task \in Tested \cup {"Detection"},
         Uncontested(normalizeModelType(type), task),
         task # "Detection" => Claims(task, normalizeModelType(type))
  PROVE  getTaskTypeForModel(type) = task
<1> DEFINE name == normalizeModelType(type)
<1>1. \A i \in 1 .. 9 : Precedence[i] \in Tested
  BY DEF Precedence, Tested
<1>2. \A other \in Tested \ {task} : ~ Claims(other, name)
  <2> SUFFICES ASSUME NEW other \in Tested \ {task}, Claims(other, name) PROVE FALSE
    OBVIOUS
  <2> HIDE DEF name
  <2>1. name \in Seq(Word)
    BY DEF name
  <2>2. Marked(name, Marks(other))
    BY <2>1, ClaimNeedsMark
  <2> QED
    BY <2>2 DEF Uncontested, name
<1>3. task # "Detection" => \E i \in 1 .. 9 : Precedence[i] = task
  <2>1. /\ Precedence[1] = "VideoClassification" /\ Precedence[2] = "Classification"
        /\ Precedence[3] = "InstanceSegmentation" /\ Precedence[4] = "OpticalFlow"
        /\ Precedence[5] = "PoseEstimation" /\ Precedence[6] = "DepthEstimation"
        /\ Precedence[7] = "GaussianSplatting" /\ Precedence[8] = "OpenVocabDetection"
        /\ Precedence[9] = "ImageUnderstanding"
    BY DEF Precedence
  <2> QED
    BY <2>1 DEF Tested
<1> HIDE DEF name
<1>4. \/ getTaskTypeForModel(type) = "Detection" /\ \A i \in 1 .. 9 : ~ Claims(Precedence[i], name)
      \/ \E i \in 1 .. 9 : /\ getTaskTypeForModel(type) = Precedence[i]
                           /\ Claims(Precedence[i], name)
  BY FirstClaimDecides DEF name
<1>5. "Detection" \notin Tested
  BY DEF Tested
<1>6. task # "Detection" => Claims(task, name)
  BY DEF name
<1> QED
  BY <1>1, <1>2, <1>3, <1>4, <1>5, <1>6

\* The words that the names of a task's models are made of.
Vocabulary(task) ==
  CASE task = "Detection" ->
         {"yolo", "v4", "v7e2e", "v10", "26", "nas", "rtdetr", "v2", "ul", "ultralytics",
          "dfine", "deim", "rfdetr", "ec", "det", "edgecrafter"}
    [] task = "InstanceSegmentation" -> {"yolo", "v8", "v10", "26", "rfdetr", "ec", "seg"}
    [] task = "Classification"       -> {"torchvision", "tensorflow", "vit", "classifier"}
    [] task = "VideoClassification"  -> {"videomae", "vivit", "timesformer"}
    [] task = "OpticalFlow"          -> {"raft"}
    [] task = "PoseEstimation"       ->
         {"vit", "ec", "yolo", "v8", "11", "26", "v5", "rfdetr", "pose", "keypoint", "kpt"}
    [] task = "DepthEstimation"      -> {"depth", "anything", "v2", "yolo", "26n"}
    [] task = "OpenVocabDetection"   -> {"owlv2", "owlvit", "groundingdino"}
    [] task = "ImageUnderstanding"   -> {"gemma", "4", "llama", "llamacpp", "imageunderstanding"}
    [] task = "GaussianSplatting"    -> {"lgm", "grm", "mini", "gaussian", "splat", "ting"}

Types == Tested \cup {"Detection"}

\* No task's vocabulary has a word of another's tests. (taskCapabilities.)
LEMMA VocabularyIsOwn ==
  ASSUME NEW task \in Types, NEW other \in Tested \ {task}
  PROVE  Vocabulary(task) \cap Marks(other) = {}
<1> DEFINE V == Vocabulary(task)  M == Marks(other)
<1>1. task \in Types /\ other \in Tested /\ other # task
  OBVIOUS
<1>2. CASE task = "Detection"
  BY <1>2 DEF Vocabulary, Marks, Tested
<1>3. CASE task = "InstanceSegmentation"
  BY <1>3 DEF Vocabulary, Marks, Tested
<1>4. CASE task = "Classification"
  BY <1>4 DEF Vocabulary, Marks, Tested
<1>5. CASE task = "VideoClassification"
  BY <1>5 DEF Vocabulary, Marks, Tested
<1>6. CASE task = "OpticalFlow"
  BY <1>6 DEF Vocabulary, Marks, Tested
<1>7. CASE task = "PoseEstimation"
  BY <1>7 DEF Vocabulary, Marks, Tested
<1>8. CASE task = "DepthEstimation"
  BY <1>8 DEF Vocabulary, Marks, Tested
<1>9. CASE task = "OpenVocabDetection"
  BY <1>9 DEF Vocabulary, Marks, Tested
<1>10. CASE task = "ImageUnderstanding"
  BY <1>10 DEF Vocabulary, Marks, Tested
<1>11. CASE task = "GaussianSplatting"
  BY <1>11 DEF Vocabulary, Marks, Tested
<1> QED
  BY <1>2, <1>3, <1>4, <1>5, <1>6, <1>7, <1>8, <1>9, <1>10, <1>11 DEF Types, Tested

\* Its words are words in lower case. (normalizeModelType leaves them.)
LEMMA VocabularyIsPlain ==
  ASSUME NEW task \in Types, NEW w \in Vocabulary(task)
  PROVE  IsWord(w)
<1>1. w \notin {"-", "_", " ", "YOLO", "OWLv2"}
  <2>2. CASE task = "Detection"
    BY <2>2 DEF Vocabulary
  <2>3. CASE task = "InstanceSegmentation"
    BY <2>3 DEF Vocabulary
  <2>4. CASE task = "Classification"
    BY <2>4 DEF Vocabulary
  <2>5. CASE task = "VideoClassification"
    BY <2>5 DEF Vocabulary
  <2>6. CASE task = "OpticalFlow"
    BY <2>6 DEF Vocabulary
  <2>7. CASE task = "PoseEstimation"
    BY <2>7 DEF Vocabulary
  <2>8. CASE task = "DepthEstimation"
    BY <2>8 DEF Vocabulary
  <2>9. CASE task = "OpenVocabDetection"
    BY <2>9 DEF Vocabulary
  <2>10. CASE task = "ImageUnderstanding"
    BY <2>10 DEF Vocabulary
  <2>11. CASE task = "GaussianSplatting"
    BY <2>11 DEF Vocabulary
  <2> QED
    BY <2>2, <2>3, <2>4, <2>5, <2>6, <2>7, <2>8, <2>9, <2>10, <2>11 DEF Types, Tested
<1> QED
  BY <1>1 DEF IsWord, Separator, LowerCase

\* The patterns that names are written in, and what is left of them.
Spelled(name, left, V) ==
  \/ \E a \in V : name = <<a>> /\ left = <<a>>
  \/ \E a, b \in V : name = <<a, b>> /\ left = <<a, b>>
  \/ \E a, b \in V : name = <<a, "-", b>> /\ left = <<a, b>>
  \/ \E a, b, c \in V : name = <<a, b, c>> /\ left = <<a, b, c>>
  \/ \E a, b, c \in V : name = <<a, b, "-", c>> /\ left = <<a, b, c>>
  \/ \E a, b, c \in V : \E s \in Separator :
       name = <<a, s, b, s, c>> /\ left = <<a, b, c>>

\* normalizeModelType on names spelled in one of the patterns.
LEMMA SpelledIsNormal ==
  ASSUME NEW V, \A w \in V : IsWord(w), NEW name, NEW left, Spelled(name, left, V)
  PROVE  normalizeModelType(name) = left /\ left \in Seq(V)
<1>0. "-" \in Separator
  BY DEF Separator
<1>1. CASE \E a \in V : name = <<a>> /\ left = <<a>>
  BY <1>1, OneWord
<1>2. CASE \E a, b \in V : name = <<a, b>> /\ left = <<a, b>>
  BY <1>2, TwoWords
<1>3. CASE \E a, b \in V : name = <<a, "-", b>> /\ left = <<a, b>>
  BY <1>0, <1>3, TwoWordsApart
<1>4. CASE \E a, b, c \in V : name = <<a, b, c>> /\ left = <<a, b, c>>
  BY <1>4, ThreeWords
<1>5. CASE \E a, b, c \in V : name = <<a, b, "-", c>> /\ left = <<a, b, c>>
  BY <1>0, <1>5, ThirdWordApart
<1>6. CASE \E a, b, c \in V : \E s \in Separator :
             name = <<a, s, b, s, c>> /\ left = <<a, b, c>>
  BY <1>6, ThreeWordsApart
<1> QED
  BY <1>1, <1>2, <1>3, <1>4, <1>5, <1>6 DEF Spelled

\* A name of the task's vocabulary that the task's test takes, if it has one,
\* is routed to the task. (getTaskTypeForModel.)
LEMMA SpelledIsRouted ==
  ASSUME NEW task \in Types, NEW name, NEW left, Spelled(name, left, Vocabulary(task)),
         task # "Detection" => Claims(task, left)
  PROVE  getTaskTypeForModel(name) = task
<1> DEFINE V == Vocabulary(task)
<1>1. \A w \in V : IsWord(w)
  BY VocabularyIsPlain
<1>2. \A other \in Tested \ {task} : V \cap Marks(other) = {}
  BY VocabularyIsOwn
<1> HIDE DEF V
<1>3. normalizeModelType(name) = left /\ left \in Seq(V)
  BY <1>1, SpelledIsNormal DEF V
<1>4. Uncontested(left, task)
  <2> SUFFICES ASSUME NEW other \in Tested \ {task}, NEW i \in 1 .. Len(left),
                      left[i] \in Marks(other)
               PROVE  FALSE
    BY DEF Uncontested, Marked
  <2>1. left[i] \in V
    BY <1>3
  <2> QED
    BY <1>2, <2>1
<1> QED
  BY <1>3, <1>4, UncontestedIsRouted DEF Types

\* Each of the document's models, task by task: how its name is spelled, and
\* that the test of its task takes it. (taskCapabilities, getTaskTypeForModel.)
LEMMA DetectionNames ==
  ASSUME NEW name \in Document!Selectors("object_detection")
  PROVE  \E left : Spelled(name, left, Vocabulary("Detection"))
<1> DEFINE V == Vocabulary("Detection")
<1>1. V = {"yolo", "v4", "v7e2e", "v10", "26", "nas", "rtdetr", "v2", "ul", "ultralytics",
           "dfine", "deim", "rfdetr", "ec", "det", "edgecrafter"}
  BY DEF Vocabulary
<1>2. \/ \E a \in V : name = <<a>>
      \/ \E a, b \in V : name = <<a, b>>
      \/ name = <<"edgecrafter", "-", "det">>
  BY <1>1 DEF Document!Selectors
<1>3. "edgecrafter" \in V /\ "det" \in V
  BY <1>1
<1> HIDE DEF V
<1> QED
  BY <1>2, <1>3 DEF Spelled, V

\* The segmentation models.
LEMMA SegmentationNames ==
  ASSUME NEW name \in Document!Selectors("instance_segmentation")
  PROVE  \E left : /\ Spelled(name, left, Vocabulary("InstanceSegmentation"))
                   /\ Claims("InstanceSegmentation", left)
<1> DEFINE V == Vocabulary("InstanceSegmentation")
<1>1. V = {"yolo", "v8", "v10", "26", "rfdetr", "ec", "seg"}
  BY DEF Vocabulary
<1>2. \/ \E a \in V : name = <<a, "seg">>
      \/ name = <<"yolo", "-", "seg">>
      \/ \E a, b \in V : name = <<a, b, "seg">>
      \/ name = <<"yolo", "v8", "-", "seg">>
  BY <1>1 DEF Document!Selectors
<1>3. "seg" \in V /\ "yolo" \in V /\ "v8" \in V
  BY <1>1
<1> HIDE DEF V
<1>4. \E left : /\ Spelled(name, left, V)
                /\ \/ \E a \in V : left = <<a, "seg">>
                   \/ \E a, b \in V : left = <<a, b, "seg">>
  <2>1. CASE \E a \in V : name = <<a, "seg">>
    BY <1>3, <2>1 DEF Spelled
  <2>2. CASE name = <<"yolo", "-", "seg">>
    <3>1. Spelled(name, <<"yolo", "seg">>, V)
      BY <1>3, <2>2 DEF Spelled
    <3> QED
      BY <1>3, <3>1
  <2>3. CASE \E a, b \in V : name = <<a, b, "seg">>
    BY <1>3, <2>3 DEF Spelled
  <2>4. CASE name = <<"yolo", "v8", "-", "seg">>
    <3>1. Spelled(name, <<"yolo", "v8", "seg">>, V)
      BY <1>3, <2>4 DEF Spelled
    <3> QED
      BY <1>3, <3>1
  <2> QED
    BY <1>2, <2>1, <2>2, <2>3, <2>4
<1>5. ASSUME NEW left, \/ \E a \in V : left = <<a, "seg">>
                       \/ \E a, b \in V : left = <<a, b, "seg">>
      PROVE  Claims("InstanceSegmentation", left)
  <2>1. left \in Seq(V) /\ \E i \in 1 .. Len(left) : left[i] = "seg"
    <3>1. CASE \E a \in V : left = <<a, "seg">>
      <4>1. left \in Seq(V) /\ Len(left) = 2 /\ left[2] = "seg"
        BY <1>3, <3>1
      <4> QED
        BY <4>1
    <3>2. CASE \E a, b \in V : left = <<a, b, "seg">>
      <4>1. left \in Seq(V) /\ Len(left) = 3 /\ left[3] = "seg"
        BY <1>3, <3>2
      <4> QED
        BY <4>1
    <3> QED
      BY <1>5, <3>1, <3>2
  <2>2. contains(left, <<"seg">>)
    BY <2>1, OneWordTests
  <2> QED
    BY <2>2 DEF Claims
<1> QED
  BY <1>4, <1>5 DEF V

\* The classifiers.
LEMMA ClassificationNames ==
  ASSUME NEW name \in Document!Selectors("classification")
  PROVE  \E left : /\ Spelled(name, left, Vocabulary("Classification"))
                   /\ Claims("Classification", left)
<1> DEFINE V == Vocabulary("Classification")
<1>1. V = {"torchvision", "tensorflow", "vit", "classifier"}
  BY DEF Vocabulary
<1>2. \E a \in V : name = <<a, "-", "classifier">> /\ a # "classifier"
  BY <1>1 DEF Document!Selectors
<1>3. PICK a \in V : name = <<a, "-", "classifier">> /\ a # "classifier"
  BY <1>2
<1> DEFINE left == <<a, "classifier">>
<1>4. "classifier" \in V
  BY <1>1
<1>5. a \in {"torchvision", "tensorflow", "vit"}
  BY <1>1, <1>3
<1> HIDE DEF V
<1>6. Spelled(name, left, V)
  BY <1>3, <1>4 DEF Spelled
<1>7. a = "tensorflow" => contains(left, <<"tensorflow">>)
  <2>1. left \in Seq(V) /\ Len(left) = 2 /\ left[1] = a
    BY <1>4
  <2> HIDE DEF left
  <2>2. a = "tensorflow" => \E i \in 1 .. Len(left) : left[i] = "tensorflow"
    BY <2>1
  <2> QED
    BY <2>1, <2>2, OneWordTests
<1>8. Claims("Classification", left)
  BY <1>5, <1>7 DEF Claims
<1> QED
  BY <1>6, <1>8 DEF V

\* The models of one word, or of two that are compared as a whole.
LEMMA WholeNames ==
  /\ \A name \in Document!Selectors("video_classification") :
       \E left : /\ Spelled(name, left, Vocabulary("VideoClassification"))
                 /\ Claims("VideoClassification", left)
  /\ \A name \in Document!Selectors("optical_flow") :
       \E left : /\ Spelled(name, left, Vocabulary("OpticalFlow"))
                 /\ Claims("OpticalFlow", left)
  /\ \A name \in Document!Selectors("open_vocabulary_detection") :
       \E left : /\ Spelled(name, left, Vocabulary("OpenVocabDetection"))
                 /\ Claims("OpenVocabDetection", left)
  /\ \A name \in Document!Selectors("image_understanding") :
       \E left : /\ Spelled(name, left, Vocabulary("ImageUnderstanding"))
                 /\ Claims("ImageUnderstanding", left)
<1>1. ASSUME NEW name \in Document!Selectors("video_classification")
      PROVE  \E left : /\ Spelled(name, left, Vocabulary("VideoClassification"))
                       /\ Claims("VideoClassification", left)
  <2>1. \E a \in Vocabulary("VideoClassification") : name = <<a>>
    BY DEF Document!Selectors, Vocabulary
  <2>2. Claims("VideoClassification", name)
    BY DEF Document!Selectors, Claims
  <2> QED
    BY <2>1, <2>2 DEF Spelled
<1>2. ASSUME NEW name \in Document!Selectors("optical_flow")
      PROVE  \E left : /\ Spelled(name, left, Vocabulary("OpticalFlow"))
                       /\ Claims("OpticalFlow", left)
  <2>1. \E a \in Vocabulary("OpticalFlow") : name = <<a>>
    BY DEF Document!Selectors, Vocabulary
  <2>2. Claims("OpticalFlow", name)
    BY DEF Document!Selectors, Claims
  <2> QED
    BY <2>1, <2>2 DEF Spelled
<1>3. ASSUME NEW name \in Document!Selectors("open_vocabulary_detection")
      PROVE  \E left : /\ Spelled(name, left, Vocabulary("OpenVocabDetection"))
                       /\ Claims("OpenVocabDetection", left)
  <2>1. \E a \in Vocabulary("OpenVocabDetection") : name = <<a>>
    BY DEF Document!Selectors, Vocabulary
  <2>2. Claims("OpenVocabDetection", name)
    BY DEF Document!Selectors, Claims
  <2> QED
    BY <2>1, <2>2 DEF Spelled
<1>4. ASSUME NEW name \in Document!Selectors("image_understanding")
      PROVE  \E left : /\ Spelled(name, left, Vocabulary("ImageUnderstanding"))
                       /\ Claims("ImageUnderstanding", left)
  <2>1. \/ \E a \in Vocabulary("ImageUnderstanding") : name = <<a>>
        \/ \E a, b \in Vocabulary("ImageUnderstanding") : name = <<a, b>>
    BY DEF Document!Selectors, Vocabulary
  <2>2. Claims("ImageUnderstanding", name)
    BY DEF Document!Selectors, Claims
  <2> QED
    BY <2>1, <2>2 DEF Spelled
<1> QED
  BY <1>1, <1>2, <1>3, <1>4

\* The splatting models.
LEMMA SplattingNames ==
  ASSUME NEW name \in Document!Selectors("gaussian_splatting")
  PROVE  \E left : /\ Spelled(name, left, Vocabulary("GaussianSplatting"))
                   /\ Claims("GaussianSplatting", left)
<1> DEFINE V == Vocabulary("GaussianSplatting")
<1>1. {"lgm", "grm", "mini", "gaussian", "splat", "ting"} \subseteq V
  BY DEF Vocabulary
<1> HIDE DEF V
<1>2. CASE name \in {<<"lgm">>, <<"grm">>}
  <2>1. Spelled(name, name, V) /\ Claims("GaussianSplatting", name)
    BY <1>1, <1>2 DEF Spelled, Claims
  <2> QED
    BY <2>1 DEF V
<1>3. CASE name = <<"lgm", "-", "mini">>
  <2>1. Spelled(name, <<"lgm", "mini">>, V) /\ Claims("GaussianSplatting", <<"lgm", "mini">>)
    BY <1>1, <1>3 DEF Spelled, Claims
  <2> QED
    BY <2>1 DEF V
<1>4. CASE name = <<"gaussian", "splat", "ting">>
  <2>1. Spelled(name, name, V)
    BY <1>1, <1>4 DEF Spelled
  <2>2. name \in Seq(V) /\ Len(name) = 3 /\ name[2] = "splat"
    BY <1>1, <1>4
  <2>3. \E i \in 1 .. Len(name) : name[i] = "splat"
    BY <2>2
  <2>4. contains(name, <<"splat">>)
    BY <2>2, <2>3, OneWordTests
  <2>5. Claims("GaussianSplatting", name)
    BY <2>4 DEF Claims
  <2> QED
    BY <2>1, <2>5 DEF V
<1>5. name \in {<<"lgm">>, <<"lgm", "-", "mini">>, <<"grm">>, <<"gaussian", "splat", "ting">>}
  BY DEF Document!Selectors
<1> QED
  BY <1>2, <1>3, <1>4, <1>5

\* The depth models.
LEMMA DepthNames ==
  ASSUME NEW name \in Document!Selectors("depth_estimation")
  PROVE  \E left : /\ Spelled(name, left, Vocabulary("DepthEstimation"))
                   /\ Claims("DepthEstimation", left)
<1> DEFINE V == Vocabulary("DepthEstimation")
<1>1. {"depth", "anything", "v2", "yolo", "26n"} \subseteq V
  BY DEF Vocabulary
<1> HIDE DEF V
<1>2. CASE \E s \in Separator : name = <<"depth", s, "anything", s, "v2">>
  <2> DEFINE left == <<"depth", "anything", "v2">>
  <2>1. Spelled(name, left, V)
    BY <1>1, <1>2 DEF Spelled
  <2>2. left \in Seq(V) /\ Len(left) = 3
    BY <1>1
  <2> HIDE DEF left
  <2>3. SubSeq(left, 1, Len(left)) = left
    BY <2>2
  <2>4. startsWith(SubSeq(left, 1, Len(left)), left)
    BY <2>2, <2>3 DEF startsWith
  <2>5. 1 \in 1 .. Len(left)
    BY <2>2
  <2>6. contains(left, left)
    BY <2>4, <2>5 DEF contains, Holds
  <2>7. contains(left, <<"depth", "anything", "v2">>)
    BY <2>6 DEF left
  <2>8. Claims("DepthEstimation", left)
    BY <2>7 DEF Claims
  <2> QED
    BY <2>1, <2>8 DEF V
<1>3. ASSUME NEW left, left \in Seq(V), Len(left) >= 1, left[1] = "yolo",
             \E i \in 1 .. Len(left) : left[i] = "depth"
      PROVE  Claims("DepthEstimation", left)
  <2>1. startsWith(left, <<"yolo">>) /\ contains(left, <<"depth">>)
    BY <1>3, OneWordTests
  <2> QED
    BY <2>1 DEF Claims
<1>4. CASE name = <<"yolo", "-", "depth">>
  <2> DEFINE left == <<"yolo", "depth">>
  <2>1. Spelled(name, left, V)
    BY <1>1, <1>4 DEF Spelled
  <2>2. left \in Seq(V) /\ Len(left) = 2 /\ left[1] = "yolo" /\ left[2] = "depth"
    BY <1>1
  <2> HIDE DEF left
  <2>3. Claims("DepthEstimation", left)
    BY <1>3, <2>2
  <2> QED
    BY <2>1, <2>3 DEF V
<1>5. CASE name = <<"yolo", "26n", "-", "depth">>
  <2> DEFINE left == <<"yolo", "26n", "depth">>
  <2>1. Spelled(name, left, V)
    BY <1>1, <1>5 DEF Spelled
  <2>2. left \in Seq(V) /\ Len(left) = 3 /\ left[1] = "yolo" /\ left[3] = "depth"
    BY <1>1
  <2> HIDE DEF left
  <2>3. Claims("DepthEstimation", left)
    BY <1>3, <2>2
  <2> QED
    BY <2>1, <2>3 DEF V
<1>6. \/ \E s \in Separator : name = <<"depth", s, "anything", s, "v2">>
      \/ name = <<"yolo", "-", "depth">>
      \/ name = <<"yolo", "26n", "-", "depth">>
  BY DEF Document!Selectors, Separator
<1> QED
  BY <1>2, <1>4, <1>5, <1>6

\* The pose models.
LEMMA PoseNames ==
  ASSUME NEW name \in Document!Selectors("pose_estimation")
  PROVE  \E left : /\ Spelled(name, left, Vocabulary("PoseEstimation"))
                   /\ Claims("PoseEstimation", left)
<1> DEFINE V == Vocabulary("PoseEstimation")
           Key == {"pose", "keypoint", "kpt"}
<1>1. {"vit", "ec", "yolo", "v8", "11", "26", "v5", "rfdetr"} \cup Key \subseteq V
  BY DEF Vocabulary
<1> HIDE DEF V
<1>2. ASSUME NEW left, left \in Seq(V), \E i \in 1 .. Len(left) : left[i] = "pose"
      PROVE  Claims("PoseEstimation", left)
  <2>1. contains(left, <<"pose">>)
    BY <1>2, OneWordTests
  <2> QED
    BY <2>1 DEF Claims
<1>3. ASSUME NEW k \in Key PROVE Claims("PoseEstimation", <<"rfdetr", k>>)
  <2> DEFINE left == <<"rfdetr", k>>
  <2>1. left \in Seq(V) /\ Len(left) = 2 /\ left[1] = "rfdetr" /\ left[2] = k
    BY <1>1
  <2> HIDE DEF left
  <2>2. startsWith(left, <<"rfdetr">>) /\ contains(left, <<k>>)
    BY <2>1, OneWordTests
  <2>3. contains(left, <<"pose">>) \/ contains(left, <<"keypoint">>) \/ contains(left, <<"kpt">>)
    BY <2>2
  <2>4. Claims("PoseEstimation", left)
    BY <2>2, <2>3 DEF Claims
  <2> QED
    BY <2>4 DEF left
<1>4. CASE \E k \in Key : name \in {<<"rfdetr", k>>, <<"rfdetr", "-", k>>}
  <2>1. PICK k \in Key : name \in {<<"rfdetr", k>>, <<"rfdetr", "-", k>>}
    BY <1>4
  <2>2. Spelled(name, <<"rfdetr", k>>, V)
    BY <1>1, <2>1 DEF Spelled
  <2> QED
    BY <1>3, <2>2 DEF V
<1>5. CASE \E a \in {"vit", "ec"} : name = <<a, "pose">>
  <2>1. Spelled(name, name, V)
    BY <1>1, <1>5 DEF Spelled
  <2>2. name \in Seq(V) /\ Len(name) = 2 /\ name[2] = "pose"
    BY <1>1, <1>5
  <2>3. Claims("PoseEstimation", name)
    BY <1>2, <2>2
  <2> QED
    BY <2>1, <2>3 DEF V
<1>6. CASE \E v \in {"v8", "11", "26", "v5"} :
             name \in {<<"yolo", v, "pose">>, <<"yolo", v, "-", "pose">>}
  <2>1. PICK v \in {"v8", "11", "26", "v5"} :
          name \in {<<"yolo", v, "pose">>, <<"yolo", v, "-", "pose">>}
    BY <1>6
  <2> DEFINE left == <<"yolo", v, "pose">>
  <2>2. Spelled(name, left, V)
    BY <1>1, <2>1 DEF Spelled
  <2>3. left \in Seq(V) /\ Len(left) = 3 /\ left[3] = "pose"
    BY <1>1
  <2> HIDE DEF left
  <2>4. Claims("PoseEstimation", left)
    BY <1>2, <2>3
  <2> QED
    BY <2>2, <2>4 DEF V
<1>7. \/ \E k \in Key : name \in {<<"rfdetr", k>>, <<"rfdetr", "-", k>>}
      \/ \E a \in {"vit", "ec"} : name = <<a, "pose">>
      \/ \E v \in {"v8", "11", "26", "v5"} :
           name \in {<<"yolo", v, "pose">>, <<"yolo", v, "-", "pose">>}
  <2>1. \/ name \in {<<"vit", "pose">>, <<"ec", "pose">>}
        \/ \E v \in {"v8", "11", "26", "v5"} : name = <<"yolo", v, "pose">>
        \/ \E v \in {"v8", "11", "26", "v5"} : name = <<"yolo", v, "-", "pose">>
        \/ \E k \in {"pose", "keypoint", "kpt"} : name = <<"rfdetr", k>>
        \/ \E k \in {"pose", "keypoint", "kpt"} : name = <<"rfdetr", "-", k>>
    BY DEF Document!Selectors
  <2> QED
    BY <2>1
<1> QED
  BY <1>4, <1>5, <1>6, <1>7

\* A model the document lists under a task is routed to that task.
\* (taskCapabilities against getTaskTypeForModel.)
THEOREM ListedIsRouted ==
  ASSUME NEW task \in Document!Task, NEW name \in Document!Selectors(task)
  PROVE  getTaskTypeForModel(name) = Document!TypeOfTask(task)
<1> DEFINE type == Document!TypeOfTask(task)
<1>1. type \in Types /\ \E left : /\ Spelled(name, left, Vocabulary(type))
                                  /\ type # "Detection" => Claims(type, left)
  <2>1. CASE task = "object_detection"
    <3>1. type = "Detection"
      BY <2>1 DEF Document!TypeOfTask
    <3> QED
      BY <2>1, <3>1, DetectionNames DEF Types
  <2>2. CASE task = "instance_segmentation"
    <3>1. type = "InstanceSegmentation"
      BY <2>2 DEF Document!TypeOfTask
    <3> QED
      BY <2>2, <3>1, SegmentationNames DEF Types, Tested
  <2>3. CASE task = "classification"
    <3>1. type = "Classification"
      BY <2>3 DEF Document!TypeOfTask
    <3> QED
      BY <2>3, <3>1, ClassificationNames DEF Types, Tested
  <2>4. CASE task = "video_classification"
    <3>1. type = "VideoClassification"
      BY <2>4 DEF Document!TypeOfTask
    <3> QED
      BY <2>4, <3>1, WholeNames DEF Types, Tested
  <2>5. CASE task = "optical_flow"
    <3>1. type = "OpticalFlow"
      BY <2>5 DEF Document!TypeOfTask
    <3> QED
      BY <2>5, <3>1, WholeNames DEF Types, Tested
  <2>6. CASE task = "pose_estimation"
    <3>1. type = "PoseEstimation"
      BY <2>6 DEF Document!TypeOfTask
    <3> QED
      BY <2>6, <3>1, PoseNames DEF Types, Tested
  <2>7. CASE task = "depth_estimation"
    <3>1. type = "DepthEstimation"
      BY <2>7 DEF Document!TypeOfTask
    <3> QED
      BY <2>7, <3>1, DepthNames DEF Types, Tested
  <2>8. CASE task = "open_vocabulary_detection"
    <3>1. type = "OpenVocabDetection"
      BY <2>8 DEF Document!TypeOfTask
    <3> QED
      BY <2>8, <3>1, WholeNames DEF Types, Tested
  <2>9. CASE task = "image_understanding"
    <3>1. type = "ImageUnderstanding"
      BY <2>9 DEF Document!TypeOfTask
    <3> QED
      BY <2>9, <3>1, WholeNames DEF Types, Tested
  <2>10. CASE task = "gaussian_splatting"
    <3>1. type = "GaussianSplatting"
      BY <2>10 DEF Document!TypeOfTask
    <3> QED
      BY <2>10, <3>1, SplattingNames DEF Types, Tested
  <2> QED
    BY <2>1, <2>2, <2>3, <2>4, <2>5, <2>6, <2>7, <2>8, <2>9, <2>10 DEF Document!Task
<1> HIDE DEF type
<1>2. getTaskTypeForModel(name) = type
  BY <1>1, SpelledIsRouted
<1> QED
  BY <1>2 DEF type

-----------------------------------------------------------------------------
(* What the parser reads of a line that a consumer composes.               *)

Parameter == {"weights", "labels", "text_prompts", "prompt", "tokenizer_vocab",
  "tokenizer_merges", "bert_tokenizer_vocab", "mmproj", "min_confidence", "nms_threshold",
  "mask_threshold", "segmentation_output", "batch", "input_sizes", "use-gpu", "warmup",
  "benchmark", "iterations", "num_frames", "kserve_endpoint", "kserve_model_name",
  "kserve_model_version", "kserve_transport", "kserve_timeout_ms", "input_mode",
  "task_model", "task_model_version", "postprocess_mode", "timings_csv", "no_display",
  "output_video"}

\* A line is made of an offer of the document: parameters that are offered,
\* those that are required, some that go with one of them, and sources.
Composed(bd, off, besides, filled, sources, line) ==
  /\ line = LineOf(off, filled, sources)
  /\ bd \in [grpc : BOOLEAN, writer : BOOLEAN]
  /\ off.task \in Document!Task
  /\ off.workflow \in Document!Workflow
  /\ off.name \in Document!Selectors(off.task)
  /\ DOMAIN off.more \subseteq Optional(bd, off)
  /\ \A p \in DOMAIN off.more : off.more[p] \in ValuesOf(bd, p)
  /\ besides \subseteq {"input_mode", "task_model"}
  /\ DOMAIN filled = Required(off) \cup besides
  /\ \A p \in DOMAIN filled : filled[p] \in ValuesOf(bd, p)
  /\ sources \in SourceLists(off.task)

\* Everything offered or required is a parameter, and an option of the parser.
LEMMA OfferedAreParameters ==
  ASSUME NEW bd, NEW off, off.task \in Document!Task
  PROVE  /\ Optional(bd, off) \subseteq Parameter
         /\ Required(off) \subseteq Parameter
<1>1. Document!TaskOptional(bd, off.task) \subseteq Parameter
  <2>1. Document!VideoRun(bd) \subseteq Parameter
    BY DEF Document!VideoRun, Parameter
  <2> QED
    BY <2>1 DEF Document!TaskOptional, Parameter, Document!Task
<1>2. Document!WorkflowOptional(off.workflow) \subseteq Parameter
  BY DEF Document!WorkflowOptional, Parameter
<1>3. Document!WorkflowRequired(off.workflow) \subseteq Parameter
  BY DEF Document!WorkflowRequired, Parameter
<1>4. Document!ModelRequired(normalizeModelType(off.name)) \subseteq Parameter
  BY DEF Document!ModelRequired, Parameter
<1> QED
  BY <1>1, <1>2, <1>3, <1>4 DEF Optional, Required

\* Every parameter the document can offer is an option of the parser under
\* its own name, and none of those that end a run or that no document offers.
\* (taskCapabilities against the keys of the parser.)
LEMMA ParametersAreOptions ==
  /\ Parameter \cup {"type", "source"} \subseteq Option
  /\ Parameter \cap {"type", "source"} = {}
  /\ Option \cap DOMAIN Alias = {}
  /\ Parameter \cap {"help", "capabilities", "export_metadata", "output_format",
                     "sample_stride", "max_frames"} = {}
<1>1. Parameter \cup {"type", "source"} \subseteq Option
  BY DEF Parameter, Option, Typed, Switch, Count, Threshold, Text
<1>2. Parameter \cap {"type", "source"} = {}
  BY DEF Parameter
<1>3. Option \cap DOMAIN Alias = {}
  BY DEF Option, Typed, Switch, Count, Threshold, Text, Alias
<1>4. Parameter \cap {"help", "capabilities", "export_metadata", "output_format",
                     "sample_stride", "max_frames"} = {}
  BY DEF Parameter
<1> QED
  BY <1>1, <1>2, <1>3, <1>4

\* The options on the line, each under its own name, and their values.
LineFacts(bd, off, filled, sources, line) ==
  /\ DOMAIN line = {"type"} \cup {s \in {"source"} : sources # <<>>}
                     \cup DOMAIN filled \cup DOMAIN off.more
  /\ DOMAIN line \subseteq Parameter \cup {"type", "source"}
  /\ line["type"] = off.name
  /\ sources # <<>> => line["source"] = sources
  /\ \A p \in DOMAIN line \cap Parameter : line[p] \in ValuesOf(bd, p)
  /\ DOMAIN filled \cup DOMAIN off.more \subseteq Parameter
  /\ \A p \in DOMAIN off.more : line[p] = off.more[p]
  /\ \A p \in DOMAIN filled \ DOMAIN off.more : line[p] = filled[p]

\* A composed line is so. (cv::CommandLineParser is given it.)
LEMMA LineIs ==
  ASSUME NEW bd, NEW off, NEW besides, NEW filled, NEW sources, NEW line,
         Composed(bd, off, besides, filled, sources, line)
  PROVE  LineFacts(bd, off, filled, sources, line)
<1> DEFINE D == {"type"} \cup {s \in {"source"} : sources # <<>>}
                    \cup DOMAIN filled \cup DOMAIN off.more
<1>1. DOMAIN line = D
  BY DEF Composed, LineOf
<1>2. DOMAIN filled \cup DOMAIN off.more \subseteq Parameter
  <2>1. Optional(bd, off) \subseteq Parameter /\ Required(off) \subseteq Parameter
    BY OfferedAreParameters DEF Composed
  <2>2. {"input_mode", "task_model"} \subseteq Parameter
    BY DEF Parameter
  <2> QED
    BY <2>1, <2>2 DEF Composed
<1>3. \A p \in D : line[p] = CASE p = "type"   -> off.name
                               [] p = "source" -> sources
                               [] p \in DOMAIN off.more  -> off.more[p]
                               [] OTHER -> filled[p]
  BY DEF Composed, LineOf
<1>4. line["type"] = off.name
  <2>1. "type" \in D
    OBVIOUS
  <2>2. "type" # "source" /\ "type" \notin DOMAIN off.more
    BY <1>2 DEF Parameter
  <2> HIDE DEF D
  <2> QED
    BY <1>3, <2>1, <2>2
<1>5. sources # <<>> => line["source"] = sources
  <2>1. sources # <<>> => "source" \in D
    OBVIOUS
  <2>2. "type" # "source" /\ "source" \notin DOMAIN off.more
    BY <1>2 DEF Parameter
  <2> HIDE DEF D
  <2> QED
    BY <1>3, <2>1, <2>2
<1>6. \A p \in DOMAIN off.more : line[p] = off.more[p]
  <2> SUFFICES ASSUME NEW p \in DOMAIN off.more PROVE line[p] = off.more[p]
    OBVIOUS
  <2>1. p \in D /\ p # "type" /\ p # "source"
    BY <1>2 DEF Parameter
  <2> HIDE DEF D
  <2> QED
    BY <1>3, <2>1
<1>7. \A p \in DOMAIN filled \ DOMAIN off.more : line[p] = filled[p]
  <2> SUFFICES ASSUME NEW p \in DOMAIN filled \ DOMAIN off.more PROVE line[p] = filled[p]
    OBVIOUS
  <2>1. p \in D /\ p # "type" /\ p # "source" /\ p \notin DOMAIN off.more
    BY <1>2 DEF Parameter
  <2> HIDE DEF D
  <2> QED
    BY <1>3, <2>1
<1>8. D \subseteq Parameter \cup {"type", "source"}
  BY <1>2
<1>9. \A p \in D \cap Parameter : line[p] \in ValuesOf(bd, p)
  <2> SUFFICES ASSUME NEW p \in D \cap Parameter PROVE line[p] \in ValuesOf(bd, p)
    OBVIOUS
  <2>1. p \in DOMAIN off.more \/ p \in DOMAIN filled \ DOMAIN off.more
    BY ParametersAreOptions
  <2> QED
    BY <1>6, <1>7, <2>1 DEF Composed
<1> QED
  BY <1>1, <1>2, <1>4, <1>5, <1>6, <1>7, <1>8, <1>9 DEF LineFacts

\* Everything on it is a value of its type. (get makes nothing else of it.)
LEMMA LineConverts ==
  ASSUME NEW bd, NEW off, NEW besides, NEW filled, NEW sources, NEW line,
         Composed(bd, off, besides, filled, sources, line),
         NEW p \in DOMAIN line
  PROVE  ~ Misfit(p, line[p])
<1>0. LineFacts(bd, off, filled, sources, line)
  BY LineIs
<1>1. DOMAIN line \subseteq Parameter \cup {"type", "source"}
  BY <1>0 DEF LineFacts
<1>2. p \in Parameter => line[p] \in ValuesOf(bd, p)
  BY <1>0, <1>1 DEF LineFacts
<1>3. CASE p \in Typed
  <2>1. p \in Parameter
    BY <1>1, <1>3 DEF Typed, Switch, Count, Threshold
  <2> QED
    BY <1>2, <1>3, <2>1, ConsumerAssumption DEF Composed
<1>4. CASE p \notin Typed
  BY <1>4 DEF Misfit
<1> QED
  BY <1>3, <1>4

\* Reading an option of such a line. (get, and the defaults of params.)
LEMMA LineReads ==
  ASSUME NEW bd, NEW off, NEW besides, NEW filled, NEW sources, NEW line,
         Composed(bd, off, besides, filled, sources, line),
         NEW o \in Option
  PROVE  /\ o \in DOMAIN line => Read(bd, line, o) = line[o]
         /\ o \notin DOMAIN line => Read(bd, line, o) = Default(bd, o)
         /\ ~ Misfit(o, Raw(bd, line, o))
<1>1. DOMAIN line \subseteq Option
  BY LineIs, ParametersAreOptions DEF LineFacts
<1>2. \A s \in DOMAIN line : Primary(s) = s
  BY <1>1, ParametersAreOptions DEF Primary
<1>3. \A p \in DOMAIN line : ~ Misfit(p, line[p])
  BY LineConverts
<1>4. ~ Misfit(o, Default(bd, o))
  BY ConsumerAssumption DEF Composed, Misfit
<1>5. CASE o \in DOMAIN line
  <2>1. \E s \in DOMAIN line : Primary(s) = o
    BY <1>2, <1>5
  <2>2. (CHOOSE s \in DOMAIN line : Primary(s) = o) = o
    BY <1>2, <1>5
  <2>3. Raw(bd, line, o) = line[o]
    BY <2>1, <2>2 DEF Raw
  <2>4. Read(bd, line, o) = line[o]
    BY <1>3, <1>5, <2>3 DEF Read
  <2> QED
    BY <1>3, <1>5, <2>3, <2>4
<1>6. CASE o \notin DOMAIN line
  <2>1. ~ \E s \in DOMAIN line : Primary(s) = o
    BY <1>2, <1>6
  <2>2. Raw(bd, line, o) = Default(bd, o)
    BY <2>1 DEF Raw
  <2>3. Read(bd, line, o) = Default(bd, o)
    BY <1>4, <2>2 DEF Read
  <2> QED
    BY <1>4, <1>6, <2>2, <2>3
<1> QED
  BY <1>5, <1>6

\* What a parameter of each kind may be given. (parameterCatalog.)
LEMMA EnumValues ==
  ASSUME NEW bd, NEW p \in Document!Enum
  PROVE  ValuesOf(bd, p) = Document!Values(bd, p)
<1>1. /\ p \notin Document!Ranged /\ p \notin Switch /\ p # "input_sizes"
      /\ p \notin {"weights", "labels", "mmproj", "tokenizer_vocab", "tokenizer_merges",
                   "bert_tokenizer_vocab"}
      /\ p \notin {"timings_csv", "output_video"}
  BY DEF Document!Enum, Document!Ranged, Switch
<1> QED
  BY <1>1 DEF ValuesOf

\* A number given to a parameter with a range is within it.
\* (The minimum that Capabilities.cpp declares.)
LEMMA RangedValues ==
  ASSUME NEW bd, NEW p \in Document!Ranged, NEW v \in ValuesOf(bd, p)
  PROVE  v \in Int /\ Document!Minimum(p) <= v
<1>1. p \notin Document!Enum
  BY DEF Document!Enum, Document!Ranged
<1>2. /\ p \notin Switch /\ p # "input_sizes"
      /\ p \notin {"weights", "labels", "mmproj", "tokenizer_vocab", "tokenizer_merges",
                   "bert_tokenizer_vocab"}
      /\ p \notin {"timings_csv", "output_video"}
  BY DEF Document!Ranged, Switch
<1>3. v \in {n \in Figures : Document!Minimum(p) <= n /\ n <= Document!Maximum(p)}
  BY <1>1, <1>2 DEF ValuesOf
<1> QED
  BY <1>3, ConsumerAssumption

PaperParameter == {"weights", "labels", "mmproj", "tokenizer_vocab", "tokenizer_merges",
                   "bert_tokenizer_vocab"}

PlaceParameter == {"timings_csv", "output_video"}

PhraseParameter == {"text_prompts", "kserve_endpoint", "task_model"}

\* Files, outputs and texts are given to the parameters that take them.
\* (The kinds of parameter in Capabilities.cpp.)
LEMMA FileValues ==
  ASSUME NEW bd, NEW p
  PROVE  /\ p \in PaperParameter  => ValuesOf(bd, p) = Papers
         /\ p \in PlaceParameter  => ValuesOf(bd, p) = Places
         /\ p \in PhraseParameter => ValuesOf(bd, p) = Phrases
<1>1. ASSUME p \in PaperParameter \cup PlaceParameter \cup PhraseParameter
      PROVE  /\ p \notin Document!Enum /\ p \notin Document!Ranged /\ p \notin Switch
             /\ p # "input_sizes"
  BY <1>1 DEF Document!Enum, Document!Ranged, Switch, PaperParameter, PlaceParameter,
              PhraseParameter
<1>2. p \in PaperParameter => ValuesOf(bd, p) = Papers
  BY <1>1 DEF ValuesOf, PaperParameter
<1>3. p \in PlaceParameter => ValuesOf(bd, p) = Places
  <2>1. p \in PlaceParameter => p \notin PaperParameter
    BY DEF PlaceParameter, PaperParameter
  <2> QED
    BY <1>1, <2>1 DEF ValuesOf, PaperParameter, PlaceParameter
<1>4. p \in PhraseParameter => ValuesOf(bd, p) = Phrases
  <2>1. p \in PhraseParameter => p \notin PaperParameter /\ p \notin PlaceParameter
    BY DEF PlaceParameter, PaperParameter, PhraseParameter
  <2> QED
    BY <1>1, <2>1 DEF ValuesOf, PaperParameter, PlaceParameter
<1> QED
  BY <1>2, <1>3, <1>4

\* The options with a default of their own. (params.)
Defaulted == {"batch", "iterations", "kserve_timeout_ms", "min_confidence", "nms_threshold",
              "mask_threshold", "type", "source", "input_sizes", "segmentation_output",
              "input_mode", "postprocess_mode", "kserve_transport", "kserve_model_version",
              "task_model_version", "num_frames", "sample_stride", "max_frames"}

\* What an option is when it was not typed. (params.)
LEMMA SwitchDefault ==
  ASSUME NEW bd, NEW o \in Switch
  PROVE  Default(bd, o) = FALSE
BY DEF Default

\* These options default to the empty text. (The keys of the parser.)
LEMMA TextDefault ==
  ASSUME NEW bd,
         NEW o \in {"labels", "mmproj", "output_format", "timings_csv", "output_video",
                    "kserve_endpoint", "task_model"}
  PROVE  Default(bd, o) = ""
<1>1. o \notin Switch
  BY DEF Switch
<1>2. o \notin Defaulted
  BY DEF Defaulted
<1>3. ValueDefault(bd, o) = ""
  <2>1. /\ o # "batch" /\ o # "iterations" /\ o # "kserve_timeout_ms" /\ o # "min_confidence"
        /\ o # "nms_threshold" /\ o # "mask_threshold" /\ o # "type"
        /\ o \notin {"source", "input_sizes"} /\ o # "segmentation_output"
        /\ o # "input_mode" /\ o # "postprocess_mode" /\ o # "kserve_transport"
        /\ o \notin {"kserve_model_version", "task_model_version"}
        /\ o \notin {"num_frames", "sample_stride", "max_frames"}
    BY <1>2 DEF Defaulted
  <2> QED
    BY <2>1 DEF ValueDefault
<1> QED
  BY <1>1, <1>3 DEF Default

\* Defaults that are neither a switch nor the empty text. (The keys of the
\* parser.)
LEMMA OwnDefaults ==
  ASSUME NEW bd
  PROVE  /\ Default(bd, "source") = <<>>
         /\ Default(bd, "input_sizes") = <<>>
         /\ Default(bd, "sample_stride") = 0
         /\ Default(bd, "max_frames") = 0
         /\ Default(bd, "batch") = 1
         /\ Default(bd, "kserve_timeout_ms") = 30000
         /\ Default(bd, "segmentation_output") = "mask"
         /\ Default(bd, "input_mode") = "preprocessed"
         /\ Default(bd, "postprocess_mode") = "cpu"
         /\ Default(bd, "kserve_transport") = DefaultTransport(bd)
<1>1. \A o \in Defaulted : o \notin Switch
  BY DEF Switch, Defaulted
<1>2. Default(bd, "source") = <<>>
  <2>1. "source" \notin Switch
    BY <1>1 DEF Defaulted
  <2> QED
    BY <2>1 DEF Default, ValueDefault
<1>3. Default(bd, "input_sizes") = <<>>
  <2>1. "input_sizes" \notin Switch
    BY <1>1 DEF Defaulted
  <2> QED
    BY <2>1 DEF Default, ValueDefault
<1>4. Default(bd, "sample_stride") = 0
  <2>1. "sample_stride" \notin Switch
    BY <1>1 DEF Defaulted
  <2> QED
    BY <2>1 DEF Default, ValueDefault
<1>5. Default(bd, "max_frames") = 0
  <2>1. "max_frames" \notin Switch
    BY <1>1 DEF Defaulted
  <2> QED
    BY <2>1 DEF Default, ValueDefault
<1>6. Default(bd, "batch") = 1
  <2>1. "batch" \notin Switch
    BY <1>1 DEF Defaulted
  <2> QED
    BY <2>1 DEF Default, ValueDefault
<1>7. Default(bd, "kserve_timeout_ms") = 30000
  <2>1. "kserve_timeout_ms" \notin Switch
    BY <1>1 DEF Defaulted
  <2> QED
    BY <2>1 DEF Default, ValueDefault
<1>8. Default(bd, "segmentation_output") = "mask"
  <2>1. "segmentation_output" \notin Switch
    BY <1>1 DEF Defaulted
  <2> QED
    BY <2>1 DEF Default, ValueDefault
<1>9. Default(bd, "input_mode") = "preprocessed"
  <2>1. "input_mode" \notin Switch
    BY <1>1 DEF Defaulted
  <2> QED
    BY <2>1 DEF Default, ValueDefault
<1>10. Default(bd, "postprocess_mode") = "cpu"
  <2>1. "postprocess_mode" \notin Switch
    BY <1>1 DEF Defaulted
  <2> QED
    BY <2>1 DEF Default, ValueDefault
<1>11. Default(bd, "kserve_transport") = DefaultTransport(bd)
  <2>1. "kserve_transport" \notin Switch
    BY <1>1 DEF Defaulted
  <2> QED
    BY <2>1 DEF Default, ValueDefault
<1> QED
  BY <1>2, <1>3, <1>4, <1>5, <1>6, <1>7, <1>8, <1>9, <1>10, <1>11

\* What is read of a parameter is a value it may be given, or its default.
LEMMA ParameterReads ==
  ASSUME NEW bd, NEW off, NEW besides, NEW filled, NEW sources, NEW line,
         Composed(bd, off, besides, filled, sources, line),
         NEW p \in Parameter
  PROVE  /\ p \in DOMAIN line => Read(bd, line, p) \in ValuesOf(bd, p)
         /\ p \notin DOMAIN line => Read(bd, line, p) = Default(bd, p)
         /\ p \in DOMAIN line <=> p \in DOMAIN filled \/ p \in DOMAIN off.more
<1>1. LineFacts(bd, off, filled, sources, line)
  BY LineIs
<1>2. p \in Option /\ p # "type" /\ p # "source"
  BY ParametersAreOptions
<1>3. p \in DOMAIN line <=> p \in DOMAIN filled \/ p \in DOMAIN off.more
  BY <1>1, <1>2 DEF LineFacts
<1>4. p \in DOMAIN line => line[p] \in ValuesOf(bd, p)
  BY <1>1 DEF LineFacts
<1>5. /\ p \in DOMAIN line => Read(bd, line, p) = line[p]
      /\ p \notin DOMAIN line => Read(bd, line, p) = Default(bd, p)
  BY <1>2, LineReads
<1> QED
  BY <1>3, <1>4, <1>5

\* The model, the sources, and what no offer is about.
OthersAre(bd, off, sources, line) ==
  /\ Read(bd, line, "type") = off.name
  /\ Source(bd, line) = sources
  /\ Read(bd, line, "export_metadata") = FALSE
  /\ Read(bd, line, "capabilities") = FALSE
  /\ Read(bd, line, "output_format") = ""
  /\ Read(bd, line, "sample_stride") = 0
  /\ Read(bd, line, "max_frames") = 0

\* A line of the document has them so. (Their flags are not offered.)
LEMMA OthersRead ==
  ASSUME NEW bd, NEW off, NEW besides, NEW filled, NEW sources, NEW line,
         Composed(bd, off, besides, filled, sources, line)
  PROVE  OthersAre(bd, off, sources, line)
<1>1. LineFacts(bd, off, filled, sources, line)
  BY LineIs
<1> DEFINE Never == {"export_metadata", "capabilities", "output_format", "sample_stride",
                     "max_frames"}
<1>2. \A o \in Never : o \in Option /\ o \notin DOMAIN line
  <2>1. Never \subseteq Option /\ Never \cap (Parameter \cup {"type", "source"}) = {}
    BY DEF Option, Typed, Switch, Count, Text, Parameter
  <2> QED
    BY <1>1, <2>1 DEF LineFacts
<1>3. \A o \in Never : Read(bd, line, o) = Default(bd, o)
  <2> HIDE DEF Never
  <2> QED
    BY <1>2, LineReads
<1>4. Read(bd, line, "type") = off.name
  <2>1. "type" \in DOMAIN line /\ line["type"] = off.name /\ "type" \in Option
    BY <1>1, ParametersAreOptions DEF LineFacts
  <2> QED
    BY <2>1, LineReads
<1>5. Source(bd, line) = sources
  <2>0. "source" \in Option /\ "source" \notin Parameter
    BY ParametersAreOptions
  <2>1. CASE sources # <<>>
    <3>1. "source" \in DOMAIN line /\ line["source"] = sources
      BY <1>1, <2>1 DEF LineFacts
    <3> QED
      BY <2>0, <3>1, LineReads DEF Source
  <2>2. CASE sources = <<>>
    <3>1. "source" \notin DOMAIN line
      BY <1>1, <2>0, <2>2 DEF LineFacts
    <3> QED
      BY <2>0, <2>2, <3>1, LineReads, OwnDefaults DEF Source
  <2> QED
    BY <2>1, <2>2
<1>6. "export_metadata" \in Switch /\ "capabilities" \in Switch
  BY DEF Switch
<1>7. Default(bd, "export_metadata") = FALSE /\ Default(bd, "capabilities") = FALSE
  BY <1>6, SwitchDefault
<1>8. Default(bd, "output_format") = ""
  BY TextDefault
<1>9. Default(bd, "sample_stride") = 0 /\ Default(bd, "max_frames") = 0
  BY OwnDefaults
<1> QED
  BY <1>3, <1>4, <1>5, <1>7, <1>8, <1>9 DEF OthersAre

\* Sources are a list of pictures, or one of clips, and they are there.
SourceFacts(task, sources) ==
  /\ Len(sources) \in Nat /\ DOMAIN sources = 1 .. Len(sources)
  /\ Document!MinSources(task) <= Len(sources)
  /\ task # "optical_flow" => Len(sources) <= 1
  /\ \/ "image" \in Document!SourceTypes(task) /\ sources \in [1 .. Len(sources) -> Pictures]
     \/ "video" \in Document!SourceTypes(task) /\ sources \in [1 .. Len(sources) -> Clips]
  /\ \A i \in DOMAIN sources : sources[i] \in Existing
  /\ sources = <<>> <=> Len(sources) = 0

\* What a task is offered with is so. (taskCapabilities.)
LEMMA SourcesAre ==
  ASSUME NEW task \in Document!Task, NEW sources \in SourceLists(task)
  PROVE  SourceFacts(task, sources)
<1>1. PICK type \in Document!SourceTypes(task), n \in Numbers(task) :
        sources \in [1 .. n -> FilesOf(type)]
  BY DEF SourceLists
<1>2. /\ n \in Nat /\ Document!MinSources(task) <= n
      /\ n <= Document!MaxSources(task)
  <2>1. MaxGiven \in Nat
    BY ConsumerAssumption
  <2> QED
    BY <2>1 DEF Numbers
<1>3. DOMAIN sources = 1 .. n
  BY <1>1
<1>4. Len(sources) = n
  BY <1>1, <1>2
<1>5. type \in {"image", "video"}
  BY <1>1 DEF Document!SourceTypes
<1>6. FilesOf(type) = (IF type = "video" THEN Clips ELSE Pictures)
  BY DEF FilesOf
<1>7. \A i \in DOMAIN sources : sources[i] \in Existing
  BY <1>1, <1>3, <1>6, ConsumerAssumption
<1>8. task # "optical_flow" => n <= 1
  BY <1>2 DEF Document!MaxSources
<1>9. sources = <<>> <=> n = 0
  BY <1>1, <1>2, <1>3, <1>4
<1> QED
  BY <1>1, <1>2, <1>3, <1>4, <1>5, <1>6, <1>7, <1>8, <1>9 DEF SourceFacts

\* The names offered for image understanding are those the rules have for it,
\* and no others. (imageUnderstandingModels, is_text_task.)
LEMMA TextLine ==
  ASSUME NEW task \in Document!Task, NEW name \in Document!Selectors(task)
  PROVE  normalizeModelType(name) \in TextName <=> task = "image_understanding"
<1>1. ASSUME task = "image_understanding"
      PROVE  normalizeModelType(name) \in TextName
  <2>1. PICK left : /\ Spelled(name, left, Vocabulary("ImageUnderstanding"))
                    /\ Claims("ImageUnderstanding", left)
    BY <1>1, WholeNames
  <2>2. \A w \in Vocabulary("ImageUnderstanding") : IsWord(w)
    BY VocabularyIsPlain DEF Types, Tested
  <2>3. normalizeModelType(name) = left
    BY <2>1, <2>2, SpelledIsNormal
  <2>4. Claims("ImageUnderstanding", left) => left \in TextName
    BY DEF Claims, TextName
  <2> QED
    BY <2>1, <2>3, <2>4
<1>2. ASSUME normalizeModelType(name) \in TextName
      PROVE  task = "image_understanding"
  <2>1. getTaskTypeForModel(name) = "ImageUnderstanding"
    BY <1>2, TextTaskIsRouted
  <2>2. Document!TypeOfTask(task) = "ImageUnderstanding"
    BY <2>1, ListedIsRouted
  <2> QED
    BY <2>2 DEF Document!TypeOfTask, Document!Task
<1> QED
  BY <1>1, <1>2

\* What is on the line that the rules tie to other options or to the sources.
Suitable(bd, off, sources, line) ==
  LET Given(options) == options \cap DOMAIN line # {}
      encoded        == Read(bd, line, "input_mode") = "encoded-image"
  IN  /\ Given({"timings_csv", "output_video"}) =>
           sources \in [{1} -> Clips] /\ off.task # "image_understanding"
      /\ ~ Given({"timings_csv"}) \/ ~ Given({"output_video"})
      /\ Given({"output_video"}) => bd.writer
      /\ Given({"warmup", "benchmark"}) =>
           sources \in [{1} -> Pictures] /\ off.task # "image_understanding"
      /\ Given({"task_model"}) <=> encoded
      /\ encoded => off.workflow = "client_server" /\ ~ Given({"batch", "input_sizes"})
      /\ Read(bd, line, "postprocess_mode") = "gpu" =>
           encoded /\ ~ Given({"nms_threshold", "mask_threshold"})

\* The parts of it by name, for lines that are composed.
LEMMA SuitableParts ==
  ASSUME NEW bd, NEW off, NEW sources, NEW line, Suitable(bd, off, sources, line)
  PROVE  /\ "timings_csv" \in DOMAIN line \/ "output_video" \in DOMAIN line =>
              sources \in [{1} -> Clips] /\ off.task # "image_understanding"
         /\ "timings_csv" \notin DOMAIN line \/ "output_video" \notin DOMAIN line
         /\ "output_video" \in DOMAIN line => bd.writer
         /\ "warmup" \in DOMAIN line \/ "benchmark" \in DOMAIN line =>
              sources \in [{1} -> Pictures] /\ off.task # "image_understanding"
         /\ "task_model" \in DOMAIN line <=> Read(bd, line, "input_mode") = "encoded-image"
         /\ Read(bd, line, "input_mode") = "encoded-image" =>
              /\ off.workflow = "client_server"
              /\ "batch" \notin DOMAIN line /\ "input_sizes" \notin DOMAIN line
         /\ Read(bd, line, "postprocess_mode") = "gpu" =>
              /\ Read(bd, line, "input_mode") = "encoded-image"
              /\ "nms_threshold" \notin DOMAIN line /\ "mask_threshold" \notin DOMAIN line
BY DEF Suitable

\* What is read of the options that rules are about, on a line from the document.
LineValues(bd, off, sources, line) ==
  /\ Read(bd, line, "type") = off.name
  /\ Source(bd, line) = sources
  /\ \A o \in {"export_metadata", "warmup", "benchmark"} :
       Read(bd, line, o) => o \in DOMAIN line
  /\ ~ Read(bd, line, "export_metadata")
  /\ Read(bd, line, "output_format") = ""
  /\ Read(bd, line, "sample_stride") = 0 /\ Read(bd, line, "max_frames") = 0
  /\ \A o \in {"labels", "mmproj"} : Read(bd, line, o) = "" \/ IsFile(Read(bd, line, o))
  /\ \A o \in {"timings_csv", "output_video"} :
       IF o \in DOMAIN line THEN Read(bd, line, o) \in Places ELSE Read(bd, line, o) = ""
  /\ Read(bd, line, "task_model") # "" <=> "task_model" \in DOMAIN line
  /\ Read(bd, line, "kserve_endpoint") # "" <=> off.workflow = "client_server"
  /\ off.workflow = "local" => IsFile(Read(bd, line, "weights"))
  /\ Read(bd, line, "kserve_timeout_ms") > 0
  /\ Read(bd, line, "kserve_transport") \in (IF bd.grpc THEN {"grpc", "http"} ELSE {"http"})
  /\ Read(bd, line, "segmentation_output") \in {"mask", "polygon"}
  /\ Read(bd, line, "input_mode") \in {"preprocessed", "encoded-image"}
  /\ Read(bd, line, "postprocess_mode") \in {"cpu", "gpu"}
  /\ "batch" \notin DOMAIN line => Read(bd, line, "batch") = 1
  /\ "input_sizes" \notin DOMAIN line => Read(bd, line, "input_sizes") = <<>>
  /\ Document!ModelRequired(normalizeModelType(off.name)) \subseteq DOMAIN line
  /\ \A o \in DOMAIN line \cap PaperParameter : IsFile(Read(bd, line, o))
  /\ "text_prompts" \in DOMAIN line => Read(bd, line, "text_prompts") # ""

\* Which parameters are on the line because of the way to execute.
LEMMA EngineParameters ==
  ASSUME NEW bd, NEW off, NEW besides, NEW filled, NEW sources, NEW line,
         Composed(bd, off, besides, filled, sources, line)
  PROVE  /\ off.workflow = "client_server" <=> "kserve_endpoint" \in DOMAIN line
         /\ off.workflow = "local" => "weights" \in DOMAIN line
         /\ Document!ModelRequired(normalizeModelType(off.name)) \subseteq DOMAIN line
         /\ off.workflow \in {"local", "client_server"}
<1>1. off.workflow \in {"local", "client_server"}
  BY DEF Composed, Document!Workflow, Document!Local, Document!ClientServer
<1>2. \A p \in Parameter : p \in DOMAIN line <=> p \in DOMAIN filled \/ p \in DOMAIN off.more
  BY ParameterReads
<1>3. DOMAIN filled = Required(off) \cup besides /\ DOMAIN off.more \subseteq Optional(bd, off)
  BY DEF Composed
<1>4. Required(off) \subseteq Parameter
  BY OfferedAreParameters DEF Composed
<1>5. Required(off) \subseteq DOMAIN line
  BY <1>2, <1>3, <1>4
<1>6. "kserve_endpoint" \notin Optional(bd, off)
  <2>1. "kserve_endpoint" \notin Document!TaskOptional(bd, off.task)
    <3>1. "kserve_endpoint" \notin Document!VideoRun(bd)
      BY DEF Document!VideoRun
    <3> QED
      BY <3>1 DEF Document!TaskOptional, Document!Task, Composed
  <2>2. "kserve_endpoint" \notin Document!WorkflowOptional(off.workflow)
    BY DEF Document!WorkflowOptional
  <2> QED
    BY <2>1, <2>2 DEF Optional
<1>7. "kserve_endpoint" \notin besides
  BY DEF Composed
<1>8. "kserve_endpoint" \notin Document!ModelRequired(normalizeModelType(off.name))
  BY DEF Document!ModelRequired
<1>9. CASE off.workflow = "client_server"
  <2>1. "kserve_endpoint" \in Required(off)
    BY <1>9 DEF Required, Document!WorkflowRequired, Document!Local
  <2> QED
    BY <1>5, <1>9, <2>1 DEF Required
<1>10. CASE off.workflow = "local"
  <2>1. Document!WorkflowRequired(off.workflow) = {"weights"}
    BY <1>10 DEF Document!WorkflowRequired, Document!Local
  <2>2. "kserve_endpoint" \notin Required(off)
    BY <1>8, <2>1 DEF Required
  <2>3. "kserve_endpoint" \in Parameter
    BY DEF Parameter
  <2>4. "kserve_endpoint" \notin DOMAIN line
    BY <1>2, <1>3, <1>6, <1>7, <2>2, <2>3
  <2> QED
    BY <1>5, <1>10, <2>1, <2>4 DEF Required
<1> QED
  BY <1>1, <1>9, <1>10

\* Each option of a composed line is read as what the consumer gave, or as
\* its default. (The reads of validateArguments and validateRunModes.)
LEMMA LineHasValues ==
  ASSUME NEW bd, NEW off, NEW besides, NEW filled, NEW sources, NEW line,
         Composed(bd, off, besides, filled, sources, line)
  PROVE  LineValues(bd, off, sources, line)
<1>1. /\ Read(bd, line, "type") = off.name /\ Source(bd, line) = sources
      /\ Read(bd, line, "export_metadata") = FALSE /\ Read(bd, line, "output_format") = ""
      /\ Read(bd, line, "sample_stride") = 0 /\ Read(bd, line, "max_frames") = 0
  <2>1. OthersAre(bd, off, sources, line)
    BY OthersRead
  <2> QED
    BY <2>1 DEF OthersAre
<1> DEFINE R(o) == Read(bd, line, o)
           D    == DOMAIN line
<1>2. \A p \in Parameter : /\ p \in D => R(p) \in ValuesOf(bd, p)
                           /\ p \notin D => R(p) = Default(bd, p)
  BY ParameterReads
<1>3. /\ off.workflow = "client_server" <=> "kserve_endpoint" \in D
      /\ off.workflow = "local" => "weights" \in D
      /\ Document!ModelRequired(normalizeModelType(off.name)) \subseteq D
  BY EngineParameters
<1>4. /\ Papers \subseteq Existing
      /\ "" \notin Papers \cup Places \cup Phrases
  BY ConsumerAssumption
<1> HIDE DEF R, D
<1>5. \A o \in {"warmup", "benchmark"} : R(o) => o \in D
  <2>1. \A o \in {"warmup", "benchmark"} : o \in Parameter /\ o \in Switch
    BY DEF Parameter, Switch
  <2> QED
    BY <1>2, <2>1, SwitchDefault
<1>6. \A o \in D \cap PaperParameter : R(o) \in Papers
  <2>1. PaperParameter \subseteq Parameter
    BY DEF PaperParameter, Parameter
  <2> QED
    BY <1>2, <2>1, FileValues
<1>7. \A o \in {"labels", "mmproj"} : R(o) = "" \/ R(o) \in Existing
  <2> SUFFICES ASSUME NEW o \in {"labels", "mmproj"} PROVE R(o) = "" \/ R(o) \in Existing
    OBVIOUS
  <2>1. o \in PaperParameter /\ o \in Parameter
    BY DEF PaperParameter, Parameter
  <2>2. Default(bd, o) = ""
    BY TextDefault
  <2> QED
    BY <1>2, <1>4, <1>6, <2>1, <2>2
<1>8. \A o \in {"timings_csv", "output_video"} :
        IF o \in D THEN R(o) \in Places ELSE R(o) = ""
  <2> SUFFICES ASSUME NEW o \in {"timings_csv", "output_video"}
               PROVE  IF o \in D THEN R(o) \in Places ELSE R(o) = ""
    OBVIOUS
  <2>1. o \in PlaceParameter /\ o \in Parameter
    BY DEF PlaceParameter, Parameter
  <2>2. Default(bd, o) = ""
    BY TextDefault
  <2> QED
    BY <1>2, <2>1, <2>2, FileValues
<1>9. \A o \in {"kserve_endpoint", "task_model"} : R(o) # "" <=> o \in D
  <2> SUFFICES ASSUME NEW o \in {"kserve_endpoint", "task_model"}
               PROVE  R(o) # "" <=> o \in D
    OBVIOUS
  <2>1. o \in PhraseParameter /\ o \in Parameter
    BY DEF PhraseParameter, Parameter
  <2>2. Default(bd, o) = ""
    BY TextDefault
  <2> QED
    BY <1>2, <1>4, <2>1, <2>2, FileValues
<1>10. "text_prompts" \in D => R("text_prompts") # ""
  <2>1. "text_prompts" \in PhraseParameter /\ "text_prompts" \in Parameter
    BY DEF PhraseParameter, Parameter
  <2> QED
    BY <1>2, <1>4, <2>1, FileValues
<1>11. R("kserve_timeout_ms") > 0
  <2>1. "kserve_timeout_ms" \in Document!Ranged /\ "kserve_timeout_ms" \in Parameter
    BY DEF Document!Ranged, Parameter
  <2>2. Document!Minimum("kserve_timeout_ms") = 1
    BY DEF Document!Minimum
  <2>3. CASE "kserve_timeout_ms" \in D
    <3>1. R("kserve_timeout_ms") \in Int /\ 1 <= R("kserve_timeout_ms")
      BY <1>2, <2>1, <2>2, <2>3, RangedValues
    <3> QED
      BY <3>1
  <2>4. CASE "kserve_timeout_ms" \notin D
    <3>1. R("kserve_timeout_ms") = 30000
      BY <1>2, <2>1, <2>4, OwnDefaults
    <3> QED
      BY <3>1
  <2> QED
    BY <2>3, <2>4
<1>12. R("kserve_transport") \in (IF bd.grpc THEN {"grpc", "http"} ELSE {"http"})
  <2>1. "kserve_transport" \in Document!Enum /\ "kserve_transport" \in Parameter
    BY DEF Document!Enum, Parameter
  <2>2. ValuesOf(bd, "kserve_transport") = Document!Values(bd, "kserve_transport")
    BY <2>1, EnumValues
  <2>3. Document!Values(bd, "kserve_transport") =
          {"http"} \cup (IF bd.grpc THEN {"grpc"} ELSE {})
    BY DEF Document!Values
  <2>4. Default(bd, "kserve_transport") = (IF bd.grpc THEN "grpc" ELSE "http")
    BY OwnDefaults DEF DefaultTransport
  <2> QED
    BY <1>2, <2>1, <2>2, <2>3, <2>4
<1>13. R("segmentation_output") \in {"mask", "polygon"}
  <2>1. "segmentation_output" \in Document!Enum /\ "segmentation_output" \in Parameter
    BY DEF Document!Enum, Parameter
  <2>2. Document!Values(bd, "segmentation_output") = {"mask", "polygon"}
    BY DEF Document!Values
  <2> QED
    BY <1>2, <2>1, <2>2, EnumValues, OwnDefaults
<1>14. R("input_mode") \in {"preprocessed", "encoded-image"}
  <2>1. "input_mode" \in Document!Enum /\ "input_mode" \in Parameter
    BY DEF Document!Enum, Parameter
  <2>2. Document!Values(bd, "input_mode") = {"preprocessed", "encoded-image"}
    BY DEF Document!Values
  <2> QED
    BY <1>2, <2>1, <2>2, EnumValues, OwnDefaults
<1>15. R("postprocess_mode") \in {"cpu", "gpu"}
  <2>1. "postprocess_mode" \in Document!Enum /\ "postprocess_mode" \in Parameter
    BY DEF Document!Enum, Parameter
  <2>2. Document!Values(bd, "postprocess_mode") = {"cpu", "gpu"}
    BY DEF Document!Values
  <2> QED
    BY <1>2, <2>1, <2>2, EnumValues, OwnDefaults
<1>16. /\ "batch" \notin D => R("batch") = 1
       /\ "input_sizes" \notin D => R("input_sizes") = <<>>
  <2>1. "batch" \in Parameter /\ "input_sizes" \in Parameter
    BY DEF Parameter
  <2> QED
    BY <1>2, <2>1, OwnDefaults
<1>17. off.workflow = "local" => R("weights") \in Existing
  <2>1. "weights" \in PaperParameter
    BY DEF PaperParameter
  <2> QED
    BY <1>3, <1>4, <1>6, <2>1
<1>18. /\ R("task_model") # "" <=> "task_model" \in D
       /\ R("kserve_endpoint") # "" <=> off.workflow = "client_server"
  BY <1>3, <1>9
<1>19. \A o \in D \cap PaperParameter : R(o) \in Existing
  BY <1>4, <1>6
<1>20. \A o \in {"export_metadata", "warmup", "benchmark"} : R(o) => o \in D
  BY <1>1, <1>5 DEF R
<1> QED
  BY <1>1, <1>3, <1>7, <1>8, <1>10, <1>11, <1>12, <1>13, <1>14, <1>15, <1>16, <1>17,
     <1>18, <1>19, <1>20 DEF LineValues, IsFile, R, D

\* A mode that is offered is in lower case. (toLower.)
LEMMA OfferedIsLower ==
  ASSUME NEW v \in {"", "mask", "polygon", "preprocessed", "encoded-image", "cpu", "gpu",
                    "grpc", "http"}
  PROVE  Lowered(v) = v
<1>1. v \notin {"Polygon", "Encoded-Image", "GPU", "HTTP", "JSON"}
  OBVIOUS
<1> QED
  BY <1>1 DEF Lowered

\* Pictures are still images, clips are not. (The consumer's files.)
LEMMA SourcesShow ==
  ASSUME NEW task \in Document!Task, NEW sources \in SourceLists(task)
  PROVE  /\ sources \in [{1} -> Clips] => ~ AnyStill(sources) /\ sources # <<>>
         /\ sources \in [{1} -> Pictures] => AllStill(sources) /\ Len(sources) = 1
         /\ task = "image_understanding" =>
              sources = <<>> \/ (Len(sources) = 1 /\ AllStill(sources))
         /\ task # "image_understanding" => sources # <<>>
         /\ \A i \in DOMAIN sources : sources[i] \in Pictures \cup Clips
<1>1. /\ Len(sources) \in Nat /\ DOMAIN sources = 1 .. Len(sources)
      /\ Document!MinSources(task) <= Len(sources)
      /\ task # "optical_flow" => Len(sources) <= 1
      /\ \/ "image" \in Document!SourceTypes(task) /\ sources \in [1 .. Len(sources) -> Pictures]
         \/ "video" \in Document!SourceTypes(task) /\ sources \in [1 .. Len(sources) -> Clips]
      /\ sources = <<>> <=> Len(sources) = 0
  BY SourcesAre DEF SourceFacts
<1>2. Pictures \subseteq Still /\ Clips \cap Still = {}
  BY ConsumerAssumption
<1>3. Document!MinSources(task) =
        (IF task = "optical_flow" THEN 2 ELSE IF task = "image_understanding" THEN 0 ELSE 1)
  BY DEF Document!MinSources
<1>4. task = "image_understanding" => "video" \notin Document!SourceTypes(task)
  BY DEF Document!SourceTypes
<1>5. sources \in [{1} -> Clips] => ~ AnyStill(sources) /\ sources # <<>>
  BY <1>2 DEF AnyStill
<1>6. sources \in [{1} -> Pictures] => AllStill(sources) /\ Len(sources) = 1
  <2> SUFFICES ASSUME sources \in [{1} -> Pictures] PROVE AllStill(sources) /\ Len(sources) = 1
    OBVIOUS
  <2>1. DOMAIN sources = {1}
    OBVIOUS
  <2>2. Len(sources) = 1
    BY <1>1, <2>1
  <2> QED
    BY <1>1, <1>2, <2>1, <2>2 DEF AllStill
<1>7. task = "image_understanding" =>
        sources = <<>> \/ (Len(sources) = 1 /\ AllStill(sources))
  <2> SUFFICES ASSUME task = "image_understanding", sources # <<>>
               PROVE  Len(sources) = 1 /\ AllStill(sources)
    OBVIOUS
  <2>1. Len(sources) = 1
    BY <1>1
  <2>2. sources \in [1 .. Len(sources) -> Pictures]
    BY <1>1, <1>4
  <2> QED
    BY <1>2, <2>1, <2>2 DEF AllStill
<1>8. task # "image_understanding" => sources # <<>>
  BY <1>1, <1>3
<1>9. \A i \in DOMAIN sources : sources[i] \in Pictures \cup Clips
  BY <1>1
<1> QED
  BY <1>5, <1>6, <1>7, <1>8, <1>9

\* validateArguments takes a suitable line of the document.
LEMMA ArgumentsTaken ==
  ASSUME NEW bd, NEW off, NEW besides, NEW filled, NEW sources, NEW line,
         Composed(bd, off, besides, filled, sources, line),
         Suitable(bd, off, sources, line)
  PROVE  ArgumentRules(bd, line)
<1>1. LineValues(bd, off, sources, line)
  BY LineHasValues
<1>2. /\ off.task \in Document!Task /\ off.name \in Document!Selectors(off.task)
      /\ sources \in SourceLists(off.task)
      /\ off.workflow \in Document!Workflow
  BY DEF Composed
<1>3. IsTextTask(bd, line) <=> off.task = "image_understanding"
  BY <1>1, <1>2, TextLine DEF LineValues, IsTextTask, TextName
<1>4. SourceRules(bd, line)
  <2>1. off.task # "image_understanding" => sources # <<>>
    BY <1>2, SourcesShow
  <2>2. \A i \in DOMAIN sources : sources[i] \in Existing
    BY <1>2, SourcesAre DEF SourceFacts
  <2> QED
    BY <1>1, <1>3, <2>1, <2>2 DEF SourceRules, LineValues, IsFile
<1>5. EngineRules(bd, line)
  <2>1. off.workflow \in {"local", "client_server"}
    BY EngineParameters
  <2>2. Lowered(Read(bd, line, "kserve_transport")) = Read(bd, line, "kserve_transport")
    BY <1>1, OfferedIsLower DEF LineValues
  <2> QED
    BY <1>1, <2>1, <2>2 DEF EngineRules, LineValues
<1>6. FileRules(bd, line)
  BY <1>1 DEF FileRules, LineValues
<1>7. OpenVocabRules(bd, line)
  <2> DEFINE name == normalizeModelType(off.name)
  <2>1. Document!ModelRequired(name) \subseteq DOMAIN line
    BY <1>1 DEF LineValues
  <2>2. Read(bd, line, "type") = off.name
    BY <1>1 DEF LineValues
  <2>3. \A o \in DOMAIN line \cap PaperParameter : IsFile(Read(bd, line, o))
    BY <1>1 DEF LineValues
  <2>4. "text_prompts" \in DOMAIN line => Read(bd, line, "text_prompts") # ""
    BY <1>1 DEF LineValues
  <2> HIDE DEF name
  <2>5. name \in {<<"owlv2">>, <<"owlvit">>} =>
          Document!ModelRequired(name) = {"text_prompts", "tokenizer_vocab", "tokenizer_merges"}
    <3>1. <<"owlv2">> # <<"groundingdino">> /\ <<"owlvit">> # <<"groundingdino">>
      OBVIOUS
    <3> QED
      BY <3>1 DEF Document!ModelRequired
  <2>6. name = <<"groundingdino">> =>
          Document!ModelRequired(name) = {"text_prompts", "bert_tokenizer_vocab"}
    <3>1. <<"owlv2">> # <<"groundingdino">> /\ <<"owlvit">> # <<"groundingdino">>
      OBVIOUS
    <3> QED
      BY <3>1 DEF Document!ModelRequired
  <2>7. {"tokenizer_vocab", "tokenizer_merges", "bert_tokenizer_vocab"} \subseteq PaperParameter
    BY DEF PaperParameter
  <2>8. name \in {<<"owlv2">>, <<"owlvit">>} =>
          /\ Read(bd, line, "text_prompts") # ""
          /\ IsFile(Read(bd, line, "tokenizer_vocab")) /\ IsFile(Read(bd, line, "tokenizer_merges"))
    BY <2>1, <2>3, <2>4, <2>5, <2>7
  <2>9. name = <<"groundingdino">> =>
          /\ Read(bd, line, "text_prompts") # ""
          /\ IsFile(Read(bd, line, "bert_tokenizer_vocab"))
    BY <2>1, <2>3, <2>4, <2>6, <2>7
  <2> QED
    BY <2>2, <2>8, <2>9 DEF OpenVocabRules, name
<1>8. ValueRules(bd, line)
  <2>1. /\ Lowered("") = ""
        /\ Lowered(Read(bd, line, "segmentation_output")) = Read(bd, line, "segmentation_output")
        /\ Lowered(Read(bd, line, "input_mode")) = Read(bd, line, "input_mode")
        /\ Lowered(Read(bd, line, "postprocess_mode")) = Read(bd, line, "postprocess_mode")
    BY <1>1, OfferedIsLower DEF LineValues
  <2>2. /\ Read(bd, line, "output_format") = ""
        /\ Read(bd, line, "sample_stride") >= 0 /\ Read(bd, line, "max_frames") >= 0
    <3>1. /\ Read(bd, line, "output_format") = ""
          /\ Read(bd, line, "sample_stride") = 0 /\ Read(bd, line, "max_frames") = 0
      BY <1>1 DEF LineValues
    <3>2. 0 >= 0 /\ 0 <= 0
      OBVIOUS
    <3> QED
      BY <3>1, <3>2, Zenon
  <2>3. /\ Read(bd, line, "segmentation_output") \in {"mask", "polygon"}
        /\ Read(bd, line, "input_mode") \in {"preprocessed", "encoded-image"}
        /\ Read(bd, line, "postprocess_mode") \in {"cpu", "gpu"}
    BY <1>1 DEF LineValues
  <2>4. Mode(bd, line, "output_format") = ""
    BY <2>1, <2>2 DEF Mode
  <2>5. /\ Mode(bd, line, "segmentation_output") \in {"mask", "polygon"}
        /\ Mode(bd, line, "input_mode") \in {"preprocessed", "encoded-image"}
        /\ Mode(bd, line, "postprocess_mode") \in {"cpu", "gpu"}
    BY <2>1, <2>3 DEF Mode
  <2> QED
    BY <2>2, <2>4, <2>5 DEF ValueRules
<1>9. /\ Encoded(bd, line) <=> Read(bd, line, "input_mode") = "encoded-image"
      /\ Gpu(bd, line) <=> Read(bd, line, "postprocess_mode") = "gpu"
  <2>1. /\ Lowered(Read(bd, line, "input_mode")) = Read(bd, line, "input_mode")
        /\ Lowered(Read(bd, line, "postprocess_mode")) = Read(bd, line, "postprocess_mode")
    <3>1. /\ Read(bd, line, "input_mode") \in {"preprocessed", "encoded-image"}
          /\ Read(bd, line, "postprocess_mode") \in {"cpu", "gpu"}
      BY <1>1 DEF LineValues
    <3> QED
      BY <3>1, OfferedIsLower
  <2> QED
    BY <2>1 DEF Encoded, Gpu, Mode
<1>10. EnsembleRules(bd, line)
  <2>1. /\ Read(bd, line, "task_model") # "" <=> "task_model" \in DOMAIN line
        /\ Read(bd, line, "kserve_endpoint") # "" <=> off.workflow = "client_server"
        /\ "batch" \notin DOMAIN line => Read(bd, line, "batch") = 1
        /\ "input_sizes" \notin DOMAIN line => Read(bd, line, "input_sizes") = <<>>
    BY <1>1 DEF LineValues
  <2>2. Read(bd, line, "input_mode") = "encoded-image" =>
          /\ "task_model" \in DOMAIN line /\ off.workflow = "client_server"
          /\ "batch" \notin DOMAIN line /\ "input_sizes" \notin DOMAIN line
    BY SuitableParts
  <2>3. Read(bd, line, "postprocess_mode") = "gpu" =>
          Read(bd, line, "input_mode") = "encoded-image"
    BY SuitableParts
  <2> QED
    BY <1>9, <2>1, <2>2, <2>3 DEF EnsembleRules
<1>11. OutputVideoRules(bd, line)
  <2>1. Read(bd, line, "output_video") # "" => "output_video" \in DOMAIN line
    BY <1>1 DEF LineValues
  <2>2. "output_video" \in DOMAIN line =>
          bd.writer /\ off.task # "image_understanding" /\ sources \in [{1} -> Clips]
    BY SuitableParts
  <2>3. sources \in [{1} -> Clips] => ~ AnyStill(sources) /\ sources # <<>>
    BY <1>2, SourcesShow
  <2> QED
    BY <1>1, <1>3, <2>1, <2>2, <2>3 DEF OutputVideoRules, LineValues
<1> QED
  BY <1>4, <1>5, <1>6, <1>7, <1>8, <1>10, <1>11 DEF ArgumentRules

\* And validateRunModes does.
LEMMA ModesTaken ==
  ASSUME NEW bd, NEW off, NEW besides, NEW filled, NEW sources, NEW line,
         Composed(bd, off, besides, filled, sources, line),
         Suitable(bd, off, sources, line)
  PROVE  RunModeRules(bd, line)
<1>1. LineValues(bd, off, sources, line)
  BY LineHasValues
<1>2. /\ off.task \in Document!Task /\ off.name \in Document!Selectors(off.task)
      /\ sources \in SourceLists(off.task)
  BY DEF Composed
<1>3. IsTextTask(bd, line) <=> off.task = "image_understanding"
  BY <1>1, <1>2, TextLine DEF LineValues, IsTextTask, TextName
<1>4. /\ sources \in [{1} -> Clips] => ~ AnyStill(sources) /\ sources # <<>>
      /\ sources \in [{1} -> Pictures] => AllStill(sources) /\ Len(sources) = 1
      /\ off.task = "image_understanding" =>
           sources = <<>> \/ (Len(sources) = 1 /\ AllStill(sources))
      /\ \A i \in DOMAIN sources : sources[i] \in Pictures \cup Clips
  BY <1>2, SourcesShow
<1>5. /\ Encoded(bd, line) <=> Read(bd, line, "input_mode") = "encoded-image"
      /\ Gpu(bd, line) <=> Read(bd, line, "postprocess_mode") = "gpu"
  <2>1. /\ Lowered(Read(bd, line, "input_mode")) = Read(bd, line, "input_mode")
        /\ Lowered(Read(bd, line, "postprocess_mode")) = Read(bd, line, "postprocess_mode")
    BY <1>1, OfferedIsLower DEF LineValues
  <2> QED
    BY <2>1 DEF Encoded, Gpu, Mode
<1>6. Read(bd, line, "timings_csv") # "" => FrameLoopRun(bd, line)
  <2>1. Read(bd, line, "timings_csv") # "" => "timings_csv" \in DOMAIN line
    BY <1>1 DEF LineValues
  <2>2. "timings_csv" \in DOMAIN line =>
          off.task # "image_understanding" /\ sources \in [{1} -> Clips]
    BY SuitableParts
  <2> QED
    BY <1>1, <1>3, <1>4, <2>1, <2>2 DEF FrameLoopRun, LineValues
<1>7. Read(bd, line, "warmup") \/ Read(bd, line, "benchmark") => SingleImageRun(bd, line)
  <2>1. Read(bd, line, "warmup") \/ Read(bd, line, "benchmark") =>
          "warmup" \in DOMAIN line \/ "benchmark" \in DOMAIN line
    BY <1>1 DEF LineValues
  <2>2. "warmup" \in DOMAIN line \/ "benchmark" \in DOMAIN line =>
          off.task # "image_understanding" /\ sources \in [{1} -> Pictures]
    BY SuitableParts
  <2> QED
    BY <1>1, <1>3, <1>4, <2>1, <2>2 DEF SingleImageRun, LineValues
<1>8. TextRules(bd, line)
  <2>1. /\ Source(bd, line) = sources /\ Read(bd, line, "output_format") = ""
        /\ Read(bd, line, "sample_stride") <= 0 /\ Read(bd, line, "max_frames") <= 0
    <3>1. /\ Source(bd, line) = sources /\ Read(bd, line, "output_format") = ""
          /\ Read(bd, line, "sample_stride") = 0 /\ Read(bd, line, "max_frames") = 0
      BY <1>1 DEF LineValues
    <3>2. 0 >= 0 /\ 0 <= 0
      OBVIOUS
    <3> QED
      BY <3>1, <3>2, Zenon
  <2> QED
    BY <1>3, <1>4, <2>1 DEF TextRules
<1>9. Read(bd, line, "task_model") # "" => Encoded(bd, line)
  BY <1>1, <1>5, SuitableParts DEF LineValues
<1>10. Gpu(bd, line) => Provided(line) \cap {"nms_threshold", "mask_threshold"} = {}
  <2>1. DOMAIN line \subseteq Option
    BY LineIs, ParametersAreOptions DEF LineFacts
  <2>2. \A s \in DOMAIN line : Primary(s) = s
    BY <2>1, ParametersAreOptions DEF Primary
  <2>3. Provided(line) = DOMAIN line
    BY <2>2 DEF Provided
  <2> QED
    BY <1>5, <2>3, SuitableParts
<1>11. OutputRules(bd, line)
  <2>1. \A o \in {"timings_csv", "output_video"} :
          IF o \in DOMAIN line THEN Read(bd, line, o) \in Places ELSE Read(bd, line, o) = ""
    BY <1>1 DEF LineValues
  <2>2. "timings_csv" \notin DOMAIN line \/ "output_video" \notin DOMAIN line
    BY SuitableParts
  <2>3. Outputs(bd, line) \subseteq Places
    BY <2>1 DEF Outputs
  <2>4. \A place \in Places : \A file \in {ReportPath} \cup Pictures \cup Clips :
          ~ samePath(place, file)
    BY ConsumerAssumption
  <2>5. Source(bd, line) = sources
    BY <1>1 DEF LineValues
  <2> QED
    BY <1>4, <2>1, <2>2, <2>3, <2>4, <2>5 DEF OutputRules
<1> QED
  BY <1>6, <1>7, <1>8, <1>9, <1>10, <1>11 DEF RunModeRules

\* The rules take a line of the document that is suitable.
\* (validateArguments and validateRunModes.)
LEMMA LineIsTaken ==
  ASSUME NEW bd, NEW off, NEW besides, NEW filled, NEW sources, NEW line,
         Composed(bd, off, besides, filled, sources, line),
         Suitable(bd, off, sources, line)
  PROVE  Takes(bd, line)
BY ArgumentsTaken, ModesTaken DEF Takes

RequiredParameter == {"weights", "kserve_endpoint", "text_prompts", "tokenizer_vocab",
                      "tokenizer_merges", "bert_tokenizer_vocab"}

\* What a line may be required to have. (workflowCapabilities, requiredParameters.)
LEMMA RequiredAre ==
  ASSUME NEW off
  PROVE  Required(off) \subseteq RequiredParameter
<1>1. Document!WorkflowRequired(off.workflow) \subseteq RequiredParameter
  BY DEF Document!WorkflowRequired, RequiredParameter
<1>2. Document!ModelRequired(normalizeModelType(off.name)) \subseteq RequiredParameter
  BY DEF Document!ModelRequired, RequiredParameter
<1> QED
  BY <1>1, <1>2 DEF Required

\* How a parameter that cannot stand alone is accompanied, and what sources
\* go with it.
Chosen(bd, off, besides, filled, sources) ==
  /\ \A p, q \in DOMAIN off.more : p = q
  /\ \A p \in {"timings_csv", "output_video"} : p \in DOMAIN off.more =>
       sources \in [{1} -> Clips] /\ off.task # "image_understanding"
  /\ "output_video" \in DOMAIN off.more => bd.writer
  /\ \A p \in {"warmup", "benchmark"} : p \in DOMAIN off.more =>
       sources \in [{1} -> Pictures] /\ off.task # "image_understanding"
  /\ \/ /\ besides = {}
        /\ "input_mode" \in DOMAIN off.more => off.more["input_mode"] = "preprocessed"
        /\ "task_model" \notin DOMAIN off.more
        /\ "postprocess_mode" \in DOMAIN off.more => off.more["postprocess_mode"] = "cpu"
     \/ /\ besides = {"input_mode", "task_model"}
        /\ filled["input_mode"] = "encoded-image"
        /\ "input_mode" \in DOMAIN off.more => off.more["input_mode"] = "encoded-image"
        /\ off.workflow = "client_server"
        /\ DOMAIN off.more \cap {"batch", "input_sizes", "nms_threshold", "mask_threshold"} = {}

\* Then the line is suitable. (What else is on it, no rule ties to anything.)
LEMMA ChosenIsSuitable ==
  ASSUME NEW bd, NEW off, NEW besides, NEW filled, NEW sources, NEW line,
         Composed(bd, off, besides, filled, sources, line),
         Chosen(bd, off, besides, filled, sources)
  PROVE  Suitable(bd, off, sources, line)
<1> DEFINE D == DOMAIN line  M == DOMAIN off.more
<1>1. \A p \in Parameter : p \in D <=> p \in DOMAIN filled \/ p \in M
  BY ParameterReads
<1>2. DOMAIN filled = Required(off) \cup besides /\ Required(off) \subseteq RequiredParameter
  BY RequiredAre DEF Composed
<1>3. \A p \in Parameter : p \notin RequiredParameter =>
        (p \in D <=> p \in besides \/ p \in M)
  BY <1>1, <1>2
<1>4. \A p \in {"timings_csv", "output_video", "warmup", "benchmark", "postprocess_mode",
                "batch", "input_sizes", "nms_threshold", "mask_threshold"} : p \in D <=> p \in M
  <2>1. \A p \in {"timings_csv", "output_video", "warmup", "benchmark", "postprocess_mode",
                  "batch", "input_sizes", "nms_threshold", "mask_threshold"} :
          /\ p \in Parameter /\ p \notin RequiredParameter
          /\ p \notin {"input_mode", "task_model"}
    BY DEF Parameter, RequiredParameter
  <2>2. besides \subseteq {"input_mode", "task_model"}
    BY DEF Composed
  <2> QED
    BY <1>3, <2>1, <2>2
<1>5. \A p \in {"input_mode", "task_model"} : p \in D <=> p \in besides \/ p \in M
  <2>1. \A p \in {"input_mode", "task_model"} : p \in Parameter /\ p \notin RequiredParameter
    BY DEF Parameter, RequiredParameter
  <2> QED
    BY <1>3, <2>1
<1>6. LineFacts(bd, off, filled, sources, line)
  BY LineIs
<1>7. \A p \in {"input_mode", "postprocess_mode"} :
        /\ p \in M => Read(bd, line, p) = off.more[p]
        /\ p \in D /\ p \notin M => Read(bd, line, p) = filled[p]
        /\ p \notin D => Read(bd, line, p) = Default(bd, p)
  <2> SUFFICES ASSUME NEW p \in {"input_mode", "postprocess_mode"}
               PROVE  /\ p \in M => Read(bd, line, p) = off.more[p]
                      /\ p \in D /\ p \notin M => Read(bd, line, p) = filled[p]
                      /\ p \notin D => Read(bd, line, p) = Default(bd, p)
    OBVIOUS
  <2>1. p \in Parameter /\ p \in Option
    BY ParametersAreOptions DEF Parameter
  <2>2. /\ p \in D => Read(bd, line, p) = line[p]
        /\ p \notin D => Read(bd, line, p) = Default(bd, p)
    BY <2>1, LineReads
  <2>3. p \in M => p \in D /\ line[p] = off.more[p]
    BY <1>6 DEF LineFacts
  <2>4. p \in D /\ p \notin M => line[p] = filled[p]
    BY <1>1, <1>6, <2>1 DEF LineFacts
  <2> QED
    BY <2>2, <2>3, <2>4
<1>8. Default(bd, "input_mode") = "preprocessed" /\ Default(bd, "postprocess_mode") = "cpu"
  BY OwnDefaults
<1>9. /\ "timings_csv" \in D \/ "output_video" \in D =>
            sources \in [{1} -> Clips] /\ off.task # "image_understanding"
      /\ "timings_csv" \notin D \/ "output_video" \notin D
      /\ "output_video" \in D => bd.writer
      /\ "warmup" \in D \/ "benchmark" \in D =>
            sources \in [{1} -> Pictures] /\ off.task # "image_understanding"
  <2> HIDE DEF D, M
  <2>1. "timings_csv" \notin M \/ "output_video" \notin M
    BY DEF Chosen, M
  <2> QED
    BY <1>4, <2>1 DEF Chosen, M
<1>10. /\ "task_model" \in D <=> Read(bd, line, "input_mode") = "encoded-image"
       /\ Read(bd, line, "input_mode") = "encoded-image" =>
            /\ off.workflow = "client_server"
            /\ "batch" \notin D /\ "input_sizes" \notin D
       /\ Read(bd, line, "postprocess_mode") = "gpu" =>
            /\ Read(bd, line, "input_mode") = "encoded-image"
            /\ "nms_threshold" \notin D /\ "mask_threshold" \notin D
  <2> HIDE DEF D
  <2>1. CASE besides = {}
    <3>1. /\ "input_mode" \in M => off.more["input_mode"] = "preprocessed"
          /\ "task_model" \notin M
          /\ "postprocess_mode" \in M => off.more["postprocess_mode"] = "cpu"
      BY <2>1 DEF Chosen
    <3>2. "task_model" \notin D
      BY <1>5, <2>1, <3>1
    <3>3. Read(bd, line, "input_mode") = "preprocessed"
      BY <1>5, <1>7, <1>8, <2>1, <3>1
    <3>4. Read(bd, line, "postprocess_mode") = "cpu"
      BY <1>4, <1>7, <1>8, <3>1
    <3> QED
      BY <3>2, <3>3, <3>4
  <2>2. CASE besides # {}
    <3>1. /\ besides = {"input_mode", "task_model"}
          /\ filled["input_mode"] = "encoded-image"
          /\ "input_mode" \in M => off.more["input_mode"] = "encoded-image"
          /\ off.workflow = "client_server"
          /\ M \cap {"batch", "input_sizes", "nms_threshold", "mask_threshold"} = {}
      BY <2>2 DEF Chosen
    <3>2. "task_model" \in D /\ "input_mode" \in D
      BY <1>5, <3>1
    <3>3. Read(bd, line, "input_mode") = "encoded-image"
      BY <1>7, <3>1, <3>2
    <3>4. \A p \in {"batch", "input_sizes", "nms_threshold", "mask_threshold"} : p \notin D
      BY <1>4, <3>1
    <3> QED
      BY <3>1, <3>2, <3>3, <3>4
  <2> QED
    BY <2>1, <2>2
<1> QED
  BY <1>9, <1>10 DEF Suitable

\* Every offer names a task, one of its models and a way to execute, and has
\* at most one parameter more.
OfferFacts(bd, off) ==
  /\ off.task \in Document!Task
  /\ off.workflow \in Document!Workflow
  /\ off.name \in Document!Selectors(off.task)
  /\ DOMAIN off.more \subseteq Optional(bd, off)
  /\ \A p \in DOMAIN off.more : off.more[p] \in ValuesOf(bd, p)
  /\ \A p, q \in DOMAIN off.more : p = q

\* (taskCapabilities and workflowCapabilities.)
LEMMA OffersAre ==
  ASSUME NEW bd, NEW off \in Offers(bd)
  PROVE  OfferFacts(bd, off)
<1> DEFINE More(task, workflow) ==
             UNION {Fillings(bd, chosen) : chosen \in {{}} \cup {{p} :
                      p \in Optional(bd, [task |-> task, workflow |-> workflow])}}
           OfTask(task) ==
             UNION {[task : {task}, workflow : {workflow}, name : Document!Selectors(task),
                     more : More(task, workflow)] : workflow \in Document!Workflow}
<1>0. Offers(bd) = UNION {OfTask(task) : task \in Document!Task}
  BY DEF Offers
<1> HIDE DEF More
<1>1. PICK task \in Document!Task, workflow \in Document!Workflow :
        off \in [task : {task}, workflow : {workflow}, name : Document!Selectors(task),
                 more : More(task, workflow)]
  <2>1. \E task \in Document!Task : off \in OfTask(task)
    <3> HIDE DEF OfTask
    <3> QED
      BY <1>0
  <2> QED
    BY <2>1
<1>2. /\ off.task = task /\ off.workflow = workflow /\ off.name \in Document!Selectors(task)
      /\ off.more \in More(task, workflow)
  BY <1>1
<1>3. PICK chosen \in {{}} \cup {{p} : p \in Optional(bd, [task |-> task, workflow |-> workflow])} :
        off.more \in Fillings(bd, chosen)
  BY <1>2 DEF More
<1>4. Optional(bd, [task |-> task, workflow |-> workflow]) = Optional(bd, off)
  BY <1>2 DEF Optional
<1>5. DOMAIN off.more = chosen /\ \A p \in chosen : off.more[p] \in ValuesOf(bd, p)
  BY <1>3 DEF Fillings
<1>6. chosen \subseteq Optional(bd, off) /\ \A p, q \in chosen : p = q
  BY <1>3, <1>4
<1> QED
  BY <1>2, <1>5, <1>6 DEF OfferFacts

\* A line with everything required is composed.
LEMMA FilledIsComposed ==
  ASSUME NEW bd \in [grpc : BOOLEAN, writer : BOOLEAN], NEW off, OfferFacts(bd, off),
         NEW besides \in SUBSET {"input_mode", "task_model"},
         NEW filled \in Fillings(bd, Required(off) \cup besides),
         NEW sources \in SourceLists(off.task)
  PROVE  Composed(bd, off, besides, filled, sources, LineOf(off, filled, sources))
<1>1. /\ DOMAIN filled = Required(off) \cup besides
      /\ \A p \in DOMAIN filled : filled[p] \in ValuesOf(bd, p)
  BY DEF Fillings
<1> QED
  BY <1>1 DEF Composed, OfferFacts

\* What is required can be given.
LEMMA Fillable ==
  ASSUME NEW bd, NEW off, NEW besides \in SUBSET {"input_mode", "task_model"}
  PROVE  \E filled \in Fillings(bd, Required(off) \cup besides) :
           "input_mode" \in besides => filled["input_mode"] = "encoded-image"
<1> DEFINE S == Required(off) \cup besides
<1>1. PICK paper \in Papers, phrase \in Phrases : TRUE
  BY ConsumerAssumption
<1> DEFINE f == [p \in S |-> IF p \in PaperParameter THEN paper
                             ELSE IF p = "input_mode" THEN "encoded-image" ELSE phrase]
<1>2. S \subseteq PaperParameter \cup PhraseParameter \cup {"input_mode"}
  BY RequiredAre DEF RequiredParameter, PaperParameter, PhraseParameter
<1>3. "input_mode" \notin PaperParameter \cup PhraseParameter
  BY DEF PaperParameter, PhraseParameter
<1>4. "encoded-image" \in ValuesOf(bd, "input_mode")
  <2>1. "input_mode" \in Document!Enum
    BY DEF Document!Enum
  <2>2. "encoded-image" \in Document!Values(bd, "input_mode")
    BY DEF Document!Values
  <2> QED
    BY <2>1, <2>2, EnumValues
<1>5. \A p \in S : f[p] \in ValuesOf(bd, p)
  <2> SUFFICES ASSUME NEW p \in S PROVE f[p] \in ValuesOf(bd, p)
    OBVIOUS
  <2>1. f[p] = (IF p \in PaperParameter THEN paper
                ELSE IF p = "input_mode" THEN "encoded-image" ELSE phrase)
    OBVIOUS
  <2> HIDE DEF f, S
  <2>2. CASE p \in PaperParameter
    BY <1>1, <2>1, <2>2, FileValues
  <2>3. CASE p = "input_mode"
    BY <1>3, <1>4, <2>1, <2>3
  <2>4. CASE p \in PhraseParameter
    <3>1. p \notin PaperParameter
      BY <2>4 DEF PaperParameter, PhraseParameter
    <3> QED
      BY <1>1, <1>3, <2>1, <2>4, <3>1, FileValues
  <2> QED
    BY <1>2, <2>2, <2>3, <2>4
<1>6. f \in Fillings(bd, S)
  BY <1>5 DEF Fillings
<1>7. "input_mode" \in besides => f["input_mode"] = "encoded-image"
  BY <1>3
<1> HIDE DEF f, S
<1> QED
  BY <1>6, <1>7 DEF S

\* One file as often as it takes. (min_items, max_items.)
LEMMA OneList ==
  ASSUME NEW task, NEW type \in Document!SourceTypes(task), NEW n \in Numbers(task),
         NEW file \in FilesOf(type)
  PROVE  [i \in 1 .. n |-> file] \in SourceLists(task)
<1> DEFINE Lists(t) == UNION {[1 .. k -> FilesOf(t)] : k \in Numbers(task)}
<1>1. SourceLists(task) = UNION {Lists(t) : t \in Document!SourceTypes(task)}
  BY DEF SourceLists
<1>2. [i \in 1 .. n |-> file] \in [1 .. n -> FilesOf(type)]
  OBVIOUS
<1>3. [i \in 1 .. n |-> file] \in Lists(type)
  BY <1>2
<1> HIDE DEF Lists
<1> QED
  BY <1>1, <1>3

\* Every task has sources it is offered with; what frame loops read is offered
\* with a clip, and classification with a picture. (taskCapabilities.)
LEMMA SourcesExist ==
  ASSUME NEW task \in Document!Task
  PROVE  /\ \E sources \in SourceLists(task) : TRUE
         /\ Document!RunsFrames(task) =>
              \E sources \in SourceLists(task) : sources \in [{1} -> Clips]
         /\ task = "classification" =>
              \E sources \in SourceLists(task) : sources \in [{1} -> Pictures]
<1>1. PICK picture \in Pictures, clip \in Clips : TRUE
  BY ConsumerAssumption
<1>2. 1 .. 1 = {1} /\ MaxGiven \in Nat /\ MaxGiven >= 2
  <2>1. MaxGiven \in Nat /\ MaxGiven >= 2
    BY ConsumerAssumption
  <2>2. 1 .. 1 = {1}
    OBVIOUS
  <2> QED
    BY <2>1, <2>2
<1>3. task # "optical_flow" => 1 \in Numbers(task)
  <2> SUFFICES ASSUME task # "optical_flow" PROVE 1 \in Numbers(task)
    OBVIOUS
  <2>1. Document!MinSources(task) \in {0, 1} /\ Document!MaxSources(task) = 1
    BY DEF Document!MinSources, Document!MaxSources
  <2> QED
    BY <1>2, <2>1 DEF Numbers
<1>4. task = "optical_flow" => 2 \in Numbers(task)
  <2> SUFFICES ASSUME task = "optical_flow" PROVE 2 \in Numbers(task)
    OBVIOUS
  <2>1. Document!MinSources(task) = 2 /\ Document!MaxSources(task) = 1000000
    BY DEF Document!MinSources, Document!MaxSources, Document!Unbounded
  <2> QED
    BY <1>2, <2>1 DEF Numbers
<1>5. /\ task # "video_classification" => "image" \in Document!SourceTypes(task)
      /\ Document!RunsFrames(task) => "video" \in Document!SourceTypes(task)
      /\ task = "video_classification" => Document!RunsFrames(task)
  BY DEF Document!SourceTypes, Document!RunsFrames
<1>6. FilesOf("image") = Pictures /\ FilesOf("video") = Clips
  BY DEF FilesOf
<1>7. Document!RunsFrames(task) => task # "optical_flow"
  BY DEF Document!RunsFrames
<1>8. ASSUME Document!RunsFrames(task)
      PROVE  \E sources \in SourceLists(task) : sources \in [{1} -> Clips]
  <2>1. [i \in 1 .. 1 |-> clip] \in SourceLists(task)
    BY <1>1, <1>3, <1>5, <1>6, <1>7, <1>8, OneList
  <2>2. [i \in 1 .. 1 |-> clip] \in [{1} -> Clips]
    BY <1>1, <1>2
  <2> QED
    BY <2>1, <2>2
<1>9. ASSUME task = "classification"
      PROVE  \E sources \in SourceLists(task) : sources \in [{1} -> Pictures]
  <2>0. task # "video_classification" /\ task # "optical_flow"
    BY <1>9
  <2>1. [i \in 1 .. 1 |-> picture] \in SourceLists(task)
    BY <1>1, <1>3, <1>5, <1>6, <2>0, OneList
  <2>2. [i \in 1 .. 1 |-> picture] \in [{1} -> Pictures]
    BY <1>1, <1>2
  <2> QED
    BY <2>1, <2>2
<1>10. \E sources \in SourceLists(task) : TRUE
  <2>1. CASE task = "video_classification"
    BY <1>5, <1>8, <2>1
  <2>2. CASE task # "video_classification"
    <3>1. \E n \in Numbers(task) : TRUE
      BY <1>3, <1>4
    <3>2. PICK n \in Numbers(task) : TRUE
      BY <3>1
    <3>3. [i \in 1 .. n |-> picture] \in SourceLists(task)
      BY <1>1, <1>5, <1>6, <2>2, OneList
    <3> QED
      BY <3>3
  <2> QED
    BY <2>1, <2>2
<1> QED
  BY <1>8, <1>9, <1>10

\* The parameters of frame loops go with tasks that have them, those of a way
\* to execute with none. (withVideoRunParameters, workflowCapabilities.)
LEMMA WhereParametersAre ==
  ASSUME NEW bd, NEW task \in Document!Task, NEW p \in Document!TaskOptional(bd, task)
  PROVE  /\ p \in {"timings_csv", "output_video"} => Document!RunsFrames(task)
         /\ p = "output_video" => bd.writer
         /\ p \notin {"warmup", "benchmark", "input_mode", "task_model", "postprocess_mode"}
<1> DEFINE Own == {"input_sizes", "prompt", "mmproj", "labels", "batch", "num_frames",
                   "min_confidence", "nms_threshold", "mask_threshold", "segmentation_output"}
<1>1. \/ p \in Own
      \/ Document!RunsFrames(task) /\ p \in Document!VideoRun(bd)
  BY DEF Document!TaskOptional, Document!Task
<1>2. p \in Document!VideoRun(bd) =>
        /\ p \in {"timings_csv", "no_display", "output_video"}
        /\ p = "output_video" => bd.writer
  BY DEF Document!VideoRun
<1>3. p \in Own => p \notin {"timings_csv", "output_video", "warmup", "benchmark",
                             "input_mode", "task_model", "postprocess_mode"}
  OBVIOUS
<1> HIDE DEF Own
<1> QED
  BY <1>1, <1>2, <1>3

\* A parameter of a way to execute is none of a task's outputs or thresholds,
\* and those of whole pictures are the server's alone. (The document's tables.)
LEMMA WorkflowParameters ==
  ASSUME NEW workflow \in Document!Workflow, NEW p \in Document!WorkflowOptional(workflow)
  PROVE  /\ p \notin {"timings_csv", "output_video", "batch", "input_sizes",
                      "nms_threshold", "mask_threshold"}
         /\ p \in {"input_mode", "task_model", "postprocess_mode"} => workflow = "client_server"
BY DEF Document!WorkflowOptional, Document!Workflow, Document!Local, Document!ClientServer

\* A parameter of a task is taken with the task and model it is offered for.
LEMMA TaskParameterTaken ==
  ASSUME NEW bd \in [grpc : BOOLEAN, writer : BOOLEAN], NEW off, OfferFacts(bd, off),
         DOMAIN off.more \subseteq Document!TaskOptional(bd, off.task)
  PROVE  \E sources \in SourceLists(off.task) : \E filled \in Fillings(bd, Required(off) \cup {}) :
           Takes(bd, LineOf(off, filled, sources))
<1>1. off.task \in Document!Task
  BY DEF OfferFacts
<1>2. \E sources \in SourceLists(off.task) :
        \A p \in {"timings_csv", "output_video"} : p \in DOMAIN off.more =>
          sources \in [{1} -> Clips] /\ off.task # "image_understanding"
  <2>1. CASE Document!RunsFrames(off.task)
    <3>1. off.task # "image_understanding"
      BY <2>1 DEF Document!RunsFrames
    <3> QED
      BY <1>1, <2>1, <3>1, SourcesExist
  <2>2. CASE ~ Document!RunsFrames(off.task)
    <3>1. \A p \in {"timings_csv", "output_video"} : p \notin DOMAIN off.more
      BY <1>1, <2>2, WhereParametersAre
    <3> QED
      BY <1>1, <3>1, SourcesExist
  <2> QED
    BY <2>1, <2>2
<1>3. PICK sources \in SourceLists(off.task) :
        \A p \in {"timings_csv", "output_video"} : p \in DOMAIN off.more =>
          sources \in [{1} -> Clips] /\ off.task # "image_understanding"
  BY <1>2
<1>4. {} \in SUBSET {"input_mode", "task_model"}
  OBVIOUS
<1>5. PICK filled \in Fillings(bd, Required(off) \cup {}) : TRUE
  BY <1>4, Fillable
<1>6. Composed(bd, off, {}, filled, sources, LineOf(off, filled, sources))
  BY <1>4, FilledIsComposed
<1>7. Chosen(bd, off, {}, filled, sources)
  <2>1. \A p, q \in DOMAIN off.more : p = q
    BY DEF OfferFacts
  <2>2. \A p \in DOMAIN off.more :
          /\ p = "output_video" => bd.writer
          /\ p \notin {"warmup", "benchmark", "input_mode", "task_model", "postprocess_mode"}
    BY <1>1, WhereParametersAre
  <2>3. "output_video" \in DOMAIN off.more => bd.writer
    BY <2>2
  <2>4. /\ "warmup" \notin DOMAIN off.more /\ "benchmark" \notin DOMAIN off.more
        /\ "input_mode" \notin DOMAIN off.more /\ "task_model" \notin DOMAIN off.more
        /\ "postprocess_mode" \notin DOMAIN off.more
    BY <2>2
  <2> QED
    BY <1>3, <2>1, <2>3, <2>4 DEF Chosen
<1> QED
  BY <1>6, <1>7, ChosenIsSuitable, LineIsTaken

\* A parameter of a way to execute is taken with a classifier and a picture,
\* and with pictures sent whole if it takes that.
LEMMA WorkflowParameterTaken ==
  ASSUME NEW bd \in [grpc : BOOLEAN, writer : BOOLEAN], NEW off, OfferFacts(bd, off),
         off.task = "classification",
         DOMAIN off.more \subseteq Document!WorkflowOptional(off.workflow)
  PROVE  \E sources \in SourceLists(off.task) : \E besides \in Companions(off) :
           \E filled \in Fillings(bd, Required(off) \cup besides) :
             Takes(bd, LineOf(off, filled, sources))
<1> DEFINE M == DOMAIN off.more
           whole == \/ "task_model" \in M
                    \/ "input_mode" \in M /\ off.more["input_mode"] # "preprocessed"
                    \/ "postprocess_mode" \in M /\ off.more["postprocess_mode"] # "cpu"
           besides == IF whole THEN {"input_mode", "task_model"} ELSE {}
<1>1. off.task \in Document!Task /\ off.workflow \in Document!Workflow
  BY DEF OfferFacts
<1>2. PICK sources \in SourceLists(off.task) : sources \in [{1} -> Pictures]
  BY <1>1, SourcesExist
<1>3. \A p \in M :
        /\ p \notin {"timings_csv", "output_video", "batch", "input_sizes",
                     "nms_threshold", "mask_threshold"}
        /\ p \in {"input_mode", "task_model", "postprocess_mode"} => off.workflow = "client_server"
  BY <1>1, WorkflowParameters
<1>4. whole => off.workflow = "client_server"
  BY <1>3
<1>5. besides \in SUBSET {"input_mode", "task_model"}
  OBVIOUS
<1>6. besides \in Companions(off)
  <2>1. off.workflow = "client_server" =>
          {"input_mode", "task_model"} \cap Document!WorkflowOptional(off.workflow)
            = {"input_mode", "task_model"}
    BY DEF Document!WorkflowOptional, Document!Local
  <2> HIDE DEF whole
  <2> QED
    BY <1>4, <2>1 DEF Companions
<1>7. \A p \in M : off.more[p] \in ValuesOf(bd, p)
  BY DEF OfferFacts
<1>8. "input_mode" \in M => off.more["input_mode"] \in {"preprocessed", "encoded-image"}
  <2>1. "input_mode" \in Document!Enum
    BY DEF Document!Enum
  <2>2. Document!Values(bd, "input_mode") = {"preprocessed", "encoded-image"}
    BY DEF Document!Values
  <2> QED
    BY <1>7, <2>1, <2>2, EnumValues
<1>9. \A p, q \in M : p = q
  BY DEF OfferFacts
<1> HIDE DEF besides
<1>10. PICK filled \in Fillings(bd, Required(off) \cup besides) :
         "input_mode" \in besides => filled["input_mode"] = "encoded-image"
  BY <1>5, Fillable
<1>11. Composed(bd, off, besides, filled, sources, LineOf(off, filled, sources))
  BY <1>5, FilledIsComposed
<1>12. Chosen(bd, off, besides, filled, sources)
  <2>1. /\ "timings_csv" \notin M /\ "output_video" \notin M
        /\ M \cap {"batch", "input_sizes", "nms_threshold", "mask_threshold"} = {}
    BY <1>3
  <2>2. CASE whole
    <3>1. "input_mode" \in M => off.more["input_mode"] = "encoded-image"
      <4>1. "input_mode" \in M => "task_model" \notin M /\ "postprocess_mode" \notin M
        BY <1>9
      <4> QED
        BY <1>8, <2>2, <4>1
    <3>2. besides = {"input_mode", "task_model"} /\ off.workflow = "client_server"
      BY <1>4, <2>2 DEF besides
    <3>3. filled["input_mode"] = "encoded-image"
      BY <1>10, <3>2
    <3> HIDE DEF whole
    <3> QED
      BY <1>2, <1>9, <2>1, <3>1, <3>2, <3>3 DEF Chosen
  <2>3. CASE ~ whole
    <3>1. besides = {}
      BY <2>3 DEF besides
    <3>2. /\ "input_mode" \in M => off.more["input_mode"] = "preprocessed"
          /\ "task_model" \notin M
          /\ "postprocess_mode" \in M => off.more["postprocess_mode"] = "cpu"
      BY <2>3
    <3> HIDE DEF whole
    <3> QED
      BY <1>2, <1>9, <2>1, <3>1, <3>2 DEF Chosen
  <2> QED
    BY <2>2, <2>3
<1>13. Takes(bd, LineOf(off, filled, sources))
  BY <1>11, <1>12, ChosenIsSuitable, LineIsTaken
<1> QED
  BY <1>6, <1>13

\* What is offered is taken somewhere. (taskCapabilities, workflowCapabilities
\* against the rules.)
LEMMA OfferIsTaken ==
  ASSUME NEW bd \in [grpc : BOOLEAN, writer : BOOLEAN], NEW off \in Offers(bd)
  PROVE  \E other \in Elsewhere(bd, off) : \E sources \in SourceLists(other.task) :
           \E besides \in Companions(other) :
             \E filled \in Fillings(bd, Required(other) \cup besides) :
               Takes(bd, LineOf(other, filled, sources))
<1>1. OfferFacts(bd, off)
  BY OffersAre
<1>2. CASE DOMAIN off.more \subseteq Document!TaskOptional(bd, off.task)
  <2>1. Elsewhere(bd, off) = {off}
    BY <1>2 DEF Elsewhere
  <2>2. {} \in Companions(off)
    BY DEF Companions
  <2>3. \E sources \in SourceLists(off.task) : \E filled \in Fillings(bd, Required(off) \cup {}) :
          Takes(bd, LineOf(off, filled, sources))
    BY <1>1, <1>2, TaskParameterTaken
  <2> QED
    BY <2>1, <2>2, <2>3
<1>3. CASE ~ (DOMAIN off.more \subseteq Document!TaskOptional(bd, off.task))
  <2> DEFINE name  == <<"vit", "-", "classifier">>
             other == [task |-> "classification", workflow |-> off.workflow,
                       name |-> name, more |-> off.more]
  <2>1. "classification" \in Document!Task /\ name \in Document!Selectors("classification")
    BY DEF Document!Task, Document!Selectors
  <2> HIDE DEF name
  <2>2. other \in [task : {"classification"}, workflow : {off.workflow},
                   name : Document!Selectors("classification"), more : {off.more}]
    BY <2>1
  <2>3. Elsewhere(bd, off) =
          UNION {[task : {task}, workflow : {off.workflow}, name : Document!Selectors(task),
                  more : {off.more}] : task \in Document!Task}
    BY <1>3 DEF Elsewhere
  <2>4. other \in Elsewhere(bd, off)
    <3> HIDE DEF other
    <3> QED
      BY <2>1, <2>2, <2>3
  <2>5. DOMAIN off.more \subseteq Document!WorkflowOptional(off.workflow)
    <3>1. DOMAIN off.more \subseteq
            Document!TaskOptional(bd, off.task) \cup Document!WorkflowOptional(off.workflow)
      BY <1>1 DEF OfferFacts, Optional
    <3>2. \A p, q \in DOMAIN off.more : p = q
      BY <1>1 DEF OfferFacts
    <3> QED
      BY <1>3, <3>1, <3>2
  <2>6. /\ other.task = "classification" /\ other.workflow = off.workflow
        /\ other.name = name /\ other.more = off.more
    OBVIOUS
  <2> HIDE DEF other
  <2>7. OfferFacts(bd, other)
    <3>1. DOMAIN other.more \subseteq Optional(bd, other)
      BY <2>5, <2>6 DEF Optional
    <3> QED
      BY <1>1, <2>1, <2>6, <3>1 DEF OfferFacts
  <2>8. \E sources \in SourceLists(other.task) : \E besides \in Companions(other) :
          \E filled \in Fillings(bd, Required(other) \cup besides) :
            Takes(bd, LineOf(other, filled, sources))
    BY <2>5, <2>6, <2>7, WorkflowParameterTaken
  <2> QED
    BY <2>4, <2>8
<1> QED
  BY <1>2, <1>3

\* The line is made of the offer, and the parser has found nothing to refuse
\* in a line of nothing but what is required.
OfferStands ==
  offer # NoOffer =>
    /\ build \in [grpc : BOOLEAN, writer : BOOLEAN]
    /\ offer \in Offers(build)
    /\ \E filled \in Fillings(build, Required(offer) \cup {}) :
         \E sources \in SourceLists(offer.task) : given = LineOf(offer, filled, sources)
    /\ pc # "typing"
    /\ DOMAIN offer.more = {} => errors = {} /\ outcome \in {"none", "config"}

OfferInv == IInv /\ OfferStands

\* What the parser finds on a line that an offer is made into.
OfferedLine(bd, off, line) ==
  /\ Read(bd, line, "type") = off.name
  /\ \A options \in SUBSET Option : Bad(bd, line, options) = {}
  /\ DOMAIN line \subseteq Known
  /\ "help" \notin Provided(line)
  /\ Read(bd, line, "capabilities") = FALSE
  /\ Source(bd, line) \in SourceLists(off.task)
  /\ DOMAIN off.more = {} =>
       /\ ArgumentRules(bd, line)
       /\ RunModeRules(bd, line)
       /\ ~ SizesThrow(Read(bd, line, "input_sizes"))

\* Nothing on it is unknown or malformed; if it has only what is required, the
\* rules take it. (parseCommandLineArguments.)
LEMMA OfferedLineIs ==
  ASSUME NEW bd \in [grpc : BOOLEAN, writer : BOOLEAN], NEW off \in Offers(bd),
         NEW filled \in Fillings(bd, Required(off) \cup {}),
         NEW sources \in SourceLists(off.task),
         NEW line, line = LineOf(off, filled, sources)
  PROVE  OfferedLine(bd, off, line)
<1>1. OfferFacts(bd, off)
  BY OffersAre
<1>2. {} \in SUBSET {"input_mode", "task_model"}
  OBVIOUS
<1>3. Composed(bd, off, {}, filled, sources, line)
  BY <1>1, <1>2, FilledIsComposed
<1>4. OthersAre(bd, off, sources, line)
  BY <1>3, OthersRead
<1>5. \A options \in SUBSET Option : Bad(bd, line, options) = {}
  <2>1. \A o \in Option : ~ Misfit(o, Raw(bd, line, o))
    BY <1>3, LineReads
  <2> QED
    BY <2>1 DEF Bad
<1>6. LineFacts(bd, off, filled, sources, line)
  BY <1>3, LineIs
<1>7. DOMAIN line \subseteq Option
  BY <1>6, ParametersAreOptions DEF LineFacts
<1>8. \A s \in DOMAIN line : Primary(s) = s
  BY <1>7, ParametersAreOptions DEF Primary
<1>9. "help" \notin DOMAIN line
  BY <1>6, ParametersAreOptions DEF LineFacts
<1>10. ASSUME DOMAIN off.more = {}
       PROVE  /\ ArgumentRules(bd, line) /\ RunModeRules(bd, line)
              /\ ~ SizesThrow(Read(bd, line, "input_sizes"))
  <2>1. Chosen(bd, off, {}, filled, sources)
    BY <1>10 DEF Chosen
  <2>2. Suitable(bd, off, sources, line)
    BY <1>3, <2>1, ChosenIsSuitable
  <2>3. "input_sizes" \notin DOMAIN line
    <3>1. "input_sizes" \in Parameter /\ "input_sizes" \notin RequiredParameter
      BY DEF Parameter, RequiredParameter
    <3>2. "input_sizes" \notin DOMAIN filled
      BY <3>1, RequiredAre DEF Fillings
    <3> QED
      BY <1>3, <1>10, <3>1, <3>2, ParameterReads
  <2>4. Read(bd, line, "input_sizes") = <<>>
    <3>1. LineValues(bd, off, sources, line)
      BY <1>3, LineHasValues
    <3> QED
      BY <2>3, <3>1 DEF LineValues
  <2>5. ~ SizesThrow(<<>>)
    BY DEF SizesThrow
  <2> QED
    BY <1>3, <2>2, <2>4, <2>5, ArgumentsTaken, ModesTaken
<1>11. DOMAIN line \subseteq Known
  BY <1>7 DEF Known
<1>12. "help" \notin Provided(line)
  BY <1>8, <1>9 DEF Provided
<1> QED
  BY <1>4, <1>5, <1>10, <1>11, <1>12 DEF OfferedLine, OthersAre

\* As long as the offer stands, the line typed is one composed of it.
\* (The document and the line are of the same build.)
LEMMA OfferStandsFinds ==
  ASSUME OfferStands, offer # NoOffer
  PROVE  OfferedLine(build, offer, given)
BY OfferedLineIs DEF OfferStands

\* A line that is composed is typed well. (LineConverts.)
LEMMA OfferInit == LineInit => OfferInv
<1>1. ASSUME offer = NoOffer, Init PROVE OfferInv
  BY <1>1, InitEstablishes DEF OfferInv, OfferStands
<1>2. ASSUME Offered PROVE OfferInv
  <2>1. /\ build \in [grpc : BOOLEAN, writer : BOOLEAN] /\ offer \in Offers(build)
        /\ pc = "keys" /\ errors = {} /\ outcome = "none"
    BY <1>2 DEF Offered
  <2>2. PICK filled \in Fillings(build, Required(offer)), sources \in SourceLists(offer.task) :
          given = LineOf(offer, filled, sources)
    BY <1>2 DEF Offered
  <2>3. Required(offer) = Required(offer) \cup {}
    OBVIOUS
  <2>4. Composed(build, offer, {}, filled, sources, given)
    <3>1. OfferFacts(build, offer)
      BY <2>1, OffersAre
    <3>2. {} \in SUBSET {"input_mode", "task_model"}
      OBVIOUS
    <3> QED
      BY <2>1, <2>2, <2>3, <3>1, <3>2, FilledIsComposed
  <2>5. TypedWell
    <3>1. DOMAIN given \subseteq Option
      BY <2>4, LineIs, ParametersAreOptions DEF LineFacts
    <3>2. \A s \in DOMAIN given : Primary(s) = s
      BY <3>1, ParametersAreOptions DEF Primary
    <3> QED
      BY <3>2 DEF TypedWell
  <2>6. IInv
    BY <2>1, <2>5 DEF IInv, Established, Noted, Passed, Configured
  <2>7. OfferStands
    BY <2>1, <2>2, <2>3 DEF OfferStands
  <2> QED
    BY <2>6, <2>7 DEF OfferInv
<1> QED
  BY <1>1, <1>2 DEF LineInit

\* No step of the parser refuses a line of nothing but what is required.
LEMMA ParseStands ==
  ASSUME OfferInv, UNCHANGED offer, offer # NoOffer, DOMAIN offer.more = {},
         \/ Run \/ CheckKeys \/ PrintHelp \/ ReadCapabilities
         \/ ValidateArguments \/ ValidateRunModes \/ FillConfig \/ CheckValues
  PROVE  errors' = {} /\ outcome' \in {"none", "config"}
<1>1. /\ errors = {} /\ outcome \in {"none", "config"} /\ pc # "typing"
  BY DEF OfferInv, OfferStands
<1>2. OfferedLine(build, offer, given)
  BY OfferStandsFinds DEF OfferInv
<1>3. \A options \in SUBSET Option : Bad(build, given, options) = {}
  BY <1>2 DEF OfferedLine
<1>4. /\ DOMAIN given \subseteq Known /\ "help" \notin Provided(given)
      /\ Read(build, given, "capabilities") = FALSE
      /\ ArgumentRules(build, given) /\ RunModeRules(build, given)
      /\ ~ SizesThrow(Read(build, given, "input_sizes"))
  BY <1>2 DEF OfferedLine
<1>5. \A options \in SUBSET Option : ReadValues(options) => errors' = {}
  BY <1>1, <1>3 DEF ReadValues
<1>6. CASE Run
  BY <1>1, <1>6 DEF Run, Goto
<1>7. CASE CheckKeys
  BY <1>1, <1>4, <1>7 DEF CheckKeys, Goto
<1>8. CASE PrintHelp
  BY <1>1, <1>4, <1>8 DEF PrintHelp, Goto
<1>9. CASE ReadCapabilities
  <2>1. {"capabilities"} \in SUBSET Option
    BY DEF Option, Typed, Switch
  <2>2. ReadValues({"capabilities"}) /\ UNCHANGED outcome
    BY <1>4, <1>9 DEF ReadCapabilities, Goto
  <2> QED
    BY <1>1, <1>5, <2>1, <2>2
<1>10. CASE ValidateArguments
  <2> DEFINE options == {"export_metadata", "sample_stride", "max_frames"}
                \cup {o \in {"kserve_timeout_ms"} : Read(build, given, "kserve_endpoint") # ""}
                \cup {o \in {"batch"} : Encoded(build, given)}
  <2>1. options \in SUBSET Option
    BY DEF Option, Typed, Switch, Count
  <2>2. ReadValues(options) /\ UNCHANGED outcome
    BY <1>1, <1>4, <1>10 DEF ValidateArguments, Goto
  <2> HIDE DEF options
  <2> QED
    BY <1>1, <1>5, <2>1, <2>2
<1>11. CASE ValidateRunModes
  <2>1. {"export_metadata", "warmup", "benchmark"} \in SUBSET Option
    BY DEF Option, Typed, Switch
  <2>2. ReadValues({"export_metadata", "warmup", "benchmark"}) /\ UNCHANGED outcome
    BY <1>4, <1>11 DEF ValidateRunModes, Goto
  <2> QED
    BY <1>1, <1>5, <2>1, <2>2
<1>12. CASE FillConfig
  <2>1. Copied \in SUBSET Option
    BY DEF Copied
  <2>2. ReadValues(Copied) /\ UNCHANGED outcome
    BY <1>4, <1>12 DEF FillConfig, Goto
  <2> QED
    BY <1>1, <1>5, <2>1, <2>2
<1>13. CASE CheckValues
  BY <1>1, <1>13 DEF CheckValues, Ends
<1> QED
  BY <1>6, <1>7, <1>8, <1>9, <1>10, <1>11, <1>12, <1>13

\* The parser leaves the line as the offer made it.
LEMMA OfferStep == OfferInv /\ [LineNext]_<<vars, offer>> => OfferInv'
<1> SUFFICES ASSUME OfferInv, [LineNext]_<<vars, offer>> PROVE OfferInv'
  OBVIOUS
<1> DEFINE Parses == \/ Run \/ CheckKeys \/ PrintHelp \/ ReadCapabilities
                     \/ ValidateArguments \/ ValidateRunModes \/ FillConfig \/ CheckValues
<1>1. offer' = offer
  BY DEF LineNext
<1>2. \/ \E s \in DOMAIN Choices : \E v \in Choices[s] : Type(s, v)
      \/ Parses
      \/ UNCHANGED vars
  BY DEF LineNext, Next, Done
<1>3. CASE \E s \in DOMAIN Choices : \E v \in Choices[s] : Type(s, v)
  <2>1. pc = "typing"
    BY <1>3 DEF Type
  <2>2. offer = NoOffer
    BY <2>1 DEF OfferInv, OfferStands
  <2>3. IInv'
    BY <1>3, TypeKeeps DEF OfferInv
  <2> QED
    BY <1>1, <2>2, <2>3 DEF OfferInv, OfferStands
<1>4. CASE Parses
  <2>1. IInv'
    BY <1>4, ParseKeeps DEF OfferInv
  <2>2. UNCHANGED <<build, given>> /\ pc' # "typing"
    BY <1>4 DEF Run, CheckKeys, PrintHelp, ReadCapabilities, ValidateArguments,
                ValidateRunModes, FillConfig, CheckValues, Goto, Ends
  <2>3. offer # NoOffer /\ DOMAIN offer.more = {} => errors' = {} /\ outcome' \in {"none", "config"}
    BY <1>1, <1>4, ParseStands
  <2>4. OfferStands'
    BY <1>1, <2>2, <2>3 DEF OfferInv, OfferStands
  <2> QED
    BY <2>1, <2>4 DEF OfferInv
<1>5. CASE UNCHANGED vars
  <2>1. IInv'
    BY <1>5, StutterKeeps DEF OfferInv
  <2>2. OfferStands'
    BY <1>1, <1>5 DEF OfferInv, OfferStands, vars
  <2> QED
    BY <2>1, <2>2 DEF OfferInv
<1> QED
  BY <1>2, <1>3, <1>4, <1>5

\* The parser of a line made of the document, or typed, keeps to both.
THEOREM OffersFollowed == LineSpec => []OfferInv
<1> QED
  BY OfferInit, OfferStep, PTL DEF LineSpec

\* Sources a task is offered with are ones it has a run for.
\* (min_items, max_items against RunInferenceCommand::execute.)
LEMMA OfferedSourcesDispatch ==
  ASSUME NEW task \in Document!Task, NEW sources \in SourceLists(task)
  PROVE  Dispatches(Document!TypeOfTask(task), sources)
<1>1. SourceFacts(task, sources)
  BY SourcesAre
<1>2. CASE task = "image_understanding"
  BY <1>2 DEF Dispatches, Document!TypeOfTask
<1>3. CASE task = "optical_flow"
  <2>1. Document!MinSources(task) = 2 /\ "video" \notin Document!SourceTypes(task)
    BY <1>3 DEF Document!MinSources, Document!SourceTypes
  <2>2. /\ Len(sources) >= 2 /\ DOMAIN sources = 1 .. Len(sources)
        /\ sources \in [1 .. Len(sources) -> Pictures]
    BY <1>1, <2>1 DEF SourceFacts
  <2>3. 1 \in DOMAIN sources /\ sources[1] \in Still
    <3>1. Pictures \subseteq Still
      BY ConsumerAssumption
    <3> QED
      BY <2>2, <3>1
  <2>4. Document!TypeOfTask(task) = "OpticalFlow"
    BY <1>3 DEF Document!TypeOfTask
  <2> QED
    BY <2>2, <2>3, <2>4 DEF Dispatches, AnyStill
<1>4. CASE task \notin {"image_understanding", "optical_flow"}
  <2>1. Document!MinSources(task) = 1
    BY <1>4 DEF Document!MinSources
  <2>2. Len(sources) = 1
    BY <1>1, <1>4, <2>1 DEF SourceFacts
  <2> QED
    BY <2>2 DEF Dispatches
<1> QED
  BY <1>2, <1>3, <1>4

\* What the document says is enough is enough, and gets the task it is listed
\* under, whatever models, files and numbers the consumer has.
\* (taskCapabilities against validateArguments, validateRunModes,
\* getTaskTypeForModel and RunInferenceCommand.)
THEOREM OffersRun == LineSpec => []OffersRunAsTheirTask
<1>1. OfferInv => OffersRunAsTheirTask
  <2> SUFFICES ASSUME OfferInv, offer # NoOffer, pc = "done" PROVE OffersRunAsTheirTask
    BY DEF OffersRunAsTheirTask
  <2>1. OfferedLine(build, offer, given) /\ offer \in Offers(build)
    BY OfferStandsFinds DEF OfferInv, OfferStands
  <2>2. offer.task \in Document!Task /\ offer.name \in Document!Selectors(offer.task)
    BY <2>1, OffersAre DEF OfferFacts
  <2>3. getTaskTypeForModel(offer.name) = Document!TypeOfTask(offer.task)
    BY <2>2, ListedIsRouted
  <2>4. outcome = "config" =>
          config["type"] = offer.name /\ config["source"] \in SourceLists(offer.task)
    <3> SUFFICES ASSUME outcome = "config"
                 PROVE  config["type"] = offer.name /\ config["source"] \in SourceLists(offer.task)
      OBVIOUS
    <3>1. Returned
      BY DEF OfferInv, IInv, Configured
    <3>2. /\ config["type"] = Read(build, given, "type")
          /\ config["source"] = Read(build, given, "source")
      BY <3>1, PlainOf DEF Plain
    <3> QED
      BY <2>1, <3>2 DEF OfferedLine, Source
  <2>5. DOMAIN offer.more = {} => outcome = "config"
    BY DEF OfferInv, IInv, OfferStands
  <2> QED
    BY <2>2, <2>3, <2>4, <2>5, OfferedSourcesDispatch DEF OffersRunAsTheirTask
<1> QED
  BY OffersFollowed, <1>1, PTL

\* Every parameter that is offered can be given, with any value it is offered
\* with, to the model it is offered for, or to some task executed that way.
\* (withVideoRunParameters and parameterCatalog against validateRunModes.)
THEOREM ParametersTaken == LineSpec => []EveryParameterIsTaken
<1>1. OfferInv => EveryParameterIsTaken
  <2> SUFFICES ASSUME OfferInv, offer # NoOffer PROVE EveryParameterIsTaken
    BY DEF EveryParameterIsTaken
  <2>1. build \in [grpc : BOOLEAN, writer : BOOLEAN] /\ offer \in Offers(build)
    BY DEF OfferInv, OfferStands
  <2> QED
    BY <2>1, OfferIsTaken DEF EveryParameterIsTaken
<1> QED
  BY OffersFollowed, <1>1, PTL

\* What holds of every configuration holds of those made of the document too,
\* which are typed by no one. (parseCommandLineArguments.)
THEOREM OffersParsed ==
  LineSpec => [](NothingNotedIsUsed /\ OutputsAreTheirOwn /\ RulesFitTheTask /\ ArgumentsAgree)
<1>1. LineInit => Judged
  <2>1. ASSUME Offered PROVE Judged
    <3>1. OfferInv /\ outcome = "none"
      BY <2>1, OfferInit DEF LineInit, Offered
    <3>2. PICK filled \in Fillings(build, Required(offer)), sources \in SourceLists(offer.task) :
            given = LineOf(offer, filled, sources)
      BY <2>1 DEF Offered
    <3>3. build \in [grpc : BOOLEAN, writer : BOOLEAN] /\ OfferFacts(build, offer)
      BY <2>1, OffersAre DEF Offered
    <3>4. Required(offer) = Required(offer) \cup {}
      OBVIOUS
    <3>5. {} \in SUBSET {"input_mode", "task_model"}
      OBVIOUS
    <3>6. Composed(build, offer, {}, filled, sources, given)
      BY <3>2, <3>3, <3>4, <3>5, FilledIsComposed
    <3>7. LineFacts(build, offer, filled, sources, given)
      BY <3>6, LineIs
    <3>8. DOMAIN given \subseteq Option
      BY <3>7, ParametersAreOptions DEF LineFacts
    <3>9. \A s \in DOMAIN given : Primary(s) = s
      BY <3>8, ParametersAreOptions DEF Primary
    <3>10. sources \in Seq(DOMAIN Canonical)
      <4>1. SourceFacts(offer.task, sources)
        BY <3>2, <3>3, SourcesAre DEF OfferFacts
      <4>2. Existing \subseteq DOMAIN Canonical
        BY CommandLineAssumption
      <4>3. Pictures \subseteq DOMAIN Canonical /\ Clips \subseteq DOMAIN Canonical
        BY <4>2, ConsumerAssumption
      <4>4. \E n \in Nat : sources \in [1 .. n -> Pictures] \/ sources \in [1 .. n -> Clips]
        BY <4>1 DEF SourceFacts
      <4> QED
        BY <4>3, <4>4
    <3>11. "source" \in DOMAIN given => given["source"] = sources
      <4>1. sources = <<>> => "source" \notin DOMAIN given
        BY <3>7, ParametersAreOptions DEF LineFacts
      <4> QED
        BY <3>7, <4>1 DEF LineFacts
    <3> QED
      BY <3>1, <3>9, <3>10, <3>11 DEF Judged
  <2> QED
    BY <2>1, InitJudged DEF LineInit
<1>2. [LineNext]_<<vars, offer>> => [Next]_vars
  BY DEF LineNext
<1>3. OfferInv /\ Judged /\ [Next]_vars => Judged'
  BY StepJudged DEF OfferInv
<1>4. OfferInv /\ Judged =>
        NothingNotedIsUsed /\ OutputsAreTheirOwn /\ RulesFitTheTask /\ ArgumentsAgree
  BY ReturnedIsRead, ReturnedIsApart, ReturnedFits, JudgedAgrees DEF OfferInv
<1> QED
  BY <1>1, <1>2, <1>3, <1>4, OffersFollowed, PTL DEF LineSpec
=============================================================================
