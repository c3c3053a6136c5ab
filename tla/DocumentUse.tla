------------------------------ MODULE DocumentUse ------------------------------
(***************************************************************************)
(* A consumer of the capabilities document in front of the parser          *)
(* (CommandLine).  Either a line is typed, or it is composed of what the   *)
(* document of the same build offers: a task and one of its models, a way  *)
(* to execute, sources of an offered type and number, all that is          *)
(* required, and one parameter more, or none.                              *)
(***************************************************************************)
EXTENDS CommandLine

Document == INSTANCE Capabilities

CONSTANTS
  Pictures,   \* what the consumer has: still images,
  Clips,      \*   video files,
  Papers,     \*   other files: weights, labels, vocabularies,
  Places,     \*   paths for what a run writes,
  Phrases,    \*   texts,
  Shapes,     \*   shape lists
  Figures,    \*   and numbers
  MaxGiven    \* bound: sources of a line

VARIABLE offer   \* the offer the line is made of

NoOffer == [typed |-> TRUE]

FilesOf(type) == IF type = "video" THEN Clips ELSE Pictures

Numbers(task) ==
  {n \in 0 .. MaxGiven : Document!MinSources(task) <= n /\ n <= Document!MaxSources(task)}

\* The sources a task is offered with.
SourceLists(task) ==
  UNION {UNION {[1 .. n -> FilesOf(type)] : n \in Numbers(task)}
         : type \in Document!SourceTypes(task)}

\* The values that a consumer may give a parameter.
ValuesOf(bd, p) ==
  CASE p \in Document!Enum   -> Document!Values(bd, p)
    [] p \in Document!Ranged ->
         {v \in Figures : Document!Minimum(p) <= v /\ v <= Document!Maximum(p)}
    [] p \in Switch          -> {TRUE}
    [] p = "input_sizes"     -> Shapes
    [] p \in {"weights", "labels", "mmproj", "tokenizer_vocab", "tokenizer_merges",
              "bert_tokenizer_vocab"} -> Papers
    [] p \in {"timings_csv", "output_video"} -> Places
    [] OTHER                 -> Phrases

Required(off) ==
  Document!WorkflowRequired(off.workflow)
    \cup Document!ModelRequired(normalizeModelType(off.name))

Optional(bd, off) ==
  Document!TaskOptional(bd, off.task) \cup Document!WorkflowOptional(off.workflow)

\* Each parameter of a set with a value of its own.
Fillings(bd, parameters) ==
  {filled \in [parameters -> UNION {ValuesOf(bd, p) : p \in parameters}] :
     \A p \in parameters : filled[p] \in ValuesOf(bd, p)}

\* No parameter that is not required, or one.
Offers(bd) ==
  UNION {
    UNION {
      [task : {task}, workflow : {workflow}, name : Document!Selectors(task),
       more : UNION {Fillings(bd, chosen) : chosen \in {{}} \cup {{p} :
                p \in Optional(bd, [task |-> task, workflow |-> workflow])}}]
      : workflow \in Document!Workflow}
    : task \in Document!Task}

\* The model, the sources, what is required, and what is asked for besides.
LineOf(off, filled, sources) ==
  [p \in {"type"} \cup {s \in {"source"} : sources # <<>>}
           \cup DOMAIN filled \cup DOMAIN off.more |->
     CASE p = "type"             -> off.name
       [] p = "source"           -> sources
       [] p \in DOMAIN off.more  -> off.more[p]
       [] OTHER                  -> filled[p]]

\* The consumer's files exist, and are of the kind they are given for; where
\* it lets a run write is neither a source nor the report; what it gives can
\* be read, and so can every default.
ASSUME ConsumerAssumption ==
  /\ Pictures # {} /\ Pictures \subseteq Existing \cap Still
  /\ Clips # {} /\ Clips \subseteq Existing \ Still
  /\ Papers # {} /\ Papers \subseteq Existing
  /\ Phrases # {}
  /\ "" \notin Papers \cup Places \cup Phrases
  /\ Places \subseteq DOMAIN Canonical
  /\ \A place \in Places : \A file \in {ReportPath} \cup Pictures \cup Clips :
       ~ samePath(place, file)
  /\ Figures \subseteq Int
  /\ MaxGiven \in Nat /\ MaxGiven >= 2
  /\ \A bd \in [grpc : BOOLEAN, writer : BOOLEAN] : \A o \in Typed :
       /\ ~ Misfit(o, Default(bd, o))
       /\ \A value \in ValuesOf(bd, o) : ~ Misfit(o, value)

-----------------------------------------------------------------------------
Offered ==
  /\ build \in [grpc : BOOLEAN, writer : BOOLEAN]
  /\ offer \in Offers(build)
  /\ \E filled \in Fillings(build, Required(offer)) :
       \E sources \in SourceLists(offer.task) : given = LineOf(offer, filled, sources)
  /\ pc = "keys"
  /\ errors = {}
  /\ config = NoConfig
  /\ outcome = "none"

LineInit == Offered \/ (offer = NoOffer /\ Init)

LineNext == Next /\ UNCHANGED offer

LineSpec == LineInit /\ [][LineNext]_<<vars, offer>>

-----------------------------------------------------------------------------
\* RunInferenceCommand::execute: the sources are ones the task has a run for.
Dispatches(task, sources) ==
  \/ task = "ImageUnderstanding"
  \/ Len(sources) = 1
  \/ AnyStill(sources) /\ task = "OpticalFlow" /\ Len(sources) >= 2

\* What the document says is enough is enough: a line of nothing but what is
\* required is accepted, and dispatched to a run; and whatever more it is
\* given, a model found under a task is routed to that task.
\* (taskCapabilities against validateArguments, RunInferenceCommand and
\* getTaskTypeForModel.)
OffersRunAsTheirTask ==
  offer # NoOffer /\ pc = "done" =>
    /\ DOMAIN offer.more = {} =>
         outcome = "config"
           /\ Dispatches(getTaskTypeForModel(config["type"]), config["source"])
    /\ outcome = "config" =>
         getTaskTypeForModel(config["type"]) = Document!TypeOfTask(offer.task)

\* The same parameter elsewhere: one of a task stays with its task and model,
\* one of a way to execute may be given to any.
Elsewhere(bd, off) ==
  IF DOMAIN off.more \subseteq Document!TaskOptional(bd, off.task) THEN {off}
  ELSE UNION {[task : {task}, workflow : {off.workflow}, name : Document!Selectors(task),
               more : {off.more}] : task \in Document!Task}

\* What may have to be given beside it: an inner model, and pictures sent whole.
Companions(off) ==
  {{}} \cup {{"input_mode", "task_model"} \cap Document!WorkflowOptional(off.workflow)}

Takes(bd, line) == ArgumentRules(bd, line) /\ RunModeRules(bd, line)

\* A parameter offered for a task can be given to it and to each of its models,
\* with every value offered, for some source the task is offered with; and one
\* offered for a way to execute can be given to some task executed that way.
\* (withVideoRunParameters and parameterCatalog against validateRunModes.)
EveryParameterIsTaken ==
  offer # NoOffer /\ pc = "keys" =>
    \E off \in Elsewhere(build, offer) : \E sources \in SourceLists(off.task) :
      \E besides \in Companions(off) :
        \E filled \in Fillings(build, Required(off) \cup besides) :
          Takes(build, LineOf(off, filled, sources))
=============================================================================
