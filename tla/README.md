# A verification development for neuriplo-infer

TLA+ models of the application under `src/app`, the TLC runs that check small
instances of them, and the theorems TLAPS proves about them for every value of
their constants. Line numbers are those of the source files beside this
directory (`src/app/src/CLICommands.cpp` is written `CLICommands.cpp` below).

## 1. The system

`neuriplo-infer` is a command line program. It parses its options, builds an
inference pipeline (a backend, a task, a source, a renderer), runs the sources
through it and leaves images, a video, a CSV of timings and a run report behind.

| Component | State it keeps | Operations | Hard behaviour | What makes it correct |
|---|---|---|---|---|
| `main`, `NeuriploInfer::run` | the exit report's armed flag, the report of the run | parse, construct, run; `std::exit` hook; catch blocks | six ways to leave, a process killed anywhere | every end leaves its own report; help leaves none |
| Run report (`RunReport.cpp`) | stage, time per stage, counts, first failure, suspension depth | `beginStage`, `addStageMs`, `addSample`, `addFrames`, `fail`, `toJson` | timers that add while an exception unwinds | first failure wins; rates divide like by like |
| Report file (`writeRunReport`) | the destination and its `.tmp` neighbour | open, stream, close, rename, remove | crash between steps, short writes, two processes | a reader sees whole documents only |
| Frame loops (`processVideo`, `processVideoClassification`) | the capture frame, the `Mat` in hand, the window, the frame index | read, convert, infer, draw, write, wait for a key | `Mat` views that alias the capture frame, any step may throw | every frame read is written once, in order, as drawn |
| Output sink (`OutputVideoSink.cpp`) | `released_`, the writer | construct, `write`, `finish`, destroy | encoder failures that surface later | success means the file is complete; one release |
| Writer and source (the videocapture library, external) | a bounded queue, the container | `writeFrame`, `release`, `readFrame`; the encoder thread | back-pressure, asynchronous failure | see the sink |
| Timings CSV (`FrameTimingsCsv`) | an open stream | `add`, `close` | a disk that fills up shows at the flush | a row per inference, naming its frame |
| Still images, optical flow, image understanding, warmup, benchmark | the report | `processImage` and its siblings | timing suspended around calls that throw | samples counted after the outputs exist |
| KServe engine | cached metadata, last raw outputs | `get_infer_results`, `ensureMetadata` | a server that changes its model, sizes that overflow | what is copied fits what was announced |
| KServe envelope (`KserveEnvelope.hpp`) | the results decoded so far | decode detections, masks, polygons; filter by confidence | offsets, counts and boxes chosen by the server, products that overflow `size_t` | no read outside a tensor; a box is its visible part; a mask shows its own bytes; a contained ring is cut out |
| Encoded image request | none | model checks, JPEG dimensions | models that advertise nearly the right input | the request is refused before it is sent |
| Pipeline builder, model input types | the `ModelInfo` a task is built with | `setupBackend`, `setupTask`, `buildModelInfo`, `taskInputShape` | `--input_sizes` acts at two ends that read it differently | a picture is sent under the shape, layout and type it was prepared in, or refused |
| Frame conversion (`FrameConversion.cpp`) | none | `toBgrMat`, `toFrame` | padded rows, odd sides, chroma planes wherever the backend put them | a pixel is made of that pixel's bytes |
| Command line (`CommandLineParser.cpp`) | errors noted, configuration filled in | parse, `validateArguments`, `validateRunModes`, fill, check | values judged before malformed ones are reported | what is judged is what is used, what is accepted is what is dispatched |
| Task routing | none | `normalizeModelType`, `getTaskTypeForModel` | names that several tests take | a name means the task it is offered under |
| Capabilities document | none | `--capabilities` | a second account of what the parser, the routing and the dispatcher do | what is offered runs |
| Validation tool (`validation/`) | recorder: document, file counter, directory | observe, write tensors, `predictions.json`, report, exit code | a throw or a short write between a file, its name and the document | what is published is true, whole and agrees with the exit code |
| Renderer, utilities, scripts, CI | none | drawing, text splitting, hardware probes | | |

### How they interact

`main` arms the exit report, parses, disarms it and constructs `NeuriploInfer`,
whose `run` writes a provisional report, builds the pipeline and executes a
command. A command calls a frame loop, which owns an `OutputVideoSink` and a
`FrameTimingsCsv` on its stack: an exception destroys them on its way to the
catch block of `run`, which makes the stage on record the failed one, writes the
report and rethrows to `main`. The sink hands copies of pictures to the writer,
whose encoder thread consumes them from a bounded queue; the loop and that
thread are the only concurrency inside a process. A KServe server runs beside
the process and may reload its model between any two of its calls. Processes
meet only in the file system: one after the other, through the report they
replace, and, if two are started in one directory, through the temporary file
they share. The validation tool is a second `main` around the same commands: it
wraps the task, or the renderer when the server postprocesses, in an observer
that records every tensor. A consumer outside the repository reads the
capabilities document and composes command lines from it.

## 2. Modules

| Module | Models | Extends |
|---|---|---|
| `RunReport` | the collector, as operators on a report record | |
| `VideoWriter` | the external writer: queue, encoder thread, container | |
| `VideoArtifact` | abstract: what the user of `--output_video` is promised | |
| `FrameLoop` | both loops, `inferFrame`, the sink, the CSV, the catch block of `run` | `VideoWriter`, `RunReport` |
| `FrameLoopInvariant` | the inductive invariant of `FrameLoop`, in named parts | `FrameLoop` |
| `FrameLoopProofs` | theorems, those about `RunReport`'s operators among them | the above |
| `AtomicReport` | abstract: the report as a register replaced as a whole | |
| `ReportFile` | `writeRunReport`: names, inodes, the stream's buffer | `RunReport` |
| `RunLifecycle` | `main` to the end of the process, several processes | `ReportFile` |
| `RunLifecycleInvariant`, `RunLifecycleProofs` | the invariant of processes around one report, and theorems | `RunLifecycle` |
| `TaskRouting` | names as sequences of words, and the task each means | |
| `CommandLine` | the parser from the keys to the configuration; holds `Arguments` against it | `TaskRouting`, an instance of `Arguments` |
| `Capabilities` | the document, as operators | `TaskRouting` |
| `DocumentUse` | a consumer of the document in front of the parser | `CommandLine`, an instance of `Capabilities` |
| `CommandLineProofs` | the inductive invariants of the parser and of the consumer's lines, theorems about both | `DocumentUse` |
| `Arguments` | which options are accepted together, in one predicate | |
| `TaskRun` | pipeline setup, dispatch, still images, optical flow, image understanding, warmup, benchmark | `Arguments`, `RunReport` |
| `TaskRunInvariant`, `TaskRunProofs` | the inductive invariant of `TaskRun`, and theorems | `TaskRun` |
| `TensorBytes` | shapes, widths and byte counts of KServe tensors, in words of bounded width | |
| `KserveEngine` | the engine's cached metadata and kept outputs, beside a server | `TensorBytes` |
| `KserveEngineProofs` | theorems about both | `KserveEngine`, `ModelInput` |
| `ModelInput` | from the served metadata to the task's shapes and to the request | `TensorBytes` |
| `Envelope` | the three decoders and the confidence filter | |
| `EnvelopeProofs` | its inductive invariants, the geometry of convex rings, theorems | `Envelope` |
| `FramePlanes` | which bytes of a frame a pixel is made of | |
| `FramePlanesProofs` | theorems | `FramePlanes` |
| `ValidationRun` | the validation tool and its recorder | |
| `ValidationRunProofs` | its inductive invariant and theorems | `ValidationRun` |
| `MCFrameLoop`, `MCRunLifecycle`, `MCTaskRun`, `MCKserveEngine`, `MCModelInput`, `MCEnvelope`, `MCFramePlanes`, `MCValidationRun` | instances for TLC | |
| `MCCommandLine` | command lines for TLC | `CommandLine` |
| `MCCapabilities` | a consumer's files, texts and numbers for TLC | `MCCommandLine`, `DocumentUse` |

### Correspondence with the code

**FrameLoop.** `pc` is the statement of the loop about to run; each action is
the code up to the next point where another thread, or a throw, can be seen.
`Step(from, to)` is a normal step; `Throws(from, step)` records the step and goes
to `unwinding`, where `Unwind` is the sink's destructor, and `Catch` the
`report.fail(report.currentStage(), ...)` of `NeuriploInfer::run`. A picture is
what it shows, `[frame, overlay]`: which source frame's pixels, and whose results
were drawn on them. A `cv::Mat` is either such a picture, which it owns, or the
model value `View`, which means "whatever `storage` holds now": `toBgrMat`
returns a view of a packed BGR frame (`FrameConversion.cpp:118-130`) and an own
copy otherwise, `toFrame` always copies, and the classification window holds
clones. The aliasing hazards of the two loops are properties of that difference.
`TimedThrough` is a sequence of stage timers up to a stage: the time is added on
unwinding too, as `StageTimer`'s destructor does. `OpenSink` is lazy, on the first
frame. The report is the record of `RunReport`, whose operators are the class's
methods.

**VideoWriter.** `writeFrame` waits for room, refuses once the encoder has
failed, and otherwise accepts a copy; the encoder takes the oldest picture or
breaks; `release` drains the queue and says whether everything was encoded.
What is behind the interface is modelled from how `OutputVideoSink` and its test
use it.

**ReportFile.** The directory has two names; a process that opened the temporary
file writes to the inode it opened whatever becomes of the name. A document may
leave the stream's buffer in part before `close()`, whose verdict is the only
sign of a short write; `rename` may fail; the clean-up `remove` ignores its own
error. The file is empty, part of one document, a whole document or torn. An
inode is picked by number (`Fresh`): only identity matters.

**RunLifecycle.** `phase` is where a process is, `then` where its call of
`writeRunReport` returns to (`main` and `run` call it from five places). The work
of a run between its two reports is the stages it begins and how it ends, since
nothing else reaches the report file. `armed` is the exit report's flag. `printed`
is a history variable.

**Arguments, TaskRun.** `Accepts` is the conjunction of the parser's rules over
combinations of options; `Init` of `TaskRun` is any command line it accepts. A
model type stands for all the names that routing and the rules treat alike, a
source is a still image or not. `SetupTask` lets through what
`TaskFits` lets through; its parts `requireEnvelopeMatchesTask`,
`requireServerPostprocessMatchesTask` and `requireEncodedImageSupport` have the
names and the cases of the functions `setupTask` calls, and the
served model is any combination of the facts those checks look at (whether it
takes one UINT8 IMAGE, which envelope it declares and whether all of it, whether
its leading outputs are the inner model's, the type of a dense image input). The
three paths are one action per statement that can throw; `Infer` is
`inferFrame`, and the same three timers where a path spells them out, with
`TimedThrough` as in `FrameLoop`. `Repeat` is a round of `WarmupCommand` or
`BenchmarkCommand`: `TimingSuspension` is `BeginRepeat` and the `ResumeTiming` on
both of its exits. `image` is what the one `cv::Mat` of `processImage` shows:
drawing changes it in place, and the `cv::Mat` a command copies shares it. A run
that reaches a frame loop stops at `"frames"`, where `FrameLoop` begins.

**TensorBytes, KserveEngine.** The operators have the names of the functions in
`KserveEngine.cpp`; `Times` is their guarded multiplication, once against the
maximum of `size_t` and once against that of `int64_t`. The engine's
`ensureMetadata` is two calls of the server, so a reload fits between them; `then`
is the call it returns to. Versions number what a server has loaded. The caller
is the application: `setupTask` first, then `get_infer_results` and the reading
of `lastRawOutputs` for every frame, and nothing after a throw.

**ModelInput.** A model advertises shapes, with -1 for a dynamic axis, and
datatypes. `BuildModelInfo` is `buildModelInfo` with `setInputFormat`,
`taskInputShape` and `applyInputDatatypes`; the task, which is not in this
repository, prepares one picture of the extents its `ModelInfo` names and any
extent for an axis left dynamic; `SendPictures` is `get_infer_results` with the operators
of `TensorBytes`. `--input_sizes` is applied at both ends. A tensor is its shape,
layout and datatype: two that agree in bytes and not in those are the mistake
that is looked for. `ModelInputAssumption` says what a model that takes pictures
advertises: one of three layouts, a picture or clip first, with or without a batch
axis, channels of one or three where they are fixed, sides of more than three (a side
of three and less passes for channels, which `setInputFormat` cannot tell apart), and
any of its axes dynamic; beside it a second picture, or an input without an image whose
extents are fixed but for a batch, since what a task prepares for such an input is
not in this repository.

**Envelope.** One call of `decodeEnvelope` and the `filterByConfidence` after it.
An answer is a function from the names of the tensors it has to their elements;
a missing tensor and one of another type are refused by the same `throw`. A
detection is decoded in one step, a ring of a polygon in a step of its own, and a
throw is `pc = "failed"`. A score is finite or not and counts hundredths. `MaxSize`
is the maximum of `size_t` and `MaxInt` that of `int`, so that the guarded
products overflow in small instances.

**FramePlanes.** A byte is its address in the frame's storage, a decoded byte is
the triple of addresses it was decoded from, so a pixel says where it came from.
`toBgrMat` is one operator per branch (view, colour conversion, stacked planes);
`toFrame` writes rows to the packed frame the writer takes.

**TaskRouting, CommandLine.** A name is the sequence of its words, cut so that
every text the code looks for is a run of whole words. `cv::CommandLineParser`
streams a text into the type it is read as: a number is what the text begins with,
whatever follows; for a text without one it gives 0, for one beyond `int` the limit,
and notes an error, which only `check()` reports. A switch is parsed on the side:
a text that is neither true nor false reads as one of them, and only an empty one is
noted. `AsNumber` and `AsSwitch` say so for each text that is no value of its type,
and `errors` is the note. The steps are the parser's: typing, unknown keys,
single rules (`validateArguments`), combinations (`validateRunModes`), filling in
the configuration, `check()`. `Arguments`, the one predicate `TaskRun` starts from,
is held against it by `ArgumentsAgree`.

**Capabilities.** The document is a set of operators, one for each table of the
source, over the build. `DocumentUse` is its consumer: it takes a task, one of
its models, a workflow, sources of a type and number offered, all that is required
and at most one parameter more, composes the command line, and lets `CommandLine`
parse it. What the consumer has (pictures, clips, other files, places to write,
texts, shapes, numbers) are constants, and `ConsumerAssumption` says what they are:
files exist and are of the kind they are given for, a place to write is neither a
source nor the report, and every value is one of its option's type.

**ValidationRun.** What a file holds is the request, the part (preprocessing or
result) and the position its bytes came from; the document names files. A step
is a call of the run that may throw, a write that may fail or fall short, or a
statement of `main` after the run. A name is taken before its file is opened and
noted once the closed stream is good, as in the code.

## 3. Runs

| Run | Instance | Question |
|---|---|---|
| `frame_loop` | queue 2, sources of 0 to 5 frames, windows of 3, under fairness | what the file, the CSV and the report show in every interleaving; `VideoArtifact`; that every run ends |
| `failed_window_counted` | queue 1, 3 frames, windows of 2; a violation | counts against "added only after work succeeds" |
| `run_lifecycle` | two processes in sequence | whose outcome the report shows, with kills anywhere; `AtomicReport` |
| `overlapping_runs` | two processes at once; a violation | whether a reader still sees whole documents |
| `task_run` | every accepted command line with up to 3 sources, 2 rounds | what a run asked, wrote, counted, timed and blamed, and whether its flags were honoured |
| `benchmark_payload` | one source; a violation | what the benchmark of a preprocessed run sends |
| `kserve_engine` | all shapes of up to 3 extents in 4-bit words; 2 requests and a reload for two models more | what is sent, refused and returned, against unbounded arithmetic, and whose metadata it is |
| `model_input` | pictures 4x6 and 6x4, any axes dynamic, batched or not, four types, every kind of `--input_sizes` | whether a picture arrives in the shape, layout and type it was prepared in |
| `envelope` | boxes, packed masks and polygons, of one or two detections | what is left of a box, whose bytes a mask shows, what a ring is, what is refused |
| `frame_planes` | frames up to 4x4, every format and layout | whose bytes a pixel is made of |
| `command_line` | seven plain command lines and two options more, and all the document offers, of every build | what is accepted, on which values it was judged, `Arguments` against the parser, the document against both |
| `validation_run` | 3 requests, 2 files each, every failure | whether what the tool publishes can be trusted |

Properties that are named below and in no configuration are proved for every value
of the constants (section 4); the runs are kept for what remains.

**The properties of the loops.** `EachFrameOnce`: each frame is submitted and
stored once, in order, with its own pixels and its own results. `NothingLost`
(proved): the file and the queue together hold what was submitted.
`SuccessHasItsVideo`, `SampleMeansDelivered`: what a success and a counted sample
promise is on disk. `ReleasedExactlyOnce` (proved) over every way out.
`FailureNamesItsStage`: the sparse `beginStage`/`attributeTo` calls name the stage
of every throw in the loops but that of the re-encoding. `AskedAboutSourceFrames` (proved): the model never sees an
overlay, nor a frame of a window replaced by a later read. `RowsNameTheirFrames`:
the index of the CSV in both loops. `RateDividesLikeByLike`: counts against times.
`ArtifactSpec`: the refinement. `RunEnds`: liveness.

**The properties of the life cycle.** `OutcomeIsPublished` (exit code, status and
stage agree); `RunAtWorkShowsFailure` and `SuccessIsEarned` (no stale and no
invented success); `ReportIsARegister` (the refinement to `AtomicReport`).
`ReaderSeesWhole`, which overlapping processes violate, is proved for processes
that do not overlap; `HelpTouchesNothing` and `EveryEndIsReported` are proved for
all.

**The properties of a task's run.** `FailureNamesItsStage` again, over the whole
application and after warmup rounds, for every throw but the refusal of the
sources: of that only that it is on record. `TimesMatchSamples`: warmup and benchmark
leave no time, and the inference between them is timed. `NoSourceIsSkipped`:
success means every source was put to the model. `SamplesHaveArtifacts`: a sample
is a file of its own. `EncodedPayloadIsTheFile`: the drawing in between does not
reach the wire. `FlagsAreHonoured`: the parser's rules and the dispatcher's agree.
`ServerFitsTheRun`: what setup lets through can be rendered, in the form asked for.

**The properties of the engine.** `SentBytesFitTheirShape` and
`RefusalIsJustified` hold the sizing rules against `Readings`, the set of concrete
shapes that account for the bytes; `DeliveredFillTheirShape` does so for
responses. `OneSnapshot` is about the metadata kept between calls, and
`EnvelopeIsTheAnswer` (proved) about the outputs kept.

**The properties of a picture's way.** `PicturesArriveAsPrepared` relates the
shape, the layout and the datatype the task prepared to what the request says of
them and to how the model reads it; `RefusalHasItsCause` keeps it from being won
by refusing. `PictureIsTheFrames`: a pixel shown is made of its own bytes and of
the chroma bytes over it, and a pixel written of those of the pixel shown.
`RefusedForItsLayout`: no frame in the form the constructor lays out is refused,
on the way in or out.

**The properties of the decoder.** `BoxesAreTheVisiblePart` against a set
definition in unbounded arithmetic; `MasksShowTheirRun`: the part shown is where
before the box was clamped; `RingsPlayTheirPart`: no ring is lost, a hole lies in its
exterior and an exterior in no earlier one, judged for convex exteriors by the side
of their edges a point lies on, which is not how the code judges it;
`RefusedIfMalformed`: just the answers that break the contract are refused. `RunsFillTheirBoxes`, `OffsetsAreInside` and `ResultsAreTheConfident`
are proved.

**The properties of the command line and of the document.** `NothingNotedIsUsed`: a
configuration comes of no text whose reading notes an error, whenever it is read
(it does not say that every malformed text is noted, see below). `JudgedIsUsed` (proved):
the rules hold of the configuration handed out, not only of the values they were
tried on. `OutputsAreTheirOwn`: neither of the two files a flag has a run write replaces a
source, the report or the other, however it is spelled. `RulesFitTheTask`: what needs no source or needs
words is what the routing takes for such a task. `ArgumentsAgree`: the predicate
`TaskRun` starts from is the parser's. `OffersRunAsTheirTask` and
`EveryParameterIsTaken` hold the document to the parser, the routing and the
dispatch.

**The properties of the tool.** `NamedFilesHoldTheirData` (a published name is a
whole file of the entry that names it), `EveryAnswerIsRecorded`,
`ExitIsPublished`; `CallsAndSamplesPair`, `FailureLeavesEvidence` and
`WholeFilesStay` are proved.

**Bounds, and why they are enough.** A source of 5 frames with windows of 3
fills the window, slides it twice and leaves clips shorter than, equal to and
longer than the window; a queue of 2 is overtaken by the source, so `writeFrame`
waits and the encoder can fail before, while and after the loop waits. Every
option the loops read is an initial choice (`Config`). A frame loop has one
source: `RunInferenceCommand` refuses several (`CLICommands.cpp:982-985`). Two
processes are enough for a run and its predecessor and for two that overlap.
`ReachedStages` is two stages, one to be overtaken by another. Three sources are
two pairs of optical flow and every mixture of kinds the rules distinguish; two
rounds of warmup and benchmark are one before the round that throws. In four-bit
words an extent of 8 times another of 2 overflows, so the extents -1, 0, 2, 3 and 8
cover dynamic, empty, dividing, not dividing and overflowing; a third axis only
repeats the fold. The models of every shape answer plainly; the two models the
server changes between answer anything, to two requests: one whose outputs are
kept and one that could read them. A picture of unequal sides shows a
transposition, three channels and four columns a permutation; one picture is
enough because `--batch` beyond one is documented as unsupported. Boxes lie
inside, across each edge, on it and beyond it; a box of 7 by 7 overflows a
`size_t` of 7; two detections are one more than the first and the greatest
allowed; three rings are an exterior, a hole and a ring in the hole. Sides of 1 to
4 are odd and even with one chroma sample or two, padding of 0 to 2 is none, less
than a pixel and a column, planes are apart, adjacent, and in either order. Four
texts stand for those that are no value: a word, a number with more behind it, one
beyond `int`, and the empty one. The
rules of the parser relate two options and a kind of run at most (three for the
rules on encoded images, which one of the seven bases starts from); a line
composed from the document has all that is required and at most one parameter
more, from one picture, one clip, one other file, one text, and the numbers 0
and 100, the ends of the thresholds' ranges, of which a count takes the second. Three requests of two files are a repeated request between two of the run's,
and a name taken after another entry's.

**Fairness.** `frame_loop` runs under `FairSpec`: weak fairness of the loop and of
the encoder thread. Both are ordinary threads that are ready whenever their action
is enabled; the loop's only wait is the one for room in the queue, which weak
fairness of the encoder ends, by progress or by failing. The source ends after at
most `MaxFrames` frames: nothing of the kind is claimed of a camera. In the life
cycle no fairness is assumed and no liveness claimed: any process may be killed.

**What the violations show.** (1) `processVideoClassification` adds each frame to
the report when it is read (592-598), so a window whose inference throws leaves
its last frame counted, against `RunReport.cpp:161` and `docs/Usage.md:196`.
(2) Two runs in one directory share `run_report.json.tmp`, and a reader can find an
empty or torn report, against the comment at `RunReport.cpp:214`, which is right
for one process at a time. (3) In preprocessed mode the benchmark is given the
image after the results were drawn on it (314, 338), against
`CLICommands.hpp:14-16`, which says that the decoded image is what gets sent.

**Divergences without a run.** Met while modelling; the models follow the code,
and a property that meets such a case leaves it out or has the code's reading.
Two throws are attributed to whatever stage ran before, against the rule in
`CLICommands.cpp:44-46`: that of the re-encoding in `inferFrame` (203), and the
refusal of the sources in `execute` (977-985), which two stills and a detector reach
and which is reported as a failure of the model load that has just succeeded. Malformed
values are accepted, against `docs/Usage.md:91-93` and the comment at
`CommandLineParser.cpp:465-468`: a switch that is neither true nor false is silently one
of them (`--no_display=yes` shows the window), and text behind a number is dropped
(`--batch=4x` is 4), in `--input_sizes` as well (`utils.cpp:256`). Only scores that are
not finite are refused (`KserveEnvelope.hpp:77`); a finite one beyond `int` reaches
the label's conversion that the comment at 71-73 wants to keep it from. Only a
ring's first point is looked for in earlier rings (462), and one on the right or
lower edge counts as outside, so such a hole is filled; the contract at 374-375
says it is a hole. A source must be a file or a directory
(`CommandLineParser.cpp:506`), against the stream URLs of `docs/Usage.md:52`.
`deim-seg` matches a pattern the document lists under object
detection and is routed to segmentation, and `--batch` and `--iterations` of zero
or less are accepted, against the `minimum` the document declares; both against
`specs/mission.md:39-41`. `--input_sizes` replaces extents the server fixed where
the task is built (`InferencePipeline.cpp:91`) while the engine keeps them, so a
transposed picture of equal size is sent, against `docs/KserveRuntime.md:97-98`. A
model served without a batch axis has its first extent taken for the batch
(`KserveEngine.cpp:16`), against `ModelInputTypes.hpp:15`.

## 4. Proofs

In `FrameLoopProofs`, for every queue capacity, window length and source length, from the assumptions named in the modules
(`QueueCapacity` and `Window` positive, `MaxFrames` natural, `View` not a
picture); in `RunLifecycleProofs` for any number of processes; in `TaskRunProofs`
for any number of sources, warmup rounds and benchmark iterations; in
`KserveEngineProofs` for all models, shapes of any rank, payloads and responses, any
width of the machine's words, and any number of requests and reloads, and for
all models that take pictures, `--input_sizes` and extents picked for open axes; in
`EnvelopeProofs` for all answers, rings of any number of points, frame sizes,
thresholds and maxima of `int` and `size_t`; in `FramePlanesProofs` for frames of any
size, stride and place of their planes; in `ValidationRunProofs` for any number of
requests and files; in `CommandLineProofs` for all command lines, files and spellings
of them, and for every consumer of the document that has files of each kind it is
asked for. The assumptions are the modules' own and say what the types in the code
say: an extent is an integer, a byte count at most the greatest `int64_t`, a prefix
table holds `size_t`s, a row of a frame is at least as long as its pixels, an existing
file has a canonical name, what a text that is no value is read as has the option's type.

Each of the seven modules that state a `TypeOK` has it proved as well (`TypeCorrect`,
and within `LifeCorrect` for `RunLifecycle`).

* `TypeCorrect` of `FrameLoop` — `Spec => []TypeOK`, by `TypeInv`, one step per
  action.
* `LoopCorrect` — `Spec => []LoopInv`. None of the properties is inductive:
  that the file equals what was submitted needs to know what the `Mat` in hand
  shows when it is written, which needs the window's contents, which need the
  relation of `frame_index` to `read` at each `pc`. `LoopInv` says just that, in
  nine parts: `Shape` and `Position` (control against counts), `WindowContents`
  and `PictureInHand` (what the `Mat`s show), `SinkLife` (who may release, and
  how often), `HandedOver` (submitted against read), `Recorded` and `StageHeld`
  (report and CSV against control), `Stream` (queue and file against submitted).
  Each part has a lemma of its own (`PositionStep`, `SinkLifeStep`, ...) with one
  step per action that can disturb it; `LoopStep` puts them together.
* From it: `NothingIsLost`, `FramesOnceInOrder`, `SuccessIsDelivered`,
  `SamplesAreDelivered`, `ReleasedOnce`, `CleanFramesAsked`,
  `FailuresAreAttributed`. `RowsAreInferences` and `RatesAreOfFrames` need two more
  parts on top of it, `RowsSoFar` and `CountsSoFar`: how many rows, counted frames
  and measured inferences there are at each `pc`, against the frames read.
* `ImplementsArtifact` — `Spec => ArtifactSpec`: each step of loop or encoder is
  a step of `VideoArtifact` or a stutter. `FileIsPrefix` is its core: what is in
  the file, with nothing lost, is exactly the first frames offered.
* `FirstFailureWins`, `FailedDocument`, also in `FrameLoopProofs` — about the operators of `RunReport`.
* `LifeCorrect` — `Spec => []LifeInv` for `RunLifecycle`, however many processes
  there are and however they overlap: `Standing` says for each process what its
  report, its exit and its latest call of `writeRunReport` amount to at each phase,
  and `Authored` that a document found in any file is one its author wrote and may
  stand by. `HelpUntouched`, `EndsReported` and `SuccessEarned` follow. For
  processes that do not overlap `SequentialInv` adds what is in the files: who is
  alive is the latest (`Alone`), the open file is the temporary one and holds what
  was streamed so far (`InTheFile`), the destination is another file and whole
  (`TwoFiles`), and is the latest process's once it has written (`LastWord`).
  `ReadersSeeWhole`, `OutcomePublished`, `RunShowsFailure` and `ReportRegister`, the
  refinement to `AtomicReport`, follow from both.
* `RunCorrect` — `Spec => []RunInv` for `TaskRun`. What a run asked, wrote, counted
  and timed is changed by different steps, so its properties hold at the end and
  not in between; `RunInv` says for each `pc` how far apart they are (`TimesMatch`,
  `Written`, `AskedSoFar`, `Counted`), which pair, image and payload are in hand
  (`PairInHand`, `ImageInHand`), that timing is suspended in the rounds and only
  there (`Suspended`), which rounds were done (`Repeated`), what setup let through
  (`OnPath`, `Fitted`), and whose the stage on record is (`Blamed`). The seven
  properties of `task_run` follow.
* `EngineCorrect` — `Spec => [](EngineInv /\ ThenInv)`: metadata handed out is the
  metadata on record, and nothing is handed out before there is any; without the
  second part a fetch could replace what had been used. `SnapshotIsKept` and
  `EnvelopeIsFresh` follow.
* `SentFits`, `RefusalJustified`, `DeliveredFills` — the sizing rules against
  arithmetic without bounds. The code multiplies step by step and gives up at the
  first step that would exceed a limit; the lemmas about these products say that a
  product is given up exactly when the true one exceeds the limit and no extent is
  zero before that, by induction over the prefixes of a shape (an induction over a
  set of naturals: the smallest prefix at which the two disagree does not exist).
  With them `concreteInputShape`, which divides the bytes by what the known extents
  amount to, is right because the quotient is exact.
* `PicturesArrive`, `RefusalHasCause` — about `ModelInput`, for all models that meet
  its assumption, all `--input_sizes` and all extents a task may pick. `PathInv` says
  what has been read, built, prepared and labelled at each `phase`. The engine has
  only the bytes of a tensor to guess its shape from; `CompletionIsFound` says that
  it guesses right: whenever the bytes are those of some shape that completes the
  advertised one, and the guess leaves no axis open, the guess is that shape.
  `PictureCompletes` says that the shape a picture was prepared in is such a shape,
  alone or in a batch of one, although the two ends apply `--input_sizes`
  differently; `FormatIsTheLayout` that with one axis open at most the extents left
  show the layout, whichever axis is open.
* `DecoderCorrect` — `Spec => []Inv` for `Envelope`. A result is right because of
  the checks made at the start of the call, long before it is decoded, and a
  refusal is exact only if nothing before it was wrong: `Inv` says what has been
  checked at each `pc` (`InputOK`, `ControlOK`), what the detections and rings
  decoded so far are (`DetectionOK`, `PolygonsOK`, `ResultsOK`) and what the filter
  has kept (`FilterOK`). From it `BoxesAreVisible`, `MasksShow`, `RunsFill`,
  `OffsetsInside`, `ConfidentAreKept`, `RefusalIsExact`. The arithmetic of clamping
  and of the guarded products is in lemmas of its own.
* `RingsPlay` — `pointInsideRing` counts the edges a ray from the point crosses, in
  integers, and takes an odd number for inside. For a convex ring of any number of
  points `OutsideIsFound` and `InsideIsFound` show it right: an ordered pair of
  edges that cross the ray upwards, or downwards, would turn against the rest of the
  ring, so there is at most one of each; a point strictly inside has its ray crossed
  by exactly one, a point with edges turning both ways by both or none. Which rings a
  detection has so far is `RingsInv`, an invariant of its own (checked by TLC on the
  run `envelope`): each ring read is in one polygon, and in no polygon it is
  outside of.
* `PictureFaithful`, `LayoutRefused` — for `FramePlanes`: an address computed from
  row and column determines them (`row * stride + column` with a column below the
  stride, divided back), in each format, and in the planes a 4:2:0 frame is bridged
  to; `BridgeInv` says that the rows taken for the chroma planes are those the frame
  has there.
* `ToolCorrect` — for `ValidationRun`: the entry in hand is as good as those in the
  document (`HandHolds`), calls, samples and answers are as far apart as the step
  between them says (`Paired`, `Recorded`), and nothing is published early
  (`Outcome`). `FilesAreTrue`, `CallsArePaired`,
  `AnswersAreRecorded`, `ExitAgrees`, `EvidenceStays` and the action property
  `FilesStay` follow.
* `ParserCorrect` — for `CommandLine`: which rules are established at each step
  (`Established`), which errors have been noted by then (`Noted`), and
  what the configuration has been filled with (`Passed`, `Returned`).
  `NotedIsRefused`, `JudgedUsed` and `OutputsApart` follow. `RulesFit` needs the
  routing: that the first test which takes a name decides its task
  (`FirstClaimDecides`), and which tests the names can pass that the parser asks a
  picture, prompts or token files for. `RulesAgree` is the agreement of the parser
  with `Arguments`, rule by rule, by a second invariant `Judged`: sources are a list
  and what was refused broke a rule.
* `OffersRun`, `ParametersTaken` — for `DocumentUse`, by `OfferInv`: the parser's
  invariant, and that the line being parsed is one composed of the offer
  (`OffersFollowed`). The rest is about the composed line. `LineFacts` and
  `LineValues` say what each option of it is read as: a parameter the offer
  contains as one of the values the document gives it, every other option as its
  default. `LineIsTaken` goes through the parser's rules with these, one by one, for
  a line of nothing but what is required, and `OfferIsTaken` for a line with a
  parameter more, at the task and model it is offered for and, for a parameter of
  a way to execute, at some task. `ListedIsRouted` says that every name the document
  lists under a task is routed to that task: a name claimed by an earlier test of the
  routing would have one of that test's words, and no name listed elsewhere does;
  that `normalizeModelType` keeps what the tests look for is an induction over the
  prefixes of a name. The proof is for every value the consumer could give, where
  the run has one of each kind.
* `OffersParsed`, not in the list of theorems: the lines of a consumer satisfy the
  parser's four properties too.

Only model-checked: `RunEnds`. Liveness under fairness and `ENABLED` are outside
the proof system. Recursion is written as recursive functions, over a set of
prefixes, which the provers reason about by their defining equation.

## 5. What is not modelled, and limits of what is

* The video backend may itself drop frames and report success from `release()`
  (OpenCV's writer has no error result): `container = "complete"` means that the
  writer said so.
* A read that fails in the middle of a stream is the end of the stream for the
  loop, as in the code: `read_to_end` says nothing about the file.
* The machine stops nowhere: nothing is `fsync`ed, so a power loss is outside
  the report file's promise.
* Exceptions of non-standard types while parsing are not modelled: the parser
  throws `std::exception`s only.
* The task's computation, drawing, message texts and wall time are abstracted.
* The task, which decodes tensors and prepares pictures, comes from another
  repository: `ModelInput` models it as anything that prepares a picture of the
  extents it was told. A local backend's reading of `batch_size` is external too:
  `ModelInput` is the KServe path.
* `KserveEngine`'s latency counters and the conversion of element values between
  datatypes keep or decide nothing else depends on.
* The JPEG scan of `EncodedImage.hpp` is called by its tests only.
* Result renderer: drawing, without state; `FrameLoop` has that it draws in place
  on the `Mat` it is given.
* Utilities: label drawing, reading of label files and the GPU and CPU probes;
  the splitting of texts at separators is a fact about the text that is split.
* The defaults and the fixed header of the capabilities document, and the JSON
  forms of the validation tool's results.
* Build, release, docker and CI scripts: no program state.

## 6. Plan

Done, in this order: `RunReport`, `VideoWriter`, `VideoArtifact`, `FrameLoop`, its
invariant and proofs; `ReportFile`, `AtomicReport`, `RunLifecycle`; `Arguments`,
`TaskRun`; `TensorBytes`, `KserveEngine` and its proofs; `Envelope` and its proofs;
`ValidationRun` and its proofs; `TaskRouting`, `CommandLine` and its proofs;
`Capabilities`; `ModelInput`; `FramePlanes`; the invariants and proofs of
`RunLifecycle` and of `TaskRun`; rows and rates in `FrameLoopProofs`.

Then the proofs of the sizing rules, of a picture's way, of convex rings, of
`FramePlanes`, of the routing, of the agreement of `Arguments` with the parser, and
of what the capabilities document promises its consumer (`DocumentUse`).

Next: the latency counters of the engine; the label file and its use by the renderer.
