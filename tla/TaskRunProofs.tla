----------------------------- MODULE TaskRunProofs -----------------------------
(***************************************************************************)
(* Theorems about TaskRun, for every number of sources, of warmup rounds   *)
(* and of benchmark iterations: the invariant of TaskRunInvariant, and     *)
(* from it the properties of a run's samples, times, requests and images.  *)
(***************************************************************************)
EXTENDS TaskRunInvariant, FiniteSetTheorems, TLAPS

-----------------------------------------------------------------------------
(***************************************************************************)
(* What the operators of RunReport leave of a report.                      *)
(***************************************************************************)
\* t is r but for the stage and the times.
Keeps(r, t) ==
  /\ t \in Report
  /\ t.samples = r.samples
  /\ t.suspended = r.suspended
  /\ t.failure = r.failure

LEMMA BeginStageKeeps ==
  ASSUME NEW r \in Report, NEW s \in RunStage
  PROVE  /\ Keeps(r, BeginStage(r, s))
         /\ BeginStage(r, s).stage = s
         /\ BeginStage(r, s).ms = r.ms
  BY DEF BeginStage, Keeps, Report

LEMMA AddStageMsKeeps ==
  ASSUME NEW r \in Report, NEW s \in TimedStage
  PROVE  /\ Keeps(r, AddStageMs(r, s, 1))
         /\ AddStageMs(r, s, 1).stage = r.stage
         /\ AddStageMs(r, s, 1).ms = IF r.suspended > 0 THEN r.ms
                                     ELSE [r.ms EXCEPT ![s] = @ + 1]
  BY DEF AddStageMs, Keeps, Report

LEMMA TimedKeeps ==
  ASSUME NEW r \in Report, NEW s \in TimedStage
  PROVE  /\ Keeps(r, Timed(r, s, 1))
         /\ Timed(r, s, 1).stage = s
         /\ Timed(r, s, 1).ms = IF r.suspended > 0 THEN r.ms
                                ELSE [r.ms EXCEPT ![s] = @ + 1]
<1> DEFINE b == BeginStage(r, s)
<1>1. s \in RunStage
  BY DEF RunStage
<1>2. Keeps(r, b) /\ b.stage = s /\ b.ms = r.ms
  BY <1>1, BeginStageKeeps
<1>3. Timed(r, s, 1) = AddStageMs(b, s, 1)
  BY DEF Timed
<1> HIDE DEF b
<1>4. b \in Report /\ b.suspended = r.suspended
  BY <1>2 DEF Keeps
<1>5. /\ Keeps(b, AddStageMs(b, s, 1))
      /\ AddStageMs(b, s, 1).stage = b.stage
      /\ AddStageMs(b, s, 1).ms = IF b.suspended > 0 THEN b.ms
                                  ELSE [b.ms EXCEPT ![s] = @ + 1]
  BY <1>4, AddStageMsKeeps
<1>6. Keeps(r, AddStageMs(b, s, 1))
  BY <1>2, <1>5 DEF Keeps
<1> QED
  BY <1>2, <1>3, <1>4, <1>5, <1>6

LEMMA SuspendKeeps ==
  ASSUME NEW r \in Report
  PROVE  /\ SuspendTiming(r) \in Report
         /\ SuspendTiming(r) = [r EXCEPT !.suspended = r.suspended + 1]
  BY DEF SuspendTiming, Report

LEMMA ResumeKeeps ==
  ASSUME NEW r \in Report
  PROVE  /\ ResumeTiming(r) \in Report
         /\ r.suspended = 1 => ResumeTiming(r) = [r EXCEPT !.suspended = 0]
  BY DEF ResumeTiming, Report

LEMMA AddSampleKeeps ==
  ASSUME NEW r \in Report
  PROVE  /\ AddSample(r) \in Report
         /\ AddSample(r) = [r EXCEPT !.samples = r.samples + 1]
  BY DEF AddSample, Report

LEMMA SourceKeeps ==
  ASSUME NEW r \in Report
  PROVE  /\ Keeps(r, Timed(r, "source", 1))
         /\ Timed(r, "source", 1).stage = "source"
         /\ Timed(r, "source", 1).ms = r.ms
<1>1. "source" \in RunStage /\ "source" \notin TimedStage
  BY DEF RunStage, TimedStage
<1> QED
  BY <1>1, BeginStageKeeps DEF Timed, AddStageMs

\* The intervals of one inference, as far as it came.
LEMMA ThroughKeeps ==
  ASSUME NEW r \in Report, NEW s \in Stages
  PROVE  /\ Keeps(r, TimedThrough(r, s))
         /\ TimedThrough(r, s).stage = s
         /\ TimedThrough(r, s).ms["render"] = r.ms["render"]
         /\ r.suspended > 0 => TimedThrough(r, s).ms = r.ms
         /\ r.suspended = 0 =>
              /\ \A t \in TimedStage : TimedThrough(r, s).ms[t] \in {r.ms[t], r.ms[t] + 1}
              /\ s = "postprocess" =>
                   \A t \in PerSample \ {"render"} :
                     TimedThrough(r, s).ms[t] = r.ms[t] + 1
<1> DEFINE pre  == IF o.encoded THEN r ELSE Timed(r, "preprocess", 1)
           inf  == Timed(pre, "inference", 1)
           post == Timed(inf, "postprocess", 1)
<1>0. {"preprocess", "inference", "postprocess", "render"} \subseteq TimedStage
  BY DEF TimedStage
<1>1. Keeps(r, pre) /\ pre.ms = IF r.suspended > 0 \/ o.encoded THEN r.ms
                                ELSE [r.ms EXCEPT !["preprocess"] = @ + 1]
  BY <1>0, TimedKeeps DEF Keeps
<1>2. ~o.encoded => pre.stage = "preprocess"
  BY <1>0, TimedKeeps
<1>3. Keeps(r, inf) /\ inf.stage = "inference"
      /\ inf.ms = IF r.suspended > 0 THEN pre.ms ELSE [pre.ms EXCEPT !["inference"] = @ + 1]
  <2> HIDE DEF pre
  <2>1. pre \in Report /\ pre.suspended = r.suspended
    BY <1>1 DEF Keeps
  <2>2. /\ Keeps(pre, inf) /\ inf.stage = "inference"
        /\ inf.ms = IF pre.suspended > 0 THEN pre.ms
                    ELSE [pre.ms EXCEPT !["inference"] = @ + 1]
    BY <1>0, <2>1, TimedKeeps
  <2> HIDE DEF inf
  <2>3. Keeps(r, inf)
    BY <1>1, <2>2 DEF Keeps
  <2> QED
    BY <2>1, <2>2, <2>3
<1>4. Keeps(r, post) /\ post.stage = "postprocess"
      /\ post.ms = IF r.suspended > 0 THEN inf.ms ELSE [inf.ms EXCEPT !["postprocess"] = @ + 1]
  <2> HIDE DEF inf
  <2>1. inf \in Report /\ inf.suspended = r.suspended
    BY <1>3 DEF Keeps
  <2>2. /\ Keeps(inf, post) /\ post.stage = "postprocess"
        /\ post.ms = IF inf.suspended > 0 THEN inf.ms
                     ELSE [inf.ms EXCEPT !["postprocess"] = @ + 1]
    BY <1>0, <2>1, TimedKeeps
  <2> HIDE DEF post
  <2>3. Keeps(r, post)
    BY <1>3, <2>2 DEF Keeps
  <2> QED
    BY <2>1, <2>2, <2>3
<1>5. /\ s \in {"preprocess", "inference", "postprocess"}
      /\ s = "preprocess" => ~o.encoded
  BY DEF Stages, InferenceFault
<1>6. TimedThrough(r, s) = IF s = "preprocess" THEN pre
                           ELSE IF s = "inference" THEN inf ELSE post
  BY <1>5 DEF TimedThrough
<1>7. r.ms \in [TimedStage -> Nat]
  BY DEF Report
<1>8. PerSample \ {"render"} = IF o.encoded THEN {"inference", "postprocess"}
                               ELSE {"preprocess", "inference", "postprocess"}
  BY DEF PerSample
<1> HIDE DEF pre, inf, post
<1>9. CASE s = "preprocess"
  BY <1>0, <1>1, <1>2, <1>5, <1>6, <1>7, <1>9 DEF Keeps
<1>10. CASE s = "inference"
  BY <1>0, <1>1, <1>3, <1>6, <1>7, <1>10 DEF Keeps
<1>11. CASE s = "postprocess"
  BY <1>0, <1>1, <1>3, <1>4, <1>6, <1>7, <1>8, <1>11 DEF Keeps
<1> QED
  BY <1>5, <1>9, <1>10, <1>11

-----------------------------------------------------------------------------
(***************************************************************************)
(* The invariant holds at the start.                                       *)
(***************************************************************************)
LEMMA SamplesAreTimed == PerSample \subseteq TimedStage \ {"model_load"}
  BY DEF PerSample, TimedStage

\* The sources are a sequence, and a still image among them makes it non-empty.
LEMMA SourcesAreSeq ==
  ASSUME OnPath
  PROVE  /\ o.sources \in Seq({"still", "moving"})
         /\ AnyStill(o) => Len(o.sources) \in Nat \ {0}
         /\ AnyStill(o) /\ Len(o.sources) # 1 => Len(o.sources) > 1
<1>1. PICK n \in 0 .. MaxSources : o.sources \in [1 .. n -> {"still", "moving"}]
  BY DEF OnPath, Options, SourceList
<1>2. n \in Nat
  BY ArgumentsAssumption
<1>3. o.sources \in Seq({"still", "moving"}) /\ Len(o.sources) = n
  BY <1>1, <1>2
<1>4. AnyStill(o) => n # 0
  BY <1>1 DEF AnyStill
<1> QED
  BY <1>2, <1>3, <1>4

\* Warmup and benchmark are accepted for a single image only.
LEMMA OnlyImagesRepeat ==
  ASSUME OnPath, o.warmup \/ o.benchmark
  PROVE  Len(o.sources) = 1 /\ AllStill(o) /\ ~IsText(o) /\ ~o.export_metadata
<1>1. RunModeRules(o)
  BY DEF OnPath, Accepts
<1> QED
  BY <1>1 DEF RunModeRules, SingleImageRun

LEMMA TextIsText ==
  ASSUME OnPath, Task = "ImageUnderstanding"
  PROVE  IsText(o)
<1>1. o.type \in ModelType
  BY DEF OnPath, Options
<1> QED
  BY <1>1 DEF Task, TaskOf, IsText, ModelType

LEMMA NewReportIsReport == NewReport \in Report
  BY DEF NewReport, Report, RunStage

LEMMA RunStart == Init => RunInv
<1> SUFFICES ASSUME Init PROVE RunInv
  OBVIOUS
<1> USE DEF Init
<1>1. TypeOK
  BY NewReportIsReport DEF TypeOK, PC, Unknown, ServedModel, Envelope
<1>2. OnPath /\ Fresh /\ Suspended /\ ImageInHand /\ Repeated /\ Counted /\ EndedWell
  BY DEF OnPath, Fresh, Suspended, ImageInHand, Repeated, Counted, EndedWell, NewReport,
         ImagePC, FlowPC, TextPC
<1>3. Fitted /\ Blamed /\ EncodedPayloadIsTheFile
  BY DEF Fitted, Blamed, NewReport, EncodedPayloadIsTheFile
<1>4. Rendered = 0 /\ Inferred = 0 /\ InHand = {}
  BY DEF Rendered, Inferred, InHand, RenderPC, SamplePC, NewReport
<1>5. TimesMatch
  BY <1>4 DEF TimesMatch, NewReport, PerSample, TimedStage
<1>6. Written /\ PairInHand /\ AskedSoFar
  BY <1>4 DEF Written, PairInHand, AskedSoFar, RunRequests, NewReport, FlowPC
<1> QED
  BY <1>1, <1>2, <1>3, <1>5, <1>6 DEF RunInv

-----------------------------------------------------------------------------
(***************************************************************************)
(* build() and the dispatch: nothing is asked, written or counted yet.     *)
(***************************************************************************)

\* What the steps of the setup have in common.
LEMMA SetupState ==
  ASSUME RunInv, pc \in SetupPC
  PROVE  /\ fault = "none" /\ report.failure = NoFailure /\ report.suspended = 0
         /\ report.samples = 0 /\ requests = {} /\ artifacts = {}
         /\ round = 0 /\ pair = 1 /\ image = "none"
         /\ \A s \in PerSample : report.ms[s] = 0
<1>1. pc \notin {"caught", "done", "warmup", "benchmark"} \cup FlowPC \cup RenderPC \cup SamplePC
  BY DEF SetupPC, FlowPC, RenderPC, SamplePC
<1>2. InHand = {}
  BY <1>1 DEF InHand
<1>3. fault = "none" /\ report.failure = NoFailure /\ report.suspended = 0
  BY <1>1 DEF RunInv, Blamed, Suspended
<1>4. report.samples = 0 /\ requests = {} /\ artifacts = {} /\ image = "none"
  BY DEF RunInv, Fresh
<1>5. round = 0 /\ pair = 1
  BY <1>1 DEF RunInv, Repeated, PairInHand
<1>6. \A s \in PerSample : report.ms[s] = 0
  BY <1>2, <1>3, <1>4 DEF RunInv, TimesMatch
<1> QED
  BY <1>3, <1>4, <1>5, <1>6

\* The invariant after a step that asks, writes and counts nothing, and comes
\* to a place where nothing has been done.
LEMMA SetupKeeps ==
  ASSUME RunInv, pc \in SetupPC, TypeOK', OnPath', Blamed', Fitted',
         o' = o, runVars' = runVars,
         report'.samples = 0, report'.suspended = 0,
         \A s \in PerSample : report'.ms[s] = 0,
         \/ pc' \in SetupPC \cup {"image_read", "flow_read", "text_read", "frames", "caught"}
         \/ pc' = "done" /\ o.export_metadata
  PROVE  RunInv'
<1>1. /\ requests' = {} /\ artifacts' = {}
      /\ round' = 0 /\ pair' = 1 /\ image' = "none"
  BY SetupState DEF runVars
<1>2. pc' \notin {"warmup", "benchmark"} \cup RenderPC \cup SamplePC
  BY DEF SetupPC, RenderPC, SamplePC
<1>3. Rendered' = 0 /\ Inferred' = 0 /\ InHand' = {}
  BY <1>2 DEF Rendered, Inferred, InHand
<1>4. Fresh' /\ Suspended' /\ EncodedPayloadIsTheFile'
  BY <1>1, <1>2 DEF Fresh, Suspended, EncodedPayloadIsTheFile
<1>5. TimesMatch'
  BY <1>3 DEF TimesMatch, PerSample
<1>6. Repeated'
  <2>1. o.export_metadata => ~o.warmup /\ ~o.benchmark
    BY DEF RunInv, OnPath, Accepts, RunModeRules, SingleImageRun
  <2> QED
    BY <1>1, <2>1 DEF Repeated, SetupPC
<1>7. Written' /\ EndedWell'
  BY <1>1, <1>3 DEF Written, EndedWell, SetupPC
<1>8. AskedSoFar'
  BY <1>1, <1>3 DEF AskedSoFar, RunRequests
<1>9. PairInHand'
  <2>1. FlowRun' => Len(o.sources) > 1
    BY SourcesAreSeq DEF FlowRun, RunInv, Task
  <2>2. pc' \in FlowPC => FlowRun'
    BY DEF OnPath
  <2> QED
    BY <1>1, <1>3, <2>1, <2>2 DEF PairInHand
<1>10. ImageInHand' /\ Counted'
  BY <1>1 DEF ImageInHand, Counted, SetupPC
<1> QED
  BY <1>4, <1>5, <1>6, <1>7, <1>8, <1>9, <1>10 DEF RunInv

LEMMA LoadLabelsKeeps == ASSUME RunInv, LoadLabels PROVE RunInv'
<1> USE DEF LoadLabels, Step, Throws, runVars
<1>1. pc = "labels" /\ pc \in SetupPC
  BY DEF SetupPC
<1>2. TypeOK'
  BY <1>1 DEF RunInv, TypeOK, PC, Fault
<1>3. OnPath' /\ Fitted'
  BY <1>1, SetupState DEF RunInv, OnPath, Fitted, ImagePC, FlowPC, TextPC
<1>4. Blamed'
  BY <1>1 DEF RunInv, Blamed, Reported, StageOf
<1>5. report'.samples = 0 /\ report'.suspended = 0 /\ \A s \in PerSample : report'.ms[s] = 0
  BY <1>1, SetupState
<1>6. pc' \in SetupPC \cup {"caught"}
  BY DEF SetupPC
<1>7. o' = o /\ runVars' = runVars
  OBVIOUS
<1> QED
  BY <1>1, <1>2, <1>3, <1>4, <1>5, <1>6, <1>7, SetupKeeps

LEMMA SetupBackendKeeps == ASSUME RunInv, SetupBackend PROVE RunInv'
<1> USE DEF SetupBackend, Step, Throws, runVars
<1>1. pc = "backend" /\ pc \in SetupPC /\ report \in Report
  BY DEF SetupPC, RunInv, TypeOK
<1>2. {"model_load"} \subseteq TimedStage /\ {"model_load"} \subseteq RunStage
  BY DEF TimedStage, RunStage
<1>3. Keeps(report, report') /\ report'.stage = "model_load"
      /\ \A s \in PerSample : report'.ms[s] = report.ms[s]
  <2>1. \/ report' = BeginStage(report, "model_load")
        \/ report' = Timed(report, "model_load", 1)
    OBVIOUS
  <2>2. Keeps(report, report') /\ report'.stage = "model_load"
        /\ \A s \in TimedStage \ {"model_load"} : report'.ms[s] = report.ms[s]
    <3>1. report.ms \in [TimedStage -> Nat]
      BY <1>1 DEF Report
    <3>2. CASE report' = BeginStage(report, "model_load")
      BY <1>1, <1>2, <3>2, BeginStageKeeps
    <3>3. CASE report' = Timed(report, "model_load", 1)
      <4>1. Keeps(report, report') /\ report'.stage = "model_load"
        BY <1>1, <1>2, <3>3, TimedKeeps
      <4>2. report'.ms = report.ms \/ report'.ms = [report.ms EXCEPT !["model_load"] = @ + 1]
        BY <1>1, <1>2, <3>3, TimedKeeps
      <4> QED
        BY <3>1, <4>1, <4>2
    <3> QED
      BY <2>1, <3>2, <3>3
  <2> QED
    BY <2>2, SamplesAreTimed
<1>4. TypeOK'
  BY <1>1, <1>3 DEF RunInv, TypeOK, PC, Fault, Keeps, PlainModel
<1>5. OnPath' /\ Fitted'
  BY <1>1, SetupState DEF RunInv, OnPath, Fitted, ImagePC, FlowPC, TextPC
<1>6. Blamed'
  BY <1>1, <1>3 DEF RunInv, Blamed, Reported, StageOf, Keeps
<1> QED
  BY <1>1, <1>3, <1>4, <1>5, <1>6, SetupState, SetupKeeps DEF SetupPC, PerSample, Keeps

LEMMA SetupTaskKeeps == ASSUME RunInv, SetupTask PROVE RunInv'
<1> USE DEF SetupTask, Step, Throws, runVars
<1>1. pc = "task" /\ pc \in SetupPC /\ report \in Report
  BY DEF SetupPC, RunInv, TypeOK
<1>2. "model_load" \in TimedStage
  BY DEF TimedStage
<1>3. Keeps(report, report') /\ report'.stage = report.stage
      /\ \A s \in PerSample : report'.ms[s] = report.ms[s]
  <2>1. Keeps(report, report') /\ report'.stage = report.stage
        /\ \A s \in TimedStage \ {"model_load"} : report'.ms[s] = report.ms[s]
    BY <1>1, <1>2, AddStageMsKeeps DEF Report
  <2> QED
    BY <2>1, SamplesAreTimed
<1>4. TypeOK'
  BY <1>1, <1>3 DEF RunInv, TypeOK, PC, Fault, Keeps
<1>5. OnPath' /\ Fitted'
  BY <1>1, SetupState DEF RunInv, OnPath, Fitted, ImagePC, FlowPC, TextPC, TaskFits,
     Task, requireServerPostprocessMatchesTask, requireEnvelopeMatchesTask,
     requireEncodedImageSupport
<1>6. Blamed'
  BY <1>1, <1>3 DEF RunInv, Blamed, Reported, StageOf, Keeps
<1> QED
  BY <1>1, <1>3, <1>4, <1>5, <1>6, SetupState, SetupKeeps DEF SetupPC, PerSample, Keeps

LEMMA ExportMetadataKeeps == ASSUME RunInv, ExportMetadata PROVE RunInv'
<1> USE DEF ExportMetadata, Step, runVars
<1>1. pc = "export" /\ pc \in SetupPC /\ o.export_metadata
  BY DEF SetupPC, RunInv, OnPath
<1>2. TypeOK'
  BY <1>1 DEF RunInv, TypeOK, PC
<1>3. OnPath' /\ Fitted'
  BY <1>1, SetupState DEF RunInv, OnPath, Fitted, ImagePC, FlowPC, TextPC
<1>4. Blamed'
  BY <1>1 DEF RunInv, Blamed
<1> QED
  BY <1>1, <1>2, <1>3, <1>4, SetupState, SetupKeeps DEF PerSample

LEMMA DispatchKeeps == ASSUME RunInv, Dispatch PROVE RunInv'
<1> USE DEF Dispatch, Step, Throws, runVars
<1>1. pc = "dispatch" /\ pc \in SetupPC /\ ~o.export_metadata /\ TaskFits
  BY DEF SetupPC, RunInv, OnPath, Fitted
<1>2. /\ AnyStill(o) /\ Len(o.sources) # 1 => Len(o.sources) > 1
      /\ o.sources \in Seq({"still", "moving"})
  <2>1. OnPath
    BY DEF RunInv
  <2>2. o.sources \in Seq({"still", "moving"})
    BY <2>1, SourcesAreSeq
  <2>3. AnyStill(o) /\ Len(o.sources) # 1 => Len(o.sources) > 1
    BY <2>1, SourcesAreSeq
  <2> QED
    BY <2>2, <2>3
<1>3. OnPath'
  BY <1>1, <1>2 DEF RunInv, OnPath, ImagePC, FlowPC, TextPC, ImageRun, FlowRun, TextRun,
     FrameRun, Task
<1>4. TypeOK'
  <2>1. pc' = "flow_read" => {pair, pair + 1} \subseteq DOMAIN o.sources
    BY <1>1, <1>2, SetupState
  <2> QED
    BY <1>1, <2>1 DEF RunInv, TypeOK, PC, Fault
<1>5. Fitted'
  BY <1>1, SetupState DEF Fitted, TaskFits, Task, requireServerPostprocessMatchesTask,
     requireEnvelopeMatchesTask, requireEncodedImageSupport
<1>6. Blamed'
  BY <1>1 DEF RunInv, Blamed, Reported, StageOf
<1> QED
  BY <1>1, <1>3, <1>4, <1>5, <1>6, SetupState, SetupKeeps DEF PerSample

-----------------------------------------------------------------------------
(***************************************************************************)
(* The three paths.                                                        *)
(***************************************************************************)
PathPC == ImagePC \cup FlowPC \cup TextPC

LEMMA PathState ==
  ASSUME RunInv, pc \in PathPC
  PROVE  /\ fault = "none" /\ report.failure = NoFailure /\ TaskFits
         /\ report \in Report /\ report.samples \in Nat
         /\ \A s \in PerSample :
              report.ms[s] = report.samples + (IF s \in InHand THEN 1 ELSE 0)
         /\ report.suspended = IF pc \in {"warmup", "benchmark"} THEN 1 ELSE 0
         /\ pc \notin FlowPC => pair = 1
<1>1. pc \notin {"labels", "backend", "task", "caught", "done"}
  BY DEF PathPC, ImagePC, FlowPC, TextPC
<1>2. fault = "none" /\ report.failure = NoFailure
  BY <1>1 DEF RunInv, Blamed
<1>3. TaskFits
  BY <1>1 DEF RunInv, Fitted
<1>4. report \in Report /\ report.samples \in Nat
  BY DEF RunInv, TypeOK, Report
<1>5. \A s \in PerSample :
        report.ms[s] = report.samples + (IF s \in InHand THEN 1 ELSE 0)
  BY <1>2 DEF RunInv, TimesMatch
<1>6. pc \notin FlowPC => pair = 1
  BY <1>1 DEF RunInv, PairInHand
<1> QED
  BY <1>2, <1>3, <1>4, <1>5, <1>6 DEF RunInv, Suspended

\* A throw keeps what the run has done so far, and is on record.
LEMMA ThrowKeeps ==
  ASSUME RunInv, pc \in PathPC \ SamplePC,
         pc' = "caught", o' = o, served' = served, pair' = pair, round' = round,
         artifacts' = artifacts, image' \in {"none", "decoded", "drawn"},
         fault' \in Fault, report' \in Report, report'.stage = Reported(fault'),
         report'.samples = report.samples, report'.failure = report.failure,
         report'.suspended = 0,
         \A s \in PerSample : report'.ms[s] \in {report.samples, report.samples + 1},
         requests' \subseteq Purpose \X Payload \X Nat, EncodedPayloadIsTheFile'
  PROVE  RunInv'
<1>1. fault' # "none"
  BY DEF Fault, InferenceFault
<1>2. TypeOK'
  BY DEF RunInv, TypeOK, PC
<1>3. OnPath' /\ Fresh' /\ Suspended' /\ ImageInHand' /\ Counted'
  BY DEF RunInv, OnPath, Fresh, Suspended, ImageInHand, Counted, ImagePC, FlowPC, TextPC,
         SetupPC
<1>4. Fitted'
  BY PathState DEF Fitted, TaskFits, Task, requireServerPostprocessMatchesTask,
     requireEnvelopeMatchesTask, requireEncodedImageSupport
<1>5. Blamed'
  BY <1>1, PathState DEF Blamed
<1>6. TimesMatch'
  BY <1>1, PathState DEF TimesMatch, InHand, RenderPC, SamplePC, PerSample
<1>7. Written'
  BY DEF RunInv, Written, Rendered, SamplePC, ImageRun, FlowRun, TextRun, Task
<1>8. PairInHand'
  BY DEF RunInv, PairInHand, FlowPC, FlowRun, Task
<1>9. AskedSoFar' /\ EndedWell' /\ Repeated'
  BY <1>1 DEF AskedSoFar, EndedWell, Repeated
<1> QED
  BY <1>2, <1>3, <1>4, <1>5, <1>6, <1>7, <1>8, <1>9 DEF RunInv

\* The parts of the invariant that speak of where a run is, by its options.
LEMMA PlaceKeeps ==
  ASSUME RunInv, o' = o, served' = served, pc \in PathPC, pc' \in PathPC, fault' = "none",
         report'.failure = report.failure,
         report'.suspended = IF pc' \in {"warmup", "benchmark"} THEN 1 ELSE 0,
         pc' = "image_bytes" => report'.stage = "source",
         pc' = "warmup" => o.warmup, pc' = "benchmark" => o.benchmark,
         \/ pc \in ImagePC /\ pc' \in ImagePC
         \/ pc \in FlowPC /\ pc' \in FlowPC
         \/ pc \in TextPC /\ pc' \in TextPC
  PROVE  OnPath' /\ Fresh' /\ Fitted' /\ Blamed' /\ Suspended' /\ EndedWell'
<1>1. pc' \notin {"labels", "backend", "task", "dispatch", "export", "caught", "done", "frames"}
  BY DEF PathPC, ImagePC, FlowPC, TextPC
<1>2. OnPath'
  BY <1>1 DEF RunInv, OnPath, ImageRun, FlowRun, TextRun, Task, ImagePC, FlowPC, TextPC
<1>3. Fitted'
  BY PathState DEF Fitted, TaskFits, Task, requireServerPostprocessMatchesTask,
     requireEnvelopeMatchesTask, requireEncodedImageSupport
<1>4. Fresh' /\ Blamed' /\ Suspended' /\ EndedWell'
  BY <1>1, PathState DEF Fresh, SetupPC, Blamed, Suspended, EndedWell
<1> QED
  BY <1>2, <1>3, <1>4

LEMMA ReadImageKeeps == ASSUME RunInv, ReadImage PROVE RunInv'
<1> USE DEF Step, Throws
<1>1. /\ pc = "image_read" /\ pc \in PathPC \ SamplePC /\ pc \in ImagePC
      /\ o' = o /\ served' = served
      /\ round' = round /\ pair' = pair /\ requests' = requests /\ artifacts' = artifacts
  BY DEF ReadImage, PathPC, ImagePC, SamplePC
<1>2. fault = "none" /\ InHand = {}
  BY <1>1, PathState DEF InHand, RenderPC, SamplePC
<1>3. Keeps(report, report') /\ report'.stage = "source" /\ report'.ms = report.ms
  BY <1>1, PathState, SourceKeeps DEF ReadImage
<1>4. report.suspended = 0 /\ \A s \in PerSample : report.ms[s] = report.samples
  BY <1>1, <1>2, PathState
<1>5. EncodedPayloadIsTheFile'
  BY <1>1 DEF RunInv, EncodedPayloadIsTheFile
<1>6. CASE pc' = "caught"
  <2>1. fault' = "read" /\ image' = image
    BY <1>6 DEF ReadImage
  <2> QED
    BY <1>1, <1>3, <1>4, <1>5, <1>6, <2>1, ThrowKeeps
       DEF Keeps, Fault, Reported, StageOf, RunInv, TypeOK
<1>7. CASE pc' = "image_bytes"
  <2>1. fault' = "none" /\ image' = "decoded"
    BY <1>2, <1>7 DEF ReadImage
  <2>2. TypeOK'
    BY <1>1, <1>3, <1>7, <2>1 DEF RunInv, TypeOK, PC, Keeps
  <2>3. OnPath' /\ Fresh' /\ Fitted' /\ Blamed' /\ Suspended' /\ EndedWell'
    BY <1>1, <1>3, <1>4, <1>7, <2>1, PlaceKeeps DEF Keeps, PathPC, ImagePC
  <2>4. TimesMatch'
    BY <1>1, <1>3, <1>4, <1>7 DEF TimesMatch, PerSample, InHand, RenderPC, SamplePC, Keeps,
       RunInv, TypeOK, Report
  <2>5. Written' /\ AskedSoFar' /\ PairInHand'
    BY <1>1, <1>3, <1>7, <2>1 DEF RunInv, Written, AskedSoFar, PairInHand, Rendered, Inferred,
       RenderPC, SamplePC, FlowPC, RunRequests, ImageRun, FlowRun, TextRun, Task, Keeps, Blamed
  <2>6. ImageInHand' /\ Repeated' /\ Counted'
    BY <1>1, <1>3, <1>7, <2>1 DEF RunInv, ImageInHand, Repeated, Counted, Keeps
  <2> QED
    BY <1>5, <2>2, <2>3, <2>4, <2>5, <2>6 DEF RunInv
<1> QED
  BY <1>6, <1>7 DEF ReadImage

LEMMA ReadBytesKeeps == ASSUME RunInv, ReadBytes PROVE RunInv'
<1> USE DEF Step, Throws
<1>1. /\ pc = "image_bytes" /\ pc \in PathPC \ SamplePC /\ pc \in ImagePC
      /\ o' = o /\ served' = served /\ image' = image
      /\ round' = round /\ pair' = pair /\ requests' = requests /\ artifacts' = artifacts
  BY DEF ReadBytes, runVars, PathPC, ImagePC, SamplePC
<1>2. fault = "none" /\ InHand = {} /\ report \in Report
  BY <1>1, PathState DEF InHand, RenderPC, SamplePC
<1>3. report.suspended = 0 /\ \A s \in PerSample : report.ms[s] = report.samples
  BY <1>1, <1>2, PathState
<1>4. EncodedPayloadIsTheFile' /\ report.stage = "source" /\ round = 0 /\ image = "decoded"
  BY <1>1 DEF RunInv, EncodedPayloadIsTheFile, Blamed, Repeated, ImageInHand
<1>5. CASE pc' = "caught"
  <2>1. fault' = "read" /\ report' = report
    BY <1>5 DEF ReadBytes
  <2> QED
    BY <1>1, <1>2, <1>3, <1>4, <1>5, <2>1, ThrowKeeps DEF Fault, Reported, StageOf, RunInv, TypeOK
<1>6. CASE pc' = IF o.warmup THEN "warmup" ELSE "image_inputs"
  <2>1. fault' = "none" /\ report' = IF o.warmup THEN BeginRepeat(report) ELSE report
    BY <1>2, <1>6 DEF ReadBytes
  <2>2. /\ report' \in Report /\ report'.ms = report.ms /\ report'.samples = report.samples
        /\ report'.failure = report.failure
        /\ report'.suspended = IF o.warmup THEN 1 ELSE 0
    BY <1>2, <1>3, <2>1, SuspendKeeps DEF BeginRepeat, Report
  <2>3. TypeOK'
    BY <1>1, <1>6, <2>1, <2>2 DEF RunInv, TypeOK, PC
  <2>4. OnPath' /\ Fresh' /\ Fitted' /\ Blamed' /\ Suspended' /\ EndedWell'
    BY <1>1, <1>6, <2>1, <2>2, PlaceKeeps DEF PathPC, ImagePC
  <2>5. TimesMatch'
    BY <1>1, <1>3, <1>6, <2>2 DEF TimesMatch, PerSample, InHand, RenderPC, SamplePC,
       RunInv, TypeOK, Report
  <2>6. Written' /\ AskedSoFar' /\ PairInHand'
    BY <1>1, <1>2, <1>6, <2>2 DEF RunInv, Written, AskedSoFar, PairInHand, Rendered, Inferred,
       RenderPC, SamplePC, FlowPC, RunRequests, ImageRun, FlowRun, TextRun, Task
  <2>7. ImageInHand' /\ Repeated' /\ Counted'
    BY <1>1, <1>4, <1>6, <2>1, <2>2 DEF RunInv, ImageInHand, Repeated, Counted
  <2> QED
    BY <1>4, <2>3, <2>4, <2>5, <2>6, <2>7 DEF RunInv
<1> QED
  BY <1>5, <1>6 DEF ReadBytes

LEMMA CheckInputsKeeps == ASSUME RunInv, CheckInputs PROVE RunInv'
<1> USE DEF Step, Throws
<1>1. /\ pc = "image_inputs" /\ pc \in PathPC \ SamplePC /\ pc \in ImagePC
      /\ o' = o /\ served' = served /\ image' = image
      /\ round' = round /\ pair' = pair /\ requests' = requests /\ artifacts' = artifacts
  BY DEF CheckInputs, runVars, PathPC, ImagePC, SamplePC
<1>2. fault = "none" /\ InHand = {} /\ report \in Report
  BY <1>1, PathState DEF InHand, RenderPC, SamplePC
<1>3. report.suspended = 0 /\ \A s \in PerSample : report.ms[s] = report.samples
  BY <1>1, <1>2, PathState
<1>4. Keeps(report, report') /\ report'.stage = "preprocess" /\ report'.ms = report.ms
  BY <1>2, BeginStageKeeps DEF CheckInputs, RunStage, TimedStage
<1>5. EncodedPayloadIsTheFile'
  BY <1>1 DEF RunInv, EncodedPayloadIsTheFile
<1>6. CASE pc' = "caught"
  <2>1. fault' = "inputs"
    BY <1>6 DEF CheckInputs
  <2> QED
    BY <1>1, <1>3, <1>4, <1>5, <1>6, <2>1, ThrowKeeps
       DEF Keeps, Fault, Reported, StageOf, RunInv, TypeOK
<1>7. CASE pc' = "image_infer"
  <2>1. fault' = "none"
    BY <1>2, <1>7 DEF CheckInputs
  <2>2. TypeOK'
    BY <1>1, <1>4, <1>7, <2>1 DEF RunInv, TypeOK, PC, Keeps
  <2>3. OnPath' /\ Fresh' /\ Fitted' /\ Blamed' /\ Suspended' /\ EndedWell'
    BY <1>1, <1>3, <1>4, <1>7, <2>1, PlaceKeeps DEF Keeps, PathPC, ImagePC
  <2>4. TimesMatch'
    BY <1>1, <1>3, <1>4, <1>7 DEF TimesMatch, PerSample, InHand, RenderPC, SamplePC, Keeps,
       RunInv, TypeOK, Report
  <2>5. Written' /\ AskedSoFar' /\ PairInHand'
    BY <1>1, <1>4, <1>7, <2>1 DEF RunInv, Written, AskedSoFar, PairInHand, Rendered, Inferred,
       RenderPC, SamplePC, FlowPC, RunRequests, ImageRun, FlowRun, TextRun, Task, Keeps, Blamed
  <2>6. ImageInHand' /\ Repeated' /\ Counted'
    BY <1>1, <1>4, <1>7, <2>1 DEF RunInv, ImageInHand, Repeated, Counted, Keeps, Asks
  <2> QED
    BY <1>5, <2>2, <2>3, <2>4, <2>5, <2>6 DEF RunInv
<1> QED
  BY <1>6, <1>7 DEF CheckInputs

-----------------------------------------------------------------------------
\* What a request adds to the requests.
LEMMA AskedKeeps ==
  ASSUME RunInv, pc \in PathPC, o' = o,
         NEW purpose \in Purpose, NEW payload \in Payload, NEW stage,
         o.encoded => payload = "file", Asked(purpose, payload, stage)
  PROVE  requests' \subseteq Purpose \X Payload \X Nat /\ EncodedPayloadIsTheFile'
<1>1. requests \subseteq Purpose \X Payload \X Nat /\ pair \in Nat
  BY DEF RunInv, TypeOK
<1>2. <<purpose, payload, pair>> \in Purpose \X Payload \X Nat
  BY <1>1
<1>3. requests' \subseteq requests \cup {<<purpose, payload, pair>>}
  BY DEF Asked
<1> QED
  BY <1>1, <1>2, <1>3 DEF RunInv, EncodedPayloadIsTheFile

LEMMA Purposes == {"warmup", "run", "benchmark"} \subseteq Purpose
  BY DEF Purpose

LEMMA StagesAreTimed ==
  /\ Stages \subseteq TimedStage
  /\ "postprocess" \in Stages
  /\ PerSample \subseteq TimedStage
  /\ \A stage \in Stages : stage \in Fault /\ Reported(stage) = stage
  BY DEF Stages, InferenceFault, TimedStage, PerSample, Fault, Reported, StageOf

InferPC == {"image_infer", "flow_infer", "text_infer"}

LEMMA InferThrowKeeps ==
  ASSUME RunInv, pc \in InferPC \cup {"warmup", "benchmark"},
         o' = o, served' = served, round' = round, pair' = pair,
         image' = image, artifacts' = artifacts,
         requests' \subseteq Purpose \X Payload \X Nat, EncodedPayloadIsTheFile',
         NEW stage \in Stages, pc' = "caught", fault' = stage,
         report' = IF pc \in InferPC THEN TimedThrough(report, stage)
                                     ELSE ResumeTiming(TimedThrough(report, stage))
  PROVE  RunInv'
<1>1. pc \in PathPC \ SamplePC /\ InHand = {}
  BY DEF InferPC, PathPC, ImagePC, FlowPC, TextPC, SamplePC, InHand, RenderPC
<1>2. /\ report \in Report /\ report.samples \in Nat
      /\ \A s \in PerSample : report.ms[s] = report.samples
      /\ report.suspended = IF pc \in {"warmup", "benchmark"} THEN 1 ELSE 0
  BY <1>1, PathState
<1> DEFINE t == TimedThrough(report, stage)
<1>3. /\ Keeps(report, t) /\ t.stage = stage
      /\ report.suspended > 0 => t.ms = report.ms
      /\ report.suspended = 0 =>
           \A s \in TimedStage : t.ms[s] \in {report.ms[s], report.ms[s] + 1}
  BY <1>2, ThroughKeeps
<1> HIDE DEF t
<1>4. \A s \in PerSample : t.ms[s] \in {report.samples, report.samples + 1}
  BY <1>2, <1>3, StagesAreTimed
<1>5. /\ report' \in Report /\ report'.stage = stage /\ report'.samples = report.samples
      /\ report'.failure = report.failure /\ report'.suspended = 0 /\ report'.ms = t.ms
  <2>1. CASE pc \in InferPC
    BY <1>2, <1>3, <2>1 DEF t, Keeps, InferPC
  <2>2. CASE pc \in {"warmup", "benchmark"}
    <3>1. report' = ResumeTiming(t) /\ t \in Report /\ t.suspended = 1
      BY <1>2, <1>3, <2>2 DEF t, Keeps, InferPC
    <3>2. report' = [t EXCEPT !.suspended = 0] /\ report' \in Report
      BY <3>1, ResumeKeeps
    <3> QED
      BY <1>3, <3>1, <3>2 DEF Keeps, Report
  <2> QED
    BY <2>1, <2>2
<1>6. fault' \in Fault /\ Reported(fault') = stage
  BY StagesAreTimed
<1>7. image' \in {"none", "decoded", "drawn"}
  BY DEF RunInv, TypeOK
<1> QED
  BY <1>1, <1>4, <1>5, <1>6, <1>7, ThrowKeeps

\* What is sent of a still image.
LEMMA ImagePayload ==
  ASSUME RunInv, pc \in {"warmup", "image_infer", "benchmark"}
  PROVE  /\ SourcePayload \in Payload
         /\ o.encoded => SourcePayload = "file"
         /\ pc # "benchmark" => SourcePayload = IF o.encoded THEN "file" ELSE "decoded"
  BY DEF RunInv, TypeOK, Payload, SourcePayload, ImageInHand

\* A request that succeeded, of a run that had timed nothing for this sample.
LEMMA InferredTimes ==
  ASSUME RunInv, pc \in InferPC, report' = TimedThrough(report, "postprocess")
  PROVE  /\ Keeps(report, report') /\ report.suspended = 0
         /\ \A s \in PerSample \ {"render"} : report'.ms[s] = report'.samples + 1
         /\ report'.ms["render"] = report'.samples
<1>1. pc \in PathPC /\ InHand = {} /\ pc \notin {"warmup", "benchmark"}
  BY DEF InferPC, PathPC, ImagePC, FlowPC, TextPC, SamplePC, InHand, RenderPC
<1>2. /\ report \in Report /\ report.samples \in Nat /\ report.suspended = 0
      /\ \A s \in PerSample : report.ms[s] = report.samples
  BY <1>1, PathState
<1>3. "render" \in PerSample
  BY DEF PerSample
<1> QED
  BY <1>2, <1>3, ThroughKeeps, StagesAreTimed DEF Keeps

LEMMA InferImageKeeps == ASSUME RunInv, InferImage PROVE RunInv'
<1> USE DEF Step, Throws
<1>1. /\ pc = "image_infer" /\ pc \in InferPC /\ pc \in PathPC /\ pc \in ImagePC
      /\ o' = o /\ served' = served /\ image' = image
      /\ round' = round /\ pair' = pair /\ artifacts' = artifacts
  BY DEF InferImage, Infer, InferPC, PathPC, ImagePC
<1>2. fault = "none" /\ pair = 1
  BY <1>1, PathState DEF FlowPC
<1>3. /\ SourcePayload \in Payload
      /\ o.encoded => SourcePayload = "file"
      /\ SourcePayload = IF o.encoded THEN "file" ELSE "decoded"
  BY <1>1, ImagePayload
<1>4. ASSUME NEW stage \in Stages, Throws("image_infer", stage),
             report' = TimedThrough(report, stage), Asked("run", SourcePayload, stage)
      PROVE  RunInv'
  <2>1. requests' \subseteq Purpose \X Payload \X Nat /\ EncodedPayloadIsTheFile'
    BY <1>1, <1>3, <1>4, Purposes, AskedKeeps
  <2> QED
    BY <1>1, <1>4, <2>1, InferThrowKeeps
<1>5. ASSUME Step("image_infer", "image_render"),
             report' = TimedThrough(report, "postprocess"),
             Asked("run", SourcePayload, "postprocess")
      PROVE  RunInv'
  <2>1. requests' \subseteq Purpose \X Payload \X Nat /\ EncodedPayloadIsTheFile'
    BY <1>1, <1>3, <1>5, Purposes, AskedKeeps
  <2>2. /\ Keeps(report, report') /\ report.suspended = 0
        /\ \A s \in PerSample \ {"render"} : report'.ms[s] = report'.samples + 1
        /\ report'.ms["render"] = report'.samples
    BY <1>1, <1>5, InferredTimes
  <2>3. requests' = requests \cup {<<"run", IF o.encoded THEN "file" ELSE "decoded", 1>>}
    BY <1>2, <1>3, <1>5 DEF Asked
  <2>4. report'.samples = 0 /\ report.samples = 0 /\ ImageRun
    BY <1>1, <2>2 DEF RunInv, Counted, Keeps, OnPath
  <2>5. TypeOK'
    BY <1>1, <1>5, <2>1, <2>2 DEF RunInv, TypeOK, PC, Keeps
  <2>6. OnPath' /\ Fresh' /\ Fitted' /\ Blamed' /\ Suspended' /\ EndedWell'
    BY <1>1, <1>2, <1>5, <2>2, PlaceKeeps DEF Keeps, PathPC, ImagePC
  <2>7. TimesMatch'
    <3>1. InHand' = PerSample' \ {"render"} /\ PerSample' = PerSample
      BY <1>1, <1>5 DEF InHand, RenderPC, PerSample
    <3> QED
      BY <2>2, <2>4, <3>1 DEF TimesMatch
  <2>8. Written' /\ PairInHand'
    BY <1>1, <1>5, <2>4 DEF RunInv, Written, PairInHand, Rendered, SamplePC, FlowPC,
       ImageRun, FlowRun, TextRun, Task
  <2>9. AskedSoFar'
    <3>1. RunRequests = {} /\ Inferred' = 1
      BY <1>1, <1>2, <1>5, <2>4 DEF RunInv, AskedSoFar, Inferred, Rendered, RenderPC, SamplePC
    <3>2. RunRequests' = {<<"run", IF o.encoded THEN "file" ELSE "decoded", 1>>}
      BY <2>3, <3>1 DEF RunRequests
    <3> QED
      BY <1>1, <2>4, <3>1, <3>2 DEF AskedSoFar, ImageRun, FlowRun, TextRun, Task
  <2>10. ImageInHand' /\ Repeated' /\ Counted'
    BY <1>1, <1>5, <2>3, <2>4 DEF RunInv, ImageInHand, Repeated, Counted, Asks
  <2> QED
    BY <2>1, <2>5, <2>6, <2>7, <2>8, <2>9, <2>10 DEF RunInv
<1> QED
  BY <1>4, <1>5 DEF InferImage, Infer

LEMMA RenderImageKeeps == ASSUME RunInv, RenderImage PROVE RunInv'
<1> USE DEF Step, Throws
<1>1. /\ pc = "image_render" /\ pc \in PathPC \ SamplePC /\ pc \in ImagePC
      /\ o' = o /\ served' = served /\ image' = "drawn"
      /\ round' = round /\ pair' = pair /\ requests' = requests
  BY DEF RenderImage, PathPC, ImagePC, SamplePC
<1>2. fault = "none" /\ pair = 1 /\ report \in Report /\ report.suspended = 0
  BY <1>1, PathState DEF FlowPC
<1>3. InHand = PerSample \ {"render"} /\ "render" \in PerSample
  BY <1>1 DEF InHand, RenderPC, PerSample
<1>4. /\ Keeps(report, report') /\ report'.stage = "render"
      /\ report'.ms = [report.ms EXCEPT !["render"] = @ + 1]
  <2>1. "render" \in TimedStage /\ report' = Timed(report, "render", 1)
    BY DEF TimedStage, RenderImage
  <2> QED
    BY <1>2, <2>1, TimedKeeps
<1>5. report.samples = 0 /\ report'.samples = 0 /\ ImageRun
  BY <1>1, <1>4 DEF RunInv, Counted, Keeps, OnPath
<1>6. \A s \in PerSample : report'.ms[s] = 1
  <2>1. report.ms \in [TimedStage -> Nat]
    BY <1>2 DEF Report
  <2>2. \A s \in PerSample : report.ms[s] = IF s = "render" THEN 0 ELSE 1
    BY <1>1, <1>3, <1>5, PathState
  <2> QED
    BY <1>4, <2>1, <2>2, StagesAreTimed
<1>7. EncodedPayloadIsTheFile'
  BY <1>1 DEF RunInv, EncodedPayloadIsTheFile
<1>8. CASE pc' = "caught"
  <2>1. fault' = "render" /\ artifacts' = artifacts
    BY <1>8 DEF RenderImage
  <2> QED
    BY <1>1, <1>2, <1>4, <1>5, <1>6, <1>7, <1>8, <2>1, ThrowKeeps
       DEF Keeps, Fault, Reported, StageOf, RunInv, TypeOK
<1>9. CASE pc' = "image_sample"
  <2>1. PICK place \in {"primary", "fallback"} :
          fault' = "none" /\ artifacts' = artifacts \cup {<<place, pair>>}
    BY <1>2, <1>9 DEF RenderImage
  <2>2. artifacts = {}
    BY <1>1, <1>5 DEF RunInv, Written, Rendered, SamplePC
  <2>3. artifacts' = {<<place, 1>>} /\ place \in Place
    BY <1>2, <2>1, <2>2 DEF Place
  <2>4. TypeOK'
    BY <1>1, <1>4, <1>9, <2>1, <2>3 DEF RunInv, TypeOK, PC, Keeps
  <2>5. OnPath' /\ Fresh' /\ Fitted' /\ Blamed' /\ Suspended' /\ EndedWell'
    BY <1>1, <1>2, <1>4, <1>9, <2>1, PlaceKeeps DEF Keeps, PathPC, ImagePC
  <2>6. TimesMatch'
    <3>1. InHand' = PerSample' /\ PerSample' = PerSample
      BY <1>1, <1>9 DEF InHand, RenderPC, SamplePC, PerSample
    <3> QED
      BY <1>5, <1>6, <3>1 DEF TimesMatch
  <2>7. Written' /\ PairInHand'
    BY <1>1, <1>5, <1>9, <2>3 DEF RunInv, Written, PairInHand, Rendered, SamplePC, FlowPC,
       ImageRun, FlowRun, TextRun, Task
  <2>8. AskedSoFar'
    <3>1. Inferred = 1 /\ Inferred' = 1
      BY <1>1, <1>5, <1>9 DEF Inferred, Rendered, RenderPC, SamplePC
    <3> QED
      BY <1>1, <1>2, <1>5, <3>1 DEF RunInv, AskedSoFar, RunRequests, ImageRun, FlowRun, TextRun,
         Task
  <2>9. ImageInHand' /\ Repeated' /\ Counted'
    BY <1>1, <1>5, <1>9 DEF RunInv, ImageInHand, Repeated, Counted, Asks
  <2> QED
    BY <1>7, <2>4, <2>5, <2>6, <2>7, <2>8, <2>9 DEF RunInv
<1> QED
  BY <1>8, <1>9 DEF RenderImage

LEMMA SampleImageKeeps == ASSUME RunInv, SampleImage PROVE RunInv'
<1> USE DEF Step
<1>1. /\ pc = "image_sample" /\ pc \in PathPC /\ pc \in ImagePC
      /\ pc' = IF o.benchmark THEN "benchmark" ELSE "done"
      /\ o' = o /\ served' = served /\ image' = image /\ fault' = fault
      /\ round' = round /\ pair' = pair /\ requests' = requests /\ artifacts' = artifacts
  BY DEF SampleImage, runVars, PathPC, ImagePC
<1>2. fault = "none" /\ pair = 1 /\ report \in Report /\ report.suspended = 0
      /\ report.failure = NoFailure
  BY <1>1, PathState DEF FlowPC
<1>3. InHand = PerSample /\ report.samples = 0 /\ ImageRun /\ round = 0
  BY <1>1 DEF InHand, RenderPC, SamplePC, RunInv, Counted, OnPath, Repeated
<1>4. /\ report' \in Report /\ report'.ms = report.ms /\ report'.samples = 1
      /\ report'.failure = NoFailure
      /\ report'.suspended = IF o.benchmark THEN 1 ELSE 0
  BY <1>2, <1>3, AddSampleKeeps, SuspendKeeps DEF SampleImage, ImageSample, BeginRepeat, Report
<1>5. EncodedPayloadIsTheFile' /\ TypeOK'
  BY <1>1, <1>4 DEF RunInv, EncodedPayloadIsTheFile, TypeOK, PC
<1>6. OnPath' /\ Fresh' /\ Suspended' /\ Blamed' /\ ImageInHand' /\ Counted'
  BY <1>1, <1>2, <1>3, <1>4 DEF RunInv, OnPath, Fresh, Suspended, Blamed, ImageInHand, Counted,
     ImagePC, FlowPC, TextPC, SetupPC, ImageRun, Task
<1>7. Fitted'
  BY <1>1, PathState DEF Fitted, TaskFits, Task, requireServerPostprocessMatchesTask,
     requireEnvelopeMatchesTask, requireEncodedImageSupport
<1>8. Rendered = 1 /\ Rendered' = 1 /\ Inferred = 1 /\ Inferred' = 1 /\ InHand' = {}
  BY <1>1, <1>3, <1>4 DEF Rendered, Inferred, InHand, RenderPC, SamplePC
<1>9. TimesMatch'
  <2>1. \A s \in PerSample : report.ms[s] = 1
    BY <1>1, <1>3, PathState
  <2>2. PerSample' = PerSample
    BY <1>1 DEF PerSample
  <2> QED
    BY <1>4, <1>8, <2>1, <2>2 DEF TimesMatch
<1>10. Written' /\ PairInHand' /\ AskedSoFar'
  BY <1>1, <1>2, <1>3, <1>8 DEF RunInv, Written, PairInHand, AskedSoFar, RunRequests, FlowPC,
     ImageRun, FlowRun, TextRun, Task
<1>11. Repeated' /\ EndedWell'
  BY <1>1, <1>3, <1>4 DEF RunInv, Repeated, Asks, EndedWell, ImageRun, Task
<1> QED
  BY <1>5, <1>6, <1>7, <1>9, <1>10, <1>11 DEF RunInv

\* Warmup and benchmark are the purposes of their own requests.
LEMMA RoundKeeps ==
  ASSUME RunInv, pc \in {"warmup", "benchmark"}, pc' = pc, fault' = fault,
         o' = o, served' = served, pair' = pair, image' = image, artifacts' = artifacts,
         round' = round + 1, report' = TimedThrough(report, "postprocess"),
         Asked(pc, SourcePayload, "postprocess")
  PROVE  RunInv'
<1>1. pc \in PathPC /\ pc \in ImagePC /\ InHand = {} /\ pc \in Purpose
  BY DEF PathPC, ImagePC, InHand, RenderPC, SamplePC, Purpose
<1>2. /\ fault = "none" /\ report \in Report /\ report.suspended = 1 /\ pair = 1
      /\ report.failure = NoFailure
  BY <1>1, PathState DEF FlowPC
<1>3. SourcePayload \in Payload /\ (o.encoded => SourcePayload = "file")
  BY ImagePayload
<1>4. requests' \subseteq Purpose \X Payload \X Nat /\ EncodedPayloadIsTheFile'
  BY <1>1, <1>3, AskedKeeps
<1>5. Keeps(report, report') /\ report'.ms = report.ms
  BY <1>2, StagesAreTimed, ThroughKeeps
<1>6. requests' = requests \cup {<<pc, SourcePayload, pair>>}
  BY DEF Asked
<1>7. RunRequests' = RunRequests
  BY <1>6 DEF RunRequests
<1>8. TypeOK'
  BY <1>4, <1>5 DEF RunInv, TypeOK, Keeps
<1>9. OnPath' /\ Fresh' /\ Fitted' /\ Blamed' /\ Suspended' /\ EndedWell'
  BY <1>1, <1>2, <1>5, PlaceKeeps DEF Keeps, RunInv, OnPath
<1>10. TimesMatch'
  <2>1. \A s \in PerSample : report.ms[s] = report.samples + 0
    BY <1>1, PathState
  <2>2. InHand' = {} /\ PerSample' = PerSample
    BY DEF InHand, RenderPC, SamplePC, PerSample
  <2> QED
    BY <1>5, <2>1, <2>2 DEF TimesMatch, Keeps
<1>11. Written' /\ PairInHand' /\ AskedSoFar'
  BY <1>1, <1>2, <1>5, <1>7 DEF RunInv, OnPath, Written, PairInHand, AskedSoFar, Rendered, Inferred,
     RenderPC, SamplePC, FlowPC, ImageRun, FlowRun, TextRun, Task, Keeps
<1>12. ImageInHand' /\ Repeated' /\ Counted'
  <2>1. Asks(pc)' /\ \A purpose \in Purpose : Asks(purpose) => Asks(purpose)'
    <3>1. <<pc, SourcePayload, pair>>[1] = pc
      OBVIOUS
    <3>2. <<pc, SourcePayload, pair>> \in requests' /\ requests \subseteq requests'
      BY <1>6
    <3> QED
      BY <3>1, <3>2 DEF Asks
  <2> QED
    BY <1>1, <1>5, <2>1, Purposes DEF RunInv, ImageInHand, Repeated, Counted, Keeps
<1> QED
  BY <1>4, <1>8, <1>9, <1>10, <1>11, <1>12 DEF RunInv

LEMMA RepeatThrowKeeps ==
  ASSUME RunInv, pc \in {"warmup", "benchmark"}, NEW stage \in Stages, Throws(pc, stage),
         o' = o, served' = served, pair' = pair, image' = image, artifacts' = artifacts,
         round' = round, report' = ResumeTiming(TimedThrough(report, stage)),
         Asked(pc, SourcePayload, stage)
  PROVE  RunInv'
<1>1. pc \in PathPC /\ pc \in Purpose /\ pc \notin InferPC
  BY DEF PathPC, ImagePC, Purpose, InferPC
<1>2. SourcePayload \in Payload /\ (o.encoded => SourcePayload = "file")
  BY ImagePayload
<1>3. requests' \subseteq Purpose \X Payload \X Nat /\ EncodedPayloadIsTheFile'
  BY <1>1, <1>2, AskedKeeps
<1> QED
  BY <1>1, <1>3, InferThrowKeeps DEF Throws

\* The rounds are over: timing is resumed.
LEMMA WarmupKeeps == ASSUME RunInv, Warmup PROVE RunInv'
<1>1. /\ pc = "warmup" /\ pc \in PathPC /\ pc \in ImagePC
      /\ o' = o /\ served' = served /\ pair' = pair /\ image' = image /\ artifacts' = artifacts
  BY DEF Warmup, Repeat, PathPC, ImagePC
<1>2. CASE round >= WarmupRounds
  <2>1. /\ pc' = "image_inputs" /\ fault' = fault /\ round' = 0
        /\ report' = ResumeTiming(report) /\ requests' = requests
    BY <1>2 DEF Warmup, Repeat, Step
  <2>2. /\ fault = "none" /\ report \in Report /\ report.suspended = 1 /\ pair = 1
        /\ report.failure = NoFailure /\ InHand = {} /\ image = "decoded"
        /\ report.samples = 0
    BY <1>1, PathState DEF FlowPC, InHand, RenderPC, SamplePC, RunInv, ImageInHand, Counted
  <2>3. /\ report' \in Report /\ report'.ms = report.ms /\ report'.samples = report.samples
        /\ report'.failure = report.failure /\ report'.suspended = 0
    BY <2>1, <2>2, ResumeKeeps DEF Report
  <2>4. TypeOK' /\ EncodedPayloadIsTheFile'
    BY <1>1, <2>1, <2>3 DEF RunInv, TypeOK, PC, EncodedPayloadIsTheFile
  <2>5. OnPath' /\ Fresh' /\ Fitted' /\ Blamed' /\ Suspended' /\ EndedWell'
    BY <1>1, <2>1, <2>2, <2>3, PlaceKeeps DEF PathPC, ImagePC
  <2>6. TimesMatch'
    BY <1>1, <2>1, <2>2, <2>3 DEF RunInv, TimesMatch, PerSample, InHand, RenderPC, SamplePC
  <2>7. Written' /\ PairInHand' /\ AskedSoFar'
    BY <1>1, <2>1, <2>2, <2>3 DEF RunInv, Written, PairInHand, AskedSoFar, RunRequests,
       Rendered, Inferred, RenderPC, SamplePC, FlowPC, ImageRun, FlowRun, TextRun, Task
  <2>8. ImageInHand' /\ Counted'
    BY <1>1, <2>1, <2>2, <2>3 DEF ImageInHand, Counted
  <2>9. Repeated'
    <3>1. WarmupRounds > 0 => Asks("warmup")'
      BY <1>1, <1>2, <2>1, TaskRunAssumption DEF RunInv, TypeOK, Repeated, Asks
    <3> QED
      BY <2>1, <3>1 DEF Repeated
  <2> QED
    BY <2>4, <2>5, <2>6, <2>7, <2>8, <2>9 DEF RunInv
<1>3. CASE round < WarmupRounds
  <2>1. ~ (round >= WarmupRounds)
    BY <1>3, TaskRunAssumption DEF RunInv, TypeOK
  <2> QED
    BY <1>1, <2>1, RoundKeeps, RepeatThrowKeeps DEF Warmup, Repeat, Step
<1> QED
  BY <1>2, <1>3, TaskRunAssumption DEF RunInv, TypeOK

LEMMA BenchmarkKeeps == ASSUME RunInv, Benchmark PROVE RunInv'
<1>1. /\ pc = "benchmark" /\ pc \in PathPC /\ pc \in ImagePC
      /\ o' = o /\ served' = served /\ pair' = pair /\ image' = image /\ artifacts' = artifacts
  BY DEF Benchmark, Repeat, PathPC, ImagePC
<1>2. o.iterations \in Nat /\ round \in Nat
  BY ArgumentsAssumption DEF RunInv, OnPath, Options, TypeOK
<1>3. CASE round >= o.iterations
  <2>1. /\ pc' = "done" /\ fault' = fault /\ round' = 0
        /\ report' = ResumeTiming(report) /\ requests' = requests
    BY <1>3 DEF Benchmark, Repeat, Step
  <2>2. /\ fault = "none" /\ report \in Report /\ report.suspended = 1 /\ pair = 1
        /\ report.failure = NoFailure /\ InHand = {} /\ report.samples = 1 /\ ImageRun
    BY <1>1, PathState DEF FlowPC, InHand, RenderPC, SamplePC, RunInv, OnPath, Counted
  <2>3. /\ report' \in Report /\ report'.ms = report.ms /\ report'.samples = report.samples
        /\ report'.failure = report.failure /\ report'.suspended = 0
    BY <2>1, <2>2, ResumeKeeps DEF Report
  <2>4. TypeOK' /\ EncodedPayloadIsTheFile'
    BY <1>1, <2>1, <2>3 DEF RunInv, TypeOK, PC, EncodedPayloadIsTheFile
  <2>5. OnPath' /\ Fresh' /\ Suspended' /\ Blamed' /\ ImageInHand' /\ Counted'
    BY <1>1, <2>1, <2>2, <2>3 DEF RunInv, OnPath, Fresh, Suspended, Blamed, ImageInHand, Counted,
       ImagePC, FlowPC, TextPC, SetupPC
  <2>6. Fitted'
    BY <1>1, PathState DEF Fitted, TaskFits, Task, requireServerPostprocessMatchesTask,
       requireEnvelopeMatchesTask, requireEncodedImageSupport
  <2>7. TimesMatch'
    BY <1>1, <2>1, <2>2, <2>3 DEF RunInv, TimesMatch, PerSample, InHand, RenderPC, SamplePC
  <2>8. Written' /\ PairInHand' /\ AskedSoFar'
    BY <1>1, <2>1, <2>2, <2>3 DEF RunInv, Written, PairInHand, AskedSoFar, RunRequests,
       Rendered, Inferred, RenderPC, SamplePC, FlowPC, ImageRun, FlowRun, TextRun, Task
  <2>9. Repeated' /\ EndedWell'
    <3>1. o.iterations > 0 => Asks("benchmark")'
      BY <1>1, <1>2, <1>3, <2>1 DEF RunInv, Repeated, Asks
    <3>2. o.warmup /\ WarmupRounds > 0 => Asks("warmup")'
      BY <1>1, <2>1 DEF RunInv, Repeated, Asks
    <3> QED
      BY <1>1, <2>1, <2>2, <2>3, <3>1, <3>2 DEF Repeated, EndedWell, ImageRun, Task
  <2> QED
    BY <2>4, <2>5, <2>6, <2>7, <2>8, <2>9 DEF RunInv
<1>4. CASE round < o.iterations
  BY <1>1, <1>2, <1>4, RoundKeeps, RepeatThrowKeeps DEF Benchmark, BenchmarkPayload, Repeat, Step
<1> QED
  BY <1>2, <1>3, <1>4

-----------------------------------------------------------------------------
\* Only a path through inferFrame takes encoded images.
LEMMA PlainPaths ==
  ASSUME RunInv, pc \in FlowPC \cup TextPC
  PROVE  ~o.encoded
<1>1. pc \in PathPC /\ Task \in {"OpticalFlow", "ImageUnderstanding"}
  BY DEF RunInv, OnPath, FlowRun, TextRun, PathPC
<1>2. TaskFits
  BY <1>1, PathState
<1> QED
  BY <1>1, <1>2 DEF TaskFits, requireEncodedImageSupport

LEMMA ReadPairKeeps == ASSUME RunInv, ReadPair PROVE RunInv'
<1> USE DEF Step, Throws
<1>1. /\ pc = "flow_read" /\ pc \in PathPC \ SamplePC /\ pc \in FlowPC
      /\ o' = o /\ served' = served /\ image' = image
      /\ round' = round /\ pair' = pair /\ requests' = requests /\ artifacts' = artifacts
  BY DEF ReadPair, runVars, PathPC, FlowPC, SamplePC
<1>2. fault = "none" /\ InHand = {} /\ report \in Report /\ FlowRun
  BY <1>1, PathState DEF InHand, RenderPC, SamplePC, RunInv, OnPath
<1>3. report.suspended = 0 /\ \A s \in PerSample : report.ms[s] = report.samples
  BY <1>1, <1>2, PathState
<1>4. Keeps(report, report') /\ report'.stage = "source" /\ report'.ms = report.ms
  BY <1>2, SourceKeeps DEF ReadPair
<1>5. EncodedPayloadIsTheFile'
  BY <1>1 DEF RunInv, EncodedPayloadIsTheFile
<1>6. CASE pc' = "caught"
  <2>1. fault' = "read"
    BY <1>6 DEF ReadPair
  <2> QED
    BY <1>1, <1>3, <1>4, <1>5, <1>6, <2>1, ThrowKeeps
       DEF Keeps, Fault, Reported, StageOf, RunInv, TypeOK
<1>7. CASE pc' = "flow_infer"
  <2>1. fault' = "none"
    BY <1>2, <1>7 DEF ReadPair
  <2>2. TypeOK'
    BY <1>1, <1>4, <1>7, <2>1 DEF RunInv, TypeOK, PC, Keeps
  <2>3. OnPath' /\ Fresh' /\ Fitted' /\ Blamed' /\ Suspended' /\ EndedWell'
    BY <1>1, <1>3, <1>4, <1>7, <2>1, PlaceKeeps DEF Keeps, PathPC, FlowPC
  <2>4. TimesMatch'
    BY <1>1, <1>3, <1>4, <1>7 DEF TimesMatch, PerSample, InHand, RenderPC, SamplePC, Keeps,
       RunInv, TypeOK, Report
  <2>5. Written' /\ AskedSoFar' /\ PairInHand'
    BY <1>1, <1>2, <1>4, <1>7 DEF RunInv, Written, AskedSoFar, PairInHand, Rendered, Inferred,
       RenderPC, SamplePC, FlowPC, RunRequests, ImageRun, FlowRun, TextRun, Task, Keeps
  <2>6. ImageInHand' /\ Repeated' /\ Counted'
    BY <1>1, <1>4, <1>7, <2>1 DEF RunInv, ImageInHand, Repeated, Counted
  <2> QED
    BY <1>5, <2>2, <2>3, <2>4, <2>5, <2>6 DEF RunInv
<1> QED
  BY <1>6, <1>7 DEF ReadPair

LEMMA InferPairKeeps == ASSUME RunInv, InferPair PROVE RunInv'
<1> USE DEF Step, Throws
<1>1. /\ pc = "flow_infer" /\ pc \in InferPC /\ pc \in PathPC /\ pc \in FlowPC
      /\ o' = o /\ served' = served /\ image' = image
      /\ round' = round /\ pair' = pair /\ artifacts' = artifacts
  BY DEF InferPair, Infer, InferPC, PathPC, FlowPC
<1>2. fault = "none" /\ report.samples \in Nat /\ FlowRun
      /\ pair = report.samples + 1
  BY <1>1, PathState DEF RunInv, OnPath, PairInHand
<1>3. "pair" \in Payload /\ (o.encoded => "pair" = "file")
  BY <1>1, PlainPaths DEF Payload
<1>4. ASSUME NEW stage \in Stages, Throws("flow_infer", stage),
             report' = TimedThrough(report, stage), Asked("run", "pair", stage)
      PROVE  RunInv'
  <2>1. requests' \subseteq Purpose \X Payload \X Nat /\ EncodedPayloadIsTheFile'
    BY <1>1, <1>3, <1>4, Purposes, AskedKeeps
  <2> QED
    BY <1>1, <1>4, <2>1, InferThrowKeeps
<1>5. ASSUME Step("flow_infer", "flow_render"),
             report' = TimedThrough(report, "postprocess"),
             Asked("run", "pair", "postprocess")
      PROVE  RunInv'
  <2>1. requests' \subseteq Purpose \X Payload \X Nat /\ EncodedPayloadIsTheFile'
    BY <1>1, <1>3, <1>5, Purposes, AskedKeeps
  <2>2. /\ Keeps(report, report') /\ report.suspended = 0
        /\ \A s \in PerSample \ {"render"} : report'.ms[s] = report'.samples + 1
        /\ report'.ms["render"] = report'.samples
    BY <1>1, <1>5, InferredTimes
  <2>3. requests' = requests \cup {<<"run", "pair", report.samples + 1>>}
    BY <1>2, <1>5 DEF Asked
  <2>4. report'.samples = report.samples
    BY <2>2 DEF Keeps
  <2>5. TypeOK'
    BY <1>1, <1>5, <2>1, <2>2 DEF RunInv, TypeOK, PC, Keeps
  <2>6. OnPath' /\ Fresh' /\ Fitted' /\ Blamed' /\ Suspended' /\ EndedWell'
    BY <1>1, <1>2, <1>5, <2>2, PlaceKeeps DEF Keeps, PathPC, FlowPC
  <2>7. TimesMatch'
    <3>1. InHand' = PerSample' \ {"render"} /\ PerSample' = PerSample
      BY <1>1, <1>5 DEF InHand, RenderPC, PerSample
    <3> QED
      BY <1>2, <2>2, <2>4, <3>1 DEF TimesMatch
  <2>8. Written' /\ PairInHand'
    BY <1>1, <1>2, <1>5, <2>4 DEF RunInv, Written, PairInHand, Rendered, SamplePC, FlowPC,
       ImageRun, FlowRun, TextRun, Task
  <2>9. AskedSoFar'
    <3>1. Inferred = report.samples /\ Inferred' = report.samples + 1
      BY <1>1, <1>5, <2>4 DEF Inferred, Rendered, RenderPC, SamplePC
    <3>2. RunRequests = {<<"run", "pair", i>> : i \in 1 .. report.samples}
      BY <1>2, <3>1 DEF RunInv, AskedSoFar
    <3>3. RunRequests' = RunRequests \cup {<<"run", "pair", report.samples + 1>>}
      BY <2>3 DEF RunRequests
    <3>4. 1 .. (report.samples + 1) = (1 .. report.samples) \cup {report.samples + 1}
      BY <1>2
    <3>5. RunRequests' = {<<"run", "pair", i>> : i \in 1 .. (report.samples + 1)}
      BY <3>2, <3>3, <3>4
    <3>6. FlowRun' /\ ~ImageRun' /\ ~TextRun' /\ ~o'.export_metadata
      BY <1>1, <1>2 DEF ImageRun, FlowRun, TextRun, Task
    <3> QED
      BY <3>1, <3>5, <3>6 DEF AskedSoFar
  <2>10. ImageInHand' /\ Repeated' /\ Counted'
    BY <1>1, <1>5, <2>4 DEF RunInv, ImageInHand, Repeated, Counted
  <2> QED
    BY <2>1, <2>5, <2>6, <2>7, <2>8, <2>9, <2>10 DEF RunInv
<1> QED
  BY <1>4, <1>5 DEF InferPair, Infer

LEMMA RenderPairKeeps == ASSUME RunInv, RenderPair PROVE RunInv'
<1> USE DEF Step, Throws
<1>1. /\ pc = "flow_render" /\ pc \in PathPC \ SamplePC /\ pc \in FlowPC
      /\ o' = o /\ served' = served /\ image' = image
      /\ round' = round /\ pair' = pair /\ requests' = requests
  BY DEF RenderPair, PathPC, FlowPC, SamplePC
<1>2. /\ fault = "none" /\ report \in Report /\ report.suspended = 0 /\ FlowRun
      /\ pair = report.samples + 1 /\ report.samples \in Nat
  BY <1>1, PathState DEF RunInv, OnPath, PairInHand
<1>3. InHand = PerSample \ {"render"} /\ "render" \in PerSample
  BY <1>1 DEF InHand, RenderPC, PerSample
<1>4. /\ Keeps(report, report') /\ report'.stage = "render"
      /\ report'.ms = [report.ms EXCEPT !["render"] = @ + 1]
  <2>1. "render" \in TimedStage /\ report' = Timed(report, "render", 1)
    BY DEF TimedStage, RenderPair
  <2> QED
    BY <1>2, <2>1, TimedKeeps
<1>5. report'.samples = report.samples
  BY <1>4 DEF Keeps
<1>6. \A s \in PerSample : report'.ms[s] = report.samples + 1
  <2>1. report.ms \in [TimedStage -> Nat]
    BY <1>2 DEF Report
  <2>2. \A s \in PerSample :
          report.ms[s] = report.samples + (IF s = "render" THEN 0 ELSE 1)
    BY <1>1, <1>3, PathState
  <2> QED
    BY <1>2, <1>4, <2>1, <2>2, StagesAreTimed
<1>7. EncodedPayloadIsTheFile'
  BY <1>1 DEF RunInv, EncodedPayloadIsTheFile
<1>8. CASE pc' = "caught"
  <2>1. fault' = "render" /\ artifacts' = artifacts
    BY <1>8 DEF RenderPair
  <2> QED
    BY <1>1, <1>2, <1>4, <1>5, <1>6, <1>7, <1>8, <2>1, ThrowKeeps
       DEF Keeps, Fault, Reported, StageOf, RunInv, TypeOK
<1>9. CASE pc' = "flow_sample"
  <2>1. fault' = "none" /\ artifacts' = artifacts \cup {<<"flow", report.samples + 1>>}
    BY <1>2, <1>9 DEF RenderPair, FlowFile
  <2>2. artifacts = {<<"flow", i>> : i \in 1 .. report.samples}
    BY <1>1, <1>2 DEF RunInv, Written, Rendered, SamplePC
  <2>3. 1 .. (report.samples + 1) = (1 .. report.samples) \cup {report.samples + 1}
    BY <1>2
  <2>4. artifacts' = {<<"flow", i>> : i \in 1 .. (report.samples + 1)}
    BY <2>1, <2>2, <2>3
  <2>5. TypeOK'
    <3>1. artifacts' \subseteq Place \X Nat
      BY <1>2, <2>4 DEF Place
    <3> QED
      BY <1>1, <1>4, <1>9, <2>1, <3>1 DEF RunInv, TypeOK, PC, Keeps
  <2>6. OnPath' /\ Fresh' /\ Fitted' /\ Blamed' /\ Suspended' /\ EndedWell'
    BY <1>1, <1>2, <1>4, <1>9, <2>1, PlaceKeeps DEF Keeps, PathPC, FlowPC
  <2>7. TimesMatch'
    <3>1. InHand' = PerSample' /\ PerSample' = PerSample
      BY <1>1, <1>9 DEF InHand, RenderPC, SamplePC, PerSample
    <3> QED
      BY <1>5, <1>6, <3>1 DEF TimesMatch
  <2>8. Written' /\ PairInHand'
    <3>1. FlowRun' /\ ~ImageRun' /\ ~TextRun' /\ Rendered' = report.samples + 1
      BY <1>1, <1>2, <1>5, <1>9 DEF ImageRun, FlowRun, TextRun, Task, Rendered, SamplePC
    <3>2. Written'
      BY <2>4, <3>1 DEF Written
    <3>3. PairInHand'
      BY <1>1, <1>2, <1>5, <1>9, <3>1 DEF RunInv, PairInHand, FlowPC
    <3> QED
      BY <3>2, <3>3
  <2>9. AskedSoFar'
    <3>1. Inferred = report.samples + 1 /\ Inferred' = report.samples + 1
      BY <1>1, <1>5, <1>9 DEF Inferred, Rendered, RenderPC, SamplePC
    <3> QED
      BY <1>1, <1>2, <3>1 DEF RunInv, AskedSoFar, RunRequests, ImageRun, FlowRun, TextRun, Task
  <2>10. ImageInHand' /\ Repeated' /\ Counted'
    BY <1>1, <1>9 DEF RunInv, ImageInHand, Repeated, Counted
  <2> QED
    BY <1>7, <2>5, <2>6, <2>7, <2>8, <2>9, <2>10 DEF RunInv
<1> QED
  BY <1>8, <1>9 DEF RenderPair

LEMMA SamplePairKeeps == ASSUME RunInv, SamplePair PROVE RunInv'
<1> USE DEF Step
<1>1. /\ pc = "flow_sample" /\ pc \in PathPC /\ pc \in FlowPC
      /\ pc' = IF MorePairs THEN "flow_read" ELSE "done"
      /\ o' = o /\ served' = served /\ image' = image /\ fault' = fault
      /\ round' = round /\ pair' = pair + 1 /\ requests' = requests /\ artifacts' = artifacts
  BY DEF SamplePair, PathPC, FlowPC
<1>2. /\ fault = "none" /\ report \in Report /\ report.suspended = 0 /\ FlowRun
      /\ pair = report.samples + 1 /\ report.samples \in Nat /\ pair < Len(o.sources)
      /\ report.failure = NoFailure /\ round = 0
  BY <1>1, PathState DEF RunInv, OnPath, PairInHand, Repeated
<1>3. o.sources \in Seq({"still", "moving"}) /\ Len(o.sources) \in Nat
  BY SourcesAreSeq DEF RunInv
<1>4. /\ report' \in Report /\ report'.ms = report.ms /\ report'.samples = report.samples + 1
      /\ report'.failure = NoFailure /\ report'.suspended = 0
  BY <1>2, AddSampleKeeps DEF SamplePair, Report
<1>5. InHand = PerSample /\ InHand' = {} /\ PerSample' = PerSample
      /\ Rendered = report.samples + 1 /\ Rendered' = report.samples + 1
      /\ Inferred = report.samples + 1 /\ Inferred' = report.samples + 1
  BY <1>1, <1>4 DEF InHand, Rendered, Inferred, RenderPC, SamplePC, PerSample
<1>6. EncodedPayloadIsTheFile'
  BY <1>1 DEF RunInv, EncodedPayloadIsTheFile
<1>7. TypeOK'
  <2>1. pc' = "flow_read" => {pair', pair' + 1} \subseteq DOMAIN o'.sources
    BY <1>1, <1>2, <1>3 DEF MorePairs
  <2> QED
    BY <1>1, <1>2, <1>4, <2>1 DEF RunInv, TypeOK, PC
<1>8. OnPath' /\ Fresh' /\ Suspended' /\ Blamed' /\ ImageInHand' /\ Counted'
  BY <1>1, <1>2, <1>4 DEF RunInv, OnPath, Fresh, Suspended, Blamed, ImageInHand, Counted,
     ImagePC, FlowPC, TextPC, SetupPC, FlowRun, Task
<1>9. Fitted'
  BY <1>1, PathState DEF Fitted, TaskFits, Task, requireServerPostprocessMatchesTask,
     requireEnvelopeMatchesTask, requireEncodedImageSupport
<1>10. TimesMatch'
  <2>1. \A s \in PerSample : report.ms[s] = report.samples + 1
    BY <1>1, <1>5, PathState
  <2> QED
    BY <1>2, <1>4, <1>5, <2>1 DEF TimesMatch
<1>11. Written' /\ AskedSoFar'
  BY <1>1, <1>2, <1>5 DEF RunInv, Written, AskedSoFar, RunRequests,
     ImageRun, FlowRun, TextRun, Task
<1>12. PairInHand' /\ EndedWell'
  BY <1>1, <1>2, <1>3, <1>4 DEF PairInHand, EndedWell, FlowPC, MorePairs, FlowRun, Task
<1>13. Repeated'
  <2>1. ~o.warmup /\ ~o.benchmark
    BY <1>2, OnlyImagesRepeat DEF RunInv, FlowRun
  <2> QED
    BY <1>1, <1>2, <2>1 DEF Repeated
<1> QED
  BY <1>6, <1>7, <1>8, <1>9, <1>10, <1>11, <1>12, <1>13 DEF RunInv

LEMMA ReadPromptKeeps == ASSUME RunInv, ReadPrompt PROVE RunInv'
<1> USE DEF Step, Throws
<1>1. /\ pc = "text_read" /\ pc \in PathPC \ SamplePC /\ pc \in TextPC
      /\ o' = o /\ served' = served
      /\ round' = round /\ pair' = pair /\ requests' = requests /\ artifacts' = artifacts
  BY DEF ReadPrompt, PathPC, TextPC, SamplePC
<1>2. fault = "none" /\ InHand = {} /\ report \in Report /\ TextRun /\ image = "none"
  BY <1>1, PathState DEF InHand, RenderPC, SamplePC, RunInv, OnPath, ImageInHand
<1>3. report.suspended = 0 /\ \A s \in PerSample : report.ms[s] = report.samples
  BY <1>1, <1>2, PathState
<1>4. Keeps(report, report') /\ report'.stage = "source" /\ report'.ms = report.ms
  BY <1>2, SourceKeeps DEF ReadPrompt
<1>5. EncodedPayloadIsTheFile'
  BY <1>1 DEF RunInv, EncodedPayloadIsTheFile
<1>6. CASE pc' = "caught"
  <2>1. fault' = "read" /\ image' = image
    BY <1>6 DEF ReadPrompt
  <2> QED
    BY <1>1, <1>3, <1>4, <1>5, <1>6, <2>1, ThrowKeeps
       DEF Keeps, Fault, Reported, StageOf, RunInv, TypeOK
<1>7. CASE pc' = "text_infer"
  <2>1. fault' = "none" /\ image' = IF o.sources = <<>> THEN "none" ELSE "decoded"
    BY <1>2, <1>7 DEF ReadPrompt
  <2>2. TypeOK'
    BY <1>1, <1>4, <1>7, <2>1 DEF RunInv, TypeOK, PC, Keeps
  <2>3. OnPath' /\ Fresh' /\ Fitted' /\ Blamed' /\ Suspended' /\ EndedWell'
    BY <1>1, <1>3, <1>4, <1>7, <2>1, PlaceKeeps DEF Keeps, PathPC, TextPC
  <2>4. TimesMatch'
    BY <1>1, <1>3, <1>4, <1>7 DEF TimesMatch, PerSample, InHand, RenderPC, SamplePC, Keeps,
       RunInv, TypeOK, Report
  <2>5. Written' /\ AskedSoFar' /\ PairInHand'
    BY <1>1, <1>2, <1>4, <1>7 DEF RunInv, Written, AskedSoFar, PairInHand, Rendered, Inferred,
       RenderPC, SamplePC, FlowPC, RunRequests, ImageRun, FlowRun, TextRun, Task, Keeps
  <2>6. ImageInHand' /\ Repeated' /\ Counted'
    BY <1>1, <1>4, <1>7, <2>1 DEF RunInv, ImageInHand, Repeated, Counted, Keeps
  <2> QED
    BY <1>5, <2>2, <2>3, <2>4, <2>5, <2>6 DEF RunInv
<1> QED
  BY <1>6, <1>7 DEF ReadPrompt

LEMMA InferPromptKeeps == ASSUME RunInv, InferPrompt PROVE RunInv'
<1> USE DEF Step, Throws
<1>1. /\ pc = "text_infer" /\ pc \in InferPC /\ pc \in PathPC /\ pc \in TextPC
      /\ o' = o /\ served' = served /\ image' = image
      /\ round' = round /\ pair' = pair /\ artifacts' = artifacts
  BY DEF InferPrompt, Infer, InferPC, PathPC, TextPC
<1>2. fault = "none" /\ report.samples = 0 /\ TextRun /\ pair = 1
      /\ image = IF o.sources = <<>> THEN "none" ELSE "decoded"
  BY <1>1, PathState DEF FlowPC, RunInv, OnPath, ImageInHand, Counted
<1>3. image \in Payload /\ (o.encoded => image = "file")
  BY <1>1, <1>2, PlainPaths DEF Payload
<1>4. ASSUME NEW stage \in Stages, Throws("text_infer", stage),
             report' = TimedThrough(report, stage), Asked("run", image, stage)
      PROVE  RunInv'
  <2>1. requests' \subseteq Purpose \X Payload \X Nat /\ EncodedPayloadIsTheFile'
    BY <1>1, <1>3, <1>4, Purposes, AskedKeeps
  <2> QED
    BY <1>1, <1>4, <2>1, InferThrowKeeps
<1>5. ASSUME Step("text_infer", "text_render"),
             report' = TimedThrough(report, "postprocess"),
             Asked("run", image, "postprocess")
      PROVE  RunInv'
  <2>1. requests' \subseteq Purpose \X Payload \X Nat /\ EncodedPayloadIsTheFile'
    BY <1>1, <1>3, <1>5, Purposes, AskedKeeps
  <2>2. /\ Keeps(report, report') /\ report.suspended = 0
        /\ \A s \in PerSample \ {"render"} : report'.ms[s] = report'.samples + 1
        /\ report'.ms["render"] = report'.samples
    BY <1>1, <1>5, InferredTimes
  <2>3. requests' = requests \cup {<<"run", image, 1>>}
    BY <1>2, <1>5 DEF Asked
  <2>4. report'.samples = 0
    BY <1>2, <2>2 DEF Keeps
  <2>5. TypeOK'
    BY <1>1, <1>5, <2>1, <2>2 DEF RunInv, TypeOK, PC, Keeps
  <2>6. OnPath' /\ Fresh' /\ Fitted' /\ Blamed' /\ Suspended' /\ EndedWell'
    BY <1>1, <1>2, <1>5, <2>2, PlaceKeeps DEF Keeps, PathPC, TextPC
  <2>7. TimesMatch'
    <3>1. InHand' = PerSample' \ {"render"} /\ PerSample' = PerSample
      BY <1>1, <1>5 DEF InHand, RenderPC, PerSample
    <3> QED
      BY <2>2, <2>4, <3>1 DEF TimesMatch
  <2>8. Written' /\ PairInHand'
    BY <1>1, <1>2, <1>5, <2>4 DEF RunInv, Written, PairInHand, FlowPC,
       ImageRun, FlowRun, TextRun, Task
  <2>9. AskedSoFar'
    <3>1. RunRequests = {} /\ Inferred' = 1
      BY <1>1, <1>2, <1>5, <2>4 DEF RunInv, AskedSoFar, Inferred, Rendered, RenderPC, SamplePC
    <3>2. RunRequests' = {<<"run", image, 1>>}
      BY <2>3, <3>1 DEF RunRequests
    <3> QED
      BY <1>1, <1>2, <3>1, <3>2 DEF AskedSoFar, ImageRun, FlowRun, TextRun, Task
  <2>10. ImageInHand' /\ Repeated' /\ Counted'
    BY <1>1, <1>5, <2>4 DEF RunInv, ImageInHand, Repeated, Counted
  <2> QED
    BY <2>1, <2>5, <2>6, <2>7, <2>8, <2>9, <2>10 DEF RunInv
<1> QED
  BY <1>4, <1>5 DEF InferPrompt, Infer

LEMMA RenderAnswerKeeps == ASSUME RunInv, RenderAnswer PROVE RunInv'
<1> USE DEF Step, Throws
<1>1. /\ pc = "text_render" /\ pc \in PathPC \ SamplePC /\ pc \in TextPC
      /\ o' = o /\ served' = served /\ image' = image
      /\ round' = round /\ pair' = pair /\ requests' = requests /\ artifacts' = artifacts
  BY DEF RenderAnswer, runVars, PathPC, TextPC, SamplePC
<1>2. /\ fault = "none" /\ report \in Report /\ report.suspended = 0 /\ TextRun
      /\ report.samples = 0
  BY <1>1, PathState DEF RunInv, OnPath, Counted
<1>3. InHand = PerSample \ {"render"} /\ "render" \in PerSample
  BY <1>1 DEF InHand, RenderPC, PerSample
<1>4. /\ Keeps(report, report') /\ report'.stage = "render"
      /\ report'.ms = [report.ms EXCEPT !["render"] = @ + 1]
  <2>1. "render" \in TimedStage /\ report' = Timed(report, "render", 1)
    BY DEF TimedStage, RenderAnswer
  <2> QED
    BY <1>2, <2>1, TimedKeeps
<1>5. report'.samples = 0
  BY <1>2, <1>4 DEF Keeps
<1>6. \A s \in PerSample : report'.ms[s] = 1
  <2>1. report.ms \in [TimedStage -> Nat]
    BY <1>2 DEF Report
  <2>2. \A s \in PerSample : report.ms[s] = IF s = "render" THEN 0 ELSE 1
    BY <1>1, <1>2, <1>3, PathState
  <2> QED
    BY <1>4, <2>1, <2>2, StagesAreTimed
<1>7. EncodedPayloadIsTheFile'
  BY <1>1 DEF RunInv, EncodedPayloadIsTheFile
<1>8. CASE pc' = "caught"
  <2>1. fault' = "render"
    BY <1>8 DEF RenderAnswer
  <2> QED
    BY <1>1, <1>2, <1>4, <1>5, <1>6, <1>7, <1>8, <2>1, ThrowKeeps
       DEF Keeps, Fault, Reported, StageOf, RunInv, TypeOK
<1>9. CASE pc' = "text_sample"
  <2>1. fault' = "none"
    BY <1>2, <1>9 DEF RenderAnswer
  <2>2. TypeOK'
    BY <1>1, <1>4, <1>9, <2>1 DEF RunInv, TypeOK, PC, Keeps
  <2>3. OnPath' /\ Fresh' /\ Fitted' /\ Blamed' /\ Suspended' /\ EndedWell'
    BY <1>1, <1>2, <1>4, <1>9, <2>1, PlaceKeeps DEF Keeps, PathPC, TextPC
  <2>4. TimesMatch'
    <3>1. InHand' = PerSample' /\ PerSample' = PerSample
      BY <1>1, <1>9 DEF InHand, RenderPC, SamplePC, PerSample
    <3> QED
      BY <1>5, <1>6, <3>1 DEF TimesMatch
  <2>5. Written' /\ PairInHand'
    BY <1>1, <1>2, <1>5, <1>9 DEF RunInv, Written, PairInHand, FlowPC,
       ImageRun, FlowRun, TextRun, Task
  <2>6. AskedSoFar'
    <3>1. Inferred = 1 /\ Inferred' = 1
      BY <1>1, <1>2, <1>5, <1>9 DEF Inferred, Rendered, RenderPC, SamplePC
    <3> QED
      BY <1>1, <1>2, <3>1 DEF RunInv, AskedSoFar, RunRequests, ImageRun, FlowRun, TextRun, Task
  <2>7. ImageInHand' /\ Repeated' /\ Counted'
    BY <1>1, <1>5, <1>9 DEF RunInv, ImageInHand, Repeated, Counted
  <2> QED
    BY <1>7, <2>2, <2>3, <2>4, <2>5, <2>6, <2>7 DEF RunInv
<1> QED
  BY <1>8, <1>9 DEF RenderAnswer

LEMMA SampleAnswerKeeps == ASSUME RunInv, SampleAnswer PROVE RunInv'
<1> USE DEF Step
<1>1. /\ pc = "text_sample" /\ pc \in PathPC /\ pc \in TextPC /\ pc' = "done"
      /\ o' = o /\ served' = served /\ image' = image /\ fault' = fault
      /\ round' = round /\ pair' = pair /\ requests' = requests /\ artifacts' = artifacts
  BY DEF SampleAnswer, runVars, PathPC, TextPC
<1>2. /\ fault = "none" /\ report \in Report /\ report.suspended = 0 /\ TextRun
      /\ report.samples = 0 /\ report.failure = NoFailure /\ pair = 1
  BY <1>1, PathState DEF FlowPC, RunInv, OnPath, Counted
<1>3. /\ report' \in Report /\ report'.ms = report.ms /\ report'.samples = 1
      /\ report'.failure = NoFailure /\ report'.suspended = 0
  BY <1>2, AddSampleKeeps DEF SampleAnswer, Report
<1>4. InHand = PerSample /\ InHand' = {} /\ PerSample' = PerSample
      /\ Inferred = 1 /\ Inferred' = 1
  BY <1>1, <1>2, <1>3 DEF InHand, Inferred, Rendered, RenderPC, SamplePC, PerSample
<1>5. EncodedPayloadIsTheFile' /\ TypeOK'
  BY <1>1, <1>3 DEF RunInv, EncodedPayloadIsTheFile, TypeOK, PC
<1>6. OnPath' /\ Fresh' /\ Suspended' /\ Blamed' /\ ImageInHand' /\ Counted'
  BY <1>1, <1>2, <1>3 DEF RunInv, OnPath, Fresh, Suspended, Blamed, ImageInHand, Counted,
     ImagePC, FlowPC, TextPC, SetupPC
<1>7. Fitted'
  BY <1>1, PathState DEF Fitted, TaskFits, Task, requireServerPostprocessMatchesTask,
     requireEnvelopeMatchesTask, requireEncodedImageSupport
<1>8. TimesMatch'
  <2>1. \A s \in PerSample : report.ms[s] = 1
    BY <1>1, <1>2, <1>4, PathState
  <2> QED
    BY <1>3, <1>4, <2>1 DEF TimesMatch
<1>9. Written' /\ AskedSoFar' /\ PairInHand'
  BY <1>1, <1>2, <1>4 DEF RunInv, Written, AskedSoFar, PairInHand, RunRequests, FlowPC,
     ImageRun, FlowRun, TextRun, Task
<1>10. EndedWell'
  BY <1>1, <1>2, <1>3 DEF EndedWell, TextRun, Task
<1>11. Repeated'
  <2>1. IsText(o)
    BY <1>2, TextIsText DEF TextRun, RunInv
  <2>2. ~o.warmup /\ ~o.benchmark
    BY <2>1, OnlyImagesRepeat DEF RunInv
  <2> QED
    BY <1>1, <2>2 DEF Repeated
<1> QED
  BY <1>5, <1>6, <1>7, <1>8, <1>9, <1>10, <1>11 DEF RunInv

-----------------------------------------------------------------------------
LEMMA CatchKeeps == ASSUME RunInv, Catch PROVE RunInv'
<1>1. /\ pc = "caught" /\ pc' = "done" /\ fault' = fault
      /\ o' = o /\ served' = served /\ image' = image
      /\ round' = round /\ pair' = pair /\ requests' = requests /\ artifacts' = artifacts
      /\ report' = Fail(report, report.stage)
  BY DEF Catch, Step, runVars
<1>2. /\ report \in Report /\ report.failure = NoFailure /\ fault # "none"
      /\ report.stage = Reported(fault) /\ report.suspended = 0
  BY <1>1 DEF RunInv, TypeOK, Blamed, Suspended
<1>3. /\ report' \in Report /\ report'.ms = report.ms /\ report'.samples = report.samples
      /\ report'.failure = Reported(fault) /\ report'.suspended = 0
  BY <1>1, <1>2 DEF Fail, Report
<1>4. InHand = {} /\ InHand' = {} /\ Rendered = report.samples /\ Rendered' = report.samples
      /\ PerSample' = PerSample
  BY <1>1, <1>3 DEF InHand, Rendered, RenderPC, SamplePC, PerSample
<1>5. EncodedPayloadIsTheFile' /\ TypeOK'
  BY <1>1, <1>3 DEF RunInv, EncodedPayloadIsTheFile, TypeOK, PC
<1>6. OnPath' /\ Fresh' /\ Suspended' /\ Blamed' /\ ImageInHand' /\ Counted'
  BY <1>1, <1>2, <1>3 DEF RunInv, OnPath, Fresh, Suspended, Blamed, ImageInHand, Counted,
     ImagePC, FlowPC, TextPC, SetupPC
<1>7. Fitted'
  BY <1>1 DEF RunInv, Fitted, TaskFits, Task, requireServerPostprocessMatchesTask,
     requireEnvelopeMatchesTask, requireEncodedImageSupport
<1>8. TimesMatch'
  BY <1>1, <1>3, <1>4 DEF RunInv, TimesMatch
<1>9. Written' /\ PairInHand'
  BY <1>1, <1>3, <1>4 DEF RunInv, Written, PairInHand, FlowPC, ImageRun, FlowRun, TextRun, Task
<1>10. AskedSoFar' /\ EndedWell' /\ Repeated'
  BY <1>1, <1>2 DEF AskedSoFar, EndedWell, Repeated
<1> QED
  BY <1>5, <1>6, <1>7, <1>8, <1>9, <1>10 DEF RunInv

LEMMA RunStutters == ASSUME RunInv, UNCHANGED vars PROVE RunInv'
<1> USE DEF vars
<1>1. TypeOK' /\ OnPath' /\ Fresh' /\ Blamed' /\ Suspended' /\ ImageInHand' /\ Counted'
  BY DEF RunInv, TypeOK, OnPath, Fresh, Blamed, Suspended, ImageInHand, Counted,
     ImageRun, FlowRun, TextRun, FrameRun, Task
<1>2. Fitted' /\ EncodedPayloadIsTheFile' /\ Repeated'
  BY DEF RunInv, Fitted, TaskFits, Task, requireServerPostprocessMatchesTask,
     requireEnvelopeMatchesTask, requireEncodedImageSupport, EncodedPayloadIsTheFile,
     Repeated, Asks
<1>3. TimesMatch' /\ Written' /\ PairInHand' /\ EndedWell'
  BY DEF RunInv, TimesMatch, Written, PairInHand, EndedWell, InHand, Rendered, PerSample,
     ImageRun, FlowRun, TextRun, Task
<1>4. AskedSoFar'
  BY DEF RunInv, AskedSoFar, RunRequests, Inferred, Rendered, ImageRun, FlowRun, TextRun, Task
<1> QED
  BY <1>1, <1>2, <1>3, <1>4 DEF RunInv

LEMMA RunStep == RunInv /\ [Next]_vars => RunInv'
<1> SUFFICES ASSUME RunInv, [Next]_vars PROVE RunInv'
  OBVIOUS
<1>1. CASE LoadLabels \/ SetupBackend \/ SetupTask \/ ExportMetadata \/ Dispatch
  BY <1>1, LoadLabelsKeeps, SetupBackendKeeps, SetupTaskKeeps, ExportMetadataKeeps,
     DispatchKeeps
<1>2. CASE \/ ReadImage \/ ReadBytes \/ Warmup \/ CheckInputs \/ InferImage
           \/ RenderImage \/ SampleImage \/ Benchmark
  BY <1>2, ReadImageKeeps, ReadBytesKeeps, WarmupKeeps, CheckInputsKeeps, InferImageKeeps,
     RenderImageKeeps, SampleImageKeeps, BenchmarkKeeps
<1>3. CASE ReadPair \/ InferPair \/ RenderPair \/ SamplePair
  BY <1>3, ReadPairKeeps, InferPairKeeps, RenderPairKeeps, SamplePairKeeps
<1>4. CASE ReadPrompt \/ InferPrompt \/ RenderAnswer \/ SampleAnswer
  BY <1>4, ReadPromptKeeps, InferPromptKeeps, RenderAnswerKeeps, SampleAnswerKeeps
<1>5. CASE Catch
  BY <1>5, CatchKeeps
<1>6. CASE Ended \/ UNCHANGED vars
  BY <1>6, RunStutters DEF Ended
<1> QED
  BY <1>1, <1>2, <1>3, <1>4, <1>5, <1>6 DEF Next

\* The invariant of a run: what was asked, written, counted and timed are as
\* far apart as the step between them says, on every path.
\* (InferencePipelineBuilder::build, RunInferenceCommand::execute, processImage,
\* processOpticalFlow, processImageUnderstanding.)
THEOREM RunCorrect == Spec => []RunInv
  BY RunStart, RunStep, PTL DEF Spec

\* A run that ended without a failure on record did not throw.
LEMMA FailureIsKnown ==
  ASSUME Blamed, TypeOK, pc = "done", report.failure = NoFailure
  PROVE  fault = "none"
<1>1. fault \in Fault => Reported(fault) \in RunStage
  BY DEF Fault, InferenceFault, Reported, StageOf, RunStage, TimedStage
<1>2. NoFailure \notin RunStage
  BY DEF NoFailure, RunStage, TimedStage
<1> QED
  BY <1>1, <1>2 DEF Blamed, TypeOK

\* The types of a run's state. (CLICommands.cpp, InferencePipeline.cpp.)
THEOREM TypeCorrect == Spec => []TypeOK
<1>1. RunInv => TypeOK
  BY DEF RunInv
<1> QED
  BY <1>1, RunCorrect, PTL

-----------------------------------------------------------------------------
\* Whatever was accepted and whatever throws, the report of the run has a failure
\* exactly if a step threw, and names its stage unless it refused the sources.
\* (StageTimer and attributeTo along every path; NeuriploInfer::run.)
THEOREM FailuresAreAttributed == Spec => []FailureNamesItsStage
<1>1. RunInv => FailureNamesItsStage
  <2> SUFFICES ASSUME RunInv, pc = "done" PROVE FailureNamesItsStage
    BY DEF FailureNamesItsStage
  <2>1. fault # "none" => Reported(fault) # NoFailure
    BY DEF RunInv, TypeOK, Fault, InferenceFault, Reported, StageOf, NoFailure
  <2>2. report.failure = IF fault = "none" THEN NoFailure ELSE Reported(fault)
    BY DEF RunInv, Blamed
  <2>3. fault \in Attributed => fault # "none" /\ Reported(fault) = StageOf(fault)
    BY DEF Attributed, Fault, InferenceFault, Reported
  <2> QED
    BY <2>1, <2>2, <2>3 DEF FailureNamesItsStage
<1> QED
  BY <1>1, RunCorrect, PTL

\* For any number of rounds of warmup and benchmark, no interval is left in the
\* report without its sample, but for the sample in hand.
\* (TimingSuspension in WarmupCommand and BenchmarkCommand.)
THEOREM TimesOfSamples == Spec => []TimesMatchSamples
<1>1. RunInv => TimesMatchSamples
  <2> SUFFICES ASSUME RunInv PROVE TimesMatchSamples
    OBVIOUS
  <2>1. report.samples \in Nat
    BY DEF RunInv, TypeOK, Report
  <2>2. \A s \in PerSample : report.ms[s] \in {report.samples, report.samples + 1}
    BY <2>1 DEF RunInv, TimesMatch
  <2>3. ASSUME Succeeded, NEW s \in PerSample
        PROVE  report.ms[s] = report.samples
    <3>1. pc = "done" /\ report.failure = NoFailure
      BY <2>3 DEF Succeeded
    <3>2. InHand = {}
      BY <3>1 DEF InHand, RenderPC, SamplePC
    <3>3. fault = "none"
      BY <3>1, FailureIsKnown DEF RunInv
    <3> QED
      BY <2>1, <3>2, <3>3 DEF RunInv, TimesMatch
  <2> QED
    BY <2>2, <2>3 DEF TimesMatchSamples
<1> QED
  BY <1>1, RunCorrect, PTL

\* However many sources there are, a success has put each of them to the model.
\* (imread checks of processImage, processOpticalFlow and
\* processImageUnderstanding.)
THEOREM SourcesAreAsked == Spec => []NoSourceIsSkipped
<1>1. RunInv => NoSourceIsSkipped
  <2> SUFFICES ASSUME RunInv, Succeeded PROVE RunRequests = Wanted
    BY DEF NoSourceIsSkipped, RunRequests
  <2>1. pc = "done" /\ fault = "none" /\ OnPath
    BY FailureIsKnown DEF Succeeded, RunInv
  <2>2. Inferred = report.samples /\ report.samples \in Nat
    BY <2>1 DEF Inferred, Rendered, RenderPC, SamplePC, RunInv, TypeOK, Report
  <2>3. CASE o.export_metadata
    BY <2>1, <2>3 DEF RunInv, AskedSoFar, Wanted
  <2>4. CASE ImageRun /\ report.samples = 1
    BY <2>1, <2>2, <2>4 DEF RunInv, AskedSoFar, Wanted, ImageRun
  <2>5. CASE FlowRun /\ report.samples = Len(o.sources) - 1
    BY <2>1, <2>2, <2>5 DEF RunInv, AskedSoFar, Wanted, FlowRun
  <2>6. CASE TextRun /\ report.samples = 1
    BY <2>1, <2>2, <2>6 DEF RunInv, AskedSoFar, Wanted, TextRun
  <2> QED
    BY <2>1, <2>3, <2>4, <2>5, <2>6 DEF RunInv, EndedWell
<1> QED
  BY <1>1, RunCorrect, PTL

\* As many files as pairs.
LEMMA FlowFiles ==
  ASSUME NEW n \in Nat
  PROVE  Cardinality({<<"flow", i>> : i \in 1 .. n}) = n
<1> DEFINE S == {<<"flow", i>> : i \in 1 .. n}
           f == [i \in 1 .. n |-> <<"flow", i>>]
<1>1. f \in Bijection(1 .. n, S)
  BY DEF Bijection, Injection, Surjection, IsInjective
<1>2. ExistsBijection(1 .. n, S)
  BY <1>1 DEF ExistsBijection
<1> QED
  BY <1>2, FS_CountingElements

\* Every sample of a run over images is a file of its own, for any number of
\* pairs. (imwrite and addSample in processImage and processOpticalFlow.)
THEOREM SamplesAreFiles == Spec => []SamplesHaveArtifacts
<1>1. RunInv => SamplesHaveArtifacts
  <2> SUFFICES ASSUME RunInv, Task # "ImageUnderstanding"
               PROVE  /\ report.samples <= Cardinality(artifacts)
                      /\ Succeeded => report.samples = Cardinality(artifacts)
    BY DEF SamplesHaveArtifacts
  <2>1. report.samples \in Nat
    BY DEF RunInv, TypeOK, Report
  <2>2. Rendered \in {report.samples, report.samples + 1} /\ Rendered \in Nat
    BY <2>1 DEF Rendered
  <2>3. Succeeded => Rendered = report.samples
    BY DEF Succeeded, Rendered, SamplePC
  <2>4. Cardinality(artifacts) = Rendered
    <3>1. CASE ImageRun
      BY <3>1, FS_EmptySet, FS_Singleton DEF RunInv, Written
    <3>2. CASE FlowRun
      BY <2>2, <3>2, FlowFiles DEF RunInv, Written
    <3>3. CASE ~ImageRun /\ ~FlowRun
      <4>1. artifacts = {} /\ report.samples = 0 /\ pc \notin SamplePC
        BY <3>3 DEF RunInv, Written, TextRun, OnPath, ImagePC, FlowPC, TextPC, SamplePC
      <4> QED
        BY <4>1, FS_EmptySet DEF Rendered
    <3> QED
      BY <3>1, <3>2, <3>3
  <2> QED
    BY <2>1, <2>2, <2>3, <2>4
<1> QED
  BY <1>1, RunCorrect, PTL

\* Encoded, every request of warmup, run and benchmark is the file's own bytes.
\* (source_bytes in processImage; inferFrame.)
THEOREM EncodedIsTheFile == Spec => []EncodedPayloadIsTheFile
<1>1. RunInv => EncodedPayloadIsTheFile
  BY DEF RunInv
<1> QED
  BY <1>1, RunCorrect, PTL

\* No accepted combination of options is dropped in silence.
\* (validateArguments and validateRunModes against RunInferenceCommand.)
THEOREM FlagsHonoured == Spec => []FlagsAreHonoured
<1>1. RunInv => FlagsAreHonoured
  <2> SUFFICES ASSUME RunInv PROVE FlagsAreHonoured
    OBVIOUS
  <2>1. OnPath /\ Accepts(o) /\ o.sources \in Seq({"still", "moving"})
    BY SourcesAreSeq DEF RunInv, OnPath
  <2>2. ASSUME Succeeded
        PROVE  /\ ~o.timings_csv /\ ~o.output_video
               /\ o.warmup /\ WarmupRounds > 0 => Asks("warmup")
               /\ o.benchmark /\ o.iterations > 0 => Asks("benchmark")
    <3>1. pc = "done" /\ fault = "none"
      BY <2>2, FailureIsKnown DEF Succeeded, RunInv
    <3>2. o.export_metadata \/ AnyStill(o) \/ IsText(o)
      BY <2>1, <3>1, TextIsText DEF RunInv, EndedWell, ImageRun, FlowRun, TextRun
    <3>3. ~o.timings_csv /\ ~o.output_video
      BY <2>1, <3>2 DEF Accepts, RunModeRules, FrameLoopRun, OutputVideoRules
    <3> QED
      BY <3>1, <3>3 DEF RunInv, Repeated
  <2>3. ASSUME pc = "frames"
        PROVE  /\ o.sources = <<"moving">>
               /\ ~o.warmup /\ ~o.benchmark /\ ~IsText(o)
    <3>1. FrameRun
      BY <2>3 DEF RunInv, OnPath
    <3>2. ~AllStill(o) /\ o.sources = <<"moving">>
      <4>1. Len(o.sources) = 1 /\ o.sources[1] \in {"still", "moving"} /\ o.sources[1] # "still"
        BY <2>1, <3>1 DEF FrameRun, AnyStill
      <4>2. o.sources = <<"moving">>
        BY <2>1, <4>1
      <4> QED
        BY <4>2 DEF AllStill
    <3>3. ~o.warmup /\ ~o.benchmark
      BY <2>1, <3>2, OnlyImagesRepeat
    <3>4. ~IsText(o)
      BY <3>1 DEF FrameRun, Task, TaskOf, IsText
    <3> QED
      BY <3>2, <3>3, <3>4
  <2> QED
    BY <2>2, <2>3 DEF FlagsAreHonoured
<1> QED
  BY <1>1, RunCorrect, PTL

\* What is asked of a server is what it takes, and what it answers with is what
\* this run draws, in the form asked for. (setupTask's validations.)
THEOREM ServerFits == Spec => []ServerFitsTheRun
<1>1. RunInv => ServerFitsTheRun
  <2> SUFFICES ASSUME RunInv, o.encoded, requests # {}
               PROVE  /\ served.image
                      /\ o.gpu => /\ Decoded.result = Task
                                  /\ o.segmentation_output = "default" \/ Task = "Detection"
                                       \/ Decoded.form = o.segmentation_output
                      /\ ~o.gpu => served.passthrough
    BY DEF ServerFitsTheRun
  <2>1. TaskFits
    BY DEF RunInv, Fitted
  <2>2. /\ served.envelope \in Envelope
        /\ o.segmentation_output \in {"default", "mask", "polygon"}
    BY DEF RunInv, TypeOK, ServedModel, Options
  <2>3. served.image /\ (~o.gpu => served.passthrough)
    BY <2>1 DEF TaskFits
  <2>4. ASSUME o.gpu
        PROVE  /\ Decoded.result = Task
               /\ o.segmentation_output = "default" \/ Task = "Detection"
                    \/ Decoded.form = o.segmentation_output
    BY <2>1, <2>2, <2>4
       DEF TaskFits, requireServerPostprocessMatchesTask, requireEnvelopeMatchesTask, Decoded,
           Envelope
  <2> QED
    BY <2>3, <2>4
<1> QED
  BY <1>1, RunCorrect, PTL
====
