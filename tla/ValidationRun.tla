----------------------------- MODULE ValidationRun -----------------------------
(***************************************************************************)
(* The model validation tool: app/validation/ModelValidation.cpp and the   *)
(* recorder of app/validation/PredictionRecorder.hpp.                      *)
(*                                                                         *)
(* The tool runs RunInferenceCommand with an observer around the task or,  *)
(* when the server postprocesses, around the renderer.  The observer       *)
(* writes every tensor to a file of its own and notes the file's name in a *)
(* document kept in memory; the document reaches the disk when the run is  *)
(* over.  Anything may throw in between, and any write may fall short.     *)
(*                                                                         *)
(* The run itself is a sequence of requests, of the run or of warmup and   *)
(* benchmark (TaskRun and FrameLoop have how it is made up).  What a file  *)
(* holds is the request and the place in it that its bytes came from.      *)
(***************************************************************************)
EXTENDS Naturals, Sequences

CONSTANTS
  MaxRequests,  \* bound: requests of a run
  MaxFiles      \* bound: files of one preprocessing or one result

ASSUME ValidationAssumption == MaxRequests \in Nat /\ MaxFiles \in Nat

VARIABLES
  mode,       \* who preprocesses and postprocesses
  directory,  \* NEURIPLO_VALIDATION_OUTPUT, as the tool finds it
  pc,         \* the next step
  disk,       \* tensor-<n>.bin: <<state, request, part, position>>
  next,       \* the recorder's next_
  document,   \* the recorder's document
  plain,      \* every text in the document is UTF-8
  published,  \* predictions.json
  request,    \* requests made
  kind,       \* the request in hand is the run's, or repeated for timing
  inHand,     \* the names noted for the entry in hand
  code,       \* the process's exit code, by the time it is done
  answered,   \* history: requests whose results reached an observer
  ran,        \* history: the pipeline was built
  lost        \* history: the last flush failed

vars == <<mode, directory, pc, disk, next, document, plain, published, request,
          kind, inHand, code, answered, ran, lost>>

\* local: both here; encoded: the server preprocesses; server: it does both.
Mode == {"local", "encoded", "server"}

\* An absent, empty or occupied directory, another file, or no such variable.
Directory == {"unset", "absent", "empty", "occupied", "file"}

PC == {"parse", "open", "build", "next", "inputs", "infer", "outputs",
       "results", "render", "flush", "caught", "reflush", "done"}

FileState == {"whole", "torn"}
Part == {"old", "input", "result"}

Entry == [request : Nat, files : Seq(Nat)]

\* exit_code: 2 as long as it is not set.
Document == [calls : Seq(Entry), samples : Seq(Entry),
             exit_code : {0, 1, 2}, run_report : BOOLEAN]

NewDocument ==
  [calls |-> <<>>, samples |-> <<>>, exit_code |-> 2, run_report |-> FALSE]

Published == [state : {"none", "old", "torn", "whole"}, document : Document]

Unpublished(state) == [state |-> state, document |-> NewDocument]

Init ==
  /\ mode \in Mode
  /\ directory \in Directory
  /\ pc = "parse"
  /\ disk = IF directory = "occupied" THEN [n \in {0} |-> <<"whole", 0, "old", 1>>]
                                      ELSE [n \in {} |-> <<"torn", 0, "old", 1>>]
  /\ next = 0
  /\ document = NewDocument
  /\ plain = TRUE
  /\ published = Unpublished(IF directory = "occupied" THEN "old" ELSE "none")
  /\ request = 0
  /\ kind = "run"
  /\ inHand = <<>>
  /\ code = 0
  /\ answered = <<>>
  /\ ran = FALSE
  /\ lost = FALSE

recorderVars == <<disk, next, document, plain, published, lost>>
requestVars  == <<request, kind, inHand, answered>>

-----------------------------------------------------------------------------
(***************************************************************************)
(* Before the run.                                                         *)
(***************************************************************************)
Exit(status) == pc' = "done" /\ code' = status

\* Parsed, capabilities printed, or refused.
Parse ==
  /\ pc = "parse"
  /\ \/ pc' = "open" /\ UNCHANGED code
     \/ Exit(0)
     \/ Exit(1)
  /\ UNCHANGED <<mode, directory, recorderVars, requestVars, ran>>

\* exists() and is_empty(); create_directories refuses a file.
Usable(d) == d \in {"absent", "empty"}

\* The recorder's constructor, which creates the directory unless it cannot.
OpenRecorder ==
  /\ pc = "open"
  /\ \/ /\ Usable(directory)
        /\ pc' = "build"
        /\ UNCHANGED code
     \/ Exit(1)
  /\ UNCHANGED <<mode, directory, recorderVars, requestVars, ran>>

\* What build() throws leaves the directory without a document.
Build ==
  /\ pc = "build"
  /\ \/ pc' = "next" /\ ran' = TRUE /\ UNCHANGED code
     \/ Exit(1) /\ UNCHANGED ran
  /\ UNCHANGED <<mode, directory, recorderVars, requestVars>>

(***************************************************************************)
(* One file of the entry in hand: the name is taken first, and noted once  *)
(* the closed stream is good.                                              *)
(***************************************************************************)
\* Mutant: the state of the stream is not looked at.
Good_Unchecked(outcome) == outcome # "absent"

Good(outcome) == outcome = "whole"

NextFile == next

RecordFile(part) ==
  /\ Len(inHand) < MaxFiles
  /\ next' = next + 1
  /\ \E outcome \in FileState \cup {"absent"} :
       /\ disk' = IF outcome = "absent" THEN disk
                  ELSE [n \in DOMAIN disk \cup {NextFile} |->
                          IF n = NextFile
                          THEN <<outcome, request, part, Len(inHand) + 1>>
                          ELSE disk[n]]
       /\ IF Good(outcome)
          THEN inHand' = Append(inHand, NextFile) /\ UNCHANGED pc
          ELSE pc' = "caught" /\ UNCHANGED inHand
  /\ UNCHANGED <<mode, directory, document, plain, published, request, kind,
                 code, answered, ran, lost>>

InHand == [request |-> request, files |-> inHand]

(***************************************************************************)
(* The run, observed.                                                      *)
(***************************************************************************)
\* Reading a source, the task, the engine or the drawing may throw; the task
\* throws before its observer records anything.
RunThrows ==
  /\ pc \in {"next", "inputs", "infer", "outputs", "render"}
  /\ inHand = <<>>
  /\ pc' = "caught"
  /\ UNCHANGED <<mode, directory, recorderVars, requestVars, code, ran>>

Begin ==
  /\ pc = "next"
  /\ request < MaxRequests
  /\ request' = request + 1
  /\ kind' \in {"run", "repeat"}
  /\ pc' = IF mode = "local" THEN "inputs" ELSE "infer"
  /\ UNCHANGED <<mode, directory, recorderVars, inHand, code, answered, ran>>

\* ObservedTask::preprocess: the task's buffers, one after the other.
RecordInput == pc = "inputs" /\ RecordFile("input")

Noted(entries, entry) == Append(entries, entry)

NoteCall ==
  /\ pc = "inputs"
  /\ pc' = "infer"
  /\ document' = [document EXCEPT !.calls = Noted(@, InHand)]
  /\ inHand' = <<>>
  /\ UNCHANGED <<mode, directory, disk, next, plain, published, request, kind,
                 code, answered, ran, lost>>

\* The observer is around the task or around the renderer, and the renderer
\* is not asked to draw what is only repeated.
Observed == mode # "server" \/ kind = "run"

Answer ==
  /\ pc = "infer"
  /\ pc' = IF ~Observed THEN "next" ELSE IF mode = "server" THEN "results" ELSE "outputs"
  /\ answered' = IF Observed THEN Append(answered, request) ELSE answered
  /\ UNCHANGED <<mode, directory, recorderVars, request, kind, inHand, code, ran>>

\* Recorder::predictions: the raw outputs; values of two types in one throw.
RecordTensor == pc = "outputs" /\ RecordFile("result")

EndTensors ==
  /\ pc = "outputs"
  /\ pc' = "results"
  /\ UNCHANGED <<mode, directory, recorderVars, requestVars, code, ran>>

\* The matrices and masks of the results.
RecordMatrix == pc = "results" /\ RecordFile("result")

\* Mutant: a repeated request is not noted.
Samples_RunOnly ==
  IF kind = "run" THEN Append(document.samples, InHand) ELSE document.samples

Samples == Append(document.samples, InHand)

\* A label, a prompt or an answer may be in any encoding.
NoteSample ==
  /\ pc = "results"
  /\ pc' = IF kind = "run" THEN "render" ELSE "next"
  /\ document' = [document EXCEPT !.samples = Samples]
  /\ plain' \in {plain, FALSE}
  /\ inHand' = <<>>
  /\ UNCHANGED <<mode, directory, disk, next, published, request, kind, code,
                 answered, ran, lost>>

Render ==
  /\ pc = "render"
  /\ pc' = "next"
  /\ UNCHANGED <<mode, directory, recorderVars, requestVars, code, ran>>

(***************************************************************************)
(* After the run.                                                          *)
(***************************************************************************)
EndRun ==
  /\ pc = "next"
  /\ pc' = "flush"
  /\ document' = [document EXCEPT !.exit_code = 0, !.run_report = TRUE]
  /\ UNCHANGED <<mode, directory, disk, next, plain, published, requestVars,
                 code, ran, lost>>

\* The stream is opened, so the file is truncated, before the document is
\* formatted, which a text that is no UTF-8 does not survive.
FlushSucceeds ==
  /\ plain
  /\ published' = [state |-> "whole", document |-> document]
  /\ lost' = FALSE

FlushFails ==
  /\ published' \in {published, Unpublished("torn")}
  /\ lost' = TRUE

Flush ==
  /\ pc = "flush"
  /\ \/ FlushSucceeds /\ Exit(0)
     \/ FlushFails /\ pc' = "caught" /\ UNCHANGED code
  /\ UNCHANGED <<mode, directory, disk, next, document, plain, requestVars, ran>>

\* Mutant: the exit code is set only where there is none.
Failed_KeepsCode ==
  IF document.exit_code = 2 THEN [document EXCEPT !.exit_code = 1] ELSE document

Failed == [document EXCEPT !.exit_code = 1]

\* catch (...), of the run and of the flush after it.
Catch ==
  /\ pc = "caught"
  /\ pc' = "reflush"
  /\ document' = Failed
  /\ UNCHANGED <<mode, directory, disk, next, plain, published, requestVars,
                 code, ran, lost>>

Reflush ==
  /\ pc = "reflush"
  /\ FlushSucceeds \/ FlushFails
  /\ Exit(1)
  /\ UNCHANGED <<mode, directory, disk, next, document, plain, requestVars, ran>>

Ended == pc = "done" /\ UNCHANGED vars

Next ==
  \/ Parse \/ OpenRecorder \/ Build
  \/ RunThrows \/ Begin \/ RecordInput \/ NoteCall \/ Answer
  \/ RecordTensor \/ EndTensors \/ RecordMatrix \/ NoteSample \/ Render
  \/ EndRun \/ Flush \/ Catch \/ Reflush \/ Ended

Spec == Init /\ [][Next]_vars

-----------------------------------------------------------------------------
(***************************************************************************)
(* Properties.                                                             *)
(***************************************************************************)
\* Types; and once the recorder is open, no name it may still take is on the
\* disk.
TypeOK ==
  /\ mode \in Mode
  /\ directory \in Directory
  /\ pc \in PC
  /\ DOMAIN disk \subseteq Nat
  /\ \A n \in DOMAIN disk : disk[n] \in FileState \X Nat \X Part \X Nat
  /\ pc \notin {"parse", "open", "done"} => \A n \in DOMAIN disk : n < next
  /\ next \in Nat
  /\ document \in Document
  /\ plain \in BOOLEAN
  /\ published \in Published
  /\ request \in Nat
  /\ kind \in {"run", "repeat"}
  /\ inHand \in Seq(Nat)
  /\ code \in {0, 1}
  /\ answered \in Seq(Nat)
  /\ ran \in BOOLEAN
  /\ lost \in BOOLEAN

\* The entry's files are on the disk, complete and with the entry's data.
Holds(entry, part) ==
  \A k \in DOMAIN entry.files :
    /\ entry.files[k] \in DOMAIN disk
    /\ disk[entry.files[k]] = <<"whole", entry.request, part, k>>

AllHold(d) ==
  /\ \A i \in DOMAIN d.calls : Holds(d.calls[i], "input")
  /\ \A i \in DOMAIN d.samples : Holds(d.samples[i], "result")

\* Whatever failed, the document names no file that is missing, short, or
\* another entry's: neither in memory nor as it was published.
\* (nextFile, writeBytes and tensor, whose checks come after close().)
NamedFilesHoldTheirData ==
  /\ AllHold(document)
  /\ published.state = "whole" => AllHold(published.document)

\* A file once complete is never written again, be it this run's or one that
\* was in the directory before; nor is an earlier run's document.
\* (the constructor's refusal of a directory that is not empty; nextFile.)
WholeFilesStay ==
  [][/\ \A n \in DOMAIN disk :
          disk[n][1] = "whole" => n \in DOMAIN disk' /\ disk'[n] = disk[n]
     /\ published.state = "old" => published' = published]_vars

\* The i-th sample came of the i-th preprocessing, if the task preprocesses
\* at all: repeated, empty and failed requests shift nothing, and at most the
\* last preprocessing is without its sample.
\* (ObservedTask::preprocess and postprocess, which note independently.)
CallsAndSamplesPair ==
  IF mode = "local"
  THEN /\ Len(document.samples) <= Len(document.calls)
       /\ Len(document.calls) <= Len(document.samples) + 1
       /\ \A i \in DOMAIN document.samples :
            document.samples[i].request = document.calls[i].request
  ELSE document.calls = <<>>

\* Samples are the answers in the order they came, none twice and none
\* missing but for the one in hand; a run that succeeded has them all.
\* (ObservedTask around the task, ObservedRenderer where there is no task.)
EveryAnswerIsRecorded ==
  /\ Len(document.samples) <= Len(answered)
  /\ Len(answered) <= Len(document.samples) + 1
  /\ \A i \in DOMAIN document.samples : document.samples[i].request = answered[i]
  /\ document.exit_code = 0 => Len(document.samples) = Len(answered)

\* A complete document says how its process ended, and says all it knew; a
\* run exits with 0 only if it has published one, with its report.
\* (main: the flush after the run and the one in catch (...).)
ExitIsPublished ==
  pc = "done" /\ ran =>
    /\ code = 0 => published.state = "whole" /\ published.document.run_report
    /\ published.state = "whole" =>
         published.document = document /\ document.exit_code = code

\* A run that fails leaves what it had recorded up to then, unless that last
\* write fails too.
\* (the flush in catch (...).)
FailureLeavesEvidence ==
  pc = "done" /\ ran /\ ~lost => published.state = "whole"
=============================================================================
