-------------------------- MODULE ValidationRunProofs --------------------------
(***************************************************************************)
(* Proofs about ValidationRun, for runs of any length with any number of   *)
(* tensors: what the validation tool publishes can be trusted.             *)
(*                                                                         *)
(* The disk only grows until the run is over, and a name is noted only     *)
(* after its file is complete; calls, samples and answers are appended in  *)
(* turn, so that where a run stands says how far they are apart.           *)
(***************************************************************************)
EXTENDS ValidationRun, TLAPS

-----------------------------------------------------------------------------
(***************************************************************************)
(* The inductive invariant.                                                *)
(***************************************************************************)
Before == {"parse", "open", "build"}

\* What is known of every run that has come so far.
Control ==
  /\ pc \in Before => ~ran
  /\ pc \notin Before \cup {"done"} => ran
  /\ pc \notin {"parse", "open", "done"} => Usable(directory)
  /\ pc \in {"parse", "open"} /\ Usable(directory) => DOMAIN disk = {}
  /\ published.state = "old" => ~Usable(directory)
  /\ pc = "inputs" => mode = "local"
  /\ pc \in Before \cup {"next", "infer", "render", "flush"} => inHand = <<>>

\* The entry in hand is as good as those in the document.
HandHolds ==
  /\ pc = "inputs" => Holds(InHand, "input")
  /\ pc \in {"outputs", "results"} => Holds(InHand, "result")

\* Between a preprocessing and its sample there is one call more.
Paired ==
  /\ CallsAndSamplesPair
  /\ mode = "local" =>
       /\ pc \in Before \cup {"next", "inputs", "render", "flush"} =>
            Len(document.calls) = Len(document.samples)
       /\ pc \in {"infer", "outputs", "results"} =>
            /\ Len(document.calls) = Len(document.samples) + 1
            /\ document.calls[Len(document.calls)].request = request

\* Between an answer and its sample there is one answer more.
Recorded ==
  /\ EveryAnswerIsRecorded
  /\ document.exit_code = 0 => pc \in {"flush", "caught", "done"}
  /\ pc \in Before \cup {"next", "inputs", "infer", "render", "flush"} =>
       Len(answered) = Len(document.samples)
  /\ pc \in {"outputs", "results"} =>
       /\ Len(answered) = Len(document.samples) + 1
       /\ answered[Len(answered)] = request

\* Nothing is published before the end.
Outcome ==
  /\ ExitIsPublished
  /\ FailureLeavesEvidence
  /\ pc # "done" => published.state # "whole"
  /\ pc = "flush" => document.exit_code = 0 /\ document.run_report
  /\ pc = "reflush" => document.exit_code = 1

IInv ==
  /\ TypeOK
  /\ Control
  /\ NamedFilesHoldTheirData
  /\ HandHolds
  /\ Paired
  /\ Recorded
  /\ Outcome

-----------------------------------------------------------------------------
(***************************************************************************)
(* Sequences and files.                                                    *)
(***************************************************************************)
LEMMA Appended ==
  ASSUME NEW S, NEW s \in Seq(S), NEW e \in S
  PROVE  /\ Append(s, e) \in Seq(S)
         /\ Len(Append(s, e)) = Len(s) + 1
         /\ \A i \in 1 .. Len(s) : Append(s, e)[i] = s[i]
         /\ Append(s, e)[Len(s) + 1] = e
         /\ DOMAIN Append(s, e) = 1 .. Len(s) + 1
         /\ DOMAIN s = 1 .. Len(s)
         /\ Len(s) \in Nat
OBVIOUS

\* Files are added and none is changed.
DiskGrows == \A n \in DOMAIN disk : n \in DOMAIN disk' /\ disk'[n] = disk[n]

\* Holds, after the step.
HoldsLater(entry, part) ==
  \A k \in DOMAIN entry.files :
    /\ entry.files[k] \in DOMAIN disk'
    /\ disk'[entry.files[k]] = <<"whole", entry.request, part, k>>

AllHoldLater(d) ==
  /\ \A i \in DOMAIN d.calls : HoldsLater(d.calls[i], "input")
  /\ \A i \in DOMAIN d.samples : HoldsLater(d.samples[i], "result")

LEMMA HoldsIsKept ==
  ASSUME NEW entry, NEW part, Holds(entry, part), DiskGrows
  PROVE  HoldsLater(entry, part)
BY DEF Holds, HoldsLater, DiskGrows

LEMMA AllHoldIsKept ==
  ASSUME NEW d, AllHold(d), DiskGrows
  PROVE  AllHoldLater(d)
BY HoldsIsKept DEF AllHold, AllHoldLater

LEMMA InHandType ==
  ASSUME TypeOK
  PROVE  InHand \in Entry
BY DEF TypeOK, InHand, Entry

\* A file is new; it is noted if it is complete.
LEMMA FileRecorded ==
  ASSUME TypeOK, pc \in {"inputs", "outputs", "results"},
         NEW part \in Part, RecordFile(part)
  PROVE  /\ DiskGrows
         /\ next' \in Nat
         /\ DOMAIN disk' \subseteq Nat
         /\ \A n \in DOMAIN disk' : n < next'
         /\ \A n \in DOMAIN disk' : disk'[n] \in FileState \X Nat \X Part \X Nat
         /\ \/ pc' = "caught" /\ inHand' = inHand
            \/ /\ pc' = pc
               /\ inHand' = Append(inHand, next)
               /\ next \in DOMAIN disk'
               /\ disk'[next] = <<"whole", request, part, Len(inHand) + 1>>
<1>0. PICK outcome \in FileState \cup {"absent"} :
       /\ disk' = IF outcome = "absent" THEN disk
                  ELSE [n \in DOMAIN disk \cup {NextFile} |->
                          IF n = NextFile
                          THEN <<outcome, request, part, Len(inHand) + 1>>
                          ELSE disk[n]]
       /\ IF Good(outcome)
          THEN inHand' = Append(inHand, NextFile) /\ UNCHANGED pc
          ELSE pc' = "caught" /\ UNCHANGED inHand
  BY DEF RecordFile
<1>1. next \in Nat /\ next' = next + 1 /\ NextFile = next /\ Len(inHand) + 1 \in Nat
      /\ request \in Nat
  BY DEF RecordFile, NextFile, TypeOK
<1>5. IF outcome = "whole" THEN inHand' = Append(inHand, next) /\ pc' = pc
                            ELSE pc' = "caught" /\ inHand' = inHand
  BY <1>0, <1>1 DEF Good
<1>2. DOMAIN disk \subseteq Nat /\ \A n \in DOMAIN disk : n < next
  BY DEF TypeOK
<1>3. CASE outcome = "absent"
  BY <1>0, <1>1, <1>2, <1>3, <1>5 DEF DiskGrows, TypeOK
<1>4. CASE outcome # "absent"
  <2>1. disk' = [n \in DOMAIN disk \cup {next} |->
                   IF n = next THEN <<outcome, request, part, Len(inHand) + 1>>
                               ELSE disk[n]]
    BY <1>0, <1>1, <1>4
  <2>2. DOMAIN disk' = DOMAIN disk \cup {next}
    BY <2>1
  <2>3. DiskGrows /\ next \in DOMAIN disk'
    BY <1>2, <2>1, <2>2, <1>1 DEF DiskGrows
  <2>4. disk'[next] = <<outcome, request, part, Len(inHand) + 1>>
    BY <2>1
  <2>5. outcome \in FileState
    BY <1>0, <1>4
  <2>6. disk'[next] \in FileState \X Nat \X Part \X Nat
    BY <2>4, <2>5, <1>1
  <2>7. \A n \in DOMAIN disk' : disk'[n] \in FileState \X Nat \X Part \X Nat
    BY <2>2, <2>3, <2>6 DEF TypeOK, DiskGrows
  <2>8. DOMAIN disk' \subseteq Nat /\ \A n \in DOMAIN disk' : n < next'
    BY <1>1, <1>2, <2>2
  <2>9. CASE outcome = "whole"
    BY <1>1, <1>5, <2>3, <2>4, <2>7, <2>8, <2>9
  <2>10. CASE outcome # "whole"
    BY <1>1, <1>5, <2>3, <2>7, <2>8, <2>10
  <2>. QED
    BY <2>9, <2>10
<1>. QED
  BY <1>3, <1>4

LEMMA HandIsKept ==
  ASSUME TypeOK, pc \in {"inputs", "outputs", "results"},
         NEW part \in Part, RecordFile(part), Holds(InHand, part), pc' = pc
  PROVE  Holds(InHand, part)'
<1>1. /\ DiskGrows
      /\ inHand' = Append(inHand, next)
      /\ next \in DOMAIN disk'
      /\ disk'[next] = <<"whole", request, part, Len(inHand) + 1>>
  BY FileRecorded
<1>2. inHand \in Seq(Nat) /\ next \in Nat /\ request' = request
  BY DEF TypeOK, RecordFile
<1>3. /\ DOMAIN inHand' = 1 .. Len(inHand) + 1
      /\ \A k \in 1 .. Len(inHand) : inHand'[k] = inHand[k]
      /\ inHand'[Len(inHand) + 1] = next
      /\ DOMAIN inHand = 1 .. Len(inHand)
      /\ Len(inHand) \in Nat
  BY <1>1, <1>2, Appended
<1>4. ASSUME NEW k \in DOMAIN inHand'
      PROVE  /\ inHand'[k] \in DOMAIN disk'
             /\ disk'[inHand'[k]] = <<"whole", request, part, k>>
  <2>1. CASE k \in 1 .. Len(inHand)
    BY <1>1, <1>3, <2>1 DEF Holds, InHand, DiskGrows
  <2>2. CASE k = Len(inHand) + 1
    BY <1>1, <1>3, <2>2
  <2>. QED
    BY <1>3, <2>1, <2>2
<1>. QED
  BY <1>2, <1>4 DEF Holds, InHand

-----------------------------------------------------------------------------
(***************************************************************************)
(* Types and control.                                                      *)
(***************************************************************************)
LEMMA InitIInv == Init => IInv
<1>. SUFFICES ASSUME Init PROVE IInv
  OBVIOUS
<1>1. NewDocument \in Document
  BY DEF NewDocument, Document
<1>2. published.state \in {"old", "none"} /\ published \in Published
  BY <1>1 DEF Init, Unpublished, Published
<1>3. DOMAIN disk \subseteq {0} /\ \A n \in DOMAIN disk : disk[n] = <<"whole", 0, "old", 1>>
  BY DEF Init
<1>4. TypeOK
  <2>1. <<"whole", 0, "old", 1>> \in FileState \X Nat \X Part \X Nat
    BY DEF FileState, Part
  <2>2. DOMAIN disk \subseteq Nat
        /\ \A n \in DOMAIN disk : disk[n] \in FileState \X Nat \X Part \X Nat
    BY <1>3, <2>1
  <2>3. pc = "parse" /\ mode \in Mode /\ directory \in Directory
    BY DEF Init
  <2>4. /\ next = 0 /\ request = 0 /\ plain = TRUE /\ ran = FALSE /\ lost = FALSE
        /\ kind = "run" /\ code = 0 /\ inHand = <<>> /\ answered = <<>>
        /\ document = NewDocument
    BY DEF Init
  <2>5. pc \in PC
    BY <2>3 DEF PC
  <2>6. /\ next \in Nat /\ request \in Nat /\ inHand \in Seq(Nat) /\ answered \in Seq(Nat)
        /\ plain \in BOOLEAN /\ ran \in BOOLEAN /\ lost \in BOOLEAN
        /\ kind \in {"run", "repeat"} /\ code \in {0, 1} /\ document \in Document
    <3>1. <<>> \in Seq(Nat)
      OBVIOUS
    <3>2. inHand \in Seq(Nat) /\ answered \in Seq(Nat)
      BY <2>4, <3>1, Zenon
    <3>3. plain \in BOOLEAN /\ ran \in BOOLEAN /\ lost \in BOOLEAN
      BY <2>4, Zenon
    <3>4. next \in Nat /\ request \in Nat
      BY <2>4
    <3>5. kind \in {"run", "repeat"} /\ code \in {0, 1} /\ document \in Document
      BY <1>1, <2>4, Zenon
    <3>. QED
      BY <3>2, <3>3, <3>4, <3>5, Zenon
  <2>7. pc \notin {"parse", "open", "done"} => \A n \in DOMAIN disk : n < next
    BY <2>3
  <2>. QED
    BY <1>2, <2>2, <2>3, <2>5, <2>6, <2>7 DEF TypeOK
<1>5. Control
  BY <1>2 DEF Init, Control, Before, Usable, Unpublished
<1>6. NamedFilesHoldTheirData /\ HandHolds
  BY <1>2 DEF Init, NamedFilesHoldTheirData, AllHold, NewDocument, HandHolds
<1>7. Paired /\ Recorded
  BY DEF Init, Paired, CallsAndSamplesPair, Recorded, EveryAnswerIsRecorded, NewDocument
<1>8. Outcome
  BY <1>2 DEF Init, Outcome, ExitIsPublished, FailureLeavesEvidence
<1>. QED
  BY <1>4, <1>5, <1>6, <1>7, <1>8 DEF IInv

LEMMA NoteTypes ==
  ASSUME TypeOK
  PROVE  /\ [document EXCEPT !.calls = Noted(@, InHand)] \in Document
         /\ [document EXCEPT !.samples = Samples] \in Document
         /\ [document EXCEPT !.exit_code = 0, !.run_report = TRUE] \in Document
         /\ Failed \in Document
<1>1. document \in Document
  BY DEF TypeOK
<1>2. document.calls \in Seq(Entry) /\ document.samples \in Seq(Entry)
  BY <1>1 DEF Document
<1>3. Append(document.calls, InHand) \in Seq(Entry) /\ Append(document.samples, InHand) \in Seq(Entry)
  BY <1>2, InHandType, Appended
<1>. QED
  BY <1>1, <1>3 DEF Document, Noted, Samples, Failed

LEMMA FlushTypes ==
  ASSUME TypeOK, FlushSucceeds \/ FlushFails
  PROVE  published' \in Published /\ lost' \in BOOLEAN
<1>1. NewDocument \in Document
  BY DEF NewDocument, Document
<1>. QED
  <2>1. CASE FlushSucceeds
    BY <2>1 DEF TypeOK, FlushSucceeds, Published
  <2>2. CASE FlushFails
    <3>1. published \in Published /\ Unpublished("torn") \in Published
      BY <1>1 DEF TypeOK, Unpublished, Published
    <3>. QED
      BY <2>2, <3>1 DEF FlushFails
  <2>. QED
    BY <2>1, <2>2

LEMMA TypeStep ==
  ASSUME IInv, [Next]_vars
  PROVE  TypeOK'
<1>. TypeOK /\ Control
  BY DEF IInv
<1>1. CASE Parse
  BY <1>1 DEF Parse, Exit, TypeOK, PC, recorderVars, requestVars
<1>2. CASE OpenRecorder
  BY <1>2 DEF OpenRecorder, Exit, TypeOK, Control, PC, recorderVars, requestVars
<1>3. CASE Build
  BY <1>3 DEF Build, Exit, TypeOK, PC, recorderVars, requestVars
<1>4. CASE RunThrows
  BY <1>4 DEF RunThrows, TypeOK, PC, recorderVars, requestVars
<1>5. CASE Begin
  BY <1>5 DEF Begin, TypeOK, PC, recorderVars
<1>6. CASE RecordInput \/ RecordTensor \/ RecordMatrix
  <2>1. PICK part \in Part : RecordFile(part)
    BY <1>6 DEF RecordInput, RecordTensor, RecordMatrix, Part
  <2>2. pc \in {"inputs", "outputs", "results"}
    BY <1>6 DEF RecordInput, RecordTensor, RecordMatrix
  <2>3. inHand' \in Seq(Nat) /\ pc' \in PC
    <3>1. inHand \in Seq(Nat) /\ next \in Nat /\ pc \in PC /\ "caught" \in PC
      BY DEF TypeOK, PC
    <3>2. Append(inHand, next) \in Seq(Nat)
      BY <3>1, Appended
    <3>. QED
      BY <2>1, <2>2, <3>1, <3>2, FileRecorded
  <2>4. UNCHANGED <<mode, directory, document, plain, published, request, kind,
                    code, answered, ran, lost>>
    BY <2>1 DEF RecordFile
  <2>. QED
    BY <2>1, <2>2, <2>3, <2>4, FileRecorded DEF TypeOK
<1>7. CASE NoteCall
  BY <1>7, NoteTypes DEF NoteCall, TypeOK, PC
<1>8. CASE Answer
  <2>1. answered' \in Seq(Nat)
    BY <1>8, Appended DEF Answer, TypeOK
  <2>. QED
    BY <1>8, <2>1 DEF Answer, TypeOK, PC, recorderVars
<1>9. CASE EndTensors
  BY <1>9 DEF EndTensors, TypeOK, PC, recorderVars, requestVars
<1>10. CASE NoteSample
  <2>1. plain' \in BOOLEAN
    BY <1>10 DEF NoteSample, TypeOK
  <2>2. document' \in Document
    BY <1>10, NoteTypes DEF NoteSample
  <2>. QED
    BY <1>10, <2>1, <2>2 DEF NoteSample, TypeOK, PC
<1>11. CASE Render
  BY <1>11 DEF Render, TypeOK, PC, recorderVars, requestVars
<1>12. CASE EndRun
  BY <1>12, NoteTypes DEF EndRun, TypeOK, PC, requestVars
<1>13. CASE Flush
  <2>1. published' \in Published /\ lost' \in BOOLEAN
    BY <1>13, FlushTypes DEF Flush
  <2>. QED
    BY <1>13, <2>1 DEF Flush, Exit, TypeOK, PC, requestVars
<1>14. CASE Catch
  BY <1>14, NoteTypes DEF Catch, TypeOK, PC, requestVars
<1>15. CASE Reflush
  <2>1. published' \in Published /\ lost' \in BOOLEAN
    BY <1>15, FlushTypes DEF Reflush
  <2>. QED
    BY <1>15, <2>1 DEF Reflush, Exit, TypeOK, PC, requestVars
<1>16. CASE UNCHANGED vars
  BY <1>16 DEF vars, TypeOK
<1>. QED
  BY <1>1, <1>2, <1>3, <1>4, <1>5, <1>6, <1>7, <1>8, <1>9, <1>10, <1>11, <1>12,
     <1>13, <1>14, <1>15, <1>16 DEF Next, Ended

\* What every action says of the control, for the steps below.
LEMMA ControlStep ==
  ASSUME IInv, [Next]_vars
  PROVE  Control'
<1>. TypeOK /\ Control
  BY DEF IInv
<1>1. CASE Parse
  BY <1>1 DEF Parse, Exit, Control, Before, recorderVars, requestVars, Usable
<1>2. CASE OpenRecorder
  BY <1>2 DEF OpenRecorder, Exit, Control, Before, recorderVars, requestVars, Usable
<1>3. CASE Build
  BY <1>3 DEF Build, Exit, Control, Before, recorderVars, requestVars, Usable
<1>4. CASE RunThrows
  BY <1>4 DEF RunThrows, Control, Before, recorderVars, requestVars, Usable
<1>5. CASE Begin
  BY <1>5 DEF Begin, Control, Before, recorderVars, Usable
<1>6. CASE RecordInput \/ RecordTensor \/ RecordMatrix
  <2>1. PICK part \in Part : RecordFile(part)
    BY <1>6 DEF RecordInput, RecordTensor, RecordMatrix, Part
  <2>2. pc \in {"inputs", "outputs", "results"}
    BY <1>6 DEF RecordInput, RecordTensor, RecordMatrix
  <2>3. pc' \in {pc, "caught"}
    BY <2>1, <2>2, FileRecorded
  <2>4. UNCHANGED <<mode, directory, published, ran>>
    BY <2>1 DEF RecordFile
  <2>. QED
    BY <2>2, <2>3, <2>4 DEF Control, Before, Usable
<1>7. CASE NoteCall
  BY <1>7 DEF NoteCall, Control, Before, Usable
<1>8. CASE Answer
  BY <1>8 DEF Answer, Control, Before, recorderVars, Usable
<1>9. CASE EndTensors
  BY <1>9 DEF EndTensors, Control, Before, recorderVars, requestVars, Usable
<1>10. CASE NoteSample
  BY <1>10 DEF NoteSample, Control, Before, Usable
<1>11. CASE Render
  BY <1>11 DEF Render, Control, Before, recorderVars, requestVars, Usable
<1>12. CASE EndRun
  BY <1>12 DEF EndRun, Control, Before, requestVars, Usable
<1>13. CASE Flush
  BY <1>13 DEF Flush, FlushSucceeds, FlushFails, Unpublished, Exit, Control,
               Before, requestVars, Usable
<1>14. CASE Catch
  BY <1>14 DEF Catch, Control, Before, requestVars, Usable
<1>15. CASE Reflush
  BY <1>15 DEF Reflush, FlushSucceeds, FlushFails, Unpublished, Exit, Control,
               Before, requestVars, Usable
<1>16. CASE UNCHANGED vars
  BY <1>16 DEF vars, Control, Usable
<1>. QED
  BY <1>1, <1>2, <1>3, <1>4, <1>5, <1>6, <1>7, <1>8, <1>9, <1>10, <1>11, <1>12,
     <1>13, <1>14, <1>15, <1>16 DEF Next, Ended

-----------------------------------------------------------------------------
(***************************************************************************)
(* Files.                                                                  *)
(***************************************************************************)
LEMMA DiskStep ==
  ASSUME IInv, [Next]_vars
  PROVE  DiskGrows
<1>1. CASE RecordInput \/ RecordTensor \/ RecordMatrix
  <2>1. PICK part \in Part : RecordFile(part)
    BY <1>1 DEF RecordInput, RecordTensor, RecordMatrix, Part
  <2>2. pc \in {"inputs", "outputs", "results"}
    BY <1>1 DEF RecordInput, RecordTensor, RecordMatrix
  <2>. QED
    BY <2>1, <2>2, FileRecorded DEF IInv
<1>2. CASE ~(RecordInput \/ RecordTensor \/ RecordMatrix)
  <2>1. disk' = disk
    BY <1>2 DEF Next, Ended, vars, recorderVars, Parse, OpenRecorder, Build,
                RunThrows, Begin, NoteCall, Answer, EndTensors, NoteSample,
                Render, EndRun, Flush, Catch, Reflush
  <2>. QED
    BY <2>1 DEF DiskGrows
<1>. QED
  BY <1>1, <1>2

\* An entry is appended to a document all of whose entries are good.
LEMMA EntryAppended ==
  ASSUME NEW s \in Seq(Entry), NEW e \in Entry, NEW part,
         \A i \in DOMAIN s : Holds(s[i], part), Holds(e, part), DiskGrows
  PROVE  \A i \in DOMAIN Append(s, e) : HoldsLater(Append(s, e)[i], part)
<1>1. ASSUME NEW i \in DOMAIN Append(s, e)
      PROVE  Holds(Append(s, e)[i], part)
  <2>1. CASE i \in 1 .. Len(s)
    BY <2>1, Appended
  <2>2. CASE i = Len(s) + 1
    BY <2>2, Appended
  <2>. QED
    BY <2>1, <2>2, Appended
<1>. QED
  BY <1>1, HoldsIsKept

LEMMA DocumentStep ==
  ASSUME IInv, [Next]_vars
  PROVE  AllHoldLater(document')
<1>. /\ TypeOK /\ HandHolds /\ AllHold(document) /\ DiskGrows
  BY DiskStep DEF IInv, NamedFilesHoldTheirData
<1>0. /\ document \in Document
      /\ document.calls \in Seq(Entry)
      /\ document.samples \in Seq(Entry)
      /\ InHand \in Entry
  BY InHandType DEF TypeOK, Document
<1>a. AllHoldLater(document)
  BY AllHoldIsKept
<1>1. CASE NoteCall
  <2>1. Holds(InHand, "input") /\ \A i \in DOMAIN document.calls : Holds(document.calls[i], "input")
    BY <1>1 DEF NoteCall, HandHolds, AllHold
  <2>2. document'.calls = Append(document.calls, InHand)
        /\ document'.samples = document.samples
    BY <1>0, <1>1 DEF NoteCall, Noted, Document
  <2>3. \A i \in DOMAIN Append(document.calls, InHand) :
          HoldsLater(Append(document.calls, InHand)[i], "input")
    BY <1>0, <2>1, EntryAppended
  <2>. QED
    BY <1>a, <2>2, <2>3 DEF AllHoldLater
<1>2. CASE NoteSample
  <2>1. Holds(InHand, "result") /\ \A i \in DOMAIN document.samples : Holds(document.samples[i], "result")
    BY <1>2 DEF NoteSample, HandHolds, AllHold
  <2>2. document'.samples = Append(document.samples, InHand)
        /\ document'.calls = document.calls
    BY <1>0, <1>2 DEF NoteSample, Samples, Document
  <2>3. \A i \in DOMAIN Append(document.samples, InHand) :
          HoldsLater(Append(document.samples, InHand)[i], "result")
    BY <1>0, <2>1, EntryAppended
  <2>. QED
    BY <1>a, <2>2, <2>3 DEF AllHoldLater
<1>3. CASE ~NoteCall /\ ~NoteSample
  <2>1. document'.calls = document.calls /\ document'.samples = document.samples
    BY <1>0, <1>3 DEF Document, Next, Ended, vars, recorderVars, Parse, OpenRecorder,
       Build, RunThrows, Begin, RecordInput, RecordTensor, RecordMatrix,
       RecordFile, Answer, EndTensors, Render, EndRun, Flush, Catch, Failed, Reflush
  <2>. QED
    BY <1>a, <2>1 DEF AllHoldLater
<1>. QED
  BY <1>1, <1>2, <1>3

\* What is published is the document, or what was published before.
LEMMA PublishedStep ==
  ASSUME IInv, [Next]_vars
  PROVE  NamedFilesHoldTheirData'
<1>. DiskGrows /\ (published.state = "whole" => AllHold(published.document))
  BY DiskStep DEF IInv, NamedFilesHoldTheirData
<1>1. AllHoldLater(document')
  BY DocumentStep
<1>2. published.state = "whole" => AllHoldLater(published.document)
  BY AllHoldIsKept
<1>3. published'.state = "whole" => AllHoldLater(published'.document)
  <2>1. CASE (Flush \/ Reflush) /\ FlushSucceeds
    <3>1. published'.document = document /\ document' = document
      BY <2>1 DEF Flush, Reflush, FlushSucceeds
    <3>. QED
      BY <1>1, <3>1
  <2>2. CASE (Flush \/ Reflush) /\ FlushFails
    <3>1. published' = published \/ published'.state = "torn"
      BY <2>2 DEF FlushFails, Unpublished
    <3>. QED
      BY <1>2, <3>1
  <2>3. CASE ~(Flush \/ Reflush)
    <3>1. published' = published
      BY <2>3 DEF Next, Ended, vars, recorderVars, Parse, OpenRecorder, Build,
                  RunThrows, Begin, NoteCall, Answer, EndTensors, NoteSample,
                  Render, EndRun, Catch, RecordInput, RecordTensor,
                  RecordMatrix, RecordFile
    <3>. QED
      BY <1>2, <3>1
  <2>. QED
    BY <2>1, <2>2, <2>3 DEF Flush, Reflush
<1>. QED
  BY <1>1, <1>3 DEF NamedFilesHoldTheirData, AllHold, AllHoldLater, Holds, HoldsLater

\* A file noted for the entry in hand is good; an entry begins without any.
LEMMA HandStep ==
  ASSUME IInv, [Next]_vars
  PROVE  HandHolds'
<1>. TypeOK /\ Control /\ HandHolds
  BY DEF IInv
<1>1. CASE RecordInput \/ RecordTensor \/ RecordMatrix
  <2>1. PICK part \in {"input", "result"} :
          /\ RecordFile(part)
          /\ Holds(InHand, part)
          /\ pc = "inputs" => part = "input"
          /\ pc \in {"outputs", "results"} => part = "result"
    BY <1>1 DEF RecordInput, RecordTensor, RecordMatrix, HandHolds
  <2>2. pc \in {"inputs", "outputs", "results"} /\ part \in Part
    BY <1>1 DEF RecordInput, RecordTensor, RecordMatrix, Part
  <2>3. CASE pc' = pc
    BY <2>1, <2>2, <2>3, HandIsKept DEF HandHolds
  <2>4. CASE pc' = "caught"
    BY <2>4 DEF HandHolds
  <2>. QED
    BY <2>1, <2>2, <2>3, <2>4, FileRecorded
<1>2. CASE EndTensors
  BY <1>2 DEF EndTensors, HandHolds, Holds, InHand, requestVars, recorderVars
<1>3. CASE Begin \/ Answer
  <2>1. inHand' = <<>>
    BY <1>3 DEF Begin, Answer, Control
  <2>. QED
    BY <2>1 DEF HandHolds, Holds, InHand
<1>4. CASE UNCHANGED vars
  BY <1>4 DEF vars, HandHolds, Holds, InHand
<1>5. CASE ~(RecordInput \/ RecordTensor \/ RecordMatrix \/ EndTensors \/ Begin \/ Answer)
           /\ ~UNCHANGED vars
  <2>1. pc' \notin {"inputs", "outputs", "results"}
    BY <1>5 DEF Next, Ended, Parse, OpenRecorder, Build, Exit, RunThrows, NoteCall,
                NoteSample, Render, EndRun, Flush, Catch, Reflush
  <2>. QED
    BY <2>1 DEF HandHolds
<1>. QED
  BY <1>1, <1>2, <1>3, <1>4, <1>5

-----------------------------------------------------------------------------
(***************************************************************************)
(* Calls, samples and answers.                                             *)
(***************************************************************************)
\* The actions that neither call, nor answer, nor note a sample.
Aside ==
  \/ Parse \/ OpenRecorder \/ Build \/ RunThrows \/ EndTensors \/ Render
  \/ EndRun \/ Flush \/ Catch \/ Reflush

LEMMA StepKinds ==
  ASSUME [Next]_vars
  PROVE  \/ Aside \/ Begin \/ NoteCall \/ Answer \/ NoteSample
         \/ RecordInput \/ RecordTensor \/ RecordMatrix
         \/ UNCHANGED vars
BY DEF Next, Aside, Ended

\* Where the run may be after such an action.
LEMMA AsideStep ==
  ASSUME IInv, Aside
  PROVE  /\ document'.calls = document.calls
         /\ document'.samples = document.samples
         /\ UNCHANGED <<mode, answered, request>>
         /\ \/ pc \in Before \cup {"next", "render"} /\ pc' \in Before \cup {"next", "flush"}
            \/ pc = "outputs" /\ pc' = "results"
            \/ pc' \in {"caught", "reflush", "done"}
         /\ document'.exit_code = 0 =>
              \/ document.exit_code = 0 /\ pc' \in {"flush", "caught", "done"}
              \/ pc = "next" /\ pc' = "flush"
<1>. document \in Document
  BY DEF IInv, TypeOK
<1>. document.exit_code = 0 => pc \in {"flush", "caught", "done"}
  BY DEF IInv, Recorded
<1>1. CASE Parse \/ OpenRecorder \/ Build \/ RunThrows \/ EndTensors \/ Render
  BY <1>1 DEF Parse, OpenRecorder, Build, Exit, RunThrows, EndTensors, Render,
              recorderVars, requestVars, Before
<1>2. CASE EndRun
  BY <1>2 DEF EndRun, Document, requestVars, Before
<1>3. CASE Flush \/ Reflush
  BY <1>3 DEF Flush, Reflush, Exit, requestVars
<1>4. CASE Catch
  BY <1>4 DEF Catch, Failed, Document, requestVars
<1>. QED
  BY <1>1, <1>2, <1>3, <1>4 DEF Aside

LEMMA FileStep ==
  ASSUME IInv, RecordInput \/ RecordTensor \/ RecordMatrix
  PROVE  /\ UNCHANGED <<mode, document, answered, request, published, code, ran, lost>>
         /\ pc \in {"inputs", "outputs", "results"}
         /\ pc' \in {pc, "caught"}
<1>1. PICK part \in Part : RecordFile(part)
  BY DEF RecordInput, RecordTensor, RecordMatrix, Part
<1>2. pc \in {"inputs", "outputs", "results"} /\ TypeOK
  BY DEF RecordInput, RecordTensor, RecordMatrix, IInv
<1>. QED
  BY <1>1, <1>2, FileRecorded DEF RecordFile

LEMMA PairedStep ==
  ASSUME IInv, [Next]_vars
  PROVE  Paired'
<1>. TypeOK /\ Control /\ Paired
  BY DEF IInv
<1>0. /\ document \in Document /\ InHand \in Entry /\ InHand.request = request
      /\ document.calls \in Seq(Entry) /\ document.samples \in Seq(Entry)
  BY InHandType DEF TypeOK, Document, InHand
<1>. DEFINE c == document.calls
            s == document.samples
<1>a. /\ DOMAIN c = 1 .. Len(c) /\ Len(c) \in Nat
      /\ DOMAIN s = 1 .. Len(s) /\ Len(s) \in Nat
  BY <1>0
<1>1. CASE Aside
  BY <1>1, <1>a, AsideStep DEF Paired, CallsAndSamplesPair, Before
<1>2. CASE Begin
  BY <1>2, <1>a DEF Begin, recorderVars, Paired, CallsAndSamplesPair, Before
<1>3. CASE NoteCall
  <2>1. /\ document'.calls = Append(c, InHand) /\ document'.samples = s
        /\ mode = "local" /\ mode' = mode /\ request' = request
        /\ pc = "inputs" /\ pc' = "infer"
    BY <1>0, <1>3 DEF NoteCall, Noted, Document, Control
  <2>2. /\ Len(document'.calls) = Len(c) + 1
        /\ \A i \in 1 .. Len(c) : document'.calls[i] = c[i]
        /\ document'.calls[Len(c) + 1] = InHand
    BY <1>0, <2>1, Appended
  <2>3. Len(c) = Len(s) /\ \A i \in 1 .. Len(s) : s[i].request = c[i].request
    BY <1>a, <2>1 DEF Paired, CallsAndSamplesPair, Before
  <2>. HIDE DEF c, s
  <2>. QED
    BY <1>0, <1>a, <2>1, <2>2, <2>3 DEF Paired, CallsAndSamplesPair, Before
<1>4. CASE Answer
  BY <1>4, <1>a DEF Answer, Observed, recorderVars, Paired, CallsAndSamplesPair, Before
<1>5. CASE NoteSample
  <2>1. /\ document'.samples = Append(s, InHand) /\ document'.calls = c
        /\ mode' = mode /\ request' = request
        /\ pc = "results" /\ pc' \in {"render", "next"}
    BY <1>0, <1>5 DEF NoteSample, Samples, Document
  <2>2. /\ Len(document'.samples) = Len(s) + 1
        /\ DOMAIN document'.samples = 1 .. Len(s) + 1
        /\ \A i \in 1 .. Len(s) : document'.samples[i] = s[i]
        /\ document'.samples[Len(s) + 1] = InHand
    BY <1>0, <2>1, Appended
  <2>3. mode = "local" =>
          /\ Len(c) = Len(s) + 1
          /\ c[Len(s) + 1].request = request
          /\ \A i \in 1 .. Len(s) : s[i].request = c[i].request
    BY <1>a, <2>1 DEF Paired, CallsAndSamplesPair
  <2>4. mode # "local" => c = <<>>
    BY DEF Paired, CallsAndSamplesPair
  <2>5. CASE mode # "local"
    BY <2>1, <2>4, <2>5 DEF Paired, CallsAndSamplesPair
  <2>6. CASE mode = "local"
    <3>1. /\ Len(document'.samples) = Len(document'.calls)
          /\ \A i \in DOMAIN document'.samples :
               document'.samples[i].request = document'.calls[i].request
      <4>. HIDE DEF c, s
      <4>1. ASSUME NEW i \in 1 .. Len(s) + 1
            PROVE  document'.samples[i].request = c[i].request
        BY <1>0, <1>a, <2>2, <2>3, <2>6
      <4>. QED
        BY <2>1, <2>2, <2>3, <2>6, <4>1
    <3>. QED
      BY <1>a, <2>1, <2>2, <2>6, <3>1 DEF Paired, CallsAndSamplesPair, Before
  <2>. QED
    BY <2>5, <2>6
<1>6. CASE RecordInput \/ RecordTensor \/ RecordMatrix
  BY <1>6, <1>a, FileStep DEF Paired, CallsAndSamplesPair, Before
<1>7. CASE UNCHANGED vars
  BY <1>7 DEF vars, Paired, CallsAndSamplesPair
<1>. QED
  BY <1>1, <1>2, <1>3, <1>4, <1>5, <1>6, <1>7, StepKinds

LEMMA RecordedStep ==
  ASSUME IInv, [Next]_vars
  PROVE  Recorded'
<1>. TypeOK /\ Control /\ Recorded
  BY DEF IInv
<1>0. /\ document \in Document /\ InHand \in Entry /\ InHand.request = request
      /\ document.samples \in Seq(Entry) /\ answered \in Seq(Nat) /\ request \in Nat
  BY InHandType DEF TypeOK, Document, InHand
<1>. DEFINE s == document.samples
<1>a. /\ DOMAIN s = 1 .. Len(s) /\ Len(s) \in Nat
      /\ DOMAIN answered = 1 .. Len(answered) /\ Len(answered) \in Nat
  BY <1>0
<1>1. CASE Aside
  BY <1>1, <1>a, AsideStep DEF Recorded, EveryAnswerIsRecorded, Before
<1>2. CASE Begin
  BY <1>2, <1>a DEF Begin, recorderVars, Recorded, EveryAnswerIsRecorded, Before
<1>3. CASE NoteCall
  <2>1. document'.samples = s /\ document'.exit_code = document.exit_code
    BY <1>0, <1>3 DEF NoteCall, Document
  <2>. QED
    BY <1>3, <1>a, <2>1 DEF NoteCall, Recorded, EveryAnswerIsRecorded, Before
<1>4. CASE Answer /\ Observed
  <2>1. /\ answered' = Append(answered, request) /\ UNCHANGED <<document, request>>
        /\ pc = "infer" /\ pc' \in {"outputs", "results"}
    BY <1>4 DEF Answer, recorderVars
  <2>2. /\ Len(answered') = Len(answered) + 1
        /\ \A i \in 1 .. Len(answered) : answered'[i] = answered[i]
        /\ answered'[Len(answered) + 1] = request
    BY <1>0, <2>1, Appended
  <2>3. /\ Len(answered) = Len(s) /\ document.exit_code # 0
        /\ \A i \in 1 .. Len(s) : s[i].request = answered[i]
    BY <1>a, <2>1 DEF Recorded, EveryAnswerIsRecorded, Before
  <2>. QED
    BY <1>a, <2>1, <2>2, <2>3 DEF Recorded, EveryAnswerIsRecorded, Before
<1>5. CASE Answer /\ ~Observed
  BY <1>5, <1>a DEF Answer, recorderVars, Recorded, EveryAnswerIsRecorded, Before
<1>6. CASE NoteSample
  <2>1. /\ document'.samples = Append(s, InHand)
        /\ document'.exit_code = document.exit_code
        /\ UNCHANGED <<answered, request>>
        /\ pc = "results" /\ pc' \in {"render", "next"}
    BY <1>0, <1>6 DEF NoteSample, Samples, Document
  <2>2. /\ Len(document'.samples) = Len(s) + 1
        /\ DOMAIN document'.samples = 1 .. Len(s) + 1
        /\ \A i \in 1 .. Len(s) : document'.samples[i] = s[i]
        /\ document'.samples[Len(s) + 1] = InHand
    BY <1>0, <2>1, Appended
  <2>3. /\ Len(answered) = Len(s) + 1 /\ document.exit_code # 0
        /\ answered[Len(s) + 1] = request
        /\ \A i \in 1 .. Len(s) : s[i].request = answered[i]
    BY <1>a, <2>1 DEF Recorded, EveryAnswerIsRecorded, Before
  <2>. HIDE DEF s
  <2>. QED
    BY <1>0, <1>a, <2>1, <2>2, <2>3 DEF Recorded, EveryAnswerIsRecorded, Before
<1>7. CASE RecordInput \/ RecordTensor \/ RecordMatrix
  BY <1>7, <1>a, FileStep DEF Recorded, EveryAnswerIsRecorded, Before
<1>8. CASE UNCHANGED vars
  BY <1>8 DEF vars, Recorded, EveryAnswerIsRecorded
<1>. QED
  BY <1>1, <1>2, <1>3, <1>4, <1>5, <1>6, <1>7, <1>8, StepKinds

-----------------------------------------------------------------------------
(***************************************************************************)
(* The end.                                                                *)
(***************************************************************************)
LEMMA OutcomeStep ==
  ASSUME IInv, [Next]_vars
  PROVE  Outcome'
<1>. TypeOK /\ Control /\ Outcome
  BY DEF IInv
<1>0. document \in Document /\ published \in Published
  BY DEF TypeOK
<1>1. CASE Parse \/ OpenRecorder \/ Build \/ RunThrows \/ Begin \/ EndTensors
           \/ Render \/ Answer
  BY <1>1 DEF Parse, OpenRecorder, Build, Exit, RunThrows, Begin, EndTensors, Render,
     Answer, recorderVars, requestVars, Outcome, ExitIsPublished,
     FailureLeavesEvidence, Control, Before
<1>2. CASE NoteCall \/ NoteSample
  BY <1>2 DEF NoteCall, NoteSample, Outcome, ExitIsPublished, FailureLeavesEvidence
<1>3. CASE RecordInput \/ RecordTensor \/ RecordMatrix
  BY <1>3, FileStep DEF Outcome, ExitIsPublished, FailureLeavesEvidence
<1>4. CASE EndRun
  BY <1>0, <1>4 DEF EndRun, Document, Outcome, ExitIsPublished, FailureLeavesEvidence
<1>5. CASE Flush
  BY <1>0, <1>5 DEF Flush, FlushSucceeds, FlushFails, Unpublished, Exit, Outcome,
     ExitIsPublished, FailureLeavesEvidence
<1>6. CASE Catch
  BY <1>0, <1>6 DEF Catch, Failed, Document, Outcome, ExitIsPublished, FailureLeavesEvidence
<1>7. CASE Reflush
  BY <1>0, <1>7 DEF Reflush, FlushSucceeds, FlushFails, Unpublished, Exit, Outcome,
     ExitIsPublished, FailureLeavesEvidence
<1>8. CASE UNCHANGED vars
  BY <1>8 DEF vars, Outcome, ExitIsPublished, FailureLeavesEvidence
<1>. QED
  BY <1>1, <1>2, <1>3, <1>4, <1>5, <1>6, <1>7, <1>8 DEF Next, Ended

-----------------------------------------------------------------------------
(***************************************************************************)
(* Theorems.                                                               *)
(***************************************************************************)
\* The invariant of the tool: types, control, files, pairing and outcome.
\* (main of ModelValidation.cpp with its observers and the recorder.)
THEOREM ToolCorrect == Spec => []IInv
<1>1. IInv /\ [Next]_vars => IInv'
  BY TypeStep, ControlStep, PublishedStep, HandStep, PairedStep, RecordedStep,
     OutcomeStep DEF IInv
<1>. QED
  BY <1>1, InitIInv, PTL DEF Spec

\* Every variable keeps its type, and names on the disk are behind next_.
\* (PredictionRecorder's state.)
THEOREM TypeCorrect == Spec => []TypeOK
BY ToolCorrect, PTL DEF IInv

\* Every file a document names is complete and holds what it is named for.
\* (nextFile, writeBytes and tensor.)
THEOREM FilesAreTrue == Spec => []NamedFilesHoldTheirData
BY ToolCorrect, PTL DEF IInv

\* Preprocessings and samples pair up by their position.
\* (ObservedTask.)
THEOREM CallsArePaired == Spec => []CallsAndSamplesPair
BY ToolCorrect, PTL DEF IInv, Paired

\* Samples are the answers, each once and in order.
\* (ObservedTask and ObservedRenderer.)
THEOREM AnswersAreRecorded == Spec => []EveryAnswerIsRecorded
BY ToolCorrect, PTL DEF IInv, Recorded

\* The published document and the exit code agree.
\* (main's two flushes.)
THEOREM ExitAgrees == Spec => []ExitIsPublished
BY ToolCorrect, PTL DEF IInv, Outcome

\* A failed run leaves its document unless it cannot be written.
\* (catch (...) in main.)
THEOREM EvidenceStays == Spec => []FailureLeavesEvidence
BY ToolCorrect, PTL DEF IInv, Outcome

\* Complete files, and what an earlier run left, are never written again.
\* (the recorder's constructor and nextFile.)
THEOREM FilesStay == Spec => WholeFilesStay
<1>1. ASSUME IInv, [Next]_vars
      PROVE  /\ \A n \in DOMAIN disk :
                  disk[n][1] = "whole" => n \in DOMAIN disk' /\ disk'[n] = disk[n]
             /\ published.state = "old" => published' = published
  <2>1. DiskGrows
    BY <1>1, DiskStep
  <2>2. published' # published => pc \in {"flush", "reflush"}
    BY <1>1 DEF Next, Ended, vars, recorderVars, Parse, OpenRecorder, Build,
                RunThrows, Begin, NoteCall, Answer, EndTensors, NoteSample,
                Render, EndRun, Flush, Catch, Reflush, RecordInput,
                RecordTensor, RecordMatrix, RecordFile
  <2>. QED
    BY <1>1, <2>1, <2>2 DEF DiskGrows, IInv, Control
<1>2. IInv /\ [Next]_vars =>
        [/\ \A n \in DOMAIN disk :
              disk[n][1] = "whole" => n \in DOMAIN disk' /\ disk'[n] = disk[n]
         /\ published.state = "old" => published' = published]_vars
  BY <1>1
<1>. QED
  BY <1>2, ToolCorrect, PTL DEF Spec, WholeFilesStay
=============================================================================
