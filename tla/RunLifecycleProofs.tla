-------------------------- MODULE RunLifecycleProofs --------------------------
(***************************************************************************)
(* The theorems about RunLifecycle, for any number of processes and any    *)
(* stages a run may begin.  What a process knows of itself, and whose      *)
(* documents are in the files, holds however the processes overlap; what a *)
(* reader finds is proved of processes that do not.                        *)
(***************************************************************************)
EXTENDS RunLifecycleInvariant, TLAPS

(***************************************************************************)
(* Reports and what they say.                                              *)
(***************************************************************************)
LEMMA StagesNamed == {"configuration", "unknown"} \subseteq RunStage /\ NoFailure \notin RunStage
  BY DEF RunStage, TimedStage, NoFailure

\* What a run that goes through keeps of its report: the outcome.
LEMMA StageMarked ==
  ASSUME NEW r \in Report, NEW stage \in RunStage
  PROVE  BeginStage(r, stage) \in Report /\ BeginStage(r, stage).failure = r.failure
  BY DEF BeginStage, Report

LEMMA FailTypes ==
  ASSUME NEW r \in Report, NEW stage \in RunStage
  PROVE  Fail(r, stage) \in Report /\ Fail(r, stage).failure # NoFailure
  BY StagesNamed DEF Fail, Report

LEMMA ReportsMade ==
  /\ NewReport \in Report /\ NewReport.failure = NoFailure
  /\ ConfigurationFailure \in Report /\ ConfigurationFailure.failure # NoFailure
  /\ ProvisionalReport \in Report /\ ProvisionalReport.failure # NoFailure
  /\ \A r \in Report : FailedReport(r) \in Report /\ FailedReport(r).failure # NoFailure
<1>1. NewReport \in Report /\ NewReport.failure = NoFailure
  <2>1. [s \in TimedStage |-> 0] \in [TimedStage -> Nat]
    OBVIOUS
  <2> QED BY <2>1, StagesNamed DEF NewReport, Report
<1>2. \A r \in Report : r.stage \in RunStage
  BY DEF Report
<1> QED BY <1>1, <1>2, StagesNamed, FailTypes
        DEF ConfigurationFailure, ProvisionalReport, FailedReport

LEMMA DocumentTypes ==
  ASSUME NEW p \in Process, NEW r \in Report
  PROVE  /\ DocumentOf(p, r) \in ReportDocument
         /\ DocumentOf(p, r).by = p
         /\ DocumentOf(p, r).status = "success" <=> r.failure = NoFailure
<1>1. r.stage \in RunStage /\ r.failure \in RunStage \cup {NoFailure}
  BY DEF Report
<1>2. /\ Document(r).status = (IF r.failure = NoFailure THEN "success" ELSE "failed")
      /\ Document(r).stage = (IF r.failure = NoFailure THEN r.stage ELSE r.failure)
  BY DEF Document
<1> QED BY <1>1, <1>2 DEF DocumentOf, ReportDocument

\* What files hold is told apart by its extent.
LEMMA ContentKinds ==
  ASSUME NEW d \in ReportDocument, NEW e \in ReportDocument
  PROVE  /\ {Empty, Torn, Part(d), Whole(d)} \subseteq Content
         /\ Empty # Torn /\ Empty # Part(d) /\ Empty # Whole(d)
         /\ Torn # Part(d) /\ Torn # Whole(d) /\ Part(d) # Whole(e)
         /\ Part(d) = Part(e) => d = e
         /\ Whole(d) = Whole(e) => d = e
         /\ Whole(d).extent = "whole" /\ Whole(d).document = d
<1>1. /\ Empty.extent = "empty" /\ Torn.extent = "torn"
      /\ Part(d).extent = "part" /\ Whole(d).extent = "whole" /\ Whole(e).extent = "whole"
      /\ Part(d).document = d /\ Part(e).document = e
      /\ Whole(d).document = d /\ Whole(e).document = e
  BY DEF Empty, Torn, Part, Whole
<1>2. {Empty, Torn, Part(d), Whole(d)} \subseteq Content
  BY DEF Content
<1> QED BY <1>1, <1>2

LEMMA AddedType ==
  ASSUME NEW old \in Content, NEW d \in ReportDocument, NEW begun \in BOOLEAN,
         NEW extent \in {"part", "whole"}
  PROVE  /\ Added(old, d, begun, extent) \in Content
         /\ Added(old, d, begun, extent) \in {Torn, Part(d), Whole(d)}
  BY ContentKinds DEF Added

-----------------------------------------------------------------------------
(***************************************************************************)
(* Types.                                                                  *)
(***************************************************************************)
LEMMA ProcessFacts == Process \subseteq Nat /\ 1 \in Process /\ Inode \subseteq Nat /\ Nothing \notin Inode
  BY RunsAssumption DEF Process, Inode, Nothing

LEMMA WriterFields ==
  ASSUME FileTypeOK, NEW p \in Process
  PROVE  /\ writer[p] \in Writer
         /\ writer[p].document \in ReportDocument /\ writer[p].begun \in BOOLEAN
         /\ writer[p].inode \in Inode \cup {Nothing} /\ writer[p].step \in WriterStep
         /\ writer[p].result \in {"none", "written", "not written"}
  BY DEF FileTypeOK, Writer

\* A step of a writer: its own entry, and that only, takes another value.
LEMMA WriterMoves ==
  ASSUME FileTypeOK, NEW p \in Process, NEW w \in Writer,
         writer' = [writer EXCEPT ![p] = w]
  PROVE  /\ writer' \in [Process -> Writer]
         /\ writer'[p] = w
         /\ \A q \in Process : q # p => writer'[q] = writer[q]
  BY DEF FileTypeOK

LEMMA CallWriteEffect ==
  ASSUME FileTypeOK, NEW p \in Process, NEW r \in Report, CallWrite(p, r)
  PROVE  /\ FileTypeOK'
         /\ UNCHANGED <<temporary, destination, content>>
         /\ writer[p].step = "idle"
         /\ writer'[p].step = "open" /\ writer'[p].document = DocumentOf(p, r)
         /\ ~ writer'[p].begun /\ writer'[p].result = "none"
         /\ \A q \in Process : q # p => writer'[q] = writer[q]
<1> DEFINE w == [writer[p] EXCEPT !.step = "open", !.document = DocumentOf(p, r),
                                  !.begun = FALSE, !.result = "none"]
<1>1. w \in Writer
  <2>1. /\ DocumentOf(p, r) \in ReportDocument /\ "open" \in WriterStep
        /\ FALSE \in BOOLEAN /\ "none" \in {"none", "written", "not written"}
    BY DocumentTypes DEF WriterStep
  <2> QED BY <2>1, WriterFields DEF Writer
<1>2. writer' = [writer EXCEPT ![p] = w]
  BY DEF CallWrite
<1>3. /\ w.step = "open" /\ w.document = DocumentOf(p, r)
      /\ ~ w.begun /\ w.result = "none"
  BY WriterFields DEF Writer
<1> HIDE DEF w
<1>4. /\ writer' \in [Process -> Writer] /\ writer'[p] = w
      /\ \A q \in Process : q # p => writer'[q] = writer[q]
  BY <1>1, <1>2, WriterMoves
<1>5. FileTypeOK'
  BY <1>4 DEF FileTypeOK, CallWrite
<1> QED BY <1>3, <1>4, <1>5 DEF CallWrite, Idle

LEMMA ReturnEffect ==
  ASSUME FileTypeOK, NEW p \in Process, NEW result \in {"written", "not written"},
         Return(p, result)
  PROVE  /\ writer' \in [Process -> Writer]
         /\ writer'[p].step = "idle" /\ writer'[p].result = result
         /\ writer'[p].document = writer[p].document
         /\ \A q \in Process : q # p => writer'[q] = writer[q]
<1> DEFINE w == [writer[p] EXCEPT !.step = "idle", !.inode = Nothing, !.result = result]
<1>1. w \in Writer
  BY WriterFields DEF Writer, WriterStep
<1>2. writer' = [writer EXCEPT ![p] = w]
  BY DEF Return
<1>3. w.step = "idle" /\ w.result = result /\ w.document = writer[p].document
  BY WriterFields DEF Writer
<1> HIDE DEF w
<1> QED BY <1>1, <1>2, <1>3, WriterMoves

LEMMA AbandonEffect ==
  ASSUME FileTypeOK, NEW p \in Process, AbandonWrite(p)
  PROVE  /\ FileTypeOK'
         /\ writer'[p].step = "idle" /\ writer'[p].result = writer[p].result
         /\ writer'[p].document = writer[p].document
         /\ \A q \in Process : q # p => writer'[q] = writer[q]
<1> DEFINE w == [writer[p] EXCEPT !.step = "idle", !.inode = Nothing]
<1>1. w \in Writer
  BY WriterFields DEF Writer, WriterStep
<1>2. writer' = [writer EXCEPT ![p] = w]
  BY DEF AbandonWrite
<1>3. w.step = "idle" /\ w.result = writer[p].result /\ w.document = writer[p].document
  BY WriterFields DEF Writer
<1> HIDE DEF w
<1>4. /\ writer' \in [Process -> Writer] /\ writer'[p] = w
      /\ \A q \in Process : q # p => writer'[q] = writer[q]
  BY <1>1, <1>2, WriterMoves
<1> QED BY <1>3, <1>4 DEF AbandonWrite, FileTypeOK

LEMMA ProceedEffect ==
  ASSUME FileTypeOK, NEW p \in Process, NEW step \in WriterStep, Proceed(p, step)
  PROVE  /\ writer' \in [Process -> Writer]
         /\ writer'[p].step = step /\ writer'[p].result = writer[p].result
         /\ writer'[p].document = writer[p].document
         /\ writer'[p].inode = writer[p].inode /\ writer'[p].begun = writer[p].begun
         /\ \A q \in Process : q # p => writer'[q] = writer[q]
<1> DEFINE w == [writer[p] EXCEPT !.step = step]
<1>1. w \in Writer
  BY WriterFields DEF Writer
<1>2. writer' = [writer EXCEPT ![p] = w]
  BY DEF Proceed
<1>3. /\ w.step = step /\ w.result = writer[p].result /\ w.document = writer[p].document
      /\ w.inode = writer[p].inode /\ w.begun = writer[p].begun
  BY WriterFields DEF Writer
<1> HIDE DEF w
<1> QED BY <1>1, <1>2, <1>3, WriterMoves

\* What a file may hold after bytes of d went to one of them.
LEMMA ContentAdded ==
  ASSUME FileTypeOK, NEW p \in Process, NEW begun \in BOOLEAN, NEW extent \in {"part", "whole"},
         content' = [content EXCEPT ![writer[p].inode] =
                       Added(@, writer[p].document, begun, extent)]
  PROVE  /\ content' \in [Inode -> Content]
         /\ \A i \in Inode, d \in ReportDocument :
              content'[i] \in {Part(d), Whole(d)} =>
                content[i] \in {Part(d), Whole(d)} \/ d = writer[p].document
         /\ \A i \in Inode : i # writer[p].inode => content'[i] = content[i]
         /\ writer[p].inode \in Inode =>
              content'[writer[p].inode] =
                Added(content[writer[p].inode], writer[p].document, begun, extent)
<1> DEFINE e == writer[p].document
           k == writer[p].inode
<1>1. e \in ReportDocument /\ k \in Inode \cup {Nothing} /\ content \in [Inode -> Content]
  BY WriterFields DEF FileTypeOK
<1>2. CASE k \notin Inode
  BY <1>1, <1>2
<1>3. CASE k \in Inode
  <2>1. Added(content[k], e, begun, extent) \in Content \cap {Torn, Part(e), Whole(e)}
    BY <1>1, <1>3, AddedType
  <2>2. \A i \in Inode : content'[i] = IF i = k THEN Added(content[k], e, begun, extent)
                                               ELSE content[i]
    BY <1>1, <1>3
  <2>3. \A d \in ReportDocument :
          Added(content[k], e, begun, extent) \in {Part(d), Whole(d)} => d = e
    BY <1>1, <2>1, ContentKinds
  <2>4. content' \in [Inode -> Content]
    BY <1>1, <1>3, <2>1
  <2> QED BY <1>3, <2>2, <2>3, <2>4
<1> QED BY <1>2, <1>3

LEMMA WriteStepEffect ==
  ASSUME FileTypeOK, NEW p \in Process, WriteStep(p)
  PROVE  /\ FileTypeOK'
         /\ writer[p].step # "idle"
         /\ writer'[p].document = writer[p].document
         /\ IF writer'[p].step = "idle" THEN writer'[p].result \in {"written", "not written"}
                                        ELSE writer'[p].result = writer[p].result
         /\ \A q \in Process : q # p => writer'[q] = writer[q]
         /\ \A i \in Inode, d \in ReportDocument :
              content'[i] \in {Part(d), Whole(d)} =>
                content[i] \in {Part(d), Whole(d)} \/ d = writer[p].document
<1>1. CASE OpenTemporary(p)
  <2>1. writer[p].step = "open"
    BY <1>1 DEF OpenTemporary, WriterAt
  <2>2. CASE Proceed(p, "remove") /\ UNCHANGED <<temporary, destination, content>>
    BY <2>1, <2>2, ProceedEffect DEF FileTypeOK, WriterStep
  <2>3. CASE Return(p, "not written") /\ UNCHANGED <<temporary, destination, content>>
    BY <2>1, <2>3, ReturnEffect DEF FileTypeOK
  <2>4. ASSUME NEW inode \in Inode,
               temporary' = inode, content' = [content EXCEPT ![inode] = Empty],
               writer' = [writer EXCEPT ![p] = [@ EXCEPT !.step = "stream", !.inode = inode]],
               UNCHANGED destination
        PROVE  /\ FileTypeOK'
               /\ writer'[p].document = writer[p].document
               /\ writer'[p].step = "stream" /\ writer'[p].result = writer[p].result
               /\ \A q \in Process : q # p => writer'[q] = writer[q]
               /\ \A i \in Inode, d \in ReportDocument :
                    content'[i] \in {Part(d), Whole(d)} => content[i] \in {Part(d), Whole(d)}
    <3> DEFINE w == [writer[p] EXCEPT !.step = "stream", !.inode = inode]
    <3>1. w \in Writer
      BY WriterFields DEF Writer, WriterStep
    <3>2. w.document = writer[p].document /\ w.step = "stream" /\ w.result = writer[p].result
      BY WriterFields DEF Writer
    <3>3. writer' = [writer EXCEPT ![p] = w]
      BY <2>4
    <3> HIDE DEF w
    <3>4. /\ writer' \in [Process -> Writer] /\ writer'[p] = w
          /\ \A q \in Process : q # p => writer'[q] = writer[q]
      BY <3>1, <3>3, WriterMoves
    <3>5. content \in [Inode -> Content] /\ \A i \in Inode :
            content'[i] = IF i = inode THEN Empty ELSE content[i]
      BY <2>4 DEF FileTypeOK
    <3>6. \A d \in ReportDocument : Empty \notin {Part(d), Whole(d)}
      BY ContentKinds
    <3>7. Empty \in Content
      BY DEF Content
    <3>8. FileTypeOK'
      BY <2>4, <3>4, <3>5, <3>7 DEF FileTypeOK
    <3> QED BY <3>2, <3>4, <3>5, <3>6, <3>8
  <2> QED BY <1>1, <2>1, <2>2, <2>3, <2>4 DEF OpenTemporary
<1>2. CASE StreamDocument(p)
  <2>1. writer[p].step = "stream"
    BY <1>2 DEF StreamDocument, WriterAt
  <2>2. CASE Proceed(p, "close") /\ UNCHANGED <<content, temporary, destination>>
    BY <2>1, <2>2, ProceedEffect DEF FileTypeOK, WriterStep
  <2>3. CASE /\ writer' = [writer EXCEPT ![p] = [@ EXCEPT !.step = "close", !.begun = TRUE]]
             /\ content' = [content EXCEPT ![writer[p].inode] =
                              Added(@, writer[p].document, FALSE, "part")]
             /\ UNCHANGED <<temporary, destination>>
    <3> DEFINE w == [writer[p] EXCEPT !.step = "close", !.begun = TRUE]
    <3>1. w \in Writer
      BY WriterFields DEF Writer, WriterStep
    <3>2. w.document = writer[p].document /\ w.step = "close" /\ w.result = writer[p].result
      BY WriterFields DEF Writer
    <3>3. writer' = [writer EXCEPT ![p] = w]
      BY <2>3
    <3> HIDE DEF w
    <3>4. /\ writer' \in [Process -> Writer] /\ writer'[p] = w
          /\ \A q \in Process : q # p => writer'[q] = writer[q]
      BY <3>1, <3>3, WriterMoves
    <3>5. /\ content' \in [Inode -> Content]
          /\ \A i \in Inode, d \in ReportDocument :
               content'[i] \in {Part(d), Whole(d)} =>
                 content[i] \in {Part(d), Whole(d)} \/ d = writer[p].document
      BY <2>3, ContentAdded
    <3>6. FileTypeOK'
      BY <2>3, <3>4, <3>5 DEF FileTypeOK
    <3> QED BY <2>1, <3>2, <3>4, <3>5, <3>6
  <2> QED BY <1>2, <2>2, <2>3 DEF StreamDocument
<1>3. CASE CloseStream(p)
  <2>1. PICK extent \in {"part", "whole"} :
          /\ Proceed(p, IF extent = "whole" THEN "rename" ELSE "remove")
          /\ content' = [content EXCEPT ![writer[p].inode] =
               Added(@, writer[p].document, writer[p].begun, extent)]
    BY <1>3 DEF CloseStream
  <2>2. writer[p].step = "close" /\ UNCHANGED <<temporary, destination>>
    BY <1>3 DEF CloseStream, WriterAt
  <2>3. /\ content' \in [Inode -> Content]
        /\ \A i \in Inode, d \in ReportDocument :
             content'[i] \in {Part(d), Whole(d)} =>
               content[i] \in {Part(d), Whole(d)} \/ d = writer[p].document
    BY <2>1, WriterFields, ContentAdded
  <2> DEFINE next == IF extent = "whole" THEN "rename" ELSE "remove"
  <2>4. next \in WriterStep /\ next # "idle"
    BY DEF WriterStep
  <2>5. Proceed(p, next)
    BY <2>1
  <2> HIDE DEF next
  <2>6. /\ writer' \in [Process -> Writer]
        /\ writer'[p].step = next /\ writer'[p].result = writer[p].result
        /\ writer'[p].document = writer[p].document
        /\ \A q \in Process : q # p => writer'[q] = writer[q]
    BY <2>4, <2>5, ProceedEffect
  <2>7. FileTypeOK'
    BY <2>2, <2>3, <2>6 DEF FileTypeOK
  <2> QED BY <2>2, <2>3, <2>4, <2>6, <2>7
<1>4. CASE RenameOver(p)
  <2>1. writer[p].step = "rename" /\ UNCHANGED content
    BY <1>4 DEF RenameOver, WriterAt
  <2>2. CASE /\ temporary # Nothing /\ destination' = temporary /\ temporary' = Nothing
             /\ Return(p, "written")
    BY <2>1, <2>2, ReturnEffect DEF FileTypeOK
  <2>3. CASE Proceed(p, "remove") /\ UNCHANGED <<temporary, destination>>
    BY <2>1, <2>3, ProceedEffect DEF FileTypeOK, WriterStep
  <2> QED BY <1>4, <2>2, <2>3 DEF RenameOver
<1>5. CASE RemoveTemporary(p)
  <2>1. /\ writer[p].step = "remove" /\ UNCHANGED <<content, destination>>
        /\ temporary' \in {Nothing, temporary} /\ Return(p, "not written")
    BY <1>5 DEF RemoveTemporary, WriterAt
  <2> QED BY <2>1, ReturnEffect DEF FileTypeOK
<1> QED BY <1>1, <1>2, <1>3, <1>4, <1>5 DEF WriteStep

-----------------------------------------------------------------------------
(***************************************************************************)
(* What is known of a process.                                             *)
(***************************************************************************)
\* A step of another process leaves q alone.
Kept(q) ==
  /\ phase'[q] = phase[q] /\ then'[q] = then[q] /\ armed'[q] = armed[q]
  /\ report'[q] = report[q] /\ exit'[q] = exit[q] /\ printed'[q] = printed[q]
  /\ writer'[q] = writer[q]

LEMMA StandingKept ==
  ASSUME NEW q \in Process, Standing(q), Kept(q), q > started' <=> q > started
  PROVE  Standing(q)'
  BY DEF Standing, Kept, Untouched, WroteFinal, WroteProvisional, ExitKnown,
         FinalReport, Reported, Idle

\* A final report says success of none but a run whose command returned 0.
LEMMA FinalStatus ==
  ASSUME TypeOK, NEW p \in Process, exit[p] = "success" => report[p].failure = NoFailure
  PROVE  /\ FinalReport(p) \in ReportDocument /\ FinalReport(p).by = p
         /\ FinalReport(p).status = "success" <=> exit[p] = "success"
<1>1. report[p] \in Report
  BY DEF TypeOK
<1> QED BY <1>1, ReportsMade, DocumentTypes DEF FinalReport

LEMMA WriteThenEffect ==
  ASSUME TypeOK, NEW p \in Process, NEW r \in Report, NEW there \in Phase,
         WriteThen(p, r, there)
  PROVE  /\ FileTypeOK' /\ phase' \in [Process -> Phase] /\ then' \in [Process -> Phase]
         /\ UNCHANGED <<temporary, destination, content>>
         /\ writer[p].step = "idle"
         /\ phase'[p] = "writing" /\ then'[p] = there
         /\ writer'[p].step = "open" /\ writer'[p].document = DocumentOf(p, r)
         /\ ~ writer'[p].begun /\ writer'[p].result = "none"
         /\ \A q \in Process : q # p =>
              phase'[q] = phase[q] /\ then'[q] = then[q] /\ writer'[q] = writer[q]
<1>1. FileTypeOK /\ CallWrite(p, r)
  BY DEF TypeOK, WriteThen
<1>2. /\ phase' \in [Process -> Phase] /\ then' \in [Process -> Phase]
      /\ phase'[p] = "writing" /\ then'[p] = there
      /\ \A q \in Process : q # p => phase'[q] = phase[q] /\ then'[q] = then[q]
  BY DEF TypeOK, WriteThen, Goto, Phase
<1> QED BY <1>1, <1>2, CallWriteEffect

LEMMA StartStep ==
  ASSUME TypeOK, \A q \in Process : Standing(q), NEW p \in Process, Start(p)
  PROVE  TypeOK' /\ (\A q \in Process : Standing(q)')
<1>1. TypeOK'
  BY ProcessFacts DEF TypeOK, Start, Goto, Phase, fileVars, FileTypeOK, Process
<1>2. ASSUME NEW q \in Process, q # p
      PROVE  Standing(q)'
  <2>1. Kept(q) /\ (q > started' <=> q > started)
    BY <1>2, ProcessFacts DEF Start, Goto, TypeOK, Kept, fileVars, Process
  <2> QED BY <2>1, StandingKept
<1>3. Standing(p)'
  <2>1. /\ phase[p] = "unborn" /\ phase'[p] = "parse" /\ started' = p
        /\ then'[p] = then[p] /\ exit'[p] = exit[p] /\ printed'[p] = printed[p]
        /\ report'[p] = report[p] /\ writer'[p] = writer[p] /\ armed'[p]
    BY ProcessFacts DEF Start, Goto, TypeOK, fileVars, Standing, Process
  <2> QED BY <2>1, ProcessFacts DEF Standing, Untouched, Idle, Process
<1> QED BY <1>1, <1>2, <1>3

\* What each step of a process does to it: its types, the others, itself.
Does(p) ==
  /\ TypeOK' /\ started' = started
  /\ \A q \in Process : q # p => Kept(q)
  /\ Standing(p)'

LEMMA ParsingStep ==
  ASSUME TypeOK, NEW p \in Process, Standing(p),
         PrintHelp(p) \/ PrintCapabilities(p) \/ RejectArguments(p) \/ Parsed(p)
  PROVE  Does(p)
<1>1. /\ phase[p] = "parse" /\ started' = started
      /\ UNCHANGED <<fileVars, then, report>>
  BY DEF PrintHelp, PrintCapabilities, RejectArguments, Parsed, At
<1>2. \/ /\ phase' = [phase EXCEPT ![p] = "exiting"] /\ armed' = [armed EXCEPT ![p] = FALSE]
         /\ \E how \in {"success", "failure"} : exit' = [exit EXCEPT ![p] = how]
         /\ printed' = [printed EXCEPT ![p] = TRUE]
      \/ /\ phase' = [phase EXCEPT ![p] = "exiting"] /\ exit' = [exit EXCEPT ![p] = "failure"]
         /\ UNCHANGED <<armed, printed>>
      \/ /\ phase' = [phase EXCEPT ![p] = "construct"] /\ armed' = [armed EXCEPT ![p] = FALSE]
         /\ UNCHANGED <<exit, printed>>
  BY DEF PrintHelp, PrintCapabilities, RejectArguments, Parsed, Goto, Exits,
         disarmConfigurationExitReport
<1>3. TypeOK'
  <2>1. phase' \in [Process -> Phase] /\ armed' \in [Process -> BOOLEAN]
        /\ printed' \in [Process -> BOOLEAN]
    BY <1>2 DEF TypeOK, Phase
  <2>2. exit' \in [Process -> Exit]
    BY <1>2 DEF TypeOK, Exit
  <2> QED BY <1>1, <2>1, <2>2 DEF TypeOK, FileTypeOK, fileVars
<1>4. \A q \in Process : q # p => Kept(q)
  BY <1>1, <1>2 DEF TypeOK, Kept, fileVars
<1>5. /\ then'[p] = then[p] /\ report'[p] = report[p] /\ writer'[p] = writer[p]
      /\ \/ phase'[p] = "exiting" /\ ~ armed'[p] /\ printed'[p] /\ exit'[p] \in {"success", "failure"}
         \/ /\ phase'[p] = "exiting" /\ exit'[p] = "failure" /\ printed'[p] = printed[p]
            /\ armed'[p] = armed[p]
         \/ /\ phase'[p] = "construct" /\ ~ armed'[p] /\ exit'[p] = exit[p]
            /\ printed'[p] = printed[p]
  BY <1>1, <1>2 DEF TypeOK, fileVars
<1>6. Untouched(p) /\ Idle(p) /\ armed[p] /\ ~ (p > started)
  BY <1>1 DEF Standing
<1>7. Standing(p)'
  BY <1>1, <1>5, <1>6 DEF Standing, Untouched, ExitKnown, Idle, Reported, WroteFinal, WroteProvisional
<1> QED BY <1>1, <1>3, <1>4, <1>7 DEF Does

\* The phases a call may return to.
LEMMA Phases == {"construct", "provisional", "execute", "exiting", "terminating", "ended"} \subseteq Phase
  BY DEF Phase

LEMMA ParseThrowsStep ==
  ASSUME TypeOK, NEW p \in Process, Standing(p), ParseThrows(p)
  PROVE  Does(p)
<1>1. /\ phase[p] = "parse" /\ WriteThen(p, ConfigurationFailure, "exiting")
      /\ armed' = [armed EXCEPT ![p] = FALSE] /\ exit' = [exit EXCEPT ![p] = "failure"]
      /\ UNCHANGED <<started, report, printed>>
  BY DEF ParseThrows, At, Exits, disarmConfigurationExitReport
<1>2. /\ FileTypeOK' /\ phase' \in [Process -> Phase] /\ then' \in [Process -> Phase]
      /\ phase'[p] = "writing" /\ then'[p] = "exiting"
      /\ writer'[p].step = "open" /\ writer'[p].document = DocumentOf(p, ConfigurationFailure)
      /\ writer'[p].result = "none"
      /\ \A q \in Process : q # p =>
           phase'[q] = phase[q] /\ then'[q] = then[q] /\ writer'[q] = writer[q]
  BY <1>1, WriteThenEffect, Phases, ReportsMade
<1>3. /\ armed' \in [Process -> BOOLEAN] /\ exit' \in [Process -> Exit]
      /\ ~ armed'[p] /\ exit'[p] = "failure" /\ report'[p] = report[p] /\ printed'[p] = printed[p]
      /\ \A q \in Process : q # p => armed'[q] = armed[q] /\ exit'[q] = exit[q]
  BY <1>1 DEF TypeOK, Exit
<1>4. TypeOK'
  BY <1>1, <1>2, <1>3 DEF TypeOK
<1>5. \A q \in Process : q # p => Kept(q)
  BY <1>1, <1>2, <1>3 DEF Kept
<1>6. Untouched(p) /\ ~ (p > started)
  BY <1>1 DEF Standing
<1>7. Standing(p)'
  BY <1>1, <1>2, <1>3, <1>6, ReportsMade
     DEF Standing, Untouched, Idle, WroteFinal, FinalReport
<1> QED BY <1>1, <1>4, <1>5, <1>7 DEF Does

LEMMA ConstructStep ==
  ASSUME TypeOK, NEW p \in Process, Standing(p), Construct(p)
  PROVE  Does(p)
<1>1. /\ phase[p] = "construct" /\ ~ armed[p] /\ ~ printed[p] /\ exit[p] = "none"
      /\ report[p] = NewReport /\ ~ (p > started) /\ Idle(p) /\ then[p] # "execute"
  BY DEF Construct, At, Standing
<1>2. UNCHANGED <<started, armed, report, printed>>
  BY DEF Construct
<1>3. CASE Goto(p, "provisional") /\ UNCHANGED <<fileVars, then, exit>>
  <2>1. /\ phase' \in [Process -> Phase] /\ phase'[p] = "provisional"
        /\ \A q \in Process : q # p => phase'[q] = phase[q]
    BY <1>3, Phases DEF Goto, TypeOK
  <2>2. TypeOK'
    BY <1>2, <1>3, <2>1 DEF TypeOK, FileTypeOK, fileVars
  <2>3. \A q \in Process : q # p => Kept(q)
    BY <1>2, <1>3, <2>1 DEF Kept, fileVars
  <2>4. Standing(p)'
    BY <1>1, <1>2, <1>3, <2>1 DEF Standing, Idle, fileVars
  <2> QED BY <1>2, <2>2, <2>3, <2>4 DEF Does
<1>4. ASSUME NEW there \in {"exiting", "terminating"},
             WriteThen(p, ConfigurationFailure, there),
             \/ there = "exiting" /\ exit' = [exit EXCEPT ![p] = "failure"]
             \/ there = "terminating" /\ exit' = exit
      PROVE  Does(p)
  <2>1. /\ FileTypeOK' /\ phase' \in [Process -> Phase] /\ then' \in [Process -> Phase]
        /\ phase'[p] = "writing" /\ then'[p] = there
        /\ writer'[p].step = "open" /\ writer'[p].document = DocumentOf(p, ConfigurationFailure)
        /\ writer'[p].result = "none"
        /\ \A q \in Process : q # p =>
             phase'[q] = phase[q] /\ then'[q] = then[q] /\ writer'[q] = writer[q]
    BY <1>4, WriteThenEffect, Phases, ReportsMade
  <2>2. /\ exit' \in [Process -> Exit]
        /\ exit'[p] = IF there = "exiting" THEN "failure" ELSE "none"
        /\ \A q \in Process : q # p => exit'[q] = exit[q]
    BY <1>1, <1>4 DEF TypeOK, Exit
  <2>3. TypeOK'
    BY <1>2, <2>1, <2>2 DEF TypeOK
  <2>4. \A q \in Process : q # p => Kept(q)
    BY <1>2, <2>1, <2>2 DEF Kept
  <2>5. Standing(p)'
    BY <1>1, <1>2, <2>1, <2>2, ReportsMade DEF Standing, Idle, WroteFinal, FinalReport
  <2> QED BY <1>2, <2>3, <2>4, <2>5 DEF Does
<1> QED BY <1>3, <1>4 DEF Construct, Exits

LEMMA WriteProvisionalStep ==
  ASSUME TypeOK, NEW p \in Process, Standing(p), WriteProvisional(p)
  PROVE  Does(p)
<1>1. /\ phase[p] = "provisional" /\ ~ armed[p] /\ ~ printed[p] /\ exit[p] = "none"
      /\ report[p] = NewReport /\ ~ (p > started)
  BY DEF WriteProvisional, At, Standing
<1>2. UNCHANGED <<started, armed, report, exit, printed>> /\ WriteThen(p, ProvisionalReport, "execute")
  BY DEF WriteProvisional
<1>3. /\ FileTypeOK' /\ phase' \in [Process -> Phase] /\ then' \in [Process -> Phase]
      /\ phase'[p] = "writing" /\ then'[p] = "execute"
      /\ writer'[p].step = "open" /\ writer'[p].document = DocumentOf(p, ProvisionalReport)
      /\ writer'[p].result = "none"
      /\ \A q \in Process : q # p =>
           phase'[q] = phase[q] /\ then'[q] = then[q] /\ writer'[q] = writer[q]
  BY <1>2, WriteThenEffect, Phases, ReportsMade
<1>4. TypeOK' /\ (\A q \in Process : q # p => Kept(q))
  BY <1>2, <1>3 DEF TypeOK, Kept
<1>5. Standing(p)'
  BY <1>1, <1>2, <1>3, ReportsMade DEF Standing, Idle, WroteProvisional
<1> QED BY <1>2, <1>4, <1>5 DEF Does

LEMMA BeginWorkStep ==
  ASSUME TypeOK, NEW p \in Process, Standing(p), BeginWork(p)
  PROVE  Does(p)
<1>1. PICK stage \in ReachedStages : report' = [report EXCEPT ![p] = BeginStage(@, stage)]
  BY DEF BeginWork
<1>2. phase[p] = "execute" /\ UNCHANGED <<fileVars, started, phase, then, armed, exit, printed>>
  BY DEF BeginWork, At
<1>3. stage \in RunStage
  BY RunLifecycleAssumption
<1>4. /\ BeginStage(report[p], stage) \in Report
      /\ BeginStage(report[p], stage).failure = report[p].failure
  BY <1>3, StageMarked DEF TypeOK
<1>5. /\ report' \in [Process -> Report] /\ report'[p].failure = report[p].failure
      /\ \A q \in Process : q # p => report'[q] = report[q]
  BY <1>1, <1>4 DEF TypeOK
<1>6. TypeOK' /\ (\A q \in Process : q # p => Kept(q))
  BY <1>2, <1>5 DEF TypeOK, Kept, FileTypeOK, fileVars
<1>7. Standing(p)'
  BY <1>2, <1>5 DEF Standing, Idle, Reported, WroteProvisional, fileVars
<1> QED BY <1>2, <1>6, <1>7 DEF Does

LEMMA EndRunStep ==
  ASSUME TypeOK, NEW p \in Process, Standing(p), EndRun(p)
  PROVE  Does(p)
<1>1. /\ phase[p] = "execute" /\ ~ armed[p] /\ ~ printed[p] /\ exit[p] = "none"
      /\ report[p].failure = NoFailure /\ ~ (p > started) /\ report[p] \in Report
  BY DEF EndRun, At, Standing, TypeOK
<1>2. UNCHANGED <<started, armed, printed>>
  BY DEF EndRun
<1>3. PICK r \in Report, there \in {"exiting", "terminating"}, how \in {"success", "failure", "none"} :
        /\ WriteThen(p, r, there)
        /\ report' = [report EXCEPT ![p] = r]
        /\ exit' = [exit EXCEPT ![p] = how]
        /\ there = "terminating" => how = "none"
        /\ there = "exiting" => how # "none"
        /\ how = "success" <=> r.failure = NoFailure
  <2>1. FailedReport(report[p]) \in Report /\ FailedReport(report[p]).failure # NoFailure
    BY <1>1, ReportsMade
  <2>2. /\ report = [report EXCEPT ![p] = report[p]]
        /\ exit = [exit EXCEPT ![p] = "none"]
    BY <1>1 DEF TypeOK
  <2>3. CASE /\ WriteThen(p, report[p], "exiting") /\ report' = report
             /\ exit' = [exit EXCEPT ![p] = "success"]
    BY <1>1, <2>2, <2>3
  <2>4. CASE /\ WriteThen(p, FailedReport(report[p]), "exiting")
             /\ report' = [report EXCEPT ![p] = FailedReport(report[p])]
             /\ exit' = [exit EXCEPT ![p] = "failure"]
    BY <2>1, <2>4
  <2>5. CASE /\ WriteThen(p, FailedReport(report[p]), "terminating")
             /\ report' = [report EXCEPT ![p] = FailedReport(report[p])]
             /\ exit' = exit
    BY <2>1, <2>2, <2>5
  <2> QED BY <2>3, <2>4, <2>5 DEF EndRun, Exits
<1>4. /\ FileTypeOK' /\ phase' \in [Process -> Phase] /\ then' \in [Process -> Phase]
      /\ phase'[p] = "writing" /\ then'[p] = there
      /\ writer'[p].step = "open" /\ writer'[p].document = DocumentOf(p, r)
      /\ writer'[p].result = "none"
      /\ \A q \in Process : q # p =>
           phase'[q] = phase[q] /\ then'[q] = then[q] /\ writer'[q] = writer[q]
  BY <1>3, WriteThenEffect, Phases
<1>5. /\ report' \in [Process -> Report] /\ exit' \in [Process -> Exit]
      /\ report'[p] = r /\ exit'[p] = how
      /\ \A q \in Process : q # p => report'[q] = report[q] /\ exit'[q] = exit[q]
  BY <1>3 DEF TypeOK, Exit
<1>6. TypeOK' /\ (\A q \in Process : q # p => Kept(q))
  BY <1>2, <1>4, <1>5 DEF TypeOK, Kept
<1>7. Standing(p)'
  BY <1>1, <1>2, <1>3, <1>4, <1>5 DEF Standing, Idle, WroteFinal, FinalReport
<1> QED BY <1>2, <1>6, <1>7 DEF Does

LEMMA WritingStep ==
  ASSUME TypeOK, NEW p \in Process, Standing(p), Writing(p)
  PROVE  Does(p)
<1>1. /\ phase[p] = "writing" /\ WriteStep(p)
      /\ UNCHANGED <<started, then, armed, report, exit, printed>>
      /\ IF writer'[p].step = "idle" THEN phase' = [phase EXCEPT ![p] = then[p]]
                                     ELSE phase' = phase
  BY DEF Writing, At, Goto
<1>2. /\ ~ armed[p] /\ ~ printed[p] /\ writer[p].result = "none" /\ ~ (p > started)
      /\ then[p] \in {"execute", "exiting", "terminating"}
      /\ then[p] \in {"execute", "terminating"} => exit[p] = "none"
      /\ then[p] = "exiting" => exit[p] \in {"success", "failure"}
      /\ then[p] \in {"exiting", "terminating"} => WroteFinal(p)
      /\ then[p] = "execute" => WroteProvisional(p) /\ report[p].failure = NoFailure
  BY <1>1 DEF Standing
<1>3. /\ FileTypeOK' /\ writer'[p].document = writer[p].document
      /\ IF writer'[p].step = "idle" THEN writer'[p].result \in {"written", "not written"}
                                     ELSE writer'[p].result = writer[p].result
      /\ \A q \in Process : q # p => writer'[q] = writer[q]
  BY <1>1, WriteStepEffect DEF TypeOK
<1>4. /\ phase' \in [Process -> Phase]
      /\ phase'[p] = IF writer'[p].step = "idle" THEN then[p] ELSE "writing"
      /\ \A q \in Process : q # p => phase'[q] = phase[q]
  BY <1>1 DEF TypeOK
<1>5. TypeOK' /\ (\A q \in Process : q # p => Kept(q))
  BY <1>1, <1>3, <1>4 DEF TypeOK, Kept
<1>6. /\ WroteFinal(p) => WroteFinal(p)'
      /\ WroteProvisional(p) => WroteProvisional(p)'
  BY <1>1, <1>3 DEF WroteFinal, WroteProvisional, FinalReport
<1>7. Standing(p)'
  <2>1. CASE writer'[p].step = "idle"
    BY <1>1, <1>2, <1>3, <1>4, <1>6, <2>1 DEF Standing, Idle, Reported, ExitKnown
  <2>2. CASE writer'[p].step # "idle"
    BY <1>1, <1>2, <1>3, <1>4, <1>6, <2>2 DEF Standing, Idle
  <2> QED BY <2>1, <2>2
<1> QED BY <1>1, <1>5, <1>7 DEF Does

LEMMA ExitHookStep ==
  ASSUME TypeOK, NEW p \in Process, Standing(p), ExitHook(p)
  PROVE  Does(p)
<1>1. /\ phase[p] = "exiting" /\ exit[p] \in {"success", "failure"} /\ ExitKnown(p)
      /\ ~ (p > started) /\ Idle(p) /\ then[p] # "execute"
      /\ UNCHANGED <<started, report, exit, printed>>
  BY DEF ExitHook, At, Standing
<1>2. CASE armed[p]
  <2>1. /\ armed' = [armed EXCEPT ![p] = FALSE]
        /\ WriteThen(p, ConfigurationFailure, "exiting")
    BY <1>2 DEF ExitHook, disarmConfigurationExitReport
  <2>2. /\ FileTypeOK' /\ phase' \in [Process -> Phase] /\ then' \in [Process -> Phase]
        /\ phase'[p] = "writing" /\ then'[p] = "exiting"
        /\ writer'[p].step = "open" /\ writer'[p].document = DocumentOf(p, ConfigurationFailure)
        /\ writer'[p].result = "none"
        /\ \A q \in Process : q # p =>
             phase'[q] = phase[q] /\ then'[q] = then[q] /\ writer'[q] = writer[q]
    BY <2>1, WriteThenEffect, Phases, ReportsMade
  <2>3. /\ armed' \in [Process -> BOOLEAN] /\ ~ armed'[p]
        /\ \A q \in Process : q # p => armed'[q] = armed[q]
    BY <2>1 DEF TypeOK
  <2>4. TypeOK' /\ (\A q \in Process : q # p => Kept(q))
    BY <1>1, <2>2, <2>3 DEF TypeOK, Kept
  <2>5. ~ printed[p] /\ exit[p] = "failure" /\ report[p] = NewReport
    BY <1>1, <1>2 DEF ExitKnown
  <2>6. Standing(p)'
    BY <1>1, <2>2, <2>3, <2>5, ReportsMade DEF Standing, Idle, WroteFinal, FinalReport
  <2> QED BY <1>1, <2>4, <2>6 DEF Does
<1>3. CASE ~ armed[p]
  <2>1. phase' = [phase EXCEPT ![p] = "ended"] /\ UNCHANGED <<fileVars, then, armed>>
    BY <1>3 DEF ExitHook, Goto
  <2>2. /\ phase' \in [Process -> Phase] /\ phase'[p] = "ended"
        /\ \A q \in Process : q # p => phase'[q] = phase[q]
    BY <2>1, Phases DEF TypeOK
  <2>3. TypeOK' /\ (\A q \in Process : q # p => Kept(q))
    BY <1>1, <2>1, <2>2 DEF TypeOK, Kept, FileTypeOK, fileVars
  <2>4. /\ printed[p] => writer[p].result = "none"
        /\ ~ printed[p] => Reported(p) /\ WroteFinal(p)
    BY <1>1, <1>3 DEF ExitKnown
  <2>5. Standing(p)'
    BY <1>1, <2>1, <2>2, <2>4
       DEF Standing, Idle, Reported, WroteFinal, FinalReport, fileVars
  <2> QED BY <1>1, <2>3, <2>5 DEF Does
<1> QED BY <1>2, <1>3

LEMMA TerminateStep ==
  ASSUME TypeOK, NEW p \in Process, Standing(p), Terminate(p)
  PROVE  Does(p)
<1>1. /\ phase[p] = "terminating" /\ phase' = [phase EXCEPT ![p] = "ended"]
      /\ exit' = [exit EXCEPT ![p] = "aborted"]
      /\ UNCHANGED <<fileVars, started, then, armed, report, printed>>
  BY DEF Terminate, At, Goto, Exits
<1>2. /\ ~ printed[p] /\ exit[p] = "none" /\ Reported(p) /\ WroteFinal(p)
      /\ ~ (p > started) /\ Idle(p) /\ then[p] # "execute"
  BY <1>1 DEF Standing
<1>3. /\ phase' \in [Process -> Phase] /\ exit' \in [Process -> Exit]
      /\ phase'[p] = "ended" /\ exit'[p] = "aborted"
      /\ \A q \in Process : q # p => phase'[q] = phase[q] /\ exit'[q] = exit[q]
  BY <1>1, Phases DEF TypeOK, Exit
<1>4. TypeOK' /\ (\A q \in Process : q # p => Kept(q))
  BY <1>1, <1>3 DEF TypeOK, Kept, FileTypeOK, fileVars
<1>5. Standing(p)'
  BY <1>1, <1>2, <1>3 DEF Standing, Idle, Reported, WroteFinal, FinalReport, fileVars
<1> QED BY <1>1, <1>4, <1>5 DEF Does

LEMMA KilledStep ==
  ASSUME TypeOK, NEW p \in Process, Standing(p), Killed(p)
  PROVE  Does(p)
<1>1. /\ phase[p] \notin {"unborn", "ended"} /\ phase' = [phase EXCEPT ![p] = "ended"]
      /\ exit' = [exit EXCEPT ![p] = "killed"] /\ AbandonWrite(p)
      /\ UNCHANGED <<started, then, armed, report, printed>>
  BY DEF Killed, Alive, Goto, Exits
<1>2. /\ FileTypeOK' /\ writer'[p].step = "idle" /\ writer'[p].result = writer[p].result
      /\ writer'[p].document = writer[p].document
      /\ \A q \in Process : q # p => writer'[q] = writer[q]
  BY <1>1, AbandonEffect DEF TypeOK
<1>3. /\ phase' \in [Process -> Phase] /\ exit' \in [Process -> Exit]
      /\ phase'[p] = "ended" /\ exit'[p] = "killed"
      /\ \A q \in Process : q # p => phase'[q] = phase[q] /\ exit'[q] = exit[q]
  BY <1>1, Phases DEF TypeOK, Exit
<1>4. TypeOK' /\ (\A q \in Process : q # p => Kept(q))
  BY <1>1, <1>2, <1>3 DEF TypeOK, Kept
<1>5. /\ printed[p] => writer[p].result = "none"
      /\ ~ (p > started)
  BY <1>1 DEF TypeOK, Phase, Standing, Untouched, ExitKnown
<1>6. then[p] = "execute" => WroteProvisional(p) /\ report[p].failure = NoFailure
  BY DEF Standing
<1>7. Standing(p)'
  BY <1>1, <1>2, <1>3, <1>5, <1>6 DEF Standing, Idle, WroteProvisional
<1> QED BY <1>1, <1>4, <1>7 DEF Does

LEMMA RunStep ==
  ASSUME TypeOK, NEW p \in Process, Standing(p), Run(p) \/ Killed(p)
  PROVE  Does(p)
  BY ParsingStep, ParseThrowsStep, ConstructStep, WriteProvisionalStep, BeginWorkStep,
     EndRunStep, WritingStep, ExitHookStep, TerminateStep, KilledStep DEF Run

-----------------------------------------------------------------------------
(***************************************************************************)
(* Whose documents are in the files.                                       *)
(***************************************************************************)
\* The document of a call at work, whenever it may reach a file.
LEMMA CallVouched ==
  ASSUME TypeOK, NEW p \in Process, Standing(p), phase[p] = "writing"
  PROVE  writer[p].document \in ReportDocument /\ Vouched(writer[p].document)
<1>1. /\ ~ printed[p] /\ then[p] \in {"execute", "exiting", "terminating"}
      /\ then[p] \in {"execute", "terminating"} => exit[p] = "none"
      /\ then[p] \in {"exiting", "terminating"} => WroteFinal(p)
      /\ then[p] = "execute" => WroteProvisional(p)
  BY DEF Standing
<1>2. writer[p].document \in ReportDocument
  BY WriterFields DEF TypeOK
<1>3. CASE then[p] = "execute"
  BY <1>1, <1>2, <1>3, DocumentTypes, ReportsMade DEF WroteProvisional, Vouched
<1>4. CASE then[p] \in {"exiting", "terminating"}
  <2>1. /\ writer[p].document = FinalReport(p)
        /\ exit[p] = "success" => report[p].failure = NoFailure
    BY <1>1, <1>4 DEF WroteFinal
  <2>2. /\ writer[p].document.by = p
        /\ writer[p].document.status = "success" <=> exit[p] = "success"
    BY <2>1, FinalStatus
  <2> QED BY <1>1, <1>2, <1>4, <2>1, <2>2 DEF Vouched, EarnedBy
<1> QED BY <1>1, <1>3, <1>4

\* Only a call at work writes to a file.
LEMMA FilesKept ==
  ASSUME TypeOK, NEW p \in Process, Start(p) \/ Run(p) \/ Killed(p), ~ Writing(p)
  PROVE  content' = content
  BY DEF Run, Start, PrintHelp, PrintCapabilities, RejectArguments, ParseThrows, Parsed,
         Construct, WriteProvisional, BeginWork, EndRun, ExitHook, Terminate, Killed,
         WriteThen, CallWrite, AbandonWrite, fileVars

\* A process that came so far does not go back, and keeps what it earned.
LEMMA SelfVouched ==
  ASSUME TypeOK, NEW p \in Process, Standing(p), Run(p) \/ Killed(p),
         phase[p] \notin {"unborn", "parse"}
  PROVE  /\ phase'[p] \notin {"unborn", "parse"} /\ printed' = printed
         /\ EarnedBy(p) => EarnedBy(p)'
<1>1. CASE Construct(p) \/ WriteProvisional(p) \/ BeginWork(p) \/ EndRun(p) \/ Terminate(p)
  <2>1. phase[p] \in {"construct", "provisional", "execute", "terminating"}
    BY <1>1 DEF Construct, WriteProvisional, BeginWork, EndRun, Terminate, At
  <2>2. phase'[p] \in {"provisional", "writing", "execute", "ended"} /\ printed' = printed
    BY <1>1, <2>1 DEF Construct, WriteProvisional, BeginWork, EndRun, Terminate, WriteThen,
                      Goto, At, TypeOK
  <2> QED BY <2>1, <2>2 DEF EarnedBy
<1>2. CASE Writing(p)
  <2>1. /\ phase[p] = "writing" /\ UNCHANGED <<then, report, exit, printed>>
        /\ then[p] \in {"execute", "exiting", "terminating"}
        /\ phase'[p] \in {then[p], "writing"}
    BY <1>2 DEF Writing, At, Goto, Standing, TypeOK
  <2> QED BY <2>1 DEF EarnedBy
<1>3. CASE ExitHook(p)
  <2>1. /\ phase[p] = "exiting" /\ exit[p] \in {"success", "failure"}
        /\ armed[p] => exit[p] = "failure"
    BY <1>3 DEF ExitHook, At, Standing, ExitKnown
  <2>2. UNCHANGED <<report, exit, printed>> /\ phase'[p] \in {"writing", "ended"}
    BY <1>3 DEF ExitHook, WriteThen, Goto, TypeOK
  <2>3. ~ armed[p] => UNCHANGED then
    BY <1>3 DEF ExitHook
  <2> QED BY <2>1, <2>2, <2>3 DEF EarnedBy
<1>4. CASE Killed(p)
  <2>1. /\ phase'[p] = "ended" /\ exit'[p] = "killed" /\ UNCHANGED <<then, report, printed>>
    BY <1>4 DEF Killed, Goto, Exits, TypeOK
  <2> QED BY <2>1 DEF EarnedBy
<1>5. CASE PrintHelp(p) \/ PrintCapabilities(p) \/ RejectArguments(p) \/ ParseThrows(p) \/ Parsed(p)
  BY <1>5 DEF PrintHelp, PrintCapabilities, RejectArguments, ParseThrows, Parsed, At
<1> QED BY <1>1, <1>2, <1>3, <1>4, <1>5 DEF Run

LEMMA VouchedKept ==
  ASSUME TypeOK, \A q \in Process : Standing(q), NEW p \in Process,
         Start(p) \/ Run(p) \/ Killed(p), NEW d \in ReportDocument, Vouched(d)
  PROVE  Vouched(d)'
<1>1. d.by \in Process
  BY DEF ReportDocument
<1>2. CASE d.by # p
  <2>1. CASE Start(p)
    BY <1>1, <1>2, <2>1 DEF Start, Goto, TypeOK, Vouched, EarnedBy
  <2>2. CASE Run(p) \/ Killed(p)
    <3>1. Kept(d.by)
      BY <1>1, <1>2, <2>2, RunStep DEF Does
    <3> QED BY <1>1, <3>1 DEF Kept, Vouched, EarnedBy
  <2> QED BY <2>1, <2>2
<1>3. CASE d.by = p
  <2>1. ~ Start(p)
    BY <1>3, ProcessFacts DEF Start, Standing, Vouched, TypeOK, Process
  <2> QED BY <1>3, <2>1, SelfVouched DEF Vouched
<1> QED BY <1>2, <1>3

-----------------------------------------------------------------------------
(***************************************************************************)
(* The invariant, however the processes overlap.                           *)
(***************************************************************************)
LEMMA LifeInit == Init => LifeInv
<1> SUFFICES ASSUME Init PROVE LifeInv
  OBVIOUS
<1>1. /\ temporary = Nothing /\ destination = Nothing /\ content = [i \in Inode |-> Empty]
      /\ started = 0
  BY DEF Init, FileInit
<1>2. ASSUME NEW p \in Process
      PROVE  /\ phase[p] = "unborn" /\ then[p] = "unborn" /\ armed[p] = FALSE
             /\ report[p] = NewReport /\ exit[p] = "none" /\ printed[p] = FALSE
             /\ writer[p].step = "idle" /\ writer[p].result = "none"
             /\ p > started
  BY <1>1, ProcessFacts DEF Init, FileInit, Process
<1>3. TypeOK
  <2>1. NoDocument \in ReportDocument
    BY ProcessFacts, StagesNamed DEF NoDocument, ReportDocument
  <2>2. writer \in [Process -> Writer]
    BY <2>1 DEF Init, FileInit, Writer, WriterStep
  <2>3. FileTypeOK
    BY <1>1, <2>2 DEF FileTypeOK, Content
  <2>4. armed \in [Process -> BOOLEAN] /\ printed \in [Process -> BOOLEAN]
    BY DEF Init
  <2>5. /\ phase \in [Process -> Phase] /\ then \in [Process -> Phase]
        /\ exit \in [Process -> Exit]
    BY DEF Init, Phase, Exit
  <2>6. report \in [Process -> Report]
    BY ReportsMade DEF Init
  <2>7. started \in 0 .. Runs
    BY <1>1, RunsAssumption
  <2> QED BY <2>3, <2>4, <2>5, <2>6, <2>7 DEF TypeOK
<1>4. \A p \in Process : Standing(p)
  BY <1>2 DEF Standing, Idle, Untouched
<1>5. Authored
  BY <1>1, ContentKinds DEF Authored
<1> QED BY <1>3, <1>4, <1>5 DEF LifeInv

LEMMA LifeStep == LifeInv /\ [Next]_vars => LifeInv'
<1> SUFFICES ASSUME LifeInv, [Next]_vars PROVE LifeInv'
  OBVIOUS
<1> USE DEF LifeInv
<1>1. CASE UNCHANGED vars
  <2>1. /\ UNCHANGED <<temporary, destination, content, writer, started>>
        /\ UNCHANGED <<phase, then, armed, report, exit, printed>>
    BY <1>1 DEF vars, fileVars, processVars
  <2>2. TypeOK'
    BY <2>1 DEF TypeOK, FileTypeOK
  <2>3. ASSUME NEW q \in Process PROVE Standing(q)'
    BY <2>1, <2>3, StandingKept DEF Kept
  <2>4. Authored'
    BY <2>1 DEF Authored, Vouched, EarnedBy
  <2> QED BY <2>2, <2>3, <2>4
<1>2. ASSUME NEW p \in Process, Start(p) \/ Run(p) \/ Killed(p)
      PROVE  LifeInv'
  <2>1. TypeOK' /\ \A q \in Process : Standing(q)'
    <3>1. CASE Start(p)
      BY <3>1, StartStep
    <3>2. CASE Run(p) \/ Killed(p)
      <4>1. Does(p)
        BY <3>2, RunStep
      <4>2. ASSUME NEW q \in Process, q # p PROVE Standing(q)'
        BY <4>1, <4>2, StandingKept DEF Does
      <4> QED BY <4>1, <4>2 DEF Does
    <3> QED BY <1>2, <3>1, <3>2
  <2>2. ASSUME NEW i \in Inode, NEW d \in ReportDocument, content'[i] \in {Part(d), Whole(d)}
        PROVE  Vouched(d)
    <3>1. CASE Writing(p)
      <4>1. phase[p] = "writing" /\ WriteStep(p)
        BY <3>1 DEF Writing, At
      <4>2. content[i] \in {Part(d), Whole(d)} \/ d = writer[p].document
        BY <2>2, <4>1, WriteStepEffect DEF TypeOK
      <4> QED BY <4>1, <4>2, CallVouched DEF Authored
    <3>2. CASE ~ Writing(p)
      BY <1>2, <2>2, <3>2, FilesKept DEF Authored
    <3> QED BY <3>1, <3>2
  <2>3. Authored'
    BY <1>2, <2>2, VouchedKept DEF Authored
  <2> QED BY <2>1, <2>3
<1> QED BY <1>1, <1>2 DEF Next, AllEnded

\* What a process knows of itself and whose documents are in the files, at
\* every point of every interleaving and after every kill.
THEOREM LifeCorrect == Spec => []LifeInv
  BY LifeInit, LifeStep, PTL DEF Spec

-----------------------------------------------------------------------------
\* A printed help or capabilities document never touches the report file.
THEOREM HelpUntouched == Spec => []HelpTouchesNothing
<1>1. LifeInv => HelpTouchesNothing
  BY DEF LifeInv, Authored, Vouched, HelpTouchesNothing, ReportDocument
<1> QED BY <1>1, LifeCorrect, PTL

\* Every process that ends by itself, except to print, has called
\* writeRunReport and come back from it.
THEOREM EndsReported == Spec => []EveryEndIsReported
<1>1. LifeInv => EveryEndIsReported
  BY DEF LifeInv, Standing, Reported, EveryEndIsReported
<1> QED BY <1>1, LifeCorrect, PTL

\* A success in the report file is that of a process whose command returned 0.
THEOREM SuccessEarned == Spec => []SuccessIsEarned
<1>1. LifeInv => SuccessIsEarned
  <2> SUFFICES ASSUME LifeInv, NEW d \in ReportDocument, Published = Whole(d),
                      d.status = "success"
               PROVE  EarnedBy(d.by)
    BY DEF SuccessIsEarned, EarnedBy
  <2>1. Whole(d) # Empty
    BY ContentKinds
  <2>2. destination \in Inode /\ content[destination] = Whole(d)
    BY <2>1 DEF Published, LifeInv, TypeOK, FileTypeOK
  <2> QED BY <2>2 DEF LifeInv, Authored, Vouched
<1> QED BY <1>1, LifeCorrect, PTL

-----------------------------------------------------------------------------
(***************************************************************************)
(* Processes that do not overlap: the call of writeRunReport.              *)
(***************************************************************************)
\* A step of a call stays inside it, or leaves the report and says so, or
\* replaces the report as a whole and says so.
Stays(p) ==
  /\ writer'[p].step # "idle" /\ writer'[p].result = writer[p].result
  /\ destination' = destination
  /\ destination # Nothing => content'[destination] = content[destination]

Leaves(p) ==
  /\ writer'[p].step = "idle" /\ writer'[p].result = "not written"
  /\ destination' = destination /\ content' = content

Publishes(p) ==
  /\ writer'[p].step = "idle" /\ writer'[p].result = "written"
  /\ destination' # Nothing /\ content'[destination'] = Whole(writer[p].document)

LEMMA OpenStep ==
  ASSUME FileTypeOK, NEW p \in Process, TwoFiles, InTheFile(p), OpenTemporary(p)
  PROVE  TwoFiles' /\ InTheFile(p)' /\ (Stays(p) \/ Leaves(p))
<1>1. writer[p].step = "open" /\ ~ writer[p].begun
  BY DEF OpenTemporary, WriterAt, InTheFile
<1>2. CASE Proceed(p, "remove") /\ UNCHANGED <<temporary, destination, content>>
  BY <1>2, ProceedEffect DEF WriterStep, TwoFiles, InTheFile, Stays
<1>3. CASE Return(p, "not written") /\ UNCHANGED <<temporary, destination, content>>
  BY <1>3, ReturnEffect DEF TwoFiles, InTheFile, Leaves
<1>4. ASSUME NEW inode \in Inode,
             IF temporary = Nothing THEN Fresh(inode) ELSE inode = temporary,
             temporary' = inode, content' = [content EXCEPT ![inode] = Empty],
             writer' = [writer EXCEPT ![p] = [@ EXCEPT !.step = "stream", !.inode = inode]],
             UNCHANGED destination
      PROVE  TwoFiles' /\ InTheFile(p)' /\ Stays(p)
  <2>1. inode # Nothing /\ (destination # Nothing => inode # destination)
    BY <1>4, ProcessFacts DEF Fresh, InUse, TwoFiles
  <2>2. /\ content'[inode] = Empty
        /\ destination # Nothing => content'[destination] = content[destination]
    BY <1>4, <2>1 DEF FileTypeOK
  <2>3. /\ writer'[p].step = "stream" /\ writer'[p].inode = inode
        /\ writer'[p].begun = writer[p].begun /\ writer'[p].result = writer[p].result
    BY <1>4 DEF FileTypeOK, Writer
  <2> QED BY <1>1, <1>4, <2>1, <2>2, <2>3 DEF TwoFiles, InTheFile, Stays
<1> QED BY <1>2, <1>3, <1>4 DEF OpenTemporary

\* The bytes of a call follow one another in a file that is its alone.
LEMMA BytesStep ==
  ASSUME FileTypeOK, NEW p \in Process, TwoFiles, InTheFile(p),
         NEW begun \in BOOLEAN, NEW extent \in {"part", "whole"},
         writer[p].step \in {"stream", "close"},
         content[temporary] = IF begun THEN Part(writer[p].document) ELSE Empty,
         content' = [content EXCEPT ![writer[p].inode] =
                       Added(@, writer[p].document, begun, extent)],
         UNCHANGED <<temporary, destination>>
  PROVE  /\ TwoFiles'
         /\ content'[temporary] = IF extent = "part" THEN Part(writer[p].document)
                                                     ELSE Whole(writer[p].document)
         /\ destination # Nothing => content'[destination] = content[destination]
<1>1. /\ temporary \in Inode /\ writer[p].inode = temporary
      /\ destination # Nothing => destination \in Inode /\ destination # temporary
  BY DEF InTheFile, TwoFiles, FileTypeOK
<1>2. /\ content'[temporary] = Added(content[temporary], writer[p].document, begun, extent)
      /\ destination # Nothing => content'[destination] = content[destination]
  BY <1>1, ContentAdded
<1>3. content'[temporary] = IF extent = "part" THEN Part(writer[p].document)
                                               ELSE Whole(writer[p].document)
  BY <1>2 DEF Added
<1>4. TwoFiles'
  BY <1>2 DEF TwoFiles
<1> QED BY <1>2, <1>3, <1>4

LEMMA StreamStep ==
  ASSUME FileTypeOK, NEW p \in Process, TwoFiles, InTheFile(p), StreamDocument(p)
  PROVE  TwoFiles' /\ InTheFile(p)' /\ Stays(p)
<1>1. /\ writer[p].step = "stream" /\ ~ writer[p].begun
      /\ temporary # Nothing /\ writer[p].inode = temporary /\ content[temporary] = Empty
      /\ UNCHANGED <<temporary, destination>>
  BY DEF StreamDocument, WriterAt, InTheFile
<1>2. CASE Proceed(p, "close") /\ UNCHANGED content
  BY <1>1, <1>2, ProceedEffect DEF WriterStep, TwoFiles, InTheFile, Stays
<1>3. CASE /\ writer' = [writer EXCEPT ![p] = [@ EXCEPT !.step = "close", !.begun = TRUE]]
           /\ content' = [content EXCEPT ![writer[p].inode] =
                            Added(@, writer[p].document, FALSE, "part")]
  <2>1. /\ writer'[p].step = "close" /\ writer'[p].begun /\ writer'[p].inode = writer[p].inode
        /\ writer'[p].result = writer[p].result /\ writer'[p].document = writer[p].document
    BY <1>3 DEF FileTypeOK, Writer
  <2>2. /\ TwoFiles' /\ content'[temporary] = Part(writer[p].document)
        /\ destination # Nothing => content'[destination] = content[destination]
    BY <1>1, <1>3, BytesStep
  <2> QED BY <1>1, <2>1, <2>2 DEF InTheFile, Stays
<1> QED BY <1>2, <1>3 DEF StreamDocument

LEMMA CloseStep ==
  ASSUME FileTypeOK, NEW p \in Process, TwoFiles, InTheFile(p), CloseStream(p)
  PROVE  TwoFiles' /\ InTheFile(p)' /\ Stays(p)
<1>1. /\ writer[p].step = "close" /\ temporary # Nothing /\ writer[p].inode = temporary
      /\ content[temporary] = (IF writer[p].begun THEN Part(writer[p].document) ELSE Empty)
      /\ UNCHANGED <<temporary, destination>>
  BY DEF CloseStream, WriterAt, InTheFile
<1>2. PICK extent \in {"part", "whole"} :
        /\ Proceed(p, IF extent = "whole" THEN "rename" ELSE "remove")
        /\ content' = [content EXCEPT ![writer[p].inode] =
             Added(@, writer[p].document, writer[p].begun, extent)]
  BY DEF CloseStream
<1>3. writer[p].begun \in BOOLEAN
  BY WriterFields
<1>4. /\ TwoFiles'
      /\ extent = "whole" => content'[temporary] = Whole(writer[p].document)
      /\ destination # Nothing => content'[destination] = content[destination]
  BY <1>1, <1>2, <1>3, BytesStep
<1>5. CASE extent = "whole"
  <2>1. Proceed(p, "rename") /\ "rename" \in WriterStep
    BY <1>2, <1>5 DEF WriterStep
  <2> QED BY <1>1, <1>4, <1>5, <2>1, ProceedEffect DEF InTheFile, Stays
<1>6. CASE extent = "part"
  <2>1. Proceed(p, "remove") /\ "remove" \in WriterStep
    BY <1>2, <1>6 DEF WriterStep
  <2> QED BY <1>1, <1>4, <2>1, ProceedEffect DEF InTheFile, Stays
<1> QED BY <1>5, <1>6

LEMMA CallStep ==
  ASSUME FileTypeOK, NEW p \in Process, TwoFiles, InTheFile(p), WriteStep(p)
  PROVE  TwoFiles' /\ InTheFile(p)' /\ (Stays(p) \/ Leaves(p) \/ Publishes(p))
<1>1. CASE RenameOver(p)
  <2>1. /\ writer[p].step = "rename" /\ temporary # Nothing /\ content' = content
        /\ content[temporary] = Whole(writer[p].document)
        /\ writer[p].document \in ReportDocument
    BY <1>1, WriterFields DEF RenameOver, WriterAt, InTheFile
  <2>2. CASE /\ destination' = temporary /\ temporary' = Nothing /\ Return(p, "written")
    BY <2>1, <2>2, ReturnEffect DEF TwoFiles, InTheFile, Publishes
  <2>3. CASE Proceed(p, "remove") /\ UNCHANGED <<temporary, destination>>
    BY <2>1, <2>3, ProceedEffect DEF WriterStep, TwoFiles, InTheFile, Stays
  <2> QED BY <1>1, <2>2, <2>3 DEF RenameOver
<1>2. CASE RemoveTemporary(p)
  <2>1. /\ UNCHANGED <<content, destination>>
        /\ temporary' \in {Nothing, temporary} /\ Return(p, "not written")
    BY <1>2 DEF RemoveTemporary
  <2> QED BY <2>1, ReturnEffect DEF TwoFiles, InTheFile, Leaves
<1> QED BY <1>1, <1>2, OpenStep, StreamStep, CloseStep DEF WriteStep

-----------------------------------------------------------------------------
(***************************************************************************)
(* The invariant of processes that do not overlap.                         *)
(***************************************************************************)
\* What a step that is no step of a call does to the files and to the calls.
LEMMA OutsideCalls ==
  ASSUME TypeOK, NEW p \in Process, Start(p) \/ Run(p) \/ Killed(p), ~ Writing(p)
  PROVE  /\ UNCHANGED <<temporary, destination, content>>
         /\ \/ writer' = writer
            \/ \E r \in Report : CallWrite(p, r)
            \/ Killed(p) /\ AbandonWrite(p)
<1>1. report[p] \in Report
  BY DEF TypeOK
<1>2. ASSUME NEW r, CallWrite(p, r)
      PROVE  UNCHANGED <<temporary, destination, content>>
  BY <1>2 DEF CallWrite
<1>3. CASE Killed(p)
  BY <1>3 DEF Killed, AbandonWrite
<1>4. CASE Start(p) \/ Run(p)
  BY <1>1, <1>2, <1>4, ReportsMade
     DEF Run, Start, PrintHelp, PrintCapabilities, RejectArguments, ParseThrows, Parsed,
         Construct, WriteProvisional, BeginWork, EndRun, ExitHook, Terminate, WriteThen, fileVars
<1> QED BY <1>3, <1>4

LEMMA SequentialInit == Init => SequentialInv
<1> SUFFICES ASSUME Init PROVE SequentialInv
  OBVIOUS
<1>1. \A p \in Process : phase[p] = "unborn" /\ writer[p].step = "idle" /\ writer[p].result = "none"
  BY DEF Init, FileInit
<1>2. destination = Nothing
  BY DEF Init, FileInit
<1> QED BY <1>1, <1>2 DEF SequentialInv, Alone, Alive, TwoFiles, InTheFile, LastWord

LEMMA SequentialStart ==
  ASSUME ~ Overlap, LifeInv, SequentialInv, NEW p \in Process, Start(p)
  PROVE  SequentialInv'
<1>1. /\ p = started + 1 /\ started' = p /\ \A q \in Process : ~ Alive(q)
      /\ UNCHANGED <<temporary, destination, content, writer>>
  BY DEF Start, fileVars
<1>2. phase'[p] = "parse" /\ \A q \in Process : q # p => phase'[q] = phase[q]
  BY DEF Start, Goto, LifeInv, TypeOK
<1>3. writer[p].result = "none"
  BY <1>1, ProcessFacts DEF LifeInv, TypeOK, Standing, Untouched, Process
<1>4. Alone'
  BY <1>1, <1>2 DEF Alone, Alive
<1>5. TwoFiles' /\ (\A q \in Process : InTheFile(q)') /\ LastWord'
  BY <1>1, <1>3 DEF SequentialInv, TwoFiles, InTheFile, LastWord
<1> QED BY <1>4, <1>5 DEF SequentialInv

LEMMA SequentialRun ==
  ASSUME LifeInv, SequentialInv, NEW p \in Process, Run(p) \/ Killed(p)
  PROVE  /\ SequentialInv'
         /\ p = started
         /\ \A q \in Process : q # p => writer'[q] = writer[q] /\ writer[q].step = "idle"
<1> USE DEF LifeInv
<1>1. Alive(p) /\ p = started
  <2>1. Alive(p)
    BY DEF Run, PrintHelp, PrintCapabilities, RejectArguments, ParseThrows, Parsed, Construct,
           WriteProvisional, BeginWork, EndRun, Writing, ExitHook, Terminate, Killed, At, Alive
  <2> QED BY <2>1 DEF SequentialInv, Alone
<1>2. /\ TypeOK' /\ started' = started
      /\ \A q \in Process : q # p => phase'[q] = phase[q] /\ writer'[q] = writer[q]
  BY RunStep DEF Does, Kept
<1>3. Alone'
  BY <1>1, <1>2 DEF SequentialInv, Alone, Alive
<1>4. ASSUME NEW q \in Process, q # p PROVE writer[q].step = "idle" /\ InTheFile(q)'
  <2>1. ~ Alive(q)
    BY <1>1, <1>4 DEF SequentialInv, Alone
  <2>2. writer[q].step = "idle"
    BY <2>1 DEF Standing, Idle, Alive
  <2> QED BY <1>2, <1>4, <2>2 DEF InTheFile
<1>5. CASE Writing(p)
  <2>1. /\ WriteStep(p) /\ writer[p].result = "none"
    BY <1>5 DEF Writing, At, Standing
  <2>2. TwoFiles' /\ InTheFile(p)' /\ (Stays(p) \/ Leaves(p) \/ Publishes(p))
    BY <2>1, CallStep DEF SequentialInv, TypeOK
  <2>3. writer'[p].document = writer[p].document
    BY <2>1, WriteStepEffect DEF TypeOK
  <2>4. LastWord'
    BY <1>1, <1>2, <2>1, <2>2, <2>3 DEF LastWord, Stays, Leaves, Publishes
  <2> QED BY <1>1, <1>2, <1>3, <1>4, <2>2, <2>4 DEF SequentialInv
<1>6. CASE ~ Writing(p)
  <2>1. UNCHANGED <<temporary, destination, content>>
    BY <1>6, OutsideCalls
  <2>2. TwoFiles'
    BY <2>1 DEF SequentialInv, TwoFiles
  <2>3. \/ writer'[p] = writer[p]
        \/ writer'[p].step = "open" /\ ~ writer'[p].begun /\ writer'[p].result = "none"
        \/ /\ writer'[p].step = "idle" /\ writer'[p].result = writer[p].result
           /\ writer'[p].document = writer[p].document
    BY <1>6, OutsideCalls, CallWriteEffect, AbandonEffect DEF TypeOK
  <2>4. InTheFile(p)'
    BY <2>1, <2>3 DEF SequentialInv, InTheFile
  <2>5. LastWord'
    BY <1>1, <1>2, <2>1, <2>3 DEF SequentialInv, LastWord
  <2> QED BY <1>1, <1>2, <1>3, <1>4, <2>2, <2>4, <2>5 DEF SequentialInv
<1> QED BY <1>5, <1>6

LEMMA SequentialStep == ~ Overlap => (LifeInv /\ SequentialInv /\ [Next]_vars => SequentialInv')
<1> SUFFICES ASSUME ~ Overlap, LifeInv, SequentialInv, [Next]_vars PROVE SequentialInv'
  OBVIOUS
<1>1. CASE UNCHANGED vars
  BY <1>1 DEF vars, fileVars, processVars, SequentialInv, Alone, Alive, TwoFiles, InTheFile,
              LastWord
<1>2. ASSUME NEW p \in Process, Start(p) \/ Run(p) \/ Killed(p)
      PROVE  SequentialInv'
  BY <1>2, SequentialStart, SequentialRun
<1> QED BY <1>1, <1>2 DEF Next, AllEnded

\* What is known of the files when no two processes overlap.
THEOREM SequentialCorrect == ~ Overlap => (Spec => [](LifeInv /\ SequentialInv))
<1> SUFFICES ASSUME ~ Overlap PROVE Spec => [](LifeInv /\ SequentialInv)
  OBVIOUS
<1>1. LifeInv /\ SequentialInv /\ [Next]_vars => (LifeInv /\ SequentialInv)'
  BY LifeStep, SequentialStep
<1> QED BY LifeInit, SequentialInit, <1>1, PTL DEF Spec

\* Without overlap a reader of run_report.json never finds an empty file or
\* the beginning of a report, whatever fails and whoever is killed.
THEOREM ReadersSeeWhole == ~ Overlap => (Spec => []ReaderSeesWhole)
<1> SUFFICES ASSUME ~ Overlap PROVE Spec => []ReaderSeesWhole
  OBVIOUS
<1>1. SequentialInv => ReaderSeesWhole
  BY DEF SequentialInv, TwoFiles, ReaderSeesWhole
<1> QED BY <1>1, SequentialCorrect, PTL

\* Without overlap the last process to end left the report that says how it
\* ended, unless it was killed or said that it could not write.
THEOREM OutcomePublished == ~ Overlap => (Spec => []OutcomeIsPublished)
<1> SUFFICES ASSUME ~ Overlap PROVE Spec => []OutcomeIsPublished
  OBVIOUS
<1>1. LifeInv /\ SequentialInv => OutcomeIsPublished
  <2> SUFFICES ASSUME LifeInv, SequentialInv, NEW p \in Process, p = started,
                      phase[p] = "ended", exit[p] # "killed", writer[p].result = "written"
               PROVE  /\ Published = Whole(FinalReport(p))
                      /\ FinalReport(p).status = "success" <=> exit[p] = "success"
    BY DEF OutcomeIsPublished
  <2>1. Published = Whole(writer[p].document)
    BY DEF SequentialInv, LastWord, Published
  <2>2. WroteFinal(p)
    BY DEF LifeInv, Standing
  <2> QED BY <2>1, <2>2, FinalStatus DEF LifeInv, WroteFinal
<1> QED BY <1>1, SequentialCorrect, PTL

\* Without overlap the report of a run at work is its provisional failure, and
\* that is what a kill leaves.
THEOREM RunShowsFailure == ~ Overlap => (Spec => []RunAtWorkShowsFailure)
<1> SUFFICES ASSUME ~ Overlap PROVE Spec => []RunAtWorkShowsFailure
  OBVIOUS
<1>1. LifeInv /\ SequentialInv => RunAtWorkShowsFailure
  <2> SUFFICES ASSUME LifeInv, SequentialInv, NEW p \in Process, p = started,
                      \/ phase[p] = "execute" /\ writer[p].result # "not written"
                      \/ exit[p] = "killed" /\ then[p] = "execute" /\ writer[p].result = "written"
               PROVE  Published = Whole(DocumentOf(p, ProvisionalReport))
    BY DEF RunAtWorkShowsFailure
  <2>1. then[p] = "execute" /\ writer[p].result = "written"
    BY DEF LifeInv, Standing, Reported
  <2>2. writer[p].document = DocumentOf(p, ProvisionalReport)
    BY <2>1 DEF LifeInv, Standing, WroteProvisional
  <2>3. Published = Whole(writer[p].document)
    BY <2>1 DEF SequentialInv, LastWord, Published
  <2> QED BY <2>2, <2>3
<1> QED BY <1>1, SequentialCorrect, PTL

-----------------------------------------------------------------------------
(***************************************************************************)
(* The files implement a register.                                         *)
(***************************************************************************)
\* What the refinement shows of the directory and of the calls.
Shown == IF destination = Nothing THEN [by |-> "nobody"]
         ELSE IF content[destination].extent = "whole"
         THEN content[destination].document ELSE content[destination]

Calls == [p \in Process |-> [active   |-> ~ Idle(p),
                             document |-> writer[p].document,
                             result   |-> writer[p].result]]

LEMMA ShownKept ==
  ASSUME destination' = destination,
         destination # Nothing => content'[destination] = content[destination]
  PROVE  Shown' = Shown
  BY DEF Shown

\* A step of p, in terms of the calls.
LEMMA CallsOf ==
  ASSUME NEW p \in Process, \A q \in Process : q # p => writer'[q] = writer[q]
  PROVE  Calls' = [Calls EXCEPT ![p] = [active   |-> writer'[p].step # "idle",
                                        document |-> writer'[p].document,
                                        result   |-> writer'[p].result]]
<1> DEFINE new == [Calls EXCEPT ![p] = [active   |-> writer'[p].step # "idle",
                                        document |-> writer'[p].document,
                                        result   |-> writer'[p].result]]
<1>1. DOMAIN Calls' = Process /\ DOMAIN new = Process
  BY DEF Calls
<1>2. Calls'[p] = [active   |-> writer'[p].step # "idle",
                   document |-> writer'[p].document,
                   result   |-> writer'[p].result]
  BY DEF Calls, Idle
<1>3. ASSUME NEW q \in Process, q # p PROVE Calls'[q] = Calls[q]
  BY <1>3 DEF Calls, Idle
<1>4. \A q \in Process : Calls'[q] = new[q]
  BY <1>1, <1>2, <1>3
<1>5. Calls' = [q \in Process |-> Calls'[q]] /\ new = [q \in Process |-> new[q]]
  BY DEF Calls
<1> QED BY <1>4, <1>5

LEMMA RegisterInit == Init => Register!Init
<1> SUFFICES ASSUME Init PROVE Register!Init
  OBVIOUS
<1>1. Shown = [by |-> "nobody"]
  BY DEF Init, FileInit, Shown
<1>2. Calls = [p \in Process |-> [active |-> FALSE, document |-> NoDocument, result |-> "none"]]
  BY DEF Init, FileInit, Calls, Idle
<1>3. NoDocument \in ReportDocument
  BY ProcessFacts, StagesNamed DEF NoDocument, ReportDocument
<1> QED BY <1>1, <1>2, <1>3 DEF Register!Init, Register!Absent, Shown, Calls

\* What becomes of a call, when the call of p is all that moves.
LEMMA RegisterMoves ==
  ASSUME TypeOK, NEW p \in Process, \A q \in Process : q # p => writer'[q] = writer[q]
  PROVE  /\ Shown' = Shown /\ writer'[p].step # "idle" /\ writer[p].step # "idle"
            /\ writer'[p].document = writer[p].document /\ writer'[p].result = writer[p].result
            => Calls' = Calls
         /\ writer[p].step = "idle" /\ writer'[p].step # "idle" /\ writer'[p].result = "none"
            /\ writer'[p].document \in ReportDocument /\ Shown' = Shown
            => Register!Begin(p)
         /\ writer[p].step # "idle" /\ writer'[p].step = "idle"
            /\ writer'[p].document = writer[p].document
            /\ writer'[p].result = "written" /\ Shown' = writer[p].document
            => Register!Publish(p)
         /\ writer[p].step # "idle" /\ writer'[p].step = "idle"
            /\ writer'[p].document = writer[p].document
            /\ writer'[p].result = "not written" /\ Shown' = Shown
            => Register!Leave(p)
         /\ writer'[p].step = "idle" /\ writer'[p].document = writer[p].document
            /\ writer'[p].result = writer[p].result /\ Shown' = Shown
            => Register!Die(p)
<1> DEFINE now == [active |-> writer[p].step # "idle", document |-> writer[p].document,
                   result |-> writer[p].result]
           next == [active |-> writer'[p].step # "idle", document |-> writer'[p].document,
                    result |-> writer'[p].result]
<1>1. Calls' = [Calls EXCEPT ![p] = next]
  BY CallsOf
<1>2. Calls[p] = now /\ Calls = [Calls EXCEPT ![p] = now]
  BY DEF Calls, Idle
<1>3. ASSUME Shown' = Shown, writer'[p].step # "idle", writer[p].step # "idle",
             writer'[p].document = writer[p].document, writer'[p].result = writer[p].result
      PROVE  Calls' = Calls
  <2>1. next = now
    BY <1>3
  <2> QED BY <1>1, <1>2, <2>1
<1>4. ASSUME writer[p].step = "idle", writer'[p].step # "idle", writer'[p].result = "none",
             writer'[p].document \in ReportDocument, Shown' = Shown
      PROVE  Register!Begin(p)
  <2>1. next = [active |-> TRUE, document |-> writer'[p].document, result |-> "none"]
    BY <1>4
  <2>2. now = [active |-> FALSE, document |-> writer[p].document, result |-> writer[p].result]
    BY <1>4
  <2>3. ~ Calls[p].active
    BY <1>2, <2>2
  <2> QED BY <1>1, <1>4, <2>1, <2>3 DEF Register!Begin, Shown, Calls
<1>5. ASSUME NEW result, writer'[p].step = "idle", writer'[p].document = writer[p].document,
             writer'[p].result = result
      PROVE  Register!Ends(p, result)
  <2>1. next = [active |-> FALSE, document |-> writer[p].document, result |-> result]
    BY <1>5
  <2>2. Calls[p].document = writer[p].document
    BY DEF Calls
  <2> QED BY <1>1, <2>1, <2>2 DEF Register!Ends, Calls
<1>6. ASSUME writer[p].step # "idle" PROVE Calls[p].active /\ Calls[p].document = writer[p].document
  <2>1. now = [active |-> TRUE, document |-> writer[p].document, result |-> writer[p].result]
    BY <1>6
  <2> QED BY <1>2, <2>1
<1>7. Calls[p].result = writer[p].result
  BY DEF Calls
<1>8. ASSUME writer[p].step # "idle", writer'[p].step = "idle",
             writer'[p].document = writer[p].document,
             writer'[p].result = "written", Shown' = writer[p].document
      PROVE  Register!Publish(p)
  <2>1. Register!Ends(p, "written")
    BY <1>5, <1>8
  <2> QED BY <1>6, <1>8, <2>1 DEF Register!Publish, Shown, Calls
<1>9. ASSUME writer[p].step # "idle", writer'[p].step = "idle",
             writer'[p].document = writer[p].document,
             writer'[p].result = "not written", Shown' = Shown
      PROVE  Register!Leave(p)
  <2>1. Register!Ends(p, "not written")
    BY <1>5, <1>9
  <2> QED BY <1>6, <1>9, <2>1 DEF Register!Leave, Shown, Calls
<1>10. ASSUME writer'[p].step = "idle", writer'[p].document = writer[p].document,
             writer'[p].result = writer[p].result, Shown' = Shown
      PROVE  Register!Die(p)
  <2>1. next = [active |-> FALSE, document |-> writer[p].document, result |-> writer[p].result]
    BY <1>10
  <2>2. Calls[p].document = writer[p].document
    BY DEF Calls
  <2> QED BY <1>1, <1>7, <1>10, <2>1, <2>2 DEF Register!Die, Register!Ends, Shown, Calls
<1> QED BY <1>3, <1>4, <1>8, <1>9, <1>10

LEMMA RegisterStep ==
  ~ Overlap => (LifeInv /\ SequentialInv /\ [Next]_vars => [Register!Next]_<<Shown, Calls>>)
<1> SUFFICES ASSUME ~ Overlap, LifeInv, SequentialInv, [Next]_vars
             PROVE  [Register!Next]_<<Shown, Calls>>
  OBVIOUS
<1>1. ASSUME UNCHANGED fileVars PROVE UNCHANGED <<Shown, Calls>>
  BY <1>1 DEF fileVars, Shown, Calls, Idle
<1>2. CASE UNCHANGED vars \/ AllEnded
  BY <1>1, <1>2 DEF vars, AllEnded
<1>3. ASSUME NEW p \in Process, Start(p)
      PROVE  [Register!Next]_<<Shown, Calls>>
  BY <1>1, <1>3 DEF Start
<1>4. ASSUME NEW p \in Process, Run(p) \/ Killed(p)
      PROVE  [Register!Next]_<<Shown, Calls>>
  <2>1. \A q \in Process : q # p => writer'[q] = writer[q]
    BY <1>4, SequentialRun
  <2>2. CASE Writing(p)
    <3>1. WriteStep(p) /\ writer[p].result = "none"
      BY <2>2 DEF Writing, At, LifeInv, Standing
    <3>2. Stays(p) \/ Leaves(p) \/ Publishes(p)
      BY <3>1, CallStep DEF SequentialInv, LifeInv, TypeOK
    <3>3. writer[p].step # "idle" /\ writer'[p].document = writer[p].document
      BY <3>1, WriteStepEffect DEF LifeInv, TypeOK
    <3>4. CASE Stays(p)
      BY <2>1, <3>3, <3>4, ShownKept, RegisterMoves DEF Stays, LifeInv
    <3>5. CASE Leaves(p)
      BY <2>1, <3>3, <3>5, ShownKept, RegisterMoves DEF Leaves, LifeInv, Register!Next
    <3>6. CASE Publishes(p)
      <4>1. writer[p].document \in ReportDocument
        BY WriterFields DEF LifeInv, TypeOK
      <4>2. Shown' = writer[p].document
        BY <3>6, <4>1, ContentKinds DEF Publishes, Shown
      <4> QED BY <2>1, <3>3, <3>6, <4>2, RegisterMoves DEF Publishes, LifeInv, Register!Next
    <3> QED BY <3>2, <3>4, <3>5, <3>6
  <2>3. CASE ~ Writing(p)
    <3>1. /\ UNCHANGED <<temporary, destination, content>>
          /\ writer' = writer \/ (\E r \in Report : CallWrite(p, r)) \/ AbandonWrite(p)
      BY <1>4, <2>3, OutsideCalls DEF LifeInv
    <3>2. Shown' = Shown
      BY <3>1, ShownKept
    <3>3. CASE writer' = writer
      BY <1>1, <3>1, <3>3 DEF fileVars
    <3>4. CASE \E r \in Report : CallWrite(p, r)
      <4>1. /\ writer[p].step = "idle" /\ writer'[p].step # "idle" /\ writer'[p].result = "none"
            /\ writer'[p].document \in ReportDocument
        BY <3>4, CallWriteEffect, DocumentTypes DEF LifeInv, TypeOK
      <4> QED BY <2>1, <3>2, <4>1, RegisterMoves DEF LifeInv, Register!Next
    <3>5. CASE AbandonWrite(p)
      <4>1. /\ writer'[p].step = "idle" /\ writer'[p].document = writer[p].document
            /\ writer'[p].result = writer[p].result
        BY <3>5, AbandonEffect DEF LifeInv, TypeOK
      <4> QED BY <2>1, <3>2, <4>1, RegisterMoves DEF LifeInv, Register!Next
    <3> QED BY <3>1, <3>3, <3>4, <3>5
  <2> QED BY <2>2, <2>3
<1> QED BY <1>2, <1>3, <1>4 DEF Next

\* Without overlap the names, the open files, the short writes and the kills
\* come to a register: a call replaces the report as a whole or leaves it, and
\* says which.
THEOREM ReportRegister == ~ Overlap => (Spec => ReportIsARegister)
<1> SUFFICES ASSUME ~ Overlap PROVE Spec => ReportIsARegister
  OBVIOUS
<1>1. LifeInv /\ SequentialInv /\ [Next]_vars => [Register!Next]_<<Shown, Calls>>
  BY RegisterStep
<1>2. Spec => [](LifeInv /\ SequentialInv)
  BY SequentialCorrect
<1> QED BY <1>1, <1>2, RegisterInit, PTL
        DEF Spec, ReportIsARegister, Register!Spec, Shown, Calls
=============================================================================
