------------------------------ MODULE ReportFile ------------------------------
(***************************************************************************)
(* writeRunReport of app/src/RunReport.cpp: the report is written beside   *)
(* its destination and renamed over it.                                    *)
(*                                                                         *)
(* The directory holds two names, the destination and its .tmp neighbour,  *)
(* each naming an inode or nothing.  A process that opened the temporary   *)
(* writes to the inode it opened, whatever becomes of the names.  A        *)
(* document goes through the stream's buffer: part of it may reach the     *)
(* file before close() flushes the rest.  A process may be killed between  *)
(* any two steps; the machine itself does not stop.                        *)
(***************************************************************************)
EXTENDS RunReport

CONSTANT Runs  \* bound: processes that are ever started in this directory

ASSUME RunsAssumption == Runs \in Nat \ {0}

VARIABLES
  temporary,    \* the inode named run_report.json.tmp, or Nothing
  destination,  \* the inode named run_report.json, or Nothing
  content,      \* what each inode holds
  writer        \* each process's call of writeRunReport

fileVars == <<temporary, destination, content, writer>>

\* Processes are numbered in the order they start.
Process == 1 .. Runs

\* One inode per name and per process that can hold one open.
Inode == 1 .. Runs + 2

Nothing == 0

\* A report, as far as its readers tell reports apart.
ReportDocument == [by : Process, status : {"success", "failed"}, stage : RunStage]

\* An empty file, the beginning of a document, a whole one, or bytes of
\* several documents.
Empty   == [extent |-> "empty"]
Torn    == [extent |-> "torn"]
Part(d) == [extent |-> "part", document |-> d]
Whole(d) == [extent |-> "whole", document |-> d]

Content == {Empty, Torn} \cup {Part(d) : d \in ReportDocument}
                         \cup {Whole(d) : d \in ReportDocument}

WriterStep == {"idle", "open", "stream", "close", "rename", "remove"}

NoDocument == [by |-> 1, status |-> "failed", stage |-> "unknown"]

\* inode: the open file; begun: some of the document has left the buffer;
\* result: what the latest call returned.
Writer == [step : WriterStep, document : ReportDocument, inode : Inode \cup {Nothing},
           begun : BOOLEAN, result : {"none", "written", "not written"}]

FileTypeOK ==
  /\ temporary \in Inode \cup {Nothing}
  /\ destination \in Inode \cup {Nothing}
  /\ content \in [Inode -> Content]
  /\ writer \in [Process -> Writer]

FileInit ==
  /\ temporary = Nothing
  /\ destination = Nothing
  /\ content = [i \in Inode |-> Empty]
  /\ writer = [p \in Process |-> [step |-> "idle", document |-> NoDocument,
                 inode |-> Nothing, begun |-> FALSE, result |-> "none"]]

-----------------------------------------------------------------------------
\* What p's report r says.
DocumentOf(p, r) ==
  [by |-> p, status |-> Document(r).status, stage |-> Document(r).stage]

Idle(p) == writer[p].step = "idle"

WriterAt(p, step) == writer[p].step = step

\* The call: the document is serialised before any file is touched.
CallWrite(p, r) ==
  /\ Idle(p)
  /\ writer' = [writer EXCEPT ![p] =
       [@ EXCEPT !.step = "open", !.document = DocumentOf(p, r),
                 !.begun = FALSE, !.result = "none"]]
  /\ UNCHANGED <<temporary, destination, content>>

Return(p, result) ==
  writer' = [writer EXCEPT ![p] =
    [@ EXCEPT !.step = "idle", !.inode = Nothing, !.result = result]]

Proceed(p, step) == writer' = [writer EXCEPT ![p].step = step]

InUse(i) == i \in {temporary, destination} \cup {writer[p].inode : p \in Process}

\* The inode that open() creates: the first one nothing refers to.
Fresh(i) == ~InUse(i) /\ \A j \in Inode : j < i => InUse(j)

\* The parent directory cannot be created (or memory runs out: an exception),
\* the file cannot be opened (an early return), or it is created, or truncated
\* where it lies.
OpenTemporary(p) ==
  /\ WriterAt(p, "open")
  /\ \/ /\ Proceed(p, "remove")
        /\ UNCHANGED <<temporary, destination, content>>
     \/ /\ Return(p, "not written")
        /\ UNCHANGED <<temporary, destination, content>>
     \/ \E inode \in Inode :
          /\ IF temporary = Nothing THEN Fresh(inode) ELSE inode = temporary
          /\ temporary' = inode
          /\ content' = [content EXCEPT ![inode] = Empty]
          /\ writer' = [writer EXCEPT ![p] =
               [@ EXCEPT !.step = "stream", !.inode = inode]]
          /\ UNCHANGED destination

\* What bytes of d, from its beginning or from its middle, make of a file.
Added(old, d, begun, extent) ==
  LET continues == old = IF begun THEN Part(d) ELSE Empty
  IN  IF ~continues THEN Torn
      ELSE IF extent = "part" THEN Part(d) ELSE Whole(d)

\* stream << document: the buffer may have to be emptied on the way.
StreamDocument(p) ==
  /\ WriterAt(p, "stream")
  /\ \/ /\ Proceed(p, "close")
        /\ UNCHANGED content
     \/ /\ writer' = [writer EXCEPT ![p] =
             [@ EXCEPT !.step = "close", !.begun = TRUE]]
        /\ content' = [content EXCEPT ![writer[p].inode] =
             Added(@, writer[p].document, FALSE, "part")]
  /\ UNCHANGED <<temporary, destination>>

\* close() flushes; a short write fails the stream.
CloseStream(p) ==
  /\ WriterAt(p, "close")
  /\ \E extent \in {"part", "whole"} :
       /\ Proceed(p, IF extent = "whole" THEN "rename" ELSE "remove")
       /\ content' = [content EXCEPT ![writer[p].inode] =
            Added(@, writer[p].document, writer[p].begun, extent)]
  /\ UNCHANGED <<temporary, destination>>

\* Mutant: the old report is removed first, and renaming is a second step.
RenameOver_RemovesFirst(p) ==
  /\ WriterAt(p, "rename")
  /\ IF destination # Nothing
     THEN /\ destination' = Nothing
          /\ UNCHANGED <<temporary, writer>>
     ELSE /\ destination' = temporary
          /\ temporary' = Nothing
          /\ Return(p, "written")
  /\ UNCHANGED content

\* rename throws when it fails, or when the name is gone.
RenameOver(p) ==
  /\ WriterAt(p, "rename")
  /\ \/ /\ temporary # Nothing
        /\ destination' = temporary
        /\ temporary' = Nothing
        /\ Return(p, "written")
     \/ /\ Proceed(p, "remove")
        /\ UNCHANGED <<temporary, destination>>
  /\ UNCHANGED content

\* Its error is ignored.
RemoveTemporary(p) ==
  /\ WriterAt(p, "remove")
  /\ temporary' \in {Nothing, temporary}
  /\ Return(p, "not written")
  /\ UNCHANGED <<destination, content>>

\* One step of p's call.
WriteStep(p) ==
  \/ OpenTemporary(p) \/ StreamDocument(p) \/ CloseStream(p)
  \/ RenameOver(p) \/ RemoveTemporary(p)

\* The process is gone, and its open file with it.
AbandonWrite(p) ==
  /\ writer' = [writer EXCEPT ![p] =
       [@ EXCEPT !.step = "idle", !.inode = Nothing]]
  /\ UNCHANGED <<temporary, destination, content>>

-----------------------------------------------------------------------------
\* What a reader of run_report.json finds.
Published ==
  IF destination = Nothing THEN Empty ELSE content[destination]
=============================================================================
