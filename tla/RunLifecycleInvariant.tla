------------------------- MODULE RunLifecycleInvariant -------------------------
(***************************************************************************)
(* Why the properties of RunLifecycle hold: what is known of a process and *)
(* of its last call of writeRunReport at each point of its life, and what  *)
(* is in the files at each step of the call.                               *)
(***************************************************************************)
EXTENDS RunLifecycle

\* The latest call has returned.
Reported(p) == writer[p].result \in {"written", "not written"}

\* Nothing has happened yet.
Untouched(p) ==
  /\ exit[p] = "none" /\ ~ printed[p] /\ report[p] = NewReport
  /\ then[p] = "unborn" /\ writer[p].result = "none"

\* The latest call was for the report the process ends with, and was not
\* answered with a success that was none.
WroteFinal(p) ==
  /\ writer[p].document = FinalReport(p)
  /\ exit[p] = "success" => report[p].failure = NoFailure

WroteProvisional(p) == writer[p].document = DocumentOf(p, ProvisionalReport)

\* The three ways to be exiting: having printed, with the exit report still to
\* write, or with the final report written.
ExitKnown(p) ==
  \/ printed[p] /\ ~ armed[p] /\ writer[p].result = "none"
  \/ /\ ~ printed[p] /\ armed[p] /\ writer[p].result = "none"
     /\ exit[p] = "failure" /\ report[p] = NewReport
  \/ /\ ~ printed[p] /\ ~ armed[p] /\ Reported(p) /\ WroteFinal(p)
     /\ then[p] = "exiting"

\* What is known of a process in each phase.
Standing(p) ==
  /\ phase[p] = "unborn" <=> p > started
  /\ ~ Idle(p) <=> phase[p] = "writing"
  /\ phase[p] \in {"unborn", "parse"} => Untouched(p)
  /\ phase[p] = "parse" => armed[p]
  /\ phase[p] \in {"construct", "provisional", "writing", "execute", "terminating"} =>
       ~ armed[p] /\ ~ printed[p]
  /\ phase[p] \in {"construct", "provisional", "execute", "terminating"} => exit[p] = "none"
  /\ phase[p] \in {"construct", "provisional"} => report[p] = NewReport
  /\ phase[p] = "writing" =>
       /\ writer[p].result = "none"
       /\ then[p] \in {"execute", "exiting", "terminating"}
       /\ then[p] \in {"execute", "terminating"} => exit[p] = "none"
       /\ then[p] = "exiting" => exit[p] \in {"success", "failure"}
       /\ then[p] \in {"exiting", "terminating"} => WroteFinal(p)
  /\ phase[p] = "execute" => Reported(p) /\ then[p] = "execute"
  /\ phase[p] = "exiting" => exit[p] \in {"success", "failure"} /\ ExitKnown(p)
  /\ phase[p] = "terminating" => Reported(p) /\ WroteFinal(p)
  /\ phase[p] = "ended" /\ printed[p] => writer[p].result = "none"
  /\ phase[p] = "ended" /\ ~ printed[p] /\ exit[p] # "killed" => Reported(p) /\ WroteFinal(p)
  /\ phase[p] = "ended" => exit[p] # "none"
  /\ then[p] = "execute" =>
       /\ WroteProvisional(p) /\ report[p].failure = NoFailure
       /\ phase[p] \in {"writing", "execute", "ended"}

EarnedBy(p) ==
  /\ phase[p] \in {"writing", "exiting", "ended"}
  /\ then[p] = "exiting"
  /\ exit[p] \in {"success", "killed"}
  /\ report[p].failure = NoFailure

\* The document is that of a process that came so far, and a success it
\* speaks of is earned.
Vouched(d) ==
  /\ phase[d.by] \notin {"unborn", "parse"} /\ ~ printed[d.by]
  /\ d.status = "success" => EarnedBy(d.by)

Authored ==
  \A i \in Inode, d \in ReportDocument :
    content[i] \in {Part(d), Whole(d)} => Vouched(d)

LifeInv ==
  /\ TypeOK
  /\ \A p \in Process : Standing(p)
  /\ Authored

-----------------------------------------------------------------------------
(* Of processes that do not overlap.                                       *)

\* What the open file holds at a step of p's call.
InTheFile(p) ==
  /\ writer[p].step \in {"open", "stream"} => ~ writer[p].begun
  /\ writer[p].step \in {"stream", "close", "rename"} =>
       temporary # Nothing /\ writer[p].inode = temporary
  /\ writer[p].step = "stream" => content[temporary] = Empty
  /\ writer[p].step = "close" =>
       content[temporary] = IF writer[p].begun THEN Part(writer[p].document) ELSE Empty
  /\ writer[p].step = "rename" => content[temporary] = Whole(writer[p].document)

\* The names are of different files, and the report is whole.
TwoFiles ==
  destination # Nothing =>
    /\ destination # temporary
    /\ \E d \in ReportDocument : content[destination] = Whole(d)

\* The latest process, once it has written, has the last word.
LastWord ==
  \A p \in Process : p = started /\ writer[p].result = "written" =>
    destination # Nothing /\ content[destination] = Whole(writer[p].document)

Alone == \A p \in Process : Alive(p) => p = started

SequentialInv ==
  /\ Alone
  /\ TwoFiles
  /\ \A p \in Process : InTheFile(p)
  /\ LastWord
=============================================================================
