----------------------------- MODULE RunLifecycle -----------------------------
(***************************************************************************)
(* A process from main() to its end: app/main.cpp, NeuriploInfer::run and  *)
(* the configuration exit report of app/src/RunReport.cpp, over the report *)
(* file they share with the processes before and after them.               *)
(*                                                                         *)
(* Processes are started one after the other in one working directory,     *)
(* and, when Overlap allows it, before the previous one has ended.  Every  *)
(* process may be killed at any point.  What a run does between its        *)
(* provisional and its final report is abstracted to the stages it begins  *)
(* and to how it ends.                                                     *)
(***************************************************************************)
EXTENDS ReportFile

CONSTANTS
  Overlap,       \* a process may start while another one runs
  ReachedStages  \* bound: the stages a run may begin

ASSUME RunLifecycleAssumption ==
  /\ Overlap \in BOOLEAN
  /\ ReachedStages \subseteq RunStage

VARIABLES
  started,  \* how many processes have been started
  phase,    \* where each process is
  then,     \* where its call of writeRunReport returns to
  armed,    \* g_configuration_report_armed
  report,   \* NeuriploInfer::report
  exit,     \* how the process ended
  printed   \* history: the process only printed help or capabilities

processVars == <<started, phase, then, armed, report, exit, printed>>

vars == <<fileVars, processVars>>

\* exiting: std::exit, or the return from main, up to the atexit handlers.
\* terminating: an exception nobody catches.
Phase == {"unborn", "parse", "construct", "provisional", "execute",
          "writing", "exiting", "terminating", "ended"}

Exit == {"none", "success", "failure", "aborted", "killed"}

TypeOK ==
  /\ FileTypeOK
  /\ started \in 0 .. Runs
  /\ phase \in [Process -> Phase]
  /\ then \in [Process -> Phase]
  /\ armed \in [Process -> BOOLEAN]
  /\ report \in [Process -> Report]
  /\ exit \in [Process -> Exit]
  /\ printed \in [Process -> BOOLEAN]

Alive(p) == phase[p] \notin {"unborn", "ended"}

Init ==
  /\ FileInit
  /\ started = 0
  /\ phase = [p \in Process |-> "unborn"]
  /\ then = [p \in Process |-> "unborn"]
  /\ armed = [p \in Process |-> FALSE]
  /\ report = [p \in Process |-> NewReport]
  /\ exit = [p \in Process |-> "none"]
  /\ printed = [p \in Process |-> FALSE]

-----------------------------------------------------------------------------
(* Moves of one process.                                                   *)

At(p, here) == phase[p] = here

Goto(p, there) == phase' = [phase EXCEPT ![p] = there]

\* The report r is written and p goes on at there.
WriteThen(p, r, there) ==
  /\ CallWrite(p, r)
  /\ Goto(p, "writing")
  /\ then' = [then EXCEPT ![p] = there]

\* How the process will have ended once its exit is through.
Exits(p, outcome) == exit' = [exit EXCEPT ![p] = outcome]

disarmConfigurationExitReport(p) == armed' = [armed EXCEPT ![p] = FALSE]

ConfigurationFailure == Fail(NewReport, "configuration")

ProvisionalReport == Fail(NewReport, "unknown")

\* main arms the exit report before it parses the arguments.
Start(p) ==
  /\ p = started + 1
  /\ Overlap \/ \A q \in Process : ~Alive(q)
  /\ started' = p
  /\ Goto(p, "parse")
  /\ armed' = [armed EXCEPT ![p] = TRUE]
  /\ UNCHANGED <<fileVars, then, report, exit, printed>>

-----------------------------------------------------------------------------
(* parseCommandLineArguments.                                              *)

\* --help: not a failed configuration, though it exits with 1.
PrintHelp(p) ==
  /\ At(p, "parse")
  /\ disarmConfigurationExitReport(p)
  /\ Goto(p, "exiting")
  /\ Exits(p, "failure")
  /\ printed' = [printed EXCEPT ![p] = TRUE]
  /\ UNCHANGED <<fileVars, started, then, report>>

\* --capabilities.
PrintCapabilities(p) ==
  /\ At(p, "parse")
  /\ disarmConfigurationExitReport(p)
  /\ Goto(p, "exiting")
  /\ Exits(p, "success")
  /\ printed' = [printed EXCEPT ![p] = TRUE]
  /\ UNCHANGED <<fileVars, started, then, report>>

\* Validation rejects the arguments with std::exit(1): nothing unwinds.
RejectArguments(p) ==
  /\ At(p, "parse")
  /\ Goto(p, "exiting")
  /\ Exits(p, "failure")
  /\ UNCHANGED <<fileVars, started, then, armed, report, printed>>

\* Parsing throws, and main's catch block writes the report itself.
ParseThrows(p) ==
  /\ At(p, "parse")
  /\ disarmConfigurationExitReport(p)
  /\ WriteThen(p, ConfigurationFailure, "exiting")
  /\ Exits(p, "failure")
  /\ UNCHANGED <<started, report, printed>>

Parsed(p) ==
  /\ At(p, "parse")
  /\ disarmConfigurationExitReport(p)
  /\ Goto(p, "construct")
  /\ UNCHANGED <<fileVars, started, then, report, exit, printed>>

-----------------------------------------------------------------------------
(* NeuriploInfer: construction and run.                                    *)

\* Construction throws: main ends the process, or lets it terminate when the
\* exception is not a std::exception.
Construct(p) ==
  /\ At(p, "construct")
  /\ \/ /\ Goto(p, "provisional")
        /\ UNCHANGED <<fileVars, then, exit>>
     \/ /\ WriteThen(p, ConfigurationFailure, "exiting")
        /\ Exits(p, "failure")
     \/ /\ WriteThen(p, ConfigurationFailure, "terminating")
        /\ UNCHANGED exit
  /\ UNCHANGED <<started, armed, report, printed>>

\* Mutant: the run starts without announcing itself.
WriteProvisional_Skipped(p) ==
  /\ At(p, "provisional")
  /\ Goto(p, "execute")
  /\ UNCHANGED <<fileVars, then, started, armed, report, exit, printed>>

WriteProvisional(p) ==
  /\ At(p, "provisional")
  /\ WriteThen(p, ProvisionalReport, "execute")
  /\ UNCHANGED <<started, armed, report, exit, printed>>

BeginWork(p) ==
  /\ At(p, "execute")
  /\ \E stage \in ReachedStages :
       report' = [report EXCEPT ![p] = BeginStage(@, stage)]
  /\ UNCHANGED <<fileVars, started, phase, then, armed, exit, printed>>

\* The report of a run that did not succeed.  Mutant: fail() is forgotten.
FailedReport_NotFailed(r) == r

FailedReport(r) == Fail(r, r.stage)

\* The command returned, with 0 or another code, or something was thrown:
\* the final report is written before the process leaves.
EndRun(p) ==
  /\ At(p, "execute")
  /\ \/ /\ WriteThen(p, report[p], "exiting")
        /\ UNCHANGED report
        /\ Exits(p, "success")
     \/ /\ report' = [report EXCEPT ![p] = FailedReport(@)]
        /\ WriteThen(p, FailedReport(report[p]), "exiting")
        /\ Exits(p, "failure")
     \/ /\ report' = [report EXCEPT ![p] = FailedReport(@)]
        /\ WriteThen(p, FailedReport(report[p]), "terminating")
        /\ UNCHANGED exit
  /\ UNCHANGED <<started, armed, printed>>

-----------------------------------------------------------------------------
(* writeRunReport, the exit hook and the end of the process.               *)

\* A step of the call, and the return from it once it is through.
Writing(p) ==
  /\ At(p, "writing")
  /\ WriteStep(p)
  /\ IF writer'[p].step = "idle" THEN Goto(p, then[p]) ELSE UNCHANGED phase
  /\ UNCHANGED <<started, then, armed, report, exit, printed>>

\* writeConfigurationReportAtExit, the atexit handler.
ExitHook(p) ==
  /\ At(p, "exiting")
  /\ IF armed[p]
     THEN /\ disarmConfigurationExitReport(p)
          /\ WriteThen(p, ConfigurationFailure, "exiting")
     ELSE /\ Goto(p, "ended")
          /\ UNCHANGED <<fileVars, then, armed>>
  /\ UNCHANGED <<started, report, exit, printed>>

\* std::terminate runs no exit handlers.
Terminate(p) ==
  /\ At(p, "terminating")
  /\ Goto(p, "ended")
  /\ Exits(p, "aborted")
  /\ UNCHANGED <<fileVars, started, then, armed, report, printed>>

\* A signal, or the OOM killer, between any two steps.
Killed(p) ==
  /\ Alive(p)
  /\ Goto(p, "ended")
  /\ Exits(p, "killed")
  /\ AbandonWrite(p)
  /\ UNCHANGED <<started, then, armed, report, printed>>

-----------------------------------------------------------------------------
Run(p) ==
  \/ PrintHelp(p) \/ PrintCapabilities(p) \/ RejectArguments(p)
  \/ ParseThrows(p) \/ Parsed(p)
  \/ Construct(p) \/ WriteProvisional(p) \/ BeginWork(p) \/ EndRun(p)
  \/ Writing(p) \/ ExitHook(p) \/ Terminate(p)

AllEnded == started = Runs /\ (\A p \in Process : ~Alive(p)) /\ UNCHANGED vars

Next == (\E p \in Process : Start(p) \/ Run(p) \/ Killed(p)) \/ AllEnded

Spec == Init /\ [][Next]_vars

-----------------------------------------------------------------------------
(* What the processes leave behind.                                        *)

FinalReport(p) ==
  IF exit[p] = "success" \/ report[p].failure # NoFailure
  THEN DocumentOf(p, report[p])
  ELSE DocumentOf(p, ConfigurationFailure)

\* Whoever opens run_report.json, whenever he does and whoever is being killed,
\* finds no report or one whole report: never an empty file, never the
\* beginning of one ("a reader never sees a partial document",
\* RunReport.cpp:214).
ReaderSeesWhole ==
  destination # Nothing =>
    \E d \in ReportDocument : content[destination] = Whole(d)

\* The process that ended last and says it wrote its report left its own,
\* which says success exactly when its exit code did, and otherwise names the
\* stage it died in: configuration for one that never ran.
OutcomeIsPublished ==
  \A p \in Process :
    p = started /\ phase[p] = "ended" /\ exit[p] # "killed" /\ writer[p].result = "written"
      => /\ Published = Whole(FinalReport(p))
         /\ FinalReport(p).status = "success" <=> exit[p] = "success"

\* While a run is at work its report is its own provisional failure, whatever
\* an earlier run had left, and that is what remains if it is killed or dies of
\* a signal there (RunReport.hpp:131-137).
RunAtWorkShowsFailure ==
  \A p \in Process :
    /\ p = started
    /\ \/ phase[p] = "execute" /\ writer[p].result # "not written"
       \/ exit[p] = "killed" /\ then[p] = "execute" /\ writer[p].result = "written"
    => Published = Whole(DocumentOf(p, ProvisionalReport))

\* A success that a reader finds is that of a process whose command returned 0:
\* no crash, exit path or leftover temporary file makes one up.
SuccessIsEarned ==
  \A d \in ReportDocument :
    Published = Whole(d) /\ d.status = "success" =>
      /\ exit[d.by] \in {"success", "killed"}
      /\ report[d.by].failure = NoFailure
      /\ then[d.by] = "exiting"

\* A process that printed its help or its capabilities wrote no report, nor
\* the beginning of one: the report of the run before it stays.
HelpTouchesNothing ==
  \A p \in Process : printed[p] =>
    \A i \in Inode, d \in ReportDocument :
      d.by = p => content[i] \notin {Part(d), Whole(d)}

\* Every other process that ends by itself has tried to say why, however it
\* ended: std::exit from the parser, an exception, a return code, termination.
EveryEndIsReported ==
  \A p \in Process :
    exit[p] \in {"success", "failure", "aborted"} /\ phase[p] = "ended" /\ ~printed[p]
      => writer[p].result \in {"written", "not written"}

\* The directory entries, the open files, the short writes and the kills
\* implement a register that a call replaces as a whole or leaves.
Register ==
  INSTANCE AtomicReport WITH
    register <- IF destination = Nothing THEN [by |-> "nobody"]
                ELSE IF content[destination].extent = "whole"
                THEN content[destination].document ELSE content[destination],
    call <- [p \in Process |-> [active   |-> ~Idle(p),
                                document |-> writer[p].document,
                                result   |-> writer[p].result]]

ReportIsARegister == Register!Spec
=============================================================================
