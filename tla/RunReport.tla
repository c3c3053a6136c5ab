------------------------------ MODULE RunReport ------------------------------
(***************************************************************************)
(* The run report of one process: what app/src/RunReport.cpp accumulates   *)
(* while a run executes and what it serialises when the run ends.          *)
(*                                                                         *)
(* The report is a value.  The components that own one (the frame loops,   *)
(* the run life cycle) keep it in a variable and update it with the        *)
(* operators below, one per method of class RunReport.                     *)
(*                                                                         *)
(* Milliseconds are natural numbers; 0 stands for "nothing measured", the  *)
(* two cases the throughput rule does not tell apart.  Messages are left   *)
(* out: only the stage of a failure is kept.                               *)
(***************************************************************************)
EXTENDS Naturals

\* The stages addStageMs accumulates; the others are attribution only.
TimedStage == {"model_load", "preprocess", "inference", "postprocess", "render"}

RunStage == TimedStage \cup {"configuration", "source", "unknown"}

\* failure_ is a std::optional whose first value is kept.
NoFailure == "no failure"

Report == [stage     : RunStage,
           ms        : [TimedStage -> Nat],
           samples   : Nat,
           frames    : Nat,
           sawFrames : BOOLEAN,
           suspended : Nat,
           failure   : RunStage \cup {NoFailure}]

\* A constructed report has measured and counted nothing.
NewReport == [stage     |-> "configuration",
              ms        |-> [s \in TimedStage |-> 0],
              samples   |-> 0,
              frames    |-> 0,
              sawFrames |-> FALSE,
              suspended |-> 0,
              failure   |-> NoFailure]

BeginStage(r, stage) == [r EXCEPT !.stage = stage]

\* Negative intervals cannot be formed here: milliseconds is a natural number.
AddStageMs(r, stage, milliseconds) ==
  IF r.suspended > 0 \/ stage \notin TimedStage
  THEN r
  ELSE [r EXCEPT !.ms[stage] = @ + milliseconds]

SuspendTiming(r) == [r EXCEPT !.suspended = @ + 1]

ResumeTiming(r) == [r EXCEPT !.suspended = IF @ > 0 THEN @ - 1 ELSE @]

AddSample(r) == [r EXCEPT !.samples = @ + 1]

AddFrames(r, n) ==
  IF n = 0 THEN r ELSE [r EXCEPT !.sawFrames = TRUE, !.frames = @ + n]

\* The first failure is the one that ended the run.
Fail(r, stage) ==
  IF r.failure # NoFailure THEN r ELSE [r EXCEPT !.failure = stage]

(***************************************************************************)
(* StageTimer: the constructor marks the stage, the destructor adds the    *)
(* interval.  The destructor also runs while an exception unwinds, so work *)
(* that throws inside a timer leaves the same report as work that returns. *)
(***************************************************************************)
Timed(r, stage, milliseconds) ==
  AddStageMs(BeginStage(r, stage), stage, milliseconds)

-----------------------------------------------------------------------------
(***************************************************************************)
(* What toJson publishes.                                                  *)
(***************************************************************************)
Processed(r) == IF r.sawFrames THEN r.frames ELSE r.samples

\* Mutant: a failed run publishes its rate too.
PublishesThroughput_Failed(r) == Processed(r) > 0 /\ r.ms["inference"] > 0

PublishesThroughput(r) ==
  /\ r.failure = NoFailure
  /\ Processed(r) > 0
  /\ r.ms["inference"] > 0

\* Rates are kept as the pair <<numerator, denominator>> of what was divided.
Document(r) ==
  [status     |-> IF r.failure = NoFailure THEN "success" ELSE "failed",
   stage      |-> IF r.failure = NoFailure THEN r.stage ELSE r.failure,
   samples    |-> r.samples,
   throughput |-> IF PublishesThroughput(r)
                  THEN <<Processed(r), r.ms["inference"]>>
                  ELSE <<>>]
=============================================================================
