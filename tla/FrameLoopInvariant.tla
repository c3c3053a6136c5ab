-------------------------- MODULE FrameLoopInvariant --------------------------
(***************************************************************************)
(* The inductive invariant behind the theorems of FrameLoopProofs, in      *)
(* named parts: where the loop is, what the window and the Mat in hand     *)
(* show, who holds the sink, and what has been recorded.                   *)
(***************************************************************************)
EXTENDS FrameLoop

\* A window is full and has been asked about when its results are used.
Shape ==
  /\ cfg.mode = "classification" /\ pc \in {"infer", "row", "draw"} =>
       Len(frameBuffer) >= Window /\ frame_index > 0
  /\ pc \in {"row", "draw"} => asked # <<>>

Normal == pc \notin {"unwinding", "caught", "done"}

\* A frame was read and has not gone through the end of its iteration.
InHand == {"convert", "sink", "buffer", "infer", "row", "draw", "write"}

Least(a, b) == IF a <= b THEN a ELSE b

\* Window and processVideo's single frame: how far the counts have come.
Position ==
  /\ pc \in {"open", "timings"} => read = 0
  /\ pc \in InHand \cup {"key"} => read > 0
  /\ Normal => frame_index =
       IF pc \in (IF cfg.mode = "video" THEN InHand
                                       ELSE {"convert", "sink", "buffer"})
       THEN read - 1 ELSE read
  /\ read_to_end => pc \notin {"open", "timings", "read", "key"} \cup InHand
  /\ pc = "tail" => read_to_end \/ read > 0
  /\ cfg.mode = "video" => pc # "buffer" /\ frameBuffer = <<>>

\* The window holds the latest frames, undrawn, and is full when it is used.
WindowContents ==
  cfg.mode = "classification" /\ Normal =>
    /\ Len(frameBuffer) = Least(frame_index,
         IF pc \in {"infer", "row", "draw", "write"} THEN Window ELSE Window - 1)
    /\ pc \in {"infer", "row", "draw"} => frame_index >= Window
    /\ \A k \in DOMAIN frameBuffer :
         frameBuffer[k] = Raw(frame_index - Len(frameBuffer) + k)

\* The Mat shows the frame just read, and once drawn on, what is to be written.
PictureInHand ==
  /\ pc \in InHand \ {"write"} => storage = Raw(read)
  /\ pc \in {"sink", "buffer", "infer", "row", "draw"} => image \in {View, Raw(read)}
  /\ pc = "write" => Pixels(image) = Expected(read)
  /\ pc \in {"row", "draw"} => Result = read

\* The sink is the only way to the writer, and it is released once.
SinkLife ==
  /\ sink = "none" => submitted = <<>> /\ container = "absent" /\ releases = 0
  /\ sink = "open" => container = "open" /\ releases = 0
  /\ sink # "none" => cfg.output
  /\ sink = "released" =>
       /\ pc \in {"draining", "sample", "unwinding", "caught", "done"}
       /\ IF pc = "draining" THEN container = "open" /\ releases = 0
          ELSE container \in {"complete", "incomplete"} /\ releases = 1
  /\ pc = "finish" => sink = "open"
  /\ pc = "draining" => sink = "released"
  /\ pc \in {"open", "timings", "sample", "caught", "done"} => sink # "open"
  /\ container = "absent" => queue = <<>> /\ file = <<>> /\ ~broken
  /\ container \in {"complete", "incomplete"} => queue = <<>>
  /\ container = "complete" => ~broken

\* Every frame read has been submitted, but for the one in hand.
HandedOver ==
  /\ cfg.output /\ Normal /\ sink = "none" =>
       IF pc \in {"convert", "sink"} THEN read = 1 ELSE read = 0
  /\ Normal /\ sink # "none" =>
       Len(submitted) = IF pc \in InHand THEN read - 1 ELSE read
  /\ Succeeded /\ cfg.output => Len(submitted) = read

\* What the report and the CSV say follows the control state.
Recorded ==
  /\ Failed => pc = "done"
  /\ (fault # "none") <=> (pc \in {"unwinding", "caught"} \/ (pc = "done" /\ Failed))
  /\ cfg.csv /\ pc \in {"read", "key", "tail"} \cup InHand => timings = "open"
  /\ cfg.csv /\ (pc \in {"finish", "draining", "sample"} \/ Succeeded) =>
       timings = "flushed"
  /\ cfg.output /\ (pc = "sample" \/ Succeeded) => container = "complete"
  /\ report.samples > 0 => Succeeded /\ read_to_end

\* The pictures on their way and in the file are those of distinct submitted
\* frames, in order.
Stream ==
  /\ NothingLost
  /\ EachFrameOnce
  /\ \A k \in DOMAIN queue : queue[k] = Expected(queue[k].frame)
  /\ \A j, k \in DOMAIN queue : j < k => queue[j].frame < queue[k].frame
  /\ \A j \in DOMAIN file, k \in DOMAIN queue : file[j].frame < queue[k].frame
  /\ \A k \in DOMAIN file : file[k].frame <= Len(submitted)
  /\ \A k \in DOMAIN queue : queue[k].frame <= Len(submitted)

\* The stage on record when a step throws is the step's own, until the catch
\* block makes it the failure.
StageHeld ==
  /\ pc = "convert" => report.stage = "source"
  /\ pc = "draining" => report.stage = "render"
  /\ pc \in {"unwinding", "caught"} /\ fault # "imencode" =>
       report.stage = StageOfFault(fault)
  /\ pc = "done" /\ fault \notin {"none", "imencode"} =>
       report.failure = StageOfFault(fault)

(***************************************************************************)
(* The loop, the Mats it holds, the sink, the encoder and the report agree *)
(* at every step of every run: the strengthening that the properties of    *)
(* FrameLoop follow from and that each step of processVideo and            *)
(* processVideoClassification preserves.                                   *)
(***************************************************************************)
LoopInv ==
  /\ Shape
  /\ Position
  /\ WindowContents
  /\ PictureInHand
  /\ SinkLife
  /\ HandedOver
  /\ Recorded
  /\ StageHeld
  /\ Stream

\* The iteration has passed the row of the frame read, or had none to write.
RowsThrough == IF pc \in {"convert", "sink", "buffer", "infer", "row"} THEN read - 1
               ELSE read

FirstRow == IF cfg.mode = "video" THEN 0 ELSE Window - 1

(***************************************************************************)
(* The CSV has a row for every frame an inference closed on so far, in     *)
(* order (the calls of FrameTimingsCsv::add in both loops).                *)
(***************************************************************************)
RowsSoFar ==
  cfg.csv /\ (Normal \/ Succeeded) =>
    /\ Len(rows) = IF RowsThrough > FirstRow THEN RowsThrough - FirstRow ELSE 0
    /\ \A i \in DOMAIN rows : rows[i] = FirstRow + i - 1

\* The frame read is not counted yet.
Uncounted == {"convert", "sink", IF cfg.mode = "video" THEN "infer" ELSE "buffer"}

(***************************************************************************)
(* The frames counted so far and the inferences measured so far, against   *)
(* each other and the frames read: a video's frame is counted with its     *)
(* inference, a window's when it is read (the calls of addFrames).         *)
(***************************************************************************)
CountsSoFar ==
  /\ report.suspended = 0
  /\ report.sawFrames <=> report.frames > 0
  /\ Normal \/ Succeeded =>
       /\ report.frames = IF pc \in Uncounted THEN read - 1 ELSE read
       /\ IF cfg.mode = "video" THEN report.ms["inference"] = report.frames
          ELSE report.ms["inference"] <= report.frames - (IF pc = "infer" THEN 1 ELSE 0)
=============================================================================
