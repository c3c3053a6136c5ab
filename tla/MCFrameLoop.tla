----------------------------- MODULE MCFrameLoop -----------------------------
(***************************************************************************)
(* Instances of FrameLoop for TLC.  The constants are given in the .cfg    *)
(* files: up to MaxFrames source frames, windows of Window frames, and a   *)
(* queue of QueueCapacity pictures, smaller than the source so that it     *)
(* fills up and writeFrame has to wait.                                    *)
(***************************************************************************)
EXTENDS FrameLoopInvariant
=============================================================================
