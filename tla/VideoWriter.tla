----------------------------- MODULE VideoWriter -----------------------------
(***************************************************************************)
(* The asynchronous video writer behind --output_video.                    *)
(*                                                                         *)
(* The writer is not under src/: it is VideoWriterInterface of the         *)
(* videocapture library (v0.6.0).  It is modelled from how                 *)
(* app/src/OutputVideoSink.cpp uses it and from what                       *)
(* app/inc/OutputVideoSink.hpp relies on: it encodes on a thread of its    *)
(* own behind a bounded queue, keeps submission order, drops no frame,     *)
(* makes writeFrame wait when the queue is full, reports a frame that      *)
(* failed to encode through a later writeFrame or through release, and     *)
(* release drains the queue and finalises the container.                   *)
(*                                                                         *)
(* The module gives the actions of both sides; FrameLoop composes them.    *)
(***************************************************************************)
EXTENDS Naturals, Sequences

CONSTANT QueueCapacity  \* frames the encoder holds before writeFrame waits

ASSUME QueueCapacityAssumption == QueueCapacity \in Nat \ {0}

VARIABLES
  queue,      \* pictures accepted by writeFrame and not yet encoded
  file,       \* pictures in the container, in container order
  broken,     \* a picture failed to encode: the next call reports it
  container,  \* the state of the destination file
  releases    \* how often release() returned

writerVars == <<queue, file, broken, container, releases>>

\* A picture is the source frame its pixels come from and the frame whose
\* results are drawn on it, 0 for none.
Picture == [frame : Nat \ {0}, overlay : Nat]

Container == {"absent", "open", "complete", "incomplete"}

WriterTypeOK ==
  /\ queue \in Seq(Picture)
  /\ Len(queue) <= QueueCapacity
  /\ file \in Seq(Picture)
  /\ broken \in BOOLEAN
  /\ container \in Container
  /\ releases \in Nat

WriterInit ==
  /\ queue = <<>>
  /\ file = <<>>
  /\ broken = FALSE
  /\ container = "absent"
  /\ releases = 0

-----------------------------------------------------------------------------
(* Calls of the frame loop.                                                *)

WriterInitialize ==
  /\ container = "absent"
  /\ container' = "open"
  /\ UNCHANGED <<queue, file, broken, releases>>

\* writeFrame returned true: the picture is the encoder's now.
WriterAccept(picture) ==
  /\ container = "open"
  /\ ~broken
  /\ Len(queue) < QueueCapacity
  /\ queue' = Append(queue, picture)
  /\ UNCHANGED <<file, broken, container, releases>>

\* writeFrame returned false: an earlier picture failed to encode.
WriterRefuse ==
  /\ container = "open"
  /\ broken
  /\ UNCHANGED writerVars

\* release() returned: every accepted picture went through the encoder, and
\* the result says whether all of them and the container itself succeeded.
WriterRelease(finalized) ==
  /\ container # "absent"
  /\ queue = <<>>
  /\ container' = IF container = "open"
                  THEN IF finalized /\ ~broken THEN "complete" ELSE "incomplete"
                  ELSE container
  /\ releases' = releases + 1
  /\ UNCHANGED <<queue, file, broken>>

-----------------------------------------------------------------------------
(* Steps of the encoder thread.                                            *)

\* The pixels the encoder finds when it gets to the head of the queue.
WriterEncode(picture) ==
  /\ queue # <<>>
  /\ file' = Append(file, picture)
  /\ queue' = Tail(queue)
  /\ UNCHANGED <<broken, container, releases>>

\* A picture fails to encode.  What becomes of the pictures behind it is the
\* library's choice: the encoder goes on with them or gives them up.
WriterEncodeFails ==
  /\ queue # <<>>
  /\ broken' = TRUE
  /\ queue' \in {Tail(queue), <<>>}
  /\ UNCHANGED <<file, container, releases>>
=============================================================================
