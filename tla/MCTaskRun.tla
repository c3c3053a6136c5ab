------------------------------- MODULE MCTaskRun -------------------------------
(***************************************************************************)
(* TaskRun over every accepted command line with up to three sources.      *)
(* Three sources give two pairs of optical flow; two rounds of warmup and  *)
(* of the benchmark let a round throw after one that did not.              *)
(***************************************************************************)
EXTENDS TaskRun
=============================================================================
