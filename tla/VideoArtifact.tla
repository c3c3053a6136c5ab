---------------------------- MODULE VideoArtifact ----------------------------
(***************************************************************************)
(* What a user of --output_video is promised, without threads, queues or   *)
(* stages: the destination receives the offered frames in order, each at   *)
(* most once; a frame is missing from it only if one was lost; and a run   *)
(* is reported as delivered only with every offered frame in place.        *)
(***************************************************************************)
EXTENDS Naturals, Sequences

VARIABLES
  offered,  \* how many frames were offered: frames 1 .. offered
  stored,   \* the frames in the destination
  lost,     \* some offered frame will never be in the destination
  outcome   \* what the run has reported

vars == <<offered, stored, lost, outcome>>

Last == IF stored = <<>> THEN 0 ELSE stored[Len(stored)]

Init ==
  /\ offered = 0
  /\ stored = <<>>
  /\ lost = FALSE
  /\ outcome = "running"

Offer ==
  /\ outcome = "running"
  /\ offered' = offered + 1
  /\ UNCHANGED <<stored, lost, outcome>>

\* The next offered frame; a later one only once frames were lost.
Store ==
  /\ outcome = "running"
  /\ \E frame \in (Last + 1) .. offered :
       /\ frame = Last + 1 \/ lost
       /\ stored' = Append(stored, frame)
  /\ UNCHANGED <<offered, lost, outcome>>

Lose ==
  /\ outcome = "running"
  /\ Last < offered
  /\ lost' = TRUE
  /\ UNCHANGED <<offered, stored, outcome>>

Deliver ==
  /\ outcome = "running"
  /\ ~lost
  /\ Last = offered
  /\ outcome' = "delivered"
  /\ UNCHANGED <<offered, stored, lost>>

Fail ==
  /\ outcome = "running"
  /\ outcome' = "failed"
  /\ UNCHANGED <<offered, stored, lost>>

Next == Offer \/ Store \/ Lose \/ Deliver \/ Fail

Spec == Init /\ [][Next]_vars
=============================================================================
