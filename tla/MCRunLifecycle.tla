---------------------------- MODULE MCRunLifecycle ----------------------------
(* Processes one after the other, and two that overlap. *)
EXTENDS RunLifecycleInvariant

Stages == {"model_load", "inference"}
=============================================================================
