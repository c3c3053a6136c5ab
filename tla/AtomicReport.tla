----------------------------- MODULE AtomicReport -----------------------------
(***************************************************************************)
(* What writeRunReport promises (app/inc/RunReport.hpp and the comment in   *)
(* its body): run_report.json is a register.  A call replaces its whole    *)
(* document at one moment between its start and its end, or leaves it as   *)
(* it is; what the call returns says which; a process that dies inside its *)
(* call has done one or the other.                                         *)
(***************************************************************************)
CONSTANTS
  Process,
  ReportDocument

VARIABLES
  register,  \* the document a reader finds, or Absent
  call       \* each process's latest call

Absent == [by |-> "nobody"]

Begin(p) ==
  /\ ~call[p].active
  /\ \E d \in ReportDocument :
       call' = [call EXCEPT ![p] =
         [active |-> TRUE, document |-> d, result |-> "none"]]
  /\ UNCHANGED register

Ends(p, result) ==
  call' = [call EXCEPT ![p] =
    [active |-> FALSE, document |-> @.document, result |-> result]]

Publish(p) ==
  /\ call[p].active
  /\ register' = call[p].document
  /\ Ends(p, "written")

Leave(p) ==
  /\ call[p].active
  /\ Ends(p, "not written")
  /\ UNCHANGED register

Die(p) ==
  /\ Ends(p, call[p].result)
  /\ UNCHANGED register

Init ==
  /\ register = Absent
  /\ \E d \in ReportDocument :
       call = [p \in Process |->
         [active |-> FALSE, document |-> d, result |-> "none"]]

Next == \E p \in Process : Begin(p) \/ Publish(p) \/ Leave(p) \/ Die(p)

Spec == Init /\ [][Next]_<<register, call>>
=============================================================================
