---------------------------- MODULE MCValidationRun ----------------------------
(***************************************************************************)
(* ValidationRun with up to three requests of up to two files each: a      *)
(* repeated request between two of the run's, a request whose              *)
(* preprocessing succeeded and whose result did not, a second file that    *)
(* falls short, and a name taken after another entry's.                    *)
(***************************************************************************)
EXTENDS ValidationRun
=============================================================================
