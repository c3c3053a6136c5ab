---------------------------- MODULE MCCapabilities ----------------------------
(***************************************************************************)
(* DocumentUse over the command lines of MCCommandLine, and over every     *)
(* line a consumer composes with one picture and a clip, one file for      *)
(* weights, labels and vocabularies, one text, and numbers at the ends of  *)
(* the ranges.                                                             *)
(***************************************************************************)
EXTENDS MCCommandLine, DocumentUse

MCShapes == {<<<<Number(3), Number(224), Number(224)>>>>}
=============================================================================
