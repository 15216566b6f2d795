-------------------------- MODULE MCCaptureCompare --------------------------
(***************************************************************************)
(* The data of a value are interchangeable; its name orders the document.  *)
(***************************************************************************)
EXTENDS CaptureCompare, TLC

Symmetry == Permutations(Data)
=============================================================================
