-------------------------- MODULE MCDesktopSession --------------------------
(***************************************************************************)
(* Instances of DesktopSession for model checking.                         *)
(***************************************************************************)
EXTENDS SessionRefinement, TLC

\* Processes are interchangeable, and so are the names a process can draw.
Symmetry == Permutations(Instances) \union Permutations(Sessions)
=============================================================================
