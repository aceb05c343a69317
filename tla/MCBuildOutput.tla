----------------------------- MODULE MCBuildOutput -----------------------------
(* Instances of BuildOutput for TLC.                                       *)
EXTENDS BuildOutput, TLC

\* Builds are interchangeable.
Symmetry == Permutations(Build)
===============================================================================
