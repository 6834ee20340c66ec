------------------------------- MODULE MCPackages -------------------------------
(* Two platforms, two releases (`dev` and one of a generation), two runs and *)
(* three commits: one to build from, one that records the packages, one that *)
(* changes what they are of.                                                 *)
EXTENDS Packages, TLC

Symmetry == Permutations(Platform) \cup Permutations(Run)
            \cup Permutations(Version)
===============================================================================
