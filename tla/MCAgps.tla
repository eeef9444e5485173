------------------------------- MODULE MCAgps -------------------------------
(* Agps with two interchangeable handles.                                  *)
EXTENDS Agps, TLC

CONSTANTS h1, h2

HandleSymmetry == Permutations({h1, h2})
=============================================================================
