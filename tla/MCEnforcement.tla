---------------------------- MODULE MCEnforcement ----------------------------
(* Model checking of Enforcement: pool threads are interchangeable, and so are the users *)
(* whose keys are accepted.                                                             *)
EXTENDS Enforcement, TLC

Symmetry == Permutations(Workers) \cup Permutations(Users \ Invalid)
=============================================================================
