---------------------------- MODULE MCWeirFilter ----------------------------
(* Model checking of WeirFilter: streams and keys are interchangeable. *)
EXTENDS WeirFilter, TLC

Symmetry == Permutations(Streams) \cup Permutations(Keys)
=============================================================================
