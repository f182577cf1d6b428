-------------------------- MODULE MCActiveRequests --------------------------
(* Model checking of ActiveRequests: liveness, hence no symmetry. *)
EXTENDS ActiveRequests
=============================================================================
