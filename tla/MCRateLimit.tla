---------------------------- MODULE MCRateLimit ----------------------------
(* Model checking of RateLimit. *)
EXTENDS RateLimit

CONSTANTS c1, c2, k1, none

\* Both connections carry requests of the reported key, the first also requests without one.
MCKeysOf == [c \in {c1, c2} |-> IF c = c1 THEN {k1, none} ELSE {k1}]
=============================================================================
