---------------------------- MODULE MCLimitShare ----------------------------
(* Model checking of LimitShare. *)
EXTENDS LimitShare, TLC

CONSTANTS k1, kZero, i1, i2

MCLimit == k1 :> 5 @@ kZero :> 0

MCCountsOf ==
  k1 :> (i1 :> {0, 2} @@ i2 :> {0, 1}) @@ kZero :> (i1 :> {0, 1} @@ i2 :> {0})
=============================================================================
