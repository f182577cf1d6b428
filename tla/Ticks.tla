------------------------------- MODULE Ticks -------------------------------
(***************************************************************************)
(* HAProxy's wrapping millisecond clock, modelled from how flt_weir.c uses  *)
(* it (tick_add, tick_isset, tick_is_expired): a tick is an unsigned        *)
(* machine word, 0 is TICK_ETERNITY ("not set"), and comparisons look at    *)
(* the sign of the difference, so a tick more than half the range in the    *)
(* past reads as one in the future.                                         *)
(***************************************************************************)
EXTENDS Integers

CONSTANT TickRange  \* number of values of the machine word; 2^32 in the build

ASSUME TickRangeAssumption == TickRange \in Nat /\ TickRange >= 2

Tick == 0 .. TickRange - 1

TICK_ETERNITY == 0

\* tick_add never returns TICK_ETERNITY.
tick_add(t, delay) ==
  LET sum == (t + delay) % TickRange
  IN  IF sum = TICK_ETERNITY THEN 1 ELSE sum

tick_isset(t) == t # TICK_ETERNITY

\* (int)(t - now) <= 0 on a machine word.
tick_is_expired(t, now) ==
  /\ tick_isset(t)
  /\ 2 * ((now - t) % TickRange) <= TickRange

\* The clock one millisecond later.
NextTick(now) == (now + 1) % TickRange
=============================================================================
