------------------------------ MODULE RedisLink ------------------------------
(***************************************************************************)
(* What the aggregation of the syslog server may rely on of its connection   *)
(* to Redis: RedisConnection implements this specification, SyslogServer     *)
(* takes its steps as those of the connection.                               *)
(***************************************************************************)
VARIABLES
  link,              \* "up" when connected() holds
  inflight           \* commands were sent and not answered

linkVars == <<link, inflight>>

LinkTypeOK == link \in {"down", "up", "closing"} /\ inflight \in BOOLEAN

Init == link = "down" /\ inflight = FALSE

Connects == link = "down" /\ link' = "up" /\ inflight' = inflight

Sends == link = "up" /\ inflight' = TRUE /\ link' = link

Answers == inflight /\ inflight' = FALSE /\ link' = link

\* A reconnection is due: a link with commands in flight waits for their answers.
Closes ==
  /\ link = "up"
  /\ link' = IF inflight THEN "closing" ELSE "down"
  /\ inflight' = inflight

Closed == link = "closing" /\ ~inflight /\ link' = "down" /\ inflight' = inflight

\* The connection fails. What was in flight is not sent again.
Fails == link # "down" /\ link' = "down" /\ inflight' = FALSE

Next == Connects \/ Sends \/ Answers \/ Closes \/ Closed \/ Fails

Spec == Init /\ [][Next]_linkVars
=============================================================================
