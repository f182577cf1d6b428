-------------------------- MODULE MCRedisConnection --------------------------
(* Model checking of RedisConnection. *)
EXTENDS RedisConnection
=============================================================================
