----------------------------- MODULE MCRedisPool -----------------------------
(* Instances of RedisPool for TLC. *)
EXTENDS RedisPool
=============================================================================
