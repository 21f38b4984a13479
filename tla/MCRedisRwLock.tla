---------------------------- MODULE MCRedisRwLock ----------------------------
(* Two readers that come back for ever, a writer that waits and one that     *)
(* does not.                                                                 *)
EXTENDS RedisRwLock
=============================================================================
