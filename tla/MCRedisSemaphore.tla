--------------------------- MODULE MCRedisSemaphore ---------------------------
(* RedisSemaphore on small sets of attempts. *)
EXTENDS RedisSemaphore, TLC

=============================================================================
