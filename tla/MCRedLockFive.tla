---------------------------- MODULE MCRedLockFive ----------------------------
(* RedLock on five servers, looking for two holders.  The search is cut down *)
(* to the behaviours in which one attempt holds the lock before the other    *)
(* one starts: what it finds there is a behaviour of RedLock.                *)
EXTENDS MCRedLock

CONSTANT First  \* the attempt that acquires first

FirstHolds == \A a \in Attempts \ {First} : pc[a] = "idle" \/ pc[First] = "held"
=============================================================================
