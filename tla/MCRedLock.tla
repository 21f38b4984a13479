------------------------------ MODULE MCRedLock ------------------------------
(* RedLock on small sets of servers and attempts. *)
EXTENDS RedLockInv, TLC

\* The lock object of an attempt is named after it.
OwnLock == [a \in Attempts |-> a]

\* All attempts go through the same lock object.
OneLock == [a \in Attempts |-> CHOOSE id \in LockIds : TRUE]

AttemptSymmetry == Permutations(Attempts)
=============================================================================
