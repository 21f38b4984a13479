---------------------------- MODULE RedLockHelper ----------------------------
(***************************************************************************)
(* The pure decisions of the RedLock algorithm: the two thresholds of      *)
(* redlock/helper.rs and the time budget of redlock/timeouts.rs.  They are *)
(* shared by acquisition (over all clients), extension and release (over   *)
(* the clients that were acquired).                                        *)
(***************************************************************************)
EXTENDS Integers

\* Fault: half of the databases counts as a majority.
HalfIsEnough(n) == n \div 2

\* Smallest number of successes that is a majority of n databases.
SuccessThreshold(n) == (n \div 2) + 1

\* Fault: it takes one failure more.
OneFailureMore(n) == (n \div 2) + (n % 2) + 1

\* Number of failures or faults after which the loops give up on n databases.
FailureThreshold(n) == (n \div 2) + (n % 2)

HasSufficientSuccesses(successes, n) == successes >= SuccessThreshold(n)

HasTooManyFailuresOrFaults(failures, n) == failures >= FailureThreshold(n)

\* Fault: the whole expiry may be spent.
SpendAll(expiry, minValidity) == expiry

\* What may be spent acquiring while min_validity of the expiry is left.
AcquireTimeout(expiry, minValidity) ==
    IF expiry > minValidity THEN expiry - minValidity ELSE 0

\* Two quorums that hold the lock exclude each other when one of them may
\* have shrunk to a majority of a majority (an extension of a lock acquired
\* on SuccessThreshold(n) clients asks for a majority of those only).
ExtensionQuorumsIntersect(n) ==
    SuccessThreshold(SuccessThreshold(n)) + SuccessThreshold(n) > n
=============================================================================
