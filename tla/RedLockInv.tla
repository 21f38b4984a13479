----------------------------- MODULE RedLockInv ------------------------------
(***************************************************************************)
(* The inductive invariant behind the mutual exclusion of RedLock, and the *)
(* three conditions it needs.  The code guarantees none of the three by    *)
(* itself; README.md says what each of them asks of a deployment.          *)
(***************************************************************************)
EXTENDS RedLock

\* Every acquire goes through a lock object of its own.
DistinctIds == \A a, b \in Attempts : LockOf[a] = LockOf[b] => a = b

\* The runtime returns from an acquire before its keys can expire.
Timely == Budget + Lag < Expiry

\* A majority of a majority meets a majority.
QuorumsMeet == ExtensionQuorumsIntersect(N)

Quorum         == SuccessThreshold(N)
ExtendedQuorum == SuccessThreshold(Quorum)

-----------------------------------------------------------------------------
\* Which phase owns which piece of state.
Bookkeeping ==
    /\ \A a \in Attempts :
        /\ pc[a] = "idle" => acq[a] = {}
        /\ ext[a] # "off" => pc[a] = "held"
        /\ relReq[a] # {} => pc[a] = "releasing"
        /\ lease[a] > 0 => pc[a] = "held"
        /\ lost[a] => ext[a] = "off" /\ pc[a] \notin {"idle", "acquiring"}
        /\ \A s \in Servers :
            /\ s \in acq[a] => setReq[a][s] = "none"
            /\ setReq[a][s] = "true" => pc[a] = "acquiring"
            /\ extReq[a][s] # "none" => ext[a] = "round" /\ s \in acq[a]
    /\ \A s \in Servers : owner[s] # NoId => ttl[s] > 0
    /\ \A a, b \in latest : a = b

\* The key on s is the key of a, and lives for at least `time`.
KeptFor(a, s, time) == owner[s] = LockOf[a] /\ ttl[s] >= time

\* A success that is known to the caller is still worth the time since the
\* commands were spawned.
AcquiredKeysLive ==
    \A a \in Attempts, s \in Servers :
        pc[a] = "acquiring" /\ (s \in acq[a] \/ setReq[a][s] = "true")
            => KeptFor(a, s, Expiry - age[a])

ExtendedKeysLive ==
    \A a \in Attempts, s \in Servers :
        extReq[a][s] \in {"true", "okSeen"} /\ extAge[a] < Budget
            => KeptFor(a, s, Expiry - extAge[a])

\* Acquired keys a handle still owns, and those that outlive its lease.
Owned(a)   == {s \in acq[a] : owner[s] = LockOf[a]}
Backing(a) == {s \in acq[a] : KeptFor(a, s, lease[a])}

AcquiredQuorum == \A a \in Attempts : pc[a] = "held" => Cardinality(acq[a]) >= Quorum

\* A lease rests on a majority of the acquired clients.
LeaseBacked ==
    \A a \in Attempts : lease[a] > 0 => Cardinality(Backing(a)) >= ExtendedQuorum

\* A handle that was followed by another one has lost too many keys for ever:
\* an acquired key that is lost is not set again by the same attempt.
Superseded ==
    \A a \in Attempts : pc[a] = "held" /\ a \notin latest =>
        Cardinality(Owned(a)) < ExtendedQuorum

IInv ==
    /\ TypeOK
    /\ Bookkeeping
    /\ AcquiredKeysLive
    /\ ExtendedKeysLive
    /\ AcquiredQuorum
    /\ LeaseBacked
    /\ Superseded

\* The invariant holds whenever the three conditions do (and TLC evaluates it
\* in the runs where they do).
InductiveInvariant == DistinctIds /\ Timely /\ QuorumsMeet => IInv
=============================================================================
