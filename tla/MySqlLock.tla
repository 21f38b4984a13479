------------------------------ MODULE MySqlLock ------------------------------
(***************************************************************************)
(* The MySQL mutex: GET_LOCK and RELEASE_LOCK on a session of the pool     *)
(* that the handle keeps for itself.  The lock belongs to the session, so  *)
(* what is not released goes back to the pool with it: a guard releases it *)
(* for a call that is dropped, a spawned task for a handle that is, unless *)
(* their RELEASE_LOCK fails, which nobody is told.                         *)
(***************************************************************************)
EXTENDS Integers, FiniteSets

CONSTANTS
    Sessions,   \* connections of the pool, by their places in it
    Attempts,   \* calls of acquire / try_acquire, each with its handle
    None,       \* no session
    Trying,     \* attempts that call try_acquire
    Timed,      \* attempts whose acquire has a timeout
    Kept        \* attempts whose handle has a keepalive task

VARIABLES
    pool,       \* sessions that wait in the pool
    live,       \* live[s]: the connection is up; a dead one is still somebody's
    depth,      \* depth[s]: times the session has the lock
    pc,         \* pc[a]: where the attempt is
    conn,       \* conn[a]: its session, also the one it leaked its lock on
    lost        \* attempts whose lost token is set

vars == <<pool, live, depth, pc, conn, lost>>

\* "zombie": the guard waits for the answer of the GET_LOCK of a dropped call;
\* "guard": a spawned task has RELEASE_LOCK to run.
Busy      == {"call", "zombie", "guard", "held"}
EndStates == {"busy", "timeout", "failed", "released", "cleaned", "leaked"}

TypeOK ==
    /\ pool \in SUBSET Sessions
    /\ live \in [Sessions -> BOOLEAN]
    /\ depth \in [Sessions -> Nat]
    /\ pc \in [Attempts -> {"idle"} \cup Busy \cup EndStates]
    /\ conn \in [Attempts -> Sessions \cup {None}]
    /\ lost \in SUBSET Attempts

Init ==
    /\ pool = Sessions
    /\ live = [s \in Sessions |-> TRUE]
    /\ depth = [s \in Sessions |-> 0]
    /\ pc = [a \in Attempts |-> "idle"]
    /\ conn = [a \in Attempts |-> None]
    /\ lost = {}

Goto(a, state) == pc' = [pc EXCEPT ![a] = state]
Working(a)     == pc[a] \in Busy
On(a, state)   == pc[a] = state /\ live[conn[a]]

\* The session goes back as it is; a dead one makes room for a new one.
End(a, state) ==
    /\ Goto(a, state)
    /\ pool' = pool \cup {conn[a]}
    /\ live' = [live EXCEPT ![conn[a]] = TRUE]
    /\ conn' = [conn EXCEPT ![a] = IF state = "leaked" THEN @ ELSE None]

Connect(a, s) ==
    /\ pc[a] = "idle" /\ s \in pool
    /\ pool' = pool \ {s}
    /\ conn' = [conn EXCEPT ![a] = s]
    /\ Goto(a, "call")
    /\ UNCHANGED <<live, depth, lost>>

\* No session within the timeout of the pool, or no database.
ConnectFails(a) ==
    /\ pc[a] = "idle"
    /\ Goto(a, "failed")
    /\ UNCHANGED <<pool, live, depth, conn, lost>>

\* A connection breaks and the server frees its lock; one of the pool is
\* replaced before it is used.
Break(s) ==
    /\ live[s] /\ (s \in pool \/ \E a \in Attempts : Working(a) /\ conn[a] = s)
    /\ live' = [live EXCEPT ![s] = s \in pool]
    /\ depth' = [depth EXCEPT ![s] = 0]
    /\ UNCHANGED <<pool, pc, conn, lost>>

-----------------------------------------------------------------------------
\* A session does not wait for itself.
Free(s) == \A other \in Sessions \ {s} : depth[other] = 0

Lock(s)   == depth' = [depth EXCEPT ![s] = @ + 1]
Unlock(s) == depth' = [depth EXCEPT ![s] = IF @ > 0 THEN @ - 1 ELSE 0]

\* Fault: whatever it returns is a handle.
GrantedUnchecked(a) ==
    /\ On(a, "call") /\ (Free(conn[a]) \/ a \in Trying \cup Timed)
    /\ IF Free(conn[a]) THEN Lock(conn[a]) ELSE UNCHANGED depth
    /\ Goto(a, "held")
    /\ UNCHANGED <<pool, live, conn, lost>>

\* GET_LOCK returns 1: a handle.
Granted(a) ==
    /\ On(a, "call") /\ Free(conn[a])
    /\ Lock(conn[a])
    /\ Goto(a, "held")
    /\ UNCHANGED <<pool, live, conn, lost>>

\* It returns 0: the guard is disarmed.
Refused(a) ==
    /\ On(a, "call") /\ ~Free(conn[a])
    /\ \/ a \in Trying /\ End(a, "busy")
       \/ a \in Timed /\ End(a, "timeout")
    /\ UNCHANGED <<depth, lost>>

\* It fails: the guard is dropped with the connection in it.
CallFails(a) ==
    /\ pc[a] = "call"
    /\ Goto(a, "guard")
    /\ UNCHANGED <<pool, live, depth, conn, lost>>

\* The caller drops the future; GET_LOCK is still on its way.
Cancel(a) ==
    /\ On(a, "call")
    /\ Goto(a, "zombie")
    /\ UNCHANGED <<pool, live, depth, conn, lost>>

\* Its answer comes, and is not looked at.
ZombieAnswered(a) ==
    /\ pc[a] = "zombie"
    /\ \/ ~live[conn[a]] /\ UNCHANGED depth
       \/ live[conn[a]] /\ Free(conn[a]) /\ Lock(conn[a])
       \/ live[conn[a]] /\ ~Free(conn[a]) /\ a \in Trying \cup Timed /\ UNCHANGED depth
    /\ Goto(a, "guard")
    /\ UNCHANGED <<pool, live, conn, lost>>

\* Fault: the task only gives the connection back.
GuardReturnsOnly(a) ==
    /\ pc[a] = "guard"
    /\ End(a, "cleaned")
    /\ UNCHANGED <<depth, lost>>

\* The task of the guard or of Drop: RELEASE_LOCK, whether the session has the
\* lock or not, and then the session goes back.
GuardReleases(a) ==
    /\ pc[a] = "guard"
    /\ Unlock(conn[a])
    /\ End(a, "cleaned")
    /\ UNCHANGED lost

\* Its RELEASE_LOCK fails on a connection that stays up (a statement killed or
\* refused by the server): the error is dropped and the session goes back as it is.
GuardFails(a) ==
    /\ On(a, "guard")
    /\ End(a, "leaked")
    /\ UNCHANGED <<depth, lost>>

-----------------------------------------------------------------------------
\* Fault: the task ends without a word.
KeepaliveSilent(a) == FALSE

\* The keepalive query fails on a dead connection.
KeepaliveFails(a) ==
    /\ a \in Kept \ lost
    /\ pc[a] = "held" /\ ~live[conn[a]]
    /\ lost' = lost \cup {a}
    /\ UNCHANGED <<pool, live, depth, pc, conn>>

\* RELEASE_LOCK; the token is set to stop the keepalive task.
Release(a) ==
    /\ pc[a] = "held"
    /\ Unlock(conn[a])
    /\ lost' = lost \cup {a}
    /\ End(a, IF live[conn[a]] THEN "released" ELSE "failed")

\* RELEASE_LOCK fails on a connection that stays up, and release returns the error;
\* or its future is dropped while it waits for the connection (a keepalive query has
\* it) or for its statement to be prepared.  The handle has given its connection
\* away, so that nothing is left to release the lock.
ReleaseLeaks(a) ==
    /\ pc[a] = "held"
    /\ lost' = lost \cup {a}
    /\ End(a, "leaked")
    /\ UNCHANGED depth

\* Drop spawns a task for the release.
DropHandle(a) ==
    /\ pc[a] = "held"
    /\ lost' = lost \cup {a}
    /\ Goto(a, "guard")
    /\ UNCHANGED <<pool, live, depth, conn>>

\* What happens without the caller.
CallStep(a) ==
    \/ \E s \in Sessions : Connect(a, s)
    \/ Granted(a) \/ Refused(a)
    \/ pc[a] = "call" /\ ~live[conn[a]] /\ CallFails(a)
    \/ ZombieAnswered(a) \/ GuardReleases(a) \/ GuardFails(a) \/ KeepaliveFails(a)

Next ==
    \/ \E s \in Sessions : Break(s)
    \/ \E a \in Attempts :
            \/ CallStep(a) \/ ConnectFails(a) \/ CallFails(a) \/ Cancel(a)
            \/ Release(a) \/ ReleaseLeaks(a) \/ DropHandle(a)

Spec == Init /\ [][Next]_vars

-----------------------------------------------------------------------------
\* Sessions are not shared, also not with the pool.
OwnSession ==
    \A a \in Attempts :
        /\ Working(a) => conn[a] \in Sessions \ pool
        /\ \A b \in Attempts : Working(a) /\ Working(b) /\ conn[a] = conn[b] => a = b

\* One session has the lock.
OneOwner == \A s, t \in Sessions : depth[s] > 0 /\ depth[t] > 0 => s = t

\* An open handle has the lock for as long as its connection is up.
HandleOwns == \A a \in Attempts : On(a, "held") => depth[conn[a]] > 0

\* The invariant of the mutex: guards, zombies and releases on sessions that
\* still have the lock of somebody else never take a handle's lock away.
MutexInvariant ==
    /\ TypeOK /\ OwnSession /\ OneOwner /\ HandleOwns
    /\ \A s \in pool : live[s]

\* "Provides exclusive access" (traits.rs), for handles whose connection is up.
ExclusiveWhileConnected ==
    \A a, b \in Attempts : On(a, "held") /\ On(b, "held") => a = b

\* As its caller sees an attempt.
Phase == [a \in Attempts |->
            IF pc[a] = "held" THEN "open" ELSE IF pc[a] \in {"idle", "call"} THEN "waiting" ELSE "closed"]

\* What the lock promises.
Promise == INSTANCE SessionLock
    WITH Shared <- {},
         phase <- Phase,
         holders <- {a \in Attempts : pc[a] = "held" /\ depth[conn[a]] > 0},
         broken <- {a \in Attempts : pc[a] = "held" /\ ~live[conn[a]]}

\* "Provides exclusive access to a resource" (traits.rs), for a lock of a
\* connection: a handle comes with the lock, which no guard, zombie or release of
\* another call takes away.
ImplementsSessionLock == Promise!Spec

\* Those whose lock the session may have: a handle, a task that has RELEASE_LOCK to
\* run, and those whose release failed or was dropped.
Owners(s) == {a \in Attempts : conn[a] = s /\ pc[a] \in {"held", "guard", "leaked"}}

\* A session goes back to the pool with the lock only when a release or the
\* RELEASE_LOCK of a task failed or was dropped, once for each of them: no call that
\* is dropped before, at or after its GET_LOCK, and no handle, leaves one besides.
DepthAccountedFor == \A s \in Sessions : depth[s] <= Cardinality(Owners(s))
=============================================================================
