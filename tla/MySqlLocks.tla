------------------------------ MODULE MySqlLocks ------------------------------
(***************************************************************************)
(* The MySQL mutex and reader-writer lock on one pool: handles of the      *)
(* mutex keep sessions that the tries and releases of the other lock need. *)
(***************************************************************************)
EXTENDS Integers, FiniteSets

CONSTANTS Sessions, None, Lockers, Trying, Timed, Kept, Readers, Writers, Patient, RwTimed

ASSUME MySqlAssumption ==
    /\ None \notin Sessions \cup Readers \cup Writers
    /\ IsFiniteSet(Sessions)
    /\ Readers \cap Writers = {} /\ IsFiniteSet(Readers \cup Writers)
    /\ Trying \subseteq Lockers /\ Timed \subseteq Lockers \ Trying /\ Kept \subseteq Lockers
    /\ RwTimed \subseteq Patient /\ Patient \subseteq Readers \cup Writers

VARIABLES pool, live, depth, pc, conn, lost, readers, writer, rowLock, rwPc, txs, overlap

Mutex == INSTANCE MySqlLock WITH Attempts <- Lockers
Rw    == INSTANCE MySqlRwLock WITH Timed <- RwTimed, pc <- rwPc

mutexVars == <<live, depth, pc, conn, lost>>
rwVars    == <<readers, writer, rowLock, rwPc, txs, overlap>>
vars      == <<pool, mutexVars, rwVars>>

Init == Mutex!Init /\ Rw!Init

Next ==
    \/ Mutex!Next /\ UNCHANGED rwVars
    \/ Rw!Next /\ UNCHANGED mutexVars

\* Statements get an answer, the pool hands out its sessions or gives up, and
\* spawned tasks run; callers do what they like with a handle.
Fairness ==
    /\ \A a \in Lockers : WF_vars(pc[a] # "idle" /\ Mutex!CallStep(a) /\ UNCHANGED rwVars)
    /\ \A a \in Rw!Attempts : WF_vars(rwPc[a] # "idle" /\ Rw!CallStep(a) /\ UNCHANGED mutexVars)

Spec == Init /\ [][Next]_vars

FairSpec == Spec /\ Fairness

-----------------------------------------------------------------------------
ExclusiveWhileConnected == Mutex!ExclusiveWhileConnected
ImplementsSessionLock   == Mutex!ImplementsSessionLock
DepthAccountedFor       == Mutex!DepthAccountedFor
ExclusiveUnlessOverlap  == Rw!ExclusiveUnlessOverlap

\* No session is in the hands of both locks, and tries work on sessions that
\* are up.
SessionsApart ==
    /\ \A a \in Lockers : Mutex!Working(a) => conn[a] \notin txs
    /\ \A s \in txs : live[s]

\* A session that is not in the pool is in the hands of somebody who will give it
\* back: no way out of a call, a handle or a task keeps one.
NoSessionLost ==
    \A s \in Sessions \ (pool \cup txs) : \E a \in Lockers : Mutex!Working(a) /\ conn[a] = s

\* The invariant of the two locks on their pool: it is inductive.
PoolInvariant ==
    /\ Mutex!MutexInvariant /\ Rw!RowInvariant /\ SessionsApart /\ NoSessionLost
    /\ Rw!LookStands /\ ExclusiveUnlessOverlap

\* With a keepalive, a handle whose connection broke is told.
LossIsTold ==
    \A a \in Kept : pc[a] = "held" /\ ~live[conn[a]] ~> a \in lost

\* Another session has the lock: that of a handle, of a task that has it to release,
\* or one that went back to the pool with it when a release failed or was dropped.
LockedBy(a, b) ==
    /\ pc[b] \in {"held", "guard", "leaked"}
    /\ conn[b] # conn[a] /\ depth[conn[b]] > 0

\* The row refuses the try because of a handle that excludes it.
RefusedBy(a, b) == Rw!Blocked(a) /\ Rw!Counted(b) /\ Rw!Conflict(a, b)

\* Nobody waits for nobody: a call of either lock returns, or sooner or later there
\* is somebody whose lock keeps it waiting at that moment.
WaitsForSomebody ==
    /\ \A a \in Lockers :
            pc[a] = "call" ~> pc[a] # "call" \/ \E b \in Lockers : LockedBy(a, b)
    /\ \A a \in Patient :
            rwPc[a] = "sleep" ~> \/ rwPc[a] \in {"held"} \cup Rw!EndStates
                                 \/ \E b \in Rw!Attempts : RefusedBy(a, b)
=============================================================================
