----------------------------- MODULE PostgresLock -----------------------------
(***************************************************************************)
(* The PostgreSQL mutex and reader-writer lock on one key: advisory locks  *)
(* of the sessions of a pool, of session or of transaction scope.  The     *)
(* mutex is the exclusive mode of the same lock.                           *)
(*                                                                         *)
(* An attempt is a call and its handle.  It has a session of the pool to   *)
(* itself; what it leaves on the session is there for the next one.        *)
(***************************************************************************)
EXTENDS Integers, FiniteSets

CONSTANTS
    Sessions,   \* connections of the pool, by their places in it
    Attempts,   \* calls of acquire*, try_acquire*, each with its handle
    None,       \* no session
    Shared,     \* attempts that read; the others write, or take the mutex
    Xact,       \* attempts through an object built with use_transaction
    Trying,     \* attempts that call try_acquire*
    Timed,      \* attempts whose acquire has a timeout
    Timeout,    \* Timeout[a]: that timeout, in units of the clock
    Milli       \* units of the clock in a millisecond

ASSUME PostgresAssumption ==
    /\ None \notin Sessions
    /\ Shared \subseteq Attempts /\ Xact \subseteq Attempts
    /\ Trying \subseteq Attempts /\ Timed \subseteq Attempts \ Trying
    /\ Timeout \in [Timed -> Nat]
    /\ Milli \in Nat \ {0}

VARIABLES
    pool,       \* sessions that wait in the pool
    live,       \* live[s]: the connection is up; a dead one is still somebody's
    tx,         \* tx[s]: the transaction of the session
    level,      \* level[s][m]: times the session holds the lock at session level
    xlocks,     \* xlocks[s]: modes its transaction holds the lock in
    pc,         \* pc[a]: where the attempt is
    conn        \* conn[a]: its session, also the one it ended on badly

server == <<tx, level, xlocks>>
vars   == <<pool, live, server, pc, conn>>

Modes     == {"shared", "exclusive"}
Mode(a)   == IF a \in Shared THEN "shared" ELSE "exclusive"

\* refused: the lock is not to be had, or an error, and all that was begun is
\* rolled back; failed: a statement failed that nothing makes good; uncommitted
\* and unreleased: COMMIT or the unlock failed.
EndStates == {"refused", "failed", "uncommitted", "released", "unreleased",
              "dropped", "cancelled"}
Busy == {"prepare", "wait", "undo", "rollback", "commit", "try", "held", "zombie"}

TypeOK ==
    /\ pool \in SUBSET Sessions
    /\ live \in [Sessions -> BOOLEAN]
    /\ tx \in [Sessions -> {"none", "open", "aborted"}]
    /\ level \in [Sessions -> [Modes -> Nat]]
    /\ xlocks \in [Sessions -> SUBSET Modes]
    /\ pc \in [Attempts -> {"idle"} \cup Busy \cup EndStates]
    /\ conn \in [Attempts -> Sessions \cup {None}]

Unlocked == [m \in Modes |-> 0]

Init ==
    /\ pool = Sessions
    /\ live = [s \in Sessions |-> TRUE]
    /\ tx = [s \in Sessions |-> "none"]
    /\ level = [s \in Sessions |-> Unlocked]
    /\ xlocks = [s \in Sessions |-> {}]
    /\ pc = [a \in Attempts |-> "idle"]
    /\ conn = [a \in Attempts |-> None]

Goto(a, state) == pc' = [pc EXCEPT ![a] = state]

-----------------------------------------------------------------------------
(* The server: what statements do to a session.                            *)

Locked(s, m) == level[s][m] > 0 \/ m \in xlocks[s]

\* A session never waits for itself.
CanLock(s, m) ==
    \A other \in Sessions \ {s} :
        ~Locked(other, "exclusive") /\ (m = "exclusive" => ~Locked(other, "shared"))

\* The lock function of the attempt: session level counts, and outlives the
\* transaction it is taken in.
TakeLock(a) ==
    IF a \in Xact
       THEN /\ xlocks' = [xlocks EXCEPT ![conn[a]] = @ \cup {Mode(a)}]
            /\ UNCHANGED level
       ELSE /\ level' = [level EXCEPT ![conn[a]][Mode(a)] = @ + 1]
            /\ UNCHANGED xlocks

\* COMMIT or ROLLBACK.
EndTx(s) == tx' = [tx EXCEPT ![s] = "none"] /\ xlocks' = [xlocks EXCEPT ![s] = {}]

\* An error in a transaction: only a ROLLBACK is accepted after it, and the locks
\* taken since the last savepoint are gone at once.  (Which these are is left
\* open: savepoints of older transactions are not kept track of.)
Abort(s) ==
    /\ tx' = [tx EXCEPT ![s] = "aborted"]
    /\ \E kept \in SUBSET xlocks[s] :
        /\ tx[s] = "aborted" => kept = xlocks[s]
        /\ xlocks' = [xlocks EXCEPT ![s] = kept]

\* A statement fails, in a transaction or outside of one.
StatementFails(s) == IF tx[s] = "none" THEN UNCHANGED <<tx, xlocks>> ELSE Abort(s)

\* The server forgets a session that is gone.
Forget(s) == EndTx(s) /\ level' = [level EXCEPT ![s] = Unlocked]

-----------------------------------------------------------------------------
(* The pool.                                                               *)

\* The attempt ends and its session goes back as it is; a dead one makes room
\* for a new one.
End(a, state) ==
    /\ Goto(a, state)
    /\ pool' = pool \cup {conn[a]}
    /\ live' = [live EXCEPT ![conn[a]] = TRUE]
    /\ conn' = [conn EXCEPT ![a] = IF state \in {"released", "refused"} THEN None ELSE @]

\* A call has its session to itself: no step of the pool.
Keep == UNCHANGED <<pool, live, conn>>

On(a, states) == pc[a] \in states /\ live[conn[a]]

Connect(a, s) ==
    /\ pc[a] = "idle" /\ s \in pool
    /\ pool' = pool \ {s}
    /\ conn' = [conn EXCEPT ![a] = s]
    /\ Goto(a, IF a \in Trying THEN "try" ELSE "prepare")
    /\ UNCHANGED <<live, server>>

\* The pool is exhausted for too long, or the database is out of reach.
ConnectFails(a) ==
    /\ pc[a] = "idle"
    /\ Goto(a, "failed")
    /\ UNCHANGED <<pool, live, server, conn>>

\* A connection breaks.  One in the pool is found out before it is used and
\* replaced; nobody tells a handle.
Break(s) ==
    /\ live[s]
    /\ live' = [live EXCEPT ![s] = s \in pool]
    /\ Forget(s)
    /\ UNCHANGED <<pool, pc, conn>>

-----------------------------------------------------------------------------
(* acquire, acquire_read, acquire_write                                    *)

\* Fault: the timeout in seconds.
RoundedDown(a) == IF a \in Timed THEN Timeout[a] \div (Milli * Milli) ELSE 0

\* as_millis, rounded down; 0, also of no timeout, is no lock_timeout at all.
LockTimeout(a) == IF a \in Timed THEN Timeout[a] \div Milli ELSE 0

\* BEGIN (a warning in a transaction that is open), SAVEPOINT, SET LOCAL.
Prepare(a) ==
    /\ On(a, {"prepare"}) /\ tx[conn[a]] # "aborted"
    /\ tx' = [tx EXCEPT ![conn[a]] = "open"]
    /\ Goto(a, "wait") /\ Keep
    /\ UNCHANGED <<level, xlocks>>

\* BEGIN fails, as it always does in an aborted transaction; or SAVEPOINT fails
\* in the transaction that is open by then.  Nothing is rolled back.
PrepareFails(a) ==
    /\ On(a, {"prepare"})
    /\ \/ tx[conn[a]] # "open" /\ UNCHANGED <<tx, xlocks>>
       \/ tx[conn[a]] # "aborted" /\ Abort(conn[a])
    /\ End(a, "failed")
    /\ UNCHANGED level

\* SET LOCAL fails (a value out of the range of lock_timeout).
SetRefused(a) ==
    /\ On(a, {"prepare"}) /\ tx[conn[a]] # "aborted"
    /\ tx' = [tx EXCEPT ![conn[a]] = "aborted"]
    /\ Goto(a, "undo") /\ Keep
    /\ UNCHANGED <<level, xlocks>>

\* Fault: COMMIT for locks of either scope.
CommitAll(a) ==
    /\ On(a, {"wait"}) /\ CanLock(conn[a], Mode(a))
    /\ IF a \in Xact
          THEN EndTx(conn[a]) /\ UNCHANGED level
          ELSE TakeLock(a) /\ UNCHANGED tx
    /\ Goto(a, IF a \in Xact THEN "held" ELSE "commit") /\ Keep

\* The lock function returns.
LockGranted(a) ==
    /\ On(a, {"wait"}) /\ CanLock(conn[a], Mode(a))
    /\ TakeLock(a)
    /\ Goto(a, IF a \in Xact THEN "held" ELSE "commit") /\ Keep
    /\ UNCHANGED tx

\* COMMIT, for a session lock only: it ends what is left of older transactions.
Commit(a) ==
    /\ On(a, {"commit"})
    /\ EndTx(conn[a])
    /\ Goto(a, "held") /\ Keep
    /\ UNCHANGED level

\* COMMIT fails on a connection that is up: the call ends with an error, and the
\* lock stays, being one of the session.
CommitFails(a) ==
    /\ On(a, {"commit"})
    /\ EndTx(conn[a]) \/ Abort(conn[a])
    /\ End(a, "uncommitted")
    /\ UNCHANGED level

\* lock_timeout passes, or the lock function fails (a deadlock, no memory): the
\* locks from before the savepoint are kept.
LockRefused(a) ==
    /\ On(a, {"wait"})
    /\ tx' = [tx EXCEPT ![conn[a]] = "aborted"]
    /\ Goto(a, "undo") /\ Keep
    /\ UNCHANGED <<level, xlocks>>

\* Fault: the savepoint is for session locks only.
UndoSessionOnly(a) ==
    /\ On(a, {"undo"})
    /\ tx' = IF a \in Xact THEN tx ELSE [tx EXCEPT ![conn[a]] = "open"]
    /\ IF a \in Xact THEN End(a, "refused") ELSE Goto(a, "rollback") /\ Keep
    /\ UNCHANGED <<level, xlocks>>

\* ROLLBACK TO SAVEPOINT, then ROLLBACK unless the lock is one of a transaction.
Undo(a) ==
    /\ On(a, {"undo"})
    /\ tx' = [tx EXCEPT ![conn[a]] = "open"]
    /\ IF a \in Xact THEN End(a, "refused") ELSE Goto(a, "rollback") /\ Keep
    /\ UNCHANGED <<level, xlocks>>

\* Its error is swallowed.
UndoFails(a) ==
    /\ On(a, {"undo"})
    /\ IF a \in Xact THEN End(a, "failed") ELSE Goto(a, "rollback") /\ Keep
    /\ UNCHANGED server

\* The last ROLLBACK of a call that was refused, also of a try; its error is
\* swallowed too.
Rollback(a) ==
    /\ On(a, {"rollback"})
    /\ \/ EndTx(conn[a]) /\ End(a, "refused")
       \/ Abort(conn[a]) /\ End(a, "failed")
    /\ UNCHANGED level

-----------------------------------------------------------------------------
(* try_acquire, try_acquire_read, try_acquire_write                        *)

\* BEGIN for a transaction lock, the try function, and ROLLBACK when it says no.
Try(a) ==
    /\ On(a, {"try"}) /\ tx[conn[a]] # "aborted"
    /\ tx' = IF a \in Xact THEN [tx EXCEPT ![conn[a]] = "open"] ELSE tx
    /\ IF CanLock(conn[a], Mode(a))
          THEN TakeLock(a) /\ Goto(a, "held") /\ Keep
          ELSE /\ IF a \in Xact THEN Goto(a, "rollback") /\ Keep ELSE End(a, "refused")
               /\ UNCHANGED <<level, xlocks>>

\* BEGIN or the try function fails: nothing is rolled back, and a transaction
\* that is open is aborted by it.
TryFails(a) ==
    /\ On(a, {"try"})
    /\ StatementFails(conn[a]) \/ (a \in Xact /\ Abort(conn[a]))
    /\ End(a, "failed")
    /\ UNCHANGED level

-----------------------------------------------------------------------------
(* The end of a call or of a handle.                                       *)

\* A statement finds its connection dead.
CallFails(a) ==
    /\ pc[a] \in Busy \ {"held"} /\ ~live[conn[a]]
    /\ End(a, IF pc[a] = "zombie" THEN "cancelled" ELSE "failed")
    /\ UNCHANGED server

\* The caller drops the future of the call.  A statement on its way may begin a
\* transaction; one that waits for the lock goes on waiting in the pool's care; one
\* that was to roll back may never be sent.  (A try, COMMIT, SAVEPOINT, SET LOCAL
\* or ROLLBACK that is carried out all the same, or fails, leaves the session as
\* its own action and the end of its call do.)
Cancel(a) ==
    /\ On(a, {"prepare", "wait", "undo", "rollback", "commit", "try"})
    /\ \/ UNCHANGED tx
       \/ /\ tx[conn[a]] # "aborted" /\ (pc[a] = "prepare" \/ (pc[a] = "try" /\ a \in Xact))
          /\ tx' = [tx EXCEPT ![conn[a]] = "open"]
    /\ IF pc[a] = "wait"
          THEN Goto(a, "zombie") /\ Keep
          ELSE End(a, "cancelled")
    /\ UNCHANGED <<level, xlocks>>

\* Nobody waits any more, and the session goes back to the pool with the lock.
ZombieGranted(a) ==
    /\ On(a, {"zombie"}) /\ CanLock(conn[a], Mode(a))
    /\ TakeLock(a)
    /\ End(a, "cancelled")
    /\ UNCHANGED tx

\* The answer is an error: the pool closes the connection.
ZombieClosed(a) ==
    /\ On(a, {"zombie"})
    /\ Forget(conn[a])
    /\ End(a, "cancelled")

\* Fault: readers unlock with the function for writers.
UnlockExclusive(a) ==
    /\ pc[a] = "held"
    /\ IF a \in Xact
          THEN EndTx(conn[a]) /\ UNCHANGED level
          ELSE /\ level' = [level EXCEPT ![conn[a]]["exclusive"] = IF @ > 0 THEN @ - 1 ELSE 0]
               /\ UNCHANGED <<tx, xlocks>>
    /\ End(a, "released")

\* Fault: the pool is trusted to roll a transaction back.
TrustsPool(a) ==
    /\ pc[a] = "held"
    /\ IF a \in Xact
          THEN UNCHANGED level
          ELSE level' = [level EXCEPT ![conn[a]][Mode(a)] = IF @ > 0 THEN @ - 1 ELSE 0]
    /\ UNCHANGED <<tx, xlocks>>
    /\ End(a, "released")

\* ROLLBACK, or the unlock function of the mode; the error of a dead connection is
\* swallowed.
Release(a) ==
    /\ pc[a] = "held"
    /\ IF a \in Xact
          THEN EndTx(conn[a]) /\ UNCHANGED level
          ELSE /\ level' = [level EXCEPT ![conn[a]][Mode(a)] = IF @ > 0 THEN @ - 1 ELSE 0]
               /\ UNCHANGED <<tx, xlocks>>
    /\ End(a, "released")

\* So is the error of a live one: release is Ok, and the session goes to the pool
\* with its lock, or what an aborted transaction kept of it.
ReleaseFails(a) ==
    /\ On(a, {"held"})
    /\ StatementFails(conn[a])
    /\ End(a, "unreleased")
    /\ UNCHANGED level

\* Drop only aborts the monitor; also the future of release, dropped before its
\* statement was sent.
DropHandle(a) ==
    /\ pc[a] = "held"
    /\ End(a, "dropped")
    /\ UNCHANGED server

-----------------------------------------------------------------------------
CallStep(a) ==
    \/ \E s \in Sessions : Connect(a, s)
    \/ Prepare(a) \/ PrepareFails(a) \/ SetRefused(a)
    \/ LockGranted(a) \/ Commit(a) \/ CommitFails(a)
    \/ (LockTimeout(a) > 0 /\ LockRefused(a))
    \/ Undo(a) \/ UndoFails(a) \/ Rollback(a)
    \/ Try(a) \/ TryFails(a) \/ CallFails(a) \/ ZombieGranted(a)

Next ==
    \/ \E s \in Sessions : Break(s)
    \/ \E a \in Attempts :
            \/ CallStep(a) \/ ConnectFails(a) \/ LockRefused(a)
            \/ Cancel(a) \/ ZombieClosed(a) \/ Release(a) \/ ReleaseFails(a) \/ DropHandle(a)

Spec == Init /\ [][Next]_vars

-----------------------------------------------------------------------------
Working(a) == pc[a] \in Busy

\* Sessions are not shared, also not with the pool.
OwnSession ==
    \A a \in Attempts :
        /\ Working(a) => conn[a] \in Sessions \ pool
        /\ \A b \in Attempts : Working(a) /\ Working(b) /\ conn[a] = conn[b] => a = b

\* A session that is not in the pool is in the hands of somebody who will give it
\* back: no way out of a call or a handle keeps one.
NoSessionLost == \A s \in Sessions \ pool : \E a \in Attempts : Working(a) /\ conn[a] = s

\* The server's side: what two sessions hold is compatible.
ServerExclusive ==
    \A s, t \in Sessions, m \in Modes :
        Locked(s, "exclusive") /\ Locked(t, m) => s = t

\* The server has the lock of the handle on its session.
HasLock(a) ==
    IF a \in Xact THEN Mode(a) \in xlocks[conn[a]] ELSE level[conn[a]][Mode(a)] > 0

\* An open handle has its lock for as long as its connection is up, in the
\* transaction it began or at the level that survives transactions, whatever was
\* left on the session by others and however their calls ended.
HandleHasLock ==
    \A a \in Attempts :
        /\ pc[a] \in {"commit", "held"} /\ live[conn[a]]
        => HasLock(a)

\* A transaction lock is held in a transaction.
LocksInTx == \A s \in Sessions : xlocks[s] # {} => tx[s] # "none"

\* The transaction of a session lock is what COMMIT ends.
CommitsSessionLocks == \A a \in Attempts : pc[a] = "commit" => a \notin Xact

\* The lock function is called in a transaction.
WaitsInTx ==
    \A a \in Attempts :
        pc[a] \in {"wait", "zombie"} /\ live[conn[a]] => tx[conn[a]] # "none"

\* The invariant of sessions and handles.
PostgresInvariant ==
    /\ TypeOK
    /\ OwnSession
    /\ NoSessionLost
    /\ ServerExclusive
    /\ HandleHasLock
    /\ LocksInTx
    /\ CommitsSessionLocks
    /\ WaitsInTx
    /\ \A s \in pool : live[s]

\* "Only one writer can hold the lock (no readers or other writers)"
\* (traits.rs), and the same of the mutex, for handles whose connection is up:
\* the others are not told.
ExclusiveWhileConnected ==
    \A a, b \in Attempts :
        /\ pc[a] = "held" /\ live[conn[a]] /\ a \notin Shared
        /\ pc[b] = "held" /\ live[conn[b]]
        => a = b

\* As its caller sees an attempt.
Phase == [a \in Attempts |->
            IF pc[a] = "held" THEN "open"
            ELSE IF pc[a] \in {"idle", "prepare", "wait", "undo", "rollback", "commit", "try"}
                 THEN "waiting"
            ELSE "closed"]

\* What the locks promise, of either scope and with each other.
Promise == INSTANCE SessionLock
    WITH phase <- Phase,
         holders <- {a \in Attempts : pc[a] = "held" /\ HasLock(a)},
         broken <- {a \in Attempts : pc[a] = "held" /\ ~live[conn[a]]}

\* "Provides exclusive access to a resource" and "Only one writer can hold the lock"
\* (traits.rs), for a lock of a connection: a handle comes with its lock, which
\* nobody else's statement, commit, rollback or release takes away.
ImplementsSessionLock == Promise!Spec

\* The attempts that may have put a lock on their session and did not take it
\* back: open handles, handles that were dropped or whose unlock failed, calls
\* that were dropped or whose COMMIT failed.
Keepers == {a \in Attempts : pc[a] \in {"commit", "held", "dropped", "cancelled",
                                        "uncommitted", "unreleased"}}

Owners(s, m, scope) == {a \in scope \cap Keepers : conn[a] = s /\ Mode(a) = m}

\* A lock that no open handle has is left on a session by one of four things, one
\* lock each: a handle was dropped, a call was cancelled, COMMIT failed after the
\* lock was granted, or the error of an unlock was swallowed.  Releases on a
\* session that others left locked take back what is theirs; refusals, timeouts,
\* tries and other failures leave nothing.
LocksAccountedFor ==
    \A s \in Sessions, m \in Modes :
        /\ level[s][m] <= Cardinality(Owners(s, m, Attempts \ Xact))
        /\ m \in xlocks[s] => Owners(s, m, Xact) # {}

\* "We always use a savepoint to robustly handle errors without aborting the main
\* transaction" (lock.rs): what refuses every later statement of a session is an
\* aborted transaction.  One is there while a call undoes its own, and is left by
\* a statement that failed, the undoing ones included, or by a call or handle
\* that was cut short.  A call that was refused and undone, a release that worked
\* and a handle that was dropped never leave one.
AbortedAccountedFor ==
    \A s \in Sessions :
        tx[s] = "aborted" =>
            \E a \in Attempts :
                /\ conn[a] = s
                /\ pc[a] \in {"undo", "rollback", "failed", "uncommitted", "unreleased", "cancelled"}

\* Statements get an answer and the pool hands out its sessions; callers do what
\* they like with a handle.
Fairness == \A a \in Attempts : WF_vars(pc[a] # "idle" /\ CallStep(a))

FairSpec == Spec /\ Fairness

\* With a timeout of a millisecond or more a call that has its connection comes
\* back, whoever holds the lock, its rollbacks included; one below is no timeout.
TimedAcquireReturns ==
    \A a \in Timed :
        pc[a] = "prepare" /\ Timeout[a] >= Milli ~> pc[a] \in {"held", "zombie"} \cup EndStates

\* The lock of b is on its session and keeps a from having it.
InTheWay(b, a) ==
    /\ b \in Keepers /\ conn[b] \in Sessions \ {conn[a]}
    /\ HasLock(b)
    /\ a \in Shared => b \notin Shared

\* A call waits only while somebody's lock is in its way: an open handle's, or
\* what one of the four things left on a session.  A dropped or cancelled attempt
\* whose lock is gone is no excuse.
WaitsForSomebody ==
    \A a \in Attempts :
        pc[a] = "wait" ~> pc[a] # "wait" \/ \E b \in Attempts \ {a} : InTheWay(b, a)
=============================================================================
