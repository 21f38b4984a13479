----------------------------- MODULE MySqlRwLock -----------------------------
(***************************************************************************)
(* The MySQL reader-writer lock: a row with the number of readers and a    *)
(* flag for the writer.  A try looks at the row through one connection and *)
(* changes it in a transaction on another; release is one UPDATE through   *)
(* the pool.  A handle keeps no session, and nothing expires.              *)
(*                                                                         *)
(* A row that is missing is one of zeros: the upsert makes the same of it. *)
(***************************************************************************)
EXTENDS Integers, FiniteSets

CONSTANTS
    Sessions,   \* connections of the pool
    Readers, Writers,   \* calls, each with its handle
    None,       \* nobody
    Patient,    \* attempts that call acquire_*; the others call try_acquire_*
    Timed       \* attempts whose acquire_* has a timeout

Attempts == Readers \cup Writers

VARIABLES
    pool,       \* sessions that wait in the pool
    readers,    \* reader_count, as committed
    writer,     \* writer_held, as committed
    rowLock,    \* the attempt whose transaction has changed the row, or None
    pc,         \* pc[a]: where the attempt is
    txs,        \* sessions with a transaction; which has whose does not matter
    overlap     \* history variable: a try was committed while a conflicting one
                \* was past its last look at the row

row  == <<readers, writer, overlap>>
vars == <<pool, row, rowLock, pc, txs>>

InTx      == {"check", "recheck", "upsert", "commit"}
EndStates == {"busy", "timeout", "failed", "released", "orphaned"}
\* Attempts the row counts: open handles, and those nobody will take back.
Counted(a) == pc[a] \in {"held", "orphaned"}

TypeOK ==
    /\ pool \in SUBSET Sessions
    /\ readers \in Nat /\ writer \in BOOLEAN
    /\ rowLock \in Attempts \cup {None}
    /\ pc \in [Attempts -> {"idle", "sleep", "held"} \cup InTx \cup EndStates]
    /\ txs \in SUBSET Sessions
    /\ overlap \in BOOLEAN

Init ==
    /\ pool = Sessions
    /\ readers = 0 /\ writer = FALSE
    /\ rowLock = None
    /\ pc = [a \in Attempts |-> "idle"]
    /\ txs = {}
    /\ overlap = FALSE

Goto(a, state) == pc' = [pc EXCEPT ![a] = state]

\* The transaction is over, committed or rolled back.
EndTx(a) ==
    /\ \E s \in txs : pool' = pool \cup {s} /\ txs' = txs \ {s}
    /\ rowLock' = IF rowLock = a THEN None ELSE rowLock

Stay == UNCHANGED <<pool, txs, rowLock>>

-----------------------------------------------------------------------------
\* ensure_table_exists and begin.
BeginTry(a, s) ==
    /\ pc[a] \in {"idle", "sleep"} /\ s \in pool
    /\ pool' = pool \ {s}
    /\ txs' = txs \cup {s}
    /\ Goto(a, "check")
    /\ UNCHANGED <<row, rowLock>>

\* No connection, or the future is dropped.
BeginFails(a) ==
    /\ pc[a] \in {"idle", "sleep"}
    /\ Goto(a, "failed")
    /\ UNCHANGED row /\ Stay

Blocked(a) == writer \/ (a \in Writers /\ readers > 0)

\* The lock is taken.  acquire_* looks at its clock, then sleeps.
Refused(a) ==
    /\ \/ a \in Patient /\ Goto(a, "sleep")
       \/ a \in Timed /\ Goto(a, "timeout")
       \/ a \notin Patient /\ Goto(a, "busy")
    /\ EndTx(a)

\* get_lock_state, through another connection of the pool.
Check(a) ==
    /\ pc[a] = "check" /\ pool # {}
    /\ IF Blocked(a)
          THEN Refused(a)
          ELSE Goto(a, IF a \in Writers THEN "recheck" ELSE "upsert") /\ Stay
    /\ UNCHANGED row

\* Fault: the row is looked at once.
RecheckSkipped(a) ==
    /\ pc[a] = "recheck"
    /\ Goto(a, "upsert") /\ Stay
    /\ UNCHANGED row

\* The writer looks again, in its transaction: the first read of it, which
\* sees what is committed by now.
Recheck(a) ==
    /\ pc[a] = "recheck"
    /\ IF Blocked(a) THEN Refused(a) ELSE Goto(a, "upsert") /\ Stay
    /\ UNCHANGED row

\* INSERT ... ON DUPLICATE KEY UPDATE locks the row until the transaction ends,
\* and has no condition on what it finds there.
Upsert(a) ==
    /\ pc[a] = "upsert" /\ rowLock = None
    /\ rowLock' = a
    /\ Goto(a, "commit")
    /\ UNCHANGED <<pool, row, txs>>

\* Fault: the update takes the count of the insert.
SetsCount(a) ==
    /\ readers' = IF a \in Readers THEN 1 ELSE readers
    /\ writer' = (writer \/ a \in Writers)

\* What the upsert does to the row it has locked.
Apply(a) ==
    /\ readers' = IF a \in Readers THEN readers + 1 ELSE readers
    /\ writer' = (writer \/ a \in Writers)

Conflict(a, b) == a # b /\ (a \in Writers \/ b \in Writers)

\* COMMIT; its answer reaches the caller, or it does not (an error, a future
\* that was dropped) and the row counts a handle that nobody has.
Commit(a) ==
    /\ pc[a] = "commit"
    /\ Apply(a)
    /\ overlap' = (overlap \/ \E b \in Attempts :
            Conflict(a, b) /\ pc[b] \in {"upsert", "commit"})
    /\ EndTx(a)
    /\ Goto(a, "held") \/ Goto(a, "orphaned")

\* A statement fails (a connection, a deadlock, no second connection within the
\* timeout of the pool), or the future is dropped: the transaction is rolled back.
TryFails(a) ==
    /\ pc[a] \in InTx
    /\ EndTx(a)
    /\ Goto(a, "failed")
    /\ UNCHANGED row

-----------------------------------------------------------------------------
\* UPDATE through the pool, when no transaction has the row.
Release(a) ==
    /\ pc[a] = "held" /\ pool # {} /\ rowLock = None
    /\ IF a \in Readers
          THEN readers' = (IF readers > 0 THEN readers - 1 ELSE 0) /\ UNCHANGED writer
          ELSE writer' = FALSE /\ UNCHANGED readers
    /\ Goto(a, "released")
    /\ UNCHANGED overlap /\ Stay

\* release finds no connection or its future is dropped, the handle is dropped,
\* or its process dies: the row counts it for ever.
Orphan(a) ==
    /\ pc[a] = "held"
    /\ Goto(a, "orphaned")
    /\ UNCHANGED row /\ Stay

-----------------------------------------------------------------------------
\* What happens without the caller; the pool gives up when it is empty.
CallStep(a) ==
    \/ \E s \in Sessions : BeginTry(a, s)
    \/ Check(a) \/ Recheck(a) \/ Upsert(a) \/ Commit(a)
    \/ pool = {} /\ BeginFails(a)
    \/ pool = {} /\ pc[a] = "check" /\ TryFails(a)

Next ==
    \E a \in Attempts :
        \/ CallStep(a) \/ BeginFails(a) \/ TryFails(a)
        \/ Release(a) \/ Orphan(a)

Spec == Init /\ [][Next]_vars

-----------------------------------------------------------------------------
\* The count is that of the handles, open or orphaned, whatever tries were
\* interleaved, rolled back or cut off; the flag is that of a writer, and the
\* row is locked by whoever is about to commit.
RowInvariant ==
    /\ TypeOK
    /\ readers = Cardinality({a \in Readers : Counted(a)})
    /\ writer => \E a \in Writers : Counted(a)
    /\ Cardinality(txs) = Cardinality({a \in Attempts : pc[a] \in InTx})
    /\ txs \cap pool = {}
    /\ \A a \in Attempts : rowLock = a <=> pc[a] = "commit"

\* Without an overlap the row shows the writer that has the lock, and what a try
\* saw when it last looked at the row still stands when it is committed.
LookStands ==
    ~overlap =>
        /\ \A a \in Writers : Counted(a) => writer
        /\ \A a, b \in Attempts :
                pc[a] \in {"upsert", "commit"} /\ Counted(b) => ~Conflict(a, b)

\* "ensuring writers get exclusive access" (rw_lock.rs), as far as it goes: two
\* handles conflict only after a try was committed while a conflicting one was
\* between its last look at the row and its own commit.
ExclusiveUnlessOverlap ==
    ~overlap => \A a, b \in Attempts : Counted(a) /\ Counted(b) => ~Conflict(a, b)
=============================================================================
