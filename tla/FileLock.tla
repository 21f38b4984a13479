------------------------------ MODULE FileLock ------------------------------
(***************************************************************************)
(* The file mutex of distributed-lock-file: an exclusive flock on a lock   *)
(* file that is created when it is missing and deleted after every use.    *)
(*                                                                         *)
(* The path and the file are different things: unlinking the path leaves   *)
(* the file to those that have it open, and the next open makes a new one. *)
(* open, flock, unlock and unlink are separate system calls, and the       *)
(* attempts (calls of acquire or try_acquire with their handles, in any    *)
(* process) interleave between them.                                       *)
(***************************************************************************)
EXTENDS Naturals

CONSTANTS
    Attempts,   \* calls of acquire / try_acquire, each with its handle
    Files,      \* inodes
    None,       \* no inode, no owner
    Waits,      \* attempts that call acquire; the others call try_acquire
    Timed,      \* attempts whose acquire has a timeout
    MaxRetries, \* MAX_RETRIES
    Removable,  \* what remove_file may do: TRUE it deletes, FALSE it fails
    CanCrash    \* processes may die

ASSUME FileLockAssumption ==
    /\ None \notin Files \cup Attempts
    /\ Timed \subseteq Waits /\ Waits \subseteq Attempts
    /\ MaxRetries \in Nat
    /\ Removable \subseteq BOOLEAN
    /\ CanCrash \in BOOLEAN

VARIABLES
    path,       \* the file the path names, or None
    flock,      \* flock[f]: the attempt that has the exclusive lock of f
    pc,         \* pc[a]: where the attempt is
    fd,         \* fd[a]: the file it has open
    retries,    \* retries[a]: retry_count of try_acquire_internal
    left        \* history: whoever was to unlink the file of the path gave up

vars == <<path, flock, pc, fd, retries, left>>

PcStates == {"idle", "open", "flock", "held", "unlink", "sleep",
             "released", "busy", "timeout", "error", "cancelled", "crashed"}

TypeOK ==
    /\ path \in Files \cup {None}
    /\ flock \in [Files -> Attempts \cup {None}]
    /\ pc \in [Attempts -> PcStates]
    /\ fd \in [Attempts -> Files \cup {None}]
    /\ retries \in [Attempts -> 0..MaxRetries]
    /\ left \in BOOLEAN

\* A file may have been left by a crash.
Init ==
    /\ path \in Files \cup {None}
    /\ flock = [f \in Files |-> None]
    /\ pc = [a \in Attempts |-> "idle"]
    /\ fd = [a \in Attempts |-> None]
    /\ retries = [a \in Attempts |-> 0]
    /\ left = (path # None)

Goto(a, state) == pc' = [pc EXCEPT ![a] = state]

\* Who has the file of the path open, or is about to remove it, is in charge of
\* it: its steps, or those of the attempt it finds the lock taken by, end in an
\* unlink.
WillUnlink(a) == pc[a] = "unlink" \/ (pc[a] \in {"flock", "held"} /\ fd[a] = path)

-----------------------------------------------------------------------------
\* try_acquire_internal is entered, with a retry count of its own.
Enter(a) ==
    /\ pc[a] \in {"idle", "sleep"}
    /\ Goto(a, "open")
    /\ retries' = [retries EXCEPT ![a] = 0]
    /\ UNCHANGED <<path, flock, fd, left>>

Unused(f) == path # f /\ \A a \in Attempts : fd[a] # f

\* Fault: the file is opened with create_new and the old one replaced.
OpenNew(a) ==
    /\ pc[a] = "open"
    /\ \E f \in Files : Unused(f) /\ path' = f
    /\ fd' = [fd EXCEPT ![a] = path']
    /\ Goto(a, "flock")
    /\ left' = FALSE
    /\ UNCHANGED <<flock, retries>>

\* The file is opened, or created when the path names none.
Open(a) ==
    /\ pc[a] = "open"
    /\ IF path # None THEN path' = path ELSE \E f \in Files : Unused(f) /\ path' = f
    /\ fd' = [fd EXCEPT ![a] = path']
    /\ Goto(a, "flock")
    /\ left' = FALSE
    /\ UNCHANGED <<flock, retries>>

\* Fault: the count starts over whenever it is used up.
OpenRetriedAnew(a) ==
    /\ pc[a] = "open"
    /\ retries' = [retries EXCEPT ![a] = (@ + 1) % (MaxRetries + 1)]
    /\ UNCHANGED <<path, flock, pc, fd, left>>

\* PermissionDenied or NotFound: transient while somebody creates or deletes.
OpenRetried(a) ==
    /\ pc[a] = "open"
    /\ retries[a] < MaxRetries
    /\ retries' = [retries EXCEPT ![a] = @ + 1]
    /\ UNCHANGED <<path, flock, pc, fd, left>>

\* The retries are used up, or the error is not transient.
OpenFails(a) ==
    /\ pc[a] = "open"
    /\ Goto(a, "error")
    /\ UNCHANGED <<path, flock, fd, retries, left>>

\* try_write succeeds: the handle is returned.  Nothing looks whether the path
\* still names this file.
Lock(a) ==
    /\ pc[a] = "flock"
    /\ flock[fd[a]] = None
    /\ flock' = [flock EXCEPT ![fd[a]] = a]
    /\ Goto(a, "held")
    /\ left' = (left /\ fd[a] # path)
    /\ UNCHANGED <<path, fd, retries>>

\* The file is closed, and the attempt takes the lock to be held by another:
\* try_acquire returns None, acquire sleeps or has no time left.
NotLocked(a) ==
    /\ fd' = [fd EXCEPT ![a] = None]
    /\ \/ a \notin Waits /\ Goto(a, "busy")
       \/ a \in Waits /\ Goto(a, "sleep")
       \/ a \in Timed /\ Goto(a, "timeout")

\* try_write finds the lock taken.
Busy(a) ==
    /\ pc[a] = "flock"
    /\ flock[fd[a]] # None
    /\ NotLocked(a)
    /\ UNCHANGED <<path, flock, retries, left>>

\* try_write fails for another reason (no locks to be had, an interrupt): the
\* error is replaced by "lock already held" whatever it was.
LockFails(a) ==
    /\ pc[a] = "flock"
    /\ flock[fd[a]] = None
    /\ NotLocked(a)
    /\ left' = (left \/ WillUnlink(a))
    /\ UNCHANGED <<path, flock, retries>>

\* The future of acquire is dropped where it awaits: in its sleep, with no file.
Cancel(a) ==
    /\ pc[a] = "sleep"
    /\ Goto(a, "cancelled")
    /\ UNCHANGED <<path, flock, fd, retries, left>>

\* Fault: the guard, and with it the file, is never dropped.
UnlockLeaks(a) ==
    /\ pc[a] = "held"
    /\ Goto(a, "unlink")
    /\ UNCHANGED <<path, flock, fd, retries, left>>

\* release and Drop: the guard goes first, and the file is closed.
Unlock(a) ==
    /\ pc[a] = "held"
    /\ flock' = [flock EXCEPT ![fd[a]] = None]
    /\ fd' = [fd EXCEPT ![a] = None]
    /\ Goto(a, "unlink")
    /\ UNCHANGED <<path, retries, left>>

\* Fault: the path is left to those that wait for it.
UnlinkUnlessAwaited(a) ==
    /\ pc[a] = "unlink"
    /\ path' = IF \E b \in Attempts : pc[b] = "sleep" THEN path ELSE None
    /\ Goto(a, "released")
    /\ left' = FALSE
    /\ UNCHANGED <<flock, fd, retries>>

\* Then remove_file(path), whatever the path names by now; errors are ignored.
Unlink(a) ==
    /\ pc[a] = "unlink"
    /\ \E removed \in Removable :
        /\ path' = IF removed THEN None ELSE path
        /\ left' = (~removed /\ path # None)
    /\ Goto(a, "released")
    /\ UNCHANGED <<flock, fd, retries>>

Ended(a) == pc[a] \in {"released", "busy", "timeout", "error", "cancelled", "crashed"}

\* The process dies: its files are closed and unlocked, the path stays.
Crash(a) ==
    /\ CanCrash
    /\ pc[a] # "idle" /\ ~Ended(a)
    /\ Goto(a, "crashed")
    /\ fd' = [fd EXCEPT ![a] = None]
    /\ flock' = [f \in Files |-> IF flock[f] = a THEN None ELSE flock[f]]
    /\ left' = (path # None /\ (left \/ WillUnlink(a)))
    /\ UNCHANGED <<path, retries>>

Step(a) == Enter(a) \/ Open(a) \/ OpenRetried(a) \/ OpenFails(a) \/ Lock(a)
           \/ Busy(a) \/ LockFails(a) \/ Cancel(a) \/ Unlock(a) \/ Unlink(a)
           \/ Crash(a)

Next == \E a \in Attempts : Step(a)

Spec == Init /\ [][Next]_vars

-----------------------------------------------------------------------------
Holds(a) == pc[a] = "held"

\* "Provides exclusive access to a resource identified by name across processes
\* and machines" (traits.rs): two attempts never hold the lock at once.
MutualExclusion == \A a, b \in Attempts : Holds(a) /\ Holds(b) => a = b

\* No path has been unlinked yet.
NothingRemoved == TRUE \in Removable => \A a \in Attempts : pc[a] # "released"

\* What is left of it: the lock is exclusive, through any number of crashes,
\* retries and busy attempts, until a remove_file takes the path away under
\* somebody who has the file open.
ExclusiveUntilRemoved == NothingRemoved => MutualExclusion

\* "Dropping this handle releases the lock and deletes the lock file"
\* (handle.rs): a file the path names is left behind only by one of three things,
\* after which nobody took charge of it again: the process of who was in charge
\* died, its remove_file failed, or its flock failed.  Otherwise an attempt that
\* will unlink it is still on the way, whoever created the file and whoever found
\* it locked.
NoFileLeft == path # None /\ ~left => \E a \in Attempts : WillUnlink(a)

\* The file an attempt has open, and the lock of it: a holder has it, and nobody
\* else.
Opened ==
    \A a \in Attempts :
        /\ pc[a] \in {"flock", "held"} <=> fd[a] # None
        /\ pc[a] = "held" => flock[fd[a]] = a

LocksHeld == \A f \in Files : flock[f] # None => pc[flock[f]] = "held" /\ fd[flock[f]] = f

\* Everybody has the file open that the path names.
OneFile == \A a \in Attempts : fd[a] \in {None, path}

\* The invariant of the file and its locks, through crashes, retries and files
\* that nobody can open any more: it is inductive.
FileInvariant ==
    /\ TypeOK /\ Opened /\ LocksHeld
    /\ NothingRemoved => OneFile

\* System calls return, sleeps end, and callers release what they hold or die.
\* An flock that is free when it is asked for does not fail every time: without
\* that (a file system that has no locks) acquire would poll for ever.
Fairness ==
    \A a \in Attempts : WF_vars(pc[a] # "idle" /\ Step(a)) /\ SF_vars(Lock(a))

FairSpec == Spec /\ Fairness

\* Nobody waits for a lock that is gone: once the others are done, an acquire
\* comes back, although crashes and unlinks left locks and files around and the
\* file cannot always be opened at once.
AcquireReturns ==
    \A a \in Attempts : pc[a] = "sleep" ~> Holds(a) \/ Ended(a)
=============================================================================
