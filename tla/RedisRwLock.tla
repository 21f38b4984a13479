----------------------------- MODULE RedisRwLock -----------------------------
(***************************************************************************)
(* The Redis reader-writer lock (rw_lock.rs) on one server: a set with the *)
(* ids of the readers, one TTL for all of them, and a writer key that      *)
(* holds the id of the writer or the id of a waiting writer.               *)
(*                                                                         *)
(* Unlike the mutex nothing here is a script: a try is a sequence of       *)
(* commands, and the commands of different attempts interleave.  A tick is *)
(* the cadence of the extensions; commands, tries and extension rounds     *)
(* that are due happen before the clock moves on.                          *)
(***************************************************************************)
EXTENDS Integers

CONSTANTS
    Readers,    \* calls of acquire_read / try_acquire_read, with their handle
    Writers,    \* calls of acquire_write / try_acquire_write
    Patient,    \* writers that call acquire_write, which tries again
    Expiry,     \* PX of both keys, in ticks
    Sleep,      \* the longest sleep between two tries of acquire_write, in ticks
    None,       \* the writer key does not exist
    Aborted     \* attempts whose tries the acquire timeout may abort

Attempts == Readers \cup Writers

ASSUME RwAssumption ==
    /\ Readers \cap Writers = {}
    /\ Patient \subseteq Writers
    /\ Expiry \in Nat /\ Expiry > 1
    /\ Sleep \in Nat /\ Sleep > 0
    /\ None \notin Attempts
    /\ Aborted \subseteq Attempts

VARIABLES
    readers,    \* the reader set
    rttl,       \* PTTL of the reader set; -1 when it has none, 0 without a set
    writer,     \* owner of the id in the writer key, or None
    waiting,    \* the id has the _WRITERWAITING suffix
    wttl,       \* PTTL of the writer key
    pc,         \* pc[a]: the next command of the attempt
    empty,      \* empty[w]: SCARD said 0
    ext,        \* ext[a]: the next command of the extension task
    due,        \* due[a]: ticks until the interval fires, the sleep of the retry loop
                \* is over, or the reader may come back
    lost,       \* lost[a]: the lost token
    overlap     \* overlap[a]: history variable, tries of the other kind that ran at
                \* the same time as that of a, while both run or have a handle

server == <<readers, rttl, writer, waiting, wttl>>
task   == <<ext, due, lost>>
vars   == <<server, pc, empty, task, overlap>>

TryStates == {"exists", "sadd", "expire", "scard", "get", "overwrite", "setnx", "refresh", "mark"}
EndStates == {"failed", "released", "dropped"}
PcStates  == TryStates \cup EndStates \cup {"idle", "held", "retry", "srem", "checkdel", "del"}

TypeOK ==
    /\ readers \subseteq Readers
    /\ rttl \in -1..Expiry
    /\ writer \in Writers \cup {None}
    /\ waiting \in BOOLEAN
    /\ wttl \in 0..Expiry
    /\ pc \in [Attempts -> PcStates]
    /\ empty \in [Writers -> BOOLEAN]
    /\ ext \in [Attempts -> {"none", "check", "expire"}]
    /\ due \in [Attempts -> 0..Sleep] /\ \A r \in Readers : due[r] \in {0, 1}
    /\ lost \in [Attempts -> BOOLEAN]
    /\ overlap \in [Attempts -> SUBSET Attempts]

Init ==
    /\ readers = {} /\ rttl = 0
    /\ writer = None /\ waiting = FALSE /\ wttl = 0
    /\ pc = [a \in Attempts |-> "idle"]
    /\ empty = [w \in Writers |-> FALSE]
    /\ ext = [a \in Attempts |-> "none"]
    /\ due = [a \in Attempts |-> 1]
    /\ lost = [a \in Attempts |-> FALSE]
    /\ overlap = [a \in Attempts |-> {}]

-----------------------------------------------------------------------------
InTry(a) == pc[a] \in TryStates

Rivals(a) == IF a \in Readers THEN Writers ELSE Readers

Goto(a, state) == pc' = [pc EXCEPT ![a] = state]

\* A try starts with its first command still to be sent.
BeginTry(a, first) ==
    /\ Goto(a, first)
    /\ overlap' = [b \in Attempts |->
            IF b = a THEN {c \in Rivals(a) : InTry(c)}
            ELSE IF b \in Rivals(a) /\ InTry(b) THEN overlap[b] \cup {a}
            ELSE overlap[b] \ {a}]

\* The handle is built; the first tick of its interval is immediate.
Granted(a) ==
    /\ Goto(a, "held")
    /\ due' = [due EXCEPT ![a] = 0]
    /\ UNCHANGED <<ext, lost, overlap>>

\* The try goes on with its next command.
GoOn(a, command) == Goto(a, command) /\ UNCHANGED <<task, overlap>>

\* The try or the handle is over.
Leave(a, state) ==
    /\ Goto(a, state)
    /\ overlap' = [b \in Attempts |-> IF b = a THEN {} ELSE overlap[b] \ {a}]

\* The try says no: acquire_write sleeps, longer from try to try up to a bound, and
\* tries again.
Refused(a) ==
    \/ a \notin Patient /\ Leave(a, "failed") /\ UNCHANGED task
    \/ /\ a \in Patient /\ Leave(a, "retry")
       /\ \E n \in 1..Sleep : due' = [due EXCEPT ![a] = n]
       /\ UNCHANGED <<ext, lost>>

\* The writer key becomes the id of w, with or without the suffix.
SetWriter(w, isWaiting) ==
    /\ writer' = w /\ waiting' = isWaiting /\ wttl' = Expiry

-----------------------------------------------------------------------------
(* RedisReadLockState::try_acquire                                         *)

StartRead(r) ==
    /\ pc[r] = "idle"
    /\ BeginTry(r, "exists")
    /\ UNCHANGED <<server, empty, task>>

\* Fault: readers go past a waiting writer.
ReadPastWaiting(r) ==
    /\ pc[r] = "exists"
    /\ IF writer # None /\ ~waiting THEN Refused(r) ELSE GoOn(r, "sadd")
    /\ UNCHANGED <<server, empty>>

ReadExists(r) ==
    /\ pc[r] = "exists"
    /\ IF writer # None THEN Refused(r) ELSE GoOn(r, "sadd")
    /\ UNCHANGED <<server, empty>>

\* A new set has no TTL.
ReadAdd(r) ==
    /\ pc[r] = "sadd"
    /\ readers' = readers \cup {r}
    /\ rttl' = IF readers = {} THEN -1 ELSE rttl
    /\ GoOn(r, "expire")
    /\ UNCHANGED <<writer, waiting, wttl, empty>>

\* Fault: the TTL is the cadence of the extensions.
RefreshRound == rttl' = IF readers # {} THEN 1 ELSE 0

\* PTTL and, when it is less than the expiry, PEXPIRE.
RefreshSet == rttl' = IF readers # {} THEN Expiry ELSE 0

\* Fault: PTTL of a set without a TTL is taken for a running one.
ReadExpireRunning(r) ==
    /\ pc[r] = "expire"
    /\ IF rttl > 0 THEN RefreshSet ELSE UNCHANGED rttl
    /\ Granted(r)
    /\ UNCHANGED <<readers, writer, waiting, wttl, empty>>

ReadExpire(r) ==
    /\ pc[r] = "expire"
    /\ RefreshSet
    /\ Granted(r)
    /\ UNCHANGED <<readers, writer, waiting, wttl, empty>>

-----------------------------------------------------------------------------
(* RedisWriteLockState::try_acquire                                        *)

StartWrite(w) ==
    /\ pc[w] = "idle" \/ (pc[w] = "retry" /\ due[w] = 0)
    /\ BeginTry(w, "scard")
    /\ due' = [due EXCEPT ![w] = 1]
    /\ UNCHANGED <<server, empty, ext, lost>>

WriteCount(w) ==
    /\ pc[w] = "scard"
    /\ empty' = [empty EXCEPT ![w] = readers = {}]
    /\ GoOn(w, "get")
    /\ UNCHANGED server

\* GET, and what to do about it, given what SCARD said before.
WriteGet(w) ==
    /\ pc[w] = "get"
    /\ \/ writer = None /\ GoOn(w, IF empty[w] THEN "setnx" ELSE "mark")
       \/ waiting /\ empty[w] /\ GoOn(w, "overwrite")
       \/ waiting /\ ~empty[w] /\ writer = w /\ GoOn(w, "refresh")
       \/ waiting /\ ~empty[w] /\ writer # w /\ Refused(w)
       \/ writer # None /\ ~waiting /\ Refused(w)
    /\ empty' = [empty EXCEPT ![w] = FALSE]
    /\ UNCHANGED server

\* No readers, and a waiting id, whose ever: SET without NX.
WriteOverwrite(w) ==
    /\ pc[w] = "overwrite"
    /\ SetWriter(w, FALSE)
    /\ Granted(w)
    /\ UNCHANGED <<readers, rttl, empty>>

\* No readers, no writer: SET NX.
WriteSet(w) ==
    /\ pc[w] = "setnx"
    /\ IF writer = None THEN SetWriter(w, FALSE) /\ Granted(w)
                        ELSE UNCHANGED <<writer, waiting, wttl>> /\ Refused(w)
    /\ UNCHANGED <<readers, rttl, empty>>

\* Readers, and no writer: SET NX of the waiting id.
WriteMark(w) ==
    /\ pc[w] = "mark"
    /\ IF writer = None THEN SetWriter(w, TRUE) ELSE UNCHANGED <<writer, waiting, wttl>>
    /\ Refused(w)
    /\ UNCHANGED <<readers, rttl, empty>>

\* Readers, and the waiting id of w: PEXPIRE of whatever is there by now.
WriteRefresh(w) ==
    /\ pc[w] = "refresh"
    /\ wttl' = IF writer # None THEN Expiry ELSE 0
    /\ Refused(w)
    /\ UNCHANGED <<readers, rttl, writer, waiting, empty>>

-----------------------------------------------------------------------------
(* The end of a try from outside, the extension task, the end of a handle  *)

\* The acquire timeout drops the try between two of its commands.
AbortTry(a) ==
    /\ a \in Aborted
    /\ InTry(a)
    /\ Refused(a)
    /\ UNCHANGED <<server, empty>>

\* The caller's timeout cancels acquire_write between two tries.
CancelWrite(w) ==
    /\ pc[w] = "retry"
    /\ Leave(w, "failed")
    /\ due' = [due EXCEPT ![w] = 1]
    /\ UNCHANGED <<server, empty, ext, lost>>

ExtendStart(a) ==
    /\ pc[a] = "held" /\ ~lost[a]
    /\ due[a] = 0 /\ ext[a] = "none"
    /\ due' = [due EXCEPT ![a] = 1]
    /\ ext' = [ext EXCEPT ![a] = "check"]
    /\ UNCHANGED <<server, pc, empty, lost, overlap>>

\* The server still knows the handle.
Known(a) == a \in readers \/ (writer = a /\ ~waiting)

\* Fault: an extension that found another id is taken for an inconclusive one.
ExtendShrugs(a) ==
    /\ ext[a] = "check"
    /\ ext' = [ext EXCEPT ![a] = IF Known(a) THEN "expire" ELSE "none"]
    /\ UNCHANGED <<server, pc, empty, due, lost, overlap>>

\* SISMEMBER, or GET and compare.
ExtendCheck(a) ==
    /\ ext[a] = "check"
    /\ ext' = [ext EXCEPT ![a] = IF Known(a) THEN "expire" ELSE "none"]
    /\ lost' = [lost EXCEPT ![a] = @ \/ (pc[a] = "held" /\ ~Known(a))]
    /\ UNCHANGED <<server, pc, empty, due, overlap>>

\* PEXPIRE of whatever is there by now, also after the handle is gone: the
\* commands of an extension are tasks of their own.
ExtendExpire(a) ==
    /\ ext[a] = "expire"
    /\ ext' = [ext EXCEPT ![a] = "none"]
    /\ IF a \in Readers
          THEN RefreshSet /\ UNCHANGED wttl
          ELSE wttl' = (IF writer # None THEN Expiry ELSE 0) /\ UNCHANGED rttl
    /\ UNCHANGED <<readers, writer, waiting, pc, empty, due, lost, overlap>>

ReleaseStart(a) ==
    /\ pc[a] = "held"
    /\ Leave(a, IF a \in Readers THEN "srem" ELSE "checkdel")
    /\ due' = [due EXCEPT ![a] = 1]
    /\ UNCHANGED <<server, empty, ext, lost>>

\* Fault: DEL instead of SREM.
ReadDelete(r) ==
    /\ pc[r] = "srem"
    /\ readers' = {} /\ rttl' = 0
    /\ Goto(r, "released")
    /\ UNCHANGED <<writer, waiting, wttl, empty, task, overlap>>

\* SREM; a set without members is gone.
ReadRemove(r) ==
    /\ pc[r] = "srem"
    /\ readers' = readers \ {r}
    /\ rttl' = IF readers' = {} THEN 0 ELSE rttl
    /\ Goto(r, "released")
    /\ UNCHANGED <<writer, waiting, wttl, empty, task, overlap>>

\* GET of the release.
WriteCheck(w) ==
    /\ pc[w] = "checkdel"
    /\ Goto(w, IF writer = w /\ ~waiting THEN "del" ELSE "released")
    /\ UNCHANGED <<server, empty, task, overlap>>

\* DEL of whatever is there by now.
WriteDelete(w) ==
    /\ pc[w] = "del"
    /\ writer' = None /\ waiting' = FALSE /\ wttl' = 0
    /\ Goto(w, "released")
    /\ UNCHANGED <<readers, rttl, empty, task, overlap>>

\* Drop stops the extension and leaves the key to its TTL.
DropHandle(a) ==
    /\ pc[a] = "held"
    /\ Leave(a, "dropped")
    /\ due' = [due EXCEPT ![a] = 1]
    /\ UNCHANGED <<server, empty, ext, lost>>

\* The next read call, with a new id; at most one per tick, so that time goes
\* on when readers come back for ever.
ReadAgain(r) ==
    /\ pc[r] \in EndStates
    /\ due[r] = 0
    /\ r \notin readers /\ ext[r] = "none"
    /\ Goto(r, "idle")
    /\ due' = [due EXCEPT ![r] = 1]
    /\ lost' = [lost EXCEPT ![r] = FALSE]
    /\ UNCHANGED <<server, empty, ext, overlap>>

-----------------------------------------------------------------------------
Settled(a) ==
    /\ pc[a] \in EndStates \cup {"idle", "held", "retry"}
    /\ ext[a] = "none"
    /\ due[a] = 0 => pc[a] \in EndStates

\* Its interval or its sleep runs, or the reader has its handle behind it.
Counting(a) ==
    \/ pc[a] \in {"held", "retry"} /\ ~lost[a]
    \/ pc[a] \in EndStates /\ a \in Readers

Tick ==
    /\ \A a \in Attempts : Settled(a)
    /\ IF rttl = 1 THEN readers' = {} /\ rttl' = 0
       ELSE readers' = readers /\ rttl' = IF rttl > 0 THEN rttl - 1 ELSE rttl
    /\ IF wttl <= 1 THEN writer' = None /\ waiting' = FALSE /\ wttl' = 0
       ELSE wttl' = wttl - 1 /\ UNCHANGED <<writer, waiting>>
    /\ due' = [a \in Attempts |-> IF Counting(a) /\ due[a] > 0 THEN due[a] - 1 ELSE due[a]]
    /\ UNCHANGED <<pc, empty, ext, lost, overlap>>

ReaderStep(r) ==
    \/ StartRead(r) \/ ReadExists(r) \/ ReadAdd(r) \/ ReadExpire(r) \/ ReadRemove(r)

WriterStep(w) ==
    \/ StartWrite(w) \/ WriteCount(w) \/ WriteGet(w) \/ WriteOverwrite(w) \/ WriteSet(w)
    \/ WriteMark(w) \/ WriteRefresh(w) \/ WriteCheck(w) \/ WriteDelete(w)

TaskStep(a) == ExtendStart(a) \/ ExtendCheck(a) \/ ExtendExpire(a)

Next ==
    \/ Tick
    \/ \E r \in Readers : ReaderStep(r) \/ ReadAgain(r)
    \/ \E w \in Writers : WriterStep(w) \/ CancelWrite(w)
    \/ \E a \in Attempts : TaskStep(a) \/ AbortTry(a) \/ ReleaseStart(a) \/ DropHandle(a)

Spec == Init /\ [][Next]_vars

-----------------------------------------------------------------------------
Holds(a) == pc[a] = "held" /\ ~lost[a]

\* "Multiple concurrent readers OR a single exclusive writer" (traits.rs) as
\* far as it goes: a reader and a writer whose key is its own hold the lock
\* together only when the tries that got it ran at the same time.  Tries that
\* follow each other exclude each other, whatever was extended, released,
\* dropped, aborted or left waiting in between.
OverlapOnly ==
    \A w \in Writers, r \in Readers :
        Holds(w) /\ writer = w /\ Holds(r) => r \in overlap[w]

\* The reader set is without a TTL only on behalf of a reader that is about to
\* set one, or was aborted before it could.
OnlyAbortsLeaveNoTtl ==
    rttl = -1 =>
        \E r \in readers : pc[r] = "expire" \/ (r \in Aborted /\ pc[r] = "failed")

\* A reader that holds the lock is in the set, and so is one that is about to
\* set its TTL.
InTheSet == \A r \in Readers : pc[r] = "expire" \/ Holds(r) => r \in readers

\* The set outlives the next round of extensions of whoever holds the lock,
\* whoever else adds, extends, removes or drops.
SetOutlivesRound ==
    \A r \in Readers :
        Holds(r) => rttl > 0 /\ (rttl > 1 \/ due[r] = 0 \/ ext[r] # "none")

\* Tries that run at the same time are on record.
TriesMeet ==
    \A w \in Writers, r \in Readers : InTry(w) /\ InTry(r) => r \in overlap[w]

\* A reader that found no writer, and a writer that found no reader, keep what
\* they saw while they go on: who has got in since was in its try then.
FoundNoWriter(r) == pc[r] \in {"sadd", "expire"}
FoundNoReader(w) == (pc[w] = "get" /\ empty[w]) \/ pc[w] \in {"setnx", "overwrite"}

LooksOverlap ==
    \A w \in Writers, r \in Readers :
        \/ FoundNoWriter(r) /\ Holds(w) /\ writer = w
        \/ FoundNoReader(w) /\ Holds(r)
        => r \in overlap[w]

\* The invariant of the reader-writer lock: it is inductive.
RwInvariant ==
    /\ TypeOK /\ OnlyAbortsLeaveNoTtl
    /\ InTheSet /\ SetOutlivesRound
    /\ TriesMeet /\ LooksOverlap /\ OverlapOnly

\* Commands return, tasks run, time passes; callers come back from what they
\* do with the lock and from the sleep of the retry loop.  Between two ticks there
\* are finitely many commands, and the tick waits for all that are due, so one weak
\* fairness does for all of them.  Nothing is assumed of a writer whose key was
\* overwritten.
Fairness ==
    /\ WF_vars(Tick)
    /\ WF_vars(\/ \E r \in Readers : pc[r] # "idle" /\ ReaderStep(r)
               \/ \E w \in Writers : pc[w] # "idle" /\ WriterStep(w)
               \/ \E a \in Attempts : TaskStep(a))
    /\ \A a \in Attempts : WF_vars(Known(a) /\ ReleaseStart(a))

FairSpec == Spec /\ Fairness

\* An aborted reader has left the set without a TTL, and no other is about to set one.
NoTtlLeft == readers # {} /\ rttl = -1 /\ \A r \in Readers : pc[r] # "expire"

\* "Writers are given priority to prevent starvation" (traits.rs): however often
\* readers come back, and other writers mark, overwrite and delete the key, a writer
\* in acquire_write gets in or is cancelled, unless an aborted reader left the set
\* without a TTL.  Its sleep must be shorter than the expiry of its waiting id.
WriterGetsIn ==
    \A w \in Patient : pc[w] = "retry" ~> pc[w] \in {"held", "failed"} \/ NoTtlLeft

\* A writer that has lost its key, because another overwrote it or because the DEL of
\* an earlier one met it, is told by its lost token.
OverwrittenIsTold ==
    \A w \in Writers : Holds(w) /\ writer # w ~> ~Holds(w)
=============================================================================
