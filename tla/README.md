# Verification of distributed-lock-rs

TLA+ models of the locks of this repository, the TLC runs that check them on
small instances, and TLAPS proofs of what matters most about them for all
instances. Paths are relative to the repository; `redis/` stands for
`crates/distributed-lock-redis/src/`, and likewise for the other backends.

## The system

The workspace is a library of distributed locks. Nothing in it is a server: a
lock is a protocol that several processes follow against a store they share.
`distributed-lock-core` fixes the traits (`traits.rs`): a lock has `acquire` and
`try_acquire`; both return a handle with `release`, a `lost_token`, and `Drop`.
By the traits `acquire` waits, up to a timeout or for ever. The Redis mutex and
the reader of the Redis reader-writer lock do not: they ask the servers once
(see the disagreements below).

| component | state | operations | interacts through |
| --- | --- | --- | --- |
| Redis mutex (`redis/lock.rs`, `handle.rs`, `redlock/`) | one expiring key per server; in the process: the join set of an acquire, the list of acquired clients, the extension task and its interval | `acquire_redlock`, `extend_redlock`, `release_redlock`, Drop | SET NX PX and two scripts, sent to all servers at once, answered in any order |
| Redis reader-writer lock (`redis/rw_lock.rs`) | a set of reader ids with one TTL, a writer key that may hold a *waiting* id | read and write tries, extension, release, Drop | sequences of plain commands |
| Redis semaphore (`redis/semaphore.rs`) | a sorted set of tickets scored by expiry, TTL of the key | acquire (polling), extension, release, Drop | three scripts on one server |
| File mutex (`file/lock.rs`, `handle.rs`) | the path, the files it named, the flock of each | open or create, flock, retry, unlock, unlink | system calls |
| MySQL mutex (`mysql/lock.rs`, `handle.rs`) | `GET_LOCK` of a session of the pool; in the process: the drop guard, the keepalive task | acquire, try, keepalive, release, Drop, the tasks guard and Drop spawn | one pooled connection per handle |
| MySQL reader-writer lock (`mysql/rw_lock.rs`) | a row with `reader_count` and `writer_held` | look, then upsert in a transaction; release updates | two connections of the pool per try, none per handle |
| PostgreSQL mutex and reader-writer lock (`postgres/lock.rs`, `rw_lock.rs`, `handle.rs`) | advisory locks of a session or of its transaction | acquire under `lock_timeout`, try, release, Drop | one pooled connection per handle |
| PostgreSQL keys (`postgres/key.rs`) | none | a name becomes a key: packed, parsed or hashed | the key of every PostgreSQL lock |
| MongoDB mutex (`mongo/lock.rs`, `handle.rs`) | a document with `lockId`, `expiresAt` | conditional upsert, conditional delete | single-document operations |
| names, providers, meta crate | none | encoding, hashing, construction | - |

What is hard in it: many actors and no atomic step across servers; answers that
are late, lost, or arrive for a call that has returned; aborted tasks whose
commands still travel; keys that expire while somebody believes in them;
background tasks that must notice; checks and writes that are separate commands;
timeouts that race with answers; dropped handles and crashed processes; pooled
sessions that outlive the call that used them, with whatever it left on them;
connections that break under an open handle; errors that are swallowed, or taken
for another.
`PROJECT.json` lists these hazards at the lines where they bite, with the
properties that watch over them.

What makes each component correct: the mutexes exclude, a handle that does not
hold any more is not renewed, whatever is left behind goes away, and acquire
comes back. The reader-writer locks exclude writers from everybody and let
writers in although readers keep coming. The semaphore never has more than
`max_count` holders and never refuses while there is room. The locks that belong
to a session hold for as long as the connection is up, and what a session goes
back to its pool with can be told: a lock or an aborted transaction is there for a
known list of reasons, and nobody waits without one of them.

## Modules

| module | models |
| --- | --- |
| `RedLockHelper` | the thresholds of `redlock/helper.rs`, the budget of `redlock/timeouts.rs` |
| `LeaseLock` | abstract: what an expiring mutex promises to its callers |
| `SessionLock` | abstract: what a lock of a connection promises to its callers |
| `RedLock` | the Redis mutex over any set of servers |
| `RedLockInv` | its inductive invariant and the three conditions it needs |
| `RedisRwLock` | the Redis reader-writer lock, command by command, on one server |
| `RedisSemaphore` | the Redis semaphore |
| `FileLock` | the file mutex, system call by system call |
| `MongoLock` | the MongoDB mutex, command by command |
| `PostgresLock` | the PostgreSQL mutex and reader-writer lock on a pool of sessions |
| `PostgresKey` | the packing of short names into advisory lock keys |
| `MySqlLock` | the MySQL mutex on a pool of sessions |
| `MySqlRwLock` | the MySQL reader-writer lock, statement by statement |
| `MySqlLocks` | both MySQL locks on one pool |
| `MC*` | constants of the runs |
| `*Proofs` | theorems and proofs |

`RedLock` extends `RedLockHelper`; it implements `LeaseLock` (`INSTANCE LeaseLock
WITH phase <- Phase`), and so does `MongoLock`, with a lease that is never
renewed. `PostgresLock` (both of its locks) and `MySqlLock` implement
`SessionLock`: those who have the lock are the handles whose session has it, and
the broken are those whose connection is down. `MySqlLocks` composes `MySqlLock`
and `MySqlRwLock`, which a provider builds on one pool (`mysql/provider.rs:97`);
the variable they share is `pool`. The other modules stand alone: the locks do not
call each other. Definitions whose comment starts with "Fault:" are not part of a
model. Each is a variant of the definition below it with a mistake one could make
in that code; `PROJECT.json` names the property that notices.

### RedLock

An *attempt* is one call of acquire or try_acquire and the handle it may
return. `pc` says where it is. `setReq[a][s]` is the SET of `acquire_redlock` to
one server (sent, answered, or joined, which is `none`), `acq` is
`acquire_results`, `faults` is `fail_count`, `age` the time the timer has run.
`AcquireStart` spawns the tasks; `SetApplied` and `SetRefused` are the server;
`JoinSuccess`, `JoinGranted`, `JoinFailure` and `JoinGivesUp` are the branches of
`join_next` in the select, `AcquireTimedOut` and `AcquireCancelled` its other
two. Returning drops the join set, so answers are forgotten and commands in
flight stay in flight (`AbortAcquire`). `ext` is the extension task:
`ExtendStart` is the tick of the interval, `ExtendSleeps`, `ExtendSucceeds`,
`ExtendFails`, `ExtendPanics` the outcomes of one pass over the join handles, and
`ExtendInconclusive` the end of the budget. `extStray` are commands of rounds
that are over. `ReleaseStart`, `ReleaseApplied`, `ReleaseLost`, `ReleaseDone` are
`release_redlock`; `DropHandle` is Drop, and a crash of the process. `Tick`
advances time: TTLs, timers and deadlines are all kept as what is left or what
has passed, so no horizon is needed. `lease` and `latest` are history variables;
no action looks at them.

With one client the code goes through `acquire_single_client`, which is the same
state machine without the join set. It is not modelled separately: Ok(None)
and an error are the same outcome there (no handle). It looks at the cancel token
only before it starts; `AcquireCancelled` is then the caller who drops the future,
which may happen at any time. `acquire` and `try_acquire` are both one attempt:
neither tries again.

Assumptions about the environment: servers do not lose data, their clocks and
the callers' run at the same speed, at most one late EVAL of an attempt is in
flight to a server at a time, and an attempt is made once (a retry by the caller
is another attempt).

### RedisRwLock

`pc` is the next command of a try or a release, `ext` the next command of the
extension task; each command is one action. The extension interval is one tick,
and commands and rounds that are due take place within it. `due` counts the ticks
to the next round, and the sleep of `acquire_write`: any number of ticks up to
`Sleep`, as the code doubles it from try to try up to a second. Readers come back
for ever (`ReadAgain`), at most once per tick. `AbortTry` is the timeout of
`acquire_redlock` dropping the future of a try between two commands. `overlap`
is a history variable: tries of the other kind that ran at the same time.
Several servers and lost answers are not modelled here: the majority loops are
those of `RedLock`.

### RedisSemaphore

`tickets` is the sorted set, `left[a]` the score last given to `a`, relative to
the clock; a ticket whose time is over stays in the set until an acquire purges
it or the key runs out. The scripts are atomic (`AcquireScript`, `ExtendScript`,
`ReleaseScript`), everything between them takes any time: the answer to an
acquire, the interval of the extensions, the sleeps. A try that was refused
added no ticket, so although every try draws a new lock_id, an attempt has at
most one ticket and stands for it. `max_count` is the same for everybody; the
code trusts its callers with that. ZADD CH reports the ticket as changed unless
the new score equals the old one, which takes two scripts within a microsecond
of the clock of the server.

### FileLock

The path is a variable and so are the files: unlinking the path leaves the old
file to whoever has it open. `Open`, `Lock`/`Busy`/`LockFails`, `Unlock`,
`Unlink` are the system calls; creating the directory is folded into `Open` and
`OpenFails`. `LockFails` is an flock that fails although nobody has the lock: the
code takes it for "already held", closes the file and leaves it. `OpenRetried` is
the bounded retry after a transient error, `Cancel` the caller who drops `acquire`
in its sleep. `Crash` closes and unlocks. `remove_file` may fail (`Removable`).
`left` is a history variable: who was to unlink the file gave up, and nobody has
opened or locked it since. How long the sleeps are is left out.

### MongoLock

`owner` and `left` are `lockId` and the time until `expiresAt` by the clock of
the server; a document that is missing and one that expired are the same to the
upsert. `Ask` sends a try, `Upsert` is the server, `Granted` and `Refused` the
comparison of the lock_id that came back, with the polling loop of `acquire`.
`CallFails` and `CancelCall` end a call whose upsert may still arrive;
`ReleaseStart`, `Delete`, `ReleaseReturns`, `ReleaseFails` are release, and
`DropHandle` what Drop does: nothing. `age` is the time since the last try was
sent, all a caller can know of its expiry, because nobody sets the lost token.
`latest` is the history variable `LeaseLock` asks for.

### PostgresLock and PostgresKey

`level[s][m]` counts the locks a session has at session level, `xlocks[s]` those
of its transaction, `tx[s]` is the transaction. The mutex takes the exclusive
mode of the same functions, so one model with a set of readers (`Shared`) stands
for both files. `Connect` takes a session from the pool as the last user left it,
`Prepare` is BEGIN, SAVEPOINT, SET LOCAL (in one step: until the lock function is
called, nobody else sees what they do), `LockGranted`/`LockRefused` the lock
function, `Commit` the COMMIT of a session lock, `Undo` and `Rollback` the two
rollbacks after an error, `Try` the immediate calls, `Release` and `DropHandle` the
handle. `End` gives the session back. Every statement may fail on a connection
that is up: `PrepareFails` (BEGIN or SAVEPOINT, after which nothing is rolled
back), `SetRefused`, `LockRefused`, `CommitFails` (the lock stays on the session),
`UndoFails` and the second half of `Rollback` (errors that are swallowed),
`TryFails`, and `ReleaseFails` (release is Ok all the same). `Cancel` drops the
future at any of its awaits. Sessions that wait for a lock nobody wants any more
(`zombie`) and connections that break are steps of their own.

What is assumed of sqlx and PostgreSQL, which are not in this repository: a
connection that is dropped first reads the answers that are due and then goes
back to its pool; if that fails it is closed; the pool tests a connection before
it hands it out and replaces broken ones; it does not roll back transactions
begun by plain statements. BEGIN in an open transaction is a warning, COMMIT and
ROLLBACK end all of it, session locks survive both, and a session never waits
for itself. An error in a transaction aborts it and frees the transaction locks
taken since the last savepoint; which those are is left open (`Abort`), as
savepoints of older transactions are not kept track of: the model allows more than
happens. The lock manager may grant in any order. The wait
in `pool.acquire()`, which the timeout of the caller does not bound, ends by
`Connect` or `ConnectFails`.

`PostgresKey` is `try_encode_ascii` with the bits of a character and the length as
constants; integers are as wide as an i64 is for the real ones. It has no state:
`MCPostgresLock` asks TLC to evaluate `AsciiNamesApart` (no two names have one
key) over all names, as an assumption.

### MySqlLock, MySqlRwLock, MySqlLocks

`depth[s]` is how often session `s` has the lock (`GET_LOCK` counts). A call that
fails or is dropped goes through the guard: `Cancel` leaves a `zombie` whose
answer is still due, `GuardReleases` is the spawned task with its `RELEASE_LOCK`,
for Drop as well, and `GuardFails` a RELEASE_LOCK of it that fails on a connection
that is up: the error is swallowed, and the session goes back locked.
`ReleaseLeaks` is a release whose RELEASE_LOCK fails, or whose future is dropped,
after the connection was taken out of the handle: neither guard nor Drop knows it
any more. `KeepaliveFails` is the only way a handle hears of a broken connection.

`readers` and `writer` are the committed row, `rowLock` the transaction that has
changed it. `BeginTry` takes a connection, `Check` needs a second one,
`Recheck` is the consistent read of the writer in its own transaction, `Upsert`
waits for the row lock, `Commit` publishes. A commit whose answer is lost and a
handle that is dropped are `orphaned`: the row counts them for ever. `overlap`
is a history variable, set when a try is committed while a conflicting one is
between its last look and its own commit.

The keepalive of reader-writer handles sends `SELECT 1` through the pool, on any
connection; it says nothing about the row and is left out.

## Runs

| run | question | bounds |
| --- | --- | --- |
| `one_server` | does the mutex keep its promise, return, and leave nothing for ever, with an unreliable server and a runtime that is late | 1 server, 2 attempts, expiry 3, min_validity 2, cadence 2, lag 1 |
| `three_servers` | exclusion and release where a majority is a proper subset; do the thresholds leave a loop hanging; do late commands touch keys of others | 3 servers (1 unreliable), 2 attempts, expiry 2, symmetric attempts |
| `five_servers` | *violation*: extension quorums do not meet | 5 servers, the first attempt holds before the second starts |
| `shared_object` | *violation*: two attempts with one lock_id | 1 server, 2 attempts |
| `second_pass` | *violation*: a second pass of a round panics | 2 prompt servers, 1 attempt |
| `redis_rw` | exclusion up to races, no reader for ever, writers get past readers and each other, the overwritten are told | 2 readers that come back, 2 writers that wait, expiry 3, sleep 1 or 2, 1 attempt that may be aborted |
| `redis_semaphore` | never too many, never refused with room, losers told, timeouts kept | 3 attempts, `max_count` 2, expiry 2 (key 6) |
| `file` | exclusion until a path is unlinked, what leaves a file, acquire returns | 3 attempts, 4 files, 1 retry, crashes, flock and `remove_file` that fail |
| `file_unlink` | *violation*: two holders after an unlink | 3 attempts, no crashes |
| `mongo` | worth one expiry, a lease that is not renewed, acquire returns | 3 attempts (2 wait, 1 with a timeout), expiry 2 |
| `postgres` | exclusion while connected, what a handle is promised, what sessions are left with, which timeouts end a wait, whom a call waits for | 2 sessions; any 3 calls (`FewCalls`) of 3 writers (1 waits with a timeout, 1 and a try for transaction locks) and 1 reader with half a millisecond; clock of 2 units to a millisecond; names of up to 3 characters of 2 bits |
| `mysql` | what a handle of the mutex is promised, exclusion of the other lock as far as it goes, what is left behind, is a broken connection told, who waits for whom | 3 sessions; any 3 calls (`FewCalls`) of 3 lockers, 2 readers, 2 writers (`WritersInOrder`) |

Why the bounds suffice: an expiry of two or three ticks lets a key expire
between any two steps and be extended in between; two attempts are what
exclusion is about, and every property of RedLock that a third attempt could
disturb is proved for any number; one to three servers give every relation
between majority, minority and "too many failures"; the semaphore needs one
attempt more than `max_count`, and a key that outlives a ticket by more than one
extension; the file lock needs one file per attempt and one left over from a
crash, and a third attempt to step between a holder and a waiter. An even number
of servers is where the two thresholds differ; `AcquireStillWaitsCorrect` proves
the property for every number. MongoDB needs one attempt that is over and whose
commands are late, and two that compete. PostgreSQL needs fewer sessions than
calls, so that sessions are used again, and one reader, as a lock is either in
the way of a writer or not; half a millisecond is the timeout that is rounded
away. Three of its four calls are enough: one that has the lock or left it, and
two that queue. Keys: two bits to a character and three characters have every pair
of lengths, the names of all zeros and all ones, and a code that fills the integer
like seven bits and nine characters do. MySQL needs three sessions: two tries
overlap only while both have a connection and one is left to look at the row
with; three calls of seven are every pair of kinds with a third next to it, and
every three of the mutex. `FewCalls` is a constraint on who leaves `idle`; nobody
has to, so it cuts off no behaviour the liveness properties speak of.
`WritersInOrder` is a symmetry: the two MySQL writers differ in nothing, and one of
them calls first. The Redis reader-writer lock has an expiry of three and sleeps of
up to two ticks: the longest sleep that is still shorter than the expiry, and one
that is not the interval of the extensions. Two writers that wait refresh and
overwrite each other's waiting id.
`CHECK_DEADLOCK FALSE` in the file, PostgreSQL and MySQL runs: attempts are made
once and then the system has nothing to do.

### Fairness

* `RedLock`: only time and the timer of an acquire are fair. Servers may never
  answer, tasks may never run, callers may keep or drop what they have.
* `RedisRwLock`: time passes, commands return, tasks run, sleeps of the retry
  loop end after `Sleep` ticks at most. One weak fairness for all commands is
  enough: there are finitely many between two ticks, and a tick waits for those
  that are due. Callers release what is theirs (`WriterGetsIn` cannot do without: a
  reader that never releases starves every writer). Nothing is assumed of a
  writer whose key was overwritten, and nobody has to call.
* `RedisSemaphore`: time passes, and what goes on for an attempt goes on (one
  weak fairness for all of it). Callers may keep their tickets for ever.
* `FileLock`: system calls return, sleeps end, callers release or die. An flock
  that is free again and again when it is asked for does not fail every time
  (strong fairness of `Lock`): on a file system without locks every flock fails,
  and `acquire(None)` polls for ever although nobody has the lock.
* `MongoLock`: time passes, commands get an answer, sleeps end. Callers may keep
  handles for ever: the document expires.
* `PostgresLock` (`FairSpec`): statements of a call that has
  begun get an answer, which may be an error, and `lock_timeout` passes. Callers
  may keep or drop what they have, and nobody has to release, so the properties
  are about who is waited for.
* `MySqlLocks` (`FairSpec`): the same, and spawned tasks run; the
  pool gives up on a call when it stays empty (its acquire has a timeout).

### What the violations show

* `five_servers` (`redlock/extend.rs:63`): an extension asks for a majority of
  the clients that were acquired, two of three. The other keys may have expired
  and been taken, and so two handles hold the lock. `ExtensionQuorumSizes` proves
  which numbers of servers are affected: all but 1, 2, 3, 4 and 6.
* `shared_object` (`lock.rs:29`): the lock_id is drawn per lock object, so the
  extension of an old handle succeeds on the key of a newer one.
* `second_pass` (`redlock/extend.rs:83`): every pass awaits all finished tasks
  again; a JoinHandle that was awaited panics. If two servers answer in
  different passes, the extension task dies and nobody is told.
* `file_unlink` (`file/handle.rs:117`): see the hazard of that line.

Other disagreements met on the way, without a run of their own:

* `redis/lock.rs:227`: `acquire` asks the servers once, within the budget of
  `acquire_redlock`, and says `Timeout` when the lock is held, whatever timeout it
  was given; `traits.rs:88-92` has it wait up to the timeout, and `None` "wait
  indefinitely". `acquire_read` of the reader-writer lock is the same. What
  `AcquireReturns` says of the Redis mutex is therefore that this one try ends, and
  not that anybody waited.
* `redis/rw_lock.rs:45`: looks and writes are separate commands, and a reader and
  a writer whose tries overlap both get in (`traits.rs:127` excludes it). Two
  writers that see the same waiting id and no readers both set the key, the second
  over the first (`rw_lock.rs:205`), and both hold the lock (`traits.rs:167`
  allows one) until the first is told at its next extension.
* `redis/rw_lock.rs:534`: `acquire_write` sleeps up to a second between its tries.
  With an expiry no longer than that (`provider.rs:57` takes any), the waiting id
  expires while its writer sleeps, and readers starve it: with `Sleep` equal to
  `Expiry` TLC finds `WriterGetsIn` violated. It holds of sleeps that are shorter.
* `file/handle.rs:54`: any error of flock is reported as "lock already held", so
  `Ok(None)` may be said with nobody holding (`traits.rs:116`), a file that the
  attempt created stays, and `acquire` polls.
* `postgres/handle.rs:76`: Drop does not release ("via connection drop", says
  `handle.rs:16`, but a pooled connection is not closed).
* `mysql/handle.rs:137`: the task of Drop ignores the error of RELEASE_LOCK and
  gives the connection back; `handle.rs:132` says "release the lock or at least
  close the connection".
* A failed acquire of the Redis mutex does not release the keys it got
  (`specs/001-port-distributed-lock/contracts/redis-backend.rs:166` says it should),
  and release does not delete keys of servers that answered after the majority
  (`acquire.rs:135` says it does): both go away when they expire, which
  `LeftKeysExpire` checks.
* The comment at `helper.rs:24` gives a threshold for even N that is one higher than
  the code's; the code is right (`AcquireStillWaits` fails with the comment's).
* A Redis handle whose rounds all time out is never told that it lost the lock
  (`redis/handle.rs:98`).
* The sleep of the file lock may exceed the remaining timeout by the jitter
  (`file/lock.rs:215`).

The properties of the backends that follow say how far the code goes rather than
what a comment promises:

* Redis reader-writer lock: `OverlapOnly` is about a reader and a writer whose key
  is its own; for these an overlap of their tries is the only way in. It is silent
  about a writer whose key is gone, because another writer overwrote it or because
  a release deleted it after the key had changed hands (`rw_lock.rs:333`): such a
  writer may hold next to others until its next extension, which tells it
  (`OverwrittenIsTold`). `WriterGetsIn` leaves out one state: a set without a TTL
  after an aborted reader (`NoTtlLeft`), which blocks writers until somebody
  extends or deletes it. An ordinary SADD, with its PEXPIRE to come, is no excuse.
* MySQL reader-writer lock: a reader looks at the row and upserts without a
  condition, a writer too, and so two conflicting tries that overlap both get in
  although `rw_lock.rs:28` speaks of exclusive access. `ExclusiveUnlessOverlap`
  shows that this is the only way. A handle that is dropped, or a commit whose
  answer is lost, blocks the lock until somebody edits the row.
* PostgreSQL: four things leave a lock on a session of the pool: a handle that is
  dropped, a call that is cancelled, a COMMIT that fails after the lock was granted
  (`lock.rs:106`), and an unlock whose error is swallowed (`handle.rs:67`).
  `LocksAccountedFor` shows that there is one lock for each of them and none
  besides. An aborted transaction is left by a statement that fails without being
  undone (BEGIN, SAVEPOINT, COMMIT, a try, an unlock, the rollbacks), and by a call
  that is cancelled before it undid its own; `AbortedAccountedFor` shows that a
  refusal that was undone, a release that worked and a drop leave none. A broken
  connection is not reported. A timeout below a millisecond waits for ever.
* MySQL mutex: the guard and Drop do release, unless their RELEASE_LOCK fails;
  release does, unless its RELEASE_LOCK fails or its future is dropped. In these
  cases, and in no other (`DepthAccountedFor`), a session goes back to the pool
  with the lock. Without a keepalive cadence nobody is told of a broken connection.
* MongoDB: the lost token is never set; a holder has to look at its clock
  (`ExclusiveForOneExpiry`).

## Proofs

All theorems are about every value of the constants. Assumptions on constants
are the `ASSUME`s of the modules, which the runs evaluate.

**RedLock.** `TypeCorrect` and `KeysLeaveTheirOwnerOnlyCorrect` need nothing
else. Exclusion and the refinement need three conditions the code does not
guarantee: `DistinctIds` (an attempt has a lock object of its own), `Timely` (an
acquire returns before its keys can expire: the budget plus the lag of the
runtime is less than the expiry) and `QuorumsMeet` (a majority of a majority
meets a majority). `MutualExclusionBySize` replaces the third by the number of
servers.

`MutualExclusion` is not inductive: it says nothing of the keys. `IInv` adds
that known successes are worth the time since they were asked for
(`AcquiredKeysLive`, `ExtendedKeysLive`), that a lease rests on a majority of the
acquired clients (`LeaseBacked`), and the heart of the argument, `Superseded`: a
handle that somebody followed has lost too many of its acquired keys for an
extension to succeed, for ever, because SET is sent once and EXTEND never creates
a key. When an attempt completes its majority, every other handle has lost that
majority at this moment, and so has fewer than `ExtendedQuorum` keys left; hence
no other lease is running. Refinement: grants, renewals, losses and closings map
to the actions of `LeaseLock`, ticks to the passing of time, the rest to
stuttering. `OneLeaseCorrect` proves of `LeaseLock` itself that at most one
lease runs.

**RedisSemaphore.** `SemaphoreInvariant` is inductive: the set fits
`max_count`, every ticket with time left is in it (`NoTicketGone`), and the key
outlives its tickets (`KeyOutlivesTickets`, which is what keeps `NoTicketGone`
through a tick: this is where the threefold TTL of the key and its refresh by the
extension script are needed). Holders are then a subset of the set, and the
tickets counted by a refusal are exactly those with time left.

**RedisRwLock.** `RwInvariant` is inductive, for any number of readers and
writers and any expiry above one tick. A reader that was not told of a loss is a
member of the set (`InTheSet`), because the set outlives the extension that is
due (`SetOutlivesRound`, where the expiry above one tick is needed) and no other
command takes time from it. `TriesMeet` and `LooksOverlap` say what a
look is worth: a try that found nobody of the other kind keeps what it saw, except
against those that were in their own try at the same time, which `overlap`
records. `OverlapOnly` is then preserved by the steps that take the lock, and
`OnlyAbortsLeaveNoTtl` by itself.

**FileLock.** `FileInvariant` is inductive: the flock of a file has one owner, who
has it open (`Opened`, `LocksHeld`), and as long as nothing was unlinked all open
files are the same (`OneFile`); so `ExclusiveUntilRemovedCorrect`. For
`NoFileLeftCorrect` somebody is in charge of the path (`WillUnlink`) unless `left`
says who gave up: who opens it is, and stays so until it has unlinked it or finds
the file locked, and then the owner of the lock has the same file open. A crash, a
`remove_file` that fails and an flock that fails are the three steps that set
`left`; nothing is assumed of how often they happen.

**RedLock, loops.** `AcquireStillWaitsCorrect`: the joined answers, successes and
failures together, are counted exactly once, and by `ThresholdDichotomy` one of
the thresholds is reached when all are in; so an acquire that goes on has an
answer to wait for, with any number of servers. `ReleaseFreesMajorityCorrect`: a
server whose DEL was answered does not hold the id any more, and cannot get it
back because SET is sent once; a release that returns has had enough answers.

**MongoDB.** `MongoInvariant` is inductive. Its heart is `SafeForOneExpiry`: from
the upsert that won to one expiry after it was *sent* the document is that of the
attempt, since upserts of others find it unexpired and deletes of others ask for
another lock_id. Exclusion follows, as a document has one owner. For
`MongoImplementsLeaseLock` the winning upsert is the grant, not its answer;
commands of calls that are over map to stuttering.

**PostgreSQL.** `PostgresInvariant` is inductive: sessions are in one pair of
hands (`OwnSession`), what they hold is compatible (`ServerExclusive`), and an open
handle has its lock (`HandleHasLock`). The last needs that the lock function runs
in a transaction (`WaitsInTx`) and that transaction locks live in one
(`LocksInTx`), because a COMMIT of one kind of lock would drop the other kind;
that a session may come with locks of earlier users does not matter to it.
Exclusion follows for any pool and any mix of scopes. `NoSessionLost` says that no
call keeps a session out of the pool. `LocksAccountedForCorrect` counts: a lock
more on a session is an owner more (`OwnerStep`), and an owner that ends takes one
away, stays on record because it took none away (`Keepers`), or leaves a dead
session, which the server has forgotten (`DeadForgotten`).
That the owners of a lock are finitely many needs no assumption on the attempts:
there are none at first and a step adds one at most. `AbortedAccountedForCorrect`
is inductive once it is known that a call in its rollbacks has its session to
itself: whoever aborts the transaction of a session ends there, or goes on to undo
it. `BlockedBySomebodyCorrect` is
the safe half of `WaitsForSomebody`: whoever cannot have the lock is blocked by
the lock of another attempt that does not wait itself.

For `PostgresImplementsSessionLock` the grant is the step that returns the handle:
with session locks that is the COMMIT after the lock function, and in between the
server has the lock but no caller does. An attempt's step leaves the sessions of
others alone (`OthersKeep`), so for a caller it is a grant, an end or nothing
(`OwnMoves`); nobody is in the way of a grant, because after the step both handles
would be connected (`GrantIsFree`); a connection that breaks is one handle's at
most (`BreakRefines`), and by `DeadForgotten` the handle loses its lock in this step
and in no other.

**MySQL.** `PoolInvariant` joins the invariant of the mutex (`OneOwner`,
`HandleOwns`), that of the row (`RowInvariant`: the count is the number of
handles, open or orphaned) and `SessionsApart`, which is what the two locks owe
each other on one pool. `LookStands` is what exclusion of the reader-writer lock
needs: without an overlap, what a try saw is still so when it commits. A step of
one lock leaves the variables of the other alone except for the pool, and nobody
keeps a session out of it (`NoSessionLost`). `DepthAccountedForCorrect` counts the
owners of the lock of a session as for PostgreSQL, those whose RELEASE_LOCK failed
among them; `BlockedBySomebodyCorrect` follows from it and, for the row, from
`RowInvariant`. `MySqlImplementsSessionLock` is shown as for PostgreSQL, with
GET_LOCK's answer as the grant: a session that was leaked with the lock may grant
it once more, but to one handle, as nobody else can get it meanwhile. Steps of the
reader-writer lock are none of the mutex.

Only model-checked: liveness (out of the prover's reach). Every invariant and
every action property that a passing run checks is a theorem, and so are the four
refinements; a type invariant is part of the invariant of its module.
`AsciiNamesApart` is evaluated only, since its folds would need induction over
names.

## Plan

Done, in this order: the Redis mutex and its proofs, the file mutex, the Redis
reader-writer lock, the Redis semaphore, the MongoDB mutex, the PostgreSQL locks,
the MySQL locks, the theorems about the loops of the Redis mutex, the invariant of
the Redis reader-writer lock, what sessions are left with, `SessionLock` and that
the PostgreSQL locks and the MySQL mutex implement it. Left: `RedisRwLock` over
several servers with lost answers.

## Not modelled

* Providers, builders, the meta crate, examples, benches, tracing: no state of a
  lock. Their times and clients are the constants of the models.
* Names: file names and MySQL names are escaped or hashed strings, and the models
  speak of one name. Of the PostgreSQL keys the packing is modelled; hexadecimal
  names are parsed by the standard library (half of those with 16 digits do not
  fit an i64 and are hashed like other names, `key.rs:106`), the rest is SHA-1.
* The keepalive of the MySQL reader-writer handles (see above), and the empty
  monitor task of the PostgreSQL handles (`handle.rs:38`).
* The length of sleeps, except where a timeout is compared with a clock.
