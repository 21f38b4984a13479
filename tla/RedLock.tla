------------------------------- MODULE RedLock -------------------------------
(***************************************************************************)
(* The Redis mutex of distributed-lock-redis: lock.rs, handle.rs and the   *)
(* redlock/ algorithms, over a set of Redis servers that each hold one     *)
(* expiring key.                                                           *)
(*                                                                         *)
(* An attempt is one call of acquire or try_acquire together with the      *)
(* handle it may return.  Attempts that go through the same                *)
(* RedisDistributedLock use the same lock_id.  Commands travel to the      *)
(* servers and answers come back at any speed; a command whose task was    *)
(* aborted or detached may still reach its server.                         *)
(*                                                                         *)
(* Time is discrete.  Clocks are relative (time left, time since), so the  *)
(* state space is finite without a horizon.                                *)
(***************************************************************************)
EXTENDS RedLockHelper, FiniteSets

CONSTANTS
    Servers,        \* clients: their positions in the clients vector
    Attempts,       \* calls of acquire / try_acquire, each with its handle
    LockIds,        \* lock ids
    NoId,           \* the key does not exist
    LockOf,         \* the lock_id each attempt uses
    Expiry,         \* PX of the key, in clock ticks
    MinValidity,    \* min_validity, in clock ticks
    Cadence,        \* extension_cadence, in clock ticks
    Lag,            \* how late the runtime may run an acquire that timed out
    Responsive,     \* servers that answer within the tick and never fail
    Prompt          \* TRUE: the runtime runs extension tasks within the tick

ASSUME ServersAssumption ==
    /\ IsFiniteSet(Servers)
    /\ Servers # {}
    /\ Servers \subseteq Nat
    /\ Responsive \subseteq Servers
ASSUME IdsAssumption ==
    /\ LockOf \in [Attempts -> LockIds]
    /\ NoId \notin LockIds
ASSUME TimesAssumption ==
    /\ Expiry \in Nat \ {0}
    /\ MinValidity \in Nat
    /\ Cadence \in Nat \ {0}
    /\ Lag \in Nat
    /\ Prompt \in BOOLEAN

VARIABLES
    owner,      \* owner[s]: value of the key on server s, or NoId
    ttl,        \* ttl[s]: time the key on s has left
    pc,         \* pc[a]: where the call, then its handle, is
    setReq,     \* setReq[a][s]: the SET NX PX command sent to s
    acq,        \* acq[a]: servers known to be acquired (acquire_results)
    faults,     \* faults[a]: fail_count of acquire, fault_count of release
    age,        \* age[a]: time since the acquire spawned its commands
    ext,        \* ext[a]: the extension task of the handle
    extReq,     \* extReq[a][s]: the EVAL extend of the current round
    extAge,     \* extAge[a]: time since the current round started
    extStray,   \* extStray[a]: EVAL extend of earlier rounds, still in flight
    due,        \* due[a]: time to the next deadline of the interval
    missed,     \* missed[a]: a deadline has passed and tick() is ready
    lost,       \* lost[a]: what the lost token says
    relReq,     \* relReq[a]: servers the EVAL release is in flight to
    lease,      \* lease[a]: history variable, what is left of Expiry since
                \* the round that last succeeded was started
    latest      \* history variable, the attempt granted last: {} or {a}

redis   == <<owner, ttl>>
call    == <<setReq, acq, faults, age>>
task    == <<ext, extReq, extAge, extStray, due, missed, lost>>
ghost   == <<lease, latest>>
vars    == <<redis, pc, call, task, relReq, ghost>>

-----------------------------------------------------------------------------
N == Cardinality(Servers)

Budget == AcquireTimeout(Expiry, MinValidity)

PcStates  == {"idle", "acquiring", "held", "failed", "cancelled",
              "releasing", "released", "releaseFailed", "dropped"}
SetStates == {"none", "sent", "true", "false"}
ExtStates == {"off", "waiting", "round", "panicked"}
ReqStates == {"none", "sent", "true", "false", "okSeen", "failSeen"}

NoReq == [s \in Servers |-> "none"]

TypeOK ==
    /\ owner \in [Servers -> LockIds \cup {NoId}]
    /\ ttl \in [Servers -> 0..Expiry]
    /\ pc \in [Attempts -> PcStates]
    /\ setReq \in [Attempts -> [Servers -> SetStates]]
    /\ acq \in [Attempts -> SUBSET Servers]
    /\ faults \in [Attempts -> Nat]
    /\ age \in [Attempts -> 0..(Budget + Lag)]
    /\ ext \in [Attempts -> ExtStates]
    /\ extReq \in [Attempts -> [Servers -> ReqStates]]
    /\ extAge \in [Attempts -> 0..Budget]
    /\ extStray \in [Attempts -> SUBSET Servers]
    /\ due \in [Attempts -> 1..Cadence]
    /\ missed \in [Attempts -> BOOLEAN]
    /\ lost \in [Attempts -> BOOLEAN]
    /\ relReq \in [Attempts -> SUBSET Servers]
    /\ lease \in [Attempts -> 0..Expiry]
    /\ latest \in SUBSET Attempts

Init ==
    /\ owner = [s \in Servers |-> NoId]
    /\ ttl = [s \in Servers |-> 0]
    /\ pc = [a \in Attempts |-> "idle"]
    /\ setReq = [a \in Attempts |-> NoReq]
    /\ acq = [a \in Attempts |-> {}]
    /\ faults = [a \in Attempts |-> 0]
    /\ age = [a \in Attempts |-> 0]
    /\ ext = [a \in Attempts |-> "off"]
    /\ extReq = [a \in Attempts |-> NoReq]
    /\ extAge = [a \in Attempts |-> 0]
    /\ extStray = [a \in Attempts |-> {}]
    /\ due = [a \in Attempts |-> Cadence]
    /\ missed = [a \in Attempts |-> FALSE]
    /\ lost = [a \in Attempts |-> FALSE]
    /\ relReq = [a \in Attempts |-> {}]
    /\ lease = [a \in Attempts |-> 0]
    /\ latest = {}

-----------------------------------------------------------------------------
(* The commands, as a Redis server executes them.                          *)

\* Fault: SET without NX.
SetOverwrites(s, id) ==
    /\ owner' = [owner EXCEPT ![s] = id]
    /\ ttl' = [ttl EXCEPT ![s] = Expiry]

\* SET key lock_id PX expiry NX.
SetNX(s, id) ==
    /\ owner[s] = NoId
    /\ owner' = [owner EXCEPT ![s] = id]
    /\ ttl' = [ttl EXCEPT ![s] = Expiry]

\* EXTEND_SCRIPT_LUA: PEXPIRE when the key still holds the lock_id.
ExtendScript(s, id) ==
    /\ ttl' = [ttl EXCEPT ![s] = IF owner[s] = id THEN Expiry ELSE @]
    /\ UNCHANGED owner

\* Fault: DEL without comparing the lock_id.
DeleteAnyones(s, id) ==
    /\ owner' = [owner EXCEPT ![s] = NoId]
    /\ ttl' = [ttl EXCEPT ![s] = 0]

\* RELEASE_SCRIPT_LUA: DEL when the key still holds the lock_id.
ReleaseScript(s, id) ==
    /\ owner' = [owner EXCEPT ![s] = IF @ = id THEN NoId ELSE @]
    /\ ttl' = [ttl EXCEPT ![s] = IF owner[s] = id THEN 0 ELSE @]

\* The answer to a command that was executed: it may be lost on the way.
Answer(s, result) ==
    IF s \in Responsive THEN {result} ELSE {result, "false"}

-----------------------------------------------------------------------------
(* acquire_redlock                                                         *)

\* One task per client is spawned, each with its SET.
AcquireStart(a) ==
    /\ pc[a] = "idle"
    /\ pc' = [pc EXCEPT ![a] = "acquiring"]
    /\ setReq' = [setReq EXCEPT ![a] = [s \in Servers |-> "sent"]]
    /\ UNCHANGED <<redis, acq, faults, age, task, relReq, ghost>>

\* The SET succeeds.  The answer of a command whose task is gone is dropped.
SetApplied(a, s) ==
    /\ setReq[a][s] = "sent"
    /\ SetNX(s, LockOf[a])
    /\ \E reply \in IF pc[a] = "acquiring" THEN Answer(s, "true") ELSE {"none"} :
            setReq' = [setReq EXCEPT ![a][s] = reply]
    /\ UNCHANGED <<pc, acq, faults, age, task, relReq, ghost>>

\* The key exists: SET NX changes nothing and returns nil.  Or the command is
\* lost on its way to a server that is not reachable, which ends as an error.
SetRefused(a, s) ==
    /\ setReq[a][s] = "sent"
    /\ owner[s] # NoId \/ s \notin Responsive
    /\ setReq' = [setReq EXCEPT ![a][s] =
                    IF pc[a] = "acquiring" THEN "false" ELSE "none"]
    /\ UNCHANGED <<redis, pc, acq, faults, age, task, relReq, ghost>>

\* Returning drops the JoinSet: answers not yet joined are forgotten, commands
\* in flight stay in flight.
AbortAcquire(a, outcome) ==
    /\ pc' = [pc EXCEPT ![a] = outcome]
    /\ setReq' = [setReq EXCEPT ![a] =
                    [s \in Servers |-> IF @[s] = "sent" THEN "sent" ELSE "none"]]
    /\ age' = [age EXCEPT ![a] = 0]
    /\ faults' = [faults EXCEPT ![a] = 0]

\* The call returns without a handle.  Nothing is released.
ReturnEmpty(a, outcome) ==
    /\ AbortAcquire(a, outcome)
    /\ acq' = [acq EXCEPT ![a] = {}]
    /\ UNCHANGED <<redis, task, relReq, ghost>>

\* join_next yields Ok(true), and the majority is not reached yet.
JoinSuccess(a, s) ==
    /\ pc[a] = "acquiring"
    /\ setReq[a][s] = "true"
    /\ ~HasSufficientSuccesses(Cardinality(acq[a] \cup {s}), N)
    /\ setReq' = [setReq EXCEPT ![a][s] = "none"]
    /\ acq' = [acq EXCEPT ![a] = @ \cup {s}]
    /\ UNCHANGED <<redis, pc, faults, age, task, relReq, ghost>>

\* join_next yields the Ok(true) that makes the majority: the handle is built
\* and its extension task started; the first tick of an interval is immediate.
JoinGranted(a, s) ==
    /\ pc[a] = "acquiring"
    /\ setReq[a][s] = "true"
    /\ HasSufficientSuccesses(Cardinality(acq[a] \cup {s}), N)
    /\ AbortAcquire(a, "held")
    /\ acq' = [acq EXCEPT ![a] = @ \cup {s}]
    /\ lease' = [lease EXCEPT ![a] = IF Expiry > age[a] THEN Expiry - age[a] ELSE 0]
    /\ latest' = {a}
    /\ ext' = [ext EXCEPT ![a] = "waiting"]
    /\ missed' = [missed EXCEPT ![a] = TRUE]
    /\ UNCHANGED <<redis, extReq, extAge, extStray, due, lost, relReq>>

\* join_next yields Ok(false) or an error, and a majority is still possible.
JoinFailure(a, s) ==
    /\ pc[a] = "acquiring"
    /\ setReq[a][s] = "false"
    /\ ~HasTooManyFailuresOrFaults(faults[a] + 1, N)
    /\ setReq' = [setReq EXCEPT ![a][s] = "none"]
    /\ faults' = [faults EXCEPT ![a] = @ + 1]
    /\ UNCHANGED <<redis, pc, acq, age, task, relReq, ghost>>

\* join_next yields the failure that rules a majority out.
JoinGivesUp(a, s) ==
    /\ pc[a] = "acquiring"
    /\ setReq[a][s] = "false"
    /\ HasTooManyFailuresOrFaults(faults[a] + 1, N)
    /\ ReturnEmpty(a, "failed")

\* Fault: the timer is only looked at when an answer has come in.
TimesOutOnAnswer(a) ==
    /\ pc[a] = "acquiring"
    /\ age[a] >= Budget
    /\ \E s \in Servers : setReq[a][s] # "sent"
    /\ ReturnEmpty(a, "failed")

\* The acquire timeout fires.
AcquireTimedOut(a) ==
    /\ pc[a] = "acquiring"
    /\ age[a] >= Budget
    /\ ReturnEmpty(a, "failed")

\* The timeout of the caller fires the cancel token, which a single client does not
\* watch after its start, or the caller drops the future.
AcquireCancelled(a) ==
    /\ pc[a] = "acquiring"
    /\ ReturnEmpty(a, "cancelled")

-----------------------------------------------------------------------------
(* The extension task of a handle and extend_redlock                       *)

\* The interval ticks: one EVAL is sent to each client that was acquired.
ExtendStart(a) ==
    /\ ext[a] = "waiting"
    /\ missed[a]
    /\ ext' = [ext EXCEPT ![a] = "round"]
    /\ missed' = [missed EXCEPT ![a] = FALSE]
    /\ extReq' = [extReq EXCEPT ![a] =
                    [s \in Servers |-> IF s \in acq[a] THEN "sent" ELSE "none"]]
    /\ UNCHANGED <<redis, pc, call, extAge, extStray, due, lost, relReq, ghost>>

\* A server executes the EVAL of the round.
ExtendApplied(a, s) ==
    /\ extReq[a][s] = "sent"
    /\ ExtendScript(s, LockOf[a])
    /\ \E reply \in Answer(s, IF owner[s] = LockOf[a] THEN "true" ELSE "false") :
            extReq' = [extReq EXCEPT ![a][s] = reply]
    /\ UNCHANGED <<pc, call, ext, extAge, extStray, due, missed, lost, relReq, ghost>>

\* The EVAL never reaches the server and ends as an error.
ExtendLost(a, s) ==
    /\ extReq[a][s] = "sent"
    /\ s \notin Responsive
    /\ extReq' = [extReq EXCEPT ![a][s] = "false"]
    /\ UNCHANGED <<redis, pc, call, ext, extAge, extStray, due, missed, lost, relReq, ghost>>

\* An EVAL of an earlier round is executed late, or never.
StrayExtend(a, s) ==
    /\ s \in extStray[a]
    /\ ExtendScript(s, LockOf[a]) \/ UNCHANGED redis
    /\ extStray' = [extStray EXCEPT ![a] = @ \ {s}]
    /\ UNCHANGED <<pc, call, ext, extReq, extAge, due, missed, lost, relReq, ghost>>

\* JoinHandles already awaited in an earlier pass of the round.
Consumed(a) == {s \in Servers : extReq[a][s] \in {"okSeen", "failSeen"}}

\* Answers the next pass awaits.  A pass goes through the handles in order
\* and panics at the first one that was awaited before: a JoinHandle must not
\* be polled after completion.
Reached(a) == {s \in Servers : /\ extReq[a][s] \in {"true", "false"}
                               /\ \A c \in Consumed(a) : s < c}
Oks(a) == {s \in Servers : \/ extReq[a][s] = "okSeen"
                           \/ s \in Reached(a) /\ extReq[a][s] = "true"}
Fails(a) == {s \in Servers : \/ extReq[a][s] = "failSeen"
                             \/ s \in Reached(a) /\ extReq[a][s] = "false"}

ExtendEnough(a)  == HasSufficientSuccesses(Cardinality(Oks(a)), Cardinality(acq[a]))
ExtendTooMany(a) == HasTooManyFailuresOrFaults(Cardinality(Fails(a)), Cardinality(acq[a]))

\* The round is over: commands in flight are detached, not aborted.
EndRound(a, next) ==
    /\ ext' = [ext EXCEPT ![a] = next]
    /\ extReq' = [extReq EXCEPT ![a] = NoReq]
    /\ extAge' = [extAge EXCEPT ![a] = 0]
    /\ extStray' = [extStray EXCEPT ![a] = @ \cup {s \in Servers : extReq[a][s] = "sent"}]

\* A pass sees the majority of the acquired clients: Ok(Some(true)).
ExtendSucceeds(a) ==
    /\ ext[a] = "round" /\ extAge[a] < Budget
    /\ ExtendEnough(a)
    /\ EndRound(a, "waiting")
    /\ lease' = [lease EXCEPT ![a] = Expiry - extAge[a]]
    /\ UNCHANGED <<redis, pc, call, due, missed, lost, relReq, latest>>

\* Fault: the lost token is set and the task goes on.
ExtendFailsAndGoesOn(a) ==
    /\ ext[a] = "round" /\ extAge[a] < Budget
    /\ ~ExtendEnough(a) /\ ExtendTooMany(a)
    /\ EndRound(a, "waiting")
    /\ lost' = [lost EXCEPT ![a] = TRUE]
    /\ UNCHANGED <<redis, pc, call, due, missed, relReq, ghost>>

\* A pass sees too many failures: the lost token is set and the task ends.
ExtendFails(a) ==
    /\ ext[a] = "round" /\ extAge[a] < Budget
    /\ ~ExtendEnough(a) /\ ExtendTooMany(a)
    /\ EndRound(a, "off")
    /\ lost' = [lost EXCEPT ![a] = TRUE]
    /\ UNCHANGED <<redis, pc, call, due, missed, relReq, ghost>>

\* A pass reaches a JoinHandle awaited before: the task panics.
ExtendPanics(a) ==
    /\ ext[a] = "round" /\ extAge[a] < Budget
    /\ ~ExtendEnough(a) /\ ~ExtendTooMany(a) /\ Consumed(a) # {}
    /\ EndRound(a, "panicked")
    /\ UNCHANGED <<redis, pc, call, due, missed, lost, relReq, ghost>>

\* A pass awaits the first answers and does not decide: sleep, and again.
ExtendSleeps(a) ==
    /\ ext[a] = "round" /\ extAge[a] < Budget
    /\ ~ExtendEnough(a) /\ ~ExtendTooMany(a) /\ Consumed(a) = {}
    /\ Reached(a) # {}
    /\ extReq' = [extReq EXCEPT ![a] =
            [s \in Servers |-> IF s \in Oks(a) THEN "okSeen"
                               ELSE IF s \in Fails(a) THEN "failSeen" ELSE @[s]]]
    /\ UNCHANGED <<redis, pc, call, ext, extAge, extStray, due, missed, lost, relReq, ghost>>

\* The round runs out of its budget: Ok(None), and the task carries on.
ExtendInconclusive(a) ==
    /\ ext[a] = "round" /\ extAge[a] >= Budget
    /\ EndRound(a, "waiting")
    /\ UNCHANGED <<redis, pc, call, due, missed, lost, relReq, ghost>>

-----------------------------------------------------------------------------
(* The end of a handle: release, Drop                                      *)

\* Fault: the task is not aborted.
ForgetTask(a) ==
    /\ lease' = [lease EXCEPT ![a] = 0]
    /\ UNCHANGED <<task, latest>>

\* The task is aborted; the commands of its round were detached by tokio.
StopTask(a) ==
    /\ ext' = [ext EXCEPT ![a] = "off"]
    /\ extReq' = [extReq EXCEPT ![a] = NoReq]
    /\ extAge' = [extAge EXCEPT ![a] = 0]
    /\ extStray' = [extStray EXCEPT ![a] = @ \cup {s \in Servers : extReq[a][s] = "sent"}]
    /\ missed' = [missed EXCEPT ![a] = FALSE]
    /\ due' = [due EXCEPT ![a] = Cadence]
    /\ lease' = [lease EXCEPT ![a] = 0]
    /\ UNCHANGED <<lost, latest>>

\* release: the task is aborted and an EVAL sent to each acquired client.
ReleaseStart(a) ==
    /\ pc[a] = "held"
    /\ pc' = [pc EXCEPT ![a] = "releasing"]
    /\ relReq' = [relReq EXCEPT ![a] = acq[a]]
    /\ StopTask(a)
    /\ UNCHANGED <<redis, call>>

\* A server executes the EVAL; the answer may be lost.
ReleaseApplied(a, s) ==
    /\ s \in relReq[a]
    /\ ReleaseScript(s, LockOf[a])
    /\ relReq' = [relReq EXCEPT ![a] = @ \ {s}]
    /\ \E fault \in IF s \in Responsive THEN {0} ELSE {0, 1} :
            faults' = [faults EXCEPT ![a] = @ + fault]
    /\ UNCHANGED <<pc, setReq, acq, age, task, ghost>>

\* Fault: a release that fails is not counted.
ReleaseLostUnnoticed(a, s) ==
    /\ s \in relReq[a]
    /\ s \notin Responsive
    /\ relReq' = [relReq EXCEPT ![a] = @ \ {s}]
    /\ UNCHANGED <<redis, pc, call, task, ghost>>

\* The EVAL never reaches the server.
ReleaseLost(a, s) ==
    /\ s \in relReq[a]
    /\ s \notin Responsive
    /\ relReq' = [relReq EXCEPT ![a] = @ \ {s}]
    /\ faults' = [faults EXCEPT ![a] = @ + 1]
    /\ UNCHANGED <<redis, pc, setReq, acq, age, task, ghost>>

\* All release tasks are done: Ok with a majority of the acquired clients.
ReleaseDone(a) ==
    /\ pc[a] = "releasing"
    /\ relReq[a] = {}
    /\ LET n  == Cardinality(acq[a])
           ok == \/ HasSufficientSuccesses(n - faults[a], n)
                 \/ ~HasTooManyFailuresOrFaults(faults[a], n)
       IN  pc' = [pc EXCEPT ![a] = IF ok THEN "released" ELSE "releaseFailed"]
    /\ UNCHANGED <<redis, call, task, relReq, ghost>>

\* Drop aborts the task and releases nothing (so does a crash of the process).
DropHandle(a) ==
    /\ pc[a] = "held"
    /\ pc' = [pc EXCEPT ![a] = "dropped"]
    /\ StopTask(a)
    /\ UNCHANGED <<redis, call, relReq>>

-----------------------------------------------------------------------------
(* Time                                                                    *)

\* What has to happen before the clock moves on.
NothingUrgent ==
    /\ \A a \in Attempts : pc[a] = "acquiring" => age[a] < Budget + Lag
    /\ \A a \in Attempts, s \in Responsive :
            /\ setReq[a][s] # "sent" /\ extReq[a][s] # "sent"
            /\ s \notin relReq[a] \cup extStray[a]
    /\ Prompt => \A a \in Attempts :
            /\ ~(ext[a] = "waiting" /\ missed[a])
            /\ ext[a] = "round" => extAge[a] < Budget /\ Reached(a) = {} /\ Consumed(a) = {}

Down(n) == IF n > 0 THEN n - 1 ELSE 0

Live(a) == ext[a] \in {"waiting", "round"}

\* Keys expire, leases run down, deadlines of running intervals pass.
Tick ==
    /\ NothingUrgent
    /\ ttl' = [s \in Servers |-> Down(ttl[s])]
    /\ owner' = [s \in Servers |-> IF ttl[s] <= 1 THEN NoId ELSE owner[s]]
    /\ age' = [a \in Attempts |-> IF pc[a] = "acquiring" THEN age[a] + 1 ELSE age[a]]
    /\ extAge' = [a \in Attempts |->
                    IF ext[a] = "round" /\ extAge[a] < Budget THEN extAge[a] + 1 ELSE extAge[a]]
    /\ due' = [a \in Attempts |->
                    IF ~Live(a) THEN due[a] ELSE IF due[a] = 1 THEN Cadence ELSE due[a] - 1]
    /\ missed' = [a \in Attempts |-> missed[a] \/ (Live(a) /\ due[a] = 1)]
    /\ lease' = [a \in Attempts |-> Down(lease[a])]
    /\ UNCHANGED <<pc, setReq, acq, faults, ext, extReq, extStray, lost, relReq, latest>>

-----------------------------------------------------------------------------
ServerStep(a, s) ==
    \/ SetApplied(a, s) \/ SetRefused(a, s)
    \/ ExtendApplied(a, s) \/ ExtendLost(a, s) \/ StrayExtend(a, s)
    \/ ReleaseApplied(a, s) \/ ReleaseLost(a, s)

JoinStep(a, s) ==
    \/ JoinSuccess(a, s) \/ JoinGranted(a, s) \/ JoinFailure(a, s) \/ JoinGivesUp(a, s)

TaskStep(a) ==
    \/ ExtendStart(a) \/ ExtendSucceeds(a) \/ ExtendFails(a)
    \/ ExtendPanics(a) \/ ExtendSleeps(a) \/ ExtendInconclusive(a)

UserStep(a) ==
    \/ AcquireStart(a) \/ AcquireCancelled(a) \/ ReleaseStart(a) \/ DropHandle(a)

AttemptStep(a) ==
    \/ UserStep(a) \/ AcquireTimedOut(a) \/ TaskStep(a) \/ ReleaseDone(a)
    \/ \E s \in Servers : ServerStep(a, s) \/ JoinStep(a, s)

Next == Tick \/ \E a \in Attempts : AttemptStep(a)

Spec == Init /\ [][Next]_vars

-----------------------------------------------------------------------------
(* Safety                                                                  *)

\* The handle is open and its last successful round still protects it.
Holds(a) == pc[a] = "held" /\ lease[a] > 0

\* Two handles never both hold the lock: a majority of SET NX answers, kept up
\* by extension rounds over the acquired clients, excludes everybody else.
MutualExclusion ==
    \A a, b \in Attempts : Holds(a) /\ Holds(b) => a = b

\* acquire_redlock never sits on an empty JoinSet: as long as it is in its
\* loop, at least one client has not been joined (the final `else` of the
\* select is dead code, and nobody waits for an answer that cannot come).
AcquireStillWaits ==
    \A a \in Attempts : pc[a] = "acquiring" =>
        \E s \in Servers : setReq[a][s] # "none"

\* release returning Ok means that a majority of the acquired clients no
\* longer hold the key, whatever was lost on the way.
ReleaseFreesMajority ==
    \A a \in Attempts : pc[a] = "released" =>
        HasSufficientSuccesses(
            Cardinality({s \in acq[a] : owner[s] # LockOf[a]}), Cardinality(acq[a]))

KeyLeavesFairly(s) ==
    owner[s] # NoId /\ owner'[s] # owner[s] =>
        /\ owner'[s] = NoId
        /\ \/ ttl[s] = 1
           \/ \E a \in Attempts : LockOf[a] = owner[s] /\ pc[a] = "releasing"

\* A key is taken from its owner only by its own expiry or by a release of a
\* handle with that lock_id, and is never handed over directly: no late SET,
\* EXTEND or DEL of anybody else touches it.
KeysLeaveTheirOwnerOnly == [][\A s \in Servers : KeyLeavesFairly(s)]_vars

\* min_validity, as far as the expiry allows it.
MinTime == IF Expiry > MinValidity THEN MinValidity ELSE Expiry

\* A handle comes with at least min_validity left on a majority of its keys,
\* less what the runtime was late.
MinValidityOnGrant ==
    [][\A a \in Attempts : pc[a] = "acquiring" /\ pc'[a] = "held" =>
            HasSufficientSuccesses(
                Cardinality({s \in Servers : /\ owner'[s] = LockOf[a]
                                             /\ ttl'[s] + Lag >= MinTime}), N)]_vars

\* "This lock is automatically extended in the background while this handle
\* exists" (handle.rs): with servers that answer at once and a runtime that is
\* on time, an open handle always has time left.
HeldIsKept == \A a \in Attempts : pc[a] = "held" => lease[a] > 0

-----------------------------------------------------------------------------
(* The promise of LeaseLock, kept by RedLock                               *)

\* What a caller sees of its call and its handle.
Phase == [a \in Attempts |->
            IF pc[a] \in {"idle", "acquiring"} THEN "waiting"
            ELSE IF pc[a] = "held" THEN "open" ELSE "closed"]

\* The least time left when a handle is returned, and after a renewal.
MinGrant   == IF Expiry > Budget + Lag THEN Expiry - Budget - Lag ELSE 0
MinRenewal == Expiry - Budget

Lease == INSTANCE LeaseLock WITH phase <- Phase

\* RedLock is a LeaseLock: a lease is granted only when every other has run
\* out, and a handle that somebody else followed is never renewed, however the
\* rounds, the answers and the expiries of the servers interleave.
ImplementsLeaseLock == Lease!Spec

-----------------------------------------------------------------------------
(* Liveness                                                                *)

\* The clock advances and the timer of an acquire fires; nothing is assumed
\* of the servers, of the extension tasks or of the callers.
Fairness ==
    /\ WF_vars(Tick)
    /\ \A a \in Attempts : WF_vars(AcquireTimedOut(a))

FairSpec == Spec /\ Fairness

\* acquire tries once, and returns when its budget is up at the latest, though no
\* server ever answers: no timeout of the caller is needed for that.
AcquireReturns ==
    \A a \in Attempts : pc[a] = "acquiring" ~> pc[a] # "acquiring"

\* A key nobody answers for any more goes away by itself: what a failed, a
\* cancelled or a crashed acquire left behind, and what release or Drop did
\* not delete, does not lock the others out for ever.
Closed(a) == pc[a] \notin {"idle", "acquiring", "held"}
LeftKeysExpire ==
    \A s \in Servers, a \in Attempts :
        Closed(a) /\ owner[s] = LockOf[a] ~> owner[s] # LockOf[a]
=============================================================================
