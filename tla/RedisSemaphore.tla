---------------------------- MODULE RedisSemaphore ----------------------------
(***************************************************************************)
(* The Redis semaphore (semaphore.rs): a sorted set of tickets on one      *)
(* server, the score of a ticket being the time it expires.                *)
(*                                                                         *)
(* The three scripts are atomic on the server; what interleaves is their   *)
(* order, their answers and time.  An attempt is one call of acquire or    *)
(* try_acquire with its handle: acquire asks again, with a new lock_id     *)
(* each time, and only the last of its scripts can have added a ticket, so *)
(* the attempt stands for its lock_id.                                     *)
(*                                                                         *)
(* A ticket that expired stays in the set until somebody purges it.        *)
(* Scores are kept as the time they have left.                             *)
(***************************************************************************)
EXTENDS Integers, FiniteSets

CONSTANTS
    Attempts,   \* calls of acquire / try_acquire, each with its handle
    Waits,      \* attempts that call acquire; the others call try_acquire
    Timed,      \* attempts whose acquire has a timeout
    Timeout,    \* that timeout, in clock ticks
    MaxCount,   \* max_count, the same for everybody
    Expiry      \* expiry of a ticket, in clock ticks

ASSUME SemaphoreAssumption ==
    /\ IsFiniteSet(Attempts)
    /\ Timed \subseteq Waits /\ Waits \subseteq Attempts
    /\ Timeout \in Nat
    /\ MaxCount \in Nat
    /\ Expiry \in Nat \ {0}

VARIABLES
    tickets,    \* members of the sorted set
    left,       \* left[a]: what is left of the last score a was given
    ttl,        \* PTTL of the key, 0 when it does not exist
    pc,         \* pc[a]: where the call, then its handle, is; closed: the call
                \* returned without a handle, or the handle is gone
    cmd,        \* cmd[a]: the EVAL of the call, or the answer of acquire
    elapsed,    \* elapsed[a]: time since the call started, up to Timeout (of
                \* the calls that have a timeout)
    ext,        \* ext[a]: the extension task and its EVAL
    stray,      \* stray[a]: an EVAL of the aborted task is still in flight
    lost        \* lost[a]: what the lost token says

server == <<tickets, left, ttl>>
call   == <<pc, cmd, elapsed>>
task   == <<ext, stray, lost>>
vars   == <<server, call, task>>

\* TTL of the key.
SetExpiry == 3 * Expiry

PcStates  == {"idle", "asking", "sleeping", "held", "releasing", "closed"}
CmdStates == {"none", "acquire", "granted", "refused", "release"}
ExtStates == {"off", "waiting", "sent"}

TypeOK ==
    /\ tickets \subseteq Attempts
    /\ left \in [Attempts -> 0..Expiry]
    /\ ttl \in 0..SetExpiry
    /\ pc \in [Attempts -> PcStates]
    /\ cmd \in [Attempts -> CmdStates]
    /\ elapsed \in [Attempts -> 0..Timeout]
    /\ ext \in [Attempts -> ExtStates]
    /\ stray \in [Attempts -> BOOLEAN]
    /\ lost \in [Attempts -> BOOLEAN]

Init ==
    /\ tickets = {}
    /\ left = [a \in Attempts |-> 0]
    /\ ttl = 0
    /\ pc = [a \in Attempts |-> "idle"]
    /\ cmd = [a \in Attempts |-> "none"]
    /\ elapsed = [a \in Attempts |-> 0]
    /\ ext = [a \in Attempts |-> "off"]
    /\ stray = [a \in Attempts |-> FALSE]
    /\ lost = [a \in Attempts |-> FALSE]

Goto(a, state) == pc' = [pc EXCEPT ![a] = state]

\* The call returns, or is dropped, in this state.
Return(a, state) ==
    /\ Goto(a, state)
    /\ elapsed' = [elapsed EXCEPT ![a] = 0]

-----------------------------------------------------------------------------
(* The scripts, as the server executes them.                               *)

Running == {t \in tickets : left[t] > 0}

\* Fault: expired tickets are counted.
CountAll(a, granted) ==
    /\ tickets' = IF granted THEN tickets \cup {a} ELSE tickets
    /\ granted = (Cardinality(tickets) < MaxCount)
    /\ left' = [left EXCEPT ![a] = IF granted THEN Expiry ELSE @]
    /\ ttl' = IF granted THEN SetExpiry ELSE ttl

\* ACQUIRE_SCRIPT: purge, count, add.  A set without members is gone.
AcquireScript(a, granted) ==
    /\ granted = (Cardinality(Running) < MaxCount)
    /\ tickets' = IF granted THEN Running \cup {a} ELSE Running
    /\ left' = [left EXCEPT ![a] = IF granted THEN Expiry ELSE @]
    /\ ttl' = IF granted THEN SetExpiry ELSE IF Running = {} THEN 0 ELSE ttl

\* Fault: ZADD without XX.
ExtendAdds(a) ==
    /\ tickets' = tickets \cup {a}
    /\ left' = [left EXCEPT ![a] = Expiry]
    /\ ttl' = SetExpiry

\* Fault: the TTL of the key is forgotten.
ExtendTicketOnly(a) ==
    /\ left' = [left EXCEPT ![a] = IF a \in tickets THEN Expiry ELSE @]
    /\ UNCHANGED <<tickets, ttl>>

\* EXTEND_SCRIPT: a new score if the ticket is there, expired or not, and a
\* new TTL for the key if it is there.
ExtendScript(a) ==
    /\ left' = [left EXCEPT ![a] = IF a \in tickets THEN Expiry ELSE @]
    /\ ttl' = IF tickets # {} THEN SetExpiry ELSE 0
    /\ UNCHANGED tickets

\* RELEASE_SCRIPT.
ReleaseScript(a) ==
    /\ tickets' = tickets \ {a}
    /\ left' = [left EXCEPT ![a] = 0]
    /\ ttl' = IF tickets' = {} THEN 0 ELSE ttl

-----------------------------------------------------------------------------
(* acquire, try_acquire                                                    *)

\* Fault: every try has the whole timeout.
AskRestarts(a) ==
    /\ pc[a] \in {"idle", "sleeping"}
    /\ Goto(a, "asking")
    /\ cmd' = [cmd EXCEPT ![a] = "acquire"]
    /\ elapsed' = [elapsed EXCEPT ![a] = 0]
    /\ UNCHANGED <<server, task>>

\* The first try, or the next one after a sleep.
Ask(a) ==
    /\ pc[a] \in {"idle", "sleeping"}
    /\ Goto(a, "asking")
    /\ cmd' = [cmd EXCEPT ![a] = "acquire"]
    /\ UNCHANGED <<server, elapsed, task>>

\* The server runs the script.  Nobody takes the answer of a call that is gone.
AcquireApplied(a) ==
    /\ cmd[a] = "acquire"
    /\ \E granted \in BOOLEAN :
        /\ AcquireScript(a, granted)
        /\ cmd' = [cmd EXCEPT ![a] = IF pc[a] # "asking" THEN "none"
                                     ELSE IF granted THEN "granted" ELSE "refused"]
    /\ UNCHANGED <<pc, elapsed, task>>

\* The answer is 1: the handle is built, with its extension task.
Granted(a) ==
    /\ pc[a] = "asking" /\ cmd[a] = "granted"
    /\ Return(a, "held")
    /\ cmd' = [cmd EXCEPT ![a] = "none"]
    /\ ext' = [ext EXCEPT ![a] = "waiting"]
    /\ UNCHANGED <<server, stray, lost>>

\* The answer is 0: Ok(None), Timeout, or sleep and ask again.
Refused(a) ==
    /\ pc[a] = "asking" /\ cmd[a] = "refused"
    /\ IF a \in Waits /\ (a \in Timed => elapsed[a] < Timeout)
          THEN Goto(a, "sleeping") /\ UNCHANGED elapsed
          ELSE Return(a, "closed")
    /\ cmd' = [cmd EXCEPT ![a] = "none"]
    /\ UNCHANGED <<server, task>>

\* An EVAL in flight stays in flight when nobody waits for it any more.
Abandoned(a) == IF cmd[a] \in {"acquire", "release"} THEN cmd[a] ELSE "none"

\* The EVAL of acquire or release ends as an error, executed or not, or still
\* to be executed: the caller is told, and nothing is cleaned up.
CallFails(a) ==
    /\ pc[a] \in {"asking", "releasing"}
    /\ Return(a, "closed")
    /\ \E late \in {"none", Abandoned(a)} : cmd' = [cmd EXCEPT ![a] = late]
    /\ UNCHANGED <<server, task>>

\* The caller drops the future.
Cancel(a) ==
    /\ pc[a] \in {"asking", "sleeping"}
    /\ Return(a, "closed")
    /\ cmd' = [cmd EXCEPT ![a] = Abandoned(a)]
    /\ UNCHANGED <<server, task>>

-----------------------------------------------------------------------------
(* The extension task                                                      *)

\* The interval ticks.
ExtendStart(a) ==
    /\ ext[a] = "waiting"
    /\ ext' = [ext EXCEPT ![a] = "sent"]
    /\ UNCHANGED <<server, call, stray, lost>>

\* Fault: any number of changed elements is taken for success.
ExtendGoesOn(a) ==
    /\ ext[a] = "sent"
    /\ ExtendScript(a)
    /\ ext' = [ext EXCEPT ![a] = "waiting"]
    /\ UNCHANGED <<call, stray, lost>>

\* ZADD with CH counts the ticket if it was there: its new score is never the
\* old one.  Otherwise the lost token is set and the task ends.
ExtendApplied(a) ==
    /\ ext[a] = "sent"
    /\ ExtendScript(a)
    /\ ext' = [ext EXCEPT ![a] = IF a \in tickets' THEN "waiting" ELSE "off"]
    /\ lost' = [lost EXCEPT ![a] = a \notin tickets']
    /\ UNCHANGED <<call, stray>>

\* The EVAL ends as an error, executed or not: the lost token is set and the
\* task ends.
ExtendFails(a) ==
    /\ ext[a] = "sent"
    /\ ext' = [ext EXCEPT ![a] = "off"]
    /\ lost' = [lost EXCEPT ![a] = TRUE]
    /\ ExtendScript(a) \/ UNCHANGED server
    /\ UNCHANGED <<call, stray>>

\* An EVAL of an aborted task is executed late, or never.
StrayExtend(a) ==
    /\ stray[a]
    /\ ExtendScript(a) \/ UNCHANGED server
    /\ stray' = [stray EXCEPT ![a] = FALSE]
    /\ UNCHANGED <<call, ext, lost>>

-----------------------------------------------------------------------------
(* The end of a handle                                                     *)

\* The task is aborted, its EVAL is not.
AbortTask(a) ==
    /\ ext' = [ext EXCEPT ![a] = "off"]
    /\ stray' = [stray EXCEPT ![a] = ext[a] = "sent"]
    /\ UNCHANGED lost

ReleaseStart(a) ==
    /\ pc[a] = "held"
    /\ Goto(a, "releasing")
    /\ cmd' = [cmd EXCEPT ![a] = "release"]
    /\ AbortTask(a)
    /\ UNCHANGED <<server, elapsed>>

\* The server runs the script; that ZREM may have removed nothing is not
\* looked at.
ReleaseApplied(a) ==
    /\ cmd[a] = "release"
    /\ ReleaseScript(a)
    /\ Goto(a, "closed")
    /\ cmd' = [cmd EXCEPT ![a] = "none"]
    /\ UNCHANGED <<elapsed, task>>

\* Drop leaves the ticket to its expiry (so does a crash of the process).
DropHandle(a) ==
    /\ pc[a] = "held"
    /\ Goto(a, "closed")
    /\ AbortTask(a)
    /\ UNCHANGED <<server, cmd, elapsed>>

-----------------------------------------------------------------------------
Down(n) == IF n > 0 THEN n - 1 ELSE 0

\* Scores and the key run out; answers, tasks and callers may take any time.
Tick ==
    /\ left' = [a \in Attempts |-> Down(left[a])]
    /\ ttl' = Down(ttl)
    /\ tickets' = IF ttl <= 1 THEN {} ELSE tickets
    /\ elapsed' = [a \in Attempts |->
            IF a \in Timed /\ pc[a] \in {"asking", "sleeping"} /\ elapsed[a] < Timeout
               THEN elapsed[a] + 1 ELSE elapsed[a]]
    /\ UNCHANGED <<pc, cmd, task>>

ServerStep(a) == AcquireApplied(a) \/ ReleaseApplied(a) \/ ExtendApplied(a) \/ StrayExtend(a)

CallStep(a) == Ask(a) \/ Granted(a) \/ Refused(a) \/ CallFails(a)

TaskStep(a) == ExtendStart(a) \/ ExtendFails(a)

UserStep(a) == Cancel(a) \/ ReleaseStart(a) \/ DropHandle(a)

Next ==
    \/ Tick
    \/ \E a \in Attempts : ServerStep(a) \/ CallStep(a) \/ TaskStep(a) \/ UserStep(a)

Spec == Init /\ [][Next]_vars

-----------------------------------------------------------------------------
\* The set never outgrows max_count, and no ticket that has time left is ever
\* missing from it: not purged, not gone with the key.
TicketsFit   == Cardinality(tickets) <= MaxCount
NoTicketGone == \A a \in Attempts : left[a] > 0 => a \in tickets

\* What makes that so: the key outlives its tickets.
KeyOutlivesTickets ==
    /\ ttl = 0 => tickets = {}
    /\ \A a \in Attempts : left[a] <= ttl

SemaphoreInvariant == TypeOK /\ TicketsFit /\ NoTicketGone /\ KeyOutlivesTickets

\* The handle is open, not told that its ticket is lost, and the ticket has
\* time left.
Holds(a) == pc[a] = "held" /\ ~lost[a] /\ left[a] > 0

\* "Allows up to max_count processes to hold the semaphore concurrently"
\* (traits.rs), whatever is extended late, purged, released twice by a stray
\* command, or left behind by calls that failed.
AtMostMaxCount == Cardinality({a \in Attempts : Holds(a)}) <= MaxCount

\* "Blocks if max_count tickets are already held" (traits.rs), and only then:
\* a try is refused only while max_count tickets have time left, whatever
\* expired tickets nobody released.
RefusedOnlyWhenFull ==
    [][\A a \in Attempts : cmd[a] = "acquire" /\ cmd'[a] = "refused" =>
            Cardinality({b \in Attempts : left[b] > 0}) >= MaxCount]_vars

\* Time passes, and what goes on for an attempt goes on: the server answers,
\* its task runs, its sleep ends.  Callers may keep their tickets for ever.
Fairness ==
    /\ WF_vars(Tick)
    /\ \A a \in Attempts :
            WF_vars((pc[a] # "idle" /\ CallStep(a)) \/ ServerStep(a) \/ TaskStep(a))

FairSpec == Spec /\ Fairness

\* An open handle whose ticket was purged is told.
PurgedIsTold ==
    \A a \in Attempts :
        pc[a] = "held" /\ a \notin tickets ~> lost[a] \/ pc[a] # "held"

\* An acquire with a timeout comes back, also when nobody ever releases.
TimedAcquireReturns ==
    \A a \in Timed : pc[a] \in {"asking", "sleeping"} ~> pc[a] \notin {"asking", "sleeping"}
=============================================================================
