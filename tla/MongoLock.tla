------------------------------ MODULE MongoLock ------------------------------
(***************************************************************************)
(* The MongoDB mutex: one document per name.  A try is one upsert that     *)
(* takes the document when it is missing or expired by the server's clock, *)
(* release is one delete that asks for the lock_id.  Nobody extends an     *)
(* expiry, and nobody is told when it passes.                              *)
(*                                                                         *)
(* An attempt is a call of acquire or try_acquire and its handle.  Every   *)
(* try draws a new lock_id, but a try that was refused leaves none behind  *)
(* and one that failed is the last, so the attempt stands for the id.      *)
(***************************************************************************)
EXTENDS Integers

CONSTANTS
    Attempts,   \* calls of acquire / try_acquire, each with its handle
    None,       \* there is no document
    Waits,      \* attempts that call acquire; the others call try_acquire
    Timed,      \* attempts whose acquire has a timeout
    Timeout,    \* that timeout, in ticks
    Expiry      \* options.expiry, in ticks

ASSUME MongoAssumption ==
    /\ None \notin Attempts
    /\ Timed \subseteq Waits /\ Waits \subseteq Attempts
    /\ Timeout \in Nat
    /\ Expiry \in Nat \ {0}

VARIABLES
    owner,      \* lockId of the document, or None without a document
    left,       \* time until expiresAt; 0 when it has passed
    pc,         \* pc[a]: where the attempt is
    cmd,        \* cmd[a]: its command, with the answer when there is one
    elapsed,    \* elapsed[a]: start.elapsed() of a timed acquire, up to Timeout
    age,        \* age[a]: time since its last try was sent, up to Expiry
    latest      \* history variable: the attempt that took the document last
                \* while its call waited for it

server == <<owner, left, latest>>
clocks == <<elapsed, age>>
vars   == <<server, clocks, pc, cmd>>

EndStates == {"busy", "timeout", "failed", "released", "dropped"}
PcStates  == EndStates \cup {"idle", "wait", "sleep", "held", "release"}

TypeOK ==
    /\ owner \in Attempts \cup {None}
    /\ left \in 0..Expiry
    /\ pc \in [Attempts -> PcStates]
    /\ cmd \in [Attempts -> {"none", "upsert", "won", "refused", "delete", "deleted"}]
    /\ elapsed \in [Attempts -> 0..Timeout]
    /\ age \in [Attempts -> 0..Expiry]
    /\ latest \in SUBSET Attempts

Init ==
    /\ owner = None /\ left = 0
    /\ pc = [a \in Attempts |-> "idle"]
    /\ cmd = [a \in Attempts |-> "none"]
    /\ elapsed = [a \in Attempts |-> 0]
    /\ age = [a \in Attempts |-> 0]
    /\ latest = {}

Goto(a, state) == pc' = [pc EXCEPT ![a] = state]
Command(a, c)  == cmd' = [cmd EXCEPT ![a] = c]

-----------------------------------------------------------------------------
\* The document becomes that of a, for one expiry.
Take(a) ==
    /\ owner' = a /\ left' = Expiry
    /\ latest' = IF pc[a] = "wait" THEN {a} ELSE latest

\* A try sends its upsert: the first one, or the next after a sleep.
Ask(a) ==
    /\ pc[a] \in {"idle", "sleep"}
    /\ Goto(a, "wait") /\ Command(a, "upsert")
    /\ age' = [age EXCEPT ![a] = 0]
    /\ UNCHANGED <<server, elapsed>>

\* Fault: a document in its last tick is taken for an expired one.
ExpiresEarly == owner = None \/ left <= 1

\* expired_or_missing: expiresAt (or the epoch) <= $$NOW.
Expired == owner = None \/ left = 0

\* Fault: expiresAt is set without the condition.
UpsertRefreshes(a) ==
    /\ cmd[a] = "upsert"
    /\ IF Expired
          THEN Take(a) /\ Command(a, "won")
          ELSE left' = Expiry /\ UNCHANGED <<owner, latest>> /\ Command(a, "refused")
    /\ UNCHANGED <<clocks, pc>>

\* The upsert, also of a call that is over: the three fields are set together
\* or kept together, and the document is returned as it is then.
Upsert(a) ==
    /\ cmd[a] = "upsert"
    /\ IF Expired
          THEN Take(a) /\ Command(a, "won")
          ELSE UNCHANGED server /\ Command(a, "refused")
    /\ UNCHANGED <<clocks, pc>>

\* Fault: any document that comes back is a success.
GrantedAny(a) ==
    /\ pc[a] = "wait" /\ cmd[a] \in {"won", "refused"}
    /\ Goto(a, "held") /\ Command(a, "none")
    /\ UNCHANGED <<server, clocks>>

\* The document comes back with the lock_id of this try: a handle.
Granted(a) ==
    /\ pc[a] = "wait" /\ cmd[a] = "won"
    /\ Goto(a, "held") /\ Command(a, "none")
    /\ UNCHANGED <<server, clocks>>

\* It comes back with another one.  acquire looks at its clock, then sleeps.
Refused(a) ==
    /\ pc[a] = "wait" /\ cmd[a] = "refused"
    /\ Command(a, "none")
    /\ Goto(a, IF a \notin Waits THEN "busy"
               ELSE IF a \in Timed /\ elapsed[a] >= Timeout THEN "timeout" ELSE "sleep")
    /\ UNCHANGED <<server, clocks>>

\* The driver gives an error; the upsert may have been applied, or may yet be.
CallFails(a) ==
    /\ pc[a] = "wait"
    /\ Goto(a, "failed")
    /\ UNCHANGED <<server, clocks, cmd>>

\* The caller drops the future of the call.
CancelCall(a) ==
    /\ pc[a] \in {"wait", "sleep"}
    /\ Goto(a, "failed")
    /\ UNCHANGED <<server, clocks, cmd>>

\* A command of a call that is over is lost on its way.
CommandLost(a) ==
    /\ pc[a] \in EndStates /\ cmd[a] # "none"
    /\ Command(a, "none")
    /\ UNCHANGED <<server, clocks, pc>>

ReleaseStart(a) ==
    /\ pc[a] = "held"
    /\ Goto(a, "release") /\ Command(a, "delete")
    /\ UNCHANGED <<server, clocks>>

\* Fault: the filter of the delete has the name only.
DeleteByName(a) ==
    /\ cmd[a] = "delete"
    /\ Command(a, "deleted")
    /\ owner' = None /\ left' = 0
    /\ UNCHANGED <<latest, clocks, pc>>

\* delete_one with the lock_id in the filter.
Delete(a) ==
    /\ cmd[a] = "delete"
    /\ Command(a, "deleted")
    /\ IF owner = a THEN owner' = None /\ left' = 0 ELSE UNCHANGED <<owner, left>>
    /\ UNCHANGED <<latest, clocks, pc>>

ReleaseReturns(a) ==
    /\ pc[a] = "release" /\ cmd[a] = "deleted"
    /\ Goto(a, "released") /\ Command(a, "none")
    /\ UNCHANGED <<server, clocks>>

\* The delete fails, or the future of release is dropped.
ReleaseFails(a) ==
    /\ pc[a] = "release"
    /\ Goto(a, "failed")
    /\ UNCHANGED <<server, clocks, cmd>>

\* A handle without Drop, or the process dies: the document stays.
DropHandle(a) ==
    /\ pc[a] = "held"
    /\ Goto(a, "dropped")
    /\ UNCHANGED <<server, clocks, cmd>>

-----------------------------------------------------------------------------
Later(t, bound) == IF t < bound THEN t + 1 ELSE bound

Tick ==
    /\ left' = IF left > 0 THEN left - 1 ELSE 0
    /\ elapsed' = [a \in Attempts |->
            IF a \in Timed /\ pc[a] \in {"wait", "sleep"} THEN Later(elapsed[a], Timeout) ELSE 0]
    /\ age' = [a \in Attempts |->
            IF pc[a] \in {"wait", "held"} THEN Later(age[a], Expiry) ELSE 0]
    /\ UNCHANGED <<owner, latest, pc, cmd>>

CallStep(a) == Ask(a) \/ Upsert(a) \/ Granted(a) \/ Refused(a) \/ Delete(a) \/ ReleaseReturns(a)

Next ==
    \/ Tick
    \/ \E a \in Attempts :
            \/ CallStep(a) \/ CallFails(a) \/ CancelCall(a) \/ CommandLost(a)
            \/ ReleaseStart(a) \/ ReleaseFails(a) \/ DropHandle(a)

Spec == Init /\ [][Next]_vars

-----------------------------------------------------------------------------
Holds(a) == pc[a] = "held"

\* The upsert of a call that still listens has won, and so has a handle.
Won(a) == pc[a] = "held" \/ (pc[a] = "wait" /\ cmd[a] = "won")

\* What the lock is worth to a caller, who has no lost token to look at: for
\* one expiry after the try was sent, however late its answer came and whatever
\* other calls failed, were dropped or released meanwhile, the document is that
\* of the handle.
SafeForOneExpiry ==
    \A a \in Attempts : Won(a) /\ age[a] < Expiry => owner = a /\ left >= Expiry - age[a]

\* A delete is on its way only for a handle that was given up, and nothing is
\* for an open one.
CommandsFit ==
    \A a \in Attempts :
        /\ cmd[a] \in {"delete", "deleted"} => pc[a] \in {"release", "failed"}
        /\ pc[a] = "held" => cmd[a] = "none"

\* The invariant of the document: it stays with the attempt that took it for as
\* long as that attempt may count on it, through late commands of calls that
\* are over and deletes that cross an expiry.
MongoInvariant == TypeOK /\ SafeForOneExpiry /\ CommandsFit

\* "Provides exclusive access" (traits.rs) as far as it goes: of two open
\* handles one is older than its expiry.
ExclusiveForOneExpiry ==
    \A a, b \in Attempts :
        /\ Holds(a) /\ age[a] < Expiry
        /\ Holds(b) /\ age[b] < Expiry
        => a = b

\* An attempt has the lock from the upsert that won, not from its answer.
Phase == [a \in Attempts |->
            IF Won(a) THEN "open"
            ELSE IF pc[a] \in {"idle", "wait", "sleep"} THEN "waiting" ELSE "closed"]

Lease == [a \in Attempts |-> IF Phase[a] = "open" /\ owner = a THEN left ELSE 0]

\* What it promises is a lease of one expiry that is never renewed.
Promise == INSTANCE LeaseLock
    WITH MinGrant <- Expiry, MinRenewal <- Expiry,
         phase <- Phase, lease <- Lease, lost <- [a \in Attempts |-> FALSE]

\* "Provides exclusive access to a resource" (traits.rs), for a lock that
\* expires: documents are taken only when nobody has time left on them, and
\* taken away only by their owner or the clock.
ImplementsLeaseLock == Promise!Spec

\* Time passes and commands return; callers do what they like with a handle.
Fairness == WF_vars(Tick) /\ \A a \in Attempts : WF_vars(pc[a] # "idle" /\ CallStep(a))

FairSpec == Spec /\ Fairness

\* "None means wait indefinitely" (traits.rs), and not longer than until the
\* document expires: whoever dropped its handle, died, or failed with its
\* document in place blocks the others for an expiry, not for ever.
AcquireReturns ==
    \A a \in Waits : pc[a] = "sleep" ~> Holds(a) \/ pc[a] \in EndStates
=============================================================================
