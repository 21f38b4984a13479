------------------------------ MODULE LeaseLock ------------------------------
(***************************************************************************)
(* What an expiring lock promises to its callers, whatever keeps it: a     *)
(* grant comes with a lease, a lease is granted only when nobody has one,  *)
(* an open handle is renewed only while it is the latest one granted, and  *)
(* never after it was told that the lock is lost.                          *)
(***************************************************************************)
EXTENDS Integers

CONSTANTS
    Attempts,   \* the calls, each with the handle it may return
    Expiry,     \* the longest lease
    MinGrant,   \* the shortest lease a handle may come with
    MinRenewal  \* the shortest lease a renewal may leave

\* The bounds make sense.
LeaseAssumption ==
    /\ Expiry \in Nat
    /\ MinGrant \in 0..Expiry
    /\ MinRenewal \in 0..Expiry

VARIABLES
    phase,      \* phase[a]: "waiting", "open", "closed"
    lease,      \* lease[a]: time left
    lost,       \* lost[a]: the handle was told that the lock is lost
    latest      \* the handle granted last, as a set of at most one

vars == <<phase, lease, lost, latest>>

TypeOK ==
    /\ phase \in [Attempts -> {"waiting", "open", "closed"}]
    /\ lease \in [Attempts -> 0..Expiry]
    /\ lost \in [Attempts -> BOOLEAN]
    /\ latest \in SUBSET Attempts

Init ==
    /\ phase = [a \in Attempts |-> "waiting"]
    /\ lease = [a \in Attempts |-> 0]
    /\ lost = [a \in Attempts |-> FALSE]
    /\ latest = {}

\* Nobody but a has time left.
FreeFor(a) == \A b \in Attempts \ {a} : lease[b] = 0

Grant(a) ==
    /\ phase[a] = "waiting"
    /\ FreeFor(a)
    /\ phase' = [phase EXCEPT ![a] = "open"]
    /\ \E time \in MinGrant..Expiry : lease' = [lease EXCEPT ![a] = time]
    /\ latest' = {a}
    /\ UNCHANGED lost

Renew(a) ==
    /\ phase[a] = "open"
    /\ ~lost[a]
    /\ latest = {a}
    /\ \E time \in MinRenewal..Expiry : lease' = [lease EXCEPT ![a] = time]
    /\ UNCHANGED <<phase, lost, latest>>

Lose(a) ==
    /\ phase[a] = "open"
    /\ lost' = [lost EXCEPT ![a] = TRUE]
    /\ UNCHANGED <<phase, lease, latest>>

\* The call fails, or the handle is released or dropped.
Close(a) ==
    /\ phase[a] # "closed"
    /\ phase' = [phase EXCEPT ![a] = "closed"]
    /\ lease' = [lease EXCEPT ![a] = 0]
    /\ UNCHANGED <<lost, latest>>

Pass ==
    /\ lease' = [a \in Attempts |-> IF lease[a] > 0 THEN lease[a] - 1 ELSE 0]
    /\ UNCHANGED <<phase, lost, latest>>

Next == Pass \/ \E a \in Attempts : Grant(a) \/ Renew(a) \/ Lose(a) \/ Close(a)

Spec == Init /\ [][Next]_vars

\* Nobody has time left on the lock while somebody else does, although leases
\* are renewed and handles are granted while older ones are still open.
OneLeaseAtATime ==
    \A a, b \in Attempts : lease[a] > 0 /\ lease[b] > 0 => a = b
=============================================================================
