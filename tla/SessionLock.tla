----------------------------- MODULE SessionLock -----------------------------
(***************************************************************************)
(* What a lock that belongs to a connection promises to its callers,       *)
(* whatever keeps it: a handle comes with the lock, only when nobody who   *)
(* has it is in the way; it keeps the lock until it is given up or its     *)
(* connection breaks, and what is lost never comes back.                   *)
(***************************************************************************)
CONSTANTS
    Attempts,   \* the calls, each with the handle it may return
    Shared      \* those that share the lock with each other

VARIABLES
    phase,      \* phase[a]: "waiting", "open", "closed"
    holders,    \* attempts whose handle has the lock
    broken      \* attempts whose handle has lost its connection

vars == <<phase, holders, broken>>

Init ==
    /\ phase = [a \in Attempts |-> "waiting"]
    /\ holders = {}
    /\ broken = {}

\* Nobody who has the lock is in the way.
FreeFor(a) == \A b \in holders : a \in Shared /\ b \in Shared

Grant(a) ==
    /\ phase[a] = "waiting" /\ FreeFor(a)
    /\ phase' = [phase EXCEPT ![a] = "open"]
    /\ holders' = holders \cup {a}
    /\ UNCHANGED broken

\* The connection breaks: the only way to lose the lock.
Break(a) ==
    /\ phase[a] = "open" /\ a \notin broken
    /\ broken' = broken \cup {a}
    /\ holders' = holders \ {a}
    /\ UNCHANGED phase

\* The call fails or is dropped, or the handle is released or dropped.
Close(a) ==
    /\ phase[a] # "closed"
    /\ phase' = [phase EXCEPT ![a] = "closed"]
    /\ holders' = holders \ {a}
    /\ broken' = broken \ {a}

Next == \E a \in Attempts : Grant(a) \/ Break(a) \/ Close(a)

Spec == Init /\ [][Next]_vars
=============================================================================
