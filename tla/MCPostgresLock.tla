---------------------------- MODULE MCPostgresLock ----------------------------
(* The PostgreSQL locks on a pool of two sessions: any few of the calls.  The *)
(* clock has two units to the millisecond.                                    *)
EXTENDS PostgresLock, PostgresKey

CONSTANTS w1, w2, r1, t1, MaxCalls

\* Nobody waits longer than a millisecond with w1; r1 asks for half of one.
SmallTimeouts == w1 :> 2 @@ r1 :> 1

\* How many calls are made, of whatever kinds.
FewCalls == Cardinality({a \in Attempts : pc[a] # "idle"}) <= MaxCalls

\* A test of the encoding, which TLC evaluates: names do not meet in a key.
ASSUME KeysTest == AsciiNamesApart
=============================================================================
