----------------------------- MODULE MCMySqlLocks -----------------------------
(* Both MySQL locks on one pool: any few of many calls.                      *)
EXTENDS MySqlLocks

CONSTANTS MaxCalls, FirstWriter

\* How many calls are made, of whatever kinds.
FewCalls ==
    Cardinality({a \in Lockers : pc[a] # "idle"})
        + Cardinality({a \in Rw!Attempts : rwPc[a] # "idle"}) <= MaxCalls

\* The writers are interchangeable: one of them calls first.
WritersInOrder == \A w \in Writers : rwPc[w] # "idle" => rwPc[FirstWriter] # "idle"
=============================================================================
