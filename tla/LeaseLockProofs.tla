--------------------------- MODULE LeaseLockProofs ---------------------------
(* The abstract lock gives its lease to one handle at a time, for any number *)
(* of attempts and any lengths of leases.                                    *)
EXTENDS LeaseLock, TLAPS

\* Only the handle granted last has time left.
LeaseOfLatest == \A a \in Attempts : lease[a] > 0 => latest = {a}

LEMMA TypeInit ==
    ASSUME LeaseAssumption
    PROVE  Init => TypeOK
  BY DEF LeaseAssumption, Init, TypeOK

LEMMA TypeNext ==
    ASSUME LeaseAssumption
    PROVE  TypeOK /\ [Next]_vars => TypeOK'
  <1> SUFFICES ASSUME TypeOK, [Next]_vars PROVE TypeOK'
    OBVIOUS
  <1> USE DEF LeaseAssumption, TypeOK
  <1>1. ASSUME NEW a \in Attempts, Grant(a)
        PROVE  TypeOK'
    <2>1. PICK time \in MinGrant..Expiry : lease' = [lease EXCEPT ![a] = time]
      BY <1>1 DEF Grant
    <2>2. time \in 0..Expiry
      BY <2>1
    <2> QED
      BY <1>1, <2>1, <2>2 DEF Grant
  <1>2. ASSUME NEW a \in Attempts, Renew(a)
        PROVE  TypeOK'
    <2>1. PICK time \in MinRenewal..Expiry : lease' = [lease EXCEPT ![a] = time]
      BY <1>2 DEF Renew
    <2>2. time \in 0..Expiry
      OBVIOUS
    <2> QED
      BY <1>2, <2>1, <2>2 DEF Renew
  <1>3. ASSUME NEW a \in Attempts, Lose(a)
        PROVE  TypeOK'
    BY <1>3 DEF Lose
  <1>6. ASSUME NEW a \in Attempts, Close(a)
        PROVE  TypeOK'
    BY <1>6 DEF Close
  <1>4. CASE Pass
    <2>1. \A a \in Attempts : (IF lease[a] > 0 THEN lease[a] - 1 ELSE 0) \in 0..Expiry
      OBVIOUS
    <2> QED
      BY <1>4, <2>1 DEF Pass
  <1>5. CASE UNCHANGED vars
    BY <1>5 DEF vars
  <1> QED
    BY <1>1, <1>2, <1>3, <1>4, <1>5, <1>6 DEF Next

LEMMA LeaseOfLatestNext ==
    ASSUME LeaseAssumption, TypeOK, LeaseOfLatest, [Next]_vars
    PROVE  LeaseOfLatest'
  <1> USE DEF LeaseAssumption, TypeOK, LeaseOfLatest
  <1>1. ASSUME NEW a \in Attempts, Grant(a)
        PROVE  LeaseOfLatest'
    BY <1>1 DEF Grant, FreeFor
  <1>2. ASSUME NEW a \in Attempts, Renew(a)
        PROVE  LeaseOfLatest'
    BY <1>2 DEF Renew
  <1>3. ASSUME NEW a \in Attempts, Lose(a) \/ Close(a)
        PROVE  LeaseOfLatest'
    BY <1>3 DEF Lose, Close
  <1>4. CASE Pass
    BY <1>4 DEF Pass
  <1>5. CASE UNCHANGED vars
    BY <1>5 DEF vars
  <1> QED
    BY <1>1, <1>2, <1>3, <1>4, <1>5 DEF Next

\* Nobody has time left while somebody else does.
THEOREM OneLeaseCorrect ==
    ASSUME LeaseAssumption
    PROVE  Spec => []OneLeaseAtATime
  <1>1. Init => LeaseOfLatest
    BY DEF Init, LeaseOfLatest
  <1>2. LeaseOfLatest => OneLeaseAtATime
    BY DEF LeaseOfLatest, OneLeaseAtATime
  <1> QED
    BY <1>1, <1>2, TypeInit, TypeNext, LeaseOfLatestNext, PTL DEF Spec
=============================================================================
