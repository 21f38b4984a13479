---------------------------- MODULE RedLockProofs ----------------------------
(* Theorems about RedLock, for any servers, any attempts and any times. *)
EXTENDS RedLockInv, FiniteSetTheorems, TLAPS

-----------------------------------------------------------------------------
(* The thresholds of helper.rs                                             *)

\* The thresholds fit together: a majority can still be reached exactly as
\* long as the loop of helper.rs does not give up.
LEMMA MajorityRuledOut ==
    ASSUME NEW n \in Nat \ {0}, NEW f \in 0..n
    PROVE  HasTooManyFailuresOrFaults(f, n) <=> ~HasSufficientSuccesses(n - f, n)
  BY SMT DEF HasTooManyFailuresOrFaults, HasSufficientSuccesses,
             SuccessThreshold, FailureThreshold

\* When every answer is in, exactly one of the two thresholds is reached: the
\* code after the counting loops (the final check of extend_redlock, the last
\* branch of release_redlock, the `else` of acquire_redlock) decides nothing.
THEOREM ThresholdDichotomy ==
    ASSUME NEW n \in Nat \ {0}, NEW s \in Nat, NEW f \in Nat, s + f = n
    PROVE  HasSufficientSuccesses(s, n) <=> ~HasTooManyFailuresOrFaults(f, n)
  BY SMT DEF HasTooManyFailuresOrFaults, HasSufficientSuccesses,
             SuccessThreshold, FailureThreshold

\* A larger set never has a smaller majority.
LEMMA ThresholdMonotone ==
    ASSUME NEW m \in Nat, NEW n \in Nat, m <= n
    PROVE  SuccessThreshold(m) <= SuccessThreshold(n)
  BY SMT DEF SuccessThreshold

LEMMA ThresholdType ==
    ASSUME NEW n \in Nat
    PROVE  SuccessThreshold(n) \in Nat \ {0}
  BY SMT DEF SuccessThreshold

\* Extending on a majority of the acquired clients, as extend_redlock does,
\* still excludes another acquisition for up to four clients and for six,
\* and for no other number: five, the larger of the recommended sizes, is
\* not among them.
THEOREM ExtensionQuorumSizes ==
    ASSUME NEW n \in Nat \ {0}
    PROVE  ExtensionQuorumsIntersect(n) <=> n \in {1, 2, 3, 4, 6}
  BY SMT DEF ExtensionQuorumsIntersect, SuccessThreshold

\* The acquire timeout leaves min_validity of the expiry.
LEMMA BudgetBound ==
    ASSUME NEW expiry \in Nat, NEW validity \in Nat
    PROVE  /\ AcquireTimeout(expiry, validity) \in 0..expiry
           /\ expiry > validity => expiry - AcquireTimeout(expiry, validity) = validity
  BY SMT DEF AcquireTimeout

-----------------------------------------------------------------------------
(* The inductive invariant                                                 *)

LEMMA BudgetType == Budget \in 0..Expiry /\ MinRenewal \in 0..Expiry
  <1>1. Expiry \in Nat
    BY TimesAssumption
  <1>2. AcquireTimeout(Expiry, MinValidity) \in 0..Expiry
    BY BudgetBound, TimesAssumption
  <1>3. Budget \in 0..Expiry
    BY <1>2 DEF Budget
  <1> QED
    BY <1>1, <1>3 DEF MinRenewal

LEMMA InitType == Init => TypeOK
  BY TimesAssumption, BudgetType DEF Init, TypeOK, NoReq, PcStates, SetStates, ExtStates, ReqStates

LEMMA NextType == TypeOK /\ [Next]_vars => TypeOK'
  <1> SUFFICES ASSUME TypeOK, [Next]_vars PROVE TypeOK'
    OBVIOUS
  <1> USE IdsAssumption, TimesAssumption, BudgetType
  <1> USE DEF TypeOK, NoReq, PcStates, SetStates, ExtStates, ReqStates,
              vars, redis, call, task, ghost
  <1>1. ASSUME NEW a \in Attempts, AcquireStart(a)
        PROVE  TypeOK'
    BY <1>1 DEF AcquireStart
  <1>2. ASSUME NEW a \in Attempts, AcquireCancelled(a)
        PROVE  TypeOK'
    BY <1>2 DEF AcquireCancelled, ReturnEmpty, AbortAcquire
  <1>3. ASSUME NEW a \in Attempts, ReleaseStart(a)
        PROVE  TypeOK'
    BY <1>3 DEF ReleaseStart, StopTask
  <1>4. ASSUME NEW a \in Attempts, DropHandle(a)
        PROVE  TypeOK'
    BY <1>4 DEF DropHandle, StopTask
  <1>5. ASSUME NEW a \in Attempts, AcquireTimedOut(a)
        PROVE  TypeOK'
    BY <1>5 DEF AcquireTimedOut, ReturnEmpty, AbortAcquire
  <1>6. ASSUME NEW a \in Attempts, ExtendStart(a)
        PROVE  TypeOK'
    BY <1>6 DEF ExtendStart
  <1>7. ASSUME NEW a \in Attempts, ExtendSucceeds(a)
        PROVE  TypeOK'
    BY <1>7 DEF ExtendSucceeds, EndRound
  <1>8. ASSUME NEW a \in Attempts, ExtendFails(a)
        PROVE  TypeOK'
    BY <1>8 DEF ExtendFails, EndRound
  <1>9. ASSUME NEW a \in Attempts, ExtendPanics(a)
        PROVE  TypeOK'
    BY <1>9 DEF ExtendPanics, EndRound
  <1>10. ASSUME NEW a \in Attempts, ExtendSleeps(a)
        PROVE  TypeOK'
    BY <1>10 DEF ExtendSleeps
  <1>11. ASSUME NEW a \in Attempts, ExtendInconclusive(a)
        PROVE  TypeOK'
    BY <1>11 DEF ExtendInconclusive, EndRound
  <1>12. ASSUME NEW a \in Attempts, ReleaseDone(a)
        PROVE  TypeOK'
    BY <1>12 DEF ReleaseDone
  <1>13. ASSUME NEW a \in Attempts, NEW s \in Servers, SetApplied(a, s)
        PROVE  TypeOK'
    BY <1>13 DEF SetApplied, SetNX, Answer
  <1>14. ASSUME NEW a \in Attempts, NEW s \in Servers, SetRefused(a, s)
        PROVE  TypeOK'
    BY <1>14 DEF SetRefused
  <1>15. ASSUME NEW a \in Attempts, NEW s \in Servers, ExtendApplied(a, s)
        PROVE  TypeOK'
    BY <1>15 DEF ExtendApplied, ExtendScript, Answer
  <1>16. ASSUME NEW a \in Attempts, NEW s \in Servers, ExtendLost(a, s)
        PROVE  TypeOK'
    BY <1>16 DEF ExtendLost
  <1>17. ASSUME NEW a \in Attempts, NEW s \in Servers, StrayExtend(a, s)
        PROVE  TypeOK'
    <2>1. CASE ExtendScript(s, LockOf[a])
      BY <1>17, <2>1 DEF StrayExtend, ExtendScript
    <2>2. CASE UNCHANGED redis
      BY <1>17, <2>2 DEF StrayExtend
    <2> QED
      BY <1>17, <2>1, <2>2 DEF StrayExtend
  <1>18. ASSUME NEW a \in Attempts, NEW s \in Servers, ReleaseApplied(a, s)
        PROVE  TypeOK'
    BY <1>18 DEF ReleaseApplied, ReleaseScript
  <1>19. ASSUME NEW a \in Attempts, NEW s \in Servers, ReleaseLost(a, s)
        PROVE  TypeOK'
    BY <1>19 DEF ReleaseLost
  <1>20. ASSUME NEW a \in Attempts, NEW s \in Servers, JoinSuccess(a, s)
        PROVE  TypeOK'
    BY <1>20 DEF JoinSuccess
  <1>21. ASSUME NEW a \in Attempts, NEW s \in Servers, JoinGranted(a, s)
        PROVE  TypeOK'
    BY <1>21 DEF JoinGranted, AbortAcquire
  <1>22. ASSUME NEW a \in Attempts, NEW s \in Servers, JoinFailure(a, s)
        PROVE  TypeOK'
    BY <1>22 DEF JoinFailure
  <1>23. ASSUME NEW a \in Attempts, NEW s \in Servers, JoinGivesUp(a, s)
        PROVE  TypeOK'
    BY <1>23 DEF JoinGivesUp, ReturnEmpty, AbortAcquire
  <1>24. CASE Tick
    BY <1>24 DEF Tick, NothingUrgent, Down, Live
  <1>25. CASE UNCHANGED vars
    BY <1>25
  <1> QED
    BY <1>1, <1>2, <1>3, <1>4, <1>5, <1>6, <1>7, <1>8, <1>9, <1>10, <1>11, <1>12, <1>13, <1>14, <1>15, <1>16, <1>17, <1>18, <1>19, <1>20, <1>21, <1>22, <1>23, <1>24, <1>25 DEF Next, AttemptStep, UserStep, TaskStep, ServerStep, JoinStep

\* Every variable keeps its type: in particular no clock leaves its range and
\* no acquire runs longer than its budget and the lag of the runtime.
THEOREM TypeCorrect == Spec => []TypeOK
  BY InitType, NextType, PTL DEF Spec

-----------------------------------------------------------------------------
(* The inductive invariant, conjunct by conjunct                           *)

LEMMA BookkeepingStep == TypeOK /\ Bookkeeping /\ [Next]_vars => Bookkeeping'
  <1> SUFFICES ASSUME TypeOK, Bookkeeping, [Next]_vars PROVE Bookkeeping'
    OBVIOUS
  <1> USE IdsAssumption, TimesAssumption, BudgetType
  <1> USE DEF TypeOK, Bookkeeping, NoReq, SetStates, ReqStates,
              vars, redis, call, task, ghost
  <1>1. ASSUME NEW a \in Attempts, AcquireStart(a)
        PROVE  Bookkeeping'
    BY <1>1 DEF AcquireStart
  <1>2. ASSUME NEW a \in Attempts, AcquireCancelled(a)
        PROVE  Bookkeeping'
    BY <1>2 DEF AcquireCancelled, ReturnEmpty, AbortAcquire
  <1>3. ASSUME NEW a \in Attempts, ReleaseStart(a)
        PROVE  Bookkeeping'
    BY <1>3 DEF ReleaseStart, StopTask
  <1>4. ASSUME NEW a \in Attempts, DropHandle(a)
        PROVE  Bookkeeping'
    BY <1>4 DEF DropHandle, StopTask
  <1>5. ASSUME NEW a \in Attempts, AcquireTimedOut(a)
        PROVE  Bookkeeping'
    BY <1>5 DEF AcquireTimedOut, ReturnEmpty, AbortAcquire
  <1>6. ASSUME NEW a \in Attempts, ExtendStart(a)
        PROVE  Bookkeeping'
    BY <1>6 DEF ExtendStart
  <1>7. ASSUME NEW a \in Attempts, ExtendSucceeds(a)
        PROVE  Bookkeeping'
    BY <1>7 DEF ExtendSucceeds, EndRound
  <1>8. ASSUME NEW a \in Attempts, ExtendFails(a)
        PROVE  Bookkeeping'
    BY <1>8 DEF ExtendFails, EndRound
  <1>9. ASSUME NEW a \in Attempts, ExtendPanics(a)
        PROVE  Bookkeeping'
    BY <1>9 DEF ExtendPanics, EndRound
  <1>10. ASSUME NEW a \in Attempts, ExtendSleeps(a)
        PROVE  Bookkeeping'
    BY <1>10 DEF ExtendSleeps, Oks, Fails, Reached
  <1>11. ASSUME NEW a \in Attempts, ExtendInconclusive(a)
        PROVE  Bookkeeping'
    BY <1>11 DEF ExtendInconclusive, EndRound
  <1>12. ASSUME NEW a \in Attempts, ReleaseDone(a)
        PROVE  Bookkeeping'
    BY <1>12 DEF ReleaseDone
  <1>13. ASSUME NEW a \in Attempts, NEW s \in Servers, SetApplied(a, s)
        PROVE  Bookkeeping'
    BY <1>13 DEF SetApplied, SetNX, Answer
  <1>14. ASSUME NEW a \in Attempts, NEW s \in Servers, SetRefused(a, s)
        PROVE  Bookkeeping'
    BY <1>14 DEF SetRefused
  <1>15. ASSUME NEW a \in Attempts, NEW s \in Servers, ExtendApplied(a, s)
        PROVE  Bookkeeping'
    BY <1>15 DEF ExtendApplied, ExtendScript, Answer
  <1>16. ASSUME NEW a \in Attempts, NEW s \in Servers, ExtendLost(a, s)
        PROVE  Bookkeeping'
    BY <1>16 DEF ExtendLost
  <1>17. ASSUME NEW a \in Attempts, NEW s \in Servers, StrayExtend(a, s)
        PROVE  Bookkeeping'
    <2>1. CASE ExtendScript(s, LockOf[a])
      BY <1>17, <2>1 DEF StrayExtend, ExtendScript
    <2>2. CASE UNCHANGED redis
      BY <1>17, <2>2 DEF StrayExtend
    <2> QED
      BY <1>17, <2>1, <2>2 DEF StrayExtend
  <1>18. ASSUME NEW a \in Attempts, NEW s \in Servers, ReleaseApplied(a, s)
        PROVE  Bookkeeping'
    BY <1>18 DEF ReleaseApplied, ReleaseScript
  <1>19. ASSUME NEW a \in Attempts, NEW s \in Servers, ReleaseLost(a, s)
        PROVE  Bookkeeping'
    BY <1>19 DEF ReleaseLost
  <1>20. ASSUME NEW a \in Attempts, NEW s \in Servers, JoinSuccess(a, s)
        PROVE  Bookkeeping'
    BY <1>20 DEF JoinSuccess
  <1>21. ASSUME NEW a \in Attempts, NEW s \in Servers, JoinGranted(a, s)
        PROVE  Bookkeeping'
    BY <1>21 DEF JoinGranted, AbortAcquire
  <1>22. ASSUME NEW a \in Attempts, NEW s \in Servers, JoinFailure(a, s)
        PROVE  Bookkeeping'
    BY <1>22 DEF JoinFailure
  <1>23. ASSUME NEW a \in Attempts, NEW s \in Servers, JoinGivesUp(a, s)
        PROVE  Bookkeeping'
    BY <1>23 DEF JoinGivesUp, ReturnEmpty, AbortAcquire
  <1>24. CASE Tick
    BY <1>24 DEF Tick, NothingUrgent, Down, Live
  <1>25. CASE UNCHANGED vars
    BY <1>25
  <1> QED
    BY <1>1, <1>2, <1>3, <1>4, <1>5, <1>6, <1>7, <1>8, <1>9, <1>10, <1>11, <1>12, <1>13, <1>14, <1>15, <1>16, <1>17, <1>18, <1>19, <1>20, <1>21, <1>22, <1>23, <1>24, <1>25
    DEF Next, AttemptStep, UserStep, TaskStep, ServerStep, JoinStep

\* A release deletes only what the handle that is being released owns.
LEMMA ReleaseSpares ==
    ASSUME DistinctIds, TypeOK, Bookkeeping,
           NEW a \in Attempts, NEW s \in Servers, ReleaseApplied(a, s),
           NEW b \in Attempts, pc[b] # "releasing",
           NEW t \in Servers, owner[t] = LockOf[b]
    PROVE  owner'[t] = owner[t] /\ ttl'[t] = ttl[t]
  <1>1. pc[a] = "releasing"
    BY DEF Bookkeeping, ReleaseApplied
  <1>2. LockOf[a] # LockOf[b]
    BY <1>1 DEF DistinctIds
  <1> QED
    BY <1>2 DEF ReleaseApplied, ReleaseScript, TypeOK

LEMMA AcquiredKeysStep ==
    ASSUME DistinctIds, Timely, TypeOK, Bookkeeping, AcquiredKeysLive, [Next]_vars
    PROVE  AcquiredKeysLive'
  <1>0. ASSUME NEW a \in Attempts, NEW s \in Servers, ReleaseApplied(a, s)
        PROVE  AcquiredKeysLive'
    <2> SUFFICES ASSUME NEW b \in Attempts, NEW t \in Servers, pc[b] = "acquiring",
                        t \in acq[b] \/ setReq[b][t] = "true"
                 PROVE  KeptFor(b, t, Expiry - age[b])'
      BY <1>0 DEF ReleaseApplied, AcquiredKeysLive
    <2>1. KeptFor(b, t, Expiry - age[b])
      BY DEF AcquiredKeysLive
    <2>2. owner'[t] = owner[t] /\ ttl'[t] = ttl[t]
      BY <1>0, <2>1, ReleaseSpares DEF KeptFor
    <2> QED
      BY <1>0, <2>1, <2>2 DEF ReleaseApplied, KeptFor
  <1> USE IdsAssumption, TimesAssumption, BudgetType
  <1> USE DEF DistinctIds, Timely, TypeOK, Bookkeeping, AcquiredKeysLive, KeptFor, NoReq,
              vars, redis, call, task, ghost
  <1>1. ASSUME NEW a \in Attempts, AcquireStart(a)
        PROVE  AcquiredKeysLive'
    BY <1>1 DEF AcquireStart
  <1>2. ASSUME NEW a \in Attempts, AcquireCancelled(a)
        PROVE  AcquiredKeysLive'
    BY <1>2 DEF AcquireCancelled, ReturnEmpty, AbortAcquire
  <1>3. ASSUME NEW a \in Attempts, ReleaseStart(a)
        PROVE  AcquiredKeysLive'
    BY <1>3 DEF ReleaseStart, StopTask
  <1>4. ASSUME NEW a \in Attempts, DropHandle(a)
        PROVE  AcquiredKeysLive'
    BY <1>4 DEF DropHandle, StopTask
  <1>5. ASSUME NEW a \in Attempts, AcquireTimedOut(a)
        PROVE  AcquiredKeysLive'
    BY <1>5 DEF AcquireTimedOut, ReturnEmpty, AbortAcquire
  <1>6. ASSUME NEW a \in Attempts, ExtendStart(a)
        PROVE  AcquiredKeysLive'
    BY <1>6 DEF ExtendStart
  <1>7. ASSUME NEW a \in Attempts, ExtendSucceeds(a)
        PROVE  AcquiredKeysLive'
    BY <1>7 DEF ExtendSucceeds, EndRound
  <1>8. ASSUME NEW a \in Attempts, ExtendFails(a)
        PROVE  AcquiredKeysLive'
    BY <1>8 DEF ExtendFails, EndRound
  <1>9. ASSUME NEW a \in Attempts, ExtendPanics(a)
        PROVE  AcquiredKeysLive'
    BY <1>9 DEF ExtendPanics, EndRound
  <1>10. ASSUME NEW a \in Attempts, ExtendSleeps(a)
        PROVE  AcquiredKeysLive'
    BY <1>10 DEF ExtendSleeps, Oks, Fails, Reached
  <1>11. ASSUME NEW a \in Attempts, ExtendInconclusive(a)
        PROVE  AcquiredKeysLive'
    BY <1>11 DEF ExtendInconclusive, EndRound
  <1>12. ASSUME NEW a \in Attempts, ReleaseDone(a)
        PROVE  AcquiredKeysLive'
    BY <1>12 DEF ReleaseDone
  <1>13. ASSUME NEW a \in Attempts, NEW s \in Servers, SetApplied(a, s)
        PROVE  AcquiredKeysLive'
    BY <1>13 DEF SetApplied, SetNX, Answer
  <1>14. ASSUME NEW a \in Attempts, NEW s \in Servers, SetRefused(a, s)
        PROVE  AcquiredKeysLive'
    BY <1>14 DEF SetRefused
  <1>15. ASSUME NEW a \in Attempts, NEW s \in Servers, ExtendApplied(a, s)
        PROVE  AcquiredKeysLive'
    BY <1>15 DEF ExtendApplied, ExtendScript, Answer
  <1>16. ASSUME NEW a \in Attempts, NEW s \in Servers, ExtendLost(a, s)
        PROVE  AcquiredKeysLive'
    BY <1>16 DEF ExtendLost
  <1>17. ASSUME NEW a \in Attempts, NEW s \in Servers, StrayExtend(a, s)
        PROVE  AcquiredKeysLive'
    <2>1. CASE ExtendScript(s, LockOf[a])
      BY <1>17, <2>1 DEF StrayExtend, ExtendScript
    <2>2. CASE UNCHANGED redis
      BY <1>17, <2>2 DEF StrayExtend
    <2> QED
      BY <1>17, <2>1, <2>2 DEF StrayExtend
  <1>19. ASSUME NEW a \in Attempts, NEW s \in Servers, ReleaseLost(a, s)
        PROVE  AcquiredKeysLive'
    BY <1>19 DEF ReleaseLost
  <1>20. ASSUME NEW a \in Attempts, NEW s \in Servers, JoinSuccess(a, s)
        PROVE  AcquiredKeysLive'
    BY <1>20 DEF JoinSuccess
  <1>21. ASSUME NEW a \in Attempts, NEW s \in Servers, JoinGranted(a, s)
        PROVE  AcquiredKeysLive'
    BY <1>21 DEF JoinGranted, AbortAcquire
  <1>22. ASSUME NEW a \in Attempts, NEW s \in Servers, JoinFailure(a, s)
        PROVE  AcquiredKeysLive'
    BY <1>22 DEF JoinFailure
  <1>23. ASSUME NEW a \in Attempts, NEW s \in Servers, JoinGivesUp(a, s)
        PROVE  AcquiredKeysLive'
    BY <1>23 DEF JoinGivesUp, ReturnEmpty, AbortAcquire
  <1>24. CASE Tick
    BY <1>24 DEF Tick, NothingUrgent, Down, Live
  <1>25. CASE UNCHANGED vars
    BY <1>25
  <1> QED
    BY <1>1, <1>2, <1>3, <1>4, <1>5, <1>6, <1>7, <1>8, <1>9, <1>10, <1>11, <1>12, <1>13, <1>14, <1>15, <1>16, <1>17, <1>0, <1>19, <1>20, <1>21, <1>22, <1>23, <1>24, <1>25
    DEF Next, AttemptStep, UserStep, TaskStep, ServerStep, JoinStep

LEMMA ExtendedKeysStep ==
    ASSUME DistinctIds, TypeOK, Bookkeeping, ExtendedKeysLive, [Next]_vars
    PROVE  ExtendedKeysLive'
  <1>0. ASSUME NEW a \in Attempts, NEW s \in Servers, ReleaseApplied(a, s)
        PROVE  ExtendedKeysLive'
    <2> SUFFICES ASSUME NEW b \in Attempts, NEW t \in Servers,
                        extReq[b][t] \in {"true", "okSeen"}, extAge[b] < Budget
                 PROVE  KeptFor(b, t, Expiry - extAge[b])'
      BY <1>0 DEF ReleaseApplied, ExtendedKeysLive, task
    <2>1. KeptFor(b, t, Expiry - extAge[b]) /\ pc[b] = "held"
      BY DEF ExtendedKeysLive, Bookkeeping
    <2>2. owner'[t] = owner[t] /\ ttl'[t] = ttl[t]
      BY <1>0, <2>1, ReleaseSpares DEF KeptFor
    <2> QED
      BY <1>0, <2>1, <2>2 DEF ReleaseApplied, KeptFor, task
  <1> USE IdsAssumption, TimesAssumption, BudgetType
  <1> USE DEF DistinctIds, TypeOK, Bookkeeping, ExtendedKeysLive, KeptFor, NoReq,
              vars, redis, call, task, ghost
  <1>1. ASSUME NEW a \in Attempts, AcquireStart(a)
        PROVE  ExtendedKeysLive'
    BY <1>1 DEF AcquireStart
  <1>2. ASSUME NEW a \in Attempts, AcquireCancelled(a)
        PROVE  ExtendedKeysLive'
    BY <1>2 DEF AcquireCancelled, ReturnEmpty, AbortAcquire
  <1>3. ASSUME NEW a \in Attempts, ReleaseStart(a)
        PROVE  ExtendedKeysLive'
    BY <1>3 DEF ReleaseStart, StopTask
  <1>4. ASSUME NEW a \in Attempts, DropHandle(a)
        PROVE  ExtendedKeysLive'
    BY <1>4 DEF DropHandle, StopTask
  <1>5. ASSUME NEW a \in Attempts, AcquireTimedOut(a)
        PROVE  ExtendedKeysLive'
    BY <1>5 DEF AcquireTimedOut, ReturnEmpty, AbortAcquire
  <1>6. ASSUME NEW a \in Attempts, ExtendStart(a)
        PROVE  ExtendedKeysLive'
    BY <1>6 DEF ExtendStart
  <1>7. ASSUME NEW a \in Attempts, ExtendSucceeds(a)
        PROVE  ExtendedKeysLive'
    BY <1>7 DEF ExtendSucceeds, EndRound
  <1>8. ASSUME NEW a \in Attempts, ExtendFails(a)
        PROVE  ExtendedKeysLive'
    BY <1>8 DEF ExtendFails, EndRound
  <1>9. ASSUME NEW a \in Attempts, ExtendPanics(a)
        PROVE  ExtendedKeysLive'
    BY <1>9 DEF ExtendPanics, EndRound
  <1>10. ASSUME NEW a \in Attempts, ExtendSleeps(a)
        PROVE  ExtendedKeysLive'
    BY <1>10 DEF ExtendSleeps, Oks, Fails, Reached
  <1>11. ASSUME NEW a \in Attempts, ExtendInconclusive(a)
        PROVE  ExtendedKeysLive'
    BY <1>11 DEF ExtendInconclusive, EndRound
  <1>12. ASSUME NEW a \in Attempts, ReleaseDone(a)
        PROVE  ExtendedKeysLive'
    BY <1>12 DEF ReleaseDone
  <1>13. ASSUME NEW a \in Attempts, NEW s \in Servers, SetApplied(a, s)
        PROVE  ExtendedKeysLive'
    BY <1>13 DEF SetApplied, SetNX, Answer
  <1>14. ASSUME NEW a \in Attempts, NEW s \in Servers, SetRefused(a, s)
        PROVE  ExtendedKeysLive'
    BY <1>14 DEF SetRefused
  <1>15. ASSUME NEW a \in Attempts, NEW s \in Servers, ExtendApplied(a, s)
        PROVE  ExtendedKeysLive'
    BY <1>15 DEF ExtendApplied, ExtendScript, Answer
  <1>16. ASSUME NEW a \in Attempts, NEW s \in Servers, ExtendLost(a, s)
        PROVE  ExtendedKeysLive'
    BY <1>16 DEF ExtendLost
  <1>17. ASSUME NEW a \in Attempts, NEW s \in Servers, StrayExtend(a, s)
        PROVE  ExtendedKeysLive'
    <2>1. CASE ExtendScript(s, LockOf[a])
      BY <1>17, <2>1 DEF StrayExtend, ExtendScript
    <2>2. CASE UNCHANGED redis
      BY <1>17, <2>2 DEF StrayExtend
    <2> QED
      BY <1>17, <2>1, <2>2 DEF StrayExtend
  <1>19. ASSUME NEW a \in Attempts, NEW s \in Servers, ReleaseLost(a, s)
        PROVE  ExtendedKeysLive'
    BY <1>19 DEF ReleaseLost
  <1>20. ASSUME NEW a \in Attempts, NEW s \in Servers, JoinSuccess(a, s)
        PROVE  ExtendedKeysLive'
    BY <1>20 DEF JoinSuccess
  <1>21. ASSUME NEW a \in Attempts, NEW s \in Servers, JoinGranted(a, s)
        PROVE  ExtendedKeysLive'
    BY <1>21 DEF JoinGranted, AbortAcquire
  <1>22. ASSUME NEW a \in Attempts, NEW s \in Servers, JoinFailure(a, s)
        PROVE  ExtendedKeysLive'
    BY <1>22 DEF JoinFailure
  <1>23. ASSUME NEW a \in Attempts, NEW s \in Servers, JoinGivesUp(a, s)
        PROVE  ExtendedKeysLive'
    BY <1>23 DEF JoinGivesUp, ReturnEmpty, AbortAcquire
  <1>24. CASE Tick
    BY <1>24 DEF Tick, NothingUrgent, Down, Live
  <1>25. CASE UNCHANGED vars
    BY <1>25
  <1> QED
    BY <1>1, <1>2, <1>3, <1>4, <1>5, <1>6, <1>7, <1>8, <1>9, <1>10, <1>11, <1>12, <1>13, <1>14, <1>15, <1>16, <1>17, <1>0, <1>19, <1>20, <1>21, <1>22, <1>23, <1>24, <1>25
    DEF Next, AttemptStep, UserStep, TaskStep, ServerStep, JoinStep

LEMMA OwnedShrinks ==
    ASSUME DistinctIds, TypeOK, Bookkeeping, [Next]_vars,
           NEW b \in Attempts, pc[b] = "held", pc'[b] = "held"
    PROVE  acq'[b] = acq[b] /\ Owned(b)' \subseteq Owned(b)
  <1> USE IdsAssumption
  <1> USE DEF DistinctIds, TypeOK, Bookkeeping, Owned, vars, redis, call, task, ghost
  <1>1. ASSUME NEW a \in Attempts, AcquireStart(a)
        PROVE  acq'[b] = acq[b] /\ Owned(b)' \subseteq Owned(b)
    BY <1>1 DEF AcquireStart
  <1>2. ASSUME NEW a \in Attempts, AcquireCancelled(a)
        PROVE  acq'[b] = acq[b] /\ Owned(b)' \subseteq Owned(b)
    BY <1>2 DEF AcquireCancelled, ReturnEmpty, AbortAcquire
  <1>3. ASSUME NEW a \in Attempts, ReleaseStart(a)
        PROVE  acq'[b] = acq[b] /\ Owned(b)' \subseteq Owned(b)
    BY <1>3 DEF ReleaseStart, StopTask
  <1>4. ASSUME NEW a \in Attempts, DropHandle(a)
        PROVE  acq'[b] = acq[b] /\ Owned(b)' \subseteq Owned(b)
    BY <1>4 DEF DropHandle, StopTask
  <1>5. ASSUME NEW a \in Attempts, AcquireTimedOut(a)
        PROVE  acq'[b] = acq[b] /\ Owned(b)' \subseteq Owned(b)
    BY <1>5 DEF AcquireTimedOut, ReturnEmpty, AbortAcquire
  <1>6. ASSUME NEW a \in Attempts, ExtendStart(a)
        PROVE  acq'[b] = acq[b] /\ Owned(b)' \subseteq Owned(b)
    BY <1>6 DEF ExtendStart
  <1>7. ASSUME NEW a \in Attempts, ExtendSucceeds(a)
        PROVE  acq'[b] = acq[b] /\ Owned(b)' \subseteq Owned(b)
    BY <1>7 DEF ExtendSucceeds, EndRound
  <1>8. ASSUME NEW a \in Attempts, ExtendFails(a)
        PROVE  acq'[b] = acq[b] /\ Owned(b)' \subseteq Owned(b)
    BY <1>8 DEF ExtendFails, EndRound
  <1>9. ASSUME NEW a \in Attempts, ExtendPanics(a)
        PROVE  acq'[b] = acq[b] /\ Owned(b)' \subseteq Owned(b)
    BY <1>9 DEF ExtendPanics, EndRound
  <1>10. ASSUME NEW a \in Attempts, ExtendSleeps(a)
        PROVE  acq'[b] = acq[b] /\ Owned(b)' \subseteq Owned(b)
    BY <1>10 DEF ExtendSleeps, Oks, Fails, Reached
  <1>11. ASSUME NEW a \in Attempts, ExtendInconclusive(a)
        PROVE  acq'[b] = acq[b] /\ Owned(b)' \subseteq Owned(b)
    BY <1>11 DEF ExtendInconclusive, EndRound
  <1>12. ASSUME NEW a \in Attempts, ReleaseDone(a)
        PROVE  acq'[b] = acq[b] /\ Owned(b)' \subseteq Owned(b)
    BY <1>12 DEF ReleaseDone
  <1>13. ASSUME NEW a \in Attempts, NEW s \in Servers, SetApplied(a, s)
        PROVE  acq'[b] = acq[b] /\ Owned(b)' \subseteq Owned(b)
    BY <1>13 DEF SetApplied, SetNX, Answer
  <1>14. ASSUME NEW a \in Attempts, NEW s \in Servers, SetRefused(a, s)
        PROVE  acq'[b] = acq[b] /\ Owned(b)' \subseteq Owned(b)
    BY <1>14 DEF SetRefused
  <1>15. ASSUME NEW a \in Attempts, NEW s \in Servers, ExtendApplied(a, s)
        PROVE  acq'[b] = acq[b] /\ Owned(b)' \subseteq Owned(b)
    BY <1>15 DEF ExtendApplied, ExtendScript, Answer
  <1>16. ASSUME NEW a \in Attempts, NEW s \in Servers, ExtendLost(a, s)
        PROVE  acq'[b] = acq[b] /\ Owned(b)' \subseteq Owned(b)
    BY <1>16 DEF ExtendLost
  <1>17. ASSUME NEW a \in Attempts, NEW s \in Servers, StrayExtend(a, s)
        PROVE  acq'[b] = acq[b] /\ Owned(b)' \subseteq Owned(b)
    <2>1. CASE ExtendScript(s, LockOf[a])
      BY <1>17, <2>1 DEF StrayExtend, ExtendScript
    <2>2. CASE UNCHANGED redis
      BY <1>17, <2>2 DEF StrayExtend
    <2> QED
      BY <1>17, <2>1, <2>2 DEF StrayExtend
  <1>18. ASSUME NEW a \in Attempts, NEW s \in Servers, ReleaseApplied(a, s)
        PROVE  acq'[b] = acq[b] /\ Owned(b)' \subseteq Owned(b)
    BY <1>18 DEF ReleaseApplied, ReleaseScript
  <1>19. ASSUME NEW a \in Attempts, NEW s \in Servers, ReleaseLost(a, s)
        PROVE  acq'[b] = acq[b] /\ Owned(b)' \subseteq Owned(b)
    BY <1>19 DEF ReleaseLost
  <1>20. ASSUME NEW a \in Attempts, NEW s \in Servers, JoinSuccess(a, s)
        PROVE  acq'[b] = acq[b] /\ Owned(b)' \subseteq Owned(b)
    BY <1>20 DEF JoinSuccess
  <1>21. ASSUME NEW a \in Attempts, NEW s \in Servers, JoinGranted(a, s)
        PROVE  acq'[b] = acq[b] /\ Owned(b)' \subseteq Owned(b)
    BY <1>21 DEF JoinGranted, AbortAcquire
  <1>22. ASSUME NEW a \in Attempts, NEW s \in Servers, JoinFailure(a, s)
        PROVE  acq'[b] = acq[b] /\ Owned(b)' \subseteq Owned(b)
    BY <1>22 DEF JoinFailure
  <1>23. ASSUME NEW a \in Attempts, NEW s \in Servers, JoinGivesUp(a, s)
        PROVE  acq'[b] = acq[b] /\ Owned(b)' \subseteq Owned(b)
    BY <1>23 DEF JoinGivesUp, ReturnEmpty, AbortAcquire
  <1>24. CASE Tick
    BY <1>24 DEF Tick, NothingUrgent, Down, Live
  <1>25. CASE UNCHANGED vars
    BY <1>25
  <1> QED
    BY <1>1, <1>2, <1>3, <1>4, <1>5, <1>6, <1>7, <1>8, <1>9, <1>10, <1>11, <1>12, <1>13, <1>14, <1>15, <1>16, <1>17, <1>18, <1>19, <1>20, <1>21, <1>22, <1>23, <1>24, <1>25
    DEF Next, AttemptStep, UserStep, TaskStep, ServerStep, JoinStep

LEMMA LeaseSources ==
    ASSUME TypeOK, Bookkeeping, [Next]_vars, NEW b \in Attempts, lease'[b] > 0,
           ~ExtendSucceeds(b), \A s \in Servers : ~JoinGranted(b, s)
    PROVE  /\ pc[b] = "held" /\ pc'[b] = "held"
           /\ acq'[b] = acq[b] /\ lease[b] > 0
           /\ lease'[b] = lease[b] \/ Tick
  <1> USE IdsAssumption, TimesAssumption
  <1> USE DEF TypeOK, Bookkeeping, vars, redis, call, task, ghost
  <1>1. ASSUME NEW a \in Attempts, AcquireStart(a)
        PROVE  /\ pc[b] = "held" /\ pc'[b] = "held"
               /\ acq'[b] = acq[b] /\ lease[b] > 0
               /\ lease'[b] = lease[b] \/ Tick
    BY <1>1 DEF AcquireStart
  <1>2. ASSUME NEW a \in Attempts, AcquireCancelled(a)
        PROVE  /\ pc[b] = "held" /\ pc'[b] = "held"
               /\ acq'[b] = acq[b] /\ lease[b] > 0
               /\ lease'[b] = lease[b] \/ Tick
    BY <1>2 DEF AcquireCancelled, ReturnEmpty, AbortAcquire
  <1>3. ASSUME NEW a \in Attempts, ReleaseStart(a)
        PROVE  /\ pc[b] = "held" /\ pc'[b] = "held"
               /\ acq'[b] = acq[b] /\ lease[b] > 0
               /\ lease'[b] = lease[b] \/ Tick
    BY <1>3 DEF ReleaseStart, StopTask
  <1>4. ASSUME NEW a \in Attempts, DropHandle(a)
        PROVE  /\ pc[b] = "held" /\ pc'[b] = "held"
               /\ acq'[b] = acq[b] /\ lease[b] > 0
               /\ lease'[b] = lease[b] \/ Tick
    BY <1>4 DEF DropHandle, StopTask
  <1>5. ASSUME NEW a \in Attempts, AcquireTimedOut(a)
        PROVE  /\ pc[b] = "held" /\ pc'[b] = "held"
               /\ acq'[b] = acq[b] /\ lease[b] > 0
               /\ lease'[b] = lease[b] \/ Tick
    BY <1>5 DEF AcquireTimedOut, ReturnEmpty, AbortAcquire
  <1>6. ASSUME NEW a \in Attempts, ExtendStart(a)
        PROVE  /\ pc[b] = "held" /\ pc'[b] = "held"
               /\ acq'[b] = acq[b] /\ lease[b] > 0
               /\ lease'[b] = lease[b] \/ Tick
    BY <1>6 DEF ExtendStart
  <1>7. ASSUME NEW a \in Attempts, ExtendSucceeds(a)
        PROVE  /\ pc[b] = "held" /\ pc'[b] = "held"
               /\ acq'[b] = acq[b] /\ lease[b] > 0
               /\ lease'[b] = lease[b] \/ Tick
    <2>1. a # b
      BY <1>7
    <2> QED
      BY <1>7, <2>1 DEF ExtendSucceeds, EndRound
  <1>8. ASSUME NEW a \in Attempts, ExtendFails(a)
        PROVE  /\ pc[b] = "held" /\ pc'[b] = "held"
               /\ acq'[b] = acq[b] /\ lease[b] > 0
               /\ lease'[b] = lease[b] \/ Tick
    BY <1>8 DEF ExtendFails, EndRound
  <1>9. ASSUME NEW a \in Attempts, ExtendPanics(a)
        PROVE  /\ pc[b] = "held" /\ pc'[b] = "held"
               /\ acq'[b] = acq[b] /\ lease[b] > 0
               /\ lease'[b] = lease[b] \/ Tick
    BY <1>9 DEF ExtendPanics, EndRound
  <1>10. ASSUME NEW a \in Attempts, ExtendSleeps(a)
        PROVE  /\ pc[b] = "held" /\ pc'[b] = "held"
               /\ acq'[b] = acq[b] /\ lease[b] > 0
               /\ lease'[b] = lease[b] \/ Tick
    BY <1>10 DEF ExtendSleeps, Oks, Fails, Reached
  <1>11. ASSUME NEW a \in Attempts, ExtendInconclusive(a)
        PROVE  /\ pc[b] = "held" /\ pc'[b] = "held"
               /\ acq'[b] = acq[b] /\ lease[b] > 0
               /\ lease'[b] = lease[b] \/ Tick
    BY <1>11 DEF ExtendInconclusive, EndRound
  <1>12. ASSUME NEW a \in Attempts, ReleaseDone(a)
        PROVE  /\ pc[b] = "held" /\ pc'[b] = "held"
               /\ acq'[b] = acq[b] /\ lease[b] > 0
               /\ lease'[b] = lease[b] \/ Tick
    BY <1>12 DEF ReleaseDone
  <1>13. ASSUME NEW a \in Attempts, NEW s \in Servers, SetApplied(a, s)
        PROVE  /\ pc[b] = "held" /\ pc'[b] = "held"
               /\ acq'[b] = acq[b] /\ lease[b] > 0
               /\ lease'[b] = lease[b] \/ Tick
    BY <1>13 DEF SetApplied, SetNX, Answer
  <1>14. ASSUME NEW a \in Attempts, NEW s \in Servers, SetRefused(a, s)
        PROVE  /\ pc[b] = "held" /\ pc'[b] = "held"
               /\ acq'[b] = acq[b] /\ lease[b] > 0
               /\ lease'[b] = lease[b] \/ Tick
    BY <1>14 DEF SetRefused
  <1>15. ASSUME NEW a \in Attempts, NEW s \in Servers, ExtendApplied(a, s)
        PROVE  /\ pc[b] = "held" /\ pc'[b] = "held"
               /\ acq'[b] = acq[b] /\ lease[b] > 0
               /\ lease'[b] = lease[b] \/ Tick
    BY <1>15 DEF ExtendApplied, ExtendScript, Answer
  <1>16. ASSUME NEW a \in Attempts, NEW s \in Servers, ExtendLost(a, s)
        PROVE  /\ pc[b] = "held" /\ pc'[b] = "held"
               /\ acq'[b] = acq[b] /\ lease[b] > 0
               /\ lease'[b] = lease[b] \/ Tick
    BY <1>16 DEF ExtendLost
  <1>17. ASSUME NEW a \in Attempts, NEW s \in Servers, StrayExtend(a, s)
        PROVE  /\ pc[b] = "held" /\ pc'[b] = "held"
               /\ acq'[b] = acq[b] /\ lease[b] > 0
               /\ lease'[b] = lease[b] \/ Tick
    <2>1. CASE ExtendScript(s, LockOf[a])
      BY <1>17, <2>1 DEF StrayExtend, ExtendScript
    <2>2. CASE UNCHANGED redis
      BY <1>17, <2>2 DEF StrayExtend
    <2> QED
      BY <1>17, <2>1, <2>2 DEF StrayExtend
  <1>18. ASSUME NEW a \in Attempts, NEW s \in Servers, ReleaseApplied(a, s)
        PROVE  /\ pc[b] = "held" /\ pc'[b] = "held"
               /\ acq'[b] = acq[b] /\ lease[b] > 0
               /\ lease'[b] = lease[b] \/ Tick
    BY <1>18 DEF ReleaseApplied, ReleaseScript
  <1>19. ASSUME NEW a \in Attempts, NEW s \in Servers, ReleaseLost(a, s)
        PROVE  /\ pc[b] = "held" /\ pc'[b] = "held"
               /\ acq'[b] = acq[b] /\ lease[b] > 0
               /\ lease'[b] = lease[b] \/ Tick
    BY <1>19 DEF ReleaseLost
  <1>20. ASSUME NEW a \in Attempts, NEW s \in Servers, JoinSuccess(a, s)
        PROVE  /\ pc[b] = "held" /\ pc'[b] = "held"
               /\ acq'[b] = acq[b] /\ lease[b] > 0
               /\ lease'[b] = lease[b] \/ Tick
    BY <1>20 DEF JoinSuccess
  <1>21. ASSUME NEW a \in Attempts, NEW s \in Servers, JoinGranted(a, s)
        PROVE  /\ pc[b] = "held" /\ pc'[b] = "held"
               /\ acq'[b] = acq[b] /\ lease[b] > 0
               /\ lease'[b] = lease[b] \/ Tick
    <2>1. a # b
      BY <1>21
    <2> QED
      BY <1>21, <2>1 DEF JoinGranted, AbortAcquire
  <1>22. ASSUME NEW a \in Attempts, NEW s \in Servers, JoinFailure(a, s)
        PROVE  /\ pc[b] = "held" /\ pc'[b] = "held"
               /\ acq'[b] = acq[b] /\ lease[b] > 0
               /\ lease'[b] = lease[b] \/ Tick
    BY <1>22 DEF JoinFailure
  <1>23. ASSUME NEW a \in Attempts, NEW s \in Servers, JoinGivesUp(a, s)
        PROVE  /\ pc[b] = "held" /\ pc'[b] = "held"
               /\ acq'[b] = acq[b] /\ lease[b] > 0
               /\ lease'[b] = lease[b] \/ Tick
    BY <1>23 DEF JoinGivesUp, ReturnEmpty, AbortAcquire
  <1>24. CASE Tick
    BY <1>24 DEF Tick, NothingUrgent, Down, Live
  <1>25. CASE UNCHANGED vars
    BY <1>25
  <1> QED
    BY <1>1, <1>2, <1>3, <1>4, <1>5, <1>6, <1>7, <1>8, <1>9, <1>10, <1>11, <1>12, <1>13, <1>14, <1>15, <1>16, <1>17, <1>18, <1>19, <1>20, <1>21, <1>22, <1>23, <1>24, <1>25
    DEF Next, AttemptStep, UserStep, TaskStep, ServerStep, JoinStep

LEMMA KeysKept ==
    ASSUME DistinctIds, TypeOK, Bookkeeping, [Next]_vars, ~Tick,
           NEW b \in Attempts, pc[b] = "held",
           NEW t \in Servers, owner[t] = LockOf[b]
    PROVE  owner'[t] = LockOf[b] /\ ttl'[t] >= ttl[t]
  <1>0. ASSUME NEW a \in Attempts, NEW s \in Servers, ReleaseApplied(a, s)
        PROVE  owner'[t] = owner[t] /\ ttl'[t] = ttl[t]
    BY <1>0, ReleaseSpares
  <1> USE IdsAssumption, TimesAssumption
  <1> USE DEF TypeOK, vars, redis, call, task, ghost
  <1>1. ASSUME NEW a \in Attempts, AcquireStart(a)
        PROVE  owner'[t] = LockOf[b] /\ ttl'[t] >= ttl[t]
    BY <1>1 DEF AcquireStart
  <1>2. ASSUME NEW a \in Attempts, AcquireCancelled(a)
        PROVE  owner'[t] = LockOf[b] /\ ttl'[t] >= ttl[t]
    BY <1>2 DEF AcquireCancelled, ReturnEmpty, AbortAcquire
  <1>3. ASSUME NEW a \in Attempts, ReleaseStart(a)
        PROVE  owner'[t] = LockOf[b] /\ ttl'[t] >= ttl[t]
    BY <1>3 DEF ReleaseStart, StopTask
  <1>4. ASSUME NEW a \in Attempts, DropHandle(a)
        PROVE  owner'[t] = LockOf[b] /\ ttl'[t] >= ttl[t]
    BY <1>4 DEF DropHandle, StopTask
  <1>5. ASSUME NEW a \in Attempts, AcquireTimedOut(a)
        PROVE  owner'[t] = LockOf[b] /\ ttl'[t] >= ttl[t]
    BY <1>5 DEF AcquireTimedOut, ReturnEmpty, AbortAcquire
  <1>6. ASSUME NEW a \in Attempts, ExtendStart(a)
        PROVE  owner'[t] = LockOf[b] /\ ttl'[t] >= ttl[t]
    BY <1>6 DEF ExtendStart
  <1>7. ASSUME NEW a \in Attempts, ExtendSucceeds(a)
        PROVE  owner'[t] = LockOf[b] /\ ttl'[t] >= ttl[t]
    BY <1>7 DEF ExtendSucceeds, EndRound
  <1>8. ASSUME NEW a \in Attempts, ExtendFails(a)
        PROVE  owner'[t] = LockOf[b] /\ ttl'[t] >= ttl[t]
    BY <1>8 DEF ExtendFails, EndRound
  <1>9. ASSUME NEW a \in Attempts, ExtendPanics(a)
        PROVE  owner'[t] = LockOf[b] /\ ttl'[t] >= ttl[t]
    BY <1>9 DEF ExtendPanics, EndRound
  <1>10. ASSUME NEW a \in Attempts, ExtendSleeps(a)
        PROVE  owner'[t] = LockOf[b] /\ ttl'[t] >= ttl[t]
    BY <1>10 DEF ExtendSleeps, Oks, Fails, Reached
  <1>11. ASSUME NEW a \in Attempts, ExtendInconclusive(a)
        PROVE  owner'[t] = LockOf[b] /\ ttl'[t] >= ttl[t]
    BY <1>11 DEF ExtendInconclusive, EndRound
  <1>12. ASSUME NEW a \in Attempts, ReleaseDone(a)
        PROVE  owner'[t] = LockOf[b] /\ ttl'[t] >= ttl[t]
    BY <1>12 DEF ReleaseDone
  <1>13. ASSUME NEW a \in Attempts, NEW s \in Servers, SetApplied(a, s)
        PROVE  owner'[t] = LockOf[b] /\ ttl'[t] >= ttl[t]
    BY <1>13 DEF SetApplied, SetNX, Answer
  <1>14. ASSUME NEW a \in Attempts, NEW s \in Servers, SetRefused(a, s)
        PROVE  owner'[t] = LockOf[b] /\ ttl'[t] >= ttl[t]
    BY <1>14 DEF SetRefused
  <1>15. ASSUME NEW a \in Attempts, NEW s \in Servers, ExtendApplied(a, s)
        PROVE  owner'[t] = LockOf[b] /\ ttl'[t] >= ttl[t]
    BY <1>15 DEF ExtendApplied, ExtendScript, Answer
  <1>16. ASSUME NEW a \in Attempts, NEW s \in Servers, ExtendLost(a, s)
        PROVE  owner'[t] = LockOf[b] /\ ttl'[t] >= ttl[t]
    BY <1>16 DEF ExtendLost
  <1>17. ASSUME NEW a \in Attempts, NEW s \in Servers, StrayExtend(a, s)
        PROVE  owner'[t] = LockOf[b] /\ ttl'[t] >= ttl[t]
    <2>1. CASE ExtendScript(s, LockOf[a])
      BY <1>17, <2>1 DEF StrayExtend, ExtendScript
    <2>2. CASE UNCHANGED redis
      BY <1>17, <2>2 DEF StrayExtend
    <2> QED
      BY <1>17, <2>1, <2>2 DEF StrayExtend
  <1>18. ASSUME NEW a \in Attempts, NEW s \in Servers, ReleaseApplied(a, s)
        PROVE  owner'[t] = LockOf[b] /\ ttl'[t] >= ttl[t]
    BY <1>18, <1>0
  <1>19. ASSUME NEW a \in Attempts, NEW s \in Servers, ReleaseLost(a, s)
        PROVE  owner'[t] = LockOf[b] /\ ttl'[t] >= ttl[t]
    BY <1>19 DEF ReleaseLost
  <1>20. ASSUME NEW a \in Attempts, NEW s \in Servers, JoinSuccess(a, s)
        PROVE  owner'[t] = LockOf[b] /\ ttl'[t] >= ttl[t]
    BY <1>20 DEF JoinSuccess
  <1>21. ASSUME NEW a \in Attempts, NEW s \in Servers, JoinGranted(a, s)
        PROVE  owner'[t] = LockOf[b] /\ ttl'[t] >= ttl[t]
    BY <1>21 DEF JoinGranted, AbortAcquire
  <1>22. ASSUME NEW a \in Attempts, NEW s \in Servers, JoinFailure(a, s)
        PROVE  owner'[t] = LockOf[b] /\ ttl'[t] >= ttl[t]
    BY <1>22 DEF JoinFailure
  <1>23. ASSUME NEW a \in Attempts, NEW s \in Servers, JoinGivesUp(a, s)
        PROVE  owner'[t] = LockOf[b] /\ ttl'[t] >= ttl[t]
    BY <1>23 DEF JoinGivesUp, ReturnEmpty, AbortAcquire
  <1>24. CASE Tick
    BY <1>24
  <1>25. CASE UNCHANGED vars
    BY <1>25
  <1> QED
    BY <1>1, <1>2, <1>3, <1>4, <1>5, <1>6, <1>7, <1>8, <1>9, <1>10, <1>11, <1>12, <1>13, <1>14, <1>15, <1>16, <1>17, <1>18, <1>19, <1>20, <1>21, <1>22, <1>23, <1>24, <1>25
    DEF Next, AttemptStep, UserStep, TaskStep, ServerStep, JoinStep

LEMMA Sizes ==
    /\ N \in Nat \ {0}
    /\ Quorum \in Nat \ {0} /\ ExtendedQuorum \in Nat \ {0}
    /\ ExtendedQuorum <= Quorum
  <1>1. N \in Nat
    BY ServersAssumption, FS_CardinalityType DEF N
  <1>2. N # 0
    BY ServersAssumption, FS_EmptySet DEF N
  <1>3. Quorum \in Nat \ {0} /\ ExtendedQuorum \in Nat \ {0}
    BY <1>1, ThresholdType DEF Quorum, ExtendedQuorum
  <1> QED
    BY <1>1, <1>2, <1>3, SMT DEF ExtendedQuorum, SuccessThreshold

LEMMA SubsetSizes ==
    ASSUME NEW S \in SUBSET Servers
    PROVE  /\ IsFiniteSet(S)
           /\ Cardinality(S) \in 0..N
           /\ \A T \in SUBSET S : IsFiniteSet(T) /\ Cardinality(T) \in 0..Cardinality(S)
  <1>1. IsFiniteSet(S) /\ Cardinality(S) <= N /\ Cardinality(S) \in Nat /\ N \in Nat
    BY ServersAssumption, FS_Subset, FS_CardinalityType DEF N
  <1>2. ASSUME NEW T \in SUBSET S
        PROVE  IsFiniteSet(T) /\ Cardinality(T) \in 0..Cardinality(S)
    BY <1>1, FS_Subset, FS_CardinalityType
  <1> QED
    BY <1>1, <1>2

LEMMA FreshHandle ==
    ASSUME TypeOK, [Next]_vars, NEW b \in Attempts, pc[b] # "held", pc'[b] = "held"
    PROVE  \E s \in Servers : JoinGranted(b, s)
  <1> USE DEF TypeOK, vars, redis, call, task, ghost
  <1>1. ASSUME NEW a \in Attempts, AcquireStart(a)
        PROVE  \E t \in Servers : JoinGranted(b, t)
    BY <1>1 DEF AcquireStart
  <1>2. ASSUME NEW a \in Attempts, AcquireCancelled(a)
        PROVE  \E t \in Servers : JoinGranted(b, t)
    BY <1>2 DEF AcquireCancelled, ReturnEmpty, AbortAcquire
  <1>3. ASSUME NEW a \in Attempts, ReleaseStart(a)
        PROVE  \E t \in Servers : JoinGranted(b, t)
    BY <1>3 DEF ReleaseStart, StopTask
  <1>4. ASSUME NEW a \in Attempts, DropHandle(a)
        PROVE  \E t \in Servers : JoinGranted(b, t)
    BY <1>4 DEF DropHandle, StopTask
  <1>5. ASSUME NEW a \in Attempts, AcquireTimedOut(a)
        PROVE  \E t \in Servers : JoinGranted(b, t)
    BY <1>5 DEF AcquireTimedOut, ReturnEmpty, AbortAcquire
  <1>6. ASSUME NEW a \in Attempts, ExtendStart(a)
        PROVE  \E t \in Servers : JoinGranted(b, t)
    BY <1>6 DEF ExtendStart
  <1>7. ASSUME NEW a \in Attempts, ExtendSucceeds(a)
        PROVE  \E t \in Servers : JoinGranted(b, t)
    BY <1>7 DEF ExtendSucceeds, EndRound
  <1>8. ASSUME NEW a \in Attempts, ExtendFails(a)
        PROVE  \E t \in Servers : JoinGranted(b, t)
    BY <1>8 DEF ExtendFails, EndRound
  <1>9. ASSUME NEW a \in Attempts, ExtendPanics(a)
        PROVE  \E t \in Servers : JoinGranted(b, t)
    BY <1>9 DEF ExtendPanics, EndRound
  <1>10. ASSUME NEW a \in Attempts, ExtendSleeps(a)
        PROVE  \E t \in Servers : JoinGranted(b, t)
    BY <1>10 DEF ExtendSleeps, Oks, Fails, Reached
  <1>11. ASSUME NEW a \in Attempts, ExtendInconclusive(a)
        PROVE  \E t \in Servers : JoinGranted(b, t)
    BY <1>11 DEF ExtendInconclusive, EndRound
  <1>12. ASSUME NEW a \in Attempts, ReleaseDone(a)
        PROVE  \E t \in Servers : JoinGranted(b, t)
    BY <1>12 DEF ReleaseDone
  <1>13. ASSUME NEW a \in Attempts, NEW s \in Servers, SetApplied(a, s)
        PROVE  \E t \in Servers : JoinGranted(b, t)
    BY <1>13 DEF SetApplied, SetNX, Answer
  <1>14. ASSUME NEW a \in Attempts, NEW s \in Servers, SetRefused(a, s)
        PROVE  \E t \in Servers : JoinGranted(b, t)
    BY <1>14 DEF SetRefused
  <1>15. ASSUME NEW a \in Attempts, NEW s \in Servers, ExtendApplied(a, s)
        PROVE  \E t \in Servers : JoinGranted(b, t)
    BY <1>15 DEF ExtendApplied, ExtendScript, Answer
  <1>16. ASSUME NEW a \in Attempts, NEW s \in Servers, ExtendLost(a, s)
        PROVE  \E t \in Servers : JoinGranted(b, t)
    BY <1>16 DEF ExtendLost
  <1>17. ASSUME NEW a \in Attempts, NEW s \in Servers, StrayExtend(a, s)
        PROVE  \E t \in Servers : JoinGranted(b, t)
    <2>1. CASE ExtendScript(s, LockOf[a])
      BY <1>17, <2>1 DEF StrayExtend, ExtendScript
    <2>2. CASE UNCHANGED redis
      BY <1>17, <2>2 DEF StrayExtend
    <2> QED
      BY <1>17, <2>1, <2>2 DEF StrayExtend
  <1>18. ASSUME NEW a \in Attempts, NEW s \in Servers, ReleaseApplied(a, s)
        PROVE  \E t \in Servers : JoinGranted(b, t)
    BY <1>18 DEF ReleaseApplied, ReleaseScript
  <1>19. ASSUME NEW a \in Attempts, NEW s \in Servers, ReleaseLost(a, s)
        PROVE  \E t \in Servers : JoinGranted(b, t)
    BY <1>19 DEF ReleaseLost
  <1>20. ASSUME NEW a \in Attempts, NEW s \in Servers, JoinSuccess(a, s)
        PROVE  \E t \in Servers : JoinGranted(b, t)
    BY <1>20 DEF JoinSuccess
  <1>21. ASSUME NEW a \in Attempts, NEW s \in Servers, JoinGranted(a, s)
        PROVE  \E t \in Servers : JoinGranted(b, t)
    <2>1. a = b
      BY <1>21 DEF JoinGranted, AbortAcquire
    <2> QED
      BY <1>21, <2>1
  <1>22. ASSUME NEW a \in Attempts, NEW s \in Servers, JoinFailure(a, s)
        PROVE  \E t \in Servers : JoinGranted(b, t)
    BY <1>22 DEF JoinFailure
  <1>23. ASSUME NEW a \in Attempts, NEW s \in Servers, JoinGivesUp(a, s)
        PROVE  \E t \in Servers : JoinGranted(b, t)
    BY <1>23 DEF JoinGivesUp, ReturnEmpty, AbortAcquire
  <1>24. CASE Tick
    BY <1>24 DEF Tick, NothingUrgent, Down, Live
  <1>25. CASE UNCHANGED vars
    BY <1>25
  <1> QED
    BY <1>1, <1>2, <1>3, <1>4, <1>5, <1>6, <1>7, <1>8, <1>9, <1>10, <1>11, <1>12, <1>13, <1>14, <1>15, <1>16, <1>17, <1>18, <1>19, <1>20, <1>21, <1>22, <1>23, <1>24, <1>25
    DEF Next, AttemptStep, UserStep, TaskStep, ServerStep, JoinStep

\* The clients a new handle claims all hold its key, for what is left of the
\* expiry.
LEMMA GrantedKeys ==
    ASSUME Timely, TypeOK, AcquiredKeysLive,
           NEW a \in Attempts, NEW s \in Servers, JoinGranted(a, s)
    PROVE  /\ acq'[a] = acq[a] \cup {s}
           /\ acq'[a] \subseteq Servers
           /\ Cardinality(acq'[a]) >= Quorum
           /\ \A t \in acq'[a] : KeptFor(a, t, lease[a])'
           /\ lease'[a] = Expiry - age[a]
  <1> USE IdsAssumption, TimesAssumption, BudgetType DEF JoinGranted, AbortAcquire, TypeOK
  <1>1. acq'[a] = acq[a] \cup {s}
    OBVIOUS
  <1>2. Cardinality(acq[a] \cup {s}) >= Quorum
    BY DEF HasSufficientSuccesses, Quorum
  <1>3. lease'[a] = Expiry - age[a]
    BY DEF Timely
  <1>4. \A t \in acq'[a] : KeptFor(a, t, lease[a])'
    BY <1>1, <1>3 DEF AcquiredKeysLive, KeptFor, redis
  <1> QED
    BY <1>1, <1>2, <1>3, <1>4

LEMMA AcquiredQuorumStep ==
    ASSUME DistinctIds, Timely, TypeOK, Bookkeeping, AcquiredKeysLive, AcquiredQuorum, [Next]_vars
    PROVE  AcquiredQuorum'
  <1> SUFFICES ASSUME NEW b \in Attempts, pc'[b] = "held"
               PROVE  Cardinality(acq'[b]) >= Quorum
    BY DEF AcquiredQuorum
  <1>1. CASE pc[b] = "held"
    BY <1>1, OwnedShrinks DEF AcquiredQuorum
  <1>2. CASE pc[b] # "held"
    BY <1>2, FreshHandle, GrantedKeys
  <1> QED
    BY <1>1, <1>2

\* A grant takes a quorum of keys away from every other handle.
LEMMA GrantSupersedes ==
    ASSUME DistinctIds, Timely, QuorumsMeet, TypeOK, AcquiredKeysLive,
           NEW a \in Attempts, NEW s \in Servers, JoinGranted(a, s),
           NEW b \in Attempts, b # a, TypeOK'
    PROVE  Cardinality(Owned(b)') < ExtendedQuorum
  <1> DEFINE Q == acq'[a]
             O == Owned(b)'
  <1>1. Q \subseteq Servers /\ Cardinality(Q) >= Quorum /\ \A t \in Q : owner'[t] = LockOf[a]
    BY GrantedKeys DEF KeptFor
  <1>2. O \subseteq Servers /\ \A t \in O : owner'[t] = LockOf[b]
    BY DEF Owned, TypeOK
  <1>3. Q \cap O = {}
    BY <1>1, <1>2 DEF DistinctIds
  <1> HIDE DEF Q, O
  <1>4. ~(Cardinality(Q) + Cardinality(O) > N)
    BY <1>1, <1>2, <1>3, ServersAssumption, FS_MajoritiesIntersect DEF N
  <1>5. Cardinality(Q) \in Nat /\ Cardinality(O) \in Nat
    BY <1>1, <1>2, SubsetSizes, Sizes
  <1>6. ExtendedQuorum + Quorum > N
    BY DEF QuorumsMeet, ExtensionQuorumsIntersect, ExtendedQuorum, Quorum
  <1>7. Cardinality(O) < ExtendedQuorum
    BY <1>1, <1>4, <1>5, <1>6, Sizes
  <1> QED
    BY <1>7 DEF O

\* The latest handle changes by a grant only.
LEMMA LatestChanges ==
    ASSUME [Next]_vars, latest' # latest
    PROVE  \E a \in Attempts, s \in Servers : JoinGranted(a, s) /\ latest' = {a}
  <1> USE DEF vars, redis, call, task, ghost
  <1>1. ASSUME NEW a \in Attempts, AcquireStart(a)
        PROVE  \E b \in Attempts, t \in Servers : JoinGranted(b, t) /\ latest' = {b}
    BY <1>1 DEF AcquireStart
  <1>2. ASSUME NEW a \in Attempts, AcquireCancelled(a)
        PROVE  \E b \in Attempts, t \in Servers : JoinGranted(b, t) /\ latest' = {b}
    BY <1>2 DEF AcquireCancelled, ReturnEmpty, AbortAcquire
  <1>3. ASSUME NEW a \in Attempts, ReleaseStart(a)
        PROVE  \E b \in Attempts, t \in Servers : JoinGranted(b, t) /\ latest' = {b}
    BY <1>3 DEF ReleaseStart, StopTask
  <1>4. ASSUME NEW a \in Attempts, DropHandle(a)
        PROVE  \E b \in Attempts, t \in Servers : JoinGranted(b, t) /\ latest' = {b}
    BY <1>4 DEF DropHandle, StopTask
  <1>5. ASSUME NEW a \in Attempts, AcquireTimedOut(a)
        PROVE  \E b \in Attempts, t \in Servers : JoinGranted(b, t) /\ latest' = {b}
    BY <1>5 DEF AcquireTimedOut, ReturnEmpty, AbortAcquire
  <1>6. ASSUME NEW a \in Attempts, ExtendStart(a)
        PROVE  \E b \in Attempts, t \in Servers : JoinGranted(b, t) /\ latest' = {b}
    BY <1>6 DEF ExtendStart
  <1>7. ASSUME NEW a \in Attempts, ExtendSucceeds(a)
        PROVE  \E b \in Attempts, t \in Servers : JoinGranted(b, t) /\ latest' = {b}
    BY <1>7 DEF ExtendSucceeds, EndRound
  <1>8. ASSUME NEW a \in Attempts, ExtendFails(a)
        PROVE  \E b \in Attempts, t \in Servers : JoinGranted(b, t) /\ latest' = {b}
    BY <1>8 DEF ExtendFails, EndRound
  <1>9. ASSUME NEW a \in Attempts, ExtendPanics(a)
        PROVE  \E b \in Attempts, t \in Servers : JoinGranted(b, t) /\ latest' = {b}
    BY <1>9 DEF ExtendPanics, EndRound
  <1>10. ASSUME NEW a \in Attempts, ExtendSleeps(a)
        PROVE  \E b \in Attempts, t \in Servers : JoinGranted(b, t) /\ latest' = {b}
    BY <1>10 DEF ExtendSleeps
  <1>11. ASSUME NEW a \in Attempts, ExtendInconclusive(a)
        PROVE  \E b \in Attempts, t \in Servers : JoinGranted(b, t) /\ latest' = {b}
    BY <1>11 DEF ExtendInconclusive, EndRound
  <1>12. ASSUME NEW a \in Attempts, ReleaseDone(a)
        PROVE  \E b \in Attempts, t \in Servers : JoinGranted(b, t) /\ latest' = {b}
    BY <1>12 DEF ReleaseDone
  <1>13. ASSUME NEW a \in Attempts, NEW s \in Servers, SetApplied(a, s)
        PROVE  \E b \in Attempts, t \in Servers : JoinGranted(b, t) /\ latest' = {b}
    BY <1>13 DEF SetApplied, SetNX, Answer
  <1>14. ASSUME NEW a \in Attempts, NEW s \in Servers, SetRefused(a, s)
        PROVE  \E b \in Attempts, t \in Servers : JoinGranted(b, t) /\ latest' = {b}
    BY <1>14 DEF SetRefused
  <1>15. ASSUME NEW a \in Attempts, NEW s \in Servers, ExtendApplied(a, s)
        PROVE  \E b \in Attempts, t \in Servers : JoinGranted(b, t) /\ latest' = {b}
    BY <1>15 DEF ExtendApplied, ExtendScript, Answer
  <1>16. ASSUME NEW a \in Attempts, NEW s \in Servers, ExtendLost(a, s)
        PROVE  \E b \in Attempts, t \in Servers : JoinGranted(b, t) /\ latest' = {b}
    BY <1>16 DEF ExtendLost
  <1>17. ASSUME NEW a \in Attempts, NEW s \in Servers, StrayExtend(a, s)
        PROVE  \E b \in Attempts, t \in Servers : JoinGranted(b, t) /\ latest' = {b}
    <2>1. CASE ExtendScript(s, LockOf[a])
      BY <1>17, <2>1 DEF StrayExtend, ExtendScript
    <2>2. CASE UNCHANGED redis
      BY <1>17, <2>2 DEF StrayExtend
    <2> QED
      BY <1>17, <2>1, <2>2 DEF StrayExtend
  <1>18. ASSUME NEW a \in Attempts, NEW s \in Servers, ReleaseApplied(a, s)
        PROVE  \E b \in Attempts, t \in Servers : JoinGranted(b, t) /\ latest' = {b}
    BY <1>18 DEF ReleaseApplied, ReleaseScript
  <1>19. ASSUME NEW a \in Attempts, NEW s \in Servers, ReleaseLost(a, s)
        PROVE  \E b \in Attempts, t \in Servers : JoinGranted(b, t) /\ latest' = {b}
    BY <1>19 DEF ReleaseLost
  <1>20. ASSUME NEW a \in Attempts, NEW s \in Servers, JoinSuccess(a, s)
        PROVE  \E b \in Attempts, t \in Servers : JoinGranted(b, t) /\ latest' = {b}
    BY <1>20 DEF JoinSuccess
  <1>21. ASSUME NEW a \in Attempts, NEW s \in Servers, JoinGranted(a, s)
        PROVE  \E b \in Attempts, t \in Servers : JoinGranted(b, t) /\ latest' = {b}
    <2>1. latest' = {a}
      BY <1>21 DEF JoinGranted
    <2> QED
      BY <1>21, <2>1
  <1>22. ASSUME NEW a \in Attempts, NEW s \in Servers, JoinFailure(a, s)
        PROVE  \E b \in Attempts, t \in Servers : JoinGranted(b, t) /\ latest' = {b}
    BY <1>22 DEF JoinFailure
  <1>23. ASSUME NEW a \in Attempts, NEW s \in Servers, JoinGivesUp(a, s)
        PROVE  \E b \in Attempts, t \in Servers : JoinGranted(b, t) /\ latest' = {b}
    BY <1>23 DEF JoinGivesUp, ReturnEmpty, AbortAcquire
  <1>24. CASE Tick
    BY <1>24 DEF Tick, NothingUrgent, Down, Live
  <1>25. CASE UNCHANGED vars
    BY <1>25
  <1> QED
    BY <1>1, <1>2, <1>3, <1>4, <1>5, <1>6, <1>7, <1>8, <1>9, <1>10, <1>11, <1>12, <1>13, <1>14, <1>15, <1>16, <1>17, <1>18, <1>19, <1>20, <1>21, <1>22, <1>23, <1>24, <1>25
    DEF Next, AttemptStep, UserStep, TaskStep, ServerStep, JoinStep

LEMMA SupersededStep ==
    ASSUME DistinctIds, Timely, QuorumsMeet, TypeOK, TypeOK', Bookkeeping, AcquiredKeysLive,
           Superseded, [Next]_vars
    PROVE  Superseded'
  <1> SUFFICES ASSUME NEW b \in Attempts, pc'[b] = "held", b \notin latest'
               PROVE  Cardinality(Owned(b)') < ExtendedQuorum
    BY DEF Superseded
  <1>1. CASE latest' # latest
    BY <1>1, LatestChanges, GrantSupersedes
  <1>2. CASE latest' = latest
    <2>1. pc[b] = "held"
      <3>1. \A s \in Servers : JoinGranted(b, s) => latest' = {b}
        BY DEF JoinGranted
      <3> QED
        BY <3>1, FreshHandle
    <2>2. Owned(b)' \subseteq Owned(b)
      BY <2>1, OwnedShrinks
    <2>3. Cardinality(Owned(b)) < ExtendedQuorum
      BY <2>1, <1>2 DEF Superseded
    <2>4. Owned(b) \in SUBSET Servers
      BY DEF Owned, TypeOK
    <2>5. Cardinality(Owned(b)) \in Nat /\ Cardinality(Owned(b)') \in 0..Cardinality(Owned(b))
      BY <2>2, <2>4, SubsetSizes, Sizes
    <2> QED
      BY <2>3, <2>5, Sizes
  <1> QED
    BY <1>1, <1>2

\* A successful round leaves a majority of the acquired keys with at least the
\* new lease.
LEMMA RenewedKeys ==
    ASSUME TypeOK, Bookkeeping, ExtendedKeysLive, AcquiredQuorum,
           NEW b \in Attempts, ExtendSucceeds(b)
    PROVE  /\ Oks(b) \subseteq Backing(b)'
           /\ Cardinality(Oks(b)) >= ExtendedQuorum
           /\ lease'[b] = Expiry - extAge[b]
           /\ pc[b] = "held"
  <1> USE DEF ExtendSucceeds, EndRound
  <1>1. lease'[b] = Expiry - extAge[b]
    BY DEF TypeOK
  <1>2. Oks(b) \subseteq Backing(b)'
    BY <1>1 DEF Oks, Reached, Backing, KeptFor, ExtendedKeysLive, Bookkeeping, redis, call
  <1>3. pc[b] = "held"
    BY DEF Bookkeeping
  <1>4. Cardinality(acq[b]) \in Nat /\ Quorum \in Nat /\ Quorum <= Cardinality(acq[b])
    BY <1>3, SubsetSizes, Sizes DEF AcquiredQuorum, TypeOK
  <1>5. ExtendedQuorum <= SuccessThreshold(Cardinality(acq[b]))
    BY <1>4, ThresholdMonotone DEF ExtendedQuorum
  <1>6. Cardinality(Oks(b)) >= SuccessThreshold(Cardinality(acq[b]))
    BY DEF ExtendEnough, HasSufficientSuccesses
  <1>7. Cardinality(Oks(b)) \in Nat /\ SuccessThreshold(Cardinality(acq[b])) \in Nat
    BY <1>4, SubsetSizes, Sizes, ThresholdType DEF Oks
  <1> QED
    BY <1>1, <1>2, <1>3, <1>5, <1>6, <1>7, Sizes

\* Without a new round, the keys behind a lease stay behind it.
LEMMA BackingStays ==
    ASSUME DistinctIds, TypeOK, TypeOK', Bookkeeping, [Next]_vars,
           NEW b \in Attempts, lease'[b] > 0,
           ~ExtendSucceeds(b), \A s \in Servers : ~JoinGranted(b, s)
    PROVE  lease[b] > 0 /\ Backing(b) \subseteq Backing(b)'
  <1>1. /\ pc[b] = "held" /\ pc'[b] = "held"
        /\ acq'[b] = acq[b] /\ lease[b] > 0
        /\ lease'[b] = lease[b] \/ Tick
    BY LeaseSources
  <1>2. CASE Tick
    BY <1>1, <1>2 DEF Tick, Down, Backing, KeptFor, TypeOK
  <1>3. CASE ~Tick
    <2> SUFFICES ASSUME NEW t \in Backing(b)
                 PROVE  t \in Backing(b)'
      BY <1>1
    <2>1. t \in acq[b] /\ t \in Servers /\ owner[t] = LockOf[b] /\ ttl[t] >= lease[b]
      BY DEF Backing, KeptFor, TypeOK
    <2>2. owner'[t] = LockOf[b] /\ ttl'[t] >= ttl[t]
      BY <2>1, <1>1, <1>3, KeysKept
    <2>3. ttl[t] \in Int /\ ttl'[t] \in Int /\ lease[b] \in Int
      BY <2>1, TimesAssumption DEF TypeOK
    <2> QED
      BY <1>1, <1>3, <2>1, <2>2, <2>3 DEF Backing, KeptFor
  <1> QED
    BY <1>1, <1>2, <1>3

LEMMA LeaseBackedStep ==
    ASSUME DistinctIds, Timely, TypeOK, TypeOK', Bookkeeping, AcquiredKeysLive, ExtendedKeysLive,
           AcquiredQuorum, LeaseBacked, [Next]_vars
    PROVE  LeaseBacked'
  <1> SUFFICES ASSUME NEW b \in Attempts, lease'[b] > 0
               PROVE  Cardinality(Backing(b)') >= ExtendedQuorum
    BY DEF LeaseBacked
  <1>0. Backing(b)' \in SUBSET Servers
    BY DEF Backing, TypeOK
  <1>1. CASE \E s \in Servers : JoinGranted(b, s)
    <2>1. PICK s \in Servers : JoinGranted(b, s)
      BY <1>1
    <2>2. Cardinality(acq'[b]) >= Quorum /\ acq'[b] \subseteq Backing(b)'
      BY <2>1, GrantedKeys DEF Backing
    <2>3. acq'[b] = Backing(b)'
      BY <2>2 DEF Backing
    <2>4. Cardinality(acq'[b]) \in Nat
      BY <1>0, <2>3, SubsetSizes, Sizes
    <2> QED
      BY <2>2, <2>3, <2>4, Sizes
  <1>2. CASE ExtendSucceeds(b)
    <2>1. Oks(b) \subseteq Backing(b)' /\ Cardinality(Oks(b)) >= ExtendedQuorum
      BY <1>2, RenewedKeys
    <2>2. Cardinality(Oks(b)) \in 0..Cardinality(Backing(b)') /\ Cardinality(Backing(b)') \in Nat
      BY <1>0, <2>1, SubsetSizes, Sizes
    <2> QED
      BY <2>1, <2>2, Sizes
  <1>3. CASE ~ExtendSucceeds(b) /\ \A s \in Servers : ~JoinGranted(b, s)
    <2>1. lease[b] > 0 /\ Backing(b) \subseteq Backing(b)'
      BY <1>3, BackingStays
    <2>2. Cardinality(Backing(b)) >= ExtendedQuorum
      BY <2>1 DEF LeaseBacked
    <2>3. Cardinality(Backing(b)) \in 0..Cardinality(Backing(b)') /\ Cardinality(Backing(b)') \in Nat
      BY <1>0, <2>1, SubsetSizes, Sizes
    <2> QED
      BY <2>2, <2>3, Sizes
  <1> QED
    BY <1>1, <1>2, <1>3

-----------------------------------------------------------------------------
(* The theorems                                                            *)

LEMMA InvInit == Init => IInv
  <1> SUFFICES ASSUME Init PROVE IInv
    OBVIOUS
  <1>1. TypeOK
    BY InitType
  <1>2. Bookkeeping /\ AcquiredKeysLive /\ ExtendedKeysLive
    BY DEF Init, NoReq, Bookkeeping, AcquiredKeysLive, ExtendedKeysLive
  <1>3. AcquiredQuorum /\ LeaseBacked /\ Superseded
    BY DEF Init, AcquiredQuorum, LeaseBacked, Superseded
  <1> QED
    BY <1>1, <1>2, <1>3 DEF IInv

LEMMA InvNext ==
    ASSUME DistinctIds, Timely, QuorumsMeet, IInv, [Next]_vars
    PROVE  IInv'
  <1>1. TypeOK'
    BY NextType DEF IInv
  <1>2. Bookkeeping'
    BY BookkeepingStep DEF IInv
  <1>3. AcquiredKeysLive' /\ ExtendedKeysLive'
    BY AcquiredKeysStep, ExtendedKeysStep DEF IInv
  <1>4. AcquiredQuorum' /\ LeaseBacked' /\ Superseded'
    BY <1>1, AcquiredQuorumStep, LeaseBackedStep, SupersededStep DEF IInv
  <1> QED
    BY <1>1, <1>2, <1>3, <1>4 DEF IInv

\* A holder is the handle granted last: its backing is too large for a handle
\* that was superseded.
LEMMA HolderIsLatest ==
    ASSUME IInv, NEW a \in Attempts, Holds(a)
    PROVE  latest = {a}
  <1>1. Backing(a) \subseteq Owned(a) /\ Owned(a) \in SUBSET Servers
    BY DEF IInv, TypeOK, Backing, Owned, KeptFor
  <1>2. Cardinality(Backing(a)) >= ExtendedQuorum
    BY DEF IInv, LeaseBacked, Holds
  <1>3. Cardinality(Backing(a)) \in 0..Cardinality(Owned(a)) /\ Cardinality(Owned(a)) \in Nat
    BY <1>1, SubsetSizes, Sizes
  <1>4. a \in latest
    BY <1>2, <1>3, Sizes DEF IInv, Superseded, Holds
  <1> QED
    BY <1>4 DEF IInv, Bookkeeping

\* The inductive invariant holds whenever every acquire has a lock object of
\* its own, the runtime is not later than the expiry, and the number of
\* clients is one for which extension quorums intersect acquire quorums.
THEOREM InvariantCorrect ==
    ASSUME DistinctIds, Timely, QuorumsMeet
    PROVE  Spec => []IInv
  <1>1. IInv /\ [Next]_vars => IInv'
    BY InvNext
  <1> QED
    BY <1>1, InvInit, PTL DEF Spec

\* What the runs check: the conditions are constant, so that the invariant holds
\* in every state of a behaviour or is not claimed of any.
THEOREM InductiveInvariantCorrect == Spec => []InductiveInvariant
  <1>1. CASE DistinctIds /\ Timely /\ QuorumsMeet
    <2>1. Spec => []IInv
      BY <1>1, InvariantCorrect
    <2>2. IInv => InductiveInvariant
      BY DEF InductiveInvariant
    <2> QED
      BY <2>1, <2>2, PTL
  <1>2. CASE ~(DistinctIds /\ Timely /\ QuorumsMeet)
    <2>1. InductiveInvariant
      BY <1>2 DEF InductiveInvariant
    <2> QED
      BY <2>1, PTL
  <1> QED
    BY <1>1, <1>2

\* Under the same conditions two handles never both hold the lock, for any
\* number of attempts, any expiry and any loss or delay of commands.
THEOREM MutualExclusionCorrect ==
    ASSUME DistinctIds, Timely, QuorumsMeet
    PROVE  Spec => []MutualExclusion
  <1>1. IInv => MutualExclusion
    BY HolderIsLatest DEF MutualExclusion
  <1> QED
    BY <1>1, InvariantCorrect, PTL

\* With one to four servers, or six, nothing more has to be assumed of the
\* quorums.
COROLLARY MutualExclusionBySize ==
    ASSUME DistinctIds, Timely, N \in {1, 2, 3, 4, 6}
    PROVE  Spec => []MutualExclusion
  <1>1. QuorumsMeet
    BY Sizes, ExtensionQuorumSizes DEF QuorumsMeet
  <1> QED
    BY <1>1, MutualExclusionCorrect

LEMMA BookkeepingCorrect == Spec => [](TypeOK /\ Bookkeeping)
  <1>1. Init => Bookkeeping
    BY InvInit DEF IInv
  <1> QED
    BY <1>1, InitType, NextType, BookkeepingStep, PTL DEF Spec

LEMMA KeyStep ==
    ASSUME TypeOK, Bookkeeping, [Next]_vars, NEW t \in Servers
    PROVE  KeyLeavesFairly(t)
  <1> USE DEF TypeOK, Bookkeeping, KeyLeavesFairly, vars, redis, call, task, ghost
  <1>1. ASSUME NEW a \in Attempts, AcquireStart(a)
        PROVE  KeyLeavesFairly(t)
    BY <1>1 DEF AcquireStart
  <1>2. ASSUME NEW a \in Attempts, AcquireCancelled(a)
        PROVE  KeyLeavesFairly(t)
    BY <1>2 DEF AcquireCancelled, ReturnEmpty, AbortAcquire
  <1>3. ASSUME NEW a \in Attempts, ReleaseStart(a)
        PROVE  KeyLeavesFairly(t)
    BY <1>3 DEF ReleaseStart, StopTask
  <1>4. ASSUME NEW a \in Attempts, DropHandle(a)
        PROVE  KeyLeavesFairly(t)
    BY <1>4 DEF DropHandle, StopTask
  <1>5. ASSUME NEW a \in Attempts, AcquireTimedOut(a)
        PROVE  KeyLeavesFairly(t)
    BY <1>5 DEF AcquireTimedOut, ReturnEmpty, AbortAcquire
  <1>6. ASSUME NEW a \in Attempts, ExtendStart(a)
        PROVE  KeyLeavesFairly(t)
    BY <1>6 DEF ExtendStart
  <1>7. ASSUME NEW a \in Attempts, ExtendSucceeds(a)
        PROVE  KeyLeavesFairly(t)
    BY <1>7 DEF ExtendSucceeds, EndRound
  <1>8. ASSUME NEW a \in Attempts, ExtendFails(a)
        PROVE  KeyLeavesFairly(t)
    BY <1>8 DEF ExtendFails, EndRound
  <1>9. ASSUME NEW a \in Attempts, ExtendPanics(a)
        PROVE  KeyLeavesFairly(t)
    BY <1>9 DEF ExtendPanics, EndRound
  <1>10. ASSUME NEW a \in Attempts, ExtendSleeps(a)
        PROVE  KeyLeavesFairly(t)
    BY <1>10 DEF ExtendSleeps, Oks, Fails, Reached
  <1>11. ASSUME NEW a \in Attempts, ExtendInconclusive(a)
        PROVE  KeyLeavesFairly(t)
    BY <1>11 DEF ExtendInconclusive, EndRound
  <1>12. ASSUME NEW a \in Attempts, ReleaseDone(a)
        PROVE  KeyLeavesFairly(t)
    BY <1>12 DEF ReleaseDone
  <1>13. ASSUME NEW a \in Attempts, NEW s \in Servers, SetApplied(a, s)
        PROVE  KeyLeavesFairly(t)
    BY <1>13 DEF SetApplied, SetNX, Answer
  <1>14. ASSUME NEW a \in Attempts, NEW s \in Servers, SetRefused(a, s)
        PROVE  KeyLeavesFairly(t)
    BY <1>14 DEF SetRefused
  <1>15. ASSUME NEW a \in Attempts, NEW s \in Servers, ExtendApplied(a, s)
        PROVE  KeyLeavesFairly(t)
    BY <1>15 DEF ExtendApplied, ExtendScript, Answer
  <1>16. ASSUME NEW a \in Attempts, NEW s \in Servers, ExtendLost(a, s)
        PROVE  KeyLeavesFairly(t)
    BY <1>16 DEF ExtendLost
  <1>17. ASSUME NEW a \in Attempts, NEW s \in Servers, StrayExtend(a, s)
        PROVE  KeyLeavesFairly(t)
    <2>1. CASE ExtendScript(s, LockOf[a])
      BY <1>17, <2>1 DEF StrayExtend, ExtendScript
    <2>2. CASE UNCHANGED redis
      BY <1>17, <2>2 DEF StrayExtend
    <2> QED
      BY <1>17, <2>1, <2>2 DEF StrayExtend
  <1>18. ASSUME NEW a \in Attempts, NEW s \in Servers, ReleaseApplied(a, s)
        PROVE  KeyLeavesFairly(t)
    BY <1>18 DEF ReleaseApplied, ReleaseScript
  <1>19. ASSUME NEW a \in Attempts, NEW s \in Servers, ReleaseLost(a, s)
        PROVE  KeyLeavesFairly(t)
    BY <1>19 DEF ReleaseLost
  <1>20. ASSUME NEW a \in Attempts, NEW s \in Servers, JoinSuccess(a, s)
        PROVE  KeyLeavesFairly(t)
    BY <1>20 DEF JoinSuccess
  <1>21. ASSUME NEW a \in Attempts, NEW s \in Servers, JoinGranted(a, s)
        PROVE  KeyLeavesFairly(t)
    BY <1>21 DEF JoinGranted, AbortAcquire
  <1>22. ASSUME NEW a \in Attempts, NEW s \in Servers, JoinFailure(a, s)
        PROVE  KeyLeavesFairly(t)
    BY <1>22 DEF JoinFailure
  <1>23. ASSUME NEW a \in Attempts, NEW s \in Servers, JoinGivesUp(a, s)
        PROVE  KeyLeavesFairly(t)
    BY <1>23 DEF JoinGivesUp, ReturnEmpty, AbortAcquire
  <1>24. CASE Tick
    BY <1>24 DEF Tick, NothingUrgent, Down, Live
  <1>25. CASE UNCHANGED vars
    BY <1>25
  <1> QED
    BY <1>1, <1>2, <1>3, <1>4, <1>5, <1>6, <1>7, <1>8, <1>9, <1>10, <1>11, <1>12, <1>13, <1>14, <1>15, <1>16, <1>17, <1>18, <1>19, <1>20, <1>21, <1>22, <1>23, <1>24, <1>25
    DEF Next, AttemptStep, UserStep, TaskStep, ServerStep, JoinStep

\* No condition is needed for this: a live key leaves its owner by expiry or by
\* a release with its own lock_id, whatever shares the servers.
THEOREM KeysLeaveTheirOwnerOnlyCorrect == Spec => KeysLeaveTheirOwnerOnly
  <1>1. TypeOK /\ Bookkeeping /\ [Next]_vars =>
            [\A s \in Servers : KeyLeavesFairly(s)]_vars
    BY KeyStep
  <1> QED
    BY <1>1, BookkeepingCorrect, PTL DEF Spec, KeysLeaveTheirOwnerOnly

-----------------------------------------------------------------------------
(* The loop of acquire_redlock                                             *)

\* Clients that were not joined.
Pending(a) == {s \in Servers : setReq[a][s] # "none"}

\* Every client is pending, acquired or failed, and neither threshold is reached.
Tally(a) ==
    /\ pc[a] = "idle" => faults[a] = 0
    /\ pc[a] = "acquiring" =>
        /\ faults[a] + Cardinality(acq[a]) + Cardinality(Pending(a)) = N
        /\ ~HasSufficientSuccesses(Cardinality(acq[a]), N)
        /\ ~HasTooManyFailuresOrFaults(faults[a], N)

\* What a step does to the tally of b.
SameTally(b) ==
    UNCHANGED <<pc[b], acq[b], faults[b]>> /\ (pc[b] = "acquiring" => UNCHANGED Pending(b))
NoTally(b) == pc'[b] \notin {"idle", "acquiring"}
Spawned(b) ==
    /\ pc[b] = "idle" /\ pc'[b] = "acquiring"
    /\ Pending(b)' = Servers /\ UNCHANGED <<acq[b], faults[b]>>
Succeeded(b, s) ==
    /\ pc[b] = "acquiring" /\ pc'[b] = "acquiring"
    /\ s \in Pending(b) \ acq[b] /\ Pending(b)' = Pending(b) \ {s}
    /\ acq'[b] = acq[b] \cup {s} /\ UNCHANGED faults[b]
    /\ ~HasSufficientSuccesses(Cardinality(acq[b] \cup {s}), N)
Failed(b, s) ==
    /\ pc[b] = "acquiring" /\ pc'[b] = "acquiring"
    /\ s \in Pending(b) /\ Pending(b)' = Pending(b) \ {s}
    /\ UNCHANGED acq[b] /\ faults'[b] = faults[b] + 1
    /\ ~HasTooManyFailuresOrFaults(faults[b] + 1, N)

LEMMA TallyMoves ==
    ASSUME TypeOK, Bookkeeping, [Next]_vars, NEW b \in Attempts
    PROVE  \/ SameTally(b) \/ NoTally(b) \/ Spawned(b)
           \/ \E s \in Servers : Succeeded(b, s) \/ Failed(b, s)
  <1> DEFINE Moved == \/ SameTally(b) \/ NoTally(b) \/ Spawned(b)
                      \/ \E s \in Servers : Succeeded(b, s) \/ Failed(b, s)
  <1> USE DEF TypeOK, Bookkeeping, vars, redis, call, task, ghost, Pending, SameTally, NoTally,
              Spawned, Succeeded, Failed
  <1>1. ASSUME NEW a \in Attempts, AcquireStart(a)
        PROVE  Moved
    BY <1>1 DEF AcquireStart
  <1>2. ASSUME NEW a \in Attempts, AcquireCancelled(a)
        PROVE  Moved
    BY <1>2 DEF AcquireCancelled, ReturnEmpty, AbortAcquire
  <1>3. ASSUME NEW a \in Attempts, ReleaseStart(a)
        PROVE  Moved
    BY <1>3 DEF ReleaseStart, StopTask
  <1>4. ASSUME NEW a \in Attempts, DropHandle(a)
        PROVE  Moved
    BY <1>4 DEF DropHandle, StopTask
  <1>5. ASSUME NEW a \in Attempts, AcquireTimedOut(a)
        PROVE  Moved
    BY <1>5 DEF AcquireTimedOut, ReturnEmpty, AbortAcquire
  <1>6. ASSUME NEW a \in Attempts, ExtendStart(a)
        PROVE  Moved
    BY <1>6 DEF ExtendStart
  <1>7. ASSUME NEW a \in Attempts, ExtendSucceeds(a)
        PROVE  Moved
    BY <1>7 DEF ExtendSucceeds, EndRound
  <1>8. ASSUME NEW a \in Attempts, ExtendFails(a)
        PROVE  Moved
    BY <1>8 DEF ExtendFails, EndRound
  <1>9. ASSUME NEW a \in Attempts, ExtendPanics(a)
        PROVE  Moved
    BY <1>9 DEF ExtendPanics, EndRound
  <1>10. ASSUME NEW a \in Attempts, ExtendSleeps(a)
        PROVE  Moved
    BY <1>10 DEF ExtendSleeps, Oks, Fails, Reached
  <1>11. ASSUME NEW a \in Attempts, ExtendInconclusive(a)
        PROVE  Moved
    BY <1>11 DEF ExtendInconclusive, EndRound
  <1>12. ASSUME NEW a \in Attempts, ReleaseDone(a)
        PROVE  Moved
    BY <1>12 DEF ReleaseDone
  <1>13. ASSUME NEW a \in Attempts, NEW s \in Servers, SetApplied(a, s)
        PROVE  Moved
    BY <1>13 DEF SetApplied, SetNX, Answer
  <1>14. ASSUME NEW a \in Attempts, NEW s \in Servers, SetRefused(a, s)
        PROVE  Moved
    BY <1>14 DEF SetRefused
  <1>15. ASSUME NEW a \in Attempts, NEW s \in Servers, ExtendApplied(a, s)
        PROVE  Moved
    BY <1>15 DEF ExtendApplied, ExtendScript, Answer
  <1>16. ASSUME NEW a \in Attempts, NEW s \in Servers, ExtendLost(a, s)
        PROVE  Moved
    BY <1>16 DEF ExtendLost
  <1>17. ASSUME NEW a \in Attempts, NEW s \in Servers, StrayExtend(a, s)
        PROVE  Moved
    <2>1. CASE ExtendScript(s, LockOf[a])
      BY <1>17, <2>1 DEF StrayExtend, ExtendScript
    <2>2. CASE UNCHANGED redis
      BY <1>17, <2>2 DEF StrayExtend
    <2> QED
      BY <1>17, <2>1, <2>2 DEF StrayExtend
  <1>18. ASSUME NEW a \in Attempts, NEW s \in Servers, ReleaseApplied(a, s)
        PROVE  Moved
    <2>1. s \in relReq[a] /\ pc' = pc /\ acq' = acq /\ setReq' = setReq
      BY <1>18 DEF ReleaseApplied
    <2>2. b # a => faults'[b] = faults[b]
      BY <1>18 DEF ReleaseApplied
    <2>3. pc[a] = "releasing"
      BY <2>1
    <2>4. CASE b = a
      BY <2>1, <2>3, <2>4 DEF NoTally
    <2>5. CASE b # a
      BY <2>1, <2>2, <2>5 DEF SameTally
    <2> QED
      BY <2>4, <2>5
  <1>19. ASSUME NEW a \in Attempts, NEW s \in Servers, ReleaseLost(a, s)
        PROVE  Moved
    <2>1. s \in relReq[a] /\ pc' = pc /\ acq' = acq /\ setReq' = setReq
      BY <1>19 DEF ReleaseLost
    <2>2. b # a => faults'[b] = faults[b]
      BY <1>19 DEF ReleaseLost
    <2>3. pc[a] = "releasing"
      BY <2>1
    <2>4. CASE b = a
      BY <2>1, <2>3, <2>4 DEF NoTally
    <2>5. CASE b # a
      BY <2>1, <2>2, <2>5 DEF SameTally
    <2> QED
      BY <2>4, <2>5
  <1>20. ASSUME NEW a \in Attempts, NEW s \in Servers, JoinSuccess(a, s)
        PROVE  Moved
    <2>1. CASE b = a
      <3>1. setReq'[b] = [setReq[b] EXCEPT ![s] = "none"]
        BY <1>20, <2>1 DEF JoinSuccess
      <3>2. Pending(b)' = Pending(b) \ {s}
        BY <3>1
      <3>3. Succeeded(b, s)
        BY <1>20, <2>1, <3>2 DEF JoinSuccess
      <3> QED
        BY <3>3
    <2>2. CASE b # a
      <3>1. SameTally(b)
        BY <1>20, <2>2 DEF JoinSuccess
      <3> QED
        BY <3>1
    <2> QED
      BY <2>1, <2>2
  <1>21. ASSUME NEW a \in Attempts, NEW s \in Servers, JoinGranted(a, s)
        PROVE  Moved
    BY <1>21 DEF JoinGranted, AbortAcquire
  <1>22. ASSUME NEW a \in Attempts, NEW s \in Servers, JoinFailure(a, s)
        PROVE  Moved
    <2>1. CASE b = a
      <3>1. setReq'[b] = [setReq[b] EXCEPT ![s] = "none"]
        BY <1>22, <2>1 DEF JoinFailure
      <3>2. Pending(b)' = Pending(b) \ {s}
        BY <3>1
      <3>3. Failed(b, s)
        BY <1>22, <2>1, <3>2 DEF JoinFailure
      <3> QED
        BY <3>3
    <2>2. CASE b # a
      <3>1. SameTally(b)
        BY <1>22, <2>2 DEF JoinFailure
      <3> QED
        BY <3>1
    <2> QED
      BY <2>1, <2>2
  <1>23. ASSUME NEW a \in Attempts, NEW s \in Servers, JoinGivesUp(a, s)
        PROVE  Moved
    BY <1>23 DEF JoinGivesUp, ReturnEmpty, AbortAcquire
  <1>24. CASE Tick
    BY <1>24 DEF Tick, NothingUrgent, Down, Live
  <1>25. CASE UNCHANGED vars
    BY <1>25
  <1> QED
    BY <1>1, <1>2, <1>3, <1>4, <1>5, <1>6, <1>7, <1>8, <1>9, <1>10, <1>11, <1>12, <1>13, <1>14, <1>15, <1>16, <1>17, <1>18, <1>19, <1>20, <1>21, <1>22, <1>23, <1>24, <1>25
    DEF Next, AttemptStep, UserStep, TaskStep, ServerStep, JoinStep

LEMMA TallyStep ==
    ASSUME TypeOK, Bookkeeping, NEW b \in Attempts, Tally(b), [Next]_vars
    PROVE  Tally(b)'
  <1>1. /\ N \in Nat \ {0} /\ faults[b] \in Nat /\ acq[b] \in SUBSET Servers
        /\ Pending(b) \in SUBSET Servers
    BY Sizes DEF TypeOK, Pending
  <1>2. /\ IsFiniteSet(acq[b]) /\ Cardinality(acq[b]) \in Nat
        /\ IsFiniteSet(Pending(b)) /\ Cardinality(Pending(b)) \in Nat
    BY <1>1, SubsetSizes
  <1>3. CASE SameTally(b)
    BY <1>3 DEF SameTally, Tally
  <1>4. CASE NoTally(b)
    BY <1>4 DEF NoTally, Tally
  <1>5. CASE Spawned(b)
    <2>1. acq'[b] = {} /\ faults'[b] = 0 /\ Pending(b)' = Servers /\ pc'[b] = "acquiring"
      BY <1>5 DEF Spawned, Tally, Bookkeeping
    <2>2. Cardinality({}) = 0
      BY FS_EmptySet
    <2>3. ~HasSufficientSuccesses(0, N) /\ ~HasTooManyFailuresOrFaults(0, N)
      BY <1>1 DEF HasSufficientSuccesses, HasTooManyFailuresOrFaults, SuccessThreshold, FailureThreshold
    <2>4. 0 + Cardinality(acq'[b]) + Cardinality(Pending(b)') = N
      BY <1>1, <2>1, <2>2 DEF N
    <2> QED
      BY <2>1, <2>2, <2>3, <2>4 DEF Tally
  <1>6. ASSUME NEW s \in Servers, Succeeded(b, s)
        PROVE  Tally(b)'
    <2>1. Cardinality(acq'[b]) = Cardinality(acq[b]) + 1
      BY <1>2, <1>6, FS_AddElement DEF Succeeded
    <2>2. Cardinality(Pending(b)') = Cardinality(Pending(b)) - 1
      BY <1>2, <1>6, FS_RemoveElement DEF Succeeded
    <2> QED
      BY <1>1, <1>2, <1>6, <2>1, <2>2 DEF Succeeded, Tally
  <1>7. ASSUME NEW s \in Servers, Failed(b, s)
        PROVE  Tally(b)'
    <2>1. Cardinality(Pending(b)') = Cardinality(Pending(b)) - 1
      BY <1>2, <1>7, FS_RemoveElement DEF Failed
    <2> QED
      BY <1>1, <1>2, <1>7, <2>1 DEF Failed, Tally
  <1> QED
    BY <1>3, <1>4, <1>5, <1>6, <1>7, TallyMoves

\* acquire_redlock never waits for an answer that cannot come: with any number
\* of clients, even or odd, one of the thresholds is reached at the latest by
\* the last answer.
THEOREM AcquireStillWaitsCorrect == Spec => []AcquireStillWaits
  <1> DEFINE Tallies == \A b \in Attempts : Tally(b)
  <1>1. Init => Tallies
    BY DEF Init, Tally
  <1>2. TypeOK /\ Bookkeeping /\ Tallies /\ [Next]_vars => Tallies'
    BY TallyStep
  <1>3. TypeOK /\ Tallies => AcquireStillWaits
    <2> SUFFICES ASSUME TypeOK, Tallies, NEW a \in Attempts, pc[a] = "acquiring", Pending(a) = {}
                 PROVE  FALSE
      BY DEF AcquireStillWaits, Pending
    <2>1. Tally(a) /\ faults[a] \in Nat /\ Cardinality(acq[a]) \in Nat /\ N \in Nat \ {0}
      BY Sizes, SubsetSizes DEF TypeOK
    <2>2. Cardinality(Pending(a)) = 0
      BY FS_EmptySet
    <2>3. Cardinality(acq[a]) + faults[a] = N
      BY <2>1, <2>2 DEF Tally
    <2> QED
      BY <2>1, <2>3, ThresholdDichotomy DEF Tally
  <1> HIDE DEF Tallies
  <1> QED
    BY <1>1, <1>2, <1>3, BookkeepingCorrect, PTL DEF Spec

-----------------------------------------------------------------------------
(* release_redlock                                                         *)

\* Acquired keys that no command will delete any more.
Stuck(a) == {s \in acq[a] \ relReq[a] : owner[s] = LockOf[a]}
Freed(a) == {s \in acq[a] : owner[s] # LockOf[a]}

\* Each of them is a fault that was counted.
FaultsCounted(a) ==
    /\ pc[a] = "held" => faults[a] = 0
    /\ pc[a] = "releasing" => relReq[a] \subseteq acq[a] /\ Cardinality(Stuck(a)) <= faults[a]
    /\ pc[a] = "released" => HasSufficientSuccesses(Cardinality(Freed(a)), Cardinality(acq[a]))

\* What a step does to the release of b.
NoneSet(b) == \A s \in acq[b] : owner'[s] = LockOf[b] => owner[s] = LockOf[b]
RelSame(b) ==
    /\ UNCHANGED <<pc[b], acq[b], relReq[b], faults[b]>>
    /\ pc[b] \in {"releasing", "released"} => NoneSet(b)
RelOut(b)   == pc'[b] \notin {"held", "releasing", "released"}
RelHeld(b)  == pc'[b] = "held" /\ faults'[b] = 0
RelStart(b) ==
    /\ pc[b] = "held" /\ pc'[b] = "releasing"
    /\ relReq'[b] = acq[b] /\ UNCHANGED <<acq[b], faults[b]>>
RelApplied(b, s) ==
    /\ pc[b] = "releasing" /\ pc'[b] = "releasing" /\ UNCHANGED acq[b]
    /\ relReq'[b] = relReq[b] \ {s} /\ faults'[b] \in {faults[b], faults[b] + 1}
    /\ owner'[s] # LockOf[b] /\ NoneSet(b)
RelLost(b, s) ==
    /\ pc[b] = "releasing" /\ pc'[b] = "releasing" /\ UNCHANGED <<acq[b], owner>>
    /\ relReq'[b] = relReq[b] \ {s} /\ faults'[b] = faults[b] + 1
RelDone(b) ==
    /\ pc[b] = "releasing" /\ pc'[b] = "released" /\ UNCHANGED <<acq[b], owner>>
    /\ relReq[b] = {}
    /\ LET n == Cardinality(acq[b])
       IN  \/ HasSufficientSuccesses(n - faults[b], n)
           \/ ~HasTooManyFailuresOrFaults(faults[b], n)

LEMMA ReleaseMoves ==
    ASSUME DistinctIds, TypeOK, Bookkeeping, [Next]_vars, NEW b \in Attempts
    PROVE  \/ RelSame(b) \/ RelOut(b) \/ RelHeld(b) \/ RelStart(b) \/ RelDone(b)
           \/ \E s \in Servers : RelApplied(b, s) \/ RelLost(b, s)
  <1> DEFINE Moved == \/ RelSame(b) \/ RelOut(b) \/ RelHeld(b) \/ RelStart(b) \/ RelDone(b)
                      \/ \E s \in Servers : RelApplied(b, s) \/ RelLost(b, s)
  <1> USE IdsAssumption
      DEF TypeOK, Bookkeeping, vars, redis, call, task, ghost, DistinctIds,
          NoneSet, RelSame, RelOut, RelHeld, RelStart, RelDone, RelApplied, RelLost
  <1>1. ASSUME NEW a \in Attempts, AcquireStart(a)
        PROVE  Moved
    BY <1>1 DEF AcquireStart
  <1>2. ASSUME NEW a \in Attempts, AcquireCancelled(a)
        PROVE  Moved
    BY <1>2 DEF AcquireCancelled, ReturnEmpty, AbortAcquire
  <1>3. ASSUME NEW a \in Attempts, ReleaseStart(a)
        PROVE  Moved
    BY <1>3 DEF ReleaseStart, StopTask
  <1>4. ASSUME NEW a \in Attempts, DropHandle(a)
        PROVE  Moved
    BY <1>4 DEF DropHandle, StopTask
  <1>5. ASSUME NEW a \in Attempts, AcquireTimedOut(a)
        PROVE  Moved
    BY <1>5 DEF AcquireTimedOut, ReturnEmpty, AbortAcquire
  <1>6. ASSUME NEW a \in Attempts, ExtendStart(a)
        PROVE  Moved
    BY <1>6 DEF ExtendStart
  <1>7. ASSUME NEW a \in Attempts, ExtendSucceeds(a)
        PROVE  Moved
    BY <1>7 DEF ExtendSucceeds, EndRound
  <1>8. ASSUME NEW a \in Attempts, ExtendFails(a)
        PROVE  Moved
    BY <1>8 DEF ExtendFails, EndRound
  <1>9. ASSUME NEW a \in Attempts, ExtendPanics(a)
        PROVE  Moved
    BY <1>9 DEF ExtendPanics, EndRound
  <1>10. ASSUME NEW a \in Attempts, ExtendSleeps(a)
        PROVE  Moved
    BY <1>10 DEF ExtendSleeps, Oks, Fails, Reached
  <1>11. ASSUME NEW a \in Attempts, ExtendInconclusive(a)
        PROVE  Moved
    BY <1>11 DEF ExtendInconclusive, EndRound
  <1>12. ASSUME NEW a \in Attempts, ReleaseDone(a)
        PROVE  Moved
    BY <1>12 DEF ReleaseDone
  <1>13. ASSUME NEW a \in Attempts, NEW s \in Servers, SetApplied(a, s)
        PROVE  Moved
    BY <1>13 DEF SetApplied, SetNX, Answer
  <1>14. ASSUME NEW a \in Attempts, NEW s \in Servers, SetRefused(a, s)
        PROVE  Moved
    BY <1>14 DEF SetRefused
  <1>15. ASSUME NEW a \in Attempts, NEW s \in Servers, ExtendApplied(a, s)
        PROVE  Moved
    BY <1>15 DEF ExtendApplied, ExtendScript, Answer
  <1>16. ASSUME NEW a \in Attempts, NEW s \in Servers, ExtendLost(a, s)
        PROVE  Moved
    BY <1>16 DEF ExtendLost
  <1>17. ASSUME NEW a \in Attempts, NEW s \in Servers, StrayExtend(a, s)
        PROVE  Moved
    <2>1. CASE ExtendScript(s, LockOf[a])
      BY <1>17, <2>1 DEF StrayExtend, ExtendScript
    <2>2. CASE UNCHANGED redis
      BY <1>17, <2>2 DEF StrayExtend
    <2> QED
      BY <1>17, <2>1, <2>2 DEF StrayExtend
  <1>18. ASSUME NEW a \in Attempts, NEW s \in Servers, ReleaseApplied(a, s)
        PROVE  Moved
    <2>1. /\ s \in relReq[a] /\ pc' = pc /\ acq' = acq
          /\ relReq' = [relReq EXCEPT ![a] = @ \ {s}]
          /\ owner' = [owner EXCEPT ![s] = IF @ = LockOf[a] THEN NoId ELSE @]
      BY <1>18 DEF ReleaseApplied, ReleaseScript
    <2>2. PICK fault \in {0, 1} : faults' = [faults EXCEPT ![a] = @ + fault]
      BY <1>18 DEF ReleaseApplied
    <2>3. pc[a] = "releasing"
      BY <2>1
    <2>4. \A t \in Servers, c \in Attempts : owner'[t] = LockOf[c] => owner[t] = LockOf[c]
      BY <2>1
    <2>5. CASE b = a
      <3>1. owner'[s] # LockOf[b]
        BY <2>1, <2>5
      <3>2. faults'[b] \in {faults[b], faults[b] + 1}
        BY <2>2, <2>5
      <3>3. relReq'[b] = relReq[b] \ {s} /\ acq[b] \in SUBSET Servers
        BY <2>1, <2>5
      <3> QED
        BY <2>1, <2>3, <2>4, <2>5, <3>1, <3>2, <3>3 DEF RelApplied
    <2>6. CASE b # a
      BY <2>1, <2>2, <2>4, <2>6 DEF RelSame
    <2> QED
      BY <2>5, <2>6
  <1>19. ASSUME NEW a \in Attempts, NEW s \in Servers, ReleaseLost(a, s)
        PROVE  Moved
    BY <1>19 DEF ReleaseLost
  <1>20. ASSUME NEW a \in Attempts, NEW s \in Servers, JoinSuccess(a, s)
        PROVE  Moved
    BY <1>20 DEF JoinSuccess
  <1>21. ASSUME NEW a \in Attempts, NEW s \in Servers, JoinGranted(a, s)
        PROVE  Moved
    BY <1>21 DEF JoinGranted, AbortAcquire
  <1>22. ASSUME NEW a \in Attempts, NEW s \in Servers, JoinFailure(a, s)
        PROVE  Moved
    BY <1>22 DEF JoinFailure
  <1>23. ASSUME NEW a \in Attempts, NEW s \in Servers, JoinGivesUp(a, s)
        PROVE  Moved
    BY <1>23 DEF JoinGivesUp, ReturnEmpty, AbortAcquire
  <1>24. CASE Tick
    BY <1>24 DEF Tick, NothingUrgent, Down, Live
  <1>25. CASE UNCHANGED vars
    BY <1>25
  <1> QED
    BY <1>1, <1>2, <1>3, <1>4, <1>5, <1>6, <1>7, <1>8, <1>9, <1>10, <1>11, <1>12, <1>13, <1>14, <1>15, <1>16, <1>17, <1>18, <1>19, <1>20, <1>21, <1>22, <1>23, <1>24, <1>25
    DEF Next, AttemptStep, UserStep, TaskStep, ServerStep, JoinStep

LEMMA FaultsCountedStep ==
    ASSUME DistinctIds, TypeOK, Bookkeeping, NEW b \in Attempts, FaultsCounted(b), [Next]_vars
    PROVE  FaultsCounted(b)'
  <1>1. /\ acq[b] \in SUBSET Servers /\ faults[b] \in Nat
        /\ Stuck(b) \in SUBSET acq[b] /\ Freed(b) \in SUBSET acq[b]
    BY DEF TypeOK, Stuck, Freed
  <1>2. /\ IsFiniteSet(acq[b]) /\ Cardinality(acq[b]) \in Nat
        /\ IsFiniteSet(Stuck(b)) /\ Cardinality(Stuck(b)) \in Nat
        /\ IsFiniteSet(Freed(b)) /\ Cardinality(Freed(b)) \in Nat
    BY <1>1, SubsetSizes
  <1>3. CASE RelSame(b)
    <2>1. pc[b] = "releasing" => Stuck(b)' \subseteq Stuck(b)
      BY <1>3 DEF RelSame, NoneSet, Stuck
    <2>2. pc[b] = "released" => Freed(b) \subseteq Freed(b)' /\ Freed(b)' \subseteq acq[b]
      BY <1>3 DEF RelSame, NoneSet, Freed
    <2>3. pc[b] = "releasing" => Cardinality(Stuck(b)') <= Cardinality(Stuck(b))
                              /\ Cardinality(Stuck(b)') \in Nat
      BY <1>2, <2>1, FS_Subset, FS_CardinalityType
    <2>4. pc[b] = "released" => Cardinality(Freed(b)) <= Cardinality(Freed(b)')
                             /\ Cardinality(Freed(b)') \in Nat
      BY <1>2, <2>2, FS_Subset, FS_CardinalityType
    <2>5. pc[b] = "released" /\ FaultsCounted(b) =>
            HasSufficientSuccesses(Cardinality(Freed(b)'), Cardinality(acq[b]))
      BY <1>2, <2>4 DEF FaultsCounted, HasSufficientSuccesses, SuccessThreshold
    <2> QED
      BY <1>1, <1>2, <1>3, <2>3, <2>5 DEF RelSame, FaultsCounted
  <1>4. CASE RelOut(b) \/ RelHeld(b)
    BY <1>4 DEF RelOut, RelHeld, FaultsCounted
  <1>5. CASE RelStart(b)
    <2>1. Stuck(b)' = {}
      BY <1>5 DEF RelStart, Stuck
    <2> QED
      BY <1>5, <2>1, FS_EmptySet DEF RelStart, FaultsCounted
  <1>6. ASSUME NEW s \in Servers, RelApplied(b, s)
        PROVE  FaultsCounted(b)'
    <2>1. Stuck(b)' \subseteq Stuck(b)
      BY <1>6 DEF RelApplied, NoneSet, Stuck
    <2>2. Cardinality(Stuck(b)') <= Cardinality(Stuck(b)) /\ Cardinality(Stuck(b)') \in Nat
      BY <1>2, <2>1, FS_Subset, FS_CardinalityType
    <2> QED
      BY <1>1, <1>2, <1>6, <2>2 DEF RelApplied, FaultsCounted
  <1>7. ASSUME NEW s \in Servers, RelLost(b, s)
        PROVE  FaultsCounted(b)'
    <2>1. Stuck(b)' \subseteq Stuck(b) \cup {s}
      BY <1>7 DEF RelLost, Stuck
    <2>2. IsFiniteSet(Stuck(b) \cup {s}) /\ Cardinality(Stuck(b) \cup {s}) <= Cardinality(Stuck(b)) + 1
          /\ Cardinality(Stuck(b) \cup {s}) \in Nat
      <3>1. IsFiniteSet(Stuck(b) \cup {s})
        BY <1>2, FS_AddElement
      <3>2. Cardinality(Stuck(b) \cup {s})
                = IF s \in Stuck(b) THEN Cardinality(Stuck(b)) ELSE Cardinality(Stuck(b)) + 1
        BY <1>2, FS_AddElement
      <3> QED
        BY <1>2, <3>1, <3>2
    <2>3. Cardinality(Stuck(b)') <= Cardinality(Stuck(b) \cup {s}) /\ Cardinality(Stuck(b)') \in Nat
      BY <2>1, <2>2, FS_Subset, FS_CardinalityType
    <2> QED
      BY <1>1, <1>2, <1>7, <2>2, <2>3 DEF RelLost, FaultsCounted
  <1>8. CASE RelDone(b)
    <2> DEFINE n == Cardinality(acq[b])
    <2>1. Freed(b)' = acq[b] \ Stuck(b) /\ acq'[b] = acq[b]
      BY <1>8 DEF RelDone, Freed, Stuck
    <2>2. Cardinality(acq[b] \ Stuck(b)) = n - Cardinality(acq[b] \cap Stuck(b))
      BY <1>2, FS_Difference
    <2>3. acq[b] \cap Stuck(b) = Stuck(b)
      BY <1>1
    <2>4. Cardinality(Freed(b)') = n - Cardinality(Stuck(b))
      BY <2>1, <2>2, <2>3
    <2>5. Cardinality(Stuck(b)) <= faults[b]
      BY <1>8 DEF RelDone, FaultsCounted
    <2>6. HasSufficientSuccesses(n - faults[b], n)
      BY <1>1, <1>2, <1>8 DEF RelDone, HasSufficientSuccesses, HasTooManyFailuresOrFaults,
                              SuccessThreshold, FailureThreshold
    <2>7. HasSufficientSuccesses(Cardinality(Freed(b)'), n)
      BY <1>1, <1>2, <2>4, <2>5, <2>6 DEF HasSufficientSuccesses, SuccessThreshold
    <2> QED
      BY <1>8, <2>1, <2>7 DEF RelDone, FaultsCounted
  <1> QED
    BY <1>3, <1>4, <1>5, <1>6, <1>7, <1>8, ReleaseMoves

\* release returns Ok only when a majority of the acquired clients no longer
\* have the key, for any number of clients and whatever was lost on the way,
\* when every acquire has a lock object of its own.
THEOREM ReleaseFreesMajorityCorrect ==
    ASSUME DistinctIds
    PROVE  Spec => []ReleaseFreesMajority
  <1> DEFINE Counts == \A b \in Attempts : FaultsCounted(b)
  <1>1. Init => Counts
    BY DEF Init, FaultsCounted
  <1>2. TypeOK /\ Bookkeeping /\ Counts /\ [Next]_vars => Counts'
    BY FaultsCountedStep
  <1>3. Counts => ReleaseFreesMajority
    BY DEF FaultsCounted, ReleaseFreesMajority, Freed
  <1> HIDE DEF Counts
  <1> QED
    BY <1>1, <1>2, <1>3, BookkeepingCorrect, PTL DEF Spec

-----------------------------------------------------------------------------
(* The refinement: every behaviour of RedLock is a behaviour of LeaseLock,  *)
(* and a grant leaves the promised validity.                               *)

LEMMA MinGrantType == MinGrant \in 0..Expiry
  BY TimesAssumption, BudgetType DEF MinGrant

LEMMA InitRefines == Init => Lease!Init
  BY DEF Init, Lease!Init, Phase

\* A new majority is a grant: it leaves too few keys to every other handle for
\* a lease to rest on them.
LEMMA GrantIsGrant ==
    ASSUME DistinctIds, Timely, QuorumsMeet, IInv, TypeOK',
           NEW a \in Attempts, NEW s \in Servers, JoinGranted(a, s)
    PROVE  Lease!Grant(a)
  <1>1. ASSUME NEW b \in Attempts \ {a}
        PROVE  lease[b] = 0
    <2>1. Cardinality(Owned(b)') < ExtendedQuorum
      BY <1>1, GrantSupersedes DEF IInv
    <2>2. Owned(b)' = Owned(b)
      BY <1>1 DEF JoinGranted, Owned, redis, IInv, TypeOK
    <2>3. Backing(b) \subseteq Owned(b) /\ Owned(b) \in SUBSET Servers
      BY <1>1 DEF Backing, Owned, KeptFor, IInv, TypeOK
    <2>4. Cardinality(Backing(b)) \in 0..Cardinality(Owned(b)) /\ Cardinality(Owned(b)) \in Nat
      BY <2>3, SubsetSizes, Sizes
    <2>5. ~(lease[b] > 0)
      BY <1>1, <2>1, <2>2, <2>4, Sizes DEF IInv, LeaseBacked
    <2> QED
      BY <1>1, <2>5 DEF IInv, TypeOK
  <1>2. lease'[a] = Expiry - age[a]
    BY GrantedKeys DEF IInv
  <1>3. age[a] \in 0..(Budget + Lag)
    BY DEF IInv, TypeOK
  <1>4. Expiry - age[a] \in MinGrant..Expiry
    BY <1>3, TimesAssumption, BudgetType DEF MinGrant, Timely
  <1>5. lease' = [lease EXCEPT ![a] = Expiry - age[a]]
    BY <1>2 DEF JoinGranted, IInv, TypeOK
  <1>6. Phase[a] = "waiting" /\ Phase' = [Phase EXCEPT ![a] = "open"]
    BY DEF JoinGranted, AbortAcquire, Phase, IInv, TypeOK
  <1>7. latest' = {a} /\ UNCHANGED lost
    BY DEF JoinGranted
  <1> QED
    BY <1>1, <1>4, <1>5, <1>6, <1>7 DEF Lease!Grant, Lease!FreeFor

\* A successful round is a renewal of the latest handle: a handle that somebody
\* followed owns too few keys for a round to succeed.
LEMMA RenewalIsRenewal ==
    ASSUME IInv, NEW a \in Attempts, ExtendSucceeds(a)
    PROVE  Lease!Renew(a)
  <1>1. Cardinality(Oks(a)) >= ExtendedQuorum /\ lease'[a] = Expiry - extAge[a] /\ pc[a] = "held"
    BY RenewedKeys DEF IInv
  <1>2. Oks(a) \subseteq Owned(a) /\ Owned(a) \in SUBSET Servers
    BY DEF ExtendSucceeds, Oks, Reached, Owned, KeptFor, IInv, TypeOK, Bookkeeping, ExtendedKeysLive
  <1>3. Cardinality(Oks(a)) \in 0..Cardinality(Owned(a)) /\ Cardinality(Owned(a)) \in Nat
    BY <1>2, SubsetSizes, Sizes
  <1>4. a \in latest
    BY <1>1, <1>3, Sizes DEF IInv, Superseded
  <1>5. latest = {a}
    BY <1>4 DEF IInv, Bookkeeping
  <1>6. ~lost[a]
    BY DEF ExtendSucceeds, IInv, Bookkeeping
  <1>7. Expiry - extAge[a] \in MinRenewal..Expiry
    BY TimesAssumption, BudgetType DEF MinRenewal, ExtendSucceeds, IInv, TypeOK
  <1>8. lease' = [lease EXCEPT ![a] = Expiry - extAge[a]]
    BY DEF ExtendSucceeds
  <1>9. Phase[a] = "open" /\ UNCHANGED <<Phase, lost, latest>>
    BY <1>1 DEF ExtendSucceeds, Phase
  <1> QED
    BY <1>5, <1>6, <1>7, <1>8, <1>9 DEF Lease!Renew

\* A call that fails or a handle that ends is closed.
LEMMA FailureCloses ==
    ASSUME TypeOK, Bookkeeping, NEW a \in Attempts, pc[a] = "acquiring",
           NEW outcome \in {"failed", "cancelled"}, ReturnEmpty(a, outcome)
    PROVE  Lease!Close(a)
  <1>1. lease[a] = 0
    <2>1. lease[a] \in Nat
      BY TimesAssumption DEF TypeOK
    <2>2. ~(lease[a] > 0)
      BY DEF Bookkeeping
    <2> QED
      BY <2>1, <2>2
  <1>2. lease' = [lease EXCEPT ![a] = 0] /\ UNCHANGED <<lost, latest>>
    BY <1>1 DEF ReturnEmpty, TypeOK, ghost, task
  <1>3. Phase[a] # "closed" /\ Phase' = [Phase EXCEPT ![a] = "closed"]
    BY DEF Phase, ReturnEmpty, AbortAcquire, TypeOK
  <1> QED
    BY <1>2, <1>3 DEF Lease!Close

LEMMA EndCloses ==
    ASSUME TypeOK, NEW a \in Attempts, ReleaseStart(a) \/ DropHandle(a)
    PROVE  Lease!Close(a)
  <1>1. lease' = [lease EXCEPT ![a] = 0] /\ UNCHANGED <<lost, latest>>
    BY DEF ReleaseStart, DropHandle, StopTask
  <1>2. Phase[a] # "closed" /\ Phase' = [Phase EXCEPT ![a] = "closed"]
    BY DEF Phase, ReleaseStart, DropHandle, TypeOK
  <1> QED
    BY <1>1, <1>2 DEF Lease!Close

LEMMA StepRefines ==
    ASSUME DistinctIds, Timely, QuorumsMeet, IInv, TypeOK', [Next]_vars
    PROVE  [Lease!Next]_Lease!vars
  <1>0. TypeOK /\ Bookkeeping
    BY DEF IInv
  <1> USE <1>0 DEF TypeOK, Bookkeeping, Phase, Lease!vars, vars, redis, call, task, ghost
  <1>1. ASSUME NEW a \in Attempts, AcquireStart(a)
        PROVE  [Lease!Next]_Lease!vars
    BY <1>1 DEF AcquireStart
  <1>2. ASSUME NEW a \in Attempts, AcquireCancelled(a)
        PROVE  [Lease!Next]_Lease!vars
    <2>1. Lease!Close(a)
      BY <1>2, FailureCloses DEF AcquireCancelled
    <2> QED
      BY <2>1 DEF Lease!Next
  <1>3. ASSUME NEW a \in Attempts, ReleaseStart(a)
        PROVE  [Lease!Next]_Lease!vars
    BY <1>3, EndCloses DEF Lease!Next
  <1>4. ASSUME NEW a \in Attempts, DropHandle(a)
        PROVE  [Lease!Next]_Lease!vars
    BY <1>4, EndCloses DEF Lease!Next
  <1>5. ASSUME NEW a \in Attempts, AcquireTimedOut(a)
        PROVE  [Lease!Next]_Lease!vars
    <2>1. Lease!Close(a)
      BY <1>5, FailureCloses DEF AcquireTimedOut
    <2> QED
      BY <2>1 DEF Lease!Next
  <1>6. ASSUME NEW a \in Attempts, ExtendStart(a)
        PROVE  [Lease!Next]_Lease!vars
    BY <1>6 DEF ExtendStart
  <1>7. ASSUME NEW a \in Attempts, ExtendSucceeds(a)
        PROVE  [Lease!Next]_Lease!vars
    BY <1>7, RenewalIsRenewal DEF Lease!Next
  <1>8. ASSUME NEW a \in Attempts, ExtendFails(a)
        PROVE  [Lease!Next]_Lease!vars
    <2>1. Lease!Lose(a)
      BY <1>8 DEF Lease!Lose, ExtendFails, EndRound
    <2> QED
      BY <2>1 DEF Lease!Next
  <1>9. ASSUME NEW a \in Attempts, ExtendPanics(a)
        PROVE  [Lease!Next]_Lease!vars
    BY <1>9 DEF ExtendPanics, EndRound
  <1>10. ASSUME NEW a \in Attempts, ExtendSleeps(a)
        PROVE  [Lease!Next]_Lease!vars
    BY <1>10 DEF ExtendSleeps, Oks, Fails, Reached
  <1>11. ASSUME NEW a \in Attempts, ExtendInconclusive(a)
        PROVE  [Lease!Next]_Lease!vars
    BY <1>11 DEF ExtendInconclusive, EndRound
  <1>12. ASSUME NEW a \in Attempts, ReleaseDone(a)
        PROVE  [Lease!Next]_Lease!vars
    BY <1>12 DEF ReleaseDone
  <1>13. ASSUME NEW a \in Attempts, NEW s \in Servers, SetApplied(a, s)
        PROVE  [Lease!Next]_Lease!vars
    BY <1>13 DEF SetApplied, SetNX, Answer
  <1>14. ASSUME NEW a \in Attempts, NEW s \in Servers, SetRefused(a, s)
        PROVE  [Lease!Next]_Lease!vars
    BY <1>14 DEF SetRefused
  <1>15. ASSUME NEW a \in Attempts, NEW s \in Servers, ExtendApplied(a, s)
        PROVE  [Lease!Next]_Lease!vars
    BY <1>15 DEF ExtendApplied, ExtendScript, Answer
  <1>16. ASSUME NEW a \in Attempts, NEW s \in Servers, ExtendLost(a, s)
        PROVE  [Lease!Next]_Lease!vars
    BY <1>16 DEF ExtendLost
  <1>17. ASSUME NEW a \in Attempts, NEW s \in Servers, StrayExtend(a, s)
        PROVE  [Lease!Next]_Lease!vars
    <2>1. CASE ExtendScript(s, LockOf[a])
      BY <1>17, <2>1 DEF StrayExtend, ExtendScript
    <2>2. CASE UNCHANGED redis
      BY <1>17, <2>2 DEF StrayExtend
    <2> QED
      BY <1>17, <2>1, <2>2 DEF StrayExtend
  <1>18. ASSUME NEW a \in Attempts, NEW s \in Servers, ReleaseApplied(a, s)
        PROVE  [Lease!Next]_Lease!vars
    BY <1>18 DEF ReleaseApplied, ReleaseScript
  <1>19. ASSUME NEW a \in Attempts, NEW s \in Servers, ReleaseLost(a, s)
        PROVE  [Lease!Next]_Lease!vars
    BY <1>19 DEF ReleaseLost
  <1>20. ASSUME NEW a \in Attempts, NEW s \in Servers, JoinSuccess(a, s)
        PROVE  [Lease!Next]_Lease!vars
    BY <1>20 DEF JoinSuccess
  <1>21. ASSUME NEW a \in Attempts, NEW s \in Servers, JoinGranted(a, s)
        PROVE  [Lease!Next]_Lease!vars
    BY <1>21, GrantIsGrant DEF Lease!Next
  <1>22. ASSUME NEW a \in Attempts, NEW s \in Servers, JoinFailure(a, s)
        PROVE  [Lease!Next]_Lease!vars
    BY <1>22 DEF JoinFailure
  <1>23. ASSUME NEW a \in Attempts, NEW s \in Servers, JoinGivesUp(a, s)
        PROVE  [Lease!Next]_Lease!vars
    <2>1. Lease!Close(a)
      BY <1>23, FailureCloses DEF JoinGivesUp
    <2> QED
      BY <2>1 DEF Lease!Next
  <1>24. CASE Tick
    <2>1. Lease!Pass
      BY <1>24 DEF Lease!Pass, Tick, Down
    <2> QED
      BY <2>1 DEF Lease!Next
  <1>25. CASE UNCHANGED vars
    BY <1>25
  <1> QED
    BY <1>1, <1>2, <1>3, <1>4, <1>5, <1>6, <1>7, <1>8, <1>9, <1>10, <1>11, <1>12, <1>13, <1>14, <1>15, <1>16, <1>17, <1>18, <1>19, <1>20, <1>21, <1>22, <1>23, <1>24, <1>25
    DEF Next, AttemptStep, UserStep, TaskStep, ServerStep, JoinStep

\* RedLock implements LeaseLock, under the conditions of its invariant.
THEOREM RefinementCorrect ==
    ASSUME DistinctIds, Timely, QuorumsMeet
    PROVE  Spec => ImplementsLeaseLock
  <1>1. IInv /\ IInv' /\ [Next]_vars => [Lease!Next]_Lease!vars
    BY StepRefines DEF IInv
  <1> QED
    BY <1>1, InitRefines, InvariantCorrect, PTL DEF Spec, ImplementsLeaseLock, Lease!Spec

\* A handle is returned with a majority of keys that still live for what the
\* budget and the lag leave of the expiry.
THEOREM MinValidityCorrect ==
    ASSUME DistinctIds, Timely, QuorumsMeet
    PROVE  Spec => MinValidityOnGrant
  <1> DEFINE Kept(a) == {s \in Servers : /\ owner'[s] = LockOf[a]
                                         /\ ttl'[s] + Lag >= MinTime}
             Valid == \A a \in Attempts : pc[a] = "acquiring" /\ pc'[a] = "held" =>
                         HasSufficientSuccesses(Cardinality(Kept(a)), N)
  <1>1. ASSUME IInv, IInv', [Next]_vars, NEW a \in Attempts,
               pc[a] = "acquiring", pc'[a] = "held"
        PROVE  HasSufficientSuccesses(Cardinality(Kept(a)), N)
    <2>1. PICK s \in Servers : JoinGranted(a, s)
      BY <1>1, FreshHandle DEF IInv
    <2>2. /\ acq'[a] \subseteq Servers /\ Cardinality(acq'[a]) >= Quorum
          /\ \A t \in acq'[a] : KeptFor(a, t, lease[a])'
          /\ lease'[a] = Expiry - age[a]
      BY <1>1, <2>1, GrantedKeys DEF IInv
    <2>3. age[a] \in 0..(Budget + Lag) /\ \A t \in Servers : ttl'[t] \in 0..Expiry
      BY <1>1 DEF IInv, TypeOK
    <2>4. acq'[a] \subseteq Kept(a)
      <3> SUFFICES ASSUME NEW t \in acq'[a] PROVE t \in Kept(a)
        OBVIOUS
      <3>1. owner'[t] = LockOf[a] /\ ttl'[t] >= Expiry - age[a] /\ t \in Servers
        BY <2>2 DEF KeptFor
      <3>2. MinTime = Expiry - Budget
        BY TimesAssumption DEF MinTime, Budget, AcquireTimeout
      <3>3. ttl'[t] + Lag >= MinTime
        BY <2>3, <3>1, <3>2, TimesAssumption, BudgetType
      <3> QED
        BY <3>1, <3>3
    <2>5. Cardinality(acq'[a]) \in 0..Cardinality(Kept(a)) /\ Cardinality(Kept(a)) \in Nat
      BY <2>4, SubsetSizes, Sizes
    <2> HIDE DEF Kept
    <2> QED
      BY <2>2, <2>5, Sizes DEF HasSufficientSuccesses, Quorum
  <1>2. IInv /\ IInv' /\ [Next]_vars => [Valid]_vars
    BY <1>1
  <1> QED
    BY <1>2, InvariantCorrect, PTL DEF Spec, MinValidityOnGrant
=============================================================================
