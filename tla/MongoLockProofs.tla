--------------------------- MODULE MongoLockProofs ---------------------------
(* The MongoDB mutex for any number of attempts and any expiry: what it is   *)
(* worth to a caller, and that it implements the abstract lock.              *)
EXTENDS MongoLock, TLAPS

LEMMA InitInv == Init => MongoInvariant
  BY MongoAssumption
     DEF Init, MongoInvariant, TypeOK, SafeForOneExpiry, CommandsFit, Won, PcStates, EndStates

\* What an attempt does, apart from the passing of time.
Step(a) ==
    \/ CallStep(a) \/ CallFails(a) \/ CancelCall(a) \/ CommandLost(a)
    \/ ReleaseStart(a) \/ ReleaseFails(a) \/ DropHandle(a)

LEMMA NextIsStep == Next <=> Tick \/ \E a \in Attempts : Step(a)
  BY DEF Next, Step

LEMMA LaterType ==
    ASSUME NEW bound \in Nat, NEW t \in 0..bound
    PROVE  Later(t, bound) \in 0..bound
  BY DEF Later

\* Every step keeps the types.
LEMMA TypeStep ==
    ASSUME TypeOK, NEW a \in Attempts, Step(a)
    PROVE  TypeOK'
  <1> USE MongoAssumption DEF TypeOK, PcStates, EndStates, Goto, Command, server, clocks
  <1>1. CASE Ask(a)
    BY <1>1 DEF Ask
  <1>2. CASE Upsert(a)
    BY <1>2 DEF Upsert, Take
  <1>3. CASE Granted(a)
    BY <1>3 DEF Granted
  <1>4. CASE Refused(a)
    BY <1>4 DEF Refused
  <1>5. CASE Delete(a)
    BY <1>5 DEF Delete
  <1>6. CASE ReleaseReturns(a)
    BY <1>6 DEF ReleaseReturns
  <1>7. CASE CallFails(a) \/ CancelCall(a) \/ CommandLost(a)
    BY <1>7 DEF CallFails, CancelCall, CommandLost
  <1>8. CASE ReleaseStart(a) \/ ReleaseFails(a) \/ DropHandle(a)
    BY <1>8 DEF ReleaseStart, ReleaseFails, DropHandle
  <1> QED
    BY <1>1, <1>2, <1>3, <1>4, <1>5, <1>6, <1>7, <1>8 DEF Step, CallStep

LEMMA TypeTick ==
    ASSUME TypeOK, Tick
    PROVE  TypeOK'
  <1> USE MongoAssumption DEF TypeOK
  <1>1. left' \in 0..Expiry /\ UNCHANGED <<owner, latest, pc, cmd>>
    BY DEF Tick
  <1>2. elapsed' \in [Attempts -> 0..Timeout]
    BY LaterType DEF Tick
  <1>3. age' \in [Attempts -> 0..Expiry]
    BY LaterType DEF Tick
  <1> QED
    BY <1>1, <1>2, <1>3

\* Commands do what their call asked for, and a late one finds a document with
\* time left in its way.
LEMMA SafeStep ==
    ASSUME TypeOK, SafeForOneExpiry, CommandsFit, NEW a \in Attempts, Step(a)
    PROVE  SafeForOneExpiry'
  <1> USE MongoAssumption
      DEF TypeOK, SafeForOneExpiry, Won, PcStates, EndStates, Goto, Command, server, clocks
  <1>1. CASE Ask(a)
    BY <1>1 DEF Ask
  <1>2. CASE Upsert(a)
    <2>1. CASE ~Expired
      BY <1>2, <2>1 DEF Upsert
    <2>2. CASE Expired
      <3>1. ASSUME NEW b \in Attempts, b # a, Won(b)', age'[b] < Expiry
            PROVE  FALSE
        <4>1. Won(b) /\ age[b] < Expiry
          BY <1>2, <2>2, <3>1 DEF Upsert
        <4>2. owner = b /\ left > 0
          BY <4>1
        <4> QED
          BY <2>2, <4>2 DEF Expired
      <3>2. owner' = a /\ left' = Expiry /\ age' = age
        BY <1>2, <2>2 DEF Upsert, Take
      <3>3. left' >= Expiry - age'[a]
        BY <3>2
      <3> QED
        BY <3>1, <3>2, <3>3
    <2> QED
      BY <2>1, <2>2
  <1>3. CASE Granted(a) \/ Refused(a)
    BY <1>3 DEF Granted, Refused
  <1>4. CASE Delete(a)
    BY <1>4 DEF Delete, CommandsFit
  <1>5. CASE ReleaseReturns(a)
    BY <1>5 DEF ReleaseReturns
  <1>6. CASE CallFails(a) \/ CancelCall(a) \/ CommandLost(a)
    BY <1>6 DEF CallFails, CancelCall, CommandLost
  <1>7. CASE ReleaseStart(a) \/ ReleaseFails(a) \/ DropHandle(a)
    BY <1>7 DEF ReleaseStart, ReleaseFails, DropHandle
  <1> QED
    BY <1>1, <1>2, <1>3, <1>4, <1>5, <1>6, <1>7 DEF Step, CallStep

\* The clocks of the document and of its holder run together.
LEMMA SafeTick ==
    ASSUME TypeOK, SafeForOneExpiry, Tick
    PROVE  SafeForOneExpiry'
  <1> SUFFICES ASSUME NEW a \in Attempts, Won(a)', age'[a] < Expiry
               PROVE  owner' = a /\ left' >= Expiry - age'[a]
    BY DEF SafeForOneExpiry
  <1> USE MongoAssumption DEF TypeOK
  <1>1. Won(a) /\ pc[a] \in {"wait", "held"} /\ UNCHANGED owner
    BY DEF Tick, Won
  <1>2. age'[a] = Later(age[a], Expiry)
    BY <1>1 DEF Tick
  <1>3. age'[a] = age[a] + 1 /\ age[a] < Expiry
    BY <1>2 DEF Later
  <1>4. owner = a /\ left >= Expiry - age[a]
    BY <1>1, <1>3 DEF SafeForOneExpiry
  <1>5. left' = left - 1
    BY <1>3, <1>4 DEF Tick
  <1> QED
    BY <1>1, <1>3, <1>4, <1>5

LEMMA CommandsStep ==
    ASSUME TypeOK, CommandsFit, NEW a \in Attempts, Step(a)
    PROVE  CommandsFit'
  <1> USE DEF TypeOK, CommandsFit, Goto, Command, server, clocks, PcStates, EndStates
  <1>1. CASE Ask(a) \/ Upsert(a) \/ Granted(a) \/ Refused(a)
    BY <1>1 DEF Ask, Upsert, Granted, Refused
  <1>2. CASE Delete(a) \/ ReleaseReturns(a)
    BY <1>2 DEF Delete, ReleaseReturns
  <1>3. CASE CallFails(a) \/ CancelCall(a) \/ CommandLost(a)
    BY <1>3 DEF CallFails, CancelCall, CommandLost
  <1>4. CASE ReleaseStart(a) \/ ReleaseFails(a) \/ DropHandle(a)
    BY <1>4 DEF ReleaseStart, ReleaseFails, DropHandle
  <1> QED
    BY <1>1, <1>2, <1>3, <1>4 DEF Step, CallStep

LEMMA NextInv == MongoInvariant /\ [Next]_vars => MongoInvariant'
  <1> SUFFICES ASSUME MongoInvariant, [Next]_vars PROVE MongoInvariant'
    OBVIOUS
  <1>1. ASSUME NEW a \in Attempts, Step(a)
        PROVE  MongoInvariant'
    BY <1>1, TypeStep, SafeStep, CommandsStep DEF MongoInvariant
  <1>2. CASE Tick
    <2>1. CommandsFit'
      BY <1>2 DEF Tick, MongoInvariant, CommandsFit
    <2> QED
      BY <1>2, <2>1, TypeTick, SafeTick DEF MongoInvariant
  <1>3. CASE UNCHANGED vars
    BY <1>3 DEF MongoInvariant, TypeOK, SafeForOneExpiry, CommandsFit, Won,
                vars, server, clocks
  <1> QED
    BY <1>1, <1>2, <1>3, NextIsStep

\* A document stays with whoever may still count on it.
THEOREM MongoInvariantCorrect == Spec => []MongoInvariant
  BY InitInv, NextInv, PTL DEF Spec

\* Of two open handles one is older than its expiry.
THEOREM ExclusiveForOneExpiryCorrect == Spec => []ExclusiveForOneExpiry
  <1>1. MongoInvariant => ExclusiveForOneExpiry
    BY DEF MongoInvariant, SafeForOneExpiry, ExclusiveForOneExpiry, Holds, Won
  <1> QED
    BY <1>1, MongoInvariantCorrect, PTL

-----------------------------------------------------------------------------
LEMMA InitRefines == Init => Promise!Init
  BY DEF Init, Promise!Init, Phase, Lease, Won

\* An upsert that wins while its call waits is a grant; that of a call that is
\* over takes a document nobody has time left on.
LEMMA UpsertRefines ==
    ASSUME TypeOK, CommandsFit, NEW a \in Attempts, Upsert(a)
    PROVE  [Promise!Next]_Promise!vars
  <1> USE MongoAssumption DEF TypeOK, Command, server, clocks
  <1>1. CASE ~Expired
    <2>1. UNCHANGED <<Phase, Lease, latest>>
      BY <1>1 DEF Upsert, Phase, Lease, Won
    <2> QED
      BY <2>1 DEF Promise!vars
  <1>2. CASE Expired
    <2>1. \A b \in Attempts : Lease[b] = 0
      BY <1>2 DEF Expired, Lease
    <2>2. owner' = a /\ left' = Expiry /\ cmd'[a] = "won" /\ pc' = pc
          /\ \A b \in Attempts \ {a} : cmd'[b] = cmd[b]
      BY <1>2 DEF Upsert, Take
    <2>3. \A b \in Attempts \ {a} : Phase'[b] = Phase[b] /\ Lease'[b] = 0
      BY <2>2 DEF Phase, Lease, Won
    <2>4. CASE pc[a] = "wait"
      <3>1. Phase[a] = "waiting" /\ Phase'[a] = "open" /\ Lease'[a] = Expiry
        BY <2>2, <2>4 DEF Upsert, Phase, Lease, Won
      <3>2. Phase' = [Phase EXCEPT ![a] = "open"]
        BY <2>3, <3>1 DEF Phase
      <3>3. Lease' = [Lease EXCEPT ![a] = Expiry]
        BY <2>1, <2>3, <3>1 DEF Lease
      <3>4. latest' = {a}
        BY <1>2, <2>4 DEF Upsert, Take
      <3>5. Expiry \in Expiry..Expiry
        OBVIOUS
      <3>6. Promise!Grant(a)
        BY <2>1, <3>1, <3>2, <3>3, <3>4, <3>5 DEF Promise!Grant, Promise!FreeFor
      <3> QED
        BY <3>6 DEF Promise!Next
    <2>5. CASE pc[a] # "wait"
      <3>1. ~(pc[a] = "held")
        BY DEF Upsert, CommandsFit
      <3>2. Phase'[a] = Phase[a] /\ Lease'[a] = 0
        BY <2>2, <2>5, <3>1 DEF Phase, Lease, Won
      <3>3. UNCHANGED <<Phase, Lease, latest>>
        BY <1>2, <2>1, <2>3, <2>5, <3>2 DEF Upsert, Take, Phase, Lease
      <3> QED
        BY <3>3 DEF Promise!vars
    <2> QED
      BY <2>4, <2>5
  <1> QED
    BY <1>1, <1>2

\* A call that fails, is dropped or gives up, and a handle that is given up, are closed.
LEMMA EndCloses ==
    ASSUME TypeOK, NEW a \in Attempts,
           \/ CallFails(a) \/ CancelCall(a) \/ ReleaseStart(a) \/ DropHandle(a)
           \/ Refused(a) /\ pc'[a] # "sleep"
    PROVE  Promise!Close(a)
  <1> USE DEF TypeOK, PcStates, EndStates, Goto, Command, server, clocks
  <1>1. Phase[a] # "closed"
    BY DEF Phase, Won, CallFails, CancelCall, ReleaseStart, DropHandle, Refused
  <1>2. pc'[a] \in {"failed", "release", "dropped", "busy", "timeout"} /\ UNCHANGED server
    BY DEF CallFails, CancelCall, ReleaseStart, DropHandle, Refused
  <1>3. \A b \in Attempts \ {a} : pc'[b] = pc[b] /\ cmd'[b] = cmd[b]
    BY DEF CallFails, CancelCall, ReleaseStart, DropHandle, Refused
  <1>4. Phase' = [Phase EXCEPT ![a] = "closed"]
    BY <1>2, <1>3 DEF Phase, Won
  <1>5. Lease' = [Lease EXCEPT ![a] = 0]
    BY <1>2, <1>3, <1>4 DEF Lease, Phase
  <1> QED
    BY <1>1, <1>2, <1>4, <1>5 DEF Promise!Close

\* The document of a handle that was given up is nobody's lease any more.
LEMMA DeleteRefines ==
    ASSUME TypeOK, CommandsFit, NEW a \in Attempts, Delete(a)
    PROVE  UNCHANGED <<Phase, Lease, latest>>
  <1> USE MongoAssumption DEF TypeOK, PcStates, EndStates, Command, clocks
  <1>1. pc[a] \in {"release", "failed"} /\ pc' = pc /\ latest' = latest
    BY DEF Delete, CommandsFit
  <1>2. \A b \in Attempts : Won(b)' <=> Won(b)
    BY <1>1 DEF Delete, Won
  <1>3. Phase' = Phase /\ Phase[a] = "closed"
    BY <1>1, <1>2 DEF Phase, Won
  <1>4. Lease' = Lease
    BY <1>3 DEF Lease, Delete
  <1> QED
    BY <1>1, <1>3, <1>4

\* Every other step of an attempt is a stutter.
LEMMA AnswerRefines ==
    ASSUME TypeOK, CommandsFit, NEW a \in Attempts,
           \/ Ask(a) \/ Granted(a) \/ CommandLost(a) \/ ReleaseReturns(a) \/ ReleaseFails(a)
           \/ Refused(a) /\ pc'[a] = "sleep"
    PROVE  UNCHANGED <<Phase, Lease, latest>>
  <1> USE DEF TypeOK, PcStates, EndStates, Goto, Command, server, clocks
  <1>1. UNCHANGED server
    BY DEF Ask, Granted, Refused, CommandLost, ReleaseReturns, ReleaseFails
  <1>2. \A b \in Attempts \ {a} : pc'[b] = pc[b] /\ cmd'[b] = cmd[b]
    BY DEF Ask, Granted, Refused, CommandLost, ReleaseReturns, ReleaseFails
  <1>3. Phase'[a] = Phase[a]
    <2>1. CASE Ask(a)
      BY <2>1 DEF Ask, Phase, Won
    <2>2. CASE Granted(a)
      BY <2>2 DEF Granted, Phase, Won
    <2>3. CASE Refused(a) /\ pc'[a] = "sleep"
      BY <2>3 DEF Refused, Phase, Won
    <2>4. CASE CommandLost(a) \/ ReleaseReturns(a) \/ ReleaseFails(a)
      BY <2>4 DEF CommandLost, ReleaseReturns, ReleaseFails, Phase, Won
    <2> QED
      BY <2>1, <2>2, <2>3, <2>4
  <1>4. Phase' = Phase
    BY <1>2, <1>3 DEF Phase, Won
  <1>5. Lease' = Lease
    BY <1>1, <1>4 DEF Lease
  <1> QED
    BY <1>1, <1>4, <1>5

LEMMA TickRefines ==
    ASSUME TypeOK, Tick
    PROVE  Promise!Pass
  <1>1. Phase' = Phase /\ UNCHANGED <<owner, latest>>
    BY DEF Tick, Phase, Won
  <1>2. Lease' = [a \in Attempts |-> IF Lease[a] > 0 THEN Lease[a] - 1 ELSE 0]
    BY <1>1, MongoAssumption DEF Lease, Tick, TypeOK
  <1> QED
    BY <1>1, <1>2 DEF Promise!Pass

LEMMA NextRefines ==
    ASSUME MongoInvariant, [Next]_vars
    PROVE  [Promise!Next]_Promise!vars
  <1> USE DEF MongoInvariant
  <1>1. ASSUME NEW a \in Attempts, Step(a)
        PROVE  [Promise!Next]_Promise!vars
    <2>1. CASE Upsert(a)
      BY <2>1, UpsertRefines
    <2>2. CASE CallFails(a) \/ CancelCall(a) \/ ReleaseStart(a) \/ DropHandle(a)
      BY <2>2, EndCloses DEF Promise!Next
    <2>3. CASE Delete(a)
      BY <2>3, DeleteRefines DEF Promise!vars
    <2>4. CASE Ask(a) \/ Granted(a) \/ CommandLost(a) \/ ReleaseReturns(a) \/ ReleaseFails(a)
      BY <2>4, AnswerRefines DEF Promise!vars
    <2>5. CASE Refused(a)
      BY <2>5, EndCloses, AnswerRefines DEF Promise!vars, Promise!Next
    <2> QED
      BY <1>1, <2>1, <2>2, <2>3, <2>4, <2>5 DEF Step, CallStep
  <1>2. CASE Tick
    BY <1>2, TickRefines DEF Promise!Next
  <1>3. CASE UNCHANGED vars
    BY <1>3 DEF vars, server, clocks, Promise!vars, Phase, Lease, Won
  <1> QED
    BY <1>1, <1>2, <1>3, NextIsStep

\* The document is a lease of one expiry: whatever is late, lost, dropped or
\* released, the MongoDB mutex behaves as the abstract lock.
THEOREM MongoImplementsLeaseLock == Spec => ImplementsLeaseLock
  BY InitRefines, NextRefines, MongoInvariantCorrect, PTL DEF Spec, Promise!Spec, ImplementsLeaseLock
=============================================================================
