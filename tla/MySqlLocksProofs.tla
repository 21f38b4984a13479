--------------------------- MODULE MySqlLocksProofs ---------------------------
(* The MySQL locks for any pool and any calls: their invariant holds, handles *)
(* of the mutex exclude each other for as long as their connections are up,   *)
(* and those of the other lock unless tries overlapped.                       *)
EXTENDS MySqlLocks, FiniteSetTheorems, TLAPS

\* What the two locks need from each other: sessions of their own.
Apart == txs \in SUBSET Sessions /\ txs \cap pool = {} /\ SessionsApart

-----------------------------------------------------------------------------
(* The mutex                                                               *)

LEMMA MutexCases ==
    ASSUME Mutex!Next
    PROVE  \/ \E s \in Sessions : Mutex!Break(s)
           \/ \E a \in Lockers :
                \/ (\E s \in Sessions : Mutex!Connect(a, s)) \/ Mutex!ConnectFails(a)
                \/ Mutex!Granted(a) \/ Mutex!Refused(a) \/ Mutex!CallFails(a)
                \/ Mutex!Cancel(a) \/ Mutex!ZombieAnswered(a) \/ Mutex!GuardReleases(a)
                \/ Mutex!GuardFails(a) \/ Mutex!KeepaliveFails(a) \/ Mutex!Release(a)
                \/ Mutex!ReleaseLeaks(a) \/ Mutex!DropHandle(a)
  BY DEF Mutex!Next, Mutex!CallStep

LEMMA MutexStep ==
    ASSUME Mutex!MutexInvariant, Apart, Mutex!Next, UNCHANGED rwVars
    PROVE  Mutex!MutexInvariant' /\ Apart'
  <1> USE MySqlAssumption
      DEF Mutex!MutexInvariant, Mutex!TypeOK, Mutex!OwnSession, Mutex!OneOwner, Mutex!HandleOwns,
          Mutex!Working, Mutex!Busy, Mutex!EndStates, Mutex!On, Mutex!Goto, Apart, SessionsApart, rwVars
  <1>1. CASE \E s \in Sessions : Mutex!Break(s)
    <2> PICK s \in Sessions : Mutex!Break(s)
      BY <1>1
    <2>1. /\ s \in pool \/ \E a \in Lockers : pc[a] \in {"call", "zombie", "guard", "held"} /\ conn[a] = s
          /\ depth' = [depth EXCEPT ![s] = 0]
          /\ UNCHANGED <<pool, pc, conn, lost, txs>>
      BY DEF Mutex!Break
    <2>2. live' = [live EXCEPT ![s] = s \in pool]
      BY DEF Mutex!Break
    <2>3. live' \in [Sessions -> BOOLEAN]
      <3>1. (s \in pool) \in BOOLEAN
        OBVIOUS
      <3> HIDE DEF Mutex!MutexInvariant, Mutex!TypeOK
      <3>2. live \in [Sessions -> BOOLEAN]
        BY DEF Mutex!MutexInvariant, Mutex!TypeOK
      <3> QED
        BY ONLY <2>2, <3>1, <3>2, Zenon
    <2>4. live'[s] <=> s \in pool
      <3>1. live \in [Sessions -> BOOLEAN]
        OBVIOUS
      <3> QED
        BY ONLY <2>2, <3>1, s \in Sessions, Zenon
    <2>5. \A t \in Sessions \ {s} : live'[t] = live[t]
      BY <2>2
    <2>6. s \notin txs
      BY <2>1
    <2>7. Mutex!TypeOK'
      BY <2>1, <2>3
    <2>8. Mutex!OwnSession' /\ Mutex!OneOwner'
      BY <2>1
    <2>9. Mutex!HandleOwns'
      BY <2>1, <2>4, <2>5
    <2>10. Apart' /\ \A t \in pool' : live'[t]
      BY <2>1, <2>4, <2>5, <2>6
    <2> QED
      BY <2>7, <2>8, <2>9, <2>10
  <1>2. CASE \E a \in Lockers : (\E s \in Sessions : Mutex!Connect(a, s)) \/ Mutex!ConnectFails(a)
    BY <1>2 DEF Mutex!Connect, Mutex!ConnectFails
  <1>3. CASE \E a \in Lockers : Mutex!Granted(a)
    BY <1>3 DEF Mutex!Granted, Mutex!Free, Mutex!Lock
  <1>4. CASE \E a \in Lockers : Mutex!CallFails(a) \/ Mutex!Cancel(a) \/ Mutex!DropHandle(a)
    BY <1>4 DEF Mutex!CallFails, Mutex!Cancel, Mutex!DropHandle
  <1>5. CASE \E a \in Lockers : Mutex!ZombieAnswered(a)
    BY <1>5 DEF Mutex!ZombieAnswered, Mutex!Free, Mutex!Lock
  <1>6. CASE \E a \in Lockers : Mutex!KeepaliveFails(a)
    BY <1>6 DEF Mutex!KeepaliveFails
  <1>7. CASE \E a \in Lockers : Mutex!Refused(a)
    <2> PICK a \in Lockers : Mutex!Refused(a)
      BY <1>7
    <2>1. pc[a] = "call" /\ UNCHANGED <<depth, lost, txs>>
      BY DEF Mutex!Refused
    <2>2. CASE Mutex!End(a, "busy")
      BY <2>1, <2>2 DEF Mutex!End
    <2>3. CASE Mutex!End(a, "timeout")
      BY <2>1, <2>3 DEF Mutex!End
    <2> QED
      BY <2>2, <2>3 DEF Mutex!Refused
  <1>8. CASE \E a \in Lockers : Mutex!GuardReleases(a)
    BY <1>8 DEF Mutex!GuardReleases, Mutex!End, Mutex!Unlock
  <1>9. CASE \E a \in Lockers : Mutex!Release(a)
    BY <1>9 DEF Mutex!Release, Mutex!End, Mutex!Unlock
  <1>10. CASE \E a \in Lockers : Mutex!ReleaseLeaks(a)
    BY <1>10 DEF Mutex!ReleaseLeaks, Mutex!End
  <1>11. CASE \E a \in Lockers : Mutex!GuardFails(a)
    BY <1>11 DEF Mutex!GuardFails, Mutex!End
  <1> QED
    BY MutexCases, <1>1, <1>2, <1>3, <1>4, <1>5, <1>6, <1>7, <1>8, <1>9, <1>10, <1>11

\* What a call or a handle of the mutex does.
MutexCallStep(a) ==
    \/ (\E s \in Sessions : Mutex!Connect(a, s)) \/ Mutex!ConnectFails(a)
    \/ Mutex!Granted(a) \/ Mutex!Refused(a) \/ Mutex!CallFails(a)
    \/ Mutex!Cancel(a) \/ Mutex!ZombieAnswered(a) \/ Mutex!GuardReleases(a)
    \/ Mutex!GuardFails(a) \/ Mutex!KeepaliveFails(a) \/ Mutex!Release(a)
    \/ Mutex!ReleaseLeaks(a) \/ Mutex!DropHandle(a)

\* A step changes what its own attempt has, and nothing of the others.
LEMMA MutexLocal ==
    ASSUME Mutex!MutexInvariant, NEW a \in Lockers, MutexCallStep(a),
           NEW b \in Lockers \ {a}
    PROVE  pc'[b] = pc[b] /\ conn'[b] = conn[b]
  BY DEF MutexCallStep, Mutex!MutexInvariant, Mutex!TypeOK, Mutex!Goto, Mutex!End, Mutex!Connect,
         Mutex!ConnectFails, Mutex!Granted, Mutex!Refused, Mutex!CallFails, Mutex!Cancel,
         Mutex!ZombieAnswered, Mutex!GuardReleases, Mutex!GuardFails, Mutex!KeepaliveFails, Mutex!Release,
         Mutex!ReleaseLeaks, Mutex!DropHandle

\* A step of the mutex takes a session from the pool, gives its own back, or leaves
\* them where they are.
LEMMA MutexSessions ==
    ASSUME Mutex!MutexInvariant, NEW a \in Lockers, MutexCallStep(a)
    PROVE  \/ UNCHANGED pool /\ (Mutex!Working(a) => Mutex!Working(a)' /\ conn'[a] = conn[a])
           \/ Mutex!Working(a) /\ pool' = pool \cup {conn[a]}
           \/ ~Mutex!Working(a) /\ Mutex!Working(a)' /\ pool' = pool \ {conn'[a]}
  <1> USE DEF Mutex!MutexInvariant, Mutex!TypeOK, Mutex!Goto, Mutex!On, Mutex!Working, Mutex!Busy
  <1>1. CASE \E s \in Sessions : Mutex!Connect(a, s)
    BY <1>1 DEF Mutex!Connect
  <1>2. CASE Mutex!ConnectFails(a)
    BY <1>2 DEF Mutex!ConnectFails
  <1>3. CASE Mutex!Granted(a) \/ Mutex!CallFails(a) \/ Mutex!Cancel(a) \/ Mutex!DropHandle(a)
    BY <1>3 DEF Mutex!Granted, Mutex!CallFails, Mutex!Cancel, Mutex!DropHandle
  <1>4. CASE Mutex!ZombieAnswered(a) \/ Mutex!KeepaliveFails(a)
    BY <1>4 DEF Mutex!ZombieAnswered, Mutex!KeepaliveFails
  <1>5. CASE Mutex!Refused(a) \/ Mutex!GuardReleases(a) \/ Mutex!GuardFails(a)
    BY <1>5 DEF Mutex!Refused, Mutex!GuardReleases, Mutex!GuardFails, Mutex!End
  <1>6. CASE Mutex!Release(a) \/ Mutex!ReleaseLeaks(a)
    BY <1>6 DEF Mutex!Release, Mutex!ReleaseLeaks, Mutex!End
  <1> QED
    BY <1>1, <1>2, <1>3, <1>4, <1>5, <1>6 DEF MutexCallStep

\* Who ends gives its session back.
LEMMA NoSessionLostStep ==
    ASSUME Mutex!MutexInvariant, Apart, NoSessionLost, Mutex!Next, UNCHANGED txs
    PROVE  NoSessionLost'
  <1>1. CASE \E s \in Sessions : Mutex!Break(s)
    BY <1>1 DEF Mutex!Break, NoSessionLost, Mutex!Working
  <1>2. ASSUME NEW a \in Lockers, MutexCallStep(a)
        PROVE  NoSessionLost'
    <2> SUFFICES ASSUME NEW s \in Sessions \ (pool' \cup txs)
                 PROVE  \E b \in Lockers : Mutex!Working(b)' /\ conn'[b] = s
      BY DEF NoSessionLost
    <2>1. \A b \in Lockers \ {a} : Mutex!Working(b)' = Mutex!Working(b) /\ conn'[b] = conn[b]
      BY <1>2, MutexLocal DEF Mutex!Working
    <2>2. CASE s \notin pool
      <3>1. PICK b \in Lockers : Mutex!Working(b) /\ conn[b] = s
        BY <2>2 DEF NoSessionLost
      <3>2. CASE b # a
        BY <2>1, <3>1, <3>2
      <3>3. CASE b = a
        BY <1>2, <3>1, <3>3, MutexSessions
      <3> QED
        BY <3>2, <3>3
    <2>3. CASE s \in pool
      BY <1>2, <2>3, MutexSessions
    <2> QED
      BY <2>2, <2>3
  <1> QED
    BY <1>1, <1>2, MutexCases DEF MutexCallStep

-----------------------------------------------------------------------------
(* The reader-writer lock                                                  *)

InTxs          == {a \in Rw!Attempts : rwPc[a] \in Rw!InTx}
CountedReaders == {a \in Readers : Rw!Counted(a)}

\* The instance has a Cardinality of its own: the same one.
LEMMA SameCardinality == \A S : Rw!Cardinality(S) = Cardinality(S)
  BY Zenon DEF Rw!Cardinality, Cardinality

LEMMA RwFinite == IsFiniteSet(InTxs) /\ IsFiniteSet(CountedReaders)
  BY MySqlAssumption, FS_Subset DEF InTxs, CountedReaders, Rw!Attempts

\* What a call or a handle does.
RwStep(a) ==
    \/ (\E s \in Sessions : Rw!BeginTry(a, s)) \/ Rw!BeginFails(a)
    \/ Rw!Check(a) \/ Rw!Recheck(a) \/ Rw!Upsert(a) \/ Rw!Commit(a)
    \/ Rw!TryFails(a) \/ Rw!Release(a) \/ Rw!Orphan(a)

LEMMA RwCases == Rw!Next => \E a \in Rw!Attempts : RwStep(a)
  BY DEF Rw!Next, Rw!CallStep, RwStep

\* The sessions of tries come from the pool and go back to it.
Lend   == \E s \in pool : pool' = pool \ {s} /\ txs' = txs \cup {s}
Return == \E s \in txs : pool' = pool \cup {s} /\ txs' = txs \ {s}

LEMMA MutexUnmoved ==
    ASSUME Mutex!MutexInvariant, Apart, UNCHANGED mutexVars,
           Lend \/ Return \/ UNCHANGED <<pool, txs>>
    PROVE  Mutex!MutexInvariant' /\ Apart' /\ (NoSessionLost => NoSessionLost')
  <1> USE DEF Mutex!MutexInvariant, Mutex!TypeOK, Mutex!OwnSession, Mutex!OneOwner, Mutex!HandleOwns,
          Mutex!Working, Mutex!On, Apart, SessionsApart, NoSessionLost, mutexVars
  <1>1. CASE Lend
    BY <1>1 DEF Lend
  <1>2. CASE Return
    BY <1>2 DEF Return
  <1>3. CASE UNCHANGED <<pool, txs>>
    BY <1>3
  <1> QED
    BY <1>1, <1>2, <1>3

\* One element more, one less.
LEMMA OneMore ==
    ASSUME NEW S, IsFiniteSet(S), NEW x, x \notin S
    PROVE  IsFiniteSet(S \cup {x}) /\ Cardinality(S \cup {x}) = Cardinality(S) + 1
  BY FS_AddElement

LEMMA OneLess ==
    ASSUME NEW S, IsFiniteSet(S), NEW x \in S
    PROVE  IsFiniteSet(S \ {x}) /\ Cardinality(S \ {x}) = Cardinality(S) - 1
  BY FS_RemoveElement

LEMMA RwTypeStep ==
    ASSUME Rw!RowInvariant, Apart, NEW a \in Rw!Attempts, RwStep(a)
    PROVE  /\ Rw!TypeOK'
           /\ (\A b \in Rw!Attempts : rowLock = b <=> rwPc[b] = "commit")'
           /\ \/ Lend /\ a \notin InTxs /\ InTxs' = InTxs \cup {a}
              \/ Return /\ a \in InTxs /\ InTxs' = InTxs \ {a}
              \/ UNCHANGED <<pool, txs, InTxs>>
  <1> USE MySqlAssumption
      DEF Rw!RowInvariant, Rw!TypeOK, Rw!Goto, Rw!Stay, Rw!row, Rw!InTx, Rw!EndStates, InTxs, Apart,
          Rw!Attempts, Lend, Return, Rw!EndTx
  <1>1. CASE \E s \in Sessions : Rw!BeginTry(a, s)
    BY <1>1 DEF Rw!BeginTry
  <1>2. CASE Rw!BeginFails(a) \/ Rw!Orphan(a)
    BY <1>2 DEF Rw!BeginFails, Rw!Orphan
  <1>3. CASE Rw!Check(a)
    BY <1>3 DEF Rw!Check, Rw!Refused
  <1>4. CASE Rw!Recheck(a)
    BY <1>4 DEF Rw!Recheck, Rw!Refused
  <1>5. CASE Rw!Upsert(a)
    BY <1>5 DEF Rw!Upsert
  <1>6. CASE Rw!Commit(a)
    BY <1>6 DEF Rw!Commit, Rw!Apply
  <1>7. CASE Rw!TryFails(a)
    BY <1>7 DEF Rw!TryFails
  <1>8. CASE Rw!Release(a)
    <2>1. readers' \in Nat /\ writer' \in BOOLEAN
      <3>1. CASE a \in Readers
        <4>1. readers' = (IF readers > 0 THEN readers - 1 ELSE 0) /\ writer' = writer
          BY <1>8, <3>1 DEF Rw!Release
        <4> QED
          BY <4>1
      <3>2. CASE a \notin Readers
        BY <1>8, <3>2 DEF Rw!Release
      <3> QED
        BY <3>1, <3>2
    <2>2. rwPc' = [rwPc EXCEPT ![a] = "released"] /\ rwPc[a] = "held"
          /\ UNCHANGED <<overlap, pool, txs, rowLock>>
      BY <1>8 DEF Rw!Release
    <2> QED
      BY <2>1, <2>2
  <1> QED
    BY <1>1, <1>2, <1>3, <1>4, <1>5, <1>6, <1>7, <1>8 DEF RwStep

LEMMA RwReadersStep ==
    ASSUME Rw!RowInvariant, NEW a \in Rw!Attempts, RwStep(a)
    PROVE  /\ \/ UNCHANGED <<readers, CountedReaders>>
              \/ /\ readers' = readers + 1
                 /\ a \notin CountedReaders /\ CountedReaders' = CountedReaders \cup {a}
              \/ /\ readers' = IF readers > 0 THEN readers - 1 ELSE 0
                 /\ a \in CountedReaders /\ CountedReaders' = CountedReaders \ {a}
           /\ (writer => \E b \in Writers : Rw!Counted(b))'
  <1> USE MySqlAssumption
      DEF Rw!RowInvariant, Rw!TypeOK, Rw!Goto, Rw!Stay, Rw!row, Rw!InTx, Rw!EndStates,
          Rw!Attempts, CountedReaders, Rw!Counted
  <1>1. CASE \E s \in Sessions : Rw!BeginTry(a, s)
    BY <1>1 DEF Rw!BeginTry
  <1>2. CASE Rw!BeginFails(a) \/ Rw!Orphan(a)
    BY <1>2 DEF Rw!BeginFails, Rw!Orphan
  <1>3. CASE Rw!Check(a)
    BY <1>3 DEF Rw!Check, Rw!Refused
  <1>4. CASE Rw!Recheck(a)
    BY <1>4 DEF Rw!Recheck, Rw!Refused
  <1>5. CASE Rw!Upsert(a)
    BY <1>5 DEF Rw!Upsert
  <1>6. CASE Rw!Commit(a)
    <2>1. CASE a \in Readers
      BY <1>6, <2>1 DEF Rw!Commit, Rw!Apply
    <2>2. CASE a \in Writers
      BY <1>6, <2>2 DEF Rw!Commit, Rw!Apply
    <2> QED
      BY <2>1, <2>2
  <1>7. CASE Rw!TryFails(a)
    BY <1>7 DEF Rw!TryFails
  <1>8. CASE Rw!Release(a)
    <2>1. CASE a \in Readers
      BY <1>8, <2>1 DEF Rw!Release
    <2>2. CASE a \in Writers
      BY <1>8, <2>2 DEF Rw!Release
    <2> QED
      BY <2>1, <2>2
  <1> QED
    BY <1>1, <1>2, <1>3, <1>4, <1>5, <1>6, <1>7, <1>8 DEF RwStep

LEMMA RowStep ==
    ASSUME Rw!RowInvariant, Apart, NEW a \in Rw!Attempts, RwStep(a)
    PROVE  Rw!RowInvariant'
  <1>1. readers \in Nat /\ readers = Cardinality(CountedReaders) /\ IsFiniteSet(CountedReaders)
    <2>1. readers = Cardinality(CountedReaders)
      BY SameCardinality, Zenon DEF Rw!RowInvariant, CountedReaders
    <2> QED
      BY <2>1, RwFinite DEF Rw!RowInvariant, Rw!TypeOK
  <1>2. Cardinality(txs) = Cardinality(InTxs) /\ IsFiniteSet(txs) /\ IsFiniteSet(InTxs)
    <2>1. Cardinality(txs) = Cardinality(InTxs)
      BY SameCardinality, Zenon DEF Rw!RowInvariant, InTxs
    <2>2. IsFiniteSet(txs)
      BY FS_Subset, MySqlAssumption DEF Apart
    <2> QED
      BY <2>1, <2>2, RwFinite
  <1>3. readers' = Cardinality(CountedReaders')
    <2>1. CASE a \notin CountedReaders
      BY <1>1, <2>1, RwReadersStep, OneMore
    <2>2. CASE a \in CountedReaders
      <3>1. Cardinality(CountedReaders) # 0
        BY <1>1, <2>2, FS_EmptySet
      <3>2. readers > 0
        BY <1>1, <3>1
      <3> QED
        BY <1>1, <2>2, <3>2, RwReadersStep, OneLess
    <2> QED
      BY <2>1, <2>2
  <1>4. Cardinality(txs') = Cardinality(InTxs') /\ txs' \cap pool' = {}
    <2>1. CASE Lend /\ InTxs' = InTxs \cup {a} /\ a \notin InTxs
      <3>1. PICK s \in pool : pool' = pool \ {s} /\ txs' = txs \cup {s}
        BY <2>1 DEF Lend
      <3>2. s \notin txs
        BY <3>1 DEF Apart
      <3>3. Cardinality(txs') = Cardinality(txs) + 1
        BY <1>2, <3>1, <3>2, OneMore
      <3>4. Cardinality(InTxs') = Cardinality(InTxs) + 1
        BY <1>2, <2>1, OneMore
      <3> QED
        BY <1>2, <3>1, <3>3, <3>4 DEF Apart
    <2>2. CASE Return /\ InTxs' = InTxs \ {a} /\ a \in InTxs
      <3>1. PICK s \in txs : pool' = pool \cup {s} /\ txs' = txs \ {s}
        BY <2>2 DEF Return
      <3>2. Cardinality(txs') = Cardinality(txs) - 1
        BY <1>2, <3>1, OneLess
      <3>3. Cardinality(InTxs') = Cardinality(InTxs) - 1
        BY <1>2, <2>2, OneLess
      <3> QED
        BY <1>2, <3>1, <3>2, <3>3 DEF Apart
    <2>3. CASE UNCHANGED <<pool, txs, InTxs>>
      BY <1>2, <2>3 DEF Apart
    <2> QED
      BY <2>1, <2>2, <2>3, RwTypeStep
  <1> QED
    <2>1. (readers = Cardinality({b \in Readers : Rw!Counted(b)}))'
      BY <1>3, Zenon DEF CountedReaders
    <2>2. (Cardinality(txs) = Cardinality({b \in Rw!Attempts : rwPc[b] \in Rw!InTx}))'
      BY <1>4, Zenon DEF InTxs
    <2> QED
      BY SameCardinality, <1>4, <2>1, <2>2, RwTypeStep, RwReadersStep, Zenon DEF Rw!RowInvariant

\* The row does not tell less than there is, as long as no tries overlapped.
LEMMA RowTells ==
    ASSUME Rw!RowInvariant, Rw!LookStands, ~overlap, NEW a \in Rw!Attempts, ~Rw!Blocked(a)
    PROVE  \A b \in Rw!Attempts : Rw!Counted(b) => ~Rw!Conflict(a, b)
  <1>1. \A b \in Writers : ~Rw!Counted(b)
    BY DEF Rw!Blocked, Rw!LookStands
  <1>2. ASSUME a \in Writers
        PROVE  CountedReaders = {}
    <2>1. readers = 0
      BY <1>2 DEF Rw!Blocked, Rw!RowInvariant, Rw!TypeOK
    <2> QED
      <3>1. readers = Cardinality(CountedReaders)
        BY SameCardinality, Zenon DEF Rw!RowInvariant, CountedReaders
      <3> QED
        BY <2>1, <3>1, RwFinite, FS_EmptySet
  <1> QED
    BY <1>1, <1>2 DEF Rw!Conflict, Rw!Attempts, CountedReaders

LEMMA LookStep ==
    ASSUME Rw!RowInvariant, Rw!LookStands, ExclusiveUnlessOverlap, NEW a \in Rw!Attempts, RwStep(a)
    PROVE  Rw!LookStands' /\ ExclusiveUnlessOverlap'
  <1> USE MySqlAssumption
      DEF Rw!RowInvariant, Rw!TypeOK, Rw!Goto, Rw!Stay, Rw!row, Rw!InTx, Rw!EndStates,
          Rw!Attempts, Rw!Counted, Rw!LookStands, ExclusiveUnlessOverlap, Rw!ExclusiveUnlessOverlap,
          Rw!Conflict
  <1>1. CASE \E s \in Sessions : Rw!BeginTry(a, s)
    BY <1>1 DEF Rw!BeginTry
  <1>2. CASE Rw!BeginFails(a) \/ Rw!Orphan(a)
    BY <1>2 DEF Rw!BeginFails, Rw!Orphan
  <1>3. CASE Rw!Check(a)
    BY <1>3, RowTells DEF Rw!Check, Rw!Refused
  <1>4. CASE Rw!Recheck(a)
    BY <1>4, RowTells DEF Rw!Recheck, Rw!Refused
  <1>5. CASE Rw!Upsert(a)
    BY <1>5 DEF Rw!Upsert
  <1>6. CASE Rw!Commit(a)
    <2> SUFFICES ASSUME ~overlap'
                 PROVE  Rw!LookStands' /\ ExclusiveUnlessOverlap'
      OBVIOUS
    <2>1. rwPc[a] = "commit" /\ ~overlap
          /\ \A b \in Rw!Attempts : Rw!Conflict(a, b) => rwPc[b] \notin {"upsert", "commit"}
      BY <1>6 DEF Rw!Commit
    <2>2. \/ rwPc' = [rwPc EXCEPT ![a] = "held"]
          \/ rwPc' = [rwPc EXCEPT ![a] = "orphaned"]
      BY <1>6 DEF Rw!Commit
    <2>3. writer' = (writer \/ a \in Writers)
      BY <1>6 DEF Rw!Commit, Rw!Apply
    <2>4. \A b \in Rw!Attempts : Rw!Counted(b)' => b = a \/ Rw!Counted(b)
      BY <2>2
    <2>5. \A b \in Writers : Rw!Counted(b)' => writer'
      BY <2>1, <2>3, <2>4
    <2>6. \A b \in Rw!Attempts : Rw!Counted(b)' => ~Rw!Conflict(a, b)
      BY <2>1, <2>4
    <2>7. \A b, d \in Rw!Attempts : Rw!Counted(b)' /\ Rw!Counted(d)' => ~Rw!Conflict(b, d)
      BY <2>1, <2>4, <2>6
    <2>8. \A b, d \in Rw!Attempts :
            rwPc'[b] \in {"upsert", "commit"} /\ Rw!Counted(d)' => ~Rw!Conflict(b, d)
      BY <2>1, <2>2, <2>4, <2>6
    <2> QED
      BY <2>5, <2>7, <2>8
  <1>7. CASE Rw!TryFails(a)
    BY <1>7 DEF Rw!TryFails
  <1>8. CASE Rw!Release(a)
    BY <1>8 DEF Rw!Release
  <1> QED
    BY <1>1, <1>2, <1>3, <1>4, <1>5, <1>6, <1>7, <1>8 DEF RwStep

-----------------------------------------------------------------------------
(* Both locks                                                              *)

LEMMA PoolInit == Init => PoolInvariant
  <1> SUFFICES ASSUME Init PROVE PoolInvariant
    OBVIOUS
  <1>1. Mutex!MutexInvariant /\ SessionsApart /\ NoSessionLost
    BY MySqlAssumption
       DEF Init, Mutex!Init, Rw!Init, Mutex!MutexInvariant, Mutex!TypeOK, Mutex!OwnSession,
           Mutex!OneOwner, Mutex!HandleOwns, Mutex!Working, Mutex!Busy, Mutex!On, SessionsApart,
           NoSessionLost
  <1>2. {a \in Readers : Rw!Counted(a)} = {} /\ {a \in Rw!Attempts : rwPc[a] \in Rw!InTx} = {} /\ txs = {}
    BY DEF Init, Rw!Init, Rw!Counted, Rw!InTx, Rw!Attempts
  <1>3. Rw!Cardinality({a \in Readers : Rw!Counted(a)}) = 0
        /\ Rw!Cardinality({a \in Rw!Attempts : rwPc[a] \in Rw!InTx}) = Rw!Cardinality(txs)
    BY <1>2, SameCardinality, FS_EmptySet, Zenon
  <1>4. Rw!RowInvariant
    BY <1>2, <1>3, MySqlAssumption
       DEF Init, Rw!Init, Rw!RowInvariant, Rw!TypeOK, Rw!EndStates, Rw!Attempts
  <1>5. Rw!LookStands /\ ExclusiveUnlessOverlap
    BY DEF Init, Rw!Init, Rw!LookStands, ExclusiveUnlessOverlap, Rw!ExclusiveUnlessOverlap,
           Rw!Counted, Rw!Attempts
  <1> QED
    BY <1>1, <1>4, <1>5 DEF PoolInvariant

\* A step that is not one of the row leaves what is known of it.
LEMMA RowUnmoved ==
    ASSUME Rw!RowInvariant, Rw!LookStands, ExclusiveUnlessOverlap, UNCHANGED rwVars,
           Mutex!MutexInvariant', Apart'
    PROVE  Rw!RowInvariant' /\ Rw!LookStands' /\ ExclusiveUnlessOverlap'
  <1>1. UNCHANGED <<readers, writer, rowLock, rwPc, txs, overlap>> /\ pool' \in SUBSET Sessions
    BY DEF rwVars, Mutex!MutexInvariant, Mutex!TypeOK
  <1>2. Rw!TypeOK' /\ (txs \cap pool = {})'
        /\ (writer => \E a \in Writers : Rw!Counted(a))'
        /\ (\A a \in Rw!Attempts : rowLock = a <=> rwPc[a] = "commit")'
    BY <1>1 DEF Rw!RowInvariant, Rw!TypeOK, Rw!Counted, Apart
  <1>3. {a \in Readers : Rw!Counted(a)}' = {a \in Readers : Rw!Counted(a)}
        /\ {a \in Rw!Attempts : rwPc[a] \in Rw!InTx}' = {a \in Rw!Attempts : rwPc[a] \in Rw!InTx}
    BY <1>1, Zenon DEF Rw!Counted
  <1>4. (readers = Rw!Cardinality({a \in Readers : Rw!Counted(a)}))'
        /\ (Rw!Cardinality(txs) = Rw!Cardinality({a \in Rw!Attempts : rwPc[a] \in Rw!InTx}))'
    BY <1>1, <1>3, Zenon DEF Rw!RowInvariant
  <1>5. Rw!RowInvariant'
    BY <1>2, <1>4, Zenon DEF Rw!RowInvariant
  <1>6. Rw!LookStands' /\ ExclusiveUnlessOverlap'
    BY <1>1 DEF Rw!LookStands, ExclusiveUnlessOverlap, Rw!ExclusiveUnlessOverlap, Rw!Counted
  <1> QED
    BY <1>5, <1>6

LEMMA PoolNext == PoolInvariant /\ [Next]_vars => PoolInvariant'
  <1> SUFFICES ASSUME PoolInvariant, [Next]_vars PROVE PoolInvariant'
    OBVIOUS
  <1>1. Mutex!MutexInvariant /\ Rw!RowInvariant /\ Rw!LookStands /\ ExclusiveUnlessOverlap
        /\ Apart /\ NoSessionLost
    BY DEF PoolInvariant, Apart, Rw!RowInvariant, Rw!TypeOK
  <1>2. CASE Mutex!Next /\ UNCHANGED rwVars
    <2>1. Mutex!MutexInvariant' /\ Apart' /\ NoSessionLost'
      BY <1>1, <1>2, MutexStep, NoSessionLostStep DEF rwVars
    <2>2. Rw!RowInvariant' /\ Rw!LookStands' /\ ExclusiveUnlessOverlap'
      BY <1>1, <1>2, <2>1, RowUnmoved
    <2> QED
      BY <2>1, <2>2 DEF PoolInvariant, Apart
  <1>3. CASE Rw!Next /\ UNCHANGED mutexVars
    <2>1. PICK a \in Rw!Attempts : RwStep(a)
      BY <1>3, RwCases
    <2>2. Rw!RowInvariant'
      BY <1>1, <2>1, RowStep
    <2>3. Rw!LookStands' /\ ExclusiveUnlessOverlap'
      BY <1>1, <2>1, LookStep
    <2>4. Mutex!MutexInvariant' /\ Apart' /\ NoSessionLost'
      <3>1. Lend \/ Return \/ UNCHANGED <<pool, txs>>
        BY <1>1, <2>1, RwTypeStep
      <3> QED
        BY <1>1, <1>3, <3>1, MutexUnmoved
    <2> QED
      BY <2>2, <2>3, <2>4 DEF PoolInvariant, Apart
  <1>4. CASE UNCHANGED vars
    <2>1. UNCHANGED rwVars /\ UNCHANGED mutexVars /\ UNCHANGED pool
      BY <1>4 DEF vars
    <2>2. Mutex!MutexInvariant' /\ Apart' /\ NoSessionLost'
      BY <1>1, <2>1, MutexUnmoved DEF rwVars
    <2>3. Rw!RowInvariant' /\ Rw!LookStands' /\ ExclusiveUnlessOverlap'
      BY <1>1, <2>1, <2>2, RowUnmoved
    <2> QED
      BY <2>2, <2>3 DEF PoolInvariant, Apart
  <1> QED
    BY <1>2, <1>3, <1>4 DEF Next

\* The two locks never disturb each other on their pool, guards and zombies of
\* the mutex never take a handle's lock away, and the row of the other lock
\* counts its handles (lock.rs, handle.rs, rw_lock.rs).
THEOREM PoolInvariantCorrect == Spec => []PoolInvariant
  BY PoolInit, PoolNext, PTL DEF Spec

\* Two handles of the mutex whose connections are up are one handle.
THEOREM ExclusiveWhileConnectedCorrect == Spec => []ExclusiveWhileConnected
  <1>1. PoolInvariant => ExclusiveWhileConnected
    BY DEF PoolInvariant, ExclusiveWhileConnected, Mutex!ExclusiveWhileConnected,
           Mutex!MutexInvariant, Mutex!TypeOK, Mutex!OwnSession, Mutex!OneOwner, Mutex!HandleOwns,
           Mutex!Working, Mutex!Busy, Mutex!On
  <1> QED
    BY <1>1, PoolInvariantCorrect, PTL

\* Writers are alone as long as no try was committed between the last look of a
\* conflicting one and its commit: the overlap is the only way to break it.
THEOREM ExclusiveUnlessOverlapCorrect == Spec => []ExclusiveUnlessOverlap
  <1>1. PoolInvariant => ExclusiveUnlessOverlap
    BY DEF PoolInvariant
  <1> QED
    BY <1>1, PoolInvariantCorrect, PTL

-----------------------------------------------------------------------------
(* What is left on a session                                               *)

\* The session may have the lock because of a.
Owns(a, s) == conn[a] = s /\ pc[a] \in {"held", "guard", "leaked"}

LEMMA MutexCardinality == \A S : Mutex!Cardinality(S) = Cardinality(S)
  BY Zenon DEF Mutex!Cardinality, Cardinality

\* The lock once more is one owner more; an owner who leaves runs RELEASE_LOCK,
\* or leaves its lock behind.
LEMMA OwnerStep ==
    ASSUME Mutex!MutexInvariant, NEW a \in Lockers, MutexCallStep(a), NEW s \in Sessions
    PROVE  \/ depth'[s] = 0
           \/ depth'[s] = depth[s] /\ (Owns(a, s) => Owns(a, s)')
           \/ depth'[s] = depth[s] - 1
           \/ depth'[s] = depth[s] + 1 /\ ~Owns(a, s) /\ Owns(a, s)'
  <1> USE DEF Mutex!MutexInvariant, Mutex!TypeOK, Mutex!Goto, Mutex!On, Owns
  <1>0. pc[a] \in Mutex!Busy => conn[a] \in Sessions
    BY DEF Mutex!OwnSession, Mutex!Working
  <1>1. CASE (\E t \in Sessions : Mutex!Connect(a, t)) \/ Mutex!ConnectFails(a)
    BY <1>1 DEF Mutex!Connect, Mutex!ConnectFails
  <1>2. CASE Mutex!Granted(a)
    BY <1>0, <1>2 DEF Mutex!Granted, Mutex!Lock, Mutex!Busy
  <1>3. CASE Mutex!Refused(a)
    BY <1>3 DEF Mutex!Refused
  <1>4. CASE Mutex!CallFails(a) \/ Mutex!Cancel(a) \/ Mutex!KeepaliveFails(a) \/ Mutex!DropHandle(a)
    BY <1>4 DEF Mutex!CallFails, Mutex!Cancel, Mutex!KeepaliveFails, Mutex!DropHandle
  <1>5. CASE Mutex!ZombieAnswered(a)
    BY <1>0, <1>5 DEF Mutex!ZombieAnswered, Mutex!Lock, Mutex!Busy
  <1>6. CASE Mutex!GuardReleases(a) \/ Mutex!Release(a)
    <2>1. conn[a] \in Sessions /\ Mutex!Unlock(conn[a])
      BY <1>0, <1>6 DEF Mutex!GuardReleases, Mutex!Release, Mutex!Busy
    <2> QED
      BY <2>1 DEF Mutex!Unlock
  <1>7. CASE Mutex!ReleaseLeaks(a) \/ Mutex!GuardFails(a)
    BY <1>7 DEF Mutex!ReleaseLeaks, Mutex!GuardFails, Mutex!End
  <1> QED
    BY <1>1, <1>2, <1>3, <1>4, <1>5, <1>6, <1>7 DEF MutexCallStep

\* A set that differs in one element has one element less, at most.
LEMMA OneElement ==
    ASSUME NEW X, NEW Y, NEW a, X \ {a} = Y \ {a}, IsFiniteSet(X)
    PROVE  /\ IsFiniteSet(Y) /\ Cardinality(X) \in Nat /\ Cardinality(Y) \in Nat
           /\ Cardinality(X) <= Cardinality(Y) + 1
           /\ (a \in X => a \in Y) => Cardinality(X) <= Cardinality(Y)
           /\ a \notin X /\ a \in Y => Cardinality(Y) = Cardinality(X) + 1
  <1> DEFINE Z == X \ {a}
  <1>1. IsFiniteSet(Z) /\ Cardinality(Z) \in Nat
    BY FS_RemoveElement, FS_CardinalityType
  <1>2. X = Z \/ (X = Z \cup {a} /\ a \notin Z)
    OBVIOUS
  <1>3. Y = Z \/ (Y = Z \cup {a} /\ a \notin Z)
    OBVIOUS
  <1>4. a \notin Z => IsFiniteSet(Z \cup {a}) /\ Cardinality(Z \cup {a}) = Cardinality(Z) + 1
    BY <1>1, FS_AddElement
  <1>5. (a \in X <=> X # Z) /\ (a \in Y <=> Y # Z)
    OBVIOUS
  <1> HIDE DEF Z
  <1> QED
    BY <1>1, <1>2, <1>3, <1>4, <1>5

\* The owners of a session are finitely many (none at first, and a step adds one
\* at most), and at least as many as its lock counts.
Owners(s) == Mutex!Owners(s)

Accounted ==
    \A s \in Sessions : IsFiniteSet(Owners(s)) /\ depth[s] <= Cardinality(Owners(s))

LEMMA AccountedStep ==
    ASSUME Mutex!MutexInvariant, Accounted, NEW a \in Lockers, MutexCallStep(a)
    PROVE  Accounted'
  <1> SUFFICES ASSUME NEW s \in Sessions
               PROVE  IsFiniteSet(Owners(s)') /\ depth'[s] <= Cardinality(Owners(s)')
    BY DEF Accounted
  <1> DEFINE X == Owners(s)
             Y == Owners(s)'
  <1>1. X \ {a} = Y \ {a} /\ (a \in X <=> Owns(a, s)) /\ (a \in Y <=> Owns(a, s)')
    BY MutexLocal DEF Owners, Mutex!Owners, Owns
  <1>2. IsFiniteSet(X) /\ depth[s] <= Cardinality(X)
    BY DEF Accounted
  <1>3. depth[s] \in Nat
    BY DEF Mutex!MutexInvariant, Mutex!TypeOK
  <1> HIDE DEF X, Y
  <1>4. /\ IsFiniteSet(Y) /\ Cardinality(X) \in Nat /\ Cardinality(Y) \in Nat
        /\ Cardinality(X) <= Cardinality(Y) + 1
        /\ (a \in X => a \in Y) => Cardinality(X) <= Cardinality(Y)
        /\ a \notin X /\ a \in Y => Cardinality(Y) = Cardinality(X) + 1
    BY <1>1, <1>2, OneElement
  <1>5. depth'[s] <= Cardinality(Y)
    BY <1>1, <1>2, <1>3, <1>4, OwnerStep
  <1> QED
    BY <1>4, <1>5 DEF Y

\* A connection that breaks leaves no lock, and its attempt an owner.
LEMMA AccountedBreak ==
    ASSUME Mutex!MutexInvariant, Accounted, NEW t \in Sessions, Mutex!Break(t)
    PROVE  Accounted'
  <1> SUFFICES ASSUME NEW s \in Sessions
               PROVE  IsFiniteSet(Owners(s)') /\ depth'[s] <= Cardinality(Owners(s)')
    BY DEF Accounted
  <1> DEFINE X == Owners(s)
  <1>1. X' = X
    BY DEF Owners, Mutex!Owners, Mutex!Break
  <1>2. IsFiniteSet(X) /\ depth[s] <= Cardinality(X)
    BY DEF Accounted
  <1>3. Cardinality(X) \in Nat
    BY <1>2, FS_CardinalityType
  <1>4. depth'[s] = 0 \/ depth'[s] = depth[s]
    BY DEF Mutex!Break, Mutex!MutexInvariant, Mutex!TypeOK
  <1> HIDE DEF X
  <1>5. depth'[s] <= Cardinality(X)
    BY <1>2, <1>3, <1>4
  <1> QED
    BY ONLY <1>1, <1>2, <1>5 DEF X

LEMMA AccountedCorrect == Spec => []Accounted
  <1>1. Init => Accounted
    <2> SUFFICES ASSUME Init, NEW s \in Sessions
                 PROVE  depth[s] = 0 /\ Owners(s) = {}
      BY FS_EmptySet DEF Accounted
    <2> QED
      BY DEF Init, Mutex!Init, Owners, Mutex!Owners
  <1>2. PoolInvariant /\ Accounted /\ [Next]_vars => Accounted'
    <2> SUFFICES ASSUME PoolInvariant, Accounted, [Next]_vars
                 PROVE  Accounted'
      OBVIOUS
    <2>0. Mutex!MutexInvariant
      BY DEF PoolInvariant
    <2>1. CASE Mutex!Next
      <3>1. (\E s \in Sessions : Mutex!Break(s)) \/ \E a \in Lockers : MutexCallStep(a)
        BY <2>1, MutexCases DEF MutexCallStep
      <3> QED
        BY <2>0, <3>1, AccountedStep, AccountedBreak
    <2>2. CASE UNCHANGED mutexVars
      BY <2>2 DEF mutexVars, Accounted, Owners, Mutex!Owners
    <2> QED
      BY <2>1, <2>2 DEF Next, vars
  <1> QED
    BY <1>1, <1>2, PoolInvariantCorrect, PTL DEF Spec

\* A session in the pool has the lock at most once for each release, and each
\* RELEASE_LOCK of a task, that failed or was dropped (handle.rs, the guard of
\* lock.rs): no other call or handle leaves one, whenever it is dropped.
THEOREM DepthAccountedForCorrect == Spec => []DepthAccountedFor
  <1>1. Accounted => DepthAccountedFor
    BY MutexCardinality, Zenon DEF Accounted, DepthAccountedFor, Mutex!DepthAccountedFor, Owners
  <1> QED
    BY <1>1, AccountedCorrect, PTL

-----------------------------------------------------------------------------
(* Who is waited for                                                       *)

\* GET_LOCK waits for somebody's lock on another session: a handle's, one that a
\* task has to release, or one of a release that failed or was dropped.  A try of the
\* other lock is refused because of a handle that excludes it, open or orphaned.
BlockedBySomebody ==
    /\ \A a \in Lockers :
            Mutex!Working(a) /\ ~Mutex!Free(conn[a]) => \E b \in Lockers : LockedBy(a, b)
    /\ \A a \in Rw!Attempts :
            ~Rw!Counted(a) /\ Rw!Blocked(a) => \E b \in Rw!Attempts : RefusedBy(a, b)

\* No mixture of dropped calls, guards and broken connections makes a lock that
\* nobody has, and no count of readers is left over: whoever waits waits for
\* somebody, who does not wait (lock.rs, rw_lock.rs).
THEOREM BlockedBySomebodyCorrect == Spec => []BlockedBySomebody
  <1>1. ASSUME PoolInvariant, Accounted, NEW a \in Lockers,
               Mutex!Working(a), ~Mutex!Free(conn[a])
        PROVE  \E b \in Lockers : LockedBy(a, b)
    <2>1. PICK s \in Sessions \ {conn[a]} : depth[s] # 0
      BY <1>1 DEF Mutex!Free
    <2>2. depth[s] > 0 /\ Owners(s) # {}
      <3>1. depth[s] \in Nat /\ depth[s] <= Cardinality(Owners(s))
        BY <1>1 DEF PoolInvariant, Mutex!MutexInvariant, Mutex!TypeOK, Accounted
      <3> QED
        BY <2>1, <3>1, FS_EmptySet
    <2> QED
      BY <2>1, <2>2 DEF Owners, Mutex!Owners, LockedBy
  <1>2. ASSUME PoolInvariant, NEW a \in Rw!Attempts, ~Rw!Counted(a), Rw!Blocked(a)
        PROVE  \E b \in Rw!Attempts : RefusedBy(a, b)
    <2>1. CASE writer
      <3>1. PICK b \in Writers : Rw!Counted(b)
        BY <2>1, <1>2 DEF PoolInvariant, Rw!RowInvariant
      <3> QED
        BY <1>2, <3>1 DEF RefusedBy, Rw!Conflict, Rw!Attempts
    <2>2. CASE a \in Writers /\ readers > 0
      <3>1. readers = Cardinality(CountedReaders)
        BY <1>2, SameCardinality, Zenon DEF PoolInvariant, Rw!RowInvariant, CountedReaders
      <3>2. PICK b \in Readers : Rw!Counted(b)
        BY <2>2, <3>1, FS_EmptySet DEF CountedReaders
      <3> QED
        BY <1>2, <2>2, <3>2 DEF RefusedBy, Rw!Conflict, Rw!Attempts
    <2> QED
      BY <1>2, <2>1, <2>2 DEF Rw!Blocked
  <1>3. PoolInvariant /\ Accounted => BlockedBySomebody
    BY <1>1, <1>2 DEF BlockedBySomebody
  <1> QED
    BY <1>3, PoolInvariantCorrect, AccountedCorrect, PTL

-----------------------------------------------------------------------------
(* The promise to the callers of the mutex                                 *)

\* The server forgets the lock of a connection that breaks.
DeadForgotten == \A s \in Sessions : ~live[s] => depth[s] = 0

Holders == {a \in Lockers : pc[a] = "held" /\ depth[conn[a]] > 0}
Broken  == {a \in Lockers : pc[a] = "held" /\ ~live[conn[a]]}

\* A step of one attempt is none for the session of another, and locks no dead one.
LEMMA OthersKeep ==
    ASSUME Mutex!MutexInvariant, DeadForgotten, NEW a \in Lockers, MutexCallStep(a)
    PROVE  /\ \A b \in Lockers \ {a} :
                  Mutex!Working(b) => live'[conn[b]] = live[conn[b]] /\ depth'[conn[b]] = depth[conn[b]]
           /\ DeadForgotten'
  <1> USE DEF Mutex!MutexInvariant, Mutex!TypeOK, Mutex!OwnSession, Mutex!Working, Mutex!Busy,
          Mutex!Goto, Mutex!On, DeadForgotten
  <1>1. CASE UNCHANGED <<live, depth>>
    BY <1>1
  <1>2. CASE Mutex!Granted(a)
    BY <1>2 DEF Mutex!Granted, Mutex!Lock
  <1>3. CASE Mutex!Refused(a)
    BY <1>3 DEF Mutex!Refused, Mutex!End
  <1>4. CASE Mutex!ZombieAnswered(a)
    BY <1>4 DEF Mutex!ZombieAnswered, Mutex!Lock
  <1>5. CASE Mutex!GuardReleases(a)
    BY <1>5 DEF Mutex!GuardReleases, Mutex!Unlock, Mutex!End
  <1>6. CASE Mutex!Release(a)
    BY <1>6 DEF Mutex!Release, Mutex!Unlock, Mutex!End
  <1>7. CASE Mutex!ReleaseLeaks(a) \/ Mutex!GuardFails(a)
    BY <1>7 DEF Mutex!ReleaseLeaks, Mutex!GuardFails, Mutex!End
  <1>8. CASE \/ (\E s \in Sessions : Mutex!Connect(a, s)) \/ Mutex!ConnectFails(a)
             \/ Mutex!CallFails(a) \/ Mutex!Cancel(a) \/ Mutex!KeepaliveFails(a)
             \/ Mutex!DropHandle(a)
    BY <1>1, <1>8 DEF Mutex!Connect, Mutex!ConnectFails, Mutex!CallFails, Mutex!Cancel,
                      Mutex!KeepaliveFails, Mutex!DropHandle
  <1> QED
    BY <1>2, <1>3, <1>4, <1>5, <1>6, <1>7, <1>8 DEF MutexCallStep

LEMMA BreakForgets ==
    ASSUME Mutex!MutexInvariant, DeadForgotten, NEW s \in Sessions, Mutex!Break(s)
    PROVE  DeadForgotten'
  BY DEF Mutex!MutexInvariant, Mutex!TypeOK, DeadForgotten, Mutex!Break

LEMMA DeadForgottenCorrect == Spec => []DeadForgotten
  <1>1. Init => DeadForgotten
    BY DEF Init, Mutex!Init, DeadForgotten
  <1>2. PoolInvariant /\ DeadForgotten /\ [Next]_vars => DeadForgotten'
    <2> SUFFICES ASSUME PoolInvariant, DeadForgotten, [Next]_vars
                 PROVE  DeadForgotten'
      OBVIOUS
    <2>1. CASE Mutex!Next
      BY <2>1, MutexCases, OthersKeep, BreakForgets DEF PoolInvariant, MutexCallStep
    <2>2. CASE UNCHANGED mutexVars
      BY <2>2 DEF mutexVars, DeadForgotten
    <2> QED
      BY <2>1, <2>2 DEF Next, vars
  <1> QED
    BY <1>1, <1>2, PoolInvariantCorrect, PTL DEF Spec

\* What a step does to its attempt, as a caller sees it: a handle comes when
\* GET_LOCK returns 1, with nobody else in the way.
LEMMA OwnMoves ==
    ASSUME Mutex!MutexInvariant, NEW a \in Lockers, MutexCallStep(a)
    PROVE  \/ /\ Mutex!Phase[a] = "waiting" /\ Mutex!Phase'[a] = "open"
              /\ Holders = {} /\ a \in Holders' /\ a \notin Broken'
           \/ /\ Mutex!Phase'[a] = Mutex!Phase[a]
              /\ a \in Holders' <=> a \in Holders
              /\ a \in Broken' <=> a \in Broken
           \/ Mutex!Phase[a] # "closed" /\ Mutex!Phase'[a] = "closed"
  <1> USE DEF Mutex!MutexInvariant, Mutex!TypeOK, Mutex!Goto, Mutex!Busy, Mutex!EndStates, Mutex!Phase
  <1>1. CASE (\E s \in Sessions : Mutex!Connect(a, s)) \/ Mutex!KeepaliveFails(a)
    BY <1>1 DEF Mutex!Connect, Mutex!KeepaliveFails, Holders, Broken
  <1>2. CASE Mutex!Granted(a)
    <2>1. conn[a] \in Sessions /\ live[conn[a]] /\ Mutex!Free(conn[a]) /\ pc[a] = "call"
      BY <1>2 DEF Mutex!Granted, Mutex!On, Mutex!OwnSession, Mutex!Working
    <2>2. Holders = {}
      BY <2>1 DEF Holders, Mutex!Free, Mutex!OwnSession, Mutex!Working
    <2>3. pc'[a] = "held" /\ conn'[a] = conn[a] /\ live' = live /\ depth'[conn[a]] > 0
      BY <1>2, <2>1 DEF Mutex!Granted, Mutex!Lock
    <2> QED
      BY <2>1, <2>2, <2>3 DEF Holders, Broken
  <1>3. CASE Mutex!ConnectFails(a) \/ Mutex!CallFails(a) \/ Mutex!Cancel(a) \/ Mutex!DropHandle(a)
    BY <1>3 DEF Mutex!ConnectFails, Mutex!CallFails, Mutex!Cancel, Mutex!DropHandle, Mutex!On
  <1>4. CASE Mutex!Refused(a)
    BY <1>4 DEF Mutex!Refused, Mutex!On, Mutex!End
  <1>5. CASE Mutex!ZombieAnswered(a) \/ Mutex!GuardReleases(a) \/ Mutex!GuardFails(a)
    BY <1>5 DEF Mutex!ZombieAnswered, Mutex!GuardReleases, Mutex!GuardFails, Mutex!On, Mutex!End,
                Holders, Broken
  <1>6. CASE Mutex!Release(a) \/ Mutex!ReleaseLeaks(a)
    BY <1>6 DEF Mutex!Release, Mutex!ReleaseLeaks, Mutex!End
  <1> QED
    BY <1>1, <1>2, <1>3, <1>4, <1>5, <1>6 DEF MutexCallStep

\* Every step of an attempt is one that the lock promises, or none.
LEMMA StepRefines ==
    ASSUME Mutex!MutexInvariant, DeadForgotten, NEW a \in Lockers, MutexCallStep(a)
    PROVE  Mutex!Promise!Next \/ UNCHANGED <<Mutex!Phase, Holders, Broken>>
  <1>1. \A b \in Lockers \ {a} :
            /\ Mutex!Phase'[b] = Mutex!Phase[b]
            /\ b \in Holders' <=> b \in Holders
            /\ b \in Broken' <=> b \in Broken
    BY MutexLocal, OthersKeep DEF Mutex!Phase, Holders, Broken, Mutex!Working, Mutex!Busy
  <1>2. Mutex!Phase \in [Lockers -> {"waiting", "open", "closed"}]
        /\ Mutex!Phase' \in [Lockers -> {"waiting", "open", "closed"}]
    BY DEF Mutex!Phase
  <1>3. Holders \subseteq Lockers /\ Broken \subseteq Lockers
        /\ Holders' \subseteq Lockers /\ Broken' \subseteq Lockers
    BY DEF Holders, Broken
  <1>4. CASE /\ Mutex!Phase[a] = "waiting" /\ Mutex!Phase'[a] = "open"
             /\ Holders = {} /\ a \in Holders' /\ a \notin Broken'
    <2>1. a \notin Broken
      BY <1>4 DEF Mutex!Phase, Broken
    <2>2. Mutex!Phase' = [Mutex!Phase EXCEPT ![a] = "open"]
      BY <1>1, <1>2, <1>4
    <2>3. Holders' = Holders \cup {a} /\ Broken' = Broken
      BY <1>1, <1>3, <1>4, <2>1
    <2>4. Mutex!Promise!Grant(a)
      BY <1>4, <2>2, <2>3 DEF Mutex!Promise!Grant, Mutex!Promise!FreeFor, Holders, Broken
    <2> QED
      BY <2>4 DEF Mutex!Promise!Next
  <1>5. CASE /\ Mutex!Phase'[a] = Mutex!Phase[a]
             /\ a \in Holders' <=> a \in Holders
             /\ a \in Broken' <=> a \in Broken
    BY <1>1, <1>2, <1>3, <1>5
  <1>6. CASE Mutex!Phase[a] # "closed" /\ Mutex!Phase'[a] = "closed"
    <2>1. a \notin Holders' /\ a \notin Broken'
      BY <1>6 DEF Mutex!Phase, Holders, Broken
    <2>2. Mutex!Phase' = [Mutex!Phase EXCEPT ![a] = "closed"]
      BY <1>1, <1>2, <1>6
    <2>3. Holders' = Holders \ {a} /\ Broken' = Broken \ {a}
      BY <1>1, <1>3, <2>1
    <2>4. Mutex!Promise!Close(a)
      BY <1>6, <2>2, <2>3 DEF Mutex!Promise!Close, Holders, Broken
    <2> QED
      BY <2>4 DEF Mutex!Promise!Next
  <1> QED
    BY <1>4, <1>5, <1>6, OwnMoves

\* A connection that breaks is at most one handle's, which loses the lock with it.
LEMMA BreakRefines ==
    ASSUME Mutex!MutexInvariant, DeadForgotten, NEW s \in Sessions, Mutex!Break(s)
    PROVE  Mutex!Promise!Next \/ UNCHANGED <<Mutex!Phase, Holders, Broken>>
  <1>1. /\ UNCHANGED <<pc, conn, Mutex!Phase>> /\ live[s] /\ depth'[s] = 0
        /\ \A t \in Sessions \ {s} : live'[t] = live[t] /\ depth'[t] = depth[t]
        /\ s \notin pool => ~live'[s]
    BY DEF Mutex!Break, Mutex!Phase, Mutex!MutexInvariant, Mutex!TypeOK
  <1>2. \A b \in Lockers : pc[b] = "held" => conn[b] \in Sessions \ pool
    BY DEF Mutex!MutexInvariant, Mutex!OwnSession, Mutex!Working, Mutex!Busy
  <1>3. CASE \A a \in Lockers : pc[a] = "held" => conn[a] # s
    BY <1>1, <1>2, <1>3 DEF Holders, Broken
  <1>4. ASSUME NEW a \in Lockers, pc[a] = "held", conn[a] = s
        PROVE  Mutex!Promise!Break(a)
    <2>1. \A b \in Lockers \ {a} : pc[b] = "held" => conn[b] # s
      BY <1>4 DEF Mutex!MutexInvariant, Mutex!OwnSession, Mutex!Working, Mutex!Busy
    <2>2. a \notin Broken /\ Broken' = Broken \cup {a}
      BY <1>1, <1>2, <1>4, <2>1 DEF Broken
    <2>3. Holders' = Holders \ {a}
      BY <1>1, <1>2, <1>4, <2>1 DEF Holders
    <2>4. Mutex!Phase[a] = "open"
      BY <1>4 DEF Mutex!Phase
    <2> QED
      BY <1>1, <2>2, <2>3, <2>4 DEF Mutex!Promise!Break, Holders, Broken
  <1> QED
    BY <1>3, <1>4 DEF Mutex!Promise!Next

\* The mutex is what a lock of a connection promises to be, on a pool that it
\* shares with the other lock: granted when nobody has it, kept until it is given
\* up or the connection breaks, whatever guards, zombies and releases of other
\* calls do meanwhile (lock.rs, handle.rs).
THEOREM MySqlImplementsSessionLock == Spec => ImplementsSessionLock
  <1>1. Init => Mutex!Promise!Init
    BY DEF Init, Mutex!Init, Mutex!Promise!Init, Mutex!Phase
  <1>2. PoolInvariant /\ DeadForgotten /\ [Next]_vars
        => [Mutex!Promise!Next]_(Mutex!Promise!vars)
    <2> SUFFICES ASSUME PoolInvariant, DeadForgotten, [Next]_vars
                 PROVE  [Mutex!Promise!Next]_(Mutex!Promise!vars)
      OBVIOUS
    <2>1. Mutex!Promise!Next \/ UNCHANGED <<Mutex!Phase, Holders, Broken>>
      <3>1. CASE Mutex!Next
        BY <3>1, MutexCases, StepRefines, BreakRefines DEF PoolInvariant, MutexCallStep
      <3>2. CASE UNCHANGED mutexVars
        BY <3>2 DEF mutexVars, Mutex!Phase, Holders, Broken
      <3> QED
        BY <3>1, <3>2 DEF Next, vars
    <2> QED
      BY <2>1 DEF Mutex!Promise!vars, Holders, Broken
  <1> QED
    BY <1>1, <1>2, PoolInvariantCorrect, DeadForgottenCorrect, PTL
       DEF Spec, ImplementsSessionLock, Mutex!ImplementsSessionLock, Mutex!Promise!Spec
=============================================================================
