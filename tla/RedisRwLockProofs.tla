-------------------------- MODULE RedisRwLockProofs --------------------------
(* The Redis reader-writer lock for any readers and writers, any expiry and   *)
(* any interleaving of commands: who holds it together overlapped.            *)
EXTENDS RedisRwLock, TLAPS

\* What an attempt does.
Step(a) ==
    \/ a \in Readers /\ (ReaderStep(a) \/ ReadAgain(a))
    \/ a \in Writers /\ (WriterStep(a) \/ CancelWrite(a))
    \/ TaskStep(a) \/ AbortTry(a) \/ ReleaseStart(a) \/ DropHandle(a)

LEMMA NextIsStep == Next <=> Tick \/ \E a \in Attempts : Step(a)
  BY DEF Next, Step, Attempts

LEMMA StepCases ==
    ASSUME NEW a \in Attempts, Step(a)
    PROVE  \/ a \in Readers /\ (\/ StartRead(a) \/ ReadExists(a) \/ ReadAdd(a) \/ ReadExpire(a)
                                \/ ReadRemove(a) \/ ReadAgain(a))
           \/ a \in Writers /\ (\/ StartWrite(a) \/ WriteCount(a) \/ WriteGet(a) \/ WriteOverwrite(a)
                                \/ WriteSet(a) \/ WriteMark(a) \/ WriteRefresh(a) \/ WriteCheck(a)
                                \/ WriteDelete(a) \/ CancelWrite(a))
           \/ ExtendStart(a) \/ ExtendCheck(a) \/ ExtendExpire(a)
           \/ AbortTry(a) \/ ReleaseStart(a) \/ DropHandle(a)
  BY DEF Step, ReaderStep, WriterStep, TaskStep

LEMMA InitInv == Init => RwInvariant
  <1> SUFFICES ASSUME Init PROVE RwInvariant
    OBVIOUS
  <1>1. \A a \in Attempts : pc[a] = "idle"
    BY DEF Init
  <1>2. TypeOK
    <2>1. waiting \in BOOLEAN
      BY Zenon DEF Init
    <2> QED
      BY <2>1, RwAssumption DEF Init, TypeOK, PcStates, Attempts
  <1>3. OnlyAbortsLeaveNoTtl
    BY DEF Init, OnlyAbortsLeaveNoTtl
  <1> QED
    BY <1>1, <1>2, <1>3
    DEF RwInvariant, InTheSet, SetOutlivesRound, TriesMeet, LooksOverlap, OverlapOnly, Holds, InTry,
        TryStates, FoundNoWriter, FoundNoReader, Attempts

-----------------------------------------------------------------------------
(* The types                                                               *)

LEMMA TypeStep ==
    ASSUME TypeOK, NEW a \in Attempts, Step(a)
    PROVE  TypeOK'
  <1> USE RwAssumption
      DEF TypeOK, PcStates, TryStates, EndStates, Goto, GoOn, Granted, Leave, Refused, BeginTry,
          server, task, Rivals, Attempts
  <1>1. CASE a \in Readers /\ StartRead(a)
    BY <1>1 DEF StartRead
  <1>2. CASE a \in Readers /\ ReadExists(a)
    BY <1>2 DEF ReadExists
  <1>3. CASE a \in Readers /\ ReadAdd(a)
    BY <1>3 DEF ReadAdd
  <1>4. CASE a \in Readers /\ ReadExpire(a)
    BY <1>4 DEF ReadExpire, RefreshSet
  <1>5. CASE a \in Readers /\ ReadRemove(a)
    BY <1>5 DEF ReadRemove
  <1>6. CASE a \in Readers /\ ReadAgain(a)
    BY <1>6 DEF ReadAgain
  <1>7. CASE a \in Writers /\ StartWrite(a)
    BY <1>7 DEF StartWrite
  <1>8. CASE a \in Writers /\ WriteCount(a)
    BY <1>8 DEF WriteCount
  <1>9. CASE a \in Writers /\ WriteGet(a)
    BY <1>9 DEF WriteGet
  <1>10. CASE a \in Writers /\ WriteOverwrite(a)
    <2>1. waiting' \in BOOLEAN
      BY <1>10, Zenon DEF WriteOverwrite, SetWriter
    <2> QED
      BY <1>10, <2>1 DEF WriteOverwrite, SetWriter
  <1>11. CASE a \in Writers /\ WriteSet(a)
    <2>1. waiting' \in BOOLEAN
      BY <1>11, Zenon DEF WriteSet, SetWriter
    <2> QED
      <3>1. CASE writer = None
        <4>1. SetWriter(a, FALSE) /\ Granted(a) /\ UNCHANGED <<readers, rttl, empty>>
          BY <1>11, <3>1 DEF WriteSet
        <4> QED
          BY <1>11, <2>1, <4>1 DEF SetWriter
      <3>2. CASE writer # None
        BY <1>11, <2>1, <3>2 DEF WriteSet
      <3> QED
        BY <3>1, <3>2
  <1>12. CASE a \in Writers /\ WriteMark(a)
    <2>1. waiting' \in BOOLEAN
      BY <1>12, Zenon DEF WriteMark, SetWriter
    <2> QED
      BY <1>12, <2>1 DEF WriteMark, SetWriter
  <1>13. CASE a \in Writers /\ WriteRefresh(a)
    BY <1>13 DEF WriteRefresh
  <1>14. CASE a \in Writers /\ WriteCheck(a)
    BY <1>14 DEF WriteCheck
  <1>15. CASE a \in Writers /\ WriteDelete(a)
    <2>1. waiting' \in BOOLEAN
      BY <1>15, Zenon DEF WriteDelete
    <2> QED
      BY <1>15, <2>1 DEF WriteDelete
  <1>16. CASE a \in Writers /\ CancelWrite(a)
    BY <1>16 DEF CancelWrite
  <1>17. CASE ExtendStart(a)
    BY <1>17 DEF ExtendStart
  <1>18. CASE ExtendCheck(a)
    BY <1>18 DEF ExtendCheck, Known
  <1>19. CASE ExtendExpire(a)
    BY <1>19 DEF ExtendExpire, RefreshSet
  <1>20. CASE AbortTry(a)
    BY <1>20 DEF AbortTry
  <1>21. CASE ReleaseStart(a)
    BY <1>21 DEF ReleaseStart
  <1>22. CASE DropHandle(a)
    BY <1>22 DEF DropHandle
  <1> QED
    BY <1>1, <1>2, <1>3, <1>4, <1>5, <1>6, <1>7, <1>8, <1>9, <1>10, <1>11, <1>12,
       <1>13, <1>14, <1>15, <1>16, <1>17, <1>18, <1>19, <1>20, <1>21, <1>22, StepCases

-----------------------------------------------------------------------------
(* What a step does to its attempt                                         *)

\* The others stay where they are.
LEMMA StepLocal ==
    ASSUME TypeOK, NEW a \in Attempts, Step(a), NEW b \in Attempts, b # a
    PROVE  /\ pc'[b] = pc[b] /\ ext'[b] = ext[b] /\ due'[b] = due[b] /\ lost'[b] = lost[b]
           /\ b \in Writers => empty'[b] = empty[b]
           /\ b \in readers <=> b \in readers'
  <1> USE DEF TypeOK, Goto, GoOn, Granted, Leave, Refused, BeginTry, server, task
  <1>1. CASE StartRead(a) \/ ReadExists(a) \/ ReadAdd(a) \/ ReadExpire(a) \/ ReadRemove(a) \/ ReadAgain(a)
    BY <1>1 DEF StartRead, ReadExists, ReadAdd, ReadExpire, ReadRemove, ReadAgain
  <1>2. CASE StartWrite(a) \/ WriteCount(a) \/ WriteGet(a) \/ CancelWrite(a)
    BY <1>2 DEF StartWrite, WriteCount, WriteGet, CancelWrite
  <1>3. CASE WriteOverwrite(a) \/ WriteSet(a)
    BY <1>3 DEF WriteOverwrite, WriteSet
  <1>4. CASE WriteMark(a) \/ WriteRefresh(a) \/ WriteCheck(a) \/ WriteDelete(a)
    BY <1>4 DEF WriteMark, WriteRefresh, WriteCheck, WriteDelete
  <1>5. CASE ExtendStart(a) \/ ExtendCheck(a) \/ ExtendExpire(a)
    BY <1>5 DEF ExtendStart, ExtendCheck, ExtendExpire
  <1>6. CASE AbortTry(a) \/ ReleaseStart(a) \/ DropHandle(a)
    BY <1>6 DEF AbortTry, ReleaseStart, DropHandle
  <1> QED
    BY <1>1, <1>2, <1>3, <1>4, <1>5, <1>6, StepCases

\* A try begins, goes on or is over; everything else leaves the overlaps alone.
Begins(a)  == pc[a] \in {"idle", "retry"} /\ \E first \in {"exists", "scard"} : BeginTry(a, first)
GoesOn(a)  == InTry(a) /\ pc'[a] \in TryStates \cup {"held"} /\ UNCHANGED overlap
Leaves(a)  == \E state \in EndStates \cup {"retry", "srem", "checkdel"} : Leave(a, state)
Outside(a) ==
    /\ pc'[a] = pc[a] \/ (~InTry(a) /\ pc'[a] \notin TryStates \cup {"held"})
    /\ UNCHANGED overlap

LEMMA StepKinds ==
    ASSUME TypeOK, NEW a \in Attempts, Step(a)
    PROVE  Begins(a) \/ GoesOn(a) \/ Leaves(a) \/ Outside(a)
  <1> USE DEF TypeOK, Goto, GoOn, Granted, Refused, InTry, task, TryStates, EndStates,
              Begins, GoesOn, Leaves, Outside
  <1>1. CASE StartRead(a) \/ StartWrite(a)
    BY <1>1 DEF StartRead, StartWrite
  <1>2. CASE ReadExists(a) \/ ReadAdd(a) \/ ReadExpire(a)
    BY <1>2 DEF ReadExists, ReadAdd, ReadExpire
  <1>3. CASE WriteCount(a) \/ WriteGet(a) \/ WriteOverwrite(a) \/ WriteSet(a)
    BY <1>3 DEF WriteCount, WriteGet, WriteOverwrite, WriteSet
  <1>4. CASE WriteMark(a) \/ WriteRefresh(a) \/ CancelWrite(a)
    BY <1>4 DEF WriteMark, WriteRefresh, CancelWrite
  <1>5. CASE ReadRemove(a) \/ ReadAgain(a) \/ WriteCheck(a) \/ WriteDelete(a)
    BY <1>5 DEF ReadRemove, ReadAgain, WriteCheck, WriteDelete
  <1>6. CASE ExtendStart(a) \/ ExtendCheck(a) \/ ExtendExpire(a)
    BY <1>6 DEF ExtendStart, ExtendCheck, ExtendExpire
  <1>7. CASE AbortTry(a) \/ ReleaseStart(a) \/ DropHandle(a)
    BY <1>7 DEF AbortTry, ReleaseStart, DropHandle
  <1> QED
    BY <1>1, <1>2, <1>3, <1>4, <1>5, <1>6, <1>7, StepCases

\* Tries that run at the same time are on record, and the record is kept until
\* one of the two is over or tries again.
LEMMA TriesMeetStep ==
    ASSUME TypeOK, TriesMeet, NEW a \in Attempts, Step(a)
    PROVE  TriesMeet'
  <1> SUFFICES ASSUME NEW w \in Writers, NEW r \in Readers, InTry(w)', InTry(r)'
               PROVE  r \in overlap'[w]
    BY DEF TriesMeet
  <1> USE RwAssumption DEF TypeOK, TriesMeet, InTry, Attempts
  <1>0. \A b \in Attempts : b # a => pc'[b] = pc[b]
    BY StepLocal
  <1>1. CASE Begins(a)
    BY <1>0, <1>1 DEF Begins, BeginTry, Rivals, Goto
  <1>2. CASE GoesOn(a)
    BY <1>0, <1>2 DEF GoesOn
  <1>3. CASE Leaves(a)
    BY <1>0, <1>3 DEF Leaves, Leave, Goto, TryStates, EndStates
  <1>4. CASE Outside(a)
    BY <1>0, <1>4 DEF Outside
  <1> QED
    BY <1>1, <1>2, <1>3, <1>4, StepKinds

LEMMA OverlapKept ==
    ASSUME TypeOK, NEW a \in Attempts, Step(a),
           NEW w \in Writers, NEW r \in Readers, r \in overlap[w],
           InTry(w) \/ pc[w] = "held", pc'[w] \in TryStates \cup {"held"},
           pc'[r] \in {"sadd", "expire", "held"}
    PROVE  r \in overlap'[w]
  <1> USE RwAssumption DEF TypeOK, InTry, Attempts, TryStates
  <1>0. \A b \in Attempts : b # a => pc'[b] = pc[b]
    BY StepLocal
  <1>1. CASE Begins(a)
    BY <1>0, <1>1 DEF Begins, BeginTry, Rivals, Goto
  <1>2. CASE GoesOn(a) \/ Outside(a)
    BY <1>2 DEF GoesOn, Outside
  <1>3. CASE Leaves(a)
    BY <1>0, <1>3 DEF Leaves, Leave, Goto, EndStates
  <1> QED
    BY <1>1, <1>2, <1>3, StepKinds

-----------------------------------------------------------------------------
(* The reader set                                                          *)

\* While it has a member it is not created anew, and keeps or gets its TTL.
LEMMA TtlStep ==
    ASSUME TypeOK, NEW a \in Attempts, Step(a), NEW r \in readers, r \in readers'
    PROVE  rttl' = rttl \/ rttl' = Expiry
  <1> USE DEF TypeOK, server
  <1>1. CASE StartRead(a) \/ ReadExists(a) \/ ReadAdd(a) \/ ReadExpire(a) \/ ReadRemove(a) \/ ReadAgain(a)
    BY <1>1 DEF StartRead, ReadExists, ReadAdd, ReadExpire, RefreshSet, ReadRemove, ReadAgain
  <1>2. CASE StartWrite(a) \/ WriteCount(a) \/ WriteGet(a) \/ CancelWrite(a)
    BY <1>2 DEF StartWrite, WriteCount, WriteGet, CancelWrite
  <1>3. CASE WriteOverwrite(a) \/ WriteSet(a) \/ WriteMark(a) \/ WriteRefresh(a)
    BY <1>3 DEF WriteOverwrite, WriteSet, WriteMark, WriteRefresh
  <1>4. CASE WriteCheck(a) \/ WriteDelete(a)
    BY <1>4 DEF WriteCheck, WriteDelete
  <1>5. CASE ExtendStart(a) \/ ExtendCheck(a) \/ ExtendExpire(a)
    BY <1>5 DEF ExtendStart, ExtendCheck, ExtendExpire, RefreshSet
  <1>6. CASE AbortTry(a) \/ ReleaseStart(a) \/ DropHandle(a)
    BY <1>6 DEF AbortTry, ReleaseStart, DropHandle
  <1> QED
    BY <1>1, <1>2, <1>3, <1>4, <1>5, <1>6, StepCases

\* A reader is taken out of the set by its own SREM, which it does not send
\* while it holds the lock.
LEMMA InTheSetStep ==
    ASSUME TypeOK, InTheSet, NEW a \in Attempts, Step(a)
    PROVE  InTheSet'
  <1> SUFFICES ASSUME NEW r \in Readers, (pc[r] = "expire" \/ Holds(r))'
               PROVE  r \in readers'
    BY DEF InTheSet
  <1>1. CASE r # a
    BY <1>1, StepLocal DEF InTheSet, Holds, Attempts
  <1>2. CASE r = a
    <2> USE <1>2, RwAssumption DEF TypeOK, InTheSet, Holds, Goto, GoOn, Granted, Leave, Refused,
                BeginTry, server, task, TryStates, InTry
    <2>1. CASE StartRead(a) \/ ReadExists(a) \/ ReadAdd(a)
      BY <2>1 DEF StartRead, ReadExists, ReadAdd
    <2>2. CASE ReadExpire(a) \/ ReadRemove(a) \/ ReadAgain(a)
      BY <2>2 DEF ReadExpire, ReadRemove, ReadAgain
    <2>3. CASE ExtendStart(a) \/ ExtendCheck(a) \/ ExtendExpire(a)
      BY <2>3 DEF ExtendStart, ExtendCheck, ExtendExpire
    <2>4. CASE AbortTry(a) \/ ReleaseStart(a) \/ DropHandle(a)
      BY <2>4 DEF AbortTry, ReleaseStart, DropHandle
    <2> QED
      BY <2>1, <2>2, <2>3, <2>4, StepCases
  <1> QED
    BY <1>1, <1>2

\* A grant and an extension set the TTL to more than a round; the interval and
\* a round on its way are still to come.
LEMMA SetOutlivesRoundStep ==
    ASSUME TypeOK, InTheSet, InTheSet', SetOutlivesRound, NEW a \in Attempts, Step(a)
    PROVE  SetOutlivesRound'
  <1> SUFFICES ASSUME NEW r \in Readers, Holds(r)'
               PROVE  rttl' > 0 /\ (rttl' > 1 \/ due'[r] = 0 \/ ext'[r] # "none")
    BY DEF SetOutlivesRound
  <1>0. r \in readers'
    BY DEF InTheSet
  <1>1. CASE Holds(r) /\ UNCHANGED <<due, ext>>
    <2>1. rttl' = rttl \/ rttl' = Expiry
      BY <1>0, <1>1, TtlStep DEF InTheSet
    <2> QED
      BY <1>1, <2>1, RwAssumption DEF SetOutlivesRound
  <1>2. CASE r # a
    <2>1. Holds(r) /\ due'[r] = due[r] /\ ext'[r] = ext[r]
      BY <1>2, StepLocal DEF Holds, Attempts
    <2>2. rttl' = rttl \/ rttl' = Expiry
      BY <1>0, <2>1, TtlStep DEF InTheSet
    <2> QED
      BY <2>1, <2>2, RwAssumption DEF SetOutlivesRound
  <1>3. CASE r = a
    <2> USE <1>3, RwAssumption DEF TypeOK, Holds, Goto, GoOn, Granted, Leave, Refused,
                BeginTry, server, task, TryStates, InTry
    <2>1. CASE StartRead(a) \/ ReadExists(a) \/ ReadAdd(a)
      BY <2>1 DEF StartRead, ReadExists, ReadAdd
    <2>2. CASE ReadExpire(a) \/ ReadRemove(a) \/ ReadAgain(a)
      BY <2>2, <1>0 DEF ReadExpire, RefreshSet, ReadRemove, ReadAgain
    <2>3. CASE ExtendStart(a)
      <3>1. Holds(r) /\ rttl' = rttl /\ ext'[r] = "check"
        BY <2>3 DEF ExtendStart
      <3> QED
        BY <3>1 DEF SetOutlivesRound
    <2>4. CASE ExtendCheck(a)
      <3>1. Holds(r) /\ rttl' = rttl
        BY <2>4 DEF ExtendCheck
      <3>2. ext'[r] = "expire"
        BY <2>4, <3>1 DEF ExtendCheck, Known, InTheSet
      <3> QED
        BY <3>1, <3>2 DEF SetOutlivesRound
    <2>5. CASE ExtendExpire(a)
      BY <2>5, <1>0 DEF ExtendExpire, RefreshSet
    <2>6. CASE AbortTry(a) \/ ReleaseStart(a) \/ DropHandle(a)
      BY <2>6 DEF AbortTry, ReleaseStart, DropHandle
    <2> QED
      BY <2>1, <2>2, <2>3, <2>4, <2>5, <2>6, StepCases
  <1> QED
    BY <1>2, <1>3

\* The set loses its TTL when it is created, and its creator sets one unless it
\* is aborted.
LEMMA NoTtlStep ==
    ASSUME TypeOK, OnlyAbortsLeaveNoTtl, NEW a \in Attempts, Step(a)
    PROVE  OnlyAbortsLeaveNoTtl'
  <1> SUFFICES ASSUME rttl' = -1
               PROVE  \E r \in readers' : pc'[r] = "expire" \/ (r \in Aborted /\ pc'[r] = "failed")
    BY DEF OnlyAbortsLeaveNoTtl
  <1> USE RwAssumption DEF TypeOK, Attempts
  <1>1. CASE rttl # -1
    <2>1. readers' = readers \cup {a} /\ pc'[a] = "expire"
      <3> USE <1>1 DEF server, RefreshSet
      <3>1. CASE StartRead(a) \/ ReadExists(a) \/ ReadExpire(a) \/ ReadRemove(a) \/ ReadAgain(a)
        BY <3>1 DEF StartRead, ReadExists, ReadExpire, ReadRemove, ReadAgain
      <3>2. CASE ReadAdd(a)
        BY <3>2 DEF ReadAdd, GoOn, Goto
      <3>3. CASE StartWrite(a) \/ WriteCount(a) \/ WriteGet(a) \/ CancelWrite(a)
        BY <3>3 DEF StartWrite, WriteCount, WriteGet, CancelWrite
      <3>4. CASE WriteOverwrite(a) \/ WriteSet(a) \/ WriteMark(a) \/ WriteRefresh(a)
        BY <3>4 DEF WriteOverwrite, WriteSet, WriteMark, WriteRefresh
      <3>5. CASE WriteCheck(a) \/ WriteDelete(a)
        BY <3>5 DEF WriteCheck, WriteDelete
      <3>6. CASE ExtendStart(a) \/ ExtendCheck(a) \/ ExtendExpire(a)
        BY <3>6 DEF ExtendStart, ExtendCheck, ExtendExpire
      <3>7. CASE AbortTry(a) \/ ReleaseStart(a) \/ DropHandle(a)
        BY <3>7 DEF AbortTry, ReleaseStart, DropHandle
      <3> QED
        BY <3>1, <3>2, <3>3, <3>4, <3>5, <3>6, <3>7, StepCases
    <2> QED
      BY <2>1
  <1>2. CASE rttl = -1
    <2> PICK r \in readers : pc[r] = "expire" \/ (r \in Aborted /\ pc[r] = "failed")
      BY <1>2 DEF OnlyAbortsLeaveNoTtl
    <2>1. CASE r # a
      BY <2>1, StepLocal
    <2>2. CASE r = a
      <3> USE <2>2 DEF Goto, GoOn, Granted, Leave, Refused, BeginTry, server, task, InTry
      <3>1. CASE StartRead(a) \/ ReadExists(a) \/ ReadAdd(a)
        BY <3>1 DEF StartRead, ReadExists, ReadAdd
      <3>2. CASE ReadExpire(a) \/ ReadRemove(a) \/ ReadAgain(a)
        BY <3>2 DEF ReadExpire, RefreshSet, ReadRemove, ReadAgain
      <3>3. CASE ExtendStart(a) \/ ExtendCheck(a) \/ ExtendExpire(a)
        BY <3>3 DEF ExtendStart, ExtendCheck, ExtendExpire
      <3>4. CASE AbortTry(a) \/ ReleaseStart(a) \/ DropHandle(a)
        BY <3>4 DEF AbortTry, ReleaseStart, DropHandle, TryStates
      <3> QED
        BY <3>1, <3>2, <3>3, <3>4, StepCases
    <2> QED
      BY <2>1, <2>2
  <1> QED
    BY <1>1, <1>2

-----------------------------------------------------------------------------
(* Looks and grants                                                        *)

\* Who has become a holder or has looked in a step, and who was or had before.
LEMMA WriterHolds ==
    ASSUME TypeOK, NEW a \in Attempts, Step(a), NEW w \in Writers, Holds(w)', writer' = w
    PROVE  (Holds(w) /\ writer = w) \/ (w = a /\ FoundNoReader(w))
  <1> USE RwAssumption DEF TypeOK, Holds, FoundNoReader, Attempts, Goto, GoOn, Granted, Leave, Refused,
              BeginTry, SetWriter, server, task
  <1>1. CASE a \in Readers /\ (\/ StartRead(a) \/ ReadExists(a) \/ ReadAdd(a) \/ ReadExpire(a)
                               \/ ReadRemove(a) \/ ReadAgain(a))
    BY <1>1 DEF StartRead, ReadExists, ReadAdd, ReadExpire, ReadRemove, ReadAgain
  <1>2. CASE StartWrite(a) \/ WriteCount(a) \/ WriteGet(a) \/ CancelWrite(a)
    BY <1>2 DEF StartWrite, WriteCount, WriteGet, CancelWrite
  <1>3. CASE WriteOverwrite(a) \/ WriteSet(a)
    BY <1>3 DEF WriteOverwrite, WriteSet
  <1>4. CASE WriteMark(a) \/ WriteRefresh(a)
    BY <1>4 DEF WriteMark, WriteRefresh
  <1>5. CASE WriteCheck(a) \/ WriteDelete(a)
    BY <1>5 DEF WriteCheck, WriteDelete
  <1>6. CASE ExtendStart(a) \/ ExtendCheck(a) \/ ExtendExpire(a)
    BY <1>6 DEF ExtendStart, ExtendCheck, ExtendExpire
  <1>7. CASE AbortTry(a) \/ ReleaseStart(a) \/ DropHandle(a)
    BY <1>7 DEF AbortTry, ReleaseStart, DropHandle
  <1> QED
    BY <1>1, <1>2, <1>3, <1>4, <1>5, <1>6, <1>7, StepCases

LEMMA ReaderHolds ==
    ASSUME TypeOK, NEW a \in Attempts, Step(a), NEW r \in Readers, Holds(r)'
    PROVE  Holds(r) \/ (r = a /\ pc[r] = "expire")
  <1>1. CASE r # a
    BY <1>1, StepLocal DEF Holds, Attempts
  <1>2. CASE r = a
    <2> USE <1>2, RwAssumption DEF TypeOK, Holds, Goto, GoOn, Granted, Leave, Refused, BeginTry, task
    <2>1. CASE StartRead(a) \/ ReadExists(a) \/ ReadAdd(a) \/ ReadExpire(a) \/ ReadRemove(a) \/ ReadAgain(a)
      BY <2>1 DEF StartRead, ReadExists, ReadAdd, ReadExpire, ReadRemove, ReadAgain
    <2>2. CASE ExtendStart(a) \/ ExtendCheck(a) \/ ExtendExpire(a)
      BY <2>2 DEF ExtendStart, ExtendCheck, ExtendExpire
    <2>3. CASE AbortTry(a) \/ ReleaseStart(a) \/ DropHandle(a)
      BY <2>3 DEF AbortTry, ReleaseStart, DropHandle
    <2> QED
      BY <2>1, <2>2, <2>3, StepCases
  <1> QED
    BY <1>1, <1>2

LEMMA ReaderLooks ==
    ASSUME TypeOK, NEW a \in Attempts, Step(a), NEW r \in Readers, FoundNoWriter(r)'
    PROVE  FoundNoWriter(r) \/ writer' = None
  <1>1. CASE r # a
    BY <1>1, StepLocal DEF FoundNoWriter, Attempts
  <1>2. CASE r = a
    <2> USE <1>2, RwAssumption DEF TypeOK, FoundNoWriter, Goto, GoOn, Granted, Leave, Refused, BeginTry,
                server, task
    <2>1. CASE StartRead(a) \/ ReadExists(a) \/ ReadAdd(a) \/ ReadExpire(a) \/ ReadRemove(a) \/ ReadAgain(a)
      BY <2>1 DEF StartRead, ReadExists, ReadAdd, ReadExpire, ReadRemove, ReadAgain
    <2>2. CASE ExtendStart(a) \/ ExtendCheck(a) \/ ExtendExpire(a)
      BY <2>2 DEF ExtendStart, ExtendCheck, ExtendExpire
    <2>3. CASE AbortTry(a) \/ ReleaseStart(a) \/ DropHandle(a)
      BY <2>3 DEF AbortTry, ReleaseStart, DropHandle
    <2> QED
      BY <2>1, <2>2, <2>3, StepCases
  <1> QED
    BY <1>1, <1>2

LEMMA WriterLooks ==
    ASSUME TypeOK, NEW a \in Attempts, Step(a), NEW w \in Writers, FoundNoReader(w)'
    PROVE  FoundNoReader(w) \/ readers' = {}
  <1>1. CASE w # a
    BY <1>1, StepLocal DEF FoundNoReader, Attempts
  <1>2. CASE w = a
    <2> USE <1>2, RwAssumption DEF TypeOK, FoundNoReader, Goto, GoOn, Granted, Leave, Refused, BeginTry,
                server, task
    <2>1. CASE StartWrite(a) \/ WriteCount(a) \/ CancelWrite(a)
      BY <2>1 DEF StartWrite, WriteCount, CancelWrite
    <2>2. CASE WriteGet(a)
      BY <2>2 DEF WriteGet
    <2>3. CASE WriteOverwrite(a) \/ WriteSet(a) \/ WriteMark(a) \/ WriteRefresh(a)
      BY <2>3 DEF WriteOverwrite, WriteSet, WriteMark, WriteRefresh
    <2>4. CASE WriteCheck(a) \/ WriteDelete(a)
      BY <2>4 DEF WriteCheck, WriteDelete
    <2>5. CASE ExtendStart(a) \/ ExtendCheck(a) \/ ExtendExpire(a)
      BY <2>5 DEF ExtendStart, ExtendCheck, ExtendExpire
    <2>6. CASE AbortTry(a) \/ ReleaseStart(a) \/ DropHandle(a)
      BY <2>6 DEF AbortTry, ReleaseStart, DropHandle
    <2> QED
      BY <2>1, <2>2, <2>3, <2>4, <2>5, <2>6, StepCases
  <1> QED
    BY <1>1, <1>2

\* Whoever gets in while another looks was in its try at that time, and whoever
\* looks while another holds sees it.
LEMMA OverlapStep ==
    ASSUME RwInvariant, InTheSet', NEW a \in Attempts, Step(a)
    PROVE  LooksOverlap' /\ OverlapOnly'
  <1> USE RwAssumption DEF RwInvariant
  <1>t. \A w \in Writers : FoundNoReader(w) => InTry(w)
    BY DEF FoundNoReader, InTry, TryStates
  <1>u. \A r \in Readers : FoundNoWriter(r) => InTry(r)
    BY DEF FoundNoWriter, InTry, TryStates
  <1>k. ASSUME NEW w \in Writers, NEW r \in Readers, r \in overlap[w],
               FoundNoReader(w) \/ Holds(w), (FoundNoReader(w) \/ Holds(w))',
               (FoundNoWriter(r) \/ Holds(r))'
        PROVE  r \in overlap'[w]
    BY <1>k, <1>t, OverlapKept DEF FoundNoReader, FoundNoWriter, Holds, TryStates
  <1>1. ASSUME NEW w \in Writers, NEW r \in Readers, FoundNoWriter(r)', Holds(w)', writer' = w
        PROVE  r \in overlap'[w]
    <2>1. FoundNoWriter(r)
      BY <1>1, ReaderLooks DEF Attempts
    <2>2. CASE Holds(w) /\ writer = w
      BY <1>1, <1>k, <2>1, <2>2 DEF LooksOverlap
    <2>3. CASE FoundNoReader(w)
      BY <1>1, <1>k, <1>t, <1>u, <2>1, <2>3 DEF TriesMeet
    <2> QED
      BY <1>1, <2>2, <2>3, WriterHolds
  <1>2. ASSUME NEW w \in Writers, NEW r \in Readers, FoundNoReader(w)', Holds(r)'
        PROVE  r \in overlap'[w]
    <2>1. FoundNoReader(w)
      BY <1>2, WriterLooks DEF InTheSet
    <2>2. CASE Holds(r)
      BY <1>2, <1>k, <2>1, <2>2 DEF LooksOverlap
    <2>3. CASE pc[r] = "expire"
      BY <1>2, <1>k, <1>t, <1>u, <2>1, <2>3 DEF TriesMeet, FoundNoWriter
    <2> QED
      BY <1>2, <2>2, <2>3, ReaderHolds
  <1>3. ASSUME NEW w \in Writers, NEW r \in Readers, Holds(w)', writer' = w, Holds(r)'
        PROVE  r \in overlap'[w]
    <2>1. CASE Holds(w) /\ writer = w /\ Holds(r)
      BY <1>3, <1>k, <2>1 DEF OverlapOnly
    <2>2. CASE Holds(w) /\ writer = w /\ pc[r] = "expire"
      BY <1>3, <1>k, <2>2 DEF LooksOverlap, FoundNoWriter
    <2>3. CASE FoundNoReader(w) /\ Holds(r)
      BY <1>3, <1>k, <2>3 DEF LooksOverlap
    <2> QED
      BY <1>3, <2>1, <2>2, <2>3, WriterHolds, ReaderHolds
  <1> QED
    BY <1>1, <1>2, <1>3 DEF LooksOverlap, OverlapOnly

-----------------------------------------------------------------------------
\* Whoever holds the lock was extended since the last tick.
LEMMA TickStep ==
    ASSUME RwInvariant, Tick
    PROVE  RwInvariant'
  <1> USE RwAssumption DEF RwInvariant
  <1>0. UNCHANGED <<pc, empty, ext, lost, overlap>>
    BY DEF Tick
  <1>1. rttl' \in -1..Expiry /\ readers' \subseteq readers
    BY DEF Tick, TypeOK
  <1>2. wttl' \in 0..Expiry /\ writer' \in {writer, None}
    BY DEF Tick, TypeOK
  <1>3. waiting' \in BOOLEAN
    <2>1. waiting' = FALSE \/ waiting' = waiting
      BY DEF Tick
    <2> QED
      BY <2>1, Zenon DEF TypeOK
  <1>4. due' \in [Attempts -> 0..Sleep] /\ \A r \in Readers : due'[r] \in {0, 1}
    BY DEF Tick, TypeOK, Attempts
  <1>5. TypeOK'
    BY <1>0, <1>1, <1>2, <1>3, <1>4 DEF TypeOK
  <1>6. ASSUME NEW r \in Readers, Holds(r)
        PROVE  r \in readers' /\ rttl' > 0 /\ due'[r] = 0
    <2>1. r \in Attempts /\ due[r] # 0 /\ ext[r] = "none"
      BY <1>6 DEF Tick, Settled, Holds, Attempts, EndStates
    <2>2. rttl > 1 /\ r \in readers
      BY <1>6, <2>1 DEF SetOutlivesRound, InTheSet
    <2>3. due'[r] = 0
      BY <1>6, <2>1 DEF Tick, Counting, Holds, TypeOK
    <2> QED
      BY <2>2, <2>3 DEF Tick, TypeOK
  <1>7. \A a \in Attempts : pc[a] \notin TryStates
    BY DEF Tick, Settled, TryStates, EndStates
  <1>8. InTheSet' /\ SetOutlivesRound'
    BY <1>0, <1>6, <1>7 DEF InTheSet, SetOutlivesRound, Holds, TryStates, Attempts
  <1>9. OnlyAbortsLeaveNoTtl'
    <2>1. rttl' = -1 => rttl = -1 /\ readers' = readers
      BY DEF Tick, TypeOK
    <2> QED
      BY <1>0, <2>1 DEF OnlyAbortsLeaveNoTtl
  <1>10. TriesMeet' /\ LooksOverlap' /\ OverlapOnly'
    BY <1>0, <1>2, <1>7 DEF TriesMeet, LooksOverlap, OverlapOnly, InTry, Holds, FoundNoReader,
                            FoundNoWriter, TryStates, Attempts, TypeOK
  <1> QED
    BY <1>5, <1>8, <1>9, <1>10

LEMMA NextInv == RwInvariant /\ [Next]_vars => RwInvariant'
  <1> SUFFICES ASSUME RwInvariant, [Next]_vars PROVE RwInvariant'
    OBVIOUS
  <1>1. ASSUME NEW a \in Attempts, Step(a)
        PROVE  RwInvariant'
    <2>1. TypeOK' /\ InTheSet' /\ OnlyAbortsLeaveNoTtl' /\ TriesMeet'
      BY <1>1, TypeStep, InTheSetStep, NoTtlStep, TriesMeetStep DEF RwInvariant
    <2>2. SetOutlivesRound' /\ LooksOverlap' /\ OverlapOnly'
      BY <1>1, <2>1, SetOutlivesRoundStep, OverlapStep DEF RwInvariant
    <2> QED
      BY <2>1, <2>2 DEF RwInvariant
  <1>2. CASE UNCHANGED vars
    BY <1>2 DEF vars, server, task, RwInvariant, TypeOK, OnlyAbortsLeaveNoTtl, InTheSet, SetOutlivesRound,
                TriesMeet, LooksOverlap, OverlapOnly, InTry, Holds, FoundNoReader, FoundNoWriter
  <1> QED
    BY <1>1, <1>2, TickStep, NextIsStep

\* A reader that holds the lock is in a set that lives, and what a try saw when it
\* looked stands but for those who were in a try of their own (rw_lock.rs).
THEOREM RwInvariantCorrect == Spec => []RwInvariant
  BY InitInv, NextInv, PTL DEF Spec

\* Readers and the writer hold the lock together only if their tries overlapped,
\* with any number of them.
THEOREM OverlapOnlyCorrect == Spec => []OverlapOnly
  <1>1. RwInvariant => OverlapOnly
    BY DEF RwInvariant
  <1> QED
    BY <1>1, RwInvariantCorrect, PTL

\* A reader set that never expires is the work of an aborted try.
THEOREM OnlyAbortsLeaveNoTtlCorrect == Spec => []OnlyAbortsLeaveNoTtl
  <1>1. RwInvariant => OnlyAbortsLeaveNoTtl
    BY DEF RwInvariant
  <1> QED
    BY <1>1, RwInvariantCorrect, PTL
=============================================================================
