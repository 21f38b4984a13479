--------------------------- MODULE FileLockProofs ---------------------------
(* How far the file lock is exclusive, for any number of attempts, files and *)
(* retries: as long as no path was unlinked.                                 *)
EXTENDS FileLock, TLAPS

LEMMA InitInv == Init => FileInvariant
  BY FileLockAssumption DEF Init, FileInvariant, TypeOK, Opened, LocksHeld, OneFile, PcStates

\* Every step keeps the types.
LEMMA TypeStep ==
    ASSUME TypeOK, NEW a \in Attempts, Step(a)
    PROVE  TypeOK'
  <1> USE FileLockAssumption DEF TypeOK, PcStates, Goto
  <1>1. CASE Enter(a)
    BY <1>1 DEF Enter
  <1>2. CASE Open(a)
    BY <1>2 DEF Open
  <1>3. CASE OpenRetried(a)
    BY <1>3 DEF OpenRetried
  <1>4. CASE OpenFails(a)
    BY <1>4 DEF OpenFails
  <1>5. CASE Lock(a)
    BY <1>5 DEF Lock
  <1>6. CASE Busy(a)
    BY <1>6 DEF Busy, NotLocked
  <1>7. CASE Unlock(a)
    BY <1>7 DEF Unlock
  <1>8. CASE Unlink(a)
    BY <1>8 DEF Unlink
  <1>9. CASE Crash(a)
    BY <1>9 DEF Crash
  <1>10. CASE LockFails(a)
    BY <1>10 DEF LockFails, NotLocked
  <1>11. CASE Cancel(a)
    BY <1>11 DEF Cancel
  <1> QED
    BY <1>1, <1>2, <1>3, <1>4, <1>5, <1>6, <1>7, <1>8, <1>9, <1>10, <1>11 DEF Step

\* flock is exclusive, and only its owner gives it up.
LEMMA OpenedStep ==
    ASSUME TypeOK, Opened, NEW a \in Attempts, Step(a)
    PROVE  Opened'
  <1> USE FileLockAssumption DEF TypeOK, Opened, Goto
  <1>1. CASE Enter(a)
    BY <1>1 DEF Enter
  <1>2. CASE Open(a)
    BY <1>2 DEF Open
  <1>3. CASE OpenRetried(a)
    BY <1>3 DEF OpenRetried
  <1>4. CASE OpenFails(a)
    BY <1>4 DEF OpenFails
  <1>5. CASE Lock(a)
    BY <1>5 DEF Lock
  <1>6. CASE Busy(a)
    BY <1>6 DEF Busy, NotLocked
  <1>7. CASE Unlock(a)
    BY <1>7 DEF Unlock
  <1>8. CASE Unlink(a)
    BY <1>8 DEF Unlink
  <1>9. CASE Crash(a)
    BY <1>9 DEF Crash, Ended
  <1>10. CASE LockFails(a)
    BY <1>10 DEF LockFails, NotLocked
  <1>11. CASE Cancel(a)
    BY <1>11 DEF Cancel
  <1> QED
    BY <1>1, <1>2, <1>3, <1>4, <1>5, <1>6, <1>7, <1>8, <1>9, <1>10, <1>11 DEF Step

\* The path names another file only after it was unlinked.
LEMMA OneFileStep ==
    ASSUME TypeOK, Opened, NEW a \in Attempts, Step(a),
           NothingRemoved => OneFile, NothingRemoved'
    PROVE  OneFile'
  <1> USE FileLockAssumption DEF TypeOK, OneFile, Goto
  <1>1. NothingRemoved
    BY DEF NothingRemoved, Step, Enter, Open, OpenRetried, OpenFails, Lock,
           Busy, LockFails, Cancel, NotLocked, Goto, Unlock, Unlink, Crash, Ended
  <1>2. CASE Open(a)
    BY <1>1, <1>2 DEF Open
  <1>3. CASE Unlink(a)
    BY <1>1, <1>3 DEF Unlink, NothingRemoved
  <1>4. CASE Enter(a) \/ OpenRetried(a) \/ OpenFails(a) \/ Lock(a)
    BY <1>1, <1>4 DEF Enter, OpenRetried, OpenFails, Lock
  <1>5. CASE Busy(a) \/ LockFails(a) \/ Unlock(a) \/ Crash(a)
    BY <1>1, <1>5 DEF Busy, LockFails, NotLocked, Unlock, Crash
  <1>6. CASE Cancel(a)
    BY <1>1, <1>6 DEF Cancel
  <1> QED
    BY <1>2, <1>3, <1>4, <1>5, <1>6 DEF Step

\* Who has a lock is a holder with that file open.
LEMMA LocksHeldStep ==
    ASSUME TypeOK, Opened, LocksHeld, NEW a \in Attempts, Step(a)
    PROVE  LocksHeld'
  <1> USE FileLockAssumption DEF TypeOK, Opened, LocksHeld, Goto
  <1>1. CASE Enter(a)
    BY <1>1 DEF Enter
  <1>2. CASE Open(a)
    BY <1>2 DEF Open
  <1>3. CASE OpenRetried(a) \/ OpenFails(a)
    BY <1>3 DEF OpenRetried, OpenFails
  <1>4. CASE Lock(a)
    BY <1>4 DEF Lock
  <1>5. CASE Busy(a)
    BY <1>5 DEF Busy, NotLocked
  <1>6. CASE Unlock(a)
    BY <1>6 DEF Unlock
  <1>7. CASE Unlink(a)
    BY <1>7 DEF Unlink
  <1>8. CASE Crash(a)
    BY <1>8 DEF Crash, Ended
  <1>9. CASE LockFails(a)
    BY <1>9 DEF LockFails, NotLocked
  <1>10. CASE Cancel(a)
    BY <1>10 DEF Cancel
  <1> QED
    BY <1>1, <1>2, <1>3, <1>4, <1>5, <1>6, <1>7, <1>8, <1>9, <1>10 DEF Step

LEMMA NextInv == FileInvariant /\ [Next]_vars => FileInvariant'
  <1>1. ASSUME FileInvariant, NEW a \in Attempts, Step(a)
        PROVE  FileInvariant'
    BY <1>1, TypeStep, OpenedStep, LocksHeldStep, OneFileStep DEF FileInvariant
  <1>2. ASSUME FileInvariant, UNCHANGED vars
        PROVE  FileInvariant'
    BY <1>2 DEF FileInvariant, TypeOK, Opened, LocksHeld, OneFile, NothingRemoved, vars
  <1> QED
    BY <1>1, <1>2 DEF Next

\* Who holds the lock has the flock of the file it has open, and nobody else has
\* one; nobody has another file open before the first unlink (lock.rs, handle.rs).
THEOREM FileInvariantCorrect == Spec => []FileInvariant
  BY InitInv, NextInv, PTL DEF Spec

\* The lock is exclusive until a path is unlinked: two holders have the same
\* file open, and flock gives it to one of them.
THEOREM ExclusiveUntilRemovedCorrect == Spec => []ExclusiveUntilRemoved
  <1>1. FileInvariant => ExclusiveUntilRemoved
    <2> SUFFICES ASSUME FileInvariant, NothingRemoved, NEW a \in Attempts, NEW b \in Attempts,
                        Holds(a), Holds(b)
                 PROVE  a = b
      BY DEF ExclusiveUntilRemoved, MutualExclusion
    <2>1. fd[a] = path /\ fd[b] = path
      BY DEF FileInvariant, Opened, OneFile, Holds
    <2> QED
      BY <2>1 DEF FileInvariant, Opened, Holds
  <1> QED
    BY <1>1, InitInv, NextInv, PTL DEF Spec

-----------------------------------------------------------------------------
(* What becomes of the file                                                *)

\* Whoever is in charge of the path stays in charge until it has unlinked it, or
\* finds the file locked, and then the owner of the lock is; who walks away from
\* it otherwise is noted.
LEMMA NoFileLeftStep ==
    ASSUME TypeOK, Opened, LocksHeld, NoFileLeft, NEW a \in Attempts, Step(a)
    PROVE  NoFileLeft'
  <1> SUFFICES ASSUME path' # None, ~left'
               PROVE  \E b \in Attempts : WillUnlink(b)'
    BY DEF NoFileLeft
  <1> USE FileLockAssumption DEF TypeOK, Goto, WillUnlink
  <1>1. CASE Open(a)
    BY <1>1 DEF Open
  <1>2. CASE Unlock(a)
    BY <1>2 DEF Unlock
  <1>3. CASE Unlink(a)
    BY <1>3 DEF Unlink
  <1>4. CASE Lock(a) /\ fd[a] = path
    BY <1>4 DEF Lock
  <1>5. CASE (Lock(a) /\ fd[a] # path) \/ LockFails(a) \/ Crash(a)
    <2>1. path' = path /\ ~left
      BY <1>5 DEF Lock, LockFails, Crash
    <2>2. PICK b \in Attempts : WillUnlink(b)
      BY <2>1 DEF NoFileLeft
    <2>3. b # a
      BY <1>5, <2>2 DEF Lock, LockFails, Crash
    <2>4. WillUnlink(b)'
      BY <1>5, <2>1, <2>2, <2>3 DEF Lock, LockFails, NotLocked, Crash
    <2> QED
      BY <2>4
  <1>6. CASE Enter(a) \/ OpenRetried(a) \/ OpenFails(a) \/ Cancel(a) \/ Busy(a)
    <2>1. path' = path /\ ~left
      BY <1>6 DEF Enter, OpenRetried, OpenFails, Cancel, Busy
    <2>2. PICK b \in Attempts : WillUnlink(b)
      BY <2>1 DEF NoFileLeft
    <2>3. CASE ~Busy(a)
      <3>1. WillUnlink(b)'
        BY <1>6, <2>1, <2>2, <2>3 DEF Enter, OpenRetried, OpenFails, Cancel
      <3> QED
        BY <3>1
    <2>4. CASE Busy(a) /\ b # a
      BY <2>1, <2>2, <2>4 DEF Busy, NotLocked
    <2>5. CASE Busy(a) /\ b = a
      <3>1. fd[a] = path /\ path \in Files /\ flock[path] \in Attempts
        <4>1. pc[a] = "flock" /\ fd[a] = path
          BY <2>2, <2>5 DEF Busy
        <4>2. path \in Files /\ flock[path] # None
          BY <2>1, <2>5, <4>1 DEF Busy
        <4> QED
          BY <4>1, <4>2
      <3>2. PICK d \in Attempts : flock[path] = d
        BY <3>1
      <3>3. pc[d] = "held" /\ fd[d] = path
        BY <3>1, <3>2 DEF LocksHeld
      <3>4. pc'[d] = "held" /\ fd'[d] = path'
        BY <2>1, <2>5, <3>3 DEF Busy, NotLocked
      <3> QED
        BY <3>4
    <2> QED
      BY <2>3, <2>4, <2>5
  <1> QED
    BY <1>1, <1>2, <1>3, <1>4, <1>5, <1>6 DEF Step

\* A file that was opened is left behind only by a death, a failed remove_file or
\* a failed flock of who was in charge of it, for any number of attempts.
THEOREM NoFileLeftCorrect == Spec => []NoFileLeft
  <1>1. Init => NoFileLeft
    BY DEF Init, NoFileLeft
  <1>2. FileInvariant /\ NoFileLeft /\ [Next]_vars => NoFileLeft'
    <2> SUFFICES ASSUME FileInvariant, NoFileLeft, [Next]_vars PROVE NoFileLeft'
      OBVIOUS
    <2>1. CASE UNCHANGED vars
      BY <2>1 DEF vars, NoFileLeft, WillUnlink
    <2> QED
      BY <2>1, NoFileLeftStep DEF Next, FileInvariant
  <1> QED
    BY <1>1, <1>2, InitInv, NextInv, PTL DEF Spec
=============================================================================
