-------------------------- MODULE PostgresLockProofs --------------------------
(* The PostgreSQL locks for any number of sessions and attempts: a handle    *)
(* has its lock for as long as its connection is up, and the locks of such   *)
(* handles are compatible.                                                   *)
EXTENDS PostgresLock, FiniteSetTheorems, TLAPS

\* What a call or a handle does.
Step(a) ==
    \/ CallStep(a) \/ ConnectFails(a) \/ LockRefused(a)
    \/ Cancel(a) \/ ZombieClosed(a) \/ Release(a) \/ ReleaseFails(a) \/ DropHandle(a)

LEMMA NextIsStep == Next <=> (\E s \in Sessions : Break(s)) \/ \E a \in Attempts : Step(a)
  BY DEF Next, Step

LEMMA InitInv == Init => PostgresInvariant
  BY PostgresAssumption
     DEF Init, PostgresInvariant, TypeOK, OwnSession, NoSessionLost, ServerExclusive, HandleHasLock, HasLock, LocksInTx,
         CommitsSessionLocks, WaitsInTx, Working, Busy, EndStates, Locked, Unlocked, Modes

\* Every step of an attempt is one of its actions.
LEMMA StepCases ==
    ASSUME NEW a \in Attempts, Step(a)
    PROVE  \/ \E s \in Sessions : Connect(a, s)
           \/ ConnectFails(a)
           \/ Prepare(a) \/ PrepareFails(a) \/ SetRefused(a)
           \/ LockGranted(a) \/ Commit(a) \/ CommitFails(a) \/ LockRefused(a)
           \/ Undo(a) \/ UndoFails(a) \/ Rollback(a)
           \/ Try(a) \/ TryFails(a) \/ CallFails(a) \/ Cancel(a)
           \/ ZombieGranted(a) \/ ZombieClosed(a)
           \/ Release(a) \/ ReleaseFails(a) \/ DropHandle(a)
  BY DEF Step, CallStep

-----------------------------------------------------------------------------
(* What the statements do to the session of an attempt.                    *)

\* Session s is left alone by the server.
SameLocks(s) == level'[s] = level[s] /\ xlocks'[s] = xlocks[s] /\ tx'[s] = tx[s]

\* A statement that may only take transaction locks from the session.
Loses(s) == EndTx(s) \/ Abort(s) \/ UNCHANGED <<tx, xlocks>>

LEMMA LosesLocks ==
    ASSUME TypeOK, NEW s \in Sessions, Loses(s)
    PROVE  /\ tx' \in [Sessions -> {"none", "open", "aborted"}]
           /\ xlocks' \in [Sessions -> SUBSET Modes]
           /\ \A t \in Sessions : xlocks'[t] \subseteq xlocks[t]
           /\ \A t \in Sessions \ {s} : tx'[t] = tx[t] /\ xlocks'[t] = xlocks[t]
           /\ LocksInTx => LocksInTx'
  <1> USE DEF TypeOK, LocksInTx
  <1>1. CASE EndTx(s)
    BY <1>1 DEF EndTx
  <1>2. CASE Abort(s)
    <2>1. PICK kept \in SUBSET xlocks[s] : xlocks' = [xlocks EXCEPT ![s] = kept]
      BY <1>2 DEF Abort
    <2>2. tx' = [tx EXCEPT ![s] = "aborted"]
      BY <1>2 DEF Abort
    <2> QED
      BY <2>1, <2>2
  <1>3. CASE UNCHANGED <<tx, xlocks>>
    BY <1>3
  <1> QED
    BY <1>1, <1>2, <1>3 DEF Loses

\* The statements that end, abort or keep the transaction of their session, and
\* leave the session level alone.
Closing(a) == Commit(a) \/ PrepareFails(a) \/ CommitFails(a) \/ Rollback(a) \/ TryFails(a)
              \/ ReleaseFails(a)

LEMMA ClosingLoses ==
    ASSUME NEW a \in Attempts, Closing(a)
    PROVE  Loses(conn[a]) /\ level' = level
  BY DEF Closing, Commit, PrepareFails, CommitFails, Rollback, TryFails, ReleaseFails, StatementFails, Loses

\* The statements that take no lock and lose none.
Passing(a) == Prepare(a) \/ SetRefused(a) \/ LockRefused(a) \/ Undo(a) \/ UndoFails(a)
              \/ Cancel(a) \/ CallFails(a) \/ DropHandle(a)

LEMMA PassingKeeps ==
    ASSUME NEW a \in Attempts, Passing(a)
    PROVE  level' = level /\ xlocks' = xlocks
  BY DEF Passing, Prepare, SetRefused, LockRefused, Undo, UndoFails, Cancel, CallFails, DropHandle, server

\* A session may only lose locks.
LEMMA FewerLocks ==
    ASSUME TypeOK, ServerExclusive,
           \A s \in Sessions, m \in Modes : Locked(s, m)' => Locked(s, m)
    PROVE  ServerExclusive'
  BY DEF ServerExclusive, Modes

\* A lock that is granted is compatible with all others.
LEMMA GrantCompatible ==
    ASSUME TypeOK, ServerExclusive, NEW a \in Attempts, conn[a] \in Sessions,
           CanLock(conn[a], Mode(a)), TakeLock(a)
    PROVE  ServerExclusive'
  <1> DEFINE c == conn[a]
  <1>1. ASSUME NEW s \in Sessions, NEW m \in Modes, Locked(s, m)'
        PROVE  Locked(s, m) \/ (s = c /\ m = Mode(a))
    BY <1>1 DEF TakeLock, Locked, TypeOK, Modes, Mode
  <1>2. \A s \in Sessions, m \in Modes :
            (s = c /\ m = Mode(a)) => \A other \in Sessions \ {s} :
                ~Locked(other, "exclusive") /\ (m = "exclusive" => ~Locked(other, "shared"))
    BY DEF CanLock
  <1>3. Mode(a) \in Modes
    BY DEF Mode, Modes
  <1> SUFFICES ASSUME NEW s \in Sessions, NEW t \in Sessions, NEW m \in Modes,
                      Locked(s, "exclusive")', Locked(t, m)', s # t
               PROVE  FALSE
    BY DEF ServerExclusive
  <1>4. "exclusive" \in Modes /\ m \in {"shared", "exclusive"}
    BY DEF Modes
  <1>5. Locked(s, "exclusive") \/ (s = c /\ Mode(a) = "exclusive")
    BY <1>1, <1>4
  <1>6. Locked(t, m) \/ (t = c /\ m = Mode(a))
    BY <1>1
  <1> HIDE DEF c
  <1>7. CASE Locked(s, "exclusive") /\ Locked(t, m)
    BY <1>7 DEF ServerExclusive
  <1>8. CASE s = c /\ Mode(a) = "exclusive" /\ Locked(t, m)
    BY <1>2, <1>3, <1>4, <1>8
  <1>9. CASE Locked(s, "exclusive") /\ t = c /\ m = Mode(a)
    BY <1>2, <1>3, <1>9
  <1> QED
    BY <1>5, <1>6, <1>7, <1>8, <1>9

-----------------------------------------------------------------------------
LEMMA TypeStep ==
    ASSUME TypeOK, OwnSession, NEW a \in Attempts, Step(a)
    PROVE  TypeOK'
  <1> USE PostgresAssumption DEF TypeOK, Busy, EndStates, Modes, Goto, Keep, On, server
  <1>0. pc[a] \in Busy => conn[a] \in Sessions
    BY DEF OwnSession, Working
  <1>m. Mode(a) \in Modes
    BY DEF Mode
  <1>t. TakeLock(a) /\ conn[a] \in Sessions
        => level' \in [Sessions -> [Modes -> Nat]] /\ xlocks' \in [Sessions -> SUBSET Modes]
    <2> SUFFICES ASSUME TakeLock(a), conn[a] \in Sessions
                 PROVE  level' \in [Sessions -> [Modes -> Nat]] /\ xlocks' \in [Sessions -> SUBSET Modes]
      OBVIOUS
    <2>1. CASE a \in Xact
      BY <1>m, <2>1 DEF TakeLock
    <2>2. CASE a \notin Xact
      <3>1. level[conn[a]] \in [Modes -> Nat] /\ level[conn[a]][Mode(a)] + 1 \in Nat
        BY <1>m
      <3>2. level' = [level EXCEPT ![conn[a]][Mode(a)] = @ + 1] /\ xlocks' = xlocks
        BY <2>2 DEF TakeLock
      <3> QED
        BY <1>m, <3>1, <3>2
    <2> QED
      BY <2>1, <2>2
  <1>f. \A state \in EndStates : End(a, state) /\ conn[a] \in Sessions
        => /\ pc' \in [Attempts -> {"idle"} \cup Busy \cup EndStates] /\ pool' \in SUBSET Sessions
           /\ live' \in [Sessions -> BOOLEAN] /\ conn' \in [Attempts -> Sessions \cup {None}]
    BY DEF End
  <1>1. CASE (\E s \in Sessions : Connect(a, s)) \/ ConnectFails(a)
    BY <1>1 DEF Connect, ConnectFails
  <1>2. CASE Prepare(a) \/ SetRefused(a) \/ LockRefused(a)
    BY <1>0, <1>2 DEF Prepare, SetRefused, LockRefused
  <1>3. CASE LockGranted(a)
    BY <1>0, <1>3, <1>t DEF LockGranted
  <1>4. CASE Closing(a)
    <2>1. conn[a] \in Sessions
      BY <1>0, <1>4 DEF Closing, Commit, PrepareFails, CommitFails, Rollback, TryFails, ReleaseFails
    <2>2. level' = level /\ tx' \in [Sessions -> {"none", "open", "aborted"}]
          /\ xlocks' \in [Sessions -> SUBSET Modes]
      BY <1>4, <2>1, ClosingLoses, LosesLocks
    <2>3. (Commit(a) /\ Goto(a, "held") /\ Keep) \/ \E state \in EndStates : End(a, state)
      BY <1>4 DEF Closing, Commit, PrepareFails, CommitFails, Rollback, TryFails, ReleaseFails
    <2> QED
      BY <2>1, <2>2, <2>3, <1>f
  <1>5. CASE Try(a)
    <2>1. conn[a] \in Sessions
      BY <1>0, <1>5 DEF Try
    <2>2. CASE CanLock(conn[a], Mode(a))
      BY <1>5, <2>1, <2>2, <1>t DEF Try
    <2>3. CASE ~CanLock(conn[a], Mode(a))
      BY <1>5, <2>1, <2>3, <1>f DEF Try
    <2> QED
      BY <2>2, <2>3
  <1>6. CASE Undo(a) \/ UndoFails(a) \/ CallFails(a)
    BY <1>0, <1>6, <1>f DEF Undo, UndoFails, CallFails
  <1>7. CASE Cancel(a)
    BY <1>0, <1>7, <1>f DEF Cancel
  <1>8. CASE ZombieGranted(a)
    BY <1>0, <1>8, <1>t, <1>f DEF ZombieGranted
  <1>9. CASE ZombieClosed(a)
    BY <1>0, <1>9, <1>f DEF ZombieClosed, Forget, EndTx, Unlocked
  <1>10. CASE Release(a)
    <2>1. conn[a] \in Sessions /\ End(a, "released")
      BY <1>0, <1>10 DEF Release
    <2>2. level' \in [Sessions -> [Modes -> Nat]]
      BY <1>10, <2>1, <1>m DEF Release
    <2>3. tx' \in [Sessions -> {"none", "open", "aborted"}] /\ xlocks' \in [Sessions -> SUBSET Modes]
      BY <1>10, <2>1 DEF Release, EndTx
    <2> QED
      BY <2>1, <2>2, <2>3, <1>f
  <1>11. CASE DropHandle(a)
    BY <1>0, <1>11, <1>f DEF DropHandle
  <1> QED
    BY <1>1, <1>2, <1>3, <1>4, <1>5, <1>6, <1>7, <1>8, <1>9, <1>10, <1>11, StepCases DEF Closing

\* A step of an attempt is about itself and its session.
LEMMA StepLocal ==
    ASSUME TypeOK, OwnSession, NEW a \in Attempts, Step(a)
    PROVE  /\ \A b \in Attempts \ {a} : pc'[b] = pc[b] /\ conn'[b] = conn[b]
           /\ \A s \in Sessions : pc[a] = "idle" \/ s # conn[a] => SameLocks(s) /\ live'[s] = live[s]
           /\ \/ /\ Working(a) /\ Working(a)' /\ UNCHANGED <<pool, live, conn>>
              \/ /\ Working(a) /\ ~Working(a)'
                 /\ pool' = pool \cup {conn[a]} /\ live' = [live EXCEPT ![conn[a]] = TRUE]
              \/ pc[a] = "idle" /\ Working(a)' /\ (\E s \in pool : Connect(a, s))
              \/ pc[a] = "idle" /\ ~Working(a)' /\ UNCHANGED <<pool, live, server, conn>>
  <1> USE DEF TypeOK, Busy, EndStates, Goto, Keep, On, server, SameLocks, Working
  <1>0. pc[a] \in Busy => conn[a] \in Sessions
    BY DEF OwnSession
  <1>t. TakeLock(a) /\ conn[a] \in Sessions
        => \A s \in Sessions : s # conn[a] => level'[s] = level[s] /\ xlocks'[s] = xlocks[s]
    BY DEF TakeLock
  <1>e. conn[a] \in Sessions /\ EndTx(conn[a])
        => \A s \in Sessions : s # conn[a] => tx'[s] = tx[s] /\ xlocks'[s] = xlocks[s]
    BY DEF EndTx
  <1>1. CASE \E s \in Sessions : Connect(a, s)
    BY <1>1 DEF Connect
  <1>2. CASE ConnectFails(a)
    BY <1>2 DEF ConnectFails
  <1>3. CASE Prepare(a) \/ SetRefused(a) \/ LockRefused(a)
    BY <1>0, <1>3 DEF Prepare, SetRefused, LockRefused
  <1>4. CASE Closing(a)
    <2>1. conn[a] \in Sessions /\ Working(a)
      BY <1>0, <1>4 DEF Closing, Commit, PrepareFails, CommitFails, Rollback, TryFails, ReleaseFails
    <2>2. level' = level /\ \A t \in Sessions \ {conn[a]} : tx'[t] = tx[t] /\ xlocks'[t] = xlocks[t]
      BY <1>4, <2>1, ClosingLoses, LosesLocks
    <2>3. (Commit(a) /\ Goto(a, "held") /\ Keep) \/ \E state \in EndStates : End(a, state)
      BY <1>4 DEF Closing, Commit, PrepareFails, CommitFails, Rollback, TryFails, ReleaseFails
    <2> QED
      BY <2>1, <2>2, <2>3 DEF End
  <1>5. CASE LockGranted(a)
    BY <1>0, <1>5, <1>t DEF LockGranted
  <1>6. CASE Undo(a) \/ UndoFails(a)
    BY <1>0, <1>6 DEF Undo, UndoFails, End
  <1>8. CASE Try(a)
    <2>1. conn[a] \in Sessions
      BY <1>0, <1>8 DEF Try
    <2>2. CASE CanLock(conn[a], Mode(a))
      BY <1>8, <2>1, <2>2, <1>t DEF Try
    <2>3. CASE ~CanLock(conn[a], Mode(a))
      BY <1>8, <2>1, <2>3 DEF Try, End
    <2> QED
      BY <2>2, <2>3
  <1>10. CASE CallFails(a)
    BY <1>0, <1>10 DEF CallFails, End
  <1>11. CASE Cancel(a)
    BY <1>0, <1>11 DEF Cancel, End
  <1>12. CASE ZombieGranted(a)
    BY <1>0, <1>12, <1>t DEF ZombieGranted, End
  <1>13. CASE ZombieClosed(a)
    BY <1>0, <1>13, <1>e DEF ZombieClosed, Forget, End
  <1>14. CASE Release(a)
    BY <1>0, <1>14, <1>e DEF Release, End
  <1>15. CASE DropHandle(a)
    BY <1>0, <1>15 DEF DropHandle, End
  <1> QED
    BY <1>1, <1>2, <1>3, <1>4, <1>5, <1>6, <1>8, <1>10, <1>11, <1>12, <1>13,
       <1>14, <1>15, StepCases DEF Closing

\* Only a session that is given back gets into the pool, and only one of the
\* pool is handed out.
LEMMA OwnSessionStep ==
    ASSUME TypeOK, OwnSession, NEW a \in Attempts, Step(a)
    PROVE  OwnSession'
  <1>1. \A b \in Attempts \ {a} : Working(b)' = Working(b) /\ conn'[b] = conn[b]
    BY StepLocal DEF Working
  <1>2. CASE Working(a) /\ Working(a)' /\ UNCHANGED <<pool, live, conn>>
    BY <1>1, <1>2 DEF OwnSession
  <1>3. CASE Working(a) /\ ~Working(a)' /\ pool' = pool \cup {conn[a]}
    BY <1>1, <1>3 DEF OwnSession
  <1>4. ASSUME NEW s \in pool, Connect(a, s), pc[a] = "idle"
        PROVE  OwnSession'
    <2>1. conn'[a] = s /\ pool' = pool \ {s} /\ s \in Sessions
      BY <1>4 DEF Connect, TypeOK
    <2>2. \A b \in Attempts \ {a} : Working(b) => conn[b] # s
      BY <1>4 DEF OwnSession
    <2> QED
      BY <1>1, <2>1, <2>2 DEF OwnSession
  <1>5. CASE ~Working(a)' /\ UNCHANGED pool
    BY <1>1, <1>5 DEF OwnSession
  <1> QED
    BY <1>2, <1>3, <1>4, <1>5, StepLocal

\* Who ends gives its session back.
LEMMA NoSessionLostStep ==
    ASSUME TypeOK, OwnSession, NoSessionLost, NEW a \in Attempts, Step(a)
    PROVE  NoSessionLost'
  <1> SUFFICES ASSUME NEW s \in Sessions \ pool'
               PROVE  \E b \in Attempts : Working(b)' /\ conn'[b] = s
    BY DEF NoSessionLost
  <1>1. \A b \in Attempts \ {a} : Working(b)' = Working(b) /\ conn'[b] = conn[b]
    BY StepLocal DEF Working
  <1>2. CASE s \notin pool
    <2>1. PICK b \in Attempts : Working(b) /\ conn[b] = s
      BY <1>2 DEF NoSessionLost
    <2>2. CASE b # a
      BY <1>1, <2>1, <2>2
    <2>3. CASE b = a
      BY <2>1, <2>3, StepLocal DEF Working, Busy
    <2> QED
      BY <2>2, <2>3
  <1>3. CASE s \in pool
    <2>1. PICK t \in pool : Connect(a, t)
      BY <1>3, StepLocal
    <2>2. s = t /\ conn'[a] = t /\ pc'[a] \in {"try", "prepare"}
      BY <1>3, <2>1 DEF Connect, Goto, TypeOK
    <2> QED
      BY <2>2 DEF Working, Busy
  <1> QED
    BY <1>2, <1>3

\* The session of another handle is left alone.
LEMMA OthersKeep ==
    ASSUME TypeOK, OwnSession, NEW a \in Attempts, Step(a), NEW b \in Attempts \ {a}, Working(b)
    PROVE  /\ pc'[b] = pc[b] /\ conn'[b] = conn[b] /\ conn[b] \in Sessions
           /\ SameLocks(conn[b]) /\ live'[conn[b]] = live[conn[b]]
  <1>1. Working(a) \/ pc[a] = "idle"
    BY StepLocal
  <1>2. conn[b] \in Sessions /\ (Working(a) => conn[b] # conn[a])
    BY DEF OwnSession
  <1> QED
    BY <1>1, <1>2, StepLocal

LEMMA ServerStep ==
    ASSUME PostgresInvariant, NEW a \in Attempts, Step(a)
    PROVE  ServerExclusive'
  <1> USE DEF PostgresInvariant, On, server
  <1>0. pc[a] \in Busy => conn[a] \in Sessions
    BY DEF OwnSession, Working
  <1>1. CASE conn[a] \in Sessions /\ CanLock(conn[a], Mode(a)) /\ TakeLock(a)
    BY <1>1, GrantCompatible
  <1>2. CASE level' = level /\ xlocks' = xlocks
    BY <1>2, FewerLocks DEF Locked
  <1>3. CASE conn[a] \in Sessions /\ EndTx(conn[a]) /\ level' = level
    BY <1>3, FewerLocks DEF Locked, EndTx, TypeOK
  <1>4. CASE ZombieClosed(a)
    <2>1. conn[a] \in Sessions /\ Forget(conn[a])
      BY <1>0, <1>4 DEF ZombieClosed, Busy
    <2>2. \A s \in Sessions, m \in Modes : Locked(s, m)' => Locked(s, m)
      BY <2>1 DEF Forget, EndTx, Locked, Unlocked, TypeOK
    <2> QED
      BY <2>2, FewerLocks
  <1>5. CASE Release(a)
    <2>1. conn[a] \in Sessions
      BY <1>0, <1>5 DEF Release, Busy
    <2>2. CASE a \in Xact
      BY <1>5, <2>1, <2>2, <1>3 DEF Release
    <2>3. CASE a \notin Xact
      <3>1. Mode(a) \in Modes /\ xlocks' = xlocks
        BY <1>5, <2>3 DEF Release, Mode, Modes
      <3>2. level' = [level EXCEPT ![conn[a]][Mode(a)] = IF @ > 0 THEN @ - 1 ELSE 0]
        BY <1>5, <2>3 DEF Release
      <3>3. \A s \in Sessions, m \in Modes : level'[s][m] > 0 => level[s][m] > 0
        BY <2>1, <3>1, <3>2 DEF TypeOK
      <3> QED
        BY <3>1, <3>3, FewerLocks DEF Locked
    <2> QED
      BY <2>2, <2>3
  <1>6. CASE LockGranted(a) \/ ZombieGranted(a)
    BY <1>0, <1>1, <1>6 DEF LockGranted, ZombieGranted, Busy
  <1>7. CASE Closing(a)
    <2>1. conn[a] \in Sessions
      BY <1>0, <1>7 DEF Closing, Commit, PrepareFails, CommitFails, Rollback, TryFails, ReleaseFails, Busy
    <2>2. level' = level /\ \A t \in Sessions : xlocks'[t] \subseteq xlocks[t]
      BY <1>7, <2>1, ClosingLoses, LosesLocks
    <2> QED
      BY <2>2, FewerLocks DEF Locked
  <1>8. CASE Passing(a)
    BY <1>2, <1>8, PassingKeeps
  <1>9. CASE Try(a)
    BY <1>0, <1>1, <1>2, <1>9 DEF Try, Busy
  <1>11. CASE (\E s \in Sessions : Connect(a, s)) \/ ConnectFails(a)
    BY <1>2, <1>11 DEF Connect, ConnectFails
  <1> QED
    BY <1>4, <1>5, <1>6, <1>7, <1>8, <1>9, <1>11, StepCases DEF Closing, Passing

\* A handle gets its lock in the step that makes it one, and COMMIT ends the
\* transactions of session locks only.
LEMMA HandleStep ==
    ASSUME PostgresInvariant, NEW a \in Attempts, Step(a)
    PROVE  HandleHasLock'
  <1> USE DEF PostgresInvariant
  <1> SUFFICES ASSUME NEW b \in Attempts, pc'[b] \in {"commit", "held"}, live'[conn'[b]]
               PROVE  IF b \in Xact THEN Mode(b) \in xlocks'[conn'[b]]
                                    ELSE level'[conn'[b]][Mode(b)] > 0
    BY DEF HandleHasLock, HasLock
  <1>1. CASE b # a
    <2>1. pc[b] \in {"commit", "held"} /\ Working(b)
      BY <1>1, StepLocal DEF Working, Busy
    <2> QED
      BY <1>1, <2>1, OthersKeep DEF HandleHasLock, HasLock, SameLocks
  <1>2. CASE b = a
    <2> USE DEF Goto, Keep, On, TypeOK, Busy, EndStates
    <2>0. pc[a] \in Busy => conn[a] \in Sessions
      BY DEF OwnSession, Working
    <2>m. Mode(a) \in Modes
      BY DEF Mode, Modes
    <2>t. ASSUME TakeLock(a), conn[a] \in Sessions
          PROVE  IF a \in Xact THEN Mode(a) \in xlocks'[conn[a]] ELSE level'[conn[a]][Mode(a)] > 0
      <3>1. CASE a \in Xact
        BY <2>t, <3>1 DEF TakeLock
      <3>2. CASE a \notin Xact
        <4>1. level[conn[a]] \in [Modes -> Nat] /\ level[conn[a]][Mode(a)] \in Nat
          BY <2>t, <2>m
        <4>2. level' = [level EXCEPT ![conn[a]][Mode(a)] = @ + 1]
          BY <2>t, <3>2 DEF TakeLock
        <4>3. level'[conn[a]][Mode(a)] = level[conn[a]][Mode(a)] + 1
          BY <2>t, <2>m, <4>1, <4>2
        <4> QED
          BY <3>2, <4>1, <4>3
      <3> QED
        BY <3>1, <3>2
    <2>1. CASE LockGranted(a)
      BY <1>2, <2>0, <2>1, <2>t DEF LockGranted
    <2>2. CASE Try(a)
      <3>1. CanLock(conn[a], Mode(a))
        BY <1>2, <2>2 DEF Try, End
      <3> QED
        BY <1>2, <2>0, <2>2, <2>t, <3>1 DEF Try
    <2>3. CASE Commit(a)
      <3>1. a \notin Xact /\ pc[a] = "commit" /\ live[conn[a]]
        BY <2>3 DEF Commit, CommitsSessionLocks
      <3>2. conn' = conn /\ level' = level
        BY <2>3 DEF Commit
      <3> QED
        BY <1>2, <3>1, <3>2 DEF HandleHasLock, HasLock
    <2>4. CASE (\E s \in Sessions : Connect(a, s)) \/ ConnectFails(a) \/ Prepare(a)
      BY <1>2, <2>4 DEF Connect, ConnectFails, Prepare
    <2>5. CASE PrepareFails(a) \/ CommitFails(a) \/ Rollback(a) \/ TryFails(a) \/ ReleaseFails(a)
      BY <1>2, <2>5 DEF PrepareFails, CommitFails, Rollback, TryFails, ReleaseFails, End
    <2>6. CASE SetRefused(a) \/ LockRefused(a) \/ Undo(a) \/ UndoFails(a) \/ CallFails(a) \/ Cancel(a)
      BY <1>2, <2>6 DEF SetRefused, LockRefused, Undo, UndoFails, CallFails, Cancel, End
    <2>7. CASE ZombieGranted(a) \/ ZombieClosed(a) \/ Release(a) \/ DropHandle(a)
      BY <1>2, <2>7 DEF ZombieGranted, ZombieClosed, Release, DropHandle, End
    <2> QED
      BY <2>1, <2>2, <2>3, <2>4, <2>5, <2>6, <2>7, StepCases
  <1> QED
    BY <1>1, <1>2

LEMMA LocksInTxStep ==
    ASSUME PostgresInvariant, NEW a \in Attempts, Step(a)
    PROVE  LocksInTx'
  <1> USE DEF PostgresInvariant, On, server, TypeOK, Busy
  <1>0. pc[a] \in Busy => conn[a] \in Sessions
    BY DEF OwnSession, Working
  <1>1. CASE conn[a] \in Sessions /\ EndTx(conn[a])
    BY <1>1 DEF LocksInTx, EndTx
  <1>2. CASE xlocks' = xlocks /\ \A s \in Sessions : tx[s] # "none" => tx'[s] # "none"
    BY <1>2 DEF LocksInTx
  <1>3. CASE LockGranted(a) \/ ZombieGranted(a)
    <2>1. conn[a] \in Sessions /\ TakeLock(a) /\ tx' = tx /\ tx[conn[a]] # "none"
      BY <1>0, <1>3 DEF LockGranted, ZombieGranted, LocksInTx, WaitsInTx
    <2> QED
      BY <2>1 DEF TakeLock, LocksInTx
  <1>4. CASE Try(a) /\ CanLock(conn[a], Mode(a))
    BY <1>0, <1>4 DEF Try, TakeLock, LocksInTx
  <1>5. CASE Try(a) /\ ~CanLock(conn[a], Mode(a))
    BY <1>0, <1>2, <1>5 DEF Try
  <1>6. CASE Closing(a)
    <2>1. conn[a] \in Sessions
      BY <1>0, <1>6 DEF Closing, Commit, PrepareFails, CommitFails, Rollback, TryFails, ReleaseFails
    <2> QED
      BY <1>6, <2>1, ClosingLoses, LosesLocks
  <1>7. CASE Release(a) \/ ZombieClosed(a)
    BY <1>0, <1>1, <1>2, <1>7 DEF Release, ZombieClosed, Forget
  <1>8. CASE (\E s \in Sessions : Connect(a, s)) \/ ConnectFails(a)
    BY <1>0, <1>2, <1>8 DEF Connect, ConnectFails
  <1>9. CASE Passing(a)
    <2>1. xlocks' = xlocks
      BY <1>9, PassingKeeps
    <2>2. \A s \in Sessions : tx[s] # "none" => tx'[s] # "none"
      BY <1>0, <1>9 DEF Passing, Prepare, SetRefused, LockRefused, Undo, UndoFails, Cancel,
                       CallFails, DropHandle
    <2> QED
      BY <1>2, <2>1, <2>2
  <1> QED
    BY <1>3, <1>4, <1>5, <1>6, <1>7, <1>8, <1>9, StepCases DEF Closing, Passing

\* What waits in the pool is connected.
LEMMA PoolStep ==
    ASSUME PostgresInvariant, NEW a \in Attempts, Step(a)
    PROVE  \A s \in pool' : live'[s]
  <1> USE DEF PostgresInvariant, TypeOK
  <1>1. Working(a) => conn[a] \in Sessions
    BY DEF OwnSession
  <1>2. ASSUME NEW s \in pool, Connect(a, s)
        PROVE  \A t \in pool' : live'[t]
    BY <1>2 DEF Connect
  <1> QED
    BY <1>1, <1>2, StepLocal

-----------------------------------------------------------------------------
\* A connection that breaks takes the locks of its session with it.
LEMMA BreakStep ==
    ASSUME PostgresInvariant, NEW s \in Sessions, Break(s)
    PROVE  PostgresInvariant'
  <1> USE DEF PostgresInvariant, Break, Forget, EndTx, TypeOK, Unlocked
  <1>1. TypeOK'
    BY DEF Modes
  <1>2. OwnSession' /\ NoSessionLost'
    BY DEF OwnSession, NoSessionLost, Working
  <1>3. ServerExclusive'
    <2>1. \A t \in Sessions, m \in Modes : Locked(t, m)' => Locked(t, m)
      BY DEF Locked
    <2> QED
      BY <2>1, FewerLocks
  <1>4. HandleHasLock'
    <2> SUFFICES ASSUME NEW a \in Attempts, pc[a] \in {"commit", "held"}, live'[conn[a]]
                 PROVE  IF a \in Xact THEN Mode(a) \in xlocks'[conn[a]]
                                      ELSE level'[conn[a]][Mode(a)] > 0
      BY DEF HandleHasLock, HasLock
    <2>1. conn[a] \in Sessions \ pool
      BY DEF OwnSession, Working, Busy
    <2>2. conn[a] # s
      BY <2>1
    <2> QED
      BY <2>1, <2>2 DEF HandleHasLock, HasLock
  <1>5. LocksInTx' /\ \A t \in pool' : live'[t]
    BY DEF LocksInTx
  <1>6. CommitsSessionLocks' /\ WaitsInTx'
    <2>1. \A a \in Attempts : pc[a] \in {"wait", "zombie"} => conn[a] \in Sessions \ pool
      BY DEF OwnSession, Working, Busy
    <2> QED
      BY <2>1 DEF CommitsSessionLocks, WaitsInTx
  <1> QED
    BY <1>1, <1>2, <1>3, <1>4, <1>5, <1>6

LEMMA CallStatesStep ==
    ASSUME PostgresInvariant, NEW a \in Attempts, Step(a)
    PROVE  CommitsSessionLocks' /\ WaitsInTx'
  <1> USE DEF PostgresInvariant
  <1> SUFFICES ASSUME NEW b \in Attempts
               PROVE  /\ pc'[b] = "commit" => b \notin Xact
                      /\ pc'[b] \in {"wait", "zombie"} /\ live'[conn'[b]] => tx'[conn'[b]] # "none"
    BY DEF CommitsSessionLocks, WaitsInTx
  <1>1. CASE b # a
    <2>1. CASE Working(b)
      BY <1>1, <2>1, OthersKeep DEF CommitsSessionLocks, WaitsInTx, SameLocks
    <2>2. CASE ~Working(b)
      BY <1>1, <2>2, StepLocal DEF Working, Busy
    <2> QED
      BY <2>1, <2>2
  <1>2. CASE b = a
    <2> USE DEF Goto, Keep, On, TypeOK, Busy, EndStates, server
    <2>0. pc[a] \in Busy => conn[a] \in Sessions
      BY DEF OwnSession, Working
    <2>1. CASE (\E s \in Sessions : Connect(a, s)) \/ ConnectFails(a) \/ Prepare(a)
      BY <1>2, <2>0, <2>1 DEF Connect, ConnectFails, Prepare
    <2>2. CASE LockGranted(a) \/ Commit(a)
      BY <1>2, <2>0, <2>2 DEF LockGranted, Commit
    <2>3. CASE Try(a)
      BY <1>2, <2>0, <2>3 DEF Try, End
    <2>4. CASE PrepareFails(a) \/ CommitFails(a) \/ Rollback(a) \/ TryFails(a) \/ ReleaseFails(a)
      BY <1>2, <2>0, <2>4 DEF PrepareFails, CommitFails, Rollback, TryFails, ReleaseFails, End
    <2>5. CASE Cancel(a)
      <3>1. CASE pc[a] = "wait"
        BY <1>2, <2>0, <2>5, <3>1 DEF Cancel, WaitsInTx
      <3>2. CASE pc[a] # "wait"
        BY <1>2, <2>0, <2>5, <3>2 DEF Cancel, End
      <3> QED
        BY <3>1, <3>2
    <2>6. CASE SetRefused(a) \/ LockRefused(a) \/ Undo(a) \/ UndoFails(a) \/ CallFails(a)
      BY <1>2, <2>0, <2>6 DEF SetRefused, LockRefused, Undo, UndoFails, CallFails, End
    <2>7. CASE ZombieGranted(a) \/ ZombieClosed(a) \/ Release(a) \/ DropHandle(a)
      BY <1>2, <2>0, <2>7 DEF ZombieGranted, ZombieClosed, Release, DropHandle, End
    <2> QED
      BY <2>1, <2>2, <2>3, <2>4, <2>5, <2>6, <2>7, StepCases
  <1> QED
    BY <1>1, <1>2

LEMMA NextInv == PostgresInvariant /\ [Next]_vars => PostgresInvariant'
  <1> SUFFICES ASSUME PostgresInvariant, [Next]_vars PROVE PostgresInvariant'
    OBVIOUS
  <1>1. ASSUME NEW a \in Attempts, Step(a)
        PROVE  PostgresInvariant'
    BY <1>1, TypeStep, OwnSessionStep, NoSessionLostStep, ServerStep, HandleStep, LocksInTxStep, PoolStep,
       CallStatesStep DEF PostgresInvariant
  <1>2. CASE UNCHANGED vars
    BY <1>2 DEF PostgresInvariant, TypeOK, OwnSession, NoSessionLost, ServerExclusive, HandleHasLock, HasLock,
                LocksInTx, CommitsSessionLocks, WaitsInTx, Working, Locked, vars, server
  <1> QED
    BY <1>1, <1>2, BreakStep, NextIsStep

\* An open handle has its lock while its connection is up.
THEOREM PostgresInvariantCorrect == Spec => []PostgresInvariant
  BY InitInv, NextInv, PTL DEF Spec

LEMMA InvariantExcludes == PostgresInvariant => ExclusiveWhileConnected
  <1> SUFFICES ASSUME PostgresInvariant, NEW a \in Attempts, NEW b \in Attempts,
                      pc[a] = "held", live[conn[a]], a \notin Shared,
                      pc[b] = "held", live[conn[b]]
               PROVE  a = b
    BY DEF ExclusiveWhileConnected
  <1>1. Locked(conn[a], "exclusive") /\ Locked(conn[b], Mode(b)) /\ Mode(b) \in Modes
    BY DEF PostgresInvariant, HandleHasLock, HasLock, Locked, Mode, Modes
  <1>2. Working(a) /\ Working(b)
    BY DEF Working, Busy
  <1>3. conn[a] = conn[b]
    BY <1>1, <1>2 DEF PostgresInvariant, ServerExclusive, OwnSession
  <1> QED
    BY <1>2, <1>3 DEF PostgresInvariant, OwnSession

\* A writer whose connection is up is alone among the handles whose connection
\* is.
THEOREM ExclusiveWhileConnectedCorrect == Spec => []ExclusiveWhileConnected
  BY InvariantExcludes, PostgresInvariantCorrect, PTL

-----------------------------------------------------------------------------
\* Who aborted the transaction of a session.
Blame == {"undo", "rollback", "failed", "uncommitted", "unreleased", "cancelled"}

LEMMA AbortedStep ==
    ASSUME PostgresInvariant, AbortedAccountedFor, NEW a \in Attempts, Step(a)
    PROVE  AbortedAccountedFor'
  <1> SUFFICES ASSUME NEW s \in Sessions, tx'[s] = "aborted"
               PROVE  \E b \in Attempts : conn'[b] = s /\ pc'[b] \in Blame
    BY DEF AbortedAccountedFor, Blame
  <1> USE DEF PostgresInvariant, TypeOK, Goto, Blame
  <1>0. pc[a] \in Busy => conn[a] \in Sessions
    BY DEF OwnSession, Working
  <1>1. ASSUME tx[s] = "aborted", pc[a] = "idle" \/ s # conn[a]
        PROVE  \E b \in Attempts : conn'[b] = s /\ pc'[b] \in Blame
    <2>1. PICK b \in Attempts : conn[b] = s /\ pc[b] \in Blame
      BY <1>1 DEF AbortedAccountedFor
    <2> QED
      BY <1>1, <2>1, StepLocal
  <1>2. ASSUME tx[s] = "aborted", NEW b \in Attempts \ {a}, conn[b] = s, pc[b] \in Blame
        PROVE  \E d \in Attempts : conn'[d] = s /\ pc'[d] \in Blame
    BY <1>2, StepLocal
  <1>3. CASE tx[s] # "aborted" /\ (pc[a] = "idle" \/ s # conn[a])
    BY <1>3, StepLocal DEF SameLocks
  <1>4. CASE pc[a] # "idle" /\ s = conn[a] /\ (tx[s] = "aborted" => pc[a] \in Blame)
    <2> USE <1>4 DEF On, Keep, server, Busy
    <2>1. CASE Prepare(a) \/ LockGranted(a) \/ Commit(a)
      BY <1>0, <2>1 DEF Prepare, LockGranted, Commit, EndTx
    <2>2. CASE SetRefused(a) \/ LockRefused(a)
      BY <1>0, <2>2 DEF SetRefused, LockRefused
    <2>3. CASE Undo(a) \/ UndoFails(a)
      BY <1>0, <2>3 DEF Undo, UndoFails, End
    <2>4. CASE Rollback(a)
      BY <1>0, <2>4 DEF Rollback, EndTx, End
    <2>5. CASE PrepareFails(a) \/ CommitFails(a) \/ TryFails(a)
      BY <1>0, <2>5 DEF PrepareFails, CommitFails, TryFails, End
    <2>6. CASE Try(a)
      BY <1>0, <2>6 DEF Try
    <2>7. CASE CallFails(a)
      BY <1>0, <2>7 DEF CallFails, End
    <2>8. CASE Cancel(a)
      BY <1>0, <2>8 DEF Cancel, End
    <2>9. CASE ZombieGranted(a) \/ ZombieClosed(a)
      BY <1>0, <2>9 DEF ZombieGranted, ZombieClosed, End
    <2>10. CASE Release(a) \/ DropHandle(a)
      BY <1>0, <2>10 DEF Release, DropHandle, EndTx
    <2>11. CASE ReleaseFails(a)
      BY <1>0, <2>11 DEF ReleaseFails, End
    <2>12. ~(\E t \in Sessions : Connect(a, t)) /\ ~ConnectFails(a)
      BY DEF Connect, ConnectFails
    <2> QED
      BY <2>1, <2>2, <2>3, <2>4, <2>5, <2>6, <2>7, <2>8, <2>9, <2>10, <2>11, <2>12, StepCases
  <1> QED
    BY <1>1, <1>2, <1>3, <1>4 DEF AbortedAccountedFor

\* An aborted transaction, which refuses every later statement of a session, is one
\* that a call is undoing, or that a failed statement or a cancelled call left: no
\* timeout, refusal or release that worked leaves one.
THEOREM AbortedAccountedForCorrect == Spec => []AbortedAccountedFor
  <1>1. Init => AbortedAccountedFor
    BY DEF Init, AbortedAccountedFor
  <1>2. PostgresInvariant /\ AbortedAccountedFor /\ [Next]_vars => AbortedAccountedFor'
    <2> SUFFICES ASSUME PostgresInvariant, AbortedAccountedFor, [Next]_vars
                 PROVE  AbortedAccountedFor'
      OBVIOUS
    <2>1. ASSUME NEW s \in Sessions, Break(s)
          PROVE  AbortedAccountedFor'
      BY <2>1 DEF Break, Forget, EndTx, AbortedAccountedFor, PostgresInvariant, TypeOK
    <2>2. CASE UNCHANGED vars
      BY <2>2 DEF vars, server, AbortedAccountedFor
    <2> QED
      BY <2>1, <2>2, AbortedStep, NextIsStep
  <1> QED
    BY <1>1, <1>2, PostgresInvariantCorrect, PTL DEF Spec

-----------------------------------------------------------------------------
(* What is left on a session                                               *)

\* The server has forgotten the session of a dead connection.
DeadForgotten == \A s \in Sessions : ~live[s] => level[s] = Unlocked /\ xlocks[s] = {}

\* a is one of the owners of what the session holds in that mode.
Owns(a, s, m) ==
    /\ conn[a] = s /\ Mode(a) = m
    /\ pc[a] \in {"commit", "held", "dropped", "cancelled", "uncommitted", "unreleased"}

LEMMA DeadForgottenStep ==
    ASSUME PostgresInvariant, DeadForgotten, NEW a \in Attempts, Step(a)
    PROVE  DeadForgotten'
  <1> SUFFICES ASSUME NEW s \in Sessions, ~live'[s]
               PROVE  level'[s] = Unlocked /\ xlocks'[s] = {}
    BY DEF DeadForgotten
  <1> USE DEF PostgresInvariant, TypeOK
  <1>0. pc[a] \in Busy => conn[a] \in Sessions
    BY DEF OwnSession, Working
  <1>1. CASE pc[a] = "idle" \/ s # conn[a]
    <2>1. SameLocks(s) /\ live'[s] = live[s]
      BY <1>1, StepLocal
    <2> QED
      BY <2>1 DEF DeadForgotten, SameLocks
  <1>2. CASE pc[a] # "idle" /\ s = conn[a]
    <2>1. UNCHANGED live /\ pc[a] \in Busy /\ ~live[conn[a]]
      <3>1. Working(a) /\ (UNCHANGED live \/ live' = [live EXCEPT ![conn[a]] = TRUE])
        BY <1>2, StepLocal
      <3> QED
        BY <1>2, <3>1, <1>0 DEF Working
    <2>2. ~(\E t \in Sessions : Connect(a, t)) /\ ~ConnectFails(a)
      BY <1>2 DEF Connect, ConnectFails
    <2>3. ~Prepare(a) /\ ~SetRefused(a) /\ ~LockRefused(a) /\ ~LockGranted(a) /\ ~Closing(a)
      BY <2>1 DEF Prepare, SetRefused, LockRefused, LockGranted, Closing, Commit, PrepareFails, CommitFails,
                  Rollback, TryFails, ReleaseFails, On
    <2>4. ~Try(a) /\ ~Cancel(a) /\ ~ZombieGranted(a) /\ ~ZombieClosed(a) /\ ~Undo(a) /\ ~UndoFails(a)
      BY <2>1 DEF Try, Cancel, ZombieGranted, ZombieClosed, Undo, UndoFails, On
    <2>5. ~CallFails(a) /\ ~Release(a) /\ ~DropHandle(a)
      BY <1>2, <1>0, <2>1 DEF CallFails, Release, DropHandle, End
    <2> QED
      BY <2>2, <2>3, <2>4, <2>5, StepCases DEF Closing
  <1> QED
    BY <1>1, <1>2

\* A lock more is one of an owner more; an owner who leaves takes a lock away, or
\* leaves a dead session.
LEMMA OwnerStep ==
    ASSUME PostgresInvariant, DeadForgotten, NEW a \in Attempts, Step(a),
           NEW s \in Sessions, NEW m \in Modes
    PROVE  /\ \/ level'[s][m] = 0
              \/ level'[s][m] = level[s][m] /\ (a \notin Xact /\ Owns(a, s, m) => Owns(a, s, m)')
              \/ level'[s][m] = level[s][m] - 1
              \/ /\ level'[s][m] = level[s][m] + 1
                 /\ a \notin Xact /\ ~Owns(a, s, m) /\ Owns(a, s, m)'
           /\ m \in xlocks'[s] =>
                \/ m \in xlocks[s] /\ (a \in Xact /\ Owns(a, s, m) => Owns(a, s, m)')
                \/ a \in Xact /\ Owns(a, s, m)'
  <1> USE DEF PostgresInvariant, TypeOK
  <1>0. pc[a] \in Busy => conn[a] \in Sessions
    BY DEF OwnSession, Working
  <1>m. Mode(a) \in Modes
    BY DEF Mode, Modes
  <1>1. CASE pc[a] = "idle" \/ s # conn[a]
    <2>1. SameLocks(s) /\ ~Owns(a, s, m)
      BY <1>1, StepLocal DEF Owns
    <2> QED
      BY <2>1 DEF SameLocks
  <1>2. CASE pc[a] # "idle" /\ s = conn[a]
    <2> USE <1>2 DEF Goto, Keep, On, Owns, server, Busy
    <2>2. CASE LockGranted(a)
      BY <1>0, <1>m, <2>2 DEF LockGranted, TakeLock
    <2>3. CASE Closing(a)
      <3>1. conn[a] \in Sessions
        BY <1>0, <2>3 DEF Closing, Commit, PrepareFails, CommitFails, Rollback, TryFails, ReleaseFails
      <3>2. level' = level /\ xlocks'[s] \subseteq xlocks[s]
        BY <2>3, <3>1, ClosingLoses, LosesLocks
      <3>3. Owns(a, s, m) => Owns(a, s, m)'
        BY <1>0, <2>3 DEF Closing, Commit, PrepareFails, CommitFails, Rollback, TryFails, ReleaseFails, End
      <3> QED
        BY <3>2, <3>3
    <2>4. CASE Passing(a)
      <3>1. level' = level /\ xlocks' = xlocks
        BY <2>4, PassingKeeps
      <3>2. CASE ~CallFails(a) /\ ~Cancel(a) /\ ~DropHandle(a)
        BY <1>0, <2>4, <3>1, <3>2 DEF Passing, Prepare, SetRefused, LockRefused, Undo, UndoFails
      <3>3. CASE CallFails(a)
        BY <1>0, <3>3 DEF CallFails, DeadForgotten, Unlocked
      <3>4. CASE Cancel(a) \/ DropHandle(a)
        BY <1>0, <3>1, <3>4 DEF Cancel, DropHandle, End
      <3> QED
        BY <3>2, <3>3, <3>4
    <2>5. CASE Try(a) /\ CanLock(conn[a], Mode(a))
      BY <1>0, <1>m, <2>5 DEF Try, TakeLock
    <2>6. CASE Try(a) /\ ~CanLock(conn[a], Mode(a))
      BY <1>0, <2>6 DEF Try
    <2>10. CASE ZombieGranted(a)
      BY <1>0, <1>m, <2>10 DEF ZombieGranted, TakeLock, End
    <2>11. CASE ZombieClosed(a)
      BY <1>0, <2>11 DEF ZombieClosed, Forget, EndTx, Unlocked
    <2>12. CASE Release(a)
      BY <1>0, <1>m, <2>12 DEF Release, EndTx
    <2>14. ~(\E t \in Sessions : Connect(a, t)) /\ ~ConnectFails(a)
      BY DEF Connect, ConnectFails
    <2> QED
      BY <2>2, <2>3, <2>4, <2>5, <2>6, <2>10, <2>11, <2>12, <2>14, StepCases DEF Closing, Passing
  <1> QED
    BY <1>1, <1>2

\* A set that differs in one element has one element less, at most.
LEMMA OneElement ==
    ASSUME NEW X, NEW Y, NEW a, X \ {a} = Y \ {a}, IsFiniteSet(X)
    PROVE  /\ IsFiniteSet(Y) /\ Cardinality(X) \in Nat /\ Cardinality(Y) \in Nat
           /\ Cardinality(X) <= Cardinality(Y) + 1
           /\ (a \in X => a \in Y) => Cardinality(X) <= Cardinality(Y)
           /\ a \notin X /\ a \in Y => Cardinality(Y) = Cardinality(X) + 1
  <1> DEFINE Z == X \ {a}
  <1>1. IsFiniteSet(Z) /\ Cardinality(Z) \in Nat
    BY FS_RemoveElement, FS_CardinalityType
  <1>2. X = Z \/ (X = Z \cup {a} /\ a \notin Z)
    OBVIOUS
  <1>3. Y = Z \/ (Y = Z \cup {a} /\ a \notin Z)
    OBVIOUS
  <1>4. a \notin Z => IsFiniteSet(Z \cup {a}) /\ Cardinality(Z \cup {a}) = Cardinality(Z) + 1
    BY <1>1, FS_AddElement
  <1>5. (a \in X <=> X # Z) /\ (a \in Y <=> Y # Z)
    OBVIOUS
  <1> HIDE DEF Z
  <1> QED
    BY <1>1, <1>2, <1>3, <1>4, <1>5

\* The owners of a lock are finitely many (none at first, and a step adds one at
\* most), and at least as many as its count.
Accounted ==
    \A s \in Sessions, m \in Modes :
        /\ IsFiniteSet(Owners(s, m, Attempts \ Xact))
        /\ level[s][m] <= Cardinality(Owners(s, m, Attempts \ Xact))
        /\ m \in xlocks[s] => Owners(s, m, Xact) # {}

LEMMA AccountedStep ==
    ASSUME PostgresInvariant, DeadForgotten, Accounted, NEW a \in Attempts, Step(a)
    PROVE  Accounted'
  <1> SUFFICES ASSUME NEW s \in Sessions, NEW m \in Modes
               PROVE  /\ IsFiniteSet(Owners(s, m, Attempts \ Xact)')
                      /\ level'[s][m] <= Cardinality(Owners(s, m, Attempts \ Xact)')
                      /\ m \in xlocks'[s] => Owners(s, m, Xact)' # {}
    BY DEF Accounted
  <1> DEFINE X == Owners(s, m, Attempts \ Xact)
             Y == Owners(s, m, Attempts \ Xact)'
  <1>1. \A b \in Attempts \ {a} : Owns(b, s, m)' <=> Owns(b, s, m)
    BY StepLocal DEF PostgresInvariant, Owns
  <1>2. X \ {a} = Y \ {a}
    BY <1>1 DEF Owners, Keepers, Owns
  <1>3. (a \in X <=> a \notin Xact /\ Owns(a, s, m)) /\ (a \in Y <=> a \notin Xact /\ Owns(a, s, m)')
    BY DEF Owners, Keepers, Owns
  <1>4. IsFiniteSet(X) /\ level[s][m] <= Cardinality(X)
    BY DEF Accounted
  <1>5. level[s][m] \in Nat
    BY DEF PostgresInvariant, TypeOK
  <1>6. level'[s][m] <= Cardinality(Y) /\ IsFiniteSet(Y)
    <2> HIDE DEF X, Y
    <2>1. /\ IsFiniteSet(Y) /\ Cardinality(X) \in Nat /\ Cardinality(Y) \in Nat
          /\ Cardinality(X) <= Cardinality(Y) + 1
          /\ (a \in X => a \in Y) => Cardinality(X) <= Cardinality(Y)
          /\ a \notin X /\ a \in Y => Cardinality(Y) = Cardinality(X) + 1
      BY <1>2, <1>4, OneElement
    <2> QED
      BY <1>3, <1>4, <1>5, <2>1, OwnerStep
  <1>7. m \in xlocks'[s] => Owners(s, m, Xact)' # {}
    <2> SUFFICES ASSUME m \in xlocks'[s]
                 PROVE  \E b \in Xact : Owns(b, s, m)'
      BY PostgresAssumption DEF Owners, Keepers, Owns
    <2>1. CASE a \in Xact /\ Owns(a, s, m)'
      BY <2>1
    <2>2. CASE m \in xlocks[s] /\ (a \in Xact /\ Owns(a, s, m) => Owns(a, s, m)')
      <3>1. PICK b \in Xact : Owns(b, s, m)
        BY <2>2 DEF Accounted, Owners, Keepers, Owns
      <3> QED
        BY <1>1, <2>2, <3>1, PostgresAssumption
    <2> QED
      BY <2>1, <2>2, OwnerStep
  <1> QED
    BY <1>6, <1>7

\* A connection that breaks leaves nothing on its session.
LEMMA AccountedBreak ==
    ASSUME PostgresInvariant, DeadForgotten, Accounted, NEW t \in Sessions, Break(t)
    PROVE  DeadForgotten' /\ Accounted'
  <1> USE DEF PostgresInvariant, TypeOK, Break, Forget, EndTx
  <1>1. level'[t] = Unlocked /\ xlocks'[t] = {}
    OBVIOUS
  <1>2. \A s \in Sessions \ {t} : level'[s] = level[s] /\ xlocks'[s] = xlocks[s] /\ live'[s] = live[s]
    OBVIOUS
  <1>3. DeadForgotten'
    BY <1>1, <1>2 DEF DeadForgotten
  <1>4. Accounted'
    <2> SUFFICES ASSUME NEW s \in Sessions, NEW m \in Modes
                 PROVE  /\ IsFiniteSet(Owners(s, m, Attempts \ Xact)')
                        /\ level'[s][m] <= Cardinality(Owners(s, m, Attempts \ Xact)')
                        /\ m \in xlocks'[s] => Owners(s, m, Xact)' # {}
      BY DEF Accounted
    <2> DEFINE X == Owners(s, m, Attempts \ Xact)
               W == Owners(s, m, Xact)
    <2>1. X' = X /\ W' = W
      BY DEF Owners, Keepers
    <2>2. /\ IsFiniteSet(X) /\ level[s][m] <= Cardinality(X)
          /\ m \in xlocks[s] => W # {}
      BY DEF Accounted
    <2>3. Cardinality(X) \in Nat
      BY <2>2, FS_CardinalityType
    <2>4. \/ level'[s][m] = 0 /\ m \notin xlocks'[s]
          \/ level'[s] = level[s] /\ xlocks'[s] = xlocks[s]
      BY <1>1, <1>2 DEF Unlocked
    <2> HIDE DEF X, W
    <2>5. level'[s][m] <= Cardinality(X)
      BY ONLY <2>2, <2>3, <2>4
    <2>6. m \in xlocks'[s] => W # {}
      BY ONLY <2>2, <2>4
    <2> QED
      BY ONLY <2>1, <2>2, <2>5, <2>6 DEF X, W
  <1> QED
    BY <1>3, <1>4

LEMMA AccountedCorrect == Spec => [](DeadForgotten /\ Accounted)
  <1>1. Init => DeadForgotten /\ Accounted
    <2> SUFFICES ASSUME Init, NEW s \in Sessions, NEW m \in Modes
                 PROVE  /\ live[s] /\ xlocks[s] = {} /\ level[s][m] = 0
                        /\ Owners(s, m, Attempts \ Xact) = {}
      BY FS_EmptySet DEF DeadForgotten, Accounted, Init
    <2> QED
      BY DEF Init, Unlocked, Owners, Keepers
  <1>2. PostgresInvariant /\ DeadForgotten /\ Accounted /\ [Next]_vars
        => DeadForgotten' /\ Accounted'
    <2> SUFFICES ASSUME PostgresInvariant, DeadForgotten, Accounted, [Next]_vars
                 PROVE  DeadForgotten' /\ Accounted'
      OBVIOUS
    <2>1. CASE UNCHANGED vars
      BY <2>1 DEF vars, server, DeadForgotten, Accounted, Owners, Keepers
    <2> QED
      BY <2>1, AccountedBreak, DeadForgottenStep, AccountedStep, NextIsStep
  <1> QED
    BY <1>1, <1>2, PostgresInvariantCorrect, PTL DEF Spec

\* What no open handle has and is still on a session was left there by a dropped
\* handle, a cancelled call, a failed COMMIT or a failed unlock, one lock each.
THEOREM LocksAccountedForCorrect == Spec => []LocksAccountedFor
  <1>1. Accounted => LocksAccountedFor
    BY DEF Accounted, LocksAccountedFor
  <1> QED
    BY <1>1, AccountedCorrect, PTL

-----------------------------------------------------------------------------
(* Who is waited for                                                       *)

\* The lock is in the way of an attempt because another one has it on a session
\* of its own, or left it there.
BlockedBySomebody ==
    \A a \in Attempts :
        Working(a) /\ ~CanLock(conn[a], Mode(a)) => \E b \in Attempts \ {a} : InTheWay(b, a)

\* No mixture of scopes, failures and broken connections makes a lock that nobody
\* put there: whoever waits waits for a lock that is on a session, put there by an
\* attempt that does not wait itself (lock.rs, rw_lock.rs).
THEOREM BlockedBySomebodyCorrect == Spec => []BlockedBySomebody
  <1>1. PostgresInvariant /\ Accounted => BlockedBySomebody
    <2> SUFFICES ASSUME PostgresInvariant, Accounted, NEW a \in Attempts,
                        Working(a), ~CanLock(conn[a], Mode(a))
                 PROVE  \E b \in Attempts \ {a} : InTheWay(b, a)
      BY DEF BlockedBySomebody
    <2>1. PICK s \in Sessions \ {conn[a]}, m \in Modes :
                 Locked(s, m) /\ (m = "exclusive" \/ Mode(a) = "exclusive")
      BY DEF CanLock, Modes
    <2>2. \E b \in Attempts : Owns(b, s, m) /\ HasLock(b)
      <3>1. CASE m \in xlocks[s]
        <4>1. PICK b \in Xact : Owns(b, s, m)
          BY <3>1 DEF Accounted, Owners, Keepers, Owns
        <4> QED
          BY <3>1, <4>1, PostgresAssumption DEF Owns, HasLock
      <3>2. CASE level[s][m] > 0
        <4> DEFINE X == Owners(s, m, Attempts \ Xact)
        <4>1. level[s][m] \in Nat /\ level[s][m] <= Cardinality(X)
          BY DEF PostgresInvariant, TypeOK, Accounted
        <4>2. X # {}
          <5> HIDE DEF X
          <5> QED
            BY <3>2, <4>1, FS_EmptySet
        <4>3. PICK b \in Attempts \ Xact : Owns(b, s, m)
          BY <4>2 DEF Owners, Keepers, Owns
        <4> QED
          BY <3>2, <4>3 DEF Owns, HasLock
      <3> QED
        BY <2>1, <3>1, <3>2 DEF Locked
    <2>3. PICK b \in Attempts : Owns(b, s, m) /\ HasLock(b)
      BY <2>2
    <2>4. b # a /\ conn[b] \in Sessions \ {conn[a]} /\ b \in Keepers
      BY <2>1, <2>3 DEF Owns, Keepers
    <2>5. a \in Shared => b \notin Shared
      BY <2>1, <2>3 DEF Owns, Mode
    <2> QED
      BY <2>3, <2>4, <2>5 DEF InTheWay
  <1> QED
    BY <1>1, PostgresInvariantCorrect, AccountedCorrect, PTL

-----------------------------------------------------------------------------
(* The promise to the callers                                              *)

Holders == {a \in Attempts : pc[a] = "held" /\ HasLock(a)}
Broken  == {a \in Attempts : pc[a] = "held" /\ ~live[conn[a]]}

\* A handle has its lock as long as its connection is up, and no longer.
HoldersLive == \A a \in Attempts : pc[a] = "held" => (HasLock(a) <=> live[conn[a]])

LEMMA HoldersAreLive == PostgresInvariant /\ DeadForgotten => HoldersLive
  <1> SUFFICES ASSUME PostgresInvariant, DeadForgotten, NEW a \in Attempts, pc[a] = "held"
               PROVE  HasLock(a) <=> live[conn[a]]
    BY DEF HoldersLive
  <1>1. conn[a] \in Sessions /\ Mode(a) \in Modes
    BY DEF PostgresInvariant, OwnSession, Working, Busy, Mode, Modes
  <1>2. live[conn[a]] => HasLock(a)
    BY DEF PostgresInvariant, HandleHasLock, HasLock
  <1>3. ~live[conn[a]] => ~HasLock(a)
    BY <1>1 DEF DeadForgotten, HasLock, Unlocked
  <1> QED
    BY <1>2, <1>3

\* What a step does to its attempt, as a caller sees it.
LEMMA OwnMoves ==
    ASSUME PostgresInvariant, NEW a \in Attempts, Step(a)
    PROVE  \/ pc'[a] = "held" /\ live'[conn'[a]] /\ Phase[a] = "waiting"
           \/ pc'[a] # "held" /\ pc[a] # "held" /\ Phase'[a] = Phase[a]
           \/ Phase[a] # "closed" /\ Phase'[a] = "closed"
  <1> USE DEF PostgresInvariant, TypeOK, Goto, Keep, On, Busy, EndStates, Phase
  <1>1. CASE (\E s \in Sessions : Connect(a, s)) \/ ConnectFails(a)
    BY <1>1 DEF Connect, ConnectFails
  <1>2. CASE Prepare(a) \/ LockGranted(a) \/ Commit(a)
    BY <1>2 DEF Prepare, LockGranted, Commit
  <1>3. CASE Try(a)
    BY <1>3 DEF Try, End
  <1>4. CASE PrepareFails(a) \/ CommitFails(a) \/ Rollback(a) \/ TryFails(a) \/ ReleaseFails(a)
    BY <1>4 DEF PrepareFails, CommitFails, Rollback, TryFails, ReleaseFails, End
  <1>5. CASE SetRefused(a) \/ LockRefused(a) \/ Undo(a) \/ UndoFails(a) \/ CallFails(a)
    BY <1>5 DEF SetRefused, LockRefused, Undo, UndoFails, CallFails, End
  <1>6. CASE Cancel(a)
    BY <1>6 DEF Cancel, End
  <1>7. CASE ZombieGranted(a) \/ ZombieClosed(a)
    BY <1>7 DEF ZombieGranted, ZombieClosed, End
  <1>8. CASE Release(a) \/ DropHandle(a)
    BY <1>8 DEF Release, DropHandle, End
  <1> QED
    BY <1>1, <1>2, <1>3, <1>4, <1>5, <1>6, <1>7, <1>8, StepCases

\* Nobody who has the lock is in the way of a handle that gets it.
LEMMA GrantIsFree ==
    ASSUME PostgresInvariant, DeadForgotten, PostgresInvariant', NEW a \in Attempts, Step(a),
           pc'[a] = "held", live'[conn'[a]], NEW b \in Holders, b # a
    PROVE  a \in Shared /\ b \in Shared
  <1>1. pc'[b] = "held" /\ live'[conn'[b]]
    <2>1. b \in Attempts /\ pc[b] = "held" /\ HasLock(b) /\ Working(b)
      BY DEF Holders, Working, Busy
    <2> QED
      BY <2>1, HoldersAreLive, OthersKeep DEF PostgresInvariant, HoldersLive
  <1>2. ExclusiveWhileConnected'
    BY InvariantExcludes, PTL
  <1> QED
    BY <1>1, <1>2 DEF ExclusiveWhileConnected, Holders

\* Every step of an attempt is one that the lock promises, or none.
LEMMA StepRefines ==
    ASSUME PostgresInvariant, DeadForgotten, PostgresInvariant', DeadForgotten',
           NEW a \in Attempts, Step(a)
    PROVE  Promise!Next \/ UNCHANGED <<Phase, Holders, Broken>>
  <1>1. \A b \in Attempts \ {a} :
            /\ Phase'[b] = Phase[b]
            /\ b \in Holders' <=> b \in Holders
            /\ b \in Broken' <=> b \in Broken
    <2> SUFFICES ASSUME NEW b \in Attempts \ {a}
                 PROVE  /\ Phase'[b] = Phase[b]
                        /\ b \in Holders' <=> b \in Holders
                        /\ b \in Broken' <=> b \in Broken
      OBVIOUS
    <2>1. pc'[b] = pc[b]
      BY StepLocal DEF PostgresInvariant
    <2>2. CASE pc[b] # "held"
      BY <2>1, <2>2 DEF Phase, Holders, Broken
    <2>3. CASE pc[b] = "held"
      <3>1. conn'[b] = conn[b] /\ live'[conn[b]] = live[conn[b]] /\ SameLocks(conn[b])
        BY <2>3, OthersKeep DEF PostgresInvariant, Working, Busy
      <3> QED
        BY <2>1, <2>3, <3>1 DEF Phase, Holders, Broken, HasLock, SameLocks
    <2> QED
      BY <2>2, <2>3
  <1>2. Phase \in [Attempts -> {"waiting", "open", "closed"}]
        /\ Phase' \in [Attempts -> {"waiting", "open", "closed"}]
    BY DEF Phase
  <1>3. Holders \subseteq Attempts /\ Broken \subseteq Attempts
        /\ Holders' \subseteq Attempts /\ Broken' \subseteq Attempts
    BY DEF Holders, Broken
  <1>4. CASE pc'[a] = "held" /\ live'[conn'[a]] /\ Phase[a] = "waiting"
    <2>1. Phase'[a] = "open" /\ a \notin Holders /\ a \notin Broken
      BY <1>4 DEF Phase, Holders, Broken
    <2>2. a \in Holders' /\ a \notin Broken'
      BY <1>4 DEF Holders, Broken, PostgresInvariant, HandleHasLock, HasLock
    <2>3. \A b \in Holders : a \in Shared /\ b \in Shared
      BY <1>4, <2>1, GrantIsFree
    <2>4. Phase' = [Phase EXCEPT ![a] = "open"]
      BY <1>1, <1>2, <2>1
    <2>5. Holders' = Holders \cup {a} /\ Broken' = Broken
      BY <1>1, <1>3, <2>1, <2>2
    <2>6. Promise!Grant(a)
      BY <1>4, <2>3, <2>4, <2>5 DEF Promise!Grant, Promise!FreeFor, Holders, Broken
    <2> QED
      BY <2>6 DEF Promise!Next
  <1>5. CASE pc'[a] # "held" /\ pc[a] # "held" /\ Phase'[a] = Phase[a]
    <2>1. a \notin Holders /\ a \notin Broken /\ a \notin Holders' /\ a \notin Broken'
      BY <1>5 DEF Holders, Broken
    <2> QED
      BY <1>1, <1>2, <1>3, <1>5, <2>1
  <1>6. CASE Phase[a] # "closed" /\ Phase'[a] = "closed"
    <2>1. a \notin Holders' /\ a \notin Broken'
      BY <1>6 DEF Phase, Holders, Broken
    <2>2. Phase' = [Phase EXCEPT ![a] = "closed"]
      BY <1>1, <1>2, <1>6
    <2>3. Holders' = Holders \ {a} /\ Broken' = Broken \ {a}
      BY <1>1, <1>3, <2>1
    <2>4. Promise!Close(a)
      BY <1>6, <2>2, <2>3 DEF Promise!Close, Holders, Broken
    <2> QED
      BY <2>4 DEF Promise!Next
  <1> QED
    BY <1>4, <1>5, <1>6, OwnMoves

\* A connection that breaks is at most one handle's.
LEMMA BreakRefines ==
    ASSUME PostgresInvariant, DeadForgotten, PostgresInvariant', DeadForgotten',
           NEW s \in Sessions, Break(s)
    PROVE  Promise!Next \/ UNCHANGED <<Phase, Holders, Broken>>
  <1>1. pc' = pc /\ conn' = conn /\ Phase' = Phase /\ live[s]
        /\ \A t \in Sessions \ {s} : live'[t] = live[t]
    BY DEF Break, Phase, PostgresInvariant, TypeOK
  <1>2. \A b \in Attempts : pc[b] = "held" => conn[b] \in Sessions \ pool
    BY DEF PostgresInvariant, OwnSession, Working, Busy
  <1>3. \A b \in Attempts : pc[b] = "held" => (HasLock(b) <=> live[conn[b]])
    BY HoldersAreLive DEF HoldersLive
  <1>4. \A b \in Attempts : pc[b] = "held" => (HasLock(b)' <=> live'[conn[b]])
    <2>1. HoldersLive'
      BY HoldersAreLive, PTL
    <2> QED
      BY <1>1, <2>1 DEF HoldersLive
  <1>5. Holders = {b \in Attempts : pc[b] = "held" /\ live[conn[b]]}
        /\ Holders' = {b \in Attempts : pc[b] = "held" /\ live'[conn[b]]}
        /\ Broken' = {b \in Attempts : pc[b] = "held" /\ ~live'[conn[b]]}
    BY <1>1, <1>3, <1>4 DEF Holders, Broken
  <1>6. CASE \A a \in Attempts : pc[a] = "held" => conn[a] # s
    BY <1>1, <1>2, <1>5, <1>6 DEF Broken
  <1>7. ASSUME NEW a \in Attempts, pc[a] = "held", conn[a] = s
        PROVE  Promise!Break(a)
    <2>1. \A b \in Attempts \ {a} : pc[b] = "held" => conn[b] # s
      BY <1>7 DEF PostgresInvariant, OwnSession, Working, Busy
    <2>2. ~live'[s]
      BY <1>2, <1>7 DEF Break, PostgresInvariant, TypeOK
    <2>3. a \notin Broken /\ Broken' = Broken \cup {a} /\ Holders' = Holders \ {a}
      BY <1>1, <1>2, <1>5, <1>7, <2>1, <2>2 DEF Broken
    <2>4. Phase[a] = "open"
      BY <1>7 DEF Phase
    <2> QED
      BY <1>1, <2>3, <2>4 DEF Promise!Break, Holders, Broken
  <1> QED
    BY <1>6, <1>7 DEF Promise!Next

\* The locks of both scopes, and the mutex, are what a lock of a connection promises
\* to be: granted when nobody who has it is in the way, kept until it is given up
\* or the connection breaks (lock.rs, rw_lock.rs, handle.rs).
THEOREM PostgresImplementsSessionLock == Spec => ImplementsSessionLock
  <1>1. Init => Promise!Init
    BY DEF Init, Promise!Init, Phase
  <1>2. /\ PostgresInvariant /\ DeadForgotten /\ [Next]_vars
        /\ PostgresInvariant' /\ DeadForgotten'
        => [Promise!Next]_(Promise!vars)
    <2> SUFFICES ASSUME PostgresInvariant, DeadForgotten, [Next]_vars,
                        PostgresInvariant', DeadForgotten'
                 PROVE  [Promise!Next]_(Promise!vars)
      OBVIOUS
    <2>1. Promise!Next \/ UNCHANGED <<Phase, Holders, Broken>>
      <3>1. CASE UNCHANGED vars
        BY <3>1 DEF vars, server, Phase, Holders, Broken, HasLock
      <3> QED
        BY <3>1, StepRefines, BreakRefines, NextIsStep
    <2> QED
      BY <2>1 DEF Promise!vars, Holders, Broken
  <1> QED
    BY <1>1, <1>2, PostgresInvariantCorrect, AccountedCorrect, PTL
       DEF Spec, ImplementsSessionLock, Promise!Spec
=============================================================================
