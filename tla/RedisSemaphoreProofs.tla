------------------------- MODULE RedisSemaphoreProofs -------------------------
(***************************************************************************)
(* The semaphore never has more holders than max_count, for any number of  *)
(* attempts, any expiry and any timing, because the set of tickets is      *)
(* exact (NoTicketGone) and never grows beyond max_count.                  *)
(***************************************************************************)
EXTENDS RedisSemaphore, FiniteSetTheorems, TLAPS

\* A set of attempts is finite, and not smaller than a set inside it.
LEMMA AttemptSets ==
    ASSUME NEW S \in SUBSET Attempts, NEW T \in SUBSET S
    PROVE  /\ IsFiniteSet(S) /\ Cardinality(S) \in Nat
           /\ IsFiniteSet(T) /\ Cardinality(T) \in Nat
           /\ Cardinality(T) <= Cardinality(S)
<1>1. IsFiniteSet(S)
    BY FS_Subset, SemaphoreAssumption DEF SemaphoreAssumption
<1>2. IsFiniteSet(T) /\ Cardinality(T) <= Cardinality(S)
    BY <1>1, FS_Subset
<1> QED
    BY <1>1, <1>2, FS_CardinalityType

\* What of the invariant is left when a step does not touch the server: the
\* types of the rest.
LEMMA ServerFacts ==
    ASSUME SemaphoreInvariant
    PROVE  /\ tickets \in SUBSET Attempts /\ Running \in SUBSET tickets
           /\ SetExpiry \in Nat /\ Expiry \in 0..SetExpiry /\ SetExpiry > 0
           /\ Cardinality(tickets) \in Nat /\ Cardinality(tickets) <= MaxCount
<1>1. tickets \in SUBSET Attempts /\ Running \in SUBSET tickets
    BY DEF SemaphoreInvariant, TypeOK, Running
<1>2. SetExpiry \in Nat /\ Expiry \in 0..SetExpiry /\ SetExpiry > 0
    BY SemaphoreAssumption DEF SemaphoreAssumption, SetExpiry
<1>3. Cardinality(tickets) \in Nat
    BY <1>1, AttemptSets
<1> QED
    BY <1>1, <1>2, <1>3 DEF SemaphoreInvariant, TicketsFit

\* The part of the invariant that speaks of the server.
ServerInv ==
    /\ tickets \subseteq Attempts
    /\ left \in [Attempts -> 0..Expiry]
    /\ ttl \in 0..SetExpiry
    /\ TicketsFit /\ NoTicketGone /\ KeyOutlivesTickets

\* The rest of it.
CallTypes ==
    /\ pc \in [Attempts -> PcStates]
    /\ cmd \in [Attempts -> CmdStates]
    /\ elapsed \in [Attempts -> 0..Timeout]
    /\ ext \in [Attempts -> ExtStates]
    /\ stray \in [Attempts -> BOOLEAN]
    /\ lost \in [Attempts -> BOOLEAN]

LEMMA InvariantParts == SemaphoreInvariant <=> ServerInv /\ CallTypes
BY DEF SemaphoreInvariant, TypeOK, ServerInv, CallTypes

LEMMA ServerUnchanged ==
    ASSUME ServerInv, UNCHANGED server PROVE ServerInv'
BY DEF ServerInv, server, TicketsFit, NoTicketGone, KeyOutlivesTickets

\* ACQUIRE_SCRIPT adds a ticket only where there is room, purges only tickets
\* that have run out, and gives the key the longest TTL.
LEMMA AcquireKeeps ==
    ASSUME SemaphoreInvariant, NEW a \in Attempts, NEW granted \in BOOLEAN,
           AcquireScript(a, granted)
    PROVE  ServerInv'
<1> USE SemaphoreAssumption DEF SemaphoreAssumption
<1>0. ServerInv BY InvariantParts
<1>1. tickets' \in SUBSET Attempts
    BY ServerFacts DEF AcquireScript
<1>2. left' \in [Attempts -> 0..Expiry] /\ ttl' \in 0..SetExpiry
    BY <1>0, ServerFacts DEF AcquireScript, ServerInv
<1>3. TicketsFit'
  <2>1. IsFiniteSet(Running) /\ Cardinality(Running) \in Nat
        /\ Cardinality(Running) <= MaxCount
    BY ServerFacts, AttemptSets
  <2>2. CASE granted
    <3>1. tickets' = Running \cup {a} /\ Cardinality(Running) < MaxCount
        BY <2>2 DEF AcquireScript
    <3>2. Cardinality(Running \cup {a}) =
                IF a \in Running THEN Cardinality(Running) ELSE Cardinality(Running) + 1
        BY <2>1, FS_AddElement, Zenon
    <3> QED BY <2>1, <3>1, <3>2 DEF TicketsFit
  <2>3. CASE ~granted
    BY <2>1, <2>3 DEF AcquireScript, TicketsFit
  <2> QED BY <2>2, <2>3
<1>4. NoTicketGone'
  <2> SUFFICES ASSUME NEW b \in Attempts, left'[b] > 0 PROVE b \in tickets'
    BY DEF NoTicketGone
  <2>1. CASE granted /\ b = a
    BY <2>1 DEF AcquireScript
  <2>2. CASE ~(granted /\ b = a)
    <3>1. left[b] > 0
        BY <2>2, <1>0 DEF AcquireScript, ServerInv
    <3> QED BY <3>1, <1>0 DEF AcquireScript, ServerInv, NoTicketGone, Running
  <2> QED BY <2>1, <2>2
<1>5. KeyOutlivesTickets'
  <2>1. ttl' = 0 => tickets' = {}
    BY <1>0, ServerFacts DEF AcquireScript, ServerInv, KeyOutlivesTickets
  <2>2. ASSUME NEW b \in Attempts PROVE left'[b] <= ttl'
    <3>1. CASE granted
        BY <3>1, <1>2, ServerFacts DEF AcquireScript
    <3>2. CASE ~granted
      <4>1. left' = left
        BY <3>2, <1>0 DEF AcquireScript, ServerInv
      <4>2. CASE Running = {}
        <5>1. left[b] = 0
            BY <4>2, <1>0 DEF ServerInv, NoTicketGone, Running
        <5> QED BY <4>1, <5>1, <1>2, ServerFacts
      <4>3. CASE Running # {}
        BY <4>1, <4>3, <3>2, <1>0 DEF AcquireScript, ServerInv, KeyOutlivesTickets
      <4> QED BY <4>2, <4>3
    <3> QED BY <3>1, <3>2
  <2> QED BY <2>1, <2>2 DEF KeyOutlivesTickets
<1> QED
    BY <1>1, <1>2, <1>3, <1>4, <1>5 DEF ServerInv

\* EXTEND_SCRIPT adds no ticket, however late it comes.
LEMMA ExtendKeeps ==
    ASSUME SemaphoreInvariant, NEW a \in Attempts, ExtendScript(a)
    PROVE  ServerInv'
<1>0. ServerInv BY InvariantParts
<1>1. left' \in [Attempts -> 0..Expiry] /\ ttl' \in 0..SetExpiry /\ tickets' = tickets
    BY <1>0, ServerFacts DEF ExtendScript, ServerInv
<1>2. NoTicketGone'
    BY <1>0 DEF ExtendScript, ServerInv, NoTicketGone
<1>3. KeyOutlivesTickets'
  <2>1. CASE tickets = {}
    <3>1. \A b \in Attempts : left'[b] = left[b] /\ ~(left[b] > 0)
        BY <2>1, <1>0 DEF ExtendScript, ServerInv, NoTicketGone
    <3> QED BY <2>1, <3>1, <1>1, ServerFacts DEF ExtendScript, KeyOutlivesTickets
  <2>2. CASE tickets # {}
    BY <2>2, <1>1, ServerFacts DEF ExtendScript, KeyOutlivesTickets
  <2> QED BY <2>1, <2>2
<1> QED
    BY <1>0, <1>1, <1>2, <1>3 DEF ServerInv, TicketsFit

\* RELEASE_SCRIPT removes one ticket and nobody else's.
LEMMA ReleaseKeeps ==
    ASSUME SemaphoreInvariant, NEW a \in Attempts, ReleaseScript(a)
    PROVE  ServerInv'
<1>0. ServerInv BY InvariantParts
<1>1. tickets' \in SUBSET tickets /\ left' \in [Attempts -> 0..Expiry] /\ ttl' \in 0..SetExpiry
    BY <1>0, ServerFacts DEF ReleaseScript, ServerInv
<1>2. TicketsFit'
    BY <1>1, ServerFacts, AttemptSets, SemaphoreAssumption
       DEF TicketsFit, SemaphoreAssumption
<1>3. NoTicketGone'
    BY <1>0 DEF ReleaseScript, ServerInv, NoTicketGone
<1>4. KeyOutlivesTickets'
  <2>1. CASE tickets' = {}
    <3>1. \A b \in Attempts : ~(left'[b] > 0)
        BY <2>1, <1>3 DEF NoTicketGone
    <3> QED BY <2>1, <3>1, <1>1 DEF ReleaseScript, KeyOutlivesTickets
  <2>2. CASE tickets' # {}
    BY <2>2, <1>0 DEF ReleaseScript, ServerInv, KeyOutlivesTickets
  <2> QED BY <2>1, <2>2
<1> QED
    BY <1>0, <1>1, <1>2, <1>3, <1>4 DEF ServerInv

\* The key runs out after its tickets.
LEMMA TickKeeps ==
    ASSUME SemaphoreInvariant, Tick
    PROVE  ServerInv'
<1> USE SemaphoreAssumption DEF SemaphoreAssumption
<1>0. ServerInv BY InvariantParts
<1>1. left' \in [Attempts -> 0..Expiry] /\ ttl' \in 0..SetExpiry /\ tickets' \in SUBSET tickets
    BY <1>0, ServerFacts DEF Tick, Down, ServerInv
<1>2. TicketsFit'
    BY <1>1, ServerFacts, AttemptSets DEF TicketsFit
<1>3. NoTicketGone'
  <2> SUFFICES ASSUME NEW b \in Attempts, left'[b] > 0 PROVE b \in tickets'
    BY DEF NoTicketGone
  <2>1. left[b] > 1
    BY <1>0 DEF Tick, Down, ServerInv
  <2>2. ttl > 1 /\ b \in tickets
    BY <2>1, <1>0, ServerFacts DEF ServerInv, NoTicketGone, KeyOutlivesTickets
  <2> QED BY <2>2, <1>0, ServerFacts DEF Tick, ServerInv
<1>4. KeyOutlivesTickets'
    BY <1>0, ServerFacts DEF Tick, Down, ServerInv, KeyOutlivesTickets
<1> QED
    BY <1>0, <1>1, <1>2, <1>3, <1>4 DEF ServerInv

LEMMA InitInv == Init => SemaphoreInvariant
<1> SUFFICES ASSUME Init PROVE SemaphoreInvariant OBVIOUS
<1> USE SemaphoreAssumption DEF SemaphoreAssumption
<1>1. ServerInv
    BY FS_EmptySet DEF Init, ServerInv, TicketsFit, NoTicketGone, KeyOutlivesTickets, SetExpiry
<1>2. CallTypes
    BY DEF Init, CallTypes, PcStates, CmdStates, ExtStates
<1> QED BY <1>1, <1>2, InvariantParts

\* The types of the calls and tasks, action by action.
LEMMA CallsKeepTypes ==
    ASSUME SemaphoreInvariant, [Next]_vars
    PROVE  CallTypes'
<1> USE SemaphoreAssumption DEF SemaphoreAssumption, CallTypes, PcStates, CmdStates, ExtStates
<1>0. CallTypes BY InvariantParts
<1>1. CASE Tick
    BY <1>0, <1>1 DEF Tick, task
<1>2. ASSUME NEW a \in Attempts, ServerStep(a) PROVE CallTypes'
  <2>1. CASE AcquireApplied(a)
    BY <1>0, <2>1 DEF AcquireApplied, task
  <2>2. CASE ReleaseApplied(a)
    BY <1>0, <2>2 DEF ReleaseApplied, Goto, task
  <2>3. CASE ExtendApplied(a)
    BY <1>0, <2>3 DEF ExtendApplied, call
  <2>4. CASE StrayExtend(a)
    BY <1>0, <2>4 DEF StrayExtend, call
  <2> QED BY <1>2, <2>1, <2>2, <2>3, <2>4 DEF ServerStep
<1>3. ASSUME NEW a \in Attempts, CallStep(a) PROVE CallTypes'
  <2>1. CASE Ask(a)
    BY <1>0, <2>1 DEF Ask, Goto, task
  <2>2. CASE Granted(a)
    BY <1>0, <2>2 DEF Granted, Return, Goto
  <2>3. CASE Refused(a)
    BY <1>0, <2>3 DEF Refused, Return, Goto, task
  <2>4. CASE CallFails(a)
    BY <1>0, <2>4 DEF CallFails, Abandoned, Return, Goto, task
  <2> QED BY <1>3, <2>1, <2>2, <2>3, <2>4 DEF CallStep
<1>4. ASSUME NEW a \in Attempts, TaskStep(a) PROVE CallTypes'
    BY <1>0, <1>4 DEF TaskStep, ExtendStart, ExtendFails, call
<1>5. ASSUME NEW a \in Attempts, UserStep(a) PROVE CallTypes'
  <2>1. CASE Cancel(a)
    BY <1>0, <2>1 DEF Cancel, Abandoned, Return, Goto, task
  <2>2. CASE ReleaseStart(a)
    BY <1>0, <2>2 DEF ReleaseStart, AbortTask, Goto
  <2>3. CASE DropHandle(a)
    BY <1>0, <2>3 DEF DropHandle, AbortTask, Goto
  <2> QED BY <1>5, <2>1, <2>2, <2>3 DEF UserStep
<1>6. CASE UNCHANGED vars
    BY <1>0, <1>6 DEF vars, call, task
<1> QED BY <1>1, <1>2, <1>3, <1>4, <1>5, <1>6 DEF Next

\* Every step runs one of the scripts, is a tick, or leaves the server alone.
LEMMA StepKeepsServer ==
    ASSUME SemaphoreInvariant, [Next]_vars
    PROVE  ServerInv'
<1>0. ServerInv BY InvariantParts
<1>1. CASE Tick BY <1>1, TickKeeps
<1>2. ASSUME NEW a \in Attempts, ServerStep(a) PROVE ServerInv'
  <2>1. CASE AcquireApplied(a)
    BY <2>1, AcquireKeeps DEF AcquireApplied
  <2>2. CASE ReleaseApplied(a)
    BY <2>2, ReleaseKeeps DEF ReleaseApplied
  <2>3. CASE ExtendApplied(a)
    BY <2>3, ExtendKeeps DEF ExtendApplied
  <2>4. CASE StrayExtend(a)
    BY <1>0, <2>4, ExtendKeeps, ServerUnchanged DEF StrayExtend
  <2> QED BY <1>2, <2>1, <2>2, <2>3, <2>4 DEF ServerStep
<1>3. ASSUME NEW a \in Attempts, CallStep(a) PROVE ServerInv'
  <2>1. UNCHANGED server
    BY <1>3 DEF CallStep, Ask, Granted, Refused, CallFails
  <2> QED BY <1>0, <2>1, ServerUnchanged
<1>4. ASSUME NEW a \in Attempts, TaskStep(a) PROVE ServerInv'
  <2>1. CASE ExtendStart(a)
    BY <1>0, <2>1, ServerUnchanged DEF ExtendStart
  <2>2. CASE ExtendFails(a)
    BY <1>0, <2>2, ExtendKeeps, ServerUnchanged DEF ExtendFails
  <2> QED BY <1>4, <2>1, <2>2 DEF TaskStep
<1>5. ASSUME NEW a \in Attempts, UserStep(a) PROVE ServerInv'
  <2>1. UNCHANGED server
    BY <1>5 DEF UserStep, Cancel, ReleaseStart, DropHandle
  <2> QED BY <1>0, <2>1, ServerUnchanged
<1>6. CASE UNCHANGED vars
    BY <1>0, <1>6, ServerUnchanged DEF vars
<1> QED BY <1>1, <1>2, <1>3, <1>4, <1>5, <1>6 DEF Next

\* The set of tickets fits max_count, holds every ticket with time left and
\* outlives them, in every reachable state of semaphore.rs.
THEOREM SemaphoreInvariantCorrect == Spec => []SemaphoreInvariant
<1>1. SemaphoreInvariant /\ [Next]_vars => SemaphoreInvariant'
  <2> SUFFICES ASSUME SemaphoreInvariant, [Next]_vars PROVE SemaphoreInvariant' OBVIOUS
  <2>1. ServerInv' /\ CallTypes' BY StepKeepsServer, CallsKeepTypes
  <2> QED BY <2>1 DEF SemaphoreInvariant, TypeOK, ServerInv, CallTypes
<1> QED BY <1>1, InitInv, PTL DEF Spec

\* "Allows up to max_count processes to hold the semaphore concurrently"
\* (traits.rs), whatever max_count, the expiry and the attempts are.
THEOREM AtMostMaxCountCorrect == Spec => []AtMostMaxCount
<1>1. SemaphoreInvariant => AtMostMaxCount
  <2> SUFFICES ASSUME SemaphoreInvariant PROVE AtMostMaxCount OBVIOUS
  <2> DEFINE H == {a \in Attempts : Holds(a)}
  <2>1. H \in SUBSET tickets
    BY DEF SemaphoreInvariant, NoTicketGone, Holds
  <2>2. Cardinality(H) \in Nat /\ Cardinality(H) <= Cardinality(tickets)
    BY <2>1, ServerFacts, AttemptSets
  <2> QED BY <2>2, ServerFacts, SemaphoreAssumption DEF AtMostMaxCount, SemaphoreAssumption
<1> QED BY <1>1, SemaphoreInvariantCorrect, PTL

\* A try of acquire is refused only while max_count tickets have time left:
\* the purge of ACQUIRE_SCRIPT leaves nothing behind that would count.
THEOREM RefusedOnlyWhenFullCorrect == Spec => RefusedOnlyWhenFull
<1> DEFINE Refusal(a) == cmd[a] = "acquire" /\ cmd'[a] = "refused"
           Full == Cardinality({b \in Attempts : left[b] > 0}) >= MaxCount
<1>1. SemaphoreInvariant /\ [Next]_vars => \A a \in Attempts : Refusal(a) => Full
  <2> SUFFICES ASSUME SemaphoreInvariant, [Next]_vars, NEW a \in Attempts, Refusal(a)
               PROVE  Full
    OBVIOUS
  <2>0. CallTypes BY InvariantParts
  <2>1. AcquireApplied(a)
    <3>1. ~Tick /\ ~UNCHANGED vars BY DEF Tick, vars, call
    <3>2. PICK b \in Attempts : ServerStep(b) \/ CallStep(b) \/ TaskStep(b) \/ UserStep(b)
        BY <3>1 DEF Next
    <3>3. ~TaskStep(b) BY DEF TaskStep, ExtendStart, ExtendFails, call
    <3>4. ~UserStep(b)
        BY <2>0 DEF UserStep, Cancel, Abandoned, ReleaseStart, DropHandle, CallTypes
    <3>5. ~CallStep(b)
        BY <2>0 DEF CallStep, Ask, Granted, Refused, CallFails, Abandoned, CallTypes
    <3>6. ~ReleaseApplied(b) /\ ~ExtendApplied(b) /\ ~StrayExtend(b)
        BY <2>0 DEF ReleaseApplied, ExtendApplied, StrayExtend, call, CallTypes
    <3>7. AcquireApplied(b) BY <3>2, <3>3, <3>4, <3>5, <3>6 DEF ServerStep
    <3> QED BY <3>7, <2>0 DEF AcquireApplied, CallTypes
  <2>2. PICK granted \in BOOLEAN : AcquireScript(a, granted) /\ ~granted
    BY <2>1, <2>0 DEF AcquireApplied, CallTypes
  <2>3. Cardinality(Running) \in Nat /\ ~(Cardinality(Running) < MaxCount)
    BY <2>2, ServerFacts, AttemptSets DEF AcquireScript
  <2>4. Running = {b \in Attempts : left[b] > 0}
    BY ServerFacts DEF SemaphoreInvariant, NoTicketGone, Running
  <2> QED BY <2>3, <2>4, SemaphoreAssumption DEF SemaphoreAssumption
<1> QED
    BY <1>1, SemaphoreInvariantCorrect, PTL DEF Spec, RefusedOnlyWhenFull
=============================================================================
