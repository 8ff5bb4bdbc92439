----------------------- MODULE SpawnQueueEventProofs -----------------------
(***************************************************************************)
(* Proofs about SpawnQueueEvent, for any number of closures and any depth  *)
(* of nesting.                                                             *)
(***************************************************************************)
EXTENDS SpawnQueueEvent, TLAPS

\* From when a run has found both queues empty until the event is reset: what is
\* queued by then was put there since, by a thread that has set the event or is
\* about to.  The nested runs, which reset it too, return to a closure or to a
\* message and never to the wait itself.
FoundEmpty ==
    main \in {"peek", "wait"} /\ high + low > 0 => event \/ signalling # {}

IInv == TypeOK /\ FoundEmpty

USE DEF MainPc, Callers, Priorities

\* At first nothing is queued, and the main thread is not at the wait.
LEMMA InitInv == Init => IInv
<1> SUFFICES ASSUME Init PROVE IInv
  OBVIOUS
<1> USE DEF Init
<1>1. event \in BOOLEAN
  BY Zenon
<1>2. callers \in Seq(Callers) /\ Len(callers) <= MaxNested
  BY BoundAssumption
<1>3. high + low <= MaxQueued
  BY BoundAssumption
<1> QED
  BY <1>1, <1>2, <1>3 DEF IInv, TypeOK, FoundEmpty

\* What a run returns to, and what is left to return to then.
LEMMA Return ==
  ASSUME callers \in Seq(Callers), Len(callers) <= MaxNested, callers # <<>>
  PROVE  /\ Head(callers) \in Callers
         /\ Tail(callers) \in Seq(Callers)
         /\ Len(Tail(callers)) <= MaxNested
BY BoundAssumption

\* Every step keeps the invariant: who queues a closure behind the back of the main
\* thread is among those who have yet to set the event.
LEMMA StepInv == IInv /\ [Next]_vars => IInv'
<1> SUFFICES ASSUME IInv, [Next]_vars PROVE IInv'
  OBVIOUS
<1> USE BoundAssumption
<1> USE DEF IInv, TypeOK, FoundEmpty
<1>1. ASSUME NEW p \in Priorities, Queue(p) PROVE IInv'
  BY <1>1 DEF Queue, QueueFunc
<1>2. ASSUME NEW p \in Priorities, Signal(p) PROVE IInv'
  BY <1>2 DEF Signal
<1>3. ASSUME NEW p \in Priorities, MainQueues(p) PROVE IInv'
  BY <1>3 DEF MainQueues, QueueFunc
<1>4. CASE ResetEvent
  BY <1>4 DEF ResetEvent
<1>5. CASE PopHigh
  BY <1>5 DEF PopHigh
<1>6. CASE PopLow
  BY <1>6 DEF PopLow
<1>7. CASE FuncReturns
  BY <1>7 DEF FuncReturns
<1>8. CASE RunReturns
  <2>1. CASE callers = <<>>
    BY <1>8, <2>1 DEF RunReturns
  <2>2. CASE callers # <<>>
    BY <1>8, <2>2, Return DEF RunReturns
  <2> QED
    BY <2>1, <2>2
<1>9. CASE NestedRun
  <2>1. main \in Callers /\ callers' = <<main>> \o callers /\ Len(callers) < MaxNested
    BY <1>9 DEF NestedRun
  <2>2. callers' \in Seq(Callers) /\ Len(callers') <= MaxNested
    BY <2>1
  <2> QED
    BY <1>9, <2>2 DEF NestedRun
<1>10. CASE PeekMessage
  BY <1>10 DEF PeekMessage
<1>11. CASE DispatchReturns
  BY <1>11 DEF DispatchReturns
<1>12. CASE WaitReturns \/ WaitInterrupted
  BY <1>12 DEF WaitReturns, WaitInterrupted
<1>13. CASE UNCHANGED vars
  BY <1>13 DEF vars
<1> QED
  BY <1>1, <1>2, <1>3, <1>4, <1>5, <1>6, <1>7, <1>8, <1>9, <1>10, <1>11, <1>12, <1>13 DEF Next

\* The types of the state, and what was queued after a run found nothing, hold in
\* every reachable state.
THEOREM Invariance == Spec => []IInv
BY InitInv, StepInv, PTL DEF Spec

\* The main thread of Windows never waits through a queued closure, however its
\* runs of the queue are nested (SpawnQueue::run_impl and the WM_SIZING handler).
THEOREM WakeupsCorrect == Spec => []NoMissedWakeup
<1>1. IInv => NoMissedWakeup
  BY DEF IInv, FoundEmpty, NoMissedWakeup
<1> QED
  BY Invariance, <1>1, PTL

\* The types of the state, the bound on the nested runs among them.
THEOREM TypeCorrect == Spec => []TypeOK
<1>1. IInv => TypeOK
  BY DEF IInv
<1> QED
  BY Invariance, <1>1, PTL

\* Every step queues one closure, runs one that is queued, or leaves both queues
\* alone: the safety half of ImplementsExecutor.
THEOREM RunsWhatWasQueued == Spec => Exec!Init /\ [][Exec!Next]_(Exec!vars)
<1>1. Init => Exec!Init
  BY DEF Init, Exec!Init
<1>2. IInv /\ [Next]_vars => [Exec!Next]_(Exec!vars)
  <2> SUFFICES ASSUME IInv, [Next]_vars PROVE [Exec!Next]_(Exec!vars)
    OBVIOUS
  <2> USE DEF Exec!Next, Exec!vars, Exec!QueueHigh, Exec!QueueLow, Exec!RunHigh, Exec!RunLow
  <2>1. ASSUME NEW p \in Priorities, Queue(p) \/ MainQueues(p) PROVE [Exec!Next]_(Exec!vars)
    BY <2>1 DEF Queue, MainQueues, QueueFunc
  <2>2. CASE PopHigh
    BY <2>2 DEF PopHigh
  <2>3. CASE PopLow
    BY <2>3 DEF PopLow
  <2>4. CASE UNCHANGED <<high, low>>
    BY <2>4
  <2>5. ASSUME \/ \E p \in Priorities : Signal(p)
               \/ ResetEvent \/ FuncReturns \/ RunReturns \/ NestedRun \/ PeekMessage
               \/ DispatchReturns \/ WaitReturns \/ WaitInterrupted
               \/ UNCHANGED vars
        PROVE  UNCHANGED <<high, low>>
    BY <2>5 DEF Signal, ResetEvent, FuncReturns, RunReturns, NestedRun, PeekMessage,
                DispatchReturns, WaitReturns, WaitInterrupted, vars
  <2> QED
    BY <2>1, <2>2, <2>3, <2>4, <2>5 DEF Next
<1> QED
  BY Invariance, <1>1, <1>2, PTL DEF Spec

=============================================================================
