-------------------------- MODULE SpawnQueueProofs --------------------------
(***************************************************************************)
(* Proofs about SpawnQueue, about the tasks of ThreadTask, and about those *)
(* tasks in that queue.                                                    *)
(***************************************************************************)
EXTENDS QueuedTasks, TLAPS

\* After the pipe was drained and until poll reports it.
Drained == main \in {"check", "check_low", "dispatch", "dispatch_busy", "poll", "poll_busy"}

\* A pipe that fills up after it was drained was written since: this is why a
\* write that fails for want of room can be ignored.
FullPipeReported == Drained /\ pipe = PipeCapacity => edge

\* What a queue that was found empty holds was put there since, by a thread
\* whose write is still to come or has woken the main thread up.
FoundEmptyHigh == main = "check_low" /\ high > 0 => Reported \/ signalling # {}
FoundEmpty ==
    main \in {"dispatch", "poll"} /\ high + low > 0 => Reported \/ signalling # {}

IInv == TypeOK /\ FullPipeReported /\ FoundEmptyHigh /\ FoundEmpty

USE DEF Platforms, MainPc, Loop, Busy

\* The queues, the pipe and the loop of a process that starts are in the invariant.
LEMMA InitInv == Init => IInv
<1> SUFFICES ASSUME Init PROVE IInv
  OBVIOUS
<1> USE DEF Init
<1>1. TypeOK
  <2>1. edge \in BOOLEAN
    BY Zenon
  <2> QED
    BY <2>1, PipeAssumption, BoundAssumption DEF TypeOK
<1>2. FullPipeReported
  BY PipeAssumption DEF FullPipeReported, Drained
<1>3. FoundEmptyHigh /\ FoundEmpty
  BY DEF FoundEmptyHigh, FoundEmpty
<1> QED
  BY <1>1, <1>2, <1>3 DEF IInv

\* A write leaves the pipe well formed, and leaves it reported if it was drained.
LEMMA WriteReports ==
  ASSUME TypeOK, FullPipeReported, WritePipe
  PROVE  /\ pipe' \in 0..PipeCapacity
         /\ edge' \in BOOLEAN
         /\ Drained => Reported'
<1> USE PipeAssumption
<1>1. CASE pipe < PipeCapacity
  <2>1. pipe' = pipe + 1 /\ edge' = TRUE
    BY <1>1 DEF WritePipe
  <2>2. edge' \in BOOLEAN /\ edge'
    BY <2>1, Zenon
  <2>3. pipe' \in 0..PipeCapacity /\ pipe' > 0
    BY <1>1, <2>1 DEF TypeOK
  <2> QED
    BY <2>2, <2>3 DEF Reported
<1>2. CASE ~(pipe < PipeCapacity)
  <2>1. pipe' = pipe /\ edge' = edge
    BY <1>2 DEF WritePipe
  <2>2. pipe = PipeCapacity /\ pipe > 0 /\ pipe \in 0..PipeCapacity /\ edge \in BOOLEAN
    BY <1>2 DEF TypeOK
  <2> QED
    BY <2>1, <2>2 DEF FullPipeReported, Reported
<1> QED
  BY <1>1, <1>2

\* Each step of a thread or of the message loop keeps it.
LEMMA StepInv == IInv /\ [Next]_vars => IInv'
<1> USE PipeAssumption, BoundAssumption
<1> USE DEF IInv, TypeOK, FullPipeReported, FoundEmptyHigh, FoundEmpty, Drained, Reported
<1> SUFFICES ASSUME IInv, [Next]_vars PROVE IInv'
  OBVIOUS
<1>1. ASSUME NEW p \in Priorities, Queue(p) PROVE IInv'
  BY <1>1 DEF Queue, QueueFunc
<1>2. ASSUME NEW p \in Priorities, Signal(p) PROVE IInv'
  <2>1. WritePipe /\ p \in signalling /\ signalling' = signalling \ {p}
        /\ UNCHANGED <<platform, high, low, main>>
    BY <1>2 DEF Signal
  <2>2. pipe' \in 0..PipeCapacity /\ edge' \in BOOLEAN /\ (Drained => Reported')
    BY <2>1, WriteReports
  <2> QED
    BY <2>1, <2>2
<1>3. ASSUME NEW p \in Priorities, MainQueues(p) PROVE IInv'
  <2>1. WritePipe /\ QueueFunc(p) /\ UNCHANGED <<platform, signalling, main>>
    BY <1>3 DEF MainQueues
  <2>2. pipe' \in 0..PipeCapacity /\ edge' \in BOOLEAN /\ (Drained => Reported')
    BY <2>1, WriteReports
  <2> QED
    BY <2>1, <2>2 DEF QueueFunc
<1>4. CASE PopHigh
  BY <1>4 DEF PopHigh
<1>5. CASE PopLow
  BY <1>5 DEF PopLow
<1>15. CASE PopNone
  BY <1>15 DEF PopNone
<1>6. CASE FuncReturns
  BY <1>6 DEF FuncReturns
<1>7. CASE Drain
  BY <1>7 DEF Drain
<1>8. CASE CheckHigh
  BY <1>8 DEF CheckHigh
<1>9. CASE CheckLow
  BY <1>9 DEF CheckLow
<1>10. CASE EventsHandled
  BY <1>10 DEF EventsHandled
<1>11. CASE EventsDispatched
  BY <1>11 DEF EventsDispatched
<1>12. CASE PollReturns
  BY <1>12 DEF PollReturns
<1>13. CASE PollInterrupted
  BY <1>13 DEF PollInterrupted
<1>14. CASE UNCHANGED vars
  BY <1>14 DEF vars
<1> QED
  BY <1>1, <1>2, <1>3, <1>4, <1>5, <1>6, <1>7, <1>8, <1>9, <1>10, <1>11, <1>12, <1>13, <1>14, <1>15
  DEF Next

\* The invariant holds for any size of the pipe and however little is drained.
THEOREM Invariance == Spec => []IInv
BY InitInv, StepInv, PTL DEF Spec

\* The lengths of the queues, the bytes in the pipe and the place in the message
\* loop stay in their ranges, as write to a full pipe and the drain leave them.
THEOREM TypeCorrect == Spec => []TypeOK
<1>1. IInv => TypeOK
  BY DEF IInv
<1> QED
  BY Invariance, <1>1, PTL

\* The main thread of X11 and Wayland never sleeps through a queued closure.
THEOREM WakeupsCorrect == Spec => []NoMissedWakeup
<1>1. IInv => NoMissedWakeup
  BY DEF IInv, FoundEmpty, NoMissedWakeup
<1> QED
  BY Invariance, <1>1, PTL

\* Every step queues one closure, runs one that is queued, or leaves both queues
\* alone: the safety half of ImplementsExecutor.
THEOREM RunsWhatWasQueued == Spec => Exec!Init /\ [][Exec!Next]_(Exec!vars)
<1>1. Init => Exec!Init
  BY DEF Init, Exec!Init
<1>2. IInv /\ [Next]_vars => [Exec!Next]_(Exec!vars)
  <2> SUFFICES ASSUME IInv, [Next]_vars PROVE [Exec!Next]_(Exec!vars)
    OBVIOUS
  <2> USE DEF Exec!Next, Exec!vars, Exec!QueueHigh, Exec!QueueLow, Exec!RunHigh, Exec!RunLow
  <2>1. ASSUME NEW p \in Priorities, Queue(p) PROVE [Exec!Next]_(Exec!vars)
    BY <2>1 DEF Queue, QueueFunc
  <2>2. ASSUME NEW p \in Priorities, MainQueues(p) PROVE [Exec!Next]_(Exec!vars)
    BY <2>2 DEF MainQueues, QueueFunc
  <2>3. CASE PopHigh
    BY <2>3 DEF PopHigh
  <2>4. CASE PopLow
    BY <2>4 DEF PopLow
  <2>5. CASE (\E p \in Priorities : Signal(p)) \/ PopNone \/ FuncReturns \/ Drain \/ CheckHigh \/ CheckLow
             \/ EventsHandled \/ EventsDispatched \/ PollReturns \/ PollInterrupted
             \/ UNCHANGED vars
    BY <2>5 DEF Signal, PopNone, FuncReturns, Drain, CheckHigh, CheckLow, EventsHandled,
                EventsDispatched, PollReturns, PollInterrupted, vars
  <2> QED
    BY <2>1, <2>2, <2>3, <2>4, <2>5 DEF Next
<1> QED
  BY Invariance, <1>1, <1>2, PTL DEF Spec

----------------------------------------------------------------------------
(* The task of spawn_into_new_thread.                                      *)

\* A channel has no sender any more because f panicked, or because its result was
\* taken, and then the task is ready: the two are never confused.
SenderGone ==
    \A t \in Tasks : channel[t] = "disconnected" => thread[t] = "panicked" \/ task[t] = "ready"

ThreadInv == ThreadTypeOK /\ OutcomeIsTheThreads /\ SenderGone

\* Before the threads of spawn_into_new_thread run, the invariant holds.
LEMMA ThreadStart == ThreadInit => ThreadInv
BY DEF ThreadInit, ThreadInv, ThreadTypeOK, OutcomeIsTheThreads, SenderGone

\* Each step of a thread and of PendingResult::poll keeps it.
LEMMA ThreadStep == ThreadInv /\ [ThreadNext]_threadVars => ThreadInv'
<1> SUFFICES ASSUME ThreadInv, [ThreadNext]_threadVars PROVE ThreadInv'
  OBVIOUS
<1> USE DEF ThreadInv, ThreadTypeOK, OutcomeIsTheThreads, SenderGone
<1>1. ASSUME NEW t \in Tasks, Send(t) PROVE ThreadInv'
  BY <1>1 DEF Send
<1>2. ASSUME NEW t \in Tasks, Panic(t) PROVE ThreadInv'
  BY <1>2 DEF Panic
<1>3. ASSUME NEW t \in Tasks, Wake(t) PROVE ThreadInv'
  <2> USE DEF Wake
  <2>1. thread[t] = "sent" /\ thread' = [thread EXCEPT ![t] = "done"] /\ channel' = channel
    BY <1>3
  <2>2. waker' \in [Tasks -> BOOLEAN] /\ \A u \in Tasks : u # t => waker'[u] = waker[u]
    BY <1>3
  <2>3. /\ task' \in [Tasks -> {"scheduled", "polling", "pending", "ready", "failed", "dropped"}]
        /\ \A u \in Tasks : u # t => task'[u] = task[u]
        /\ task'[t] = task[t] \/ (task[t] = "pending" /\ task'[t] = "scheduled")
    <3>1. CASE waker[t]
      BY <1>3, <3>1
    <3>2. CASE ~waker[t]
      BY <1>3, <3>2
    <3> QED
      BY <3>1, <3>2
  <2> HIDE DEF Wake
  <2> QED
    BY <2>1, <2>2, <2>3
<1>4. ASSUME NEW t \in Tasks, TryRecv(t) PROVE ThreadInv'
  <2>1. CASE channel[t] = "result"
    BY <1>4, <2>1 DEF TryRecv
  <2>2. CASE channel[t] = "empty"
    BY <1>4, <2>2 DEF TryRecv
  <2>3. CASE channel[t] = "disconnected"
    BY <1>4, <2>3 DEF TryRecv
  <2> QED
    BY <2>1, <2>2, <2>3
<1>5. ASSUME NEW t \in Tasks, StoreWaker(t) PROVE ThreadInv'
  BY <1>5 DEF StoreWaker
<1>6. ASSUME NEW t \in Tasks, Drop(t) PROVE ThreadInv'
  BY <1>6 DEF Drop
<1>7. CASE Terminated \/ UNCHANGED threadVars
  BY <1>7 DEF Terminated, threadVars
<1> QED
  BY <1>1, <1>2, <1>3, <1>4, <1>5, <1>6, <1>7 DEF ThreadNext

\* The inductive invariant of spawn_into_new_thread: types, outcomes, and what a
\* channel without a sender means.
THEOREM ThreadInvariance == ThreadSpec => []ThreadInv
BY ThreadStart, ThreadStep, PTL DEF ThreadSpec

\* The types of the state; a result in the channel was sent and not taken, and a
\* task that waits for a running thread has left its waker.
THEOREM ThreadTypes == ThreadSpec => []ThreadTypeOK
<1>1. ThreadInv => ThreadTypeOK
  BY DEF ThreadInv
<1> QED
  BY ThreadInvariance, <1>1, PTL

\* A task is ready only if f returned a result, and failed only if it did not.
THEOREM OutcomesCorrect == ThreadSpec => []OutcomeIsTheThreads
<1>1. ThreadInv => OutcomeIsTheThreads
  BY DEF ThreadInv
<1> QED
  BY ThreadInvariance, <1>1, PTL

----------------------------------------------------------------------------
(* The tasks in the queue.                                                 *)

\* Whatever is done to a task is done to the queue in one of its own steps, or leaves the
\* queue alone.
LEMMA TaskStepInQueue == [TasksNext]_allVars => [Next]_vars
<1> SUFFICES ASSUME [TasksNext]_allVars PROVE [Next]_vars
  OBVIOUS
<1>1. "high" \in Priorities
  BY DEF Priorities
<1>2. ASSUME NEW p \in Priorities, Queue(p) \/ MainQueues(p) \/ Signal(p) PROVE [Next]_vars
  BY <1>2 DEF Next
<1>3. ASSUME NEW p \in Priorities, OtherQueues(p) \/ Signals(p) PROVE [Next]_vars
  BY <1>2, <1>3 DEF OtherQueues, Signals
<1>4. ASSUME NEW t \in Tasks, SpawnTask(t) \/ DropTask(t) \/ ThreadEnds(t) \/ WakeTask(t)
      PROVE  [Next]_vars
  <2>1. Queue("high") \/ MainQueues("high") \/ UNCHANGED vars
    BY <1>4 DEF SpawnTask, DropTask, ThreadEnds, WakeTask, Scheduled
  <2> QED
    BY <2>1, <1>1, <1>2
<1>5. ASSUME NEW t \in Tasks, Poll(t) \/ PollEnds(t) \/ Reschedule(t) PROVE [Next]_vars
  <2>1. MainQueues("high") \/ UNCHANGED vars
    BY <1>5 DEF Poll, PollEnds, Reschedule
  <2> QED
    BY <2>1, <1>1, <1>2
<1>6. CASE PopFunc \/ RunReturns \/ LoopStep \/ Interrupted
  BY <1>6 DEF PopFunc, RunReturns, LoopStep, Interrupted, Next
<1>7. CASE UNCHANGED allVars
  BY <1>7 DEF allVars
<1> QED
  BY <1>3, <1>4, <1>5, <1>6, <1>7 DEF TasksNext, MainWork

\* The queue with tasks in it is the queue of SpawnQueue: what is proved of that one holds
\* of spawn_into_main_thread and of wake-ups too.
THEOREM TasksRunInQueue == TasksSpec => Spec
<1>1. TasksInit => Init
  BY DEF TasksInit
<1> QED
  BY <1>1, TaskStepInQueue, PTL DEF TasksSpec, Spec

\* What the queue does to a task is a step of ThreadTask, or leaves it alone.
LEMMA QueueStepOfTask == [TasksNext]_allVars => [ThreadNext]_threadVars
<1> SUFFICES ASSUME [TasksNext]_allVars PROVE [ThreadNext]_threadVars
  OBVIOUS
<1>1. ASSUME NEW t \in Tasks, DropTask(t) \/ ThreadEnds(t) \/ WakeTask(t) \/ Poll(t) \/ PollEnds(t)
      PROVE  ThreadNext
  BY <1>1 DEF DropTask, ThreadEnds, WakeTask, Poll, PollEnds, ThreadNext
<1>2. ASSUME \/ \E p \in Priorities : OtherQueues(p) \/ Signals(p)
             \/ \E t \in Tasks : SpawnTask(t) \/ Reschedule(t)
             \/ PopFunc \/ RunReturns \/ LoopStep \/ Interrupted \/ UNCHANGED allVars
      PROVE  UNCHANGED threadVars
  BY <1>2 DEF OtherQueues, Signals, SpawnTask, Reschedule, PopFunc, RunReturns, LoopStep,
              Interrupted, allVars
<1> QED
  BY <1>1, <1>2 DEF TasksNext, MainWork

\* The safety half of ImplementsThreadTask: in the queue a task goes through the steps of
\* ThreadTask and no others.
THEOREM TasksAreThreadTasks == TasksSpec => ThreadInit /\ [][ThreadNext]_threadVars
<1>1. TasksInit => ThreadInit
  BY DEF TasksInit
<1> QED
  BY <1>1, QueueStepOfTask, PTL DEF TasksSpec

\* Each task in the queue has a place of its own.
Distinct == \A t, u \in Tasks : place[t] = place[u] /\ place[t] > 0 => t = u

\* Where a task can be in each of its states: one that was not spawned waits for that, one
\* that waits for its thread is not queued, one that looks into its channel is being run.
Whereabouts ==
    /\ \A t \in Tasks \ spawned : task[t] = "scheduled" /\ place[t] = 0 /\ t \notin due \cup running
    /\ \A t \in Tasks : task[t] = "pending" => place[t] = 0 /\ t \notin due
    /\ \A t \in Tasks : task[t] = "polling" => t \in running
    /\ \A t \in due \cup running : place[t] = 0
    /\ \A t \in due : task[t] # "polling"

TaskStates == {"scheduled", "polling", "pending", "ready", "failed", "dropped"}

QueueInv == QueueTypeOK /\ Whereabouts /\ ScheduledIsQueued

\* A task that enters the queue comes after all others.
LEMMA EntersLast ==
  ASSUME IInv, QueueTypeOK, Distinct, NEW t \in Tasks, Enters(t), high' = high + 1
  PROVE  /\ place' \in [Tasks -> Nat]
         /\ place'[t] > 0
         /\ \A u \in Tasks : u # t => place'[u] = place[u]
         /\ (\A u \in Tasks : place[u] <= high)'
         /\ Distinct'
<1>1. high \in Nat /\ high' \in Nat
  BY DEF IInv, TypeOK
<1>2. place \in [Tasks -> Nat] /\ \A u \in Tasks : place[u] <= high
  BY DEF QueueTypeOK
<1>3. place' = [place EXCEPT ![t] = high + 1]
  BY DEF Enters
<1>4. place' \in [Tasks -> Nat] /\ place'[t] = high + 1
      /\ \A u \in Tasks : u # t => place'[u] = place[u]
  BY <1>1, <1>2, <1>3
<1>5. \A u \in Tasks : u # t => place'[u] # place'[t]
  BY <1>1, <1>2, <1>4
<1>6. Distinct'
  BY <1>4, <1>5 DEF Distinct
<1> QED
  BY <1>1, <1>2, <1>4, <1>6

\* The parts of QueueInv that speak of the places are kept by a step that leaves the tasks
\* alone, and in which the queue gets no shorter and the main thread does not leave a task.
LEMMA TasksUntouched ==
  ASSUME IInv, QueueInv, UNCHANGED <<task, place, spawned, due, running>>,
         high' \in Nat, high' >= high, due \cup running # {} => main' = main
  PROVE  QueueInv'
<1>1. high \in Nat /\ place \in [Tasks -> Nat]
  BY DEF IInv, TypeOK, QueueInv, QueueTypeOK
<1>2. \A t \in Tasks : place[t] <= high'
  BY <1>1 DEF QueueInv, QueueTypeOK
<1> QED
  BY <1>2 DEF QueueInv, QueueTypeOK, Whereabouts, ScheduledIsQueued

\* A task that is scheduled while it has no closure and is not taken out gets one.
LEMMA ScheduledKeeps ==
  ASSUME IInv, QueueInv, NEW t \in Tasks, place[t] = 0, t \notin due, Enters(t),
         high' = high + 1, main' = main, UNCHANGED due, running' = running \ {t},
         spawned' = spawned \cup {t},
         task' \in [Tasks -> TaskStates], \A u \in Tasks : u # t => task'[u] = task[u],
         task'[t] \in {"scheduled", "dropped"}
  PROVE  QueueInv'
<1>1. /\ place' \in [Tasks -> Nat]
      /\ place'[t] > 0
      /\ \A u \in Tasks : u # t => place'[u] = place[u]
      /\ (\A u \in Tasks : place[u] <= high)'
      /\ Distinct'
  BY EntersLast DEF QueueInv, ScheduledIsQueued, Distinct
<1>2. QueueTypeOK'
  BY <1>1 DEF QueueInv, QueueTypeOK
<1>3. Whereabouts'
  BY <1>1 DEF QueueInv, Whereabouts, QueueTypeOK
<1>4. ScheduledIsQueued'
  <2>1. spawned \subseteq Tasks /\ t \notin (due \cup running)'
    BY DEF QueueInv, QueueTypeOK
  <2>2. \A u \in spawned' : u # t => u \in spawned /\ ((u \in due \cup running)' <=> u \in due \cup running)
    BY <2>1
  <2> QED
    BY <1>1, <2>1, <2>2 DEF QueueInv, ScheduledIsQueued, Distinct
<1> QED
  BY <1>2, <1>3, <1>4 DEF QueueInv

\* The tasks are in one of the six states of ThreadTask, before and after a step.
LEMMA StatesOfTasks ==
  ASSUME ThreadInv, [TasksNext]_allVars
  PROVE  /\ task \in [Tasks -> TaskStates] /\ task' \in [Tasks -> TaskStates]
         /\ ThreadInv'
<1>1. ThreadInv'
  BY QueueStepOfTask, ThreadStep
<1> QED
  BY <1>1 DEF ThreadInv, ThreadTypeOK, TaskStates

\* Before anything is spawned, no task has a place in the queue.
LEMMA QueueStart == TasksInit => QueueInv
BY DEF TasksInit, ThreadInit, Init, QueueInv, QueueTypeOK, Whereabouts, ScheduledIsQueued

\* Each step keeps track of where the tasks are.
LEMMA QueueStep == IInv /\ ThreadInv /\ QueueInv /\ [TasksNext]_allVars => QueueInv'
<1> SUFFICES ASSUME IInv, ThreadInv, QueueInv, [TasksNext]_allVars PROVE QueueInv'
  OBVIOUS
<1>0. high \in Nat /\ high + 1 \in Nat
  BY DEF IInv, TypeOK
<1>a. task \in [Tasks -> TaskStates] /\ task' \in [Tasks -> TaskStates]
  BY StatesOfTasks
<1>b. place \in [Tasks -> Nat] /\ spawned \subseteq Tasks /\ due \subseteq Tasks /\ running \subseteq Tasks
  BY DEF QueueInv, QueueTypeOK
<1>1. ASSUME NEW p \in Priorities, OtherQueues(p) PROVE QueueInv'
  <2>1. UNCHANGED <<task, place, spawned, due, running>>
    BY <1>1 DEF OtherQueues, threadVars, queueVars
  <2>2. (high' = high + 1 \/ high' = high) /\ main' = main
    BY <1>1 DEF OtherQueues, Queue, MainQueues, QueueFunc
  <2> QED
    BY <1>0, <2>1, <2>2, TasksUntouched
<1>2. ASSUME NEW p \in Priorities, Signals(p) PROVE QueueInv'
  <2>1. UNCHANGED <<task, place, spawned, due, running>> /\ high' = high /\ main' = main
    BY <1>2 DEF Signals, Signal, threadVars, queueVars
  <2> QED
    BY <1>0, <2>1, TasksUntouched
<1>3. ASSUME NEW t \in Tasks, SpawnTask(t) PROVE QueueInv'
  <2>1. t \notin spawned /\ spawned' = spawned \cup {t} /\ UNCHANGED <<task, due, running>>
        /\ Enters(t) /\ high' = high + 1 /\ main' = main
    BY <1>3 DEF SpawnTask, Scheduled, Queue, MainQueues, QueueFunc, threadVars
  <2>2. place[t] = 0 /\ t \notin due /\ t \notin running /\ task[t] = "scheduled"
    BY <2>1 DEF QueueInv, Whereabouts
  <2> QED
    BY <1>a, <2>1, <2>2, ScheduledKeeps
<1>4. ASSUME NEW t \in Tasks, DropTask(t) PROVE QueueInv'
  <2>1. t \in spawned /\ UNCHANGED <<spawned, due, running>>
        /\ task' = [task EXCEPT ![t] = "dropped"] /\ task[t] \in {"scheduled", "pending"}
    BY <1>4 DEF DropTask, Drop
  <2>2. task'[t] = "dropped" /\ \A u \in Tasks : u # t => task'[u] = task[u]
    BY <1>a, <2>1
  <2>3. CASE task[t] = "pending" /\ t \notin running
    <3>1. Enters(t) /\ high' = high + 1 /\ main' = main
      BY <1>4, <2>3 DEF DropTask, Scheduled, Queue, MainQueues, QueueFunc
    <3>2. place[t] = 0 /\ t \notin due
      BY <2>3 DEF QueueInv, Whereabouts
    <3> QED
      BY <1>a, <2>1, <2>2, <2>3, <3>1, <3>2, ScheduledKeeps
  <2>4. CASE ~(task[t] = "pending" /\ t \notin running)
    <3>1. UNCHANGED <<place, high, main>>
      BY <1>4, <2>4 DEF DropTask, vars
    <3> QED
      BY <2>1, <2>2, <3>1 DEF QueueInv, QueueTypeOK, Whereabouts, ScheduledIsQueued
  <2> QED
    BY <2>3, <2>4
<1>5. ASSUME NEW t \in Tasks, ThreadEnds(t) PROVE QueueInv'
  <2>1. UNCHANGED <<task, place, spawned, due, running>> /\ high' = high /\ main' = main
    BY <1>5 DEF ThreadEnds, Send, Panic, vars, queueVars
  <2> QED
    BY <1>0, <2>1, TasksUntouched
<1>6. ASSUME NEW t \in Tasks, WakeTask(t) PROVE QueueInv'
  <2>1. UNCHANGED <<spawned, due, running>>
    BY <1>6 DEF WakeTask
  <2>2. CASE waker[t] /\ task[t] = "pending"
    <3>1. task'[t] = "scheduled" /\ \A u \in Tasks : u # t => task'[u] = task[u]
      BY <1>6, <1>a, <2>2 DEF WakeTask, Wake
    <3>2. place[t] = 0 /\ t \notin due /\ t \in spawned
      BY <2>2 DEF QueueInv, Whereabouts
    <3>3. CASE t \notin running
      <4>1. Enters(t) /\ high' = high + 1 /\ main' = main
        BY <1>6, <2>2, <3>3 DEF WakeTask, Queue, QueueFunc
      <4> QED
        BY <1>a, <2>1, <3>1, <3>2, <3>3, <4>1, ScheduledKeeps
    <3>4. CASE t \in running
      <4>1. UNCHANGED <<place, high, main>>
        BY <1>6, <3>4 DEF WakeTask, vars
      <4> QED
        BY <2>1, <3>1, <3>2, <3>4, <4>1 DEF QueueInv, QueueTypeOK, Whereabouts, ScheduledIsQueued
    <3> QED
      BY <3>3, <3>4
  <2>3. CASE ~(waker[t] /\ task[t] = "pending")
    <3>1. task' = task
      BY <1>6, <1>a, <2>3 DEF WakeTask, Wake
    <3>2. UNCHANGED <<place, high, main>>
      BY <1>6, <2>3 DEF WakeTask, vars
    <3> QED
      BY <1>0, <2>1, <3>1, <3>2, TasksUntouched
  <2> QED
    BY <2>2, <2>3
<1>7. CASE PopFunc
  <2>1. /\ main = "pop" /\ main' = "func" /\ high > 0 /\ high' = high - 1
        /\ place' = [t \in Tasks |-> IF place[t] = 0 THEN 0 ELSE place[t] - 1]
        /\ due' = {t \in Tasks : place[t] = 1 /\ task[t] = "scheduled"}
        /\ UNCHANGED <<task, spawned, running>>
    BY <1>7 DEF PopFunc, PopHigh, threadVars
  <2>2. due = {} /\ running = {}
    BY <2>1 DEF QueueInv, QueueTypeOK
  <2>3. \A t \in Tasks : /\ place'[t] \in Nat
                         /\ place'[t] = (IF place[t] = 0 THEN 0 ELSE place[t] - 1)
                         /\ place[t] <= high
    BY <1>b, <2>1 DEF QueueInv, QueueTypeOK
  <2>4. \A t \in Tasks : place'[t] <= high'
    BY <1>0, <1>b, <2>1, <2>3
  <2>5. \A t, u \in Tasks : place[t] = place[u] /\ place[t] > 0 => t = u
    BY DEF QueueInv, ScheduledIsQueued
  <2>6. QueueTypeOK'
    BY <1>b, <2>1, <2>2, <2>3, <2>4, <2>5 DEF QueueTypeOK
  <2>7. Whereabouts'
    BY <1>b, <2>1, <2>2, <2>3 DEF QueueInv, Whereabouts
  <2>8. ScheduledIsQueued'
    BY <1>b, <2>1, <2>2, <2>3, <2>5 DEF QueueInv, ScheduledIsQueued
  <2> QED
    BY <2>6, <2>7, <2>8 DEF QueueInv
<1>8. ASSUME NEW t \in Tasks, Poll(t) PROVE QueueInv'
  <2>1. t \in due /\ due' = {} /\ running' = {t} /\ UNCHANGED <<place, spawned, high, main>>
    BY <1>8 DEF Poll, vars
  <2>2. task'[t] \in {"ready", "polling", "failed"} /\ \A u \in Tasks : u # t => task'[u] = task[u]
    <3>1. channel[t] \in {"empty", "result", "disconnected"} /\ TryRecv(t)
      BY <1>8 DEF ThreadInv, ThreadTypeOK, Poll
    <3> QED
      BY <1>a, <3>1 DEF TryRecv
  <2>3. due = {t} /\ running = {} /\ main = "func" /\ place[t] = 0 /\ t \in spawned
    BY <2>1 DEF QueueInv, QueueTypeOK, Whereabouts
  <2> QED
    BY <2>1, <2>2, <2>3 DEF QueueInv, QueueTypeOK, Whereabouts, ScheduledIsQueued
<1>9. ASSUME NEW t \in Tasks, PollEnds(t) PROVE QueueInv'
  <2>1. task[t] = "polling" /\ UNCHANGED <<place, spawned, high, main, due, running>>
    BY <1>9 DEF PollEnds, StoreWaker, vars, queueVars
  <2>2. task'[t] = "pending" /\ \A u \in Tasks : u # t => task'[u] = task[u]
    BY <1>9, <1>a DEF PollEnds, StoreWaker
  <2> QED
    BY <2>1, <2>2 DEF QueueInv, QueueTypeOK, Whereabouts, ScheduledIsQueued
<1>10. ASSUME NEW t \in Tasks, Reschedule(t) PROVE QueueInv'
  <2>1. t \in running /\ task[t] = "scheduled" /\ Enters(t) /\ high' = high + 1 /\ main' = main
        /\ running' = {} /\ UNCHANGED <<task, spawned, due>>
    BY <1>10 DEF Reschedule, MainQueues, QueueFunc, threadVars
  <2>2. running = {t} /\ t \notin due /\ place[t] = 0 /\ t \in spawned
    BY <2>1 DEF QueueInv, QueueTypeOK, Whereabouts
  <2>3. running' = running \ {t} /\ spawned' = spawned \cup {t}
    BY <2>1, <2>2
  <2> QED
    BY <1>a, <2>1, <2>2, <2>3, ScheduledKeeps
<1>11. CASE RunReturns
  <2>1. /\ \A t \in due \cup running : task[t] \notin {"scheduled", "polling"}
        /\ due' = {} /\ running' = {} /\ UNCHANGED <<task, spawned, place, high>>
    BY <1>11 DEF RunReturns, FuncReturns, threadVars
  <2> QED
    BY <2>1 DEF QueueInv, QueueTypeOK, Whereabouts, ScheduledIsQueued
<1>12. CASE LoopStep \/ Interrupted
  <2>1. UNCHANGED <<task, place, spawned, due, running, high>> /\ main # "func"
    BY <1>12 DEF LoopStep, Interrupted, PopLow, PopNone, Drain, CheckHigh, CheckLow, EventsHandled,
       EventsDispatched, PollReturns, PollInterrupted, threadVars, queueVars
  <2>2. due \cup running = {}
    BY <2>1 DEF QueueInv, QueueTypeOK
  <2> QED
    BY <1>0, <2>1, <2>2, TasksUntouched
<1>13. CASE UNCHANGED allVars
  <2>1. UNCHANGED <<task, place, spawned, due, running, high, main>>
    BY <1>13 DEF allVars, vars, threadVars, queueVars
  <2> QED
    BY <1>0, <2>1, TasksUntouched
<1> QED
  BY <1>1, <1>2, <1>3, <1>4, <1>5, <1>6, <1>7, <1>8, <1>9, <1>10, <1>11, <1>12, <1>13
  DEF TasksNext, MainWork

\* A scheduled task is polled once: it has one closure in the queue, or was taken out of
\* it, or is being run and will be queued again, for any number of tasks.
THEOREM ScheduledOnce == TasksSpec => []ScheduledIsQueued
<1>1. TasksInit => QueueInv /\ ThreadInv /\ IInv
  BY QueueStart, ThreadStart, InitInv DEF TasksInit
<1>2. ThreadInv /\ [TasksNext]_allVars => ThreadInv'
  BY QueueStepOfTask, ThreadStep
<1>3. IInv /\ [TasksNext]_allVars => IInv'
  BY TaskStepInQueue, StepInv
<1>4. QueueInv => ScheduledIsQueued
  BY DEF QueueInv
<1> QED
  BY <1>1, <1>2, <1>3, <1>4, QueueStep, PTL DEF TasksSpec

=============================================================================
