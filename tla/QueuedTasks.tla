---------------------------- MODULE QueuedTasks ----------------------------
(***************************************************************************)
(* The tasks of ThreadTask in the queue of SpawnQueue: runnables in the    *)
(* sense of promise/src/spawn.rs and window/src/spawn.rs.                  *)
(*                                                                         *)
(* A task that is scheduled has a closure of normal priority in the queue, *)
(* put there by spawn_into_main_thread or by the thread that wakes it.  A  *)
(* task that is woken while the main thread runs it has none: whoever runs *)
(* it sees to it when the poll is over.  ThreadTask takes for granted that *)
(* a scheduled task is polled; here that follows from the message loop.    *)
(***************************************************************************)
EXTENDS SpawnQueue, ThreadTask, FiniteSets

VARIABLES
    spawned,    \* tasks that spawn_into_main_thread was called for
    place,      \* of the closure of each task in spawned_funcs; 0 if it has none there
    due,        \* the task that the closure taken out is to poll, if any
    running     \* the task that it polls or has polled, if any

queueVars == <<spawned, place, due, running>>
allVars == <<vars, threadVars, queueVars>>

TasksInit ==
    /\ Init /\ ThreadInit
    /\ spawned = {} /\ place = [t \in Tasks |-> 0]
    /\ due = {} /\ running = {}

\* The main thread does not run a task.
NoTask == due \cup running = {}

Enters(t) == place' = [place EXCEPT ![t] = high + 1]

\* Bound: other closures leave room for those of the tasks that may still be queued.
LeavesRoom ==
    LET outside == {t \in Tasks : place[t] = 0 /\ task[t] \in {"scheduled", "polling", "pending"}}
    IN  high + low + Cardinality(outside) < MaxQueued

\* schedule_runnable, in some thread other than the main one or in the main one.
Scheduled(t) ==
    /\ Queue("high") \/ (NoTask /\ MainQueues("high"))
    /\ Enters(t)

----------------------------------------------------------------------------
(* Any thread.                                                             *)

\* Closures that have nothing to do with the tasks.
OtherQueues(p) ==
    /\ LeavesRoom
    /\ Queue(p) \/ (NoTask /\ MainQueues(p))
    /\ UNCHANGED <<threadVars, queueVars>>

Signals(p) == Signal(p) /\ UNCHANGED <<threadVars, queueVars>>

\* The end of spawn_into_new_thread; the thread it started may be done by now.
SpawnTask(t) ==
    /\ t \notin spawned
    /\ Scheduled(t)
    /\ spawned' = spawned \cup {t}
    /\ UNCHANGED <<threadVars, due, running>>

\* The caller has no task to drop before that.  One that waits is scheduled once more,
\* for the main thread to drop what it holds.
DropTask(t) ==
    /\ t \in spawned
    /\ Drop(t)
    /\ IF task[t] = "pending" /\ t \notin running
       THEN Scheduled(t)
       ELSE UNCHANGED <<vars, place>>
    /\ UNCHANGED <<spawned, due, running>>

ThreadEnds(t) ==
    /\ Send(t) \/ Panic(t)
    /\ UNCHANGED <<vars, queueVars>>

\* The waker schedules a task that waits and is not being run.
WakeTask(t) ==
    /\ Wake(t)
    /\ IF waker[t] /\ task[t] = "pending" /\ t \notin running
       THEN Queue("high") /\ Enters(t)
       ELSE UNCHANGED <<vars, place>>
    /\ UNCHANGED <<spawned, due, running>>

----------------------------------------------------------------------------
(* The main thread.                                                        *)

\* A closure is taken; if its task was dropped, it has nothing to poll.
PopFunc ==
    /\ PopHigh
    /\ place' = [t \in Tasks |-> IF place[t] = 0 THEN 0 ELSE place[t] - 1]
    /\ due' = {t \in Tasks : place[t] = 1 /\ task[t] = "scheduled"}
    /\ UNCHANGED <<threadVars, spawned, running>>

\* Runnable::run: one poll.
Poll(t) ==
    /\ t \in due
    /\ TryRecv(t)
    /\ due' = {} /\ running' = {t}
    /\ UNCHANGED <<vars, spawned, place>>

PollEnds(t) == StoreWaker(t) /\ UNCHANGED <<vars, queueVars>>

\* The task was woken while it was run, and goes to the end of the queue.
Reschedule(t) ==
    /\ t \in running /\ task[t] = "scheduled"
    /\ MainQueues("high") /\ Enters(t)
    /\ running' = {}
    /\ UNCHANGED <<threadVars, spawned, due>>

\* Mutant: a task that was woken while it was run is not scheduled again.
RunForgets ==
    /\ \A t \in due \cup running : task[t] # "polling"
    /\ FuncReturns
    /\ due' = {} /\ running' = {}
    /\ UNCHANGED <<threadVars, spawned, place>>

\* The closure is done, of a task or of something else.
RunReturns ==
    /\ \A t \in due \cup running : task[t] \notin {"scheduled", "polling"}
    /\ FuncReturns
    /\ due' = {} /\ running' = {}
    /\ UNCHANGED <<threadVars, spawned, place>>

LoopStep ==
    /\ \/ PopLow \/ PopNone \/ Drain \/ CheckHigh \/ CheckLow
       \/ EventsHandled \/ EventsDispatched \/ PollReturns
    /\ UNCHANGED <<threadVars, queueVars>>

Interrupted == PollInterrupted /\ UNCHANGED <<threadVars, queueVars>>

MainWork ==
    \/ PopFunc \/ RunReturns \/ LoopStep
    \/ \E t \in Tasks : Poll(t) \/ PollEnds(t) \/ Reschedule(t)

TasksNext ==
    \/ \E p \in Priorities : OtherQueues(p)
    \/ \E p \in Priorities : Signals(p)
    \/ \E t \in Tasks : SpawnTask(t)
    \/ \E t \in Tasks : DropTask(t)
    \/ \E t \in Tasks : ThreadEnds(t)
    \/ \E t \in Tasks : WakeTask(t)
    \/ MainWork
    \/ Interrupted

TasksSpec == TasksInit /\ [][TasksNext]_allVars

\* The main thread is scheduled, and so is a thread on its way to the pipe.  Who waits for
\* the lock of schedule_runnable gets it, to spawn a task or to wake it.
FairTasks ==
    /\ TasksSpec
    /\ WF_allVars(MainWork)
    /\ \A p \in Priorities : WF_allVars(Signals(p))
    /\ \A t \in Tasks : SF_allVars(SpawnTask(t)) /\ SF_allVars(WakeTask(t))

----------------------------------------------------------------------------
(* Properties.                                                             *)

\* The places in the queue are taken by one task each, and the main thread is in the
\* middle of a closure when it runs a task.
QueueTypeOK ==
    /\ spawned \subseteq Tasks
    /\ place \in [Tasks -> Nat] /\ \A t \in Tasks : place[t] <= high
    /\ due \subseteq Tasks /\ running \subseteq Tasks
    /\ due = {} \/ running = {}
    /\ due \cup running # {} => main = "func"
    /\ \A t, u \in due \cup running : t = u

\* A task that is scheduled is on its way to be polled, and once only, whoever scheduled
\* it and whatever the main thread was doing with it at the time: it has one closure in
\* the queue, or was just taken out of it, or is being run and will be queued again
\* (schedule_runnable and schedule_with_pri, Runnable::run).
ScheduledIsQueued ==
    /\ \A t \in spawned : task[t] = "scheduled" =>
        /\ place[t] > 0 \/ t \in due \cup running
        /\ place[t] > 0 => t \notin due \cup running
    /\ \A t, u \in Tasks : place[t] = place[u] /\ place[t] > 0 => t = u

\* The tasks behave as ThreadTask says: that a scheduled task is polled, which it assumes,
\* is what the queue and the message loop make of it.
ImplementsThreadTask == ThreadSpec

\* "so that we avoid being in a perpetually signalled state" (SpawnQueue::run_impl): once
\* no closure is queued any more, the main thread keeps coming to rest in poll with
\* nothing to report, however many bytes the closures of the past left in the pipe.
RestsWhenQuiet ==
    <>[](high + low = 0 /\ signalling = {}) => []<>(main = "poll" /\ ~Reported)

=============================================================================
