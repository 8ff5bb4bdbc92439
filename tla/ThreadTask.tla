----------------------------- MODULE ThreadTask -----------------------------
(***************************************************************************)
(* spawn_into_new_thread of promise/src/spawn.rs: a task of the main       *)
(* thread that waits for what a new thread computes.                       *)
(*                                                                         *)
(* The thread sends its result over a channel and then wakes up whoever    *)
(* left a waker.  The task, polled by the main thread, looks into the      *)
(* channel and leaves its waker when it finds nothing there.  The two      *)
(* meet only at the waker, which is taken and stored under a lock.  Names  *)
(* begin with Thread so that QueuedTasks can extend SpawnQueue beside it.  *)
(***************************************************************************)
CONSTANT Tasks

VARIABLES
    thread,     \* how far the thread of each task is
    channel,    \* what is in its channel
    waker,      \* the task left its waker
    task        \* the state of the task

threadVars == <<thread, channel, waker, task>>

ThreadInit ==
    /\ thread = [t \in Tasks |-> "running"]
    /\ channel = [t \in Tasks |-> "empty"]
    /\ waker = [t \in Tasks |-> FALSE]
    /\ task = [t \in Tasks |-> "scheduled"]

----------------------------------------------------------------------------
(* The thread.                                                             *)

\* f returns; the send fails, and the thread panics, if nobody is to receive any more.
\* A task that was dropped holds its end until the main thread comes across it.
Send(t) ==
    /\ thread[t] = "running"
    /\ \/ /\ thread' = [thread EXCEPT ![t] = "sent"]
          /\ channel' = [channel EXCEPT ![t] = "result"]
       \/ /\ task[t] = "dropped"
          /\ thread' = [thread EXCEPT ![t] = "panicked"]
          /\ UNCHANGED channel
    /\ UNCHANGED <<waker, task>>

\* f panics, which drops the sending end of the channel.
Panic(t) ==
    /\ thread[t] = "running"
    /\ thread' = [thread EXCEPT ![t] = "panicked"]
    /\ channel' = [channel EXCEPT ![t] = "disconnected"]
    /\ UNCHANGED <<waker, task>>

\* The waker, if there is one, is taken and schedules the task.
Wake(t) ==
    /\ thread[t] = "sent"
    /\ thread' = [thread EXCEPT ![t] = "done"]
    /\ IF waker[t]
       THEN /\ waker' = [waker EXCEPT ![t] = FALSE]
            /\ task' = [task EXCEPT ![t] = IF @ = "pending" THEN "scheduled" ELSE @]
       ELSE UNCHANGED <<waker, task>>
    /\ UNCHANGED channel

----------------------------------------------------------------------------
(* PendingResult::poll, in the main thread: one task at a time.            *)

MainIdle == \A t \in Tasks : task[t] # "polling"

\* Mutant: a channel without a sender is taken for one with a result.
DisconnectedIsReady(t) ==
    /\ MainIdle /\ task[t] = "scheduled"
    /\ task' = [task EXCEPT ![t] = IF channel[t] = "empty" THEN "polling" ELSE "ready"]
    /\ channel' = [channel EXCEPT ![t] = IF @ = "result" THEN "disconnected" ELSE @]
    /\ UNCHANGED <<thread, waker>>

\* try_recv.
TryRecv(t) ==
    /\ MainIdle /\ task[t] = "scheduled"
    /\ task' = [task EXCEPT ![t] =
                  CASE channel[t] = "result" -> "ready"
                    [] channel[t] = "empty" -> "polling"
                    [] channel[t] = "disconnected" -> "failed"]
    /\ channel' = [channel EXCEPT ![t] = IF @ = "result" THEN "disconnected" ELSE @]
    /\ UNCHANGED <<thread, waker>>

\* The channel was empty: the waker is stored.
StoreWaker(t) ==
    /\ task[t] = "polling"
    /\ waker' = [waker EXCEPT ![t] = TRUE]
    /\ task' = [task EXCEPT ![t] = "pending"]
    /\ UNCHANGED <<thread, channel>>

\* The caller drops the task it was given, which is not polled again.
Drop(t) ==
    /\ MainIdle /\ task[t] \in {"scheduled", "pending"}
    /\ task' = [task EXCEPT ![t] = "dropped"]
    /\ UNCHANGED <<thread, channel, waker>>

Terminated ==
    /\ \A t \in Tasks : thread[t] \in {"done", "panicked"}
    /\ \A t \in Tasks : task[t] \notin {"scheduled", "polling"}
    /\ UNCHANGED threadVars

ThreadNext ==
    \/ \E t \in Tasks : Send(t)
    \/ \E t \in Tasks : Panic(t)
    \/ \E t \in Tasks : Wake(t)
    \/ \E t \in Tasks : TryRecv(t)
    \/ \E t \in Tasks : StoreWaker(t)
    \/ \E t \in Tasks : Drop(t)
    \/ Terminated

\* Threads are scheduled, and a scheduled task is polled, which QueuedTasks shows of the
\* spawn queue.  Nothing is said of f, which may never return.
ThreadFairness ==
    \A t \in Tasks :
        WF_threadVars(Wake(t)) /\ WF_threadVars(StoreWaker(t)) /\ SF_threadVars(TryRecv(t))

ThreadSpec == ThreadInit /\ [][ThreadNext]_threadVars /\ ThreadFairness

----------------------------------------------------------------------------
(* Properties.                                                             *)

\* A result in the channel was sent by its thread and not taken, and a task that waits
\* for a running thread has left its waker.
ThreadTypeOK ==
    /\ thread \in [Tasks -> {"running", "sent", "done", "panicked"}]
    /\ channel \in [Tasks -> {"empty", "result", "disconnected"}]
    /\ waker \in [Tasks -> BOOLEAN]
    /\ task \in [Tasks -> {"scheduled", "polling", "pending", "ready", "failed", "dropped"}]
    /\ \A t \in Tasks :
        /\ channel[t] = "result" => thread[t] \in {"sent", "done"} /\ task[t] # "ready"
        /\ task[t] = "pending" /\ thread[t] = "running" => waker[t]

\* Who awaits the task gets a result only if f returned one, and an error only if
\* it did not: the two ways in which a channel loses its sender are told apart.
OutcomeIsTheThreads ==
    \A t \in Tasks :
        /\ task[t] = "ready" => thread[t] \in {"sent", "done"}
        /\ task[t] = "failed" => thread[t] = "panicked"

\* "If someone polled the thread before we got here, they will have populated the waker;
\* extract it and wake up the scheduler so that it will poll the result again"
\* (promise/src/spawn.rs:81): once the thread has sent its result, who awaits it gets it,
\* or gave it up.  It does not hold: a poll that found the channel empty may have yet to
\* store its waker when the thread looks for one, and nothing wakes the task after that.
WaitingTaskIsWoken ==
    \A t \in Tasks : thread[t] = "sent" ~> task[t] \in {"ready", "dropped"}

=============================================================================
