--------------------------- MODULE SpawnQueueEvent ---------------------------
(***************************************************************************)
(* The queue of the main thread on Windows: window/src/spawn.rs and        *)
(* run_message_loop of window/src/os/windows/connection.rs.                *)
(*                                                                         *)
(* An event that stays set until it is reset stands for "something was     *)
(* queued".  The main thread resets it and then takes closures until it    *)
(* finds none.  While a window is sized the system calls back into the     *)
(* window procedure, which runs the queue again from within a closure or   *)
(* the handling of a message.                                              *)
(***************************************************************************)
EXTENDS Naturals, Sequences

CONSTANTS
    MaxQueued,      \* bound on the closures queued at a time
    MaxNested       \* bound on the runs of the queue within one another

ASSUME BoundAssumption == MaxQueued \in Nat /\ MaxNested \in Nat

Priorities == {"high", "low"}
Callers == {"func", "dispatch"}

VARIABLES
    high,       \* length of spawned_funcs
    low,        \* length of spawned_funcs_low_pri
    event,      \* event_handle is set
    signalling, \* priorities at which a thread is between queue_func and set_event
    main,       \* where the main thread is
    callers     \* what the runs in progress were called from, the last one first

vars == <<high, low, event, signalling, main, callers>>

MainPc == {"reset", "pop", "func", "peek", "dispatch", "wait"}

Init ==
    /\ high = 0 /\ low = 0
    /\ event = FALSE
    /\ signalling = {}
    /\ main = "reset"
    /\ callers = <<>>

----------------------------------------------------------------------------
(* spawn_impl, with the lock of schedule_runnable held.                    *)

QueueFunc(p) ==
    /\ p \notin signalling
    /\ high + low < MaxQueued
    /\ IF p = "high"
       THEN high' = high + 1 /\ UNCHANGED low
       ELSE low' = low + 1 /\ UNCHANGED high

Queue(p) ==
    /\ QueueFunc(p)
    /\ signalling' = signalling \cup {p}
    /\ UNCHANGED <<event, main, callers>>

Signal(p) ==
    /\ p \in signalling
    /\ signalling' = signalling \ {p}
    /\ event' = TRUE
    /\ UNCHANGED <<high, low, main, callers>>

\* The main thread queues a closure from a closure or a message.
MainQueues(p) ==
    /\ main \in Callers
    /\ QueueFunc(p)
    /\ event' = TRUE
    /\ UNCHANGED <<signalling, main, callers>>

----------------------------------------------------------------------------
(* run_impl.                                                               *)

ResetEvent ==
    /\ main = "reset"
    /\ event' = FALSE
    /\ main' = "pop"
    /\ UNCHANGED <<high, low, signalling, callers>>

\* Mutant: the queue is taken whole, and one closure of it is run.
TakeAllHigh ==
    /\ main = "pop" /\ high > 0
    /\ high' = 0
    /\ main' = "func"
    /\ UNCHANGED <<low, event, signalling, callers>>

PopHigh ==
    /\ main = "pop" /\ high > 0
    /\ high' = high - 1
    /\ main' = "func"
    /\ UNCHANGED <<low, event, signalling, callers>>

PopLow ==
    /\ main = "pop" /\ high = 0 /\ low > 0
    /\ low' = low - 1
    /\ main' = "func"
    /\ UNCHANGED <<high, event, signalling, callers>>

\* Mutant: a run takes one closure, as it does on Linux.
OneAtATime ==
    /\ main = "func"
    /\ IF callers = <<>>
       THEN main' = "peek" /\ UNCHANGED callers
       ELSE main' = Head(callers) /\ callers' = Tail(callers)
    /\ UNCHANGED <<high, low, event, signalling>>

FuncReturns ==
    /\ main = "func"
    /\ main' = "pop"
    /\ UNCHANGED <<high, low, event, signalling, callers>>

\* Nothing is queued: the run returns, to the loop or to what it was called from.
RunReturns ==
    /\ main = "pop" /\ high + low = 0
    /\ IF callers = <<>>
       THEN main' = "peek" /\ UNCHANGED callers
       ELSE main' = Head(callers) /\ callers' = Tail(callers)
    /\ UNCHANGED <<high, low, event, signalling>>

\* WM_SIZING, or WM_SIZE while the window is being sized.
NestedRun ==
    /\ main \in Callers
    /\ Len(callers) < MaxNested
    /\ main' = "reset"
    /\ callers' = <<main>> \o callers
    /\ UNCHANGED <<high, low, event, signalling>>

----------------------------------------------------------------------------
(* run_message_loop.                                                       *)

\* PeekMessageW finds a message, or none.
PeekMessage ==
    /\ main = "peek"
    /\ main' \in {"dispatch", "wait"}
    /\ UNCHANGED <<high, low, event, signalling, callers>>

DispatchReturns ==
    /\ main = "dispatch"
    /\ main' = "reset"
    /\ UNCHANGED <<high, low, event, signalling, callers>>

WaitReturns ==
    /\ main = "wait" /\ event
    /\ main' = "reset"
    /\ UNCHANGED <<high, low, event, signalling, callers>>

\* A message ends the wait, whatever the event.
WaitInterrupted ==
    /\ main = "wait"
    /\ main' = "reset"
    /\ UNCHANGED <<high, low, event, signalling, callers>>

MainStep ==
    \/ ResetEvent \/ PopHigh \/ PopLow \/ FuncReturns \/ RunReturns
    \/ PeekMessage \/ DispatchReturns \/ WaitReturns

Next ==
    \/ \E p \in Priorities : Queue(p)
    \/ \E p \in Priorities : Signal(p)
    \/ \E p \in Priorities : MainQueues(p)
    \/ ResetEvent
    \/ PopHigh
    \/ PopLow
    \/ FuncReturns
    \/ RunReturns
    \/ NestedRun
    \/ PeekMessage
    \/ DispatchReturns
    \/ WaitReturns
    \/ WaitInterrupted

Spec == Init /\ [][Next]_vars

\* The main thread is scheduled, a message is handled in the end (the user lets
\* go of the window), and a thread on its way to the event gets there.
FairSpec == Spec /\ WF_vars(MainStep) /\ \A p \in Priorities : WF_vars(Signal(p))

----------------------------------------------------------------------------
(* Properties.                                                             *)

\* The queues, the event and the stack of interrupted runs are in their ranges.
TypeOK ==
    /\ high \in Nat /\ low \in Nat /\ high + low <= MaxQueued
    /\ event \in BOOLEAN
    /\ signalling \subseteq Priorities
    /\ main \in MainPc
    /\ callers \in Seq(Callers) /\ Len(callers) <= MaxNested

\* The main thread never waits for an event that nobody will set while a closure
\* is queued, although nested runs reset the event that the outer one relies on.
NoMissedWakeup ==
    main = "wait" /\ high + low > 0 => event \/ signalling # {}

Exec == INSTANCE Executor WITH high <- high, low <- low
\* The queue does what Executor says a scheduler does (promise/src/spawn.rs): closures
\* are lost nowhere, something is run while any is queued, and every one of normal
\* priority is run in the end.
ImplementsExecutor == Exec!Spec

=============================================================================
