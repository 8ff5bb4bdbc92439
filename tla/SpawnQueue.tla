----------------------------- MODULE SpawnQueue -----------------------------
(***************************************************************************)
(* The queue of the main thread on X11 and Wayland: window/src/spawn.rs    *)
(* and the loops of window/src/os/{x11,wayland}/connection.rs.             *)
(*                                                                         *)
(* A thread that queues a closure then writes a byte to a pipe, without    *)
(* blocking.  The main thread takes one closure at a time, empties the     *)
(* pipe a little, and sleeps in poll only when it then finds both queues   *)
(* empty.  The poll is edge-triggered: it reports the pipe once for each   *)
(* write since it last did, and only while there is a byte in it.          *)
(***************************************************************************)
EXTENDS Naturals

CONSTANTS
    PipeCapacity,   \* bytes the pipe holds
    DrainMax,       \* bytes taken out of it at a time, 64
    MaxQueued       \* bound on the closures queued at a time

ASSUME PipeAssumption == PipeCapacity \in Nat \ {0} /\ DrainMax \in Nat \ {0}
ASSUME BoundAssumption == MaxQueued \in Nat

Priorities == {"high", "low"}
Platforms == {"x11", "wayland"}

VARIABLES
    platform,   \* the window system the process runs on
    high,       \* length of spawned_funcs
    low,        \* length of spawned_funcs_low_pri
    pipe,       \* bytes in the pipe
    edge,       \* the pipe was written since poll last reported it
    signalling, \* priorities at which a thread is between queue_func and its write
    main        \* where the main thread is

vars == <<platform, high, low, pipe, edge, signalling, main>>

MainPc == {"events", "pop", "func", "drain", "check", "check_low",
           "dispatch", "dispatch_busy", "poll", "poll_busy"}

Loop == IF platform = "wayland" THEN "pop" ELSE "events"

Init ==
    /\ platform \in Platforms
    /\ high = 0 /\ low = 0
    /\ pipe = 0 /\ edge = FALSE
    /\ signalling = {}
    /\ main = Loop

----------------------------------------------------------------------------
(* spawn_impl.  schedule_runnable holds the lock of its priority from      *)
(* before queue_func until after the write.                                *)

QueueFunc(p) ==
    /\ p \notin signalling
    /\ high + low < MaxQueued
    /\ IF p = "high"
       THEN high' = high + 1 /\ UNCHANGED low
       ELSE low' = low + 1 /\ UNCHANGED high

\* A full pipe takes no byte: "Failed to signal spawn queue pipe".
WritePipe ==
    IF pipe < PipeCapacity
    THEN pipe' = pipe + 1 /\ edge' = TRUE
    ELSE UNCHANGED <<pipe, edge>>

\* Any thread but the main one.
Queue(p) ==
    /\ QueueFunc(p)
    /\ signalling' = signalling \cup {p}
    /\ UNCHANGED <<platform, pipe, edge, main>>

Signal(p) ==
    /\ p \in signalling
    /\ WritePipe
    /\ signalling' = signalling \ {p}
    /\ UNCHANGED <<platform, high, low, main>>

\* The main thread queues closures too: from the closure it runs, and while it
\* handles events of the window system.
MainQueues(p) ==
    /\ main \in {"events", "func", "dispatch", "dispatch_busy"}
    /\ QueueFunc(p)
    /\ WritePipe
    /\ UNCHANGED <<platform, signalling, main>>

----------------------------------------------------------------------------
(* run_impl: pop_func, the closure, the pipe, has_any_queued.  pop_func    *)
(* keeps the first queue locked until it has looked at the second, which   *)
(* makes it one step; has_any_queued lets go of it.                        *)

\* Mutant: the queue is taken whole, and one closure of it is run.
TakeAllHigh ==
    /\ main = "pop" /\ high > 0
    /\ high' = 0
    /\ main' = "func"
    /\ UNCHANGED <<platform, low, pipe, edge, signalling>>

PopHigh ==
    /\ main = "pop" /\ high > 0
    /\ high' = high - 1
    /\ main' = "func"
    /\ UNCHANGED <<platform, low, pipe, edge, signalling>>

PopLow ==
    /\ main = "pop" /\ high = 0 /\ low > 0
    /\ low' = low - 1
    /\ main' = "func"
    /\ UNCHANGED <<platform, high, pipe, edge, signalling>>

PopNone ==
    /\ main = "pop" /\ high + low = 0
    /\ main' = "drain"
    /\ UNCHANGED <<platform, high, low, pipe, edge, signalling>>

FuncReturns ==
    /\ main = "func"
    /\ main' = "drain"
    /\ UNCHANGED <<platform, high, low, pipe, edge, signalling>>

Drain ==
    /\ main = "drain"
    /\ pipe' = IF pipe > DrainMax THEN pipe - DrainMax ELSE 0
    /\ main' = "check"
    /\ UNCHANGED <<platform, high, low, edge, signalling>>

\* Something is queued: X11 starts over, Wayland goes on with a timeout of zero.
Busy == IF platform = "wayland" THEN "dispatch_busy" ELSE Loop

\* Mutant: only the first queue is looked at.
CheckHighOnly ==
    /\ main = "check"
    /\ main' = IF high = 0 THEN "dispatch" ELSE Busy
    /\ UNCHANGED <<platform, high, low, pipe, edge, signalling>>

CheckHigh ==
    /\ main = "check"
    /\ main' = IF high = 0 THEN "check_low" ELSE Busy
    /\ UNCHANGED <<platform, high, low, pipe, edge, signalling>>

CheckLow ==
    /\ main = "check_low"
    /\ main' = IF low = 0 THEN "dispatch" ELSE Busy
    /\ UNCHANGED <<platform, high, low, pipe, edge, signalling>>

----------------------------------------------------------------------------
(* run_message_loop.                                                       *)

EventsHandled ==
    /\ main = "events"
    /\ main' = "pop"
    /\ UNCHANGED <<platform, high, low, pipe, edge, signalling>>

\* Mutant: the poll never waits.
AlwaysBusy ==
    /\ main \in {"dispatch", "dispatch_busy"}
    /\ main' = "poll_busy"
    /\ UNCHANGED <<platform, high, low, pipe, edge, signalling>>

EventsDispatched ==
    /\ main \in {"dispatch", "dispatch_busy"}
    /\ main' = IF main = "dispatch" THEN "poll" ELSE "poll_busy"
    /\ UNCHANGED <<platform, high, low, pipe, edge, signalling>>

\* What makes poll report the pipe.
Reported == edge /\ pipe > 0

\* poll returns: it has something to report, or a timeout of zero.
PollReturns ==
    /\ (main = "poll" /\ Reported) \/ main = "poll_busy"
    /\ edge' = FALSE
    /\ main' = Loop
    /\ UNCHANGED <<platform, high, low, pipe, signalling>>

\* poll returns for the window system or a signal, whatever is in the pipe.
PollInterrupted ==
    /\ main = "poll"
    /\ edge' \in {edge, FALSE}
    /\ main' = Loop
    /\ UNCHANGED <<platform, high, low, pipe, signalling>>

Next ==
    \/ \E p \in Priorities : Queue(p)
    \/ \E p \in Priorities : Signal(p)
    \/ \E p \in Priorities : MainQueues(p)
    \/ PopHigh
    \/ PopLow
    \/ PopNone
    \/ FuncReturns
    \/ Drain
    \/ CheckHigh
    \/ CheckLow
    \/ EventsHandled
    \/ EventsDispatched
    \/ PollReturns
    \/ PollInterrupted

Spec == Init /\ [][Next]_vars

----------------------------------------------------------------------------
(* Properties.                                                             *)

\* The lengths, the pipe and the place of the main thread are in their ranges: a byte
\* too many is not written (WritePipe).
TypeOK ==
    /\ platform \in Platforms
    /\ high \in Nat /\ low \in Nat /\ high + low <= MaxQueued
    /\ pipe \in 0..PipeCapacity /\ edge \in BOOLEAN
    /\ signalling \subseteq Priorities
    /\ main \in MainPc

\* "it does guarantee a wakeup if the main thread is asleep and we enqueue some
\* number of items" (SpawnQueue::new_impl): the main thread is never left in a
\* poll that nothing will end while a closure is queued, although writes may
\* fail, bytes may be drained that belong to closures not yet run, and the
\* queues are inspected under two locks.
NoMissedWakeup ==
    main = "poll" /\ high + low > 0 => Reported \/ signalling # {}

Exec == INSTANCE Executor WITH high <- high, low <- low
\* The queue does what Executor says a scheduler does (promise/src/spawn.rs): closures
\* are lost nowhere, something is run while any is queued, and every one of normal
\* priority is run in the end.
ImplementsExecutor == Exec!Spec

=============================================================================
