------------------------------ MODULE Executor ------------------------------
(***************************************************************************)
(* What promise/src/spawn.rs asks of a scheduler of the main thread: it    *)
(* takes closures of two priorities from any thread and runs every one of  *)
(* them.  Closures of one priority run in order, so a queue is known by    *)
(* its length.                                                             *)
(***************************************************************************)
EXTENDS Naturals

VARIABLES
    high,   \* closures of normal priority that have not been run
    low     \* closures of low priority that have not been run

vars == <<high, low>>

Init == high = 0 /\ low = 0

QueueHigh == high' = high + 1 /\ UNCHANGED low
QueueLow == low' = low + 1 /\ UNCHANGED high

RunHigh == high > 0 /\ high' = high - 1 /\ UNCHANGED low
RunLow == low > 0 /\ low' = low - 1 /\ UNCHANGED high

Next == QueueHigh \/ QueueLow \/ RunHigh \/ RunLow

\* While something is queued something is run, and closures of normal priority
\* are not held up by any number of those of low priority.
Spec == Init /\ [][Next]_vars /\ WF_vars(RunHigh) /\ WF_vars(RunHigh \/ RunLow)

=============================================================================
