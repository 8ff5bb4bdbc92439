--------------------------- MODULE MCQueuedTasks ---------------------------
(* A task that waits for a thread, other closures, and a small pipe, which *)
(* fills up and is not always emptied at once.                             *)
EXTENDS QueuedTasks

CONSTANT t1
MCTasks == {t1}

ASSUME DrainMax < PipeCapacity /\ PipeCapacity < MaxQueued
=============================================================================
