---------------------------- MODULE MCThreadTask ----------------------------
(* Two tasks that wait for a thread each and share the main thread. *)
EXTENDS ThreadTask

CONSTANTS t1, t2
MCTasks == {t1, t2}
=============================================================================
