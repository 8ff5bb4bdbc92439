------------------------- MODULE MCSpawnQueueEvent -------------------------
(* An instance of SpawnQueueEvent with runs nested in nested runs. *)
EXTENDS SpawnQueueEvent

ASSUME MaxNested > 1 /\ MaxQueued > 1
=============================================================================
