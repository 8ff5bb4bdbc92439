------------------------------- MODULE MCMux -------------------------------
(* Small instances of Mux.  The operations enabled differ between runs.    *)
EXTENDS Mux

CONSTANTS home, work

MCWorkspaces == {home, work}
\* Windows change workspace by renaming it only.
NoReassign == OpNames \ {"set_window_workspace"}
\* What makes and empties windows, puts two panes in a tab, and lets the workspace of a
\* window change in between.
LiveOps == {"spawn", "split", "remove_tab", "set_window_workspace"}
=============================================================================
