---------------------------- MODULE MCWindowTabs ----------------------------
(* Small instances of WindowTabs. *)
EXTENDS WindowTabs

CONSTANTS t1, t2, t3, t4
MCTabs == {t1, t2, t3, t4}
\* One step each way, and steps past either end.
MCOffsets == -5..3
=============================================================================
