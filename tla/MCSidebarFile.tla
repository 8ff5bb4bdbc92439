---------------------------- MODULE MCSidebarFile ----------------------------
(* One or two processes, and a few changes. *)
EXTENDS SidebarFile

CONSTANTS gui, server, c1, c2, c3, n1, n2, n3, n4
OneProcess == {gui}
TwoProcesses == {gui, server}
MCChanges == {c1, c2, c3}
MCNodes == {n1, n2, n3, n4}
=============================================================================
