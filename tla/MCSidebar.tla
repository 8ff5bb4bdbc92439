----------------------------- MODULE MCSidebar -----------------------------
(* Three workspaces, one of which the configuration may name, and twice.   *)
EXTENDS Sidebar

CONSTANTS a, b, c
MCNames == <<a, b, c>>
MCConfigs == {<<>>, <<b, b>>}
=============================================================================
