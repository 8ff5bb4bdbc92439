--------------------------- MODULE MCRemoteLines ---------------------------
EXTENDS RemoteLines
=============================================================================
