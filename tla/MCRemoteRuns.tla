---------------------------- MODULE MCRemoteRuns ----------------------------
(* A run of two tool calls.                                                *)
EXTENDS RemoteRuns
=============================================================================
