---------------------------- MODULE MCRemoteRun ----------------------------
(* An instance of RemoteRun for TLC.                                       *)
EXTENDS RemoteRun
=============================================================================
