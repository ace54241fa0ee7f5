----------------------------- MODULE MCRemoteTask -----------------------------
(* An instance of RemoteTask for TLC: every task targets every host. *)
EXTENDS RemoteTask

AllHosts == [t \in Tasks |-> Hosts]
================================================================================
