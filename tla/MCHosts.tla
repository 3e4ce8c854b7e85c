------------------------------- MODULE MCHosts -------------------------------
(* Small instances of HostWorkers.                                         *)
EXTENDS HostWorkers, TLC

CONSTANTS a1, a2, a3, b1, h1, h2

\* Up to three JVMs after one another on h1, and the worker of another host.
TwoHosts == [j \in Jvms |-> IF j = b1 THEN h2 ELSE h1]
==============================================================================
