------------------------------ MODULE MCMonitor ------------------------------
(***************************************************************************)
(* Small instances of Monitor.                                             *)
(***************************************************************************)
EXTENDS Monitor

CONSTANTS r1, r2, m1, m2, s1

AllEvent    == [r \in Runs |-> "recv_event"]
AllShutdown == [s \in Sigs |-> "Shutdown"]
=============================================================================
