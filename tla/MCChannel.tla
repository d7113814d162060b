------------------------------ MODULE MCChannel ------------------------------
(***************************************************************************)
(* Small instances of Channel.                                             *)
(***************************************************************************)
EXTENDS Channel

CONSTANTS r1, r2, r3, m1, m2, s1, s2

AllEvent  == [r \in Runs |-> "recv_event"]
OneAlways == [r \in Runs |-> IF r = r1 THEN "recv_event" ELSE "recv_event_always"]
OneSignal == [r \in Runs |-> IF r = r1 THEN "recv_event" ELSE "recv_signal"]

AllShutdown     == [s \in Sigs |-> "Shutdown"]
ShutdownSuspend == [s \in Sigs |-> IF s = s1 THEN "Shutdown" ELSE "Suspend"]
SuspendResume   == [s \in Sigs |-> IF s = s1 THEN "Suspend" ELSE "Resume"]
=============================================================================
