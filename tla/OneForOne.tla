------------------------------ MODULE OneForOne ------------------------------
(***************************************************************************)
(* The one-for-one strategy: a supervisee that goes down is restarted, or  *)
(* dropped, by itself.                                                     *)
(***************************************************************************)
EXTENDS Supervisor

vars == superVars

\* Mutation of RemoveSpec: the shutdown goes on waiting for the removed name.
RemoveSpecKeepsExiting(c, n) ==
  /\ specs' = specs \ {n}
  /\ child' = Drop(c, {n})
  /\ initializing' = initializing \ {n}
  /\ UNCHANGED <<order, status, exiting>>

\* OneForOneSupervisor::remove_spec.  Nothing is checked again: neither whether
\* someone is left to initialize nor whether someone is left to exit.
RemoveSpec(c, n) ==
  /\ specs' = specs \ {n}
  /\ child' = Drop(c, {n})
  /\ initializing' = initializing \ {n}
  /\ exiting' = exiting \ {n}
  /\ UNCHANGED <<order, status>>

\* OneForOneSupervisor::handle_exit
HandleExit(n, success) ==
  LET c == [child EXCEPT ![n] = "Dead"]
  IN \/ /\ n \in exiting
        /\ exiting' = exiting \ {n}
        /\ status' = IF exiting' = {} THEN "Exited" ELSE status
        /\ child' = c
        /\ UNCHANGED <<order, specs, initializing, permits, childPermits>>
     \/ /\ n \notin exiting /\ ~RequiresRestart(n, success)
        /\ RemoveSpec(c, n)
        /\ UNCHANGED <<permits, childPermits>>
     \/ /\ n \notin exiting /\ RequiresRestart(n, success)
        /\ TakeSupervisorPermit
        /\ \/ /\ Allowed(n)
              /\ child' = Start(c, {n})
              /\ childPermits' = Charge(childPermits, {n})
              /\ UNCHANGED <<order, specs, status, initializing, exiting>>
           \/ /\ ~Allowed(n)
              /\ ShutdownAll(c)
              /\ UNCHANGED childPermits

-----------------------------------------------------------------------------
GoDown(n, success) == GoesDown(n, success) /\ HandleExit(n, success)

Initialized(n) ==
  /\ ~Stopped /\ child[n] = "Initializing"
  /\ child' = [child EXCEPT ![n] = "Alive"]
  /\ HandleInitialized(n)
  /\ UNCHANGED <<order, specs, exiting, permits, childPermits>>

\* A Shutdown signal; one that was sent before the first was handled comes
\* when the supervisor is exiting already.
ShutdownSignal ==
  /\ ~Stopped
  /\ ShutdownAll(child)
  /\ UNCHANGED <<permits, childPermits>>

\* A DeregisterChild message, or the source's Removed.
Deregister(n) ==
  /\ n \in Removable \cap specs /\ ~Stopped
  /\ RemoveSpec(child, n)
  /\ UNCHANGED <<permits, childPermits>>

Next ==
  \/ ShutdownSignal \/ WindowPasses
  \/ \E n \in Names :
       \/ Register(n) \/ Deregister(n)
       \/ Started(n) \/ Initialized(n)
       \/ \E success \in BOOLEAN : GoDown(n, success)

Spec == Init /\ [][Next]_vars

\* A start ends by the start_timeout, and a child that is told to shut down is
\* aborted by the abort_timeout.  Nothing bounds an initialization.
Fairness ==
  \A n \in Names :
    /\ WF_vars(Started(n) \/ (child[n] = "Starting" /\ GoDown(n, FALSE)))
    /\ WF_vars(/\ child[n] = "ShuttingDown"
               /\ \E success \in BOOLEAN : GoDown(n, success))

FairSpec == Spec /\ Fairness

-----------------------------------------------------------------------------
\* The set of exits to wait for never drifts from the supervisees: everything
\* that is still up when the supervisor is exiting was told to stop and is
\* waited for, and only that.  One too many would keep the supervisor from
\* exiting; one too few would let it kill a child.
ExitingTracksChildren ==
  /\ exiting = IF status = "Exiting"
               THEN {n \in specs : child[n] # "Dead"} ELSE {}
  /\ \A n \in exiting : child[n] = "ShuttingDown"

\* As long as the supervisor works, each of its supervisees is up: whatever
\* goes down is restarted, dropped, or takes the supervisor down.
NoneLeftDead == Working => \A n \in specs : child[n] # "Dead"
=============================================================================
