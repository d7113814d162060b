------------------------------ MODULE OneForAll ------------------------------
(***************************************************************************)
(* The one-for-all strategy: when a supervisee has to be restarted, every  *)
(* other one is stopped, and they are started again once all have exited.  *)
(***************************************************************************)
EXTENDS Supervisor

VARIABLES
  restarting,      \* the members of the cascade that have not exited yet
  cascadeRestart,  \* the members to start again when all have exited
  cascadeDrop      \* the members of mode Never, dropped instead

cascadeVars == <<restarting, cascadeRestart, cascadeDrop>>
vars == <<superVars, cascadeVars>>

AllInit == Init /\ restarting = {} /\ cascadeRestart = {} /\ cascadeDrop = {}

\* finish_cascade, with the supervisees in the states c and without those that
\* are gone: the members of drop are dropped, those of restart are started.
FinishCascade(c, gone, drop, restart) ==
  /\ specs' = specs \ (gone \cup drop)
  /\ initializing' = initializing \ (gone \cup drop)
  /\ exiting' = exiting \ (gone \cup drop)
  /\ child' = Start(Drop(c, gone \cup drop), restart \cap specs')
  /\ restarting' = {} /\ cascadeRestart' = {} /\ cascadeDrop' = {}
  /\ UNCHANGED <<order, status>>

\* The name is taken out of everything that is kept by name.
Forget(c, n) ==
  /\ specs' = specs \ {n} /\ child' = Drop(c, {n})
  /\ initializing' = initializing \ {n}
  /\ exiting' = exiting \ {n}
  /\ restarting' = restarting \ {n}
  /\ cascadeRestart' = cascadeRestart \ {n}
  /\ cascadeDrop' = cascadeDrop \ {n}
  /\ UNCHANGED <<order, status>>

\* OneForAllSupervisor::remove_spec; without the last one that the cascade
\* waits for, the cascade is finished.
RemoveSpec(c, n) ==
  \/ /\ restarting = {n}
     /\ FinishCascade(c, {n}, cascadeDrop, cascadeRestart)
  \/ /\ restarting # {n}
     /\ Forget(c, n)

\* start_cascade for a trigger that is down, with the supervisees in the
\* states c: the siblings that are not part of the cascade yet are folded in,
\* in the order of the map, up to one whose own budget refuses, which shuts
\* the supervisor down.
StartCascade(c, trigger) ==
  LET cp == Charge(childPermits, {trigger})
      siblings == (specs \ {trigger}) \ (cascadeRestart \cup cascadeDrop)
      refusing == {n \in siblings : Mode[n] # "Never" /\ ~ChildAllows(cp, n)}
      folded == {n \in siblings :
                   \A m \in refusing : Position(n) < Position(m)}
      dropped == {n \in folded : Mode[n] = "Never"}
      waiting == restarting \cup {n \in folded : Owes(c[n])}
      restart == cascadeRestart \cup {trigger} \cup (folded \ dropped)
  IN /\ childPermits' = Charge(cp, folded \ dropped)
     /\ \/ /\ refusing = {} /\ waiting = {}
           /\ FinishCascade(Stop(c, folded), {}, cascadeDrop \cup dropped,
                            restart)
        \/ /\ refusing = {} /\ waiting # {}
           /\ child' = Stop(c, folded)
           /\ restarting' = waiting /\ cascadeRestart' = restart
           /\ cascadeDrop' = cascadeDrop \cup dropped
           /\ UNCHANGED <<order, specs, status, initializing, exiting>>
        \* The siblings folded in before stay in the cascade.
        \/ /\ refusing # {}
           /\ ShutdownAll(Stop(c, folded))
           /\ restarting' = waiting /\ cascadeRestart' = restart
           /\ cascadeDrop' = cascadeDrop \cup dropped

\* OneForAllSupervisor::handle_exit
HandleExit(n, success) ==
  LET c == [child EXCEPT ![n] = "Dead"]
  IN \/ /\ n \in exiting
        /\ exiting' = exiting \ {n}
        /\ status' = IF exiting' = {} THEN "Exited" ELSE status
        /\ child' = c
        /\ UNCHANGED <<order, specs, initializing, permits, childPermits,
                       cascadeVars>>
     \/ /\ n \in restarting \ exiting
        /\ UNCHANGED <<permits, childPermits>>
        /\ \/ /\ restarting = {n}
              /\ FinishCascade(c, {}, cascadeDrop, cascadeRestart)
           \/ /\ restarting # {n}
              /\ restarting' = restarting \ {n}
              /\ child' = c
              /\ UNCHANGED <<order, specs, status, initializing, exiting,
                             cascadeRestart, cascadeDrop>>
     \/ /\ n \notin exiting \cup restarting /\ ~RequiresRestart(n, success)
        /\ RemoveSpec(c, n)
        /\ UNCHANGED <<permits, childPermits>>
     \/ /\ n \notin exiting \cup restarting /\ RequiresRestart(n, success)
        /\ TakeSupervisorPermit
        /\ \/ Allowed(n) /\ StartCascade(c, n)
           \/ /\ ~Allowed(n)
              /\ ShutdownAll(c)
              /\ UNCHANGED <<childPermits, cascadeVars>>

-----------------------------------------------------------------------------
GoDown(n, success) == GoesDown(n, success) /\ HandleExit(n, success)

Initialized(n) ==
  /\ ~Stopped /\ child[n] = "Initializing"
  /\ child' = [child EXCEPT ![n] = "Alive"]
  /\ HandleInitialized(n)
  /\ UNCHANGED <<order, specs, exiting, permits, childPermits, cascadeVars>>

ShutdownSignal ==
  /\ ~Stopped
  /\ ShutdownAll(child)
  /\ UNCHANGED <<permits, childPermits, cascadeVars>>

Deregister(n) ==
  /\ n \in Removable \cap specs /\ ~Stopped
  /\ RemoveSpec(child, n)
  /\ UNCHANGED <<permits, childPermits>>

Next ==
  \/ ShutdownSignal
  \/ WindowPasses /\ UNCHANGED cascadeVars
  \/ \E n \in Names :
       \/ Register(n) /\ UNCHANGED cascadeVars
       \/ Deregister(n)
       \/ Started(n) /\ UNCHANGED cascadeVars
       \/ Initialized(n)
       \/ \E success \in BOOLEAN : GoDown(n, success)

Spec == AllInit /\ [][Next]_vars

Fairness ==
  \A n \in Names :
    /\ WF_vars(\/ Started(n) /\ UNCHANGED cascadeVars
               \/ child[n] = "Starting" /\ GoDown(n, FALSE))
    /\ WF_vars(/\ child[n] = "ShuttingDown"
               /\ \E success \in BOOLEAN : GoDown(n, success))

FairSpec == Spec /\ Fairness

-----------------------------------------------------------------------------
\* The names a cascade waits for are exactly those that were told to stop,
\* while some exit by themselves and others are registered or deregistered:
\* one too many and the group is never restarted, one too few and it is
\* restarted around a child that still runs.
WaitsForTheStopped ==
  Working => restarting = {n \in specs : child[n] = "ShuttingDown"}

\* The group is restarted together: nobody is started again before everyone
\* who was told to stop has exited.
AllExitBeforeAnyRestart ==
  [][(Working /\ \E n \in specs \cap specs' :
                    child[n] # "Starting" /\ child'[n] = "Starting")
       => \A m \in specs' : child'[m] # "ShuttingDown"]_vars

\* A group restart leaves nobody behind: without a cascade in progress, every
\* supervisee of a working supervisor is up, whatever was registered and
\* deregistered while the cascade went on.
NoneLeftDead ==
  Working /\ restarting = {} => \A n \in specs : child[n] # "Dead"

\* A cascade ends, however it is joined, cut short or widened on its way.
CascadeEnds == restarting # {} ~> (restarting = {} \/ ~Working)
=============================================================================
