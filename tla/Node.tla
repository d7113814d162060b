-------------------------------- MODULE Node --------------------------------
(***************************************************************************)
(* A Node runs a root supervisor as a program: it starts it, waits for it  *)
(* to exit or for a signal, and then shuts it down with the Child's        *)
(* shutdown_abort, unless a second signal cuts that short.  A supervisor   *)
(* that is not the root is started by a parent, which starts it again.     *)
(***************************************************************************)
EXTENDS Source

CONSTANT MaxStarts   \* bound: how often a parent starts the supervisor

ASSUME NodeAssumption == MaxStarts \in Nat

VARIABLES
  owner,   \* who starts the supervisor: a "node", or a "parent"
  node,    \* where Node::run is
  result,  \* what it returned
  starts   \* counter behind MaxStarts

nodeVars == <<owner, node, result, starts>>
programVars == <<sourceVars, supVars, nodeVars>>

ProgramInit ==
  /\ SourceInit
  /\ owner \in {"node", "parent"}
  /\ node = "new" /\ result = "none" /\ starts = 0

Return(what) == node' = "done" /\ result' = what

-----------------------------------------------------------------------------
\* ChildSpec::start; the blueprint may fail to instantiate.
StartRoot ==
  /\ owner = "node" /\ node = "new"
  /\ \/ Begin /\ node' = "running" /\ UNCHANGED result
     \/ Return("StartFailed") /\ UNCHANGED <<sourceVars, supVars>>
  /\ UNCHANGED <<owner, starts>>

\* The root supervisor exits by itself.
RootExits ==
  /\ node = "running" /\ at = "over"
  /\ Return(IF outcome = "ok" THEN "Ok" ELSE "SupervisorExited")
  /\ UNCHANGED <<sourceVars, supVars, owner, starts>>

\* The exit watcher resolves, and shutdown_abort signals the supervisor, which
\* refuses when it is exiting already.
FirstSignal ==
  /\ node = "running"
  /\ node' = "stopping"
  /\ shutdown' = (at \in Up \ Exiting)
  /\ UNCHANGED <<sourceVars, at, names, aside, abort, outcome, owner, result, starts>>

\* Mutation of TimesOut: the wait goes on without an abort.
TimesOutOnly ==
  /\ node = "stopping"
  /\ node' = "aborting"
  /\ UNCHANGED <<sourceVars, supVars, owner, result, starts>>

\* abort_timeout has passed: shutdown_abort aborts the task and waits again.
TimesOut ==
  /\ node = "stopping"
  /\ node' = "aborting"
  /\ abort' = TRUE
  /\ UNCHANGED <<sourceVars, at, names, aside, shutdown, outcome, owner, result, starts>>

\* shutdown_abort returns; an error is only returned after a while, during
\* which no signal is watched for.
RootStopped ==
  /\ node \in {"stopping", "aborting"} /\ at = "over"
  /\ IF outcome = "ok" THEN Return("Ok") ELSE node' = "sleeping" /\ UNCHANGED result
  /\ UNCHANGED <<sourceVars, supVars, owner, starts>>

SleepEnds ==
  /\ node = "sleeping"
  /\ Return("ShutdownFailed")
  /\ UNCHANGED <<sourceVars, supVars, owner, starts>>

\* A second signal drops the future of shutdown_abort, and the Child with it,
\* which aborts the task.
SecondSignal ==
  /\ node \in {"stopping", "aborting"}
  /\ Return("ForcedShutdown")
  /\ abort' = TRUE
  /\ UNCHANGED <<sourceVars, at, names, aside, shutdown, outcome, owner, starts>>

\* A parent starts a supervisor that is over again, as a new instance.
ParentStarts ==
  /\ owner = "parent" /\ at \in {"none", "over"} /\ starts < MaxStarts
  /\ starts' = starts + 1
  /\ Begin
  /\ UNCHANGED <<owner, node, result>>

NodeStep ==
  \/ StartRoot \/ RootExits \/ FirstSignal \/ TimesOut \/ RootStopped
  \/ SleepEnds \/ SecondSignal \/ ParentStarts

ProgramNext == NodeStep \/ (SourceStep /\ UNCHANGED nodeVars)

ProgramSpec == ProgramInit /\ [][ProgramNext]_programVars

\* The supervisor's task is polled when it is notified or aborted, and Node::run
\* when its timer fires or the task it waits for is over.  Children may keep an
\* exiting supervisor waiting for ever.
Fairness ==
  /\ WF_programVars((Load \/ TakeEvent \/ NoEvent \/ Notified) /\ UNCHANGED nodeVars)
  /\ WF_programVars(AbortSupervisor /\ UNCHANGED nodeVars)
  /\ WF_programVars(shutdown /\ BeginExit /\ UNCHANGED nodeVars)
  /\ WF_programVars(RootExits) /\ WF_programVars(TimesOut) /\ WF_programVars(RootStopped)
  /\ WF_programVars(SleepEnds)

FairProgramSpec == ProgramSpec /\ Fairness

-----------------------------------------------------------------------------
(* Properties.                                                             *)

\* What Node promises of a signal, however further signals, the timeout and the
\* supervisor's own exit race: the program ends, with or without the help of the
\* supervisor's children, and no root supervisor goes on behind it.
SignalEndsNode == node = "stopping" ~> (node = "done" /\ at \notin Up)
=============================================================================
