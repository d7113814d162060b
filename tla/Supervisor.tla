----------------------------- MODULE Supervisor -----------------------------
(***************************************************************************)
(* What the three supervision strategies share: the map of supervisees and *)
(* the state machine of each, the supervisor's status, its restart budgets *)
(* and the names it still waits for to initialize.                         *)
(*                                                                         *)
(* The supervisor is one task: it takes one event (of its inbox, of its    *)
(* source, or of a supervisee) and handles it to the end, so every event   *)
(* is one step.  The step of a supervisee's process and the handling of    *)
(* its event are one step too: the supervisor sees a child only through    *)
(* that event.                                                             *)
(***************************************************************************)
EXTENDS Naturals, Sequences, FiniteSets

CONSTANTS
  Names,         \* every name a child spec can have
  Children,      \* the children of the blueprint, and of the source, in order
  Mode,          \* the restart mode of each child
  Registrable,   \* the names that a RegisterChild, or the source, may add
  Removable,     \* the names that a DeregisterChild, or the source, may remove
  MaxRestarts,   \* max_restarts of the supervisor's own RestartIntensity
  Limited,       \* the children that have a RestartIntensity of their own,
  MaxChildRestarts  \* and its max_restarts

ASSUME SupervisorAssumption ==
  /\ Children \in Seq(Names)
  /\ \A i, j \in DOMAIN Children : Children[i] = Children[j] => i = j
  /\ Mode \in [Names -> {"Always", "OnError", "Never"}]
  /\ Registrable \subseteq Names /\ Removable \subseteq Names
  /\ Limited \subseteq Names
  /\ MaxRestarts \in Nat /\ MaxChildRestarts \in Nat

VARIABLES
  order,         \* the names in the IndexMap; one that was removed stays there
  specs,         \* the names that have a supervisee
  child,         \* SuperviseeState of each, Dead for those that have none
  status,        \* status of the supervisor's own inbox
  initializing,  \* the names that were started first and not initialized yet
  exiting,       \* the names whose exit the shutdown still waits for
  permits,       \* restarts within the window, of the supervisor
  childPermits   \* and of each child

superVars == <<order, specs, child, status, initializing, exiting, permits,
               childPermits>>

ChildStates == {"Dead", "Starting", "Initializing", "Alive", "ShuttingDown"}

Working == status \in {"Initializing", "Running"}
Stopped == status \in {"Exited", "Panicked"}

\* Strategy::run: everything is started at once.
Init ==
  /\ order = Children
  /\ specs = {Children[i] : i \in DOMAIN Children}
  /\ child = [n \in Names |-> IF n \in specs THEN "Starting" ELSE "Dead"]
  /\ status = "Initializing"
  /\ initializing = specs /\ exiting = {}
  /\ permits = 0 /\ childPermits = [n \in Names |-> 0]

-----------------------------------------------------------------------------
(* A supervisee.                                                           *)

\* Supervisee::stop: a start in flight is cancelled, a process is told to
\* shut down, and is aborted when it has not by its abort_timeout.
StopState(state) ==
  CASE state = "Starting" -> "Dead"
    [] state \in {"Initializing", "Alive"} -> "ShuttingDown"
    [] OTHER -> state

\* Mutations of Owes: a cancelled start is waited for, or only those that were
\* told to stop before.
OwesUnlessDead(state) == state # "Dead"
OwesIfToldBefore(state) == state = "ShuttingDown"

\* Whether an exit event follows a stop.
Owes(state) == StopState(state) = "ShuttingDown"

Stop(c, S) == [n \in Names |-> IF n \in S THEN StopState(c[n]) ELSE c[n]]

\* Supervisee::start: only a dead one changes.
Start(c, S) ==
  [n \in Names |-> IF n \in S /\ c[n] = "Dead" THEN "Starting" ELSE c[n]]

\* Dropping supervisees aborts their processes, which are seen no more.
Drop(c, S) == [n \in Names |-> IF n \in S THEN "Dead" ELSE c[n]]

\* ExitReason::requires_restart: a start that failed is no success, an exit
\* without an error is one, before the initialization finished or after.
RequiresRestart(n, success) ==
  Mode[n] = "Always" \/ (Mode[n] = "OnError" /\ ~success)

-----------------------------------------------------------------------------
(* The restart budgets: RestartIntensity::allow_restart.                   *)

\* Mutation of SupervisorAllows: one restart too many.
SupervisorAllowsOneMore == permits <= MaxRestarts
SupervisorAllows == permits < MaxRestarts
ChildAllows(cp, n) == n \in Limited => cp[n] < MaxChildRestarts

\* Takes a permit of each child of S that has a limit.
Charge(cp, S) ==
  [n \in Names |-> IF n \in S \cap Limited THEN cp[n] + 1 ELSE cp[n]]

Allowed(n) == SupervisorAllows /\ ChildAllows(childPermits, n)

\* A restart that had to be asked for: the supervisor's permit is taken first,
\* and is gone when the child's own is refused then.
TakeSupervisorPermit ==
  permits' = IF SupervisorAllows THEN permits + 1 ELSE permits

\* The oldest restart falls out of its window.
WindowPasses ==
  /\ ~Stopped
  /\ \/ /\ permits > 0 /\ permits' = permits - 1
        /\ UNCHANGED childPermits
     \/ \E n \in specs :
          /\ childPermits[n] > 0
          /\ childPermits' = [childPermits EXCEPT ![n] = @ - 1]
          /\ UNCHANGED permits
  /\ UNCHANGED <<order, specs, child, status, initializing, exiting>>

-----------------------------------------------------------------------------
(* What the inbox, the source and the supervisees report, as far as the    *)
(* strategies agree on it.                                                 *)

\* Mutation of MayRegister: the check of the status is dropped.
MayRegisterWhileExiting(n) == n \in Registrable \ specs /\ ~Stopped

\* A name that has a supervisee is a duplicate, and a supervisor that is exiting
\* takes no more.
MayRegister(n) == n \in Registrable \ specs /\ Working

\* The name keeps the place it once had in the map.
KeepPlace(n) ==
  order' = IF \E i \in DOMAIN order : order[i] = n
           THEN order ELSE Append(order, n)

\* Mutation of Register: the supervisee is added but not started.
RegisterWithoutStart(n) ==
  /\ MayRegister(n)
  /\ specs' = specs \cup {n} /\ KeepPlace(n)
  /\ childPermits' = [childPermits EXCEPT ![n] = 0]
  /\ UNCHANGED <<child, status, initializing, exiting, permits>>

\* SupervisorInner::add_spec, for a RegisterChild or the source's Added: a new
\* supervisee is started at once; the initial start does not wait for it.
Register(n) ==
  /\ MayRegister(n)
  /\ specs' = specs \cup {n} /\ KeepPlace(n)
  /\ child' = [child EXCEPT ![n] = "Starting"]
  /\ childPermits' = [childPermits EXCEPT ![n] = 0]
  /\ UNCHANGED <<status, initializing, exiting, permits>>

\* Supervisee::supervise, when the start finishes.
Started(n) ==
  /\ ~Stopped /\ child[n] = "Starting"
  /\ child' = [child EXCEPT ![n] = "Initializing"]
  /\ UNCHANGED <<order, specs, status, initializing, exiting, permits,
                 childPermits>>

\* SupervisorInner::handle_initialized
StatusOnceInitialized(n) ==
  IF status = "Initializing" /\ initializing = {n} THEN "Running" ELSE status

HandleInitialized(n) ==
  /\ initializing' = initializing \ {n}
  /\ status' = StatusOnceInitialized(n)

\* SupervisorInner::shutdown, with the supervisees in the states c: everyone
\* is told to stop at once, and the supervisor exits if nobody owes an exit.
ShutdownAll(c) ==
  LET owing == exiting \cup {n \in specs : Owes(c[n])}
  IN /\ child' = Stop(c, specs)
     /\ exiting' = owing
     /\ status' = IF owing = {} THEN "Exited" ELSE "Exiting"
     /\ UNCHANGED <<order, specs, initializing>>

\* The ways a supervisee goes down, and whether that counts as a success: its
\* start fails, it exits before it is initialized, or later.
GoesDown(n, success) ==
  /\ ~Stopped
  /\ \/ child[n] = "Starting" /\ ~success
     \/ child[n] \in {"Initializing", "Alive", "ShuttingDown"}

\* What a sequence has of S, in its order.  A function, since provers know nothing
\* of SelectSeq.
Only(seq, S) ==
  LET only[i \in 0..Len(seq)] ==
        IF i = 0 THEN <<>>
        ELSE IF seq[i] \in S THEN Append(only[i - 1], seq[i]) ELSE only[i - 1]
  IN  only[Len(seq)]

\* The names of S in the order of the map.
InOrder(S) == Only(order, S)

Position(n) == CHOOSE i \in DOMAIN order : order[i] = n

-----------------------------------------------------------------------------
(* Properties.                                                             *)

TypeOK ==
  /\ order \in Seq(Names)
  /\ specs \subseteq {order[i] : i \in DOMAIN order}
  /\ child \in [Names -> ChildStates]
  /\ \A n \in Names \ specs : child[n] = "Dead"
  /\ status \in {"Initializing", "Running", "Exiting", "Exited", "Panicked"}
  /\ initializing \subseteq specs
  /\ exiting \subseteq specs
  /\ permits \in 0..MaxRestarts
  /\ childPermits \in [Names -> 0..MaxChildRestarts]

\* The names with a process, or with one being started.
Up == {n \in Names : child[n] # "Dead"}

\* Watched from outside, the supervisor is a SupervisedGroup: it starts no
\* child once it is exiting, and exits when they are all gone.
Group == INSTANCE SupervisedGroup WITH up <- Up
IsSupervisedGroup == Group!Spec

\* What the book says of a shutdown, and of a budget that ran out: the
\* supervisor stops its children and exits itself.
ExitCompletes == status = "Exiting" ~> Stopped

\* A shutdown runs down: every child of a supervisor that is exiting goes, also
\* those that it does not know to be waiting for.
ShutdownRunsDown == status = "Exiting" ~> Up = {}
=============================================================================
