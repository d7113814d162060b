----------------------------- MODULE RestForOne -----------------------------
(***************************************************************************)
(* The rest-for-one strategy: when a supervisee has to be restarted, those *)
(* after it are stopped one by one, last first, and then all of them are   *)
(* started one by one, each once the one before has initialized.           *)
(***************************************************************************)
EXTENDS Supervisor, SequencesExt

CONSTANT NoName

ASSUME RestForOneAssumption == NoName \notin Names

\* The cascade in progress: its phase, the name it waits for, the names it has
\* yet to stop (last first) or to start (first first), and what to do with the
\* names that are stopped.
VARIABLE cascade

vars == <<superVars, cascade>>

Cascade(phase, current, pending, toRestart, toDrop) ==
  [phase |-> phase, current |-> current, pending |-> pending,
   toRestart |-> toRestart, toDrop |-> toDrop]

Idle == Cascade("Idle", NoName, <<>>, <<>>, {})

RestInit == Init /\ cascade = Idle

-----------------------------------------------------------------------------
(* A handler runs through several functions, each of which goes on from    *)
(* the supervisees as the one before left them.  They are passed on as a   *)
(* record, and the function that ends the handler makes it the next state. *)

Here == [child |-> child, specs |-> specs, initializing |-> initializing,
         childPermits |-> childPermits]

EndWith(s, nextCascade, nextStatus) ==
  /\ child' = s.child /\ specs' = s.specs
  /\ initializing' = s.initializing /\ childPermits' = s.childPermits
  /\ cascade' = nextCascade /\ status' = nextStatus

\* SupervisorInner::remove_spec
Without(s, S) ==
  [s EXCEPT !.specs = @ \ S, !.initializing = @ \ S, !.child = Drop(@, S)]

\* advance_restart: the first pending name that is dead is started.
AdvanceRestart(s, pending, st) ==
  LET dead == {i \in DOMAIN pending : /\ pending[i] \in s.specs
                                      /\ s.child[pending[i]] = "Dead"}
  IN \/ dead = {} /\ EndWith(s, Idle, st)
     \/ \E next \in dead :
          /\ \A j \in dead : next <= j
          /\ EndWith([s EXCEPT !.child = Start(@, {pending[next]})],
                     Cascade("Restarting", pending[next],
                             SubSeq(pending, next + 1, Len(pending)), <<>>, {}),
                     st)

\* advance_shutdown: the last pending name that owes an exit is waited for.
\* When there is none, Break: the supervisor exits, if its result is used.
AdvanceShutdown(s, pending, onBreak) ==
  LET owing == {i \in DOMAIN pending : /\ pending[i] \in s.specs
                                       /\ Owes(s.child[pending[i]])}
      next == IF owing = {} THEN 1 ELSE CHOOSE i \in owing : \A j \in owing : i >= j
      told == {pending[i] : i \in next..Len(pending)} \cap s.specs
      stopped == [s EXCEPT !.child = Stop(@, told)]
  IN \/ owing = {} /\ EndWith(stopped, Idle, onBreak)
     \/ /\ owing # {}
        /\ EndWith(stopped,
                   Cascade("ShuttingDown", pending[next],
                           SubSeq(pending, 1, next - 1), <<>>, {}),
                   "Exiting")

\* Mutation of Shutdown: the first child is stopped first.
ShutdownInStartOrder(s, onBreak) ==
  \/ /\ cascade.phase = "ShuttingDown"
     /\ EndWith(s, cascade, "Exiting")
  \/ /\ cascade.phase # "ShuttingDown"
     /\ AdvanceShutdown(s, Reverse(InOrder(s.specs)),
                        onBreak)

\* RestForOneSupervisor::shutdown
Shutdown(s, onBreak) ==
  \/ /\ cascade.phase = "ShuttingDown"
     /\ EndWith(s, cascade, "Exiting")
  \/ /\ cascade.phase # "ShuttingDown"
     /\ AdvanceShutdown(s, InOrder(s.specs), onBreak)

\* advance_stop: the last pending name that owes an exit is waited for, unless
\* one before it is refused a restart by its own budget.  When nobody is left,
\* those of mode Never are dropped and the others restarted.
AdvanceStop(s, pending, toRestart, toDrop, onBreak) ==
  LET refused(n) == Mode[n] # "Never" /\ ~ChildAllows(s.childPermits, n)
      halting == {i \in DOMAIN pending :
                    /\ pending[i] \in s.specs
                    /\ refused(pending[i]) \/ Owes(s.child[pending[i]])}
      next == IF halting = {} THEN 0 ELSE CHOOSE i \in halting : \A j \in halting : i >= j
      refusal == next # 0 /\ refused(pending[next])
      from == IF next = 0 \/ refusal THEN next + 1 ELSE next
  \* The names that are told to stop now, in the order of the map.
  IN \E told \in {Only(SubSeq(pending, from, Len(pending)), s.specs)} :
       LET again == Only(told, {n \in Names : Mode[n] # "Never"})
           restart == toRestart \o Reverse(again)
           drop == toDrop \cup (ToSet(told) \ ToSet(again))
           stopped == [s EXCEPT !.child = Stop(@, ToSet(told)),
                                !.childPermits = Charge(@, ToSet(again))]
       IN \/ /\ next = 0
             /\ AdvanceRestart(Without(stopped, drop), Reverse(restart), status)
          \/ refusal /\ Shutdown(stopped, onBreak)
          \/ /\ next # 0 /\ ~refusal
             /\ EndWith(stopped,
                        Cascade("Exiting", pending[next], SubSeq(pending, 1, next - 1),
                                restart, drop),
                        status)

\* advance_cascade, when current is done with.
AdvanceCascade(s, onBreak) ==
  \/ /\ cascade.phase = "Exiting"
     /\ AdvanceStop(s, cascade.pending, cascade.toRestart, cascade.toDrop, onBreak)
  \/ /\ cascade.phase = "Restarting"
     /\ AdvanceRestart(s, cascade.pending, status)
  \/ /\ cascade.phase = "ShuttingDown"
     /\ AdvanceShutdown(s, cascade.pending, onBreak)

\* Mutation of RemoveSpec: the cascade goes on waiting for the removed name.
RemoveSpecWithoutAdvance(s, n) == EndWith(Without(s, {n}), cascade, status)

\* RestForOneSupervisor::remove_spec.  The result of advance_cascade is not
\* used: a supervisor that has nobody left to wait for goes on exiting.
RemoveSpec(s, n) ==
  \/ cascade.current = n /\ AdvanceCascade(Without(s, {n}), "Exiting")
  \/ cascade.current # n /\ EndWith(Without(s, {n}), cascade, status)

-----------------------------------------------------------------------------
(* handle_exit                                                             *)

\* The names between the i-th and the j-th of the sequence.
Between(seq, i, j) == SubSeq(seq, i + 1, j - 1)

\* The supervisor's task unwinds: its supervisees are dropped with it.
Panic(s) ==
  EndWith([s EXCEPT !.child = Drop(@, s.specs)], Idle, "Panicked")

\* merge_into_stopping.  It looks up the position of every pending name to sort
\* them, which panics for one that was deregistered.
MergeIntoStopping(s, trigger) ==
  LET all == InOrder(s.specs)
      at(n) == CHOOSE i \in DOMAIN all : all[i] = n
      i == at(trigger)
      j == at(cascade.current)
      settled == ToSet(cascade.toRestart) \cup cascade.toDrop
      between == Only(IF i < j THEN Between(all, i, j) ELSE Between(all, j, i),
                      Names \ settled)
      queued == between \o cascade.pending
  IN \/ /\ Len(queued) >= 2 /\ ~ToSet(queued) \subseteq s.specs
        /\ Panic(s)
     \/ /\ Len(queued) < 2 \/ ToSet(queued) \subseteq s.specs
        /\ EndWith(s,
                   [cascade EXCEPT
                      !.pending = IF Len(queued) < 2 THEN queued
                                  ELSE Only(all, ToSet(queued)),
                      !.toRestart = Append(@, trigger)],
                   status)

\* start_cascade
StartCascade(s, trigger) ==
  LET all == InOrder(s.specs)
      at == CHOOSE i \in DOMAIN all : all[i] = trigger
  IN AdvanceStop(s, SubSeq(all, at + 1, Len(all)), <<trigger>>, {}, "Exited")

\* handle_cascade_current_exit.  A restart that failed is tried again on the
\* child's own budget alone.
CurrentExit(s, n, success) ==
  \/ /\ cascade.phase # "Restarting"
     /\ AdvanceCascade(s, "Exited")
  \/ /\ cascade.phase = "Restarting" /\ ~RequiresRestart(n, success)
     /\ RemoveSpec(s, n)
  \/ /\ cascade.phase = "Restarting" /\ RequiresRestart(n, success)
     /\ \/ /\ ~ChildAllows(s.childPermits, n)
           /\ Shutdown(s, "Exited")
        \/ /\ ChildAllows(s.childPermits, n)
           /\ EndWith([s EXCEPT !.child = Start(@, {n}),
                                !.childPermits = Charge(@, {n})],
                      cascade, status)

\* An exit that no cascade waits for.
NewTrigger(s, n) ==
  LET charged == [s EXCEPT !.childPermits = Charge(@, {n})]
  IN \/ ~Allowed(n) /\ Shutdown(s, "Exited")
     \/ /\ Allowed(n) /\ cascade.phase \in {"Idle", "Restarting"}
        /\ StartCascade(charged, n)
     \/ /\ Allowed(n) /\ cascade.phase = "Exiting"
        /\ MergeIntoStopping(charged, n)
     \* unreachable!
     \/ /\ Allowed(n) /\ cascade.phase = "ShuttingDown"
        /\ Panic(charged)

\* The cascade will come to n by itself.
Queued(n) ==
  /\ cascade.phase \in {"Exiting", "ShuttingDown"}
  /\ n \in ToSet(cascade.pending)

HandleExit(n, success) ==
  LET s == [Here EXCEPT !.child = Drop(@, {n})]
      isNew == cascade.current # n /\ ~Queued(n) /\ RequiresRestart(n, success)
  IN /\ \/ cascade.current = n /\ CurrentExit(s, n, success)
        \/ cascade.current # n /\ Queued(n) /\ EndWith(s, cascade, status)
        \/ /\ cascade.current # n /\ ~Queued(n) /\ ~RequiresRestart(n, success)
           /\ RemoveSpec(s, n)
        \/ isNew /\ NewTrigger(s, n)
     /\ IF isNew THEN TakeSupervisorPermit ELSE UNCHANGED permits

-----------------------------------------------------------------------------
GoDown(n, success) ==
  /\ GoesDown(n, success)
  /\ HandleExit(n, success)
  /\ UNCHANGED <<order, exiting>>

\* The handling of an initialization, with after_initialized.
Initialized(n) ==
  LET s == [Here EXCEPT !.child[n] = "Alive", !.initializing = @ \ {n}]
  IN /\ ~Stopped /\ child[n] = "Initializing"
     /\ \/ /\ cascade.current = n
           /\ AdvanceRestart(s, cascade.pending, StatusOnceInitialized(n))
        \/ /\ cascade.current # n
           /\ EndWith(s, cascade, StatusOnceInitialized(n))
     /\ UNCHANGED <<order, exiting, permits>>

ShutdownSignal ==
  /\ ~Stopped
  /\ Shutdown(Here, "Exited")
  /\ UNCHANGED <<order, exiting, permits>>

Deregister(n) ==
  /\ n \in Removable \cap specs /\ ~Stopped
  /\ RemoveSpec(Here, n)
  /\ UNCHANGED <<order, exiting, permits>>

Next ==
  \/ ShutdownSignal
  \/ WindowPasses /\ UNCHANGED cascade
  \/ \E n \in Names :
       \/ Register(n) /\ UNCHANGED cascade
       \/ Deregister(n)
       \/ Started(n) /\ UNCHANGED cascade
       \/ Initialized(n)
       \/ \E success \in BOOLEAN : GoDown(n, success)

Spec == RestInit /\ [][Next]_vars

Fairness ==
  \A n \in Names :
    /\ WF_vars(\/ Started(n) /\ UNCHANGED cascade
               \/ child[n] = "Starting" /\ GoDown(n, FALSE))
    /\ WF_vars(/\ child[n] = "ShuttingDown"
               /\ \E success \in BOOLEAN : GoDown(n, success))

FairSpec == Spec /\ Fairness

-----------------------------------------------------------------------------
\* The event that the cascade waits for will come, and the exit of everything
\* that was told to stop is one the cascade waits for or comes to: otherwise
\* the supervisor hangs, or takes a stop it asked for to be a new failure.
CascadeTracksChildren ==
  /\ cascade.phase \in {"Exiting", "ShuttingDown"} =>
       child[cascade.current] = "ShuttingDown"
  /\ cascade.phase = "Restarting" =>
       child[cascade.current] \in {"Starting", "Initializing"}
  /\ \A n \in specs :
       child[n] = "ShuttingDown" => cascade.current = n \/ Queued(n)

\* Watched from outside, the supervisor is a SupervisedGroup until it panics: it
\* starts nobody once it is exiting, and exits when they are all gone.  It panics
\* only while it works, never in a shutdown, and takes everyone with it.
PanicsAtWork == Working /\ status' = "Panicked" /\ Up' = {}
IsGroupUntilPanic ==
  Group!Init /\ [][Group!Next \/ PanicsAtWork]_Group!groupVars

\* Later children may depend on earlier ones: once the supervisor is exiting,
\* a child is only told to shut down when all those after it are gone.
StopsInReverseOrder ==
  [][\A n, m \in specs :
       (/\ status' = "Exiting" /\ Position(n) < Position(m)
        /\ child[n] # "ShuttingDown" /\ child'[n] = "ShuttingDown")
          => child'[m] = "Dead"]_vars

\* The stopping phase of a cascade ends, whoever goes down, is registered or
\* deregistered meanwhile.
StoppingEnds ==
  cascade.phase = "Exiting" ~> cascade.phase # "Exiting"
=============================================================================
