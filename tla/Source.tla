------------------------------- MODULE Source -------------------------------
(***************************************************************************)
(* A supervisor with a dynamic source of child specs, as far as the set of *)
(* its children goes: InMemorySupervisorSource, which any thread changes,  *)
(* and the supervisor that loads it when it starts and follows its events. *)
(*                                                                         *)
(* A supervisor that is started again is a new instance over the same      *)
(* source.  What it does with the processes of its children is in          *)
(* Supervisor; here it may run out of restarts at any time.                *)
(***************************************************************************)
EXTENDS Naturals, Sequences

CONSTANTS
  Names,       \* the names of child specs
  Blueprint,   \* the names of the children of the SupervisorBlueprint
  MaxChanges   \* bound: changes made to the source

ASSUME SourceAssumption == Blueprint \subseteq Names /\ MaxChanges \in Nat

VARIABLES
  children,  \* the names in the source
  events,    \* its events that no supervisor has taken
  permit,    \* a notify_one that no one consumed yet
  changes,   \* counter behind MaxChanges
  at,        \* where the supervisor is
  names,     \* the names that have a supervisee
  aside,     \* of them that came or went without the source: history, which no
             \* action reads
  shutdown,  \* whether a shutdown signal is queued for it
  abort,     \* whether its task was told to abort
  outcome    \* how its task ended

sourceVars == <<children, events, permit, changes>>
supVars == <<at, names, aside, shutdown, abort, outcome>>

\* It follows its source, while it runs and while it exits: it looks at the
\* events, or waits for a notification.
Following == {"look", "wait", "lookExiting", "waitExiting"}
Exiting == {"lookExiting", "waitExiting"}
Up == Following \cup {"loading"}

SourceInit ==
  /\ children = {} /\ events = <<>> /\ permit = FALSE /\ changes = 0
  /\ at = "none" /\ names = {} /\ aside = {} /\ shutdown = FALSE
  /\ abort = FALSE /\ outcome = "none"

Added(n) == [kind |-> "Added", name |-> n]
Removed(n) == [kind |-> "Removed", name |-> n]

-----------------------------------------------------------------------------
(* The source; every operation holds its lock to the end.                  *)

\* Mutation of Change: the last event is taken first.
ChangeInFront(ev) ==
  /\ changes < MaxChanges /\ changes' = changes + 1
  /\ events' = <<ev>> \o events

Change(ev) ==
  /\ changes < MaxChanges /\ changes' = changes + 1
  /\ events' = Append(events, ev)

\* InMemorySupervisorSource::add; a name that is present is refused.
Add(n) ==
  /\ n \notin children
  /\ children' = children \cup {n}
  /\ Change(Added(n))
  /\ permit' = TRUE
  /\ UNCHANGED supVars

\* Mutation of RemoveSpec: nobody is notified.
RemoveSpecQuietly(n) ==
  /\ n \in children
  /\ children' = children \ {n}
  /\ Change(Removed(n))
  /\ UNCHANGED <<permit, supVars>>

\* InMemorySupervisorSource::remove
RemoveSpec(n) ==
  /\ n \in children
  /\ children' = children \ {n}
  /\ Change(Removed(n))
  /\ permit' = TRUE
  /\ UNCHANGED supVars

-----------------------------------------------------------------------------
(* The supervisor.                                                         *)

\* ChildSpec::start instantiates the blueprint and spawns the supervisor.
Begin ==
  /\ at' = "loading"
  /\ names' = Blueprint /\ aside' = {}
  /\ shutdown' = FALSE /\ abort' = FALSE /\ outcome' = "none"
  /\ UNCHANGED sourceVars

\* load_all reads the children and forgets the events under one lock.
LoadAll ==
  /\ events' = <<>>
  /\ UNCHANGED <<children, permit, changes>>

\* SupervisorInner::run adds a supervisee for each spec of the source, to those
\* of the blueprint; a name that both have is an error, which ends it.
Load ==
  /\ at = "loading"
  /\ LoadAll
  /\ IF Blueprint \cap children = {}
     THEN /\ at' = "look" /\ names' = Blueprint \cup children
          /\ UNCHANGED outcome
     ELSE /\ at' = "over" /\ names' = {} /\ outcome' = "error"
  /\ UNCHANGED <<aside, shutdown, abort>>

Looks == at \in {"look", "lookExiting"}
LookAgain == at' = IF at \in Exiting THEN "lookExiting" ELSE "look"

\* What an event says of the children.
Meant(ev, S) == IF ev.kind = "Removed" THEN S \ {ev.name} ELSE S \cup {ev.name}

\* What the supervisor makes of it: add_spec adds no name twice, and nothing
\* while it is exiting; remove_spec removes what is there.
Applied(ev, S) ==
  IF at \in Exiting /\ ev.kind # "Removed" THEN S ELSE Meant(ev, S)

\* SupervisorSource::next has made its listener, and pops an event.
TakeEvent ==
  /\ Looks /\ events # <<>>
  /\ events' = Tail(events)
  /\ names' = Applied(Head(events), names) /\ aside' = aside \ {Head(events).name}
  /\ UNCHANGED <<children, permit, changes, at, shutdown, abort, outcome>>

\* There is none: it awaits the listener.
NoEvent ==
  /\ Looks /\ events = <<>>
  /\ at' = IF at = "look" THEN "wait" ELSE "waitExiting"
  /\ UNCHANGED <<sourceVars, names, aside, shutdown, abort, outcome>>

\* A notification, that came before or comes now.
Notified ==
  /\ at \in {"wait", "waitExiting"} /\ permit
  /\ permit' = FALSE
  /\ LookAgain
  /\ UNCHANGED <<children, events, changes, names, aside, shutdown, abort, outcome>>

\* Another branch of the select! is ready, and the listener is dropped.
Interrupted ==
  /\ at \in {"wait", "waitExiting"}
  /\ LookAgain
  /\ UNCHANGED <<sourceVars, names, aside, shutdown, abort, outcome>>

\* One of these is a supervisee that exited and needs no restart, or a Deregister
\* message: its spec is dropped.
DropSpec(n) ==
  /\ at \in Following /\ n \in names
  /\ names' = names \ {n} /\ aside' = aside \cup {n}
  /\ LookAgain
  /\ UNCHANGED <<sourceVars, shutdown, abort, outcome>>

\* Another is a Register message: add_spec, which adds no name twice, and nothing
\* while it is exiting.
AddSpec(n) ==
  /\ at \in Following \ Exiting /\ n \notin names
  /\ names' = names \cup {n} /\ aside' = aside \cup {n}
  /\ LookAgain
  /\ UNCHANGED <<sourceVars, shutdown, abort, outcome>>

\* The shutdown signal is received, or the restarts ran out: the supervisor
\* exits, and waits for its children.
BeginExit ==
  /\ at \in {"look", "wait"}
  /\ at' = "lookExiting"
  /\ shutdown' = FALSE
  /\ UNCHANGED <<sourceVars, names, aside, abort, outcome>>

\* The last child is gone; or its task panics, at any time.
EndSupervisor(how) ==
  /\ \/ how = "ok" /\ at \in Exiting
     \/ how = "error" /\ at \in Up
  /\ at' = "over" /\ names' = {} /\ outcome' = how
  /\ UNCHANGED <<sourceVars, aside, shutdown, abort>>

\* The task is dropped at an await.
AbortSupervisor ==
  /\ abort /\ at \in Up
  /\ at' = "over" /\ names' = {} /\ outcome' = "aborted"
  /\ UNCHANGED <<sourceVars, aside, shutdown, abort>>

SourceStep ==
  \/ \E n \in Names : Add(n) \/ RemoveSpec(n) \/ DropSpec(n) \/ AddSpec(n)
  \/ Load \/ TakeEvent \/ NoEvent \/ Notified \/ Interrupted \/ BeginExit
  \/ \E how \in {"ok", "error"} : EndSupervisor(how)
  \/ AbortSupervisor

-----------------------------------------------------------------------------
(* Properties.                                                             *)

\* What events make of the children S, one after the other.
Replayed(evs, S) ==
  LET after[i \in 0..Len(evs)] == IF i = 0 THEN S ELSE Meant(evs[i], after[i - 1])
  IN  after[Len(evs)]

\* What a SupervisorSource is for: whenever a supervisor started and whatever
\* was queued then, the events it has not taken yet lead from the children that
\* it supervises to those in the source; none is missing, and none is repeated.
\* A child that came or went without the source is as the next event on it says,
\* and as the source says when the supervisor starts again, but not before.
FollowsSource ==
  at \in {"look", "wait"} =>
    Replayed(events, names) \ (Blueprint \cup aside) = children \ (Blueprint \cup aside)

\* No event is left lying while the supervisor waits for one.
EventsAreTaken ==
  (events # <<>> /\ at \in Following) ~> (events = <<>> \/ at \notin Following)
=============================================================================
