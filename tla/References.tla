----------------------------- MODULE References ------------------------------
(***************************************************************************)
(* What keeps a channel alive and under its name: the strong references    *)
(* (StrongAddress, Inbox, Child) and their count, the registry entry of    *)
(* the name, and the Child that owns the task of a channel.                *)
(*                                                                         *)
(* All channels of a behaviour are created under one name, so that only    *)
(* one of them may be registered at a time.  A user is a thread that holds *)
(* at most one StrongAddress or Address.  The last reference to go removes *)
(* the entry in a step of its own, after the count reached zero.           *)
(*                                                                         *)
(* What the task does between its start and the end of its future is in    *)
(* HandlerLoop, which extends this module.                                 *)
(***************************************************************************)
EXTENDS Naturals, Sequences, FiniteSets

CONSTANTS
  Channels,    \* the channels created under the name
  NoChannel,   \* no channel at all
  Users,       \* threads that hold a reference
  Bounds       \* the bounds of a behaviour, one of these records

ASSUME ReferencesAssumption ==
  /\ NoChannel \notin Channels /\ IsFiniteSet(Users)
  /\ \A b \in Bounds :
       /\ b.users \subseteq Users /\ b.channels \subseteq Channels
       /\ b.spawns \in Nat   \* calls of StrongAddress::spawn that succeed
       /\ b.signals \in Nat  \* signals sent
       /\ b.handles \in BOOLEAN  \* whether names are looked up, and more
                                \* is done with a Child than to wait for its
                                \* task or drop it

VARIABLES
  made,        \* the channels that were created
  registered,  \* the registry's entry for the name
  strong,      \* strong_count of each channel
  revived,     \* whether an upgrade has taken a count back up from zero, kept
               \* for RegisteredWhileHeld alone
  user,        \* what each user holds, and what it is doing with it
  child,       \* the Child of each channel
  abort,       \* why JoinHandle::abort was called, if it was
  status,      \* the channel's ActorStatus
  signals,     \* the channel's signal queue
  task,        \* where the task spawned on the channel is, see Running
  outcome,     \* how its future ended
  bound,       \* the bounds of this behaviour
  spawned, sent  \* counters against bound.spawns and bound.signals

refVars == <<made, registered, strong, revived, user>>
childVars == <<child, abort>>
taskVars == <<status, signals, task, outcome>>
counters == <<bound, spawned, sent>>

-----------------------------------------------------------------------------
Idle == [at |-> "idle", of |-> NoChannel]
User(at, c) == [at |-> at, of |-> c]

NoChild == [at |-> "none", attached |-> FALSE, join |-> FALSE]
\* The owner has the Child, or awaits its shutdown, before and after it lost
\* patience.
Owned == {"held", "shutdown", "aborting"}

\* The task's future is there, and the Inbox with it.
Running == {"init", "select", "hook", "exit"}
HasInbox == Running \cup {"over"}

RefInit ==
  /\ made = {} /\ registered = NoChannel
  /\ strong = [c \in Channels |-> 0] /\ revived = FALSE
  /\ user = [u \in Users |-> Idle]
  /\ child = [c \in Channels |-> NoChild]
  /\ abort = [c \in Channels |-> "none"]
  /\ status = [c \in Channels |-> "Exited"]
  /\ signals = [c \in Channels |-> <<>>]
  /\ task = [c \in Channels |-> "none"]
  /\ outcome = [c \in Channels |-> "None"]
  /\ bound \in Bounds /\ spawned = 0 /\ sent = 0

-----------------------------------------------------------------------------
(* The count and the registry.                                             *)

\* Channel::incr_strong_count
Incr(c) == strong' = [strong EXCEPT ![c] = @ + 1]

\* Channel::decr_strong_count, and whether it returns true.
Decr(c) == strong' = [strong EXCEPT ![c] = @ - 1]
IsLast(c) == strong[c] = 1

Holds(c) == {u \in Users : user[u] = User("holds", c)}

\* Registry::register fails if the name is taken.
Register(c) ==
  /\ registered = NoChannel
  /\ registered' = c

\* Registry::remove takes out whatever is registered under the name.
Deregister == registered' = NoChannel

\* Mutation of Create: the StrongAddress is made before it is registered, and
\* is dropped when that fails.
CreateEagerly(u, c) ==
  /\ user[u] = Idle /\ c \notin made
  /\ IF registered = NoChannel
     THEN /\ registered' = c /\ made' = made \cup {c} /\ Incr(c)
          /\ user' = [user EXCEPT ![u] = User("holds", c)]
     ELSE /\ user' = [user EXCEPT ![u] = User("removing", c)]
          /\ UNCHANGED <<made, registered, strong>>
  /\ UNCHANGED <<revived, childVars, taskVars, counters>>

\* StrongAddress::create registers the Address first.  If the name is taken
\* the Address is thrown away, and nothing has changed.
Create(u, c) ==
  /\ user[u] = Idle /\ c \notin made
  /\ Register(c)
  /\ made' = made \cup {c}
  /\ Incr(c)
  /\ user' = [user EXCEPT ![u] = User("holds", c)]
  /\ UNCHANGED <<revived, childVars, taskVars, counters>>

\* StrongAddress::clone hands a second reference to another user.
Clone(u, v) ==
  /\ user[u].at = "holds" /\ user[v] = Idle
  /\ Incr(user[u].of)
  /\ user' = [user EXCEPT ![v] = user[u]]
  /\ UNCHANGED <<made, revived, registered, childVars, taskVars, counters>>

\* Registry::get, get_typed or get_dyn returns the Address under the name.
Find(u) ==
  /\ user[u] = Idle /\ registered # NoChannel
  /\ user' = [user EXCEPT ![u] = User("found", registered)]
  /\ UNCHANGED <<made, revived, registered, strong, childVars, taskVars, counters>>

\* ActorOps::is_permanently_dead
PermanentlyDead(c) == status[c] = "Exited" /\ strong[c] = 0

\* StrongAddress::from_address_ref reads the status and the count,
UpgradeCheck(u) ==
  LET c == user[u].of IN
  /\ user[u].at = "found"
  /\ user' = [user EXCEPT ![u] =
                IF PermanentlyDead(c) THEN Idle ELSE User("upgrading", c)]
  /\ UNCHANGED <<made, revived, registered, strong, childVars, taskVars, counters>>

\* and then increments the count, which may have come to zero in between.
UpgradeIncr(u) ==
  /\ user[u].at = "upgrading"
  /\ Incr(user[u].of)
  /\ revived' = IF strong[user[u].of] = 0 THEN TRUE ELSE revived
  /\ user' = [user EXCEPT ![u] = User("holds", user[u].of)]
  /\ UNCHANGED <<made, registered, childVars, taskVars, counters>>

\* StrongAddress::drop; an Address is just dropped.
Drop(u) ==
  LET c == user[u].of IN
  /\ \/ /\ user[u].at = "holds"
        /\ Decr(c)
        /\ user' = [user EXCEPT ![u] =
                      IF IsLast(c) THEN User("removing", c) ELSE Idle]
     \/ /\ user[u].at = "found"
        /\ user' = [user EXCEPT ![u] = Idle]
        /\ UNCHANGED strong
  /\ UNCHANGED <<made, revived, registered, childVars, taskVars, counters>>

\* The end of a drop that took the count to zero.
Remove(u) ==
  /\ user[u].at = "removing"
  /\ Deregister
  /\ user' = [user EXCEPT ![u] = Idle]
  /\ UNCHANGED <<made, revived, strong, childVars, taskVars, counters>>

-----------------------------------------------------------------------------
(* Signals.                                                                *)

\* Channel::signal: an actor that is exiting or dead refuses the signal.
Signalled(c, kind) ==
  signals' = [signals EXCEPT ![c] =
    IF status[c] \in {"Exited", "Exiting"} THEN @ ELSE Append(@, kind)]

\* ActorOps::signal, through any Address.
Signal(c, kind) ==
  /\ c \in made /\ sent < bound.signals
  /\ status[c] \notin {"Exited", "Exiting"}
  /\ sent' = sent + 1
  /\ Signalled(c, kind)
  /\ UNCHANGED <<refVars, childVars, status, task, outcome, bound, spawned>>

-----------------------------------------------------------------------------
(* The Child.                                                              *)

\* StrongAddress::spawn on a channel whose process is gone: the Inbox takes a
\* clone of the reference, the Child the reference itself.  One Child at a time
\* is followed for each channel.
Spawn(u, c) ==
  /\ user[u] = User("holds", c) /\ child[c].at = "none"
  /\ status[c] = "Exited" /\ spawned < bound.spawns
  /\ spawned' = spawned + 1
  /\ Incr(c)
  /\ user' = [user EXCEPT ![u] = Idle]
  /\ child' = [child EXCEPT ![c] = [at |-> "held", attached |-> TRUE, join |-> TRUE]]
  /\ abort' = [abort EXCEPT ![c] = "none"]
  /\ status' = [status EXCEPT ![c] = "Initializing"]
  /\ task' = [task EXCEPT ![c] = "init"]
  /\ outcome' = [outcome EXCEPT ![c] = "None"]
  /\ UNCHANGED <<made, revived, registered, signals, bound, sent>>

\* Inbox::try_new fails on a channel that is not dead: both references go.
SpawnRefused(u, c) ==
  /\ user[u] = User("holds", c)
  /\ status[c] # "Exited"
  /\ Decr(c)
  /\ user' = [user EXCEPT ![u] =
                IF IsLast(c) THEN User("removing", c) ELSE Idle]
  /\ UNCHANGED <<made, revived, registered, childVars, taskVars, counters>>

\* attach, detach, attached and detached
SetAttached(c, attached) ==
  /\ child[c].at = "held"
  /\ child' = [child EXCEPT ![c].attached = attached]
  /\ UNCHANGED <<refVars, abort, taskVars, counters>>

\* into_context_unchecked, behind every conversion to another context, takes
\* the Child apart and makes a new one, which is attached, whatever it was.
IntoDyn(c) ==
  /\ child[c].at = "held" /\ child[c].join
  /\ child' = [child EXCEPT ![c].attached = TRUE]
  /\ UNCHANGED <<refVars, abort, taskVars, counters>>

\* The StrongAddress of the Child is dropped with it.
ChildGone(c) ==
  /\ Decr(c)
  /\ child' = [child EXCEPT ![c] =
                 [NoChild EXCEPT !.at = IF IsLast(c) THEN "removing" ELSE "none"]]

\* The end of such a drop.
ChildRemove(c) ==
  /\ child[c].at = "removing"
  /\ Deregister
  /\ child' = [child EXCEPT ![c] = NoChild]
  /\ UNCHANGED <<made, revived, strong, user, abort, taskVars, counters>>

\* into_handle: the task goes on without the Child.
IntoHandle(c) ==
  /\ child[c].at = "held" /\ child[c].join
  /\ ChildGone(c)
  /\ UNCHANGED <<made, revived, registered, user, abort, taskVars, counters>>

\* into_parts: a clone of the address is returned, and the Child is dropped.
IntoParts(c, u) ==
  /\ child[c].at = "held" /\ child[c].join /\ user[u] = Idle
  /\ user' = [user EXCEPT ![u] = User("holds", c)]
  /\ child' = [child EXCEPT ![c] = NoChild]
  /\ UNCHANGED <<made, revived, registered, strong, abort, taskVars, counters>>

\* JoinHandle::abort has no effect on a task that is over.
Aborting(c, why) ==
  abort' = [abort EXCEPT ![c] =
              IF @ = "none" /\ task[c] # "done" THEN why ELSE @]

\* Child::abort
AbortChild(c) ==
  /\ child[c].at = "held" /\ child[c].join
  /\ Aborting(c, "call")
  /\ UNCHANGED <<refVars, child, taskVars, counters>>

\* shutdown_abort and into_shutdown signal a shutdown and wait.
BeginShutdown(c) ==
  /\ child[c].at = "held" /\ child[c].join
  /\ Signalled(c, "Shutdown")
  /\ child' = [child EXCEPT ![c].at = "shutdown"]
  /\ UNCHANGED <<refVars, abort, status, task, outcome, counters>>

\* Mutation of GiveUp: the owner stops waiting, and the task is left alone.
GiveUpQuietly(c) ==
  /\ child[c].at = "shutdown" /\ task[c] # "done"
  /\ child' = [child EXCEPT ![c].at = "aborting"]
  /\ UNCHANGED <<refVars, abort, taskVars, counters>>

\* The timeout passes first: the task is aborted, and waited for again.
GiveUp(c) ==
  /\ child[c].at = "shutdown" /\ task[c] # "done"
  /\ Aborting(c, "timeout")
  /\ child' = [child EXCEPT ![c].at = "aborting"]
  /\ UNCHANGED <<refVars, taskVars, counters>>

\* Child::poll finds the task over.  An awaited shutdown has consumed the
\* Child; one that was awaited by reference can only be dropped.
Join(c) ==
  /\ child[c].at \in Owned /\ child[c].join /\ task[c] = "done"
  /\ IF child[c].at = "held"
     THEN child' = [child EXCEPT ![c].join = FALSE] /\ UNCHANGED strong
     ELSE ChildGone(c)
  /\ UNCHANGED <<made, revived, registered, user, abort, taskVars, counters>>

\* Child::drop, of the Child or of the future that awaits its shutdown.
DropChild(c) ==
  /\ child[c].at \in Owned
  /\ ChildGone(c)
  /\ IF child[c].attached /\ child[c].join
     THEN Aborting(c, "drop") ELSE UNCHANGED abort
  /\ UNCHANGED <<made, revived, registered, user, taskVars, counters>>

-----------------------------------------------------------------------------
\* What the owner of a Child may do with it before it waits or drops it.
HandleStep(c) ==
  \/ \E attached \in BOOLEAN : SetAttached(c, attached)
  \/ IntoDyn(c) \/ IntoHandle(c) \/ AbortChild(c)
  \/ \E u \in bound.users : IntoParts(c, u)

RefStep ==
  \/ \E u \in bound.users :
       \/ \E c \in bound.channels : Create(u, c) \/ Spawn(u, c) \/ SpawnRefused(u, c)
       \/ \E v \in bound.users : Clone(u, v)
       \/ bound.handles /\ Find(u)
       \/ UpgradeCheck(u) \/ UpgradeIncr(u) \/ Drop(u) \/ Remove(u)
  \/ \E c \in bound.channels :
       \/ \E kind \in {"Shutdown", "Suspend", "Resume"} : Signal(c, kind)
       \/ bound.handles /\ HandleStep(c)
       \/ BeginShutdown(c) \/ GiveUp(c) \/ Join(c)
       \/ DropChild(c) \/ ChildRemove(c)

-----------------------------------------------------------------------------
(* Properties.                                                             *)

\* The strong references to a channel that exist.
Holders(c) ==
  Cardinality(Holds(c))
    + (IF child[c].at \in Owned THEN 1 ELSE 0)
    + (IF task[c] \in HasInbox THEN 1 ELSE 0)

\* Whoever dropped the last reference to c has the entry still to remove.
Removes(c) ==
  \/ \E u \in Users : user[u] = User("removing", c)
  \/ child[c].at = "removing" \/ task[c] = "deregister"

\* The count is the number of references whatever is cloned, upgraded, taken
\* apart, converted and dropped.  A channel whose count is not zero is registered
\* under its name, and whoever removes an entry finds that of the channel it
\* dropped (the drop complains if there is none): neither a creation that failed
\* nor the late removal of another channel takes it away.  That ends only with
\* an upgrade that checked in time and increments the count too late.
RegisteredWhileHeld ==
  \A c \in Channels :
    /\ strong[c] = Holders(c)
    /\ ~revived /\ (strong[c] > 0 \/ Removes(c)) => registered = c

==============================================================================
