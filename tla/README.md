# A TLA+ development of zestors

zestors is an actor framework: actors are tasks with an inbox, supervisors keep
them running, and nodes pass messages between each other. This directory holds
TLA+ modules that model it, the TLC configurations that check them, and proofs
that TLAPS checks. Paths are relative to the repository's `src/`, and
`runtime/`, `supervisor/`, `supervision/`, `actor/` and `distr/` stand for
`crates/<name>/src/`.

## 1. Inventory

| Component | State | Operations | What is hard | What makes it correct |
|---|---|---|---|---|
| Channel and Inbox (`runtime/channel/data.rs`, `references/inbox.rs`) | status, spawn and exit history, message and signal queue, a notifier for each | `register_*`, `next_event`, `next_event_always`, `next_signal`, `handle_signal`, `cast`, `signal`, `Inbox::drop` | senders check, push and notify in steps of their own; the receiver reads the status and then waits; signals race with everything | one process at a time; the status follows the lifecycle; histories match the processes; no wakeup is lost; what was accepted is received or dropped |
| Spawning (`runtime/spawn.rs`) | the task, its `AbortBomb` | `spawn`, the end of the task | normal end, panic and abort each register the exit in another place | each exit registered once, with its reason |
| Addresses and registry (`runtime/references/strong.rs`, `registry/`) | strong count, names | create, clone, upgrade, drop, look up | the last drop races an upgrade, and removes the name in a later step | the count is the number of references; a name is registered while its address is held |
| Child, ShutdownChild (`runtime/references/child.rs`) | join handle, timer | join, abort, attach, detach, shutdown with timeout | a timeout races the exit | a dropped attached child is aborted; the shutdown ends |
| Queues and backpressure (`runtime/queue/`) | occupancy, limits | push, pop, delay | limit is checked before the push | bounded |
| Interface (`crates/interface`) | none | envelopes, one-shot replies | none | a reply is given at most once |
| Handler and scheduler (`actor/state.rs`, `scheduler.rs`) | scheduled futures and streams | `init`, `run_once`, `exit`, `next_event` | `select!` drops the loser | `exit` runs once; no event is lost |
| Supervision protocol (`crates/supervision`) | `RestartIntensity`'s history | `allow_restart` | windows | no more than `max_restarts` in a window |
| Supervisor core (`supervisor/actor/{mod,runner,map,supervisee}.rs`) | map of supervisees, their states, `initializing`, `exiting`, limiter | add, remove, start, stop, restart, shutdown | events of all children, inbox and source in any order | shutdown waits for all; nobody is left dead; restarts are charged |
| Strategies (`supervisor/actor/one_for_one.rs`, `one_for_all.rs`, `rest_for_one.rs`) | a cascade kept by name | `handle_exit`, `remove_spec`, `shutdown`, `after_initialized` | whatever happens during a cascade | the cascade waits for an event that comes; order of stops and starts |
| Blueprint, source, node (`supervisor/source.rs`, `node.rs`) | a source's events; the phase of a node's shutdown | `load_all`, `next_change`; `run` | a restart between two events; a second signal | no change is lost or applied twice |
| Links (`distr/link/`) | connections by peer, lanes, health | `connection`, `register`, `unregister`, `forget`, `lane` | two nodes dial at once; a peer restarts; a lane reports | both keep the same connection; reports alternate |
| Remote messaging (`distr/messaging/`) | pending calls, routes, monitors | call, complete, `fail_node`, admit, release, begin, cancel | a reply, a timeout and a lost node race | a call ends exactly once; nothing leaks |
| Membership (`distr/cluster/`) | members, generation | `driver`, `apply` | stale generations | a view only moves forward |
| Simulated network, QUIC, API server, inspector, codegen, facade | - | - | - | not core logic |

How they interact: a `StrongAddress` owns a channel; `spawn` puts a process
with an `Inbox` on it and gives a `Child` back; senders and monitors use the
channel from any thread. A supervisor is itself a process. It holds the `Child`
of each supervisee and drives its state machine (start, initialize, run, shut
down) from its own task; its own channel brings it messages and signals. A node
runs a root supervisor. The distributed part looks actors up in the registry
and casts to their channels.

## 2. Modules

| Module | Models |
|---|---|
| `ProcessSlot` | abstract: a channel as one slot with a status |
| `Channel` | the channel, its senders, and the runs spawned on it |
| `Monitor` | `Channel`, and a task that waits for a status (`ActorOps::monitor`) |
| `References` | strong references, their count, the registry, and `Child` |
| `HandlerLoop` | on top of `References`: the event loop that runs a `Handler` |
| `SupervisedGroup` | abstract: a supervisor and who is up |
| `Supervisor` | what the strategies share; no behaviour of its own |
| `OneForOne`, `OneForAll`, `RestForOne` | one strategy each, on top of `Supervisor` |
| `Source` | the in-memory source, and a supervisor that follows it |
| `Node` | on top of `Source`: `Node::run`, or a parent that restarts the supervisor |
| `Fabric` | the simulated network |
| `Links` | on top of `Fabric`: the links of every node |
| `Messaging` | messages from one node to an actor on another, and their answers |
| `Membership` | one node's view of the cluster |
| `MC...` | instances of the module named, for TLC |
| `...Proofs` | theorems about the module named; `ChannelProofs` also about `Monitor`, `NodeProofs` about `Links`, `Membership`, `Source` and `Node`; `SupervisorProofs` has the lemmas that the three strategies share |

A definition marked "Mutation of" is no part of a model. It is the form the
definition before it would have if the code had a plausible bug, and TLC finds
the property it belongs to violated with it.

### Channel and Monitor

One step is what the code does between two points at which another thread can
interfere. `cast` is three steps: `CheckMsg` reads the status, `PushMsg`
pushes, `NotifyMsg` notifies; so is `signal`. A receive method is `Recv`
(auto-initialization and the one read of the status), then the polls of
`next_signal` (`TakeSignal`, `NoSignal`) and `next_msg` (`TakeMsg`, `NoMsg`),
and a wait (`Wake`). `msgNotified` and `signalNotified` are the one permit a
tokio `Notify` stores. `phase[r]` is where the task of run `r` is: the phases
`drainMsgs`, `drainSignals`, `dropped`, `unwinding` are `Inbox::drop`, the time
until `register_exited`, and the unwinding of a panicked task, whose
`AbortBomb` fires last (`BombDrop`). `Finish` is the handler returning or
panicking, `Abort` is a `Child` that aborts it at an await.

A spawn and an exit change the status under one lock and write the history under
another, and so are two steps each: `RegisterSpawned` and `RecordSpawn`,
`RegisterExit` and `RecordExit`. A run in the phase `spawning`, `recording` or
`bombing` is between the two, and anything may happen there: if the owner does
not wait for the task, a successor may be recorded before the exit that let it
in. A history drops its oldest entry before a push when it holds more than `Keep`
(`Push`). The code's `Keep` is 5 and its histories grow to 6 entries, since
the test at `data.rs:261` and `:292` is made before the push; the runs take a
`Keep` of 0 or 1, at which two or three runs reach the cut.

`Runs` are the calls of `spawn` made on one address. `Respawn` says how careful
its owner is: it joins the last child (`"joined"`, what supervisors do), it
waits for the exit to be reported (`"exited"`), or it calls at any time.

The `select!` of `next_event` is biased: a receiver that is woken by both
notifiers polls its signals first, and one that is woken by one of them polls
that one. A `Notified` that was told and is dropped passes its notification on,
so the permit stays. Taking a signal and handling it is one step: no one
else pops while the task lives.

`Monitor` adds the watcher of `monitor`: it creates its `Notified`, reads the
status, and polls the `Notified`, three steps between which the actor goes on.

Left out: the queue limits of a million, the backpressure delay (a pure function
of the occupancy), `try_recv`, `run_until_shutdown`.

### References and HandlerLoop

Several channels are created under one name, so at most one is registered at a
time. `user[u]` is a thread with at most one reference and the call it is in: an
upgrade is a check and an increment (`UpgradeCheck`, `UpgradeIncr`), the last
drop is a decrement and, later, the removal of the name. Nothing keeps an upgrade
from the last drop: the public `upgrade` asks for no other reference, and an
increment that comes after a count has reached zero sets `revived`, which only
`RegisteredWhileHeld` reads (sections 5 and 6). `child[c]` is the `Child`:
attached or not, held, being shut down, or already aborting; dropping it aborts
the task if it is attached. In a debug build the drop that finds no registry
entry panics; the model follows the release build, which logs.

`HandlerLoop` runs a task on a channel: `init` next to the signals, then the
`select!` of the inbox and the handler's scheduler, the hooks, the exit hook,
and what drops when the task ends. A panic may come from a hook, from the
handler, or from a scheduled future that the `select!` polls. `doing[c]` is what
the handler has in hand between two `select!`s. Here a send and a receive are
one step each: what happens between their steps is in `Channel`. `atExiting`
remembers what was queued when the shutdown was taken, for
`NormalExitHandlesAll`. Left out: `add_stream`, and user code in `next_event`.

### Supervisor and the strategies

The supervisor is one task. It takes one event and handles it to the end, so
an event is a step: `Started`, `Initialized`, `GoDown` (a start that failed, or
an exit, with or without success), `Register` and `Deregister` (a message or
the source), `ShutdownSignal`. `child[n]` is `SuperviseeState`. `stop` of a
start in flight cancels it at once, and a process told to shut down owes an
exit. The moment a process ends and the moment its supervisor handles that are
one step, because the supervisor learns of it in no other way.

A restart budget is a count of restarts within the window (the intensity that is
unlimited by its special value is a `MaxRestarts` that is never reached).
`WindowPasses` lets the oldest fall out at any time, which covers every clock
and every `within`. The supervisor's permit is taken before the child's own is
asked for and is not given back (`TakeSupervisorPermit`).

`OneForAll` adds `restarting`, `cascadeRestart` and `cascadeDrop`, its cascade.
`RestForOne` adds `cascade`, a record with the code's four phases. Its handlers
call each other in tail position and each goes on from what the one before left
(`advance_stop` to `advance_restart`, and so on); here they pass that on as a
record `s` and the last one makes it the next state (`EndWith`), so one event
is still one step.

Left out: `Suspend` and `Resume` of the supervisor's own inbox, a source that
fails to load, names that fail to parse.

### Source and Node

`children` and `events` are the state behind the source's mutex, `permit` its
notifier. `at` is where the supervisor is in its loop, whose `names` are those
that have a supervisee; what it does with their processes is in `Supervisor`.
A supervisee may also leave or come without the source: its exit needed no restart
(`DropSpec`), a `DeregisterChild` took it out, or a `RegisterChild` added one
(`AddSpec`). `aside` remembers these names until an event about them is taken or
the supervisor loads again. A supervisor that is started anew loads the same source, after events the last
one left. `owner` chooses between a node, with its two signals and its timeout,
and a parent that restarts it up to `MaxStarts` times.

### Fabric and Links

`Fabric` keeps, of every connection, who dialed whom at which incarnation, the
accept queue, the streams with what is on them, and the datagrams. `Links` is
the code over it. `reg` is `conns`; `Register`, `Unregister` and `Forget` are its
critical sections, with the tie-break of simultaneous dials. A lane is a task
with a queue, a dial, a stream and the health it shares with the other lanes
to that peer; a new lane under the same key is another element of `Lanes`.
`told`, `reports` and `got` are what reached the rest of the node. A fault is a
crash (and a restart with the next generation), a shutdown, a partition, a
`forget`, or a dial that times out.

Left out: the capacity of lanes and inboxes, frame sizes, addresses of peers.
After `Links::shutdown` nobody asks for a new lane (the guard of `Enqueue`), as
`Node`'s teardown has it.

### Messaging

`call[c]` is what the sender of message `c` waits for, `pending` the table,
`answer` what its oneshot holds; a reply, a deadline (`TimeOut`), a dropped
future (`Cancel`) and a lost node (`CallerLost`) reach them in any order. The
task of an exported request counts from the export, so its time may be up while
the message still waits for room. `streams` and `replies` are what the links
carry. A lane writes on one stream at a time (`lane`) and goes on with another
when its connection was replaced, when it ended for being idle, or when the peer
was forgotten (`LaneEnds`; a sender that holds a closed lane is told
`Unreachable`). The host reads each stream in a task of its own, so each stream
keeps its order and no two streams do. `Disconnect` loses any tail of what is on
the way, which is reported to both sides; `drops` counts frames lost quietly. On
the host a frame is routed to the actor's task (`route`, `task`), admitted by
messages and bytes, put in the mailbox, or, for an operation, run in a task of
its own (`spawned`). `held` and `live` are a monitor's task and its entry.

Left out: several actors and shards, look-ups by name, decoding errors,
addresses and references within messages.

### Membership

`peer` is the truth: the generation of each peer's last start, and what its
store and its process remember. `foca` is what the external gossip library
takes a peer for: it goes from one incarnation to a later one, and announces
each change (`FocaUp`, `FocaDown`). `view` is what the node makes of that:
the member, whether the links say it is cut off, and the graces in which a
down waits for the goodbye that would explain it. A goodbye carries the generation
that the links were started with, not the one that a rejoin renewed to: the
goodbye of a renewed peer explains nothing, and the peer is reported failed when
its grace ends. `heard` is what a reader of the events alone knows. `wait` is a task in `wait_until`.

### Not modelled

QUIC and TLS (network I/O behind the interface that `Fabric` models), the HTTP
API and the inspector (views of snapshots), the macros, `crates/interface`
(traits and conversions), the builders of `SimCluster`, sources other than the
in-memory one, the intensity that a blueprint computes from its children, the
queue policies, and gossip itself, which is the external crate `foca`.

## 3. Runs

| Run | Bounds | Shows |
|---|---|---|
| `ChannelSignals` | 2 runs, the second takes only signals, 1 message, a shutdown and a suspend, joined, histories of 1 | the exit history matches the runs; the channel implements `ProcessSlot`; a suspended actor takes no message; what is queued at a shutdown is received |
| `ChannelRaces` | 3 runs spawned at any time, two `recv_event_always`, one of them manual, a suspend, no message, histories of 2 | every spawn and every exit is recorded once |
| `ChannelLiveness` | 1 run, 2 messages, 1 shutdown, a wait for the initialization | no lost wakeup; a queued shutdown ends the run; a watcher hears of a status that stays |
| `HandlerLoop` | three families: 2 threads and 2 channels under one name; a busy handler with 2 messages, 2 signals and a scheduled future; 2 successive spawns | count and registry agree with the references; a normal exit has handled what was queued; an awaited shutdown resolves |
| `OneForOne`, `OneForAll` | 3 children, one of each mode, one that may be registered anew, two that may be removed, 2 restarts, one child with a limit of 1 | who is waited for is still up, nobody is left dead; refinement or order, and an end of cascades and shutdowns |
| `RestForOne` | 4 children (`Always`, `Never`, `OnError`, `Never`), the first may be registered anew, the first two may be removed, 2 restarts, one child with a limit of 1, `Gathered`: a cascade gathers at most 4 names | whoever was told to stop is tracked; the supervisor stays a group until it panics; order of stops; a stopping phase ends |
| `Node` | 3 names, one of them also in the blueprint, 4 changes of the source, 2 starts | a supervisor follows its source through restarts; no event is left; a signal ends the node |
| `Links` | 2 nodes, 2 generations, 2 connections, three lanes; both nodes dial, or two lanes dial, or one lane reports; 1 fault | both keep the same connection; nothing is delivered twice; a reached peer is not reported unreachable last; no dial hangs |
| `Messaging` | 3 messages in three mixes of kinds, 1 fault, a lane of 2, a mailbox queue of 2 messages and 3 bytes, one payload of 5 | both tables hold what is waited for; admission stays bounded; order on each stream; a reported loss ends every wait but one that a stop strands |
| `Membership` | 1 peer with 3 generations and a store, a clock that reads 0 or 2 | events tell everything; a waiter misses none; a restart is newer; a down is told |
| `OneForOneDeregister` | smallest instance that shows it | a disagreement of the code with its documentation, section 6 |

Why the bounds are enough. Two runs are what it takes for one process to meet
the leftovers of another, and three for a spawn that overtakes the record of an
exit to be followed by a cut of the histories; two messages for one notification
to stand for two, two signals for one to change what the other does. Two
channels under one name are a registration and one that is refused, or comes
after the last removal. Three children give a cascade a trigger, a member in the
middle and one at an end, and the three restart modes; with two restarts a
cascade can be interrupted by another and then run out of budget. The fourth
child of `RestForOne` is what its panic takes: the trigger of a cascade is
deregistered, registered again and goes down again while a name that the cascade
has pending was deregistered. `Gathered` is a bound, since such a trigger may
join a waiting cascade any number of times. Four changes of three names let a
source remove a name and add it again around a load, with one change before and
one after. Two connections are two simultaneous dials; two failures are the
limit after which a peer is reported. In `Messaging` the payload of 5 is larger
than the whole queue, and two others fill it. A second generation is a restart,
a third one a restart between two reports of foca about the first. The families
of `HandlerLoop` and the mixes of `Links` and `Messaging` are chosen by the
initial state, since one large instance of each is out of TLC's reach.

Fairness is used only by the liveness properties.

- Channel (`Channel!Fairness`): a task that can run does, a sender that has begun
  finishes, a handler gets back to its receive method, and leaves its loop when
  that returns `None`; in `Monitor`, a task that was woken is polled. The runtime
  schedules every ready task; that a handler returns is the actor's own promise.
  Nobody is obliged to send, spawn, finish or panic.
- Supervisors: a start ends, because `start_timeout` bounds it, and a child told
  to shut down goes down, because `abort_timeout` does. An initialization is
  not fair: nothing bounds it. Nor are registrations, exits of a child by
  itself, or the window.
- `HandlerLoop`: aborted tasks and destructors run, the timer of a shutdown
  fires, its future is polled, and a thread ends a call it has begun. The
  handler may hang anywhere.
- `Node`: the supervisor is polled, an abort takes effect, the timeouts fire,
  `Node::run` is polled. Signals and changes need never come.
- `Links`: some task of a lane or a connection that can go on does. Faults and
  sends need never happen.
- `Messaging`: the caller's and the host's tasks go on, and an actor that was
  stopped exits. Handlers need not answer: deadlines do.
- `Membership`: the timers of the graces fire.

`CHECK_DEADLOCK FALSE` stands in every cfg: a channel whose runs are done and
whose messages are sent, a supervisor that has exited, a node that returned and
a network whose budget of messages is used up do stop.

## 4. Proofs

Each holds for every value of the constants that the named assumptions of the
modules admit: sets of any size, any bounds. Where an invariant is not inductive
as it stands, the strengthening is named.

`ChannelProofs`, for any sets of runs, messages and signals, any kinds and
loops (`ChannelAssumption`).

- Whatever the owner does: `TypeCorrect` (`TypeOK` is not inductive: that the
  reason registered for an exit is an `ExitStatus` needs that a run which
  registers one has an outcome, and was not one whose spawn panicked;
  `OutcomeOK` adds that), and `HistoriesInStep`: the number of spawns and exits
  recorded, with those still to be recorded, goes by turns, because it is the
  status, under its one lock, that lets each in (`TallyInv`).
- With `Respawn = "joined"`: `ChannelIsProcessSlot`, `OneProcessAtATime`,
  `DeadMeansNoProcess` and `ExitHistoryIsTrue`. Their invariant is `SlotInv`: at
  most one run is anywhere between `try_new` and the end of its task; while its
  process is on the channel the status is not `Exited`; before
  `register_spawned`, while it unwinds, and when nobody is there, it is
  `Exited`; and no spawn has panicked. It is needed because `AtMostOneProcess`
  alone excludes neither a run that has passed `try_new`, nor a bomb that is
  still armed, beside a process. `HistoryInv` adds which run each entry stands for,
  counted from the end, as far back as the histories are kept.
- Under the same condition: `ShutdownReceivesAll`. `FateInv` follows a message:
  it is queued once, was not dropped while queued, and only a run whose handler
  has ended drops any. `ClosedInv` says that what comes into the queue after a
  run was told `None` was not there at the shutdown.
- Under the same condition: `NoneTakenWhileSuspended`, by `AwakeInv`: whoever waits
  for a message or polls for one is not suspended, because only the process
  itself handles a `Suspend`, before it goes back to its wait.
- `NoMatchIsSleptThrough`, about `Monitor`: a watcher sleeps only if the status
  it waits for is not there, or a notification is (`WatchInv`). It is what
  `MonitorReturns` needs besides fairness. A wait for the initialization, which looks
  at the history of spawns too, needs `Respawn = "joined"`.

`HandlerLoopProofs`, for any threads, channels, messages and signals; the
threads are finitely many, since the count is a cardinality. `CountIsTrue` asks
nothing of those who upgrade. Its invariant
`RefInv` says, besides the types, that the count of every channel is right
(`Counted`), without any condition; that, until an upgrade comes too late
(`revived`), a channel with references is the registered one, and at
most one removal of the name is due, of the channel still registered, which
nobody holds any more (`Named`); and that a channel that says `Exited`
has no task left to end (`Alive`). Without the uniqueness in `Named`, a late
removal could unregister a channel created since. The invariant of
`NormalExitIsComplete`, `LoopInv`, says that a message is in one queue, once, or in hand (`OnePlace`),
that what was queued when the exit began is queued, in hand or handled until the
inbox drops (`Followed`), and what the phases of a task imply (`InPhase`).

`OneForOneProofs`, for any children, modes, budgets and sets of names.
`TypeCorrect`; `ShutdownWaitsForAll` (the exits waited for are exactly those of
children still up); `NobodyLeftDead`; `ImplementsGroup`. The three invariants
are inductive together: what `exiting` holds is right only because every
supervisee of a working supervisor is up, and because names without a
supervisee are `Dead`. It uses that a removed name is also taken out of
`exiting`.

`OneForAllProofs`, under the same conditions. `TypeCorrect`;
`CascadeWaitsForTheStopped`; `CascadeLeavesNoneDead`; `GroupRestartsTogether`, an
action property. The invariant `Cascade` says that, in a working supervisor,
the members of the cascade are those that are `Dead` or shutting down, those it
waits for are the ones shutting down, and nobody is waited for means nobody is
a member. `CascadesStayWithinTheGroup` is the refinement of `SupervisedGroup`
for `Removable = {}`; with deregistration it is false, see section 6.

`RestForOneProofs`, under the same conditions. The invariant `RestInv` has one
part for each thing a handler passes on: the map's order holds each supervisee
once, and names without one are `Dead` (`Settled`); the cascade waits for someone
who will exit, or initialize, and whoever was told to stop is waited for or
pending (`Tracks`); of a supervisor that is exiting, nobody is up but those that
are pending, which are in the map's order (`Phases`). The handlers go on in each
other, so each function of the cascade (`AdvanceStop`, `AdvanceRestart`,
`AdvanceShutdown`, `MergeIntoStopping`) has a lemma of its own, which says what
it makes of any supervisees and any cascade that fit.

- `TypesOfCascade` and `CascadeIsTracked`: no exit of a child that was told to
  stop is taken for a new failure.
- `LastStopsFirst`: the action property about the order of a shutdown. It needs
  that the shutdown's pending names are in order.
- `OnlyAPanicLeavesTheGroup`: with deregistration, every step is a step of
  `SupervisedGroup` or the panic in `merge_into_stopping` (`IsGroupUntilPanic`,
  which the run checks with that panic in reach), and the panic comes only to a
  supervisor that works, never in a shutdown, and leaves nobody up.
  `CascadesAreOfAGroup`: with `Removable = {}` that panic never comes, since the names that a cascade
  has pending are supervisees, and the supervisor implements the group.

`MessagingProofs`: `TableIsTrue` (the table of pending calls holds exactly the
calls that are waited for without an answer) and `NoMonitorLeaks`. `CallInv`
adds that nothing is answered before it is in the table.

- `QueuesAreBounded`: what a task has admitted is what its queue holds, in
  messages and in bytes (`Counted`). The bytes are a sum over a sequence, by a
  recursive function whose laws for `Append` and `Tail` are proved by
  well-founded induction. A
  single message may exceed the bound on bytes, and is then alone in the queue.
- `OrderIsKept`: while no task closed its queue there is one task, and of the messages
  that came on one stream each of the places that they pass (stream, queue, in
  hand, mailbox) is in order and behind all that is in the next (`LineInv`).
  Nothing is in any of them that the sender is not done with (`ShipInv`), who
  begins a message when those before it are sent or given up (`CastInv`), and a
  message is on one stream at most (`WireInv`).

`NodeProofs`, about three specifications that share no variable.

Links, for any nodes, lanes, messages, connections, incarnations and faults
(`LinksAssumption`: finitely many lanes, none to the node itself).

- `NoMessageTwice`. `LedgerInv` is a ledger of where each message is: in one
  lane's queue, on one connection, arrived, or nowhere, with the numbers of those
  not sent yet nowhere. Each step moves a message once or loses it. A crash, a
  partition or a forget only loses, and a lane started anew under the same key
  has a queue of its own.
- `ReportsAreTrue`. `HonestInv`: whoever heard `Unreachable` will hear when that
  ends, because the health remembers that it was reported, or the report is
  on its way; if the lane reports alone, and nobody forgot the health.
- `NodesAgree`. `ConnInv`: a connection in a handshake was dialed by the lane's
  node and is not registered (`GreetInv`); an open one joins incarnations that
  both run, each of which has registered it or is about to (`PairInv`); a
  registered one is its node's own (`RegInv`). `DialInv` is the dialing
  mutex. With them, when nothing is under way an open connection is registered at
  both ends, so that the two registries agree, by the
  tie-break, which closes the same one of two at both ends. That there is a
  connection at all needs `CalmInv`: without a fault, a connection of the
  direction that wins is never closed, and one of the other only in favour of
  it.

Membership, for any peers, clocks and generations: `EventsAreEnough`, by
`ViewInv`, which ties the member list to foca one incarnation at a time;
`WaitersAreCurrent`; `RestartsAreNewer`, whose `PeerInv` says that what was
handed out last is what the process and, if it has one, the store remember.

Source and Node, for any names and blueprint: `SourceIsFollowed`.
`FollowsSource` replays the queue of events by a recursive function. `SourceInv`
says instead that there is some play of the events, one set of children after
each, that begins with the supervisor's and ends with the source's, but for the
names in `aside` and the blueprint's (`Leads`). A new event adds to its end, one
that is taken drops its beginning, a load starts anew, and a supervisee that
leaves or comes without the source changes only names that are set aside with
it. That the function is such a play is an induction over the length of the
queue, which takes a least counterexample (`Least`, from well-foundedness) in
place of the induction theorem of the library.

Only model-checked: liveness (`ShutdownEndsRun`, `MonitorReturns`, `CascadeEnds` and
the like). Fairness, and the `ENABLED` it stands on, are out of the prover's
reach. `Fabric` has no theorem of its own: what it promises is in the invariants
of `Links`.

## 5. Properties

- Channel: `ExitHistoryMatchesRuns` relates spawn, task end and bomb, as far back
  as the histories are kept. `HistoriesTally` is what survives careless owners,
  under whom the entries of the histories may come out of turn: until the cut there
  are as many of each as there were spawns and exits. `ShutdownKeepsQueued` says that `None` from a receive method means the queue was emptied;
  `SuspendedTakesNoMessage` is about a status read before a wait.
- `RegisteredWhileHeld`: the count is the number of references, always. The registry
  agrees with it, but for the removal that a last drop still owes, until an upgrade
  takes a count back up from zero. What the registry holds after that is nothing
  to rely on, see section 6.
- Supervisor: `ExitingTracksChildren` and `WaitsForTheStopped` relate the
  names waited for to the states of the children; `CascadeTracksChildren` does
  the same for the sequential cascade. `NoneLeftDead` says that whatever went
  down was restarted or dropped. `AllExitBeforeAnyRestart` and
  `StopsInReverseOrder` are about order. `IsSupervisedGroup` is the contract with
  the parent: nothing starts while exiting, and an exit leaves nobody up; it
  does not hold of `OneForAll` when members may be deregistered, see below.
  `IsGroupUntilPanic` is what holds of `RestForOne`: the same, or its panic.
  `CascadeEnds`, `StoppingEnds` and `ShutdownRunsDown` say that what is waited
  for comes. That the supervisor itself then exits (`ExitCompletes`) holds
  only if no child is deregistered meanwhile.
- `FollowsSource`: what a supervisor has, with the events it has not taken, is
  what the source has, name by name, except those that came or went without the
  source since the last event about them or the last load.
- `ConnectionsAgree`: two nodes that settled keep the same connection.
  `ReportsMatch`: a peer that was reached is not
  reported unreachable last, where one lane reports alone.
- `PendingIsAwaited`: the caller's table holds what is waited for, no more and no
  less. `MonitorsAreHeld` is one half of that for the host: no entry without a
  monitor. A monitor may be left that nobody asks for any more, see section 6.
  `ReportedLossEndsWaits`: while nothing is lost quietly every wait ends, except
  one without a deadline that a stop strands in the table (`Stranded`), see
  section 6. `OrderOnStream`: the messages of one stream reach the mailbox in
  order as long as the actor's task does not go idle. No property speaks of the
  order between streams, since the code has none.
- `EventsTellAll`: whoever reads only the events knows the member list.

Hazards without a property. The panic at a full queue (`data.rs:209`): the limits
are not modelled. A `Suspend` without effect (`data.rs:325`), the permit that is
taken and not given back (`one_for_one.rs:46`), the order of a cascade's starts
(`rest_for_one.rs:243`), the cascade that goes on under a shutdown
(`one_for_all.rs:151`), the result that a deregistration drops
(`rest_for_one.rs:430`), the child that never initializes (`supervisee.rs:178`) and
the late `Disconnected` (`receive.rs:109`): the models do what the code does, and what
one would ask for does not hold, or no document promises it. Section 6 lists the
ones that a document or a caller would be surprised by.

## 6. Where code and documentation disagree

Shown by a run: `OneForOneDeregister`. Deregistering the last child that a
shutdown waits for leaves the supervisor exiting for ever.

Met while modelling, without a run. Runtime:

- `spawn.rs:206`: a panicked process registers `Exited` before its bomb is
  dropped; a successor spawned in between is registered as aborted.
- `cast.rs:73`: a message pushed after the drain stays, and its caller waits.
- Two concurrent spawns both pass `try_new`, and the `expect` at
  `spawn.rs:178` panics (`SpawnPanics`).
- `data.rs:325`: a `Suspend` during initialization is handed to the handler
  without an effect on the status.
- `data.rs:167`: a watcher may miss a status that does not stay, where
  `ops.rs:178` promises the next one.
- `strong.rs:8` and `data.rs:136` say that a channel without strong addresses is
  closed for good, and that a count may be incremented only next to another
  reference. The public `upgrade` (`ops.rs:432`) checks and increments in two steps
  (`strong.rs:44`) and asks for no other reference: it may succeed after the last
  drop, whose removal then unregisters a live address; `strong.rs:58` removes by
  name.
- `data.rs:244`, `:270`: the status changes before the history does, so that a
  successor's spawn may be recorded before the exit that let it in.
- `child.rs:151`: `into_dyn` attaches a detached child again.

Handler (`actor/`): `state.rs:99` handles scheduled events while suspended;
`state.rs:54` logs "Ignoring" for a `Suspend` that has changed the status, so that
`on_resume` may come without an `on_suspend`; scheduled futures are dropped at
an exit.

Supervisor (`supervisor/`):

- `actor/one_for_all.rs:151`: a deregistration finishes a cascade that a shutdown
  overtook, and starts the group again.
- `actor/rest_for_one.rs:151`, `:243`: the trigger of a cascade is started
  last, against the order at `:13`.
- `actor/rest_for_one.rs:379`: a crash in the restarting phase forgets who is
  down. `:130` charges a failed restart within a cascade to the child alone.
  `:177` panics when a pending name was deregistered and the trigger,
  deregistered too, was registered anew and goes down (four names suffice).
  `:240` drops a child that was registered anew under a name of `to_drop`.
  `:430` discards the `Break` of `advance_cascade`.
- `actor/mod.rs:207` takes a name out of `initializing` without checking whether
  it was the last: the supervisor stays `Initializing`.
- `childspec.rs:22`: `init_timeout` is never read.
- A spec that is removed and added again races with the exit of the child
  aborted first. A blueprint's name that is also in the source ends the
  supervisor at its load. `blueprint.rs:140` counts the blueprint's children only.
- `node.rs:97`: a second signal between the first and the new listener, or
  during the pause of three seconds, goes unseen.

Links (`distr/link/`):

- `mod.rs:416`: a registration may replace a connection that has closed, whose
  `Disconnected` then never comes, against `mod.rs:131`; so does `forget`
  (`mod.rs:287`) of a member that is down or renamed
  (`cluster/membership/driver.rs:221`, `:234`).
- `lane.rs:104`: two lanes that share a health may send their reports in the
  wrong order.
- `lane.rs:83`: a message put into a lane that has just ended is lost quietly, and
  order is kept on one stream, not within a lane that goes on with another stream
  nor across successive lanes (`mod.rs:6`, `:103`).

Messaging (`distr/messaging/`):

- `receive.rs:248`: messages before and after an idle task may overtake each
  other, against `address.rs:26`. So may those of two streams of one lane: after a
  reconnect, an idle lane or a `forget` the next message goes on a new stream
  (`link/lane.rs:171`), and each stream is read by a task of its own
  (`link/mod.rs:510`), against `address.rs:26` and `Delivery::Ordered`
  (`link/mod.rs:103`).
- `receive.rs:296`: a monitor that was called off early may stay, since its
  `Demonitor` goes by another task (`send.rs:33`) and may overtake it; so may one
  that begins after `drop_node`.
- `pending.rs:47`: a call prepared while `Serving` drops is inserted after
  `fail_all`. If it has no deadline (a monitor) it waits for ever, against
  `node.rs:207`. A late `Disconnected` fails calls on the next connection.
- `node.rs:54`: call numbers start at 0 again in the next serving.
- `request.rs:42` says that there is no timeout; an exported request has the
  call timeout (`wire.rs`).

Membership (`distr/cluster/`): a peer that rejoined under a renewed generation
(`membership/driver.rs:237`) says goodbye with the generation of its links
(`link/mod.rs:183`), which `driver.rs:166` does not match, so that its leave is
reported as a failure; `state.rs:302` does not announce the rename of an
inactive member; `member.rs:24` renews a generation that may exceed the one the
clock gives to the next start.

## 7. Plan

Done: the runtime, the actor's handler, supervision with its source and node,
the links, messaging and membership. Every safety invariant and every action
property that a run checks is a theorem as well.

Left:

1. Two actors and two shards in `Messaging`, two peers in `Membership`, the
   capacities of lanes and inboxes in `Links`.
2. `RestartIntensity` with timestamps, refined by the budget of `Supervisor`;
   the queue limits of `Channel`; a supervisor composed with the channel of a
   child.
3. What liveness rests on besides fairness, as theorems: that whoever waits
   waits for a step that is enabled, as `NoMatchIsSleptThrough` says of a
   watcher, for the receive methods of `Channel`, the lanes of `Links` and the
   phases of `Node`.
