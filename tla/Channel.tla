------------------------------- MODULE Channel -------------------------------
(***************************************************************************)
(* The runtime's Channel: the status, the two queues and the exit history  *)
(* that every process spawned on one StrongAddress shares, with the        *)
(* Inbox's receive loop, the process's task and the senders that use it.   *)
(*                                                                         *)
(* A channel outlives its process: once a run has exited, another one can  *)
(* be spawned on it.  Runs is the set of spawn calls made on the channel.  *)
(* A sender reads the status, pushes, and notifies in three steps that     *)
(* anything may interleave with; the receiver registers for notifications, *)
(* pops, and parks.  A spawn and an exit change the status under one lock  *)
(* and write the history under another, with a step in between.            *)
(***************************************************************************)
EXTENDS Naturals, Sequences, FiniteSets

CONSTANTS
  Runs,           \* calls of StrongAddress::spawn, each a process of its own
  NoRun,          \* no run at all
  Msgs,           \* messages, each sent once by a sender of its own
  IgnoreExiting,  \* the messages sent with CallOptions::ignore_exiting
  Sigs,           \* signals, each sent once by a sender of its own
  Kind,           \* what each signal is
  Loop,           \* the receive method each run's handler loops over
  ManualInit,     \* the runs whose handler calls Inbox::set_manual_init
  Respawn,        \* when the owner spawns again, see MaySpawn
  Keep            \* KEEP_N_SPAWNS and KEEP_N_EXITS

SignalKinds == {"Shutdown", "Suspend", "Resume", "Ping"}
Statuses    == {"Exited", "Initializing", "Running", "Suspended", "Exiting"}
ExitStatuses == {"Normal", "UnhandledError", "Panicked", "Aborted"}

ASSUME ChannelAssumption ==
  /\ NoRun \notin Runs
  /\ IgnoreExiting \subseteq Msgs
  /\ Kind \in [Sigs -> SignalKinds]
  /\ Loop \in [Runs -> {"recv_event", "recv_event_always", "recv_signal"}]
  /\ ManualInit \subseteq Runs
  /\ Respawn \in {"joined", "exited", "anytime"}
  /\ Keep \in Nat

VARIABLES
  status,         \* status_observer, without the reason of Exited
  spawns,         \* the last runs that were recorded as spawned, in order
  exits,          \* the reasons of the last exits recorded, in order
  msgQueue, signalQueue,
  msgNotified, signalNotified,  \* a notify_one that no one consumed yet
  phase,          \* where the task of each run is
  init,           \* InitState of each run's Inbox
  outcome,        \* how each run's future ended
  closed,         \* the runs whose receive method has returned None
  sender,         \* where the sender of each message is
  sigSender,      \* where the sender of each signal is
  receivedBy, droppedBy,  \* the run that received, that drained, a message
  atExiting       \* what was queued when a shutdown was last accepted

chanVars == <<status, spawns, exits, atExiting>>
queueVars == <<msgQueue, signalQueue, msgNotified, signalNotified>>
procVars == <<phase, init, outcome, closed>>
sendVars == <<sender, sigSender>>
fateVars == <<receivedBy, droppedBy>>
vars == <<chanVars, queueVars, procVars, sendVars, fateVars>>

-----------------------------------------------------------------------------
(* The phases of a run.                                                    *)

\* It is in a receive method of its Inbox: polling next_signal alone or in the
\* select! (for the first time, or woken), polling next_msg, or waiting.
PollingSignal == {"signalOnly", "signalFirst", "signalWoken"}
Parked        == {"parkedSignal", "parked"}
Receiving     == PollingSignal \cup Parked \cup {"pollMsg"}
\* Its handler runs, and its Inbox is there to be used.
Open == {"idle", "closed"} \cup Receiving
\* Its Inbox is being dropped, or was, and its exit is not registered yet.
Closing == {"drainMsgs", "drainSignals", "dropped"}
\* Its task, or its AbortBomb, has made the status Exited and has still to write
\* the history.
Recording == {"recording", "bombing"}
\* Nothing of it is left.
Over == {"unspawned", "refused", "crashed", "done"}
Phases == Open \cup Closing \cup Over \cup Recording
            \cup {"checked", "spawning", "unwinding"}

\* The run's process is on the channel: from the status of register_spawned until
\* that of its own register_exited.
Present == {"spawning"} \cup Open \cup Closing

Occupies(r) ==
  /\ phase[r] \in Present
  /\ outcome[r] # "SpawnPanicked"

Processes == {r \in Runs : Occupies(r)}

-----------------------------------------------------------------------------
Init ==
  /\ status = "Exited" /\ spawns = <<>> /\ exits = <<>> /\ atExiting = {}
  /\ msgQueue = <<>> /\ signalQueue = <<>>
  /\ msgNotified = FALSE /\ signalNotified = FALSE
  /\ phase = [r \in Runs |-> "unspawned"]
  /\ init = [r \in Runs |-> IF r \in ManualInit THEN "Manual" ELSE "Auto"]
  /\ outcome = [r \in Runs |-> "None"]
  /\ closed = {}
  /\ sender = [m \in Msgs |-> "unsent"]
  /\ sigSender = [s \in Sigs |-> "unsent"]
  /\ receivedBy = [m \in Msgs |-> NoRun]
  /\ droppedBy = [m \in Msgs |-> NoRun]

Goto(r, p) == phase' = [phase EXCEPT ![r] = p]

\* A history drops its oldest entry before a push when it holds more than Keep.
Push(history, entry) ==
  Append(IF Len(history) > Keep THEN Tail(history) ELSE history, entry)

\* Where a run goes on when its exit is registered: after a panic its AbortBomb is
\* still armed while the task unwinds, after that of a spawn the Inbox is left.
Registered(r) ==
  IF phase[r] \in {"dropped", "recording"} /\ outcome[r] = "Panicked" THEN "unwinding"
  ELSE IF outcome[r] = "SpawnPanicked" THEN "drainMsgs"
  ELSE "done"

\* Mutation of RegisterExited: the check that the channel is not dead yet is
\* dropped.
RegisterExitedAgain(r, recording) ==
  /\ status' = "Exited"
  /\ Goto(r, recording)
  /\ UNCHANGED <<spawns, exits, atExiting, queueVars, init, outcome, closed, sendVars,
                 fateVars>>

\* The first half of Channel::register_exited, under the lock of the status: only
\* a channel that is not dead yet changes, and only then is there an exit to record.
RegisterExited(r, recording) ==
  /\ status' = "Exited"
  /\ Goto(r, IF status = "Exited" THEN Registered(r) ELSE recording)
  /\ UNCHANGED <<spawns, exits, atExiting, queueVars, init, outcome, closed, sendVars,
                 fateVars>>

\* The second half, under the lock of the history.
RecordExit(r) ==
  /\ phase[r] \in Recording
  /\ exits' = Push(exits, IF phase[r] = "recording" THEN outcome[r] ELSE "Aborted")
  /\ Goto(r, Registered(r))
  /\ UNCHANGED <<status, spawns, atExiting, queueVars, init, outcome, closed, sendVars,
                 fateVars>>

-----------------------------------------------------------------------------
(* Spawning.                                                               *)

\* What the owner of the channel waits for before it spawns again: that the
\* task of the last run was joined (a supervisor awaits the Child), that
\* monitor_exit or monitor_init reported the exit, or nothing.
MaySpawn ==
  /\ Respawn = "joined" => \A q \in Runs : phase[q] \in Over
  /\ Respawn = "exited" => \A q \in Runs : phase[q] \notin {"checked", "spawning"}

\* Inbox::try_new
TrySpawn(r) ==
  /\ phase[r] = "unspawned" /\ MaySpawn
  /\ Goto(r, IF status = "Exited" THEN "checked" ELSE "refused")
  /\ UNCHANGED <<chanVars, queueVars, init, outcome, closed, sendVars, fateVars>>

\* Channel::register_spawned in two halves as well; the task is spawned after both.
RegisterSpawned(r) ==
  /\ phase[r] = "checked" /\ status = "Exited"
  /\ status' = "Initializing"
  /\ Goto(r, "spawning")
  /\ UNCHANGED <<spawns, exits, atExiting, queueVars, init, outcome, closed, sendVars,
                 fateVars>>

RecordSpawn(r) ==
  /\ phase[r] = "spawning"
  /\ spawns' = Push(spawns, r)
  /\ Goto(r, "idle")
  /\ UNCHANGED <<status, exits, atExiting, queueVars, init, outcome, closed, sendVars,
                 fateVars>>

\* register_spawned fails and expect panics: the AbortBomb, then the Inbox,
\* are dropped while unwinding.
SpawnPanics(r) ==
  /\ phase[r] = "checked" /\ status # "Exited"
  /\ outcome' = [outcome EXCEPT ![r] = "SpawnPanicked"]
  /\ Goto(r, "unwinding")
  /\ UNCHANGED <<chanVars, queueVars, init, closed, sendVars, fateVars>>

-----------------------------------------------------------------------------
(* Receiving.                                                              *)

\* Mutation of SignalsOnly: a suspended actor goes on receiving.
SignalsOnlySuspendedIgnored(r, st) == Loop[r] = "recv_signal"

\* next_event waits for signals alone when the actor is suspended.
SignalsOnly(r, st) == st = "Suspended" \/ Loop[r] = "recv_signal"

\* Mutation of Ended: what is queued is left behind.
EndedRegardlessOfQueue(r, st) ==
  ~SignalsOnly(r, st) /\ st \in {"Exited", "Exiting"}

\* It returns None once the actor is exiting and its messages are received, or
\* once it has exited.
Ended(r, st) ==
  /\ ~SignalsOnly(r, st) /\ msgQueue = <<>>
  /\ st = "Exited" \/ (st = "Exiting" /\ Loop[r] = "recv_event")

\* A receive method is called: it completes an automatic initialization, and
\* next_event reads the status once to choose what it waits for.
Recv(r) ==
  LET initialized == IF init[r] = "Auto" /\ status = "Initializing"
                     THEN "Running" ELSE status
      ended == Ended(r, initialized)
  IN
  /\ phase[r] = "idle"
  /\ status' = initialized
  /\ init' = [init EXCEPT ![r] = IF @ = "Auto" THEN "Completed" ELSE @]
  /\ Goto(r, IF ended THEN "closed"
             ELSE IF SignalsOnly(r, initialized) THEN "signalOnly"
             ELSE "signalFirst")
  /\ closed' = IF ended THEN closed \cup {r} ELSE closed
  /\ UNCHANGED <<spawns, exits, atExiting, queueVars, outcome, sendVars,
                 fateVars>>

\* Inbox::register_initialized, called by a handler in manual mode.
RegisterInitialized(r) ==
  /\ phase[r] = "idle" /\ init[r] = "Manual"
  /\ init' = [init EXCEPT ![r] = "Completed"]
  /\ status' = IF status = "Initializing" THEN "Running" ELSE status
  /\ UNCHANGED <<spawns, exits, atExiting, queueVars, phase, outcome,
                 closed, sendVars, fateVars>>

\* Inbox::register_exiting, called by a handler that stops by itself.
RegisterExiting(r) ==
  /\ phase[r] = "idle"
  /\ status \in {"Initializing", "Running", "Suspended"}
  /\ status' = "Exiting"
  /\ atExiting' = {msgQueue[i] : i \in DOMAIN msgQueue}
  /\ UNCHANGED <<spawns, exits, queueVars, procVars, sendVars, fateVars>>

\* Mutation of AfterSignal: register_suspended does not check the status.
AfterSignalUnchecked(kind) ==
  IF kind = "Shutdown" /\ status \in {"Initializing", "Running", "Suspended"}
    THEN "Exiting"
  ELSE IF kind = "Suspend" /\ status # "Exited" THEN "Suspended"
  ELSE IF kind = "Resume" /\ status = "Suspended" THEN "Running"
  ELSE status

\* The status after Channel::handle_signal.
AfterSignal(kind) ==
  IF kind = "Shutdown" /\ status \in {"Initializing", "Running", "Suspended"}
    THEN "Exiting"
  ELSE IF kind = "Suspend" /\ status = "Running" THEN "Suspended"
  ELSE IF kind = "Resume" /\ status = "Suspended" THEN "Running"
  ELSE status

\* Mutation of Yields: the receiver is not told of a shutdown.
YieldsNoShutdown(kind) ==
  \/ kind = "Suspend" /\ status # "Exiting"
  \/ kind = "Resume" /\ status = "Suspended"

\* Whether handle_signal hands the signal to the receiver.
Yields(kind) ==
  \/ kind = "Shutdown"
  \/ kind = "Suspend" /\ status # "Exiting"
  \/ kind = "Resume" /\ status = "Suspended"

\* pop_signal takes the first signal and handles it.
PopSignal ==
  LET kind == Kind[Head(signalQueue)]
  IN /\ signalQueue' = Tail(signalQueue)
     /\ status' = AfterSignal(kind)
     /\ atExiting' = IF status' = "Exiting" /\ status # "Exiting"
                     THEN {msgQueue[i] : i \in DOMAIN msgQueue}
                     ELSE atExiting
     /\ UNCHANGED <<spawns, exits>>

\* next_signal finds a signal; one that is not yielded keeps the loop going.
TakeSignal(r) ==
  /\ phase[r] \in PollingSignal /\ signalQueue # <<>>
  /\ PopSignal
  /\ signalNotified' = FALSE
  /\ IF Yields(Kind[Head(signalQueue)])
     THEN Goto(r, "idle") ELSE UNCHANGED phase
  /\ UNCHANGED <<msgQueue, msgNotified, init, outcome, closed, sendVars,
                 fateVars>>

\* next_signal finds nothing.  The select! goes on to next_msg, which it polls
\* the first time, and later only when it was notified.
NoSignal(r) ==
  /\ phase[r] \in PollingSignal /\ signalQueue = <<>>
  /\ signalNotified' = FALSE
  /\ Goto(r, IF phase[r] = "signalOnly" THEN "parkedSignal"
             ELSE IF phase[r] = "signalFirst" \/ msgNotified THEN "pollMsg"
             ELSE "parked")
  /\ UNCHANGED <<chanVars, msgQueue, signalQueue, msgNotified, init,
                 outcome, closed, sendVars, fateVars>>

\* next_msg finds a message.
TakeMsg(r) ==
  /\ phase[r] = "pollMsg" /\ msgQueue # <<>>
  /\ msgQueue' = Tail(msgQueue)
  /\ msgNotified' = FALSE
  /\ receivedBy' = [receivedBy EXCEPT ![Head(msgQueue)] = r]
  /\ Goto(r, "idle")
  /\ UNCHANGED <<chanVars, signalQueue, signalNotified, init, outcome,
                 closed, sendVars, droppedBy>>

\* next_msg finds nothing: both futures are registered with their notifier.
NoMsg(r) ==
  /\ phase[r] = "pollMsg" /\ msgQueue = <<>>
  /\ msgNotified' = FALSE
  /\ Goto(r, "parked")
  /\ UNCHANGED <<chanVars, msgQueue, signalQueue, signalNotified, init,
                 outcome, closed, sendVars, fateVars>>

\* A notification wakes the task.
Wake(r) ==
  /\ \/ /\ phase[r] = "parkedSignal" /\ signalNotified
        /\ Goto(r, "signalOnly")
     \/ /\ phase[r] = "parked" /\ signalNotified
        /\ Goto(r, "signalWoken")
     \/ /\ phase[r] = "parked" /\ ~signalNotified /\ msgNotified
        /\ Goto(r, "pollMsg")
  /\ UNCHANGED <<chanVars, queueVars, init, outcome, closed, sendVars, fateVars>>

-----------------------------------------------------------------------------
(* Ending.                                                                 *)

\* The handler's future returns or panics.  Its Inbox is dropped with it.
Finish(r, how) ==
  /\ phase[r] \in {"idle", "closed"}
  /\ outcome' = [outcome EXCEPT ![r] = how]
  /\ Goto(r, "drainMsgs")
  /\ UNCHANGED <<chanVars, queueVars, init, closed, sendVars,
                 fateVars>>

\* The task is aborted at an await point of the handler or of the Inbox.
Abort(r) ==
  /\ phase[r] \in {"idle", "closed"} \cup Parked
  /\ outcome' = [outcome EXCEPT ![r] = "Aborted"]
  /\ Goto(r, "drainMsgs")
  /\ UNCHANGED <<chanVars, queueVars, init, closed, sendVars,
                 fateVars>>

\* Inbox::drop pops the messages one by one,
DrainMsg(r) ==
  /\ phase[r] = "drainMsgs"
  /\ IF msgQueue = <<>>
     THEN Goto(r, "drainSignals") /\ UNCHANGED <<msgQueue, droppedBy>>
     ELSE /\ msgQueue' = Tail(msgQueue)
          /\ droppedBy' = [droppedBy EXCEPT ![Head(msgQueue)] = r]
          /\ UNCHANGED phase
  /\ UNCHANGED <<chanVars, signalQueue, msgNotified, signalNotified,
                 init, outcome, closed, sendVars, receivedBy>>

\* then the signals, which are still handled.
DrainSignal(r) ==
  /\ phase[r] = "drainSignals"
  /\ IF signalQueue = <<>>
     THEN /\ Goto(r, IF outcome[r] = "SpawnPanicked" THEN "crashed" ELSE "dropped")
          /\ UNCHANGED <<chanVars, signalQueue>>
     ELSE PopSignal /\ UNCHANGED phase
  /\ UNCHANGED <<msgQueue, msgNotified, signalNotified, init, outcome,
                 closed, sendVars, fateVars>>

\* The task registers how its handler ended; after an abort the AbortBomb does.
RegisterExit(r) == phase[r] = "dropped" /\ RegisterExited(r, "recording")

\* AbortBomb::drop while a task, or a call of spawn, unwinds.
BombDrop(r) == phase[r] = "unwinding" /\ RegisterExited(r, "bombing")

-----------------------------------------------------------------------------
(* Sending.                                                                *)

AcceptsMessages == {"Initializing", "Running", "Suspended"}

\* try_cast_with reads the status,
CheckMsg(m) ==
  /\ sender[m] = "unsent"
  /\ sender' = [sender EXCEPT ![m] =
       IF \/ status \in AcceptsMessages
          \/ status = "Exiting" /\ m \in IgnoreExiting
       THEN "checked" ELSE "closed"]
  /\ UNCHANGED <<chanVars, queueVars, procVars, sigSender, fateVars>>

\* pushes the message,
PushMsg(m) ==
  /\ sender[m] = "checked"
  /\ sender' = [sender EXCEPT ![m] = "pushed"]
  /\ msgQueue' = Append(msgQueue, m)
  /\ UNCHANGED <<chanVars, signalQueue, msgNotified, signalNotified, procVars,
                 sigSender, fateVars>>

\* Mutation of NotifyMsg: only the first message of the queue is notified.
NotifyFirstMsg(m) ==
  /\ sender[m] = "pushed"
  /\ sender' = [sender EXCEPT ![m] = "sent"]
  /\ msgNotified' = (msgNotified \/ Len(msgQueue) = 1)
  /\ UNCHANGED <<chanVars, msgQueue, signalQueue, signalNotified, procVars,
                 sigSender, fateVars>>

\* and notifies; the call returns Ok.
NotifyMsg(m) ==
  /\ sender[m] = "pushed"
  /\ sender' = [sender EXCEPT ![m] = "sent"]
  /\ msgNotified' = TRUE
  /\ UNCHANGED <<chanVars, msgQueue, signalQueue, signalNotified, procVars,
                 sigSender, fateVars>>

\* Channel::signal in the same three steps.
CheckSignal(s) ==
  /\ sigSender[s] = "unsent"
  /\ sigSender' = [sigSender EXCEPT ![s] =
       IF status \in {"Exited", "Exiting"} THEN "closed" ELSE "checked"]
  /\ UNCHANGED <<chanVars, queueVars, procVars, sender, fateVars>>

PushSignal(s) ==
  /\ sigSender[s] = "checked"
  /\ sigSender' = [sigSender EXCEPT ![s] = "pushed"]
  /\ signalQueue' = Append(signalQueue, s)
  /\ UNCHANGED <<chanVars, msgQueue, msgNotified, signalNotified, procVars,
                 sender, fateVars>>

NotifySignal(s) ==
  /\ sigSender[s] = "pushed"
  /\ sigSender' = [sigSender EXCEPT ![s] = "sent"]
  /\ signalNotified' = TRUE
  /\ UNCHANGED <<chanVars, msgQueue, signalQueue, msgNotified, procVars,
                 sender, fateVars>>

-----------------------------------------------------------------------------
\* What the runtime does by itself once a run is on its way.
RunStep(r) ==
  \/ RegisterSpawned(r) \/ RecordSpawn(r) \/ SpawnPanics(r)
  \/ TakeSignal(r) \/ NoSignal(r) \/ TakeMsg(r) \/ NoMsg(r) \/ Wake(r)
  \/ DrainMsg(r) \/ DrainSignal(r) \/ RegisterExit(r) \/ BombDrop(r)
  \/ RecordExit(r)

\* What the run's handler and its owner choose to do.
HandlerStep(r) ==
  \/ TrySpawn(r)
  \/ Recv(r) \/ RegisterInitialized(r) \/ RegisterExiting(r)
  \/ \E how \in {"Normal", "UnhandledError", "Panicked"} : Finish(r, how)
  \/ Abort(r)

SendStep(m) == CheckMsg(m) \/ PushMsg(m) \/ NotifyMsg(m)
SignalStep(s) == CheckSignal(s) \/ PushSignal(s) \/ NotifySignal(s)

Next ==
  \/ \E r \in Runs : RunStep(r) \/ HandlerStep(r)
  \/ \E m \in Msgs : SendStep(m)
  \/ \E s \in Sigs : SignalStep(s)

Spec == Init /\ [][Next]_vars

\* A run that can go on goes on, its handler returns to its receive method, and
\* leaves its loop when the method returns None.
Progress(r) ==
  RunStep(r) \/ Recv(r) \/ (phase[r] = "closed" /\ Finish(r, "Normal"))

\* A sender that has read the status goes on.
Sending ==
  \/ \E m \in Msgs : PushMsg(m) \/ NotifyMsg(m)
  \/ \E s \in Sigs : PushSignal(s) \/ NotifySignal(s)

\* Tasks and senders that can take a step take it.
Fairness == (\A r \in Runs : WF_vars(Progress(r))) /\ WF_vars(Sending)

FairSpec == Spec /\ Fairness

-----------------------------------------------------------------------------
(* Properties.                                                             *)

TypeOK ==
  /\ status \in Statuses
  /\ spawns \in Seq(Runs) /\ exits \in Seq(ExitStatuses)
  /\ atExiting \subseteq Msgs
  /\ msgQueue \in Seq(Msgs) /\ signalQueue \in Seq(Sigs)
  /\ msgNotified \in BOOLEAN /\ signalNotified \in BOOLEAN
  /\ phase \in [Runs -> Phases]
  /\ init \in [Runs -> {"Auto", "Manual", "Completed"}]
  /\ outcome \in [Runs -> ExitStatuses \cup {"None", "SpawnPanicked"}]
  /\ closed \subseteq Runs
  /\ sender \in [Msgs -> {"unsent", "checked", "pushed", "sent", "closed"}]
  /\ sigSender \in [Sigs -> {"unsent", "checked", "pushed", "sent", "closed"}]
  /\ receivedBy \in [Msgs -> Runs \cup {NoRun}]
  /\ droppedBy \in [Msgs -> Runs \cup {NoRun}]

\* A second process is never let onto a channel that has one: try_new reads
\* the status, register_spawned changes it, and the exit of the first one is
\* registered by its task, its AbortBomb, or both.
AtMostOneProcess ==
  \A q, r \in Runs : Occupies(q) /\ Occupies(r) => q = r

\* The status says Exited exactly while no process is on the channel, so that
\* a sender that is refused and an owner that respawns are right.
DeadIffNoProcess == status = "Exited" <=> Processes = {}

\* The run that has a spawn in the history, and no exit yet.
Unrecorded == {r \in Runs : phase[r] \in Open \cup Closing \cup {"recording"}}

\* The exit history has one entry per run, in order, with that run's own
\* reason, as far back as the histories are kept: an armed AbortBomb never
\* overwrites or duplicates what the task registered, and the entries that are
\* dropped are those of the same runs.
ExitHistoryMatchesRuns ==
  LET ended == Len(spawns) - (IF Unrecorded = {} THEN 0 ELSE 1)
  IN  /\ Len(exits) = IF Len(exits) > Keep THEN Len(spawns) ELSE ended
      /\ \A i \in 1..Len(exits) :
           LET j == i + ended - Len(exits)
           IN  j > 0 => exits[i] = outcome[spawns[j]]

\* However spawns, exits and aborts interleave, and though each changes the status
\* and the history under two locks, every spawn that was let in and every exit that
\* let one in is recorded once: with those still to be recorded, the exits are as
\* many as the spawns, less one while the channel is not dead, until the histories
\* are cut.
HistoriesTally ==
  LET s == Len(spawns) + Cardinality({r \in Runs : phase[r] = "spawning"})
      e == Len(exits) + Cardinality({r \in Runs : phase[r] \in Recording})
             + (IF status = "Exited" THEN 0 ELSE 1)
  IN  /\ Len(spawns) <= Keep => e <= s
      /\ Len(exits) <= Keep => s <= e

\* Watched from outside, the channel is the one slot of ProcessSlot.
Slot == INSTANCE ProcessSlot WITH processes <- Processes
IsProcessSlot == Slot!Spec

\* A receiver that read its status before it parked never takes a message out
\* of the queue of a suspended channel.
SuspendedTakesNoMessage ==
  [][\A m \in Msgs : receivedBy'[m] # receivedBy[m] => status # "Suspended"]_vars

\* A run whose receive method returned None has received every message that
\* was queued when the shutdown was accepted: what its Inbox drains came later.
ShutdownKeepsQueued ==
  \A m \in atExiting : droppedBy[m] \notin closed

\* No wakeup is lost: with an open Inbox that receives messages, a queued
\* message is received or drained, unless the actor is suspended.
QueuedIsTaken ==
  \A m \in Msgs :
    (/\ \E i \in DOMAIN msgQueue : msgQueue[i] = m
     /\ \E r \in Runs : Loop[r] # "recv_signal" /\ phase[r] \in Open)
      ~> (receivedBy[m] # NoRun \/ droppedBy[m] # NoRun \/ status = "Suspended")

\* A shutdown that is queued while a run that loops over recv_event is open
\* ends that run: neither the messages around it nor the select! between the
\* two queues keep it from being noticed.
ShutdownEndsRun ==
  \A s \in Sigs, r \in {q \in Runs : Loop[q] = "recv_event"} :
    (/\ Kind[s] = "Shutdown" /\ \E i \in DOMAIN signalQueue : signalQueue[i] = s
     /\ phase[r] \in Open)
      ~> phase[r] = "done"
==============================================================================
