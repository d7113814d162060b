----------------------------- MODULE HandlerLoop -----------------------------
(***************************************************************************)
(* The event loop that runs a Handler on the task of a channel: init next  *)
(* to the signals, then one event after the other out of the Inbox and the *)
(* handler's own next_event, then the exit hook; and how the task ends,    *)
(* by itself or aborted at an await.                                       *)
(*                                                                         *)
(* The order of steps between a sender and the receive loop is in Channel; *)
(* here a message is sent, and an event is received, in one step.          *)
(***************************************************************************)
EXTENDS References

CONSTANT Msgs   \* messages, each sent once

Hooks == {"on_shutdown", "on_suspend", "on_resume"}

ASSUME HandlerLoopAssumption ==
  /\ Msgs \cap (Hooks \cup {"scheduled", "nothing"}) = {}
  /\ \A b \in Bounds :
       /\ b.msgs \subseteq Msgs
       /\ b.scheduled \in Nat  \* futures that one handler has scheduled at a time

VARIABLES
  msg,        \* what became of each message
  msgQueue,   \* the channel's message queue
  atExiting,  \* what was queued when the actor started to exit
  doing,      \* the hook, or what the handler handles, between two selects
  reason,     \* the HandlerExit that the exit hook was told
  scheduled   \* futures in the handler's BasicScheduler

loopVars == <<msg, msgQueue, atExiting, doing, reason, scheduled>>
vars == <<refVars, childVars, taskVars, counters, loopVars>>

Init ==
  /\ RefInit
  /\ msg = [m \in Msgs |-> "unsent"]
  /\ msgQueue = [c \in Channels |-> <<>>]
  /\ atExiting = [c \in Channels |-> {}]
  /\ doing = [c \in Channels |-> "nothing"]
  /\ reason = [c \in Channels |-> "None"]
  /\ scheduled = [c \in Channels |-> 0]

Goto(c, where) == task' = [task EXCEPT ![c] = where]
Queued(c) == {msgQueue[c][i] : i \in DOMAIN msgQueue[c]}

-----------------------------------------------------------------------------
(* Sending.                                                                *)

\* Accepts::try_cast to an actor that accepts messages.
Send(m, c) ==
  /\ msg[m] = "unsent"
  /\ status[c] \in {"Initializing", "Running", "Suspended"}
  /\ msg' = [msg EXCEPT ![m] = "queued"]
  /\ msgQueue' = [msgQueue EXCEPT ![c] = Append(@, m)]
  /\ UNCHANGED <<refVars, childVars, taskVars, counters, atExiting, doing,
                 reason, scheduled>>

-----------------------------------------------------------------------------
(* Signals.                                                                *)

\* The status after Channel::handle_signal.
AfterSignal(st, kind) ==
  IF kind = "Shutdown" THEN "Exiting"
  ELSE IF kind = "Suspend" /\ st = "Running" THEN "Suspended"
  ELSE IF kind = "Resume" /\ st = "Suspended" THEN "Running"
  ELSE st

\* The status after all of them, as a drain leaves it: a Shutdown has its effect
\* anywhere among them, of the others the last one.
AfterSignals(st, queue) ==
  IF \E i \in DOMAIN queue : queue[i] = "Shutdown" THEN "Exiting"
  ELSE IF queue = <<>> \/ st \notin {"Running", "Suspended"} THEN st
  ELSE IF queue[Len(queue)] = "Suspend" THEN "Suspended"
  ELSE "Running"

\* pop_signal takes the first signal and handles it.
PopSignal(c) ==
  LET next == AfterSignal(status[c], Head(signals[c])) IN
  /\ signals' = [signals EXCEPT ![c] = Tail(@)]
  /\ status' = [status EXCEPT ![c] = next]
  /\ atExiting' = IF next = "Exiting" /\ status[c] # "Exiting"
                  THEN [atExiting EXCEPT ![c] = Queued(c)] ELSE atExiting

\* The hook that run_once calls for it; no hook if it was not handed out.
Hook(c) ==
  CASE Head(signals[c]) = "Shutdown" -> "on_shutdown"
    [] Head(signals[c]) = "Suspend" /\ status[c] # "Exiting" -> "on_suspend"
    [] Head(signals[c]) = "Resume" /\ status[c] = "Suspended" -> "on_resume"
    [] OTHER -> "nothing"

\* A receive method of the Inbox is polled for the first time.
\* maybe_auto_init: the actor is running, even while its init is not done.
AutoInit(c) ==
  /\ task[c] \in {"init", "select"} /\ status[c] = "Initializing"
  /\ status' = [status EXCEPT ![c] = "Running"]
  /\ UNCHANGED <<refVars, childVars, signals, task, outcome, counters, loopVars>>

-----------------------------------------------------------------------------
(* Initialization.                                                         *)

\* Handler::exit is called with the reason.
ExitWith(c, why) ==
  /\ Goto(c, "exit")
  /\ reason' = [reason EXCEPT ![c] = why]

\* Handler::init returns.
InitReturns(c, ok) ==
  /\ task[c] = "init"
  /\ IF ok THEN Goto(c, "select") /\ UNCHANGED reason
           ELSE ExitWith(c, "InitError")
  /\ UNCHANGED <<refVars, childVars, status, signals, outcome, counters, msg,
                 msgQueue, atExiting, doing, scheduled>>

\* Handler::init runs next to recv_signal: a shutdown cancels it, and any other
\* signal is taken, with its effect on the status and without its hook.
InitSignal(c) ==
  /\ task[c] = "init" /\ status[c] # "Initializing" /\ signals[c] # <<>>
  /\ PopSignal(c)
  /\ IF Head(signals[c]) = "Shutdown" THEN ExitWith(c, "InitCancelled")
                                      ELSE UNCHANGED <<task, reason>>
  /\ UNCHANGED <<refVars, childVars, outcome, counters, msg, msgQueue, doing,
                 scheduled>>

-----------------------------------------------------------------------------
(* One event, run_once.                                                    *)

\* Mutation of Ended: an actor that exits leaves its messages.
EndedAtOnce(c) == status[c] = "Exiting"

\* recv_event returns None: the actor exits and its messages are received.
Ended(c) == status[c] = "Exiting" /\ msgQueue[c] = <<>>

Receives(c) == task[c] = "select" /\ status[c] # "Initializing"

ExitNormal(c) ==
  /\ Receives(c) /\ Ended(c)
  /\ ExitWith(c, "Normal")
  /\ UNCHANGED <<refVars, childVars, status, signals, outcome, counters, msg,
                 msgQueue, atExiting, doing, scheduled>>

\* A signal comes before any message.
TakeSignal(c) ==
  /\ Receives(c) /\ ~Ended(c) /\ signals[c] # <<>>
  /\ PopSignal(c)
  /\ doing' = [doing EXCEPT ![c] = Hook(c)]
  /\ IF Hook(c) # "nothing" THEN Goto(c, "hook") ELSE UNCHANGED task
  /\ UNCHANGED <<refVars, childVars, outcome, counters, msg, msgQueue, reason,
                 scheduled>>

\* A message, unless the actor is suspended.
TakeMsg(c) ==
  /\ Receives(c) /\ status[c] # "Suspended"
  /\ signals[c] = <<>> /\ msgQueue[c] # <<>>
  /\ msg' = [msg EXCEPT ![Head(msgQueue[c])] = "handling"]
  /\ msgQueue' = [msgQueue EXCEPT ![c] = Tail(@)]
  /\ doing' = [doing EXCEPT ![c] = Head(msgQueue[c])]
  /\ Goto(c, "hook")
  /\ UNCHANGED <<refVars, childVars, status, signals, outcome, counters,
                 atExiting, reason, scheduled>>

\* BasicScheduler::next, polled by the other branch of the select!, whatever
\* the status: a scheduled future brings a message or a callback to handle,
\* nothing, or an error.
TakeScheduled(c, brings) ==
  /\ task[c] = "select" /\ scheduled[c] > 0
  /\ scheduled' = [scheduled EXCEPT ![c] = @ - 1]
  /\ \/ /\ brings = "event"
        /\ Goto(c, "hook")
        /\ doing' = [doing EXCEPT ![c] = "scheduled"]
        /\ UNCHANGED reason
     \/ brings = "nothing" /\ UNCHANGED <<task, doing, reason>>
     \/ brings = "error" /\ ExitWith(c, "HandlerError") /\ UNCHANGED doing
  /\ UNCHANGED <<refVars, childVars, status, signals, outcome, counters, msg,
                 msgQueue, atExiting>>

\* schedule_msg, schedule_callback or schedule_fut, called in a hook.
Schedule(c) ==
  /\ task[c] \in {"init", "hook"} /\ scheduled[c] < bound.scheduled
  /\ scheduled' = [scheduled EXCEPT ![c] = @ + 1]
  /\ UNCHANGED <<refVars, childVars, taskVars, counters, msg, msgQueue,
                 atExiting, doing, reason>>

\* What was called returns: the loop goes on, or ends with the error.
Returned(c, ok) ==
  /\ task[c] = "hook"
  /\ IF ok THEN Goto(c, "select") /\ UNCHANGED reason
           ELSE ExitWith(c, "HandlerError")
  /\ doing' = [doing EXCEPT ![c] = "nothing"]
  /\ UNCHANGED <<refVars, childVars, status, signals, outcome, counters,
                 msgQueue, atExiting, scheduled>>

\* One of on_shutdown, on_suspend and on_resume.
HookReturns(c, ok) ==
  /\ doing[c] \in Hooks
  /\ Returned(c, ok) /\ UNCHANGED msg

\* Handle::handle, for a message of the mailbox,
HandleReturns(c, ok) ==
  /\ doing[c] \in Msgs
  /\ Returned(c, ok) /\ msg' = [msg EXCEPT ![doing[c]] = "handled"]

\* and for the message or the callback that a scheduled future brought: nobody
\* waits for its reply.
ScheduledReturns(c, ok) ==
  doing[c] = "scheduled" /\ Returned(c, ok) /\ UNCHANGED msg

-----------------------------------------------------------------------------
(* The end.                                                                *)

Ends(c, how) ==
  /\ Goto(c, "over")
  /\ outcome' = [outcome EXCEPT ![c] = how]
  /\ UNCHANGED <<refVars, childVars, status, signals, counters, loopVars>>

\* What the exit hook returns is the result of the actor.
ExitReturns(c, how) == task[c] = "exit" /\ Ends(c, how)

\* The handler panics in one of its methods, or in a future it scheduled, which
\* the scheduler polls in the select!.
Panic(c) ==
  /\ task[c] \in {"init", "hook", "exit"} \/ (task[c] = "select" /\ scheduled[c] > 0)
  /\ Ends(c, "Panicked")

\* The task is dropped at an await; each of its phases has one.
Aborted(c) == task[c] \in Running /\ abort[c] # "none" /\ Ends(c, "Aborted")

\* The Inbox is dropped with the future: it drains its queues, and its
\* StrongAddress goes.
DropInbox(c) ==
  /\ task[c] = "over"
  /\ msg' = [m \in Msgs |-> IF m \in Queued(c) \cup {doing[c]}
                            THEN "dropped" ELSE msg[m]]
  /\ msgQueue' = [msgQueue EXCEPT ![c] = <<>>]
  /\ signals' = [signals EXCEPT ![c] = <<>>]
  /\ status' = [status EXCEPT ![c] = AfterSignals(@, signals[c])]
  /\ atExiting' = [atExiting EXCEPT ![c] = {}]
  /\ doing' = [doing EXCEPT ![c] = "nothing"]
  /\ scheduled' = [scheduled EXCEPT ![c] = 0]
  /\ Decr(c)
  /\ Goto(c, IF IsLast(c) THEN "deregister" ELSE "dropped")
  /\ UNCHANGED <<made, revived, registered, user, childVars, outcome, counters, reason>>

InboxRemove(c) ==
  /\ task[c] = "deregister"
  /\ Deregister
  /\ Goto(c, "dropped")
  /\ UNCHANGED <<made, revived, strong, user, childVars, status, signals, outcome,
                 counters, loopVars>>

\* The task, or its AbortBomb, registers the exit, and the task is over.
RegisterExited(c) ==
  /\ task[c] = "dropped"
  /\ status' = [status EXCEPT ![c] = "Exited"]
  /\ reason' = [reason EXCEPT ![c] = "None"]
  /\ Goto(c, "done")
  /\ UNCHANGED <<refVars, childVars, signals, outcome, counters, msg, msgQueue,
                 atExiting, doing, scheduled>>

-----------------------------------------------------------------------------
\* What the runtime does by itself.
TaskStep(c) ==
  \/ Aborted(c) \/ DropInbox(c) \/ InboxRemove(c) \/ RegisterExited(c)

LoopStep(c) ==
  \/ AutoInit(c) \/ InitSignal(c)
  \/ ExitNormal(c) \/ TakeSignal(c) \/ TakeMsg(c)
  \/ \E brings \in {"event", "nothing", "error"} : TakeScheduled(c, brings)

\* What the handler's own code does.
HandlerStep(c) ==
  \/ \E ok \in BOOLEAN :
       InitReturns(c, ok) \/ HookReturns(c, ok) \/ HandleReturns(c, ok) \/ ScheduledReturns(c, ok)
  \/ Schedule(c) \/ Panic(c)
  \/ \E how \in {"Normal", "UnhandledError"} : ExitReturns(c, how)

Next ==
  \/ RefStep /\ UNCHANGED loopVars
  \/ \E c \in bound.channels :
       \/ TaskStep(c) \/ LoopStep(c) \/ HandlerStep(c)
       \/ \E m \in bound.msgs : Send(m, c)

Spec == Init /\ [][Next]_vars

\* tokio runs a task that was aborted, and the destructors of one that is over;
\* the timer fires and a shutdown that is awaited is polled; a thread goes on
\* with a call it has begun.  Nothing is asked of the handler: it may hang in
\* any of its methods.
Fairness ==
  /\ \A c \in Channels :
       /\ WF_vars(TaskStep(c))
       /\ WF_vars((GiveUp(c) \/ ChildRemove(c)) /\ UNCHANGED loopVars)
       /\ WF_vars(child[c].at # "held" /\ Join(c) /\ UNCHANGED loopVars)
  /\ \A u \in Users : WF_vars((UpgradeIncr(u) \/ Remove(u)) /\ UNCHANGED loopVars)

FairSpec == Spec /\ Fairness

-----------------------------------------------------------------------------
(* Properties.                                                             *)

\* What Handler promises of its lifecycle: a loop that ends normally has
\* handled every message that was queued when the shutdown was received,
\* although scheduled events compete with them for each turn of the loop.
NormalExitHandlesAll ==
  \A c \in Channels :
    reason[c] = "Normal" => \A m \in atExiting[c] : msg[m] = "handled"

\* What shutdown_abort and into_shutdown promise: whoever awaits them gets an
\* answer, even if the handler hangs, and even if the shutdown signal was
\* refused or lost.
ShutdownResolves ==
  \A c \in Channels :
    child[c].at = "shutdown" ~> child[c].at \notin {"shutdown", "aborting"}
==============================================================================
