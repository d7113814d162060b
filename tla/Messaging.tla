----------------------------- MODULE Messaging -----------------------------
(***************************************************************************)
(* Messages from one node, the caller, to an actor on another, the host,   *)
(* and their answers: the caller's table of pending calls, the host's      *)
(* router with a task per actor, the operations that bypass it, and the    *)
(* monitors the host holds for the caller.  The links in between are       *)
(* abstracted to what they do to the messages for the actor: they keep the *)
(* order of each stream, and of no two, lose a part of one with its        *)
(* connection, which is reported to both sides, or (drops) lose something  *)
(* quietly.                                                                *)
(***************************************************************************)
EXTENDS Naturals, Sequences, FiniteSets

CONSTANTS
  Ids,          \* the numbers that next_call gives out
  Plans,        \* what may be sent under each of them, a set of functions
  Size,         \* the length of each payload
  LaneRoom,     \* the capacity of a lane
  MaxMessages,  \* ACTOR_QUEUE_MESSAGES
  MaxBytes,     \* ACTOR_QUEUE_BYTES
  MaxFaults     \* bound: connections and lanes lost, crashes, members lost,
                \* stops, drops

Kinds == {"none", "cast", "call", "request", "op", "monitor"}

ASSUME MessagingAssumption ==
  /\ Ids \subseteq Nat /\ LaneRoom \in Nat \ {0} /\ MaxMessages \in Nat \ {0}
  /\ \A p \in Plans : p \in [Ids -> Kinds]
  /\ Size \in [Ids -> Nat] /\ MaxBytes \in Nat

VARIABLES
  plan,       \* the kind of each message
  running,    \* CommunicationView::running is set
  known,      \* the host is a member, and reachable
  call,       \* what the sender of each message is doing
  pending,    \* Pending::calls
  answer,     \* what was sent into the oneshot of each call
  off,        \* the Demonitors that were dropped and not sent yet
  lost,       \* the reports of a loss that serve has not read, on either side
  streams,    \* what is on the way on each stream, or held for it by a lane
  lane,       \* the stream of the lane that takes messages
  replies,    \* the replies on their way back
  spawned,    \* operations in a task that has not run yet
  route,      \* Router::routes: the task of the actor, 0 for none
  task,       \* the actor tasks started
  mailbox,    \* the actor's mailbox
  delivered,  \* all that was ever put in it
  via,        \* the stream that each of these came on
  alive,      \* the actor runs, under its name
  held,       \* the monitors whose task waits for the actor
  live,       \* Monitors::live
  cancelled,  \* the monitors whose token was cancelled
  faults, drops

callerVars == <<plan, running, known, call, pending, answer, off>>
hostVars   == <<spawned, route, task, mailbox, delivered, via, alive, held, live, cancelled>>
wire       == <<streams, lane>>
netVars    == <<lost, wire, replies, faults, drops>>
vars == <<callerVars, hostVars, netVars>>

\* Message kinds that are answered; a request within a cast is answered like a
\* call.  A monitor alone has no deadline.
Replies(c)  == plan[c] \in {"call", "request", "op", "monitor"}
Deadline(c) == Replies(c) /\ plan[c] # "monitor"
\* Handler::bypasses_queue.
Bypasses(f) == f.what = "demonitor" \/ plan[f.id] \in {"op", "monitor"}

Frame(c)     == [id |-> c, what |-> "message"]
Demonitor(c) == [id |-> c, what |-> "demonitor"]

Init ==
  /\ plan \in Plans /\ running = TRUE /\ known = TRUE
  /\ call = [c \in Ids |-> "idle"] /\ pending = {} /\ answer = [c \in Ids |-> "none"]
  /\ off = {} /\ lost = [caller |-> 0, host |-> 0] /\ streams = << <<>> >> /\ lane = 1
  /\ replies = {}
  /\ spawned = {} /\ route = 0 /\ task = <<>> /\ mailbox = <<>> /\ delivered = <<>>
  /\ via = [c \in Ids |-> 0] /\ alive = TRUE /\ held = {} /\ live = {} /\ cancelled = {}
  /\ faults = 0 /\ drops = 0

Fault == faults < MaxFaults /\ faults' = faults + 1

\* Something is lost that nobody reports.
Quietly == Fault /\ drops' = drops + 1

-----------------------------------------------------------------------------
(* The caller: ClusterAddress::prepare and what follows it.                *)

\* Its beginning: the node runs, and the actor's is a member and reachable.
Prepare(c) ==
  /\ call[c] = "idle" /\ plan[c] # "none"
  /\ call' = [call EXCEPT ![c] = IF running /\ known THEN "preparing" ELSE "refused"]
  /\ UNCHANGED <<plan, running, known, pending, answer, off, hostVars, netVars>>

\* ClusterAccepts: what goes to the mailbox.  One task sends it all, in the order
\* of the numbers.
Cast(c) ==
  /\ ~Bypasses(Frame(c))
  /\ \A d \in Ids : d < c /\ ~Bypasses(Frame(d)) =>
       call[d] \notin {"idle", "preparing", "sending"} \/ plan[d] = "none"
  /\ Prepare(c)

\* ClusterActorOps: each operation is awaited by a task of its own.
CallOp(c) == Bypasses(Frame(c)) /\ Prepare(c)

\* Pending::expect, in the table that was there when prepare began.
Expect(c) ==
  /\ call[c] = "preparing"
  /\ call' = [call EXCEPT ![c] = "sending"]
  /\ pending' = IF Replies(c) THEN pending \cup {c} ELSE pending
  /\ UNCHANGED <<plan, running, known, answer, off, hostVars, netVars>>

\* The end of a ClusterReply, or of the exports of a message that was not sent.
EndWait(c, how) ==
  /\ call' = [call EXCEPT ![c] = how]
  /\ pending' = pending \ {c}

Lane   == streams[lane]
Put(f) == Len(Lane) < LaneRoom /\ streams' = [streams EXCEPT ![lane] = Append(@, f)]

\* cast_remote waits for room in the lane; try_cast_remote does not.  A lane that
\* ended in between, for being idle or with the links, takes nothing.
Send(c) ==
  /\ call[c] = "sending"
  /\ \/ /\ Put(Frame(c)) /\ UNCHANGED <<pending, faults>>
        /\ call' = [call EXCEPT ![c] = IF Replies(c) THEN "waiting" ELSE "sent"]
     \/ /\ Len(Lane) >= LaneRoom /\ ~Bypasses(Frame(c))
        /\ EndWait(c, "full") /\ UNCHANGED <<streams, faults>>
     \/ Fault /\ EndWait(c, "unreachable") /\ UNCHANGED streams
  /\ UNCHANGED <<plan, running, known, answer, off, lost, lane, replies, drops, hostVars>>

\* ClusterReply::wait has the answer.
Wake(c) ==
  /\ call[c] = "waiting" /\ answer[c] # "none"
  /\ EndWait(c, "answered")
  /\ UNCHANGED <<plan, running, known, answer, off, hostVars, netVars>>

\* Mutation of TimeOut: the entry stays behind.
TimeOutLeaving(c) ==
  /\ call[c] = "waiting" /\ Deadline(c) /\ answer[c] = "none"
  /\ call' = [call EXCEPT ![c] = "timeout"]
  /\ UNCHANGED <<plan, running, known, pending, answer, off, hostVars, netVars>>
\* An exported request is awaited by a task of its own, that no one drops.
Exported(c) == plan[c] = "request"

\* Its time is up.  The task of an exported request counts from before the message
\* is sent.
TimeOut(c) ==
  /\ Deadline(c) /\ answer[c] = "none"
  /\ \/ call[c] = "waiting" /\ EndWait(c, "timeout") /\ UNCHANGED answer
     \/ /\ call[c] = "sending" /\ Exported(c) /\ UNCHANGED call
        /\ pending' = pending \ {c} /\ answer' = [answer EXCEPT ![c] = "timeout"]
  /\ UNCHANGED <<plan, running, known, off, hostVars, netVars>>

\* Its future is dropped: a monitor's, once it was armed, calls it off.
Cancel(c) ==
  /\ call[c] = "sending" \/ (call[c] = "waiting" /\ ~Exported(c))
  /\ EndWait(c, "dropped")
  /\ off' = IF plan[c] = "monitor" THEN off \cup {c} ELSE off
  /\ UNCHANGED <<plan, running, known, answer, hostVars, netVars>>

\* The task that Demonitor::drop spawns.
SendDemonitor(c) ==
  /\ c \in off /\ off' = off \ {c}
  /\ \/ running /\ known /\ Put(Demonitor(c))
     \/ ~(running /\ known) /\ UNCHANGED streams
  /\ UNCHANGED <<plan, running, known, call, pending, answer, lost, lane, replies, faults,
                 drops, hostVars>>

-----------------------------------------------------------------------------
(* The caller's serve.                                                     *)

\* Pending::complete.
Complete(r) ==
  /\ running /\ r \in replies /\ replies' = replies \ {r}
  /\ IF r.id \in pending
     THEN pending' = pending \ {r.id} /\ answer' = [answer EXCEPT ![r.id] = r.result]
     ELSE UNCHANGED <<pending, answer>>
  /\ UNCHANGED <<plan, running, known, call, off, lost, wire, faults, drops, hostVars>>

\* Mutation of FailAll: nobody is told.
FailNone == pending' = {} /\ UNCHANGED answer
\* Pending::fail_node and fail_all: the host is the only other node.
FailAll ==
  /\ pending' = {}
  /\ answer' = [c \in Ids |-> IF c \in pending THEN "disconnected" ELSE answer[c]]

\* A Disconnected, Left or Failed is read.
CallerLost ==
  /\ running /\ lost.caller > 0 /\ lost' = [lost EXCEPT !.caller = @ - 1]
  /\ FailAll
  /\ UNCHANGED <<plan, running, known, call, off, wire, replies, faults, drops, hostVars>>

\* Serving::drop.
Stop ==
  /\ running /\ Fault /\ running' = FALSE
  /\ FailAll
  /\ UNCHANGED <<plan, known, call, off, lost, wire, replies, drops, hostVars>>

-----------------------------------------------------------------------------
(* The host's serve and Router.                                            *)

\* Mutation of Admits: the message itself is left out of the sum.
AdmitsAnySize(q, c) ==
  q.messages = 0 \/ (q.messages < MaxMessages /\ q.bytes <= MaxBytes)
\* Queued::admit and release.
Admits(q, c) ==
  q.messages = 0 \/ (q.messages < MaxMessages /\ q.bytes + Size[c] <= MaxBytes)
Admitted(q, c) == [q EXCEPT !.messages = @ + 1, !.bytes = @ + Size[c]]
Released(q, c) == [q EXCEPT !.messages = @ - 1, !.bytes = @ - Size[c]]

NewTask(c) ==
  [queue |-> <<c>>, closed |-> FALSE, pc |-> "ready", work |-> c,
   queued |-> Admitted([messages |-> 0, bytes |-> 0], c)]

Answer(c, result) ==
  IF Replies(c) THEN replies \cup {[id |-> c, result |-> result]} ELSE replies

\* Session::refuse, of a message that its actor's queue has no room for.
Refuse(c) == Answer(c, "overloaded")

\* Mutation of Route: every message gets a task of its own.
RouteApart(c) ==
  task' = Append(task, NewTask(c)) /\ route' = Len(task') /\ UNCHANGED replies
\* Router::route: the message is queued for the task there is, refused when too
\* much waits for it, or gets a new task when there is none or it takes no more.
Route(c) ==
  \/ /\ route # 0 /\ ~Admits(task[route].queued, c)
     /\ replies' = Refuse(c) /\ UNCHANGED <<route, task>>
  \/ /\ route # 0 /\ Admits(task[route].queued, c) /\ ~task[route].closed
     /\ task' = [task EXCEPT ![route].queue = Append(@, c),
                             ![route].queued = Admitted(@, c)]
     /\ UNCHANGED <<route, replies>>
  \/ /\ IF route = 0 THEN TRUE ELSE Admits(task[route].queued, c) /\ task[route].closed
     /\ task' = Append(task, NewTask(c)) /\ route' = Len(task')
     /\ UNCHANGED replies

\* Router::on_incoming, of what comes next on a stream, each of which is read by a
\* task of its own: an operation is handed to another.
Arrive(n) ==
  /\ streams[n] # <<>> /\ streams' = [streams EXCEPT ![n] = Tail(@)]
  /\ LET f == Head(streams[n]) IN
       IF Bypasses(f)
       THEN spawned' = spawned \cup {f} /\ UNCHANGED <<route, task, replies, via>>
       ELSE Route(f.id) /\ via' = [via EXCEPT ![f.id] = n] /\ UNCHANGED spawned
  /\ UNCHANGED <<callerVars, lost, lane, faults, drops, mailbox, delivered, alive, held,
                 live, cancelled>>

\* Monitors::drop_node.
HostLost ==
  /\ lost.host > 0 /\ lost' = [lost EXCEPT !.host = @ - 1]
  /\ cancelled' = cancelled \cup live /\ live' = {}
  /\ UNCHANGED <<callerVars, wire, replies, faults, drops, spawned, route, task, mailbox,
                 delivered, via, alive, held>>

-----------------------------------------------------------------------------
(* actor_task.                                                             *)

\* The next message is taken, unless the task is about to close its queue.
Take(i) ==
  /\ task[i].pc = "ready" /\ task[i].queue # <<>>
  /\ LET c == Head(task[i].queue) IN
       task' = [task EXCEPT ![i].queue = Tail(@), ![i].queued = Released(@, c),
                            ![i].pc = "delivering", ![i].work = c]
  /\ UNCHANGED <<callerVars, netVars, spawned, route, mailbox, delivered, via, alive, held,
                 live, cancelled>>

\* Session::process: into the mailbox when there is room, or an error.
Process(i) ==
  LET c == task[i].work IN
  /\ task[i].pc = "delivering" /\ task' = [task EXCEPT ![i].pc = "ready"]
  /\ IF alive
     THEN /\ mailbox' = Append(mailbox, c) /\ delivered' = Append(delivered, c)
          /\ UNCHANGED replies
     ELSE replies' = Answer(c, "no such actor") /\ UNCHANGED <<mailbox, delivered>>
  /\ UNCHANGED <<callerVars, lost, wire, faults, drops, spawned, route, via, alive, held,
                 live, cancelled>>

\* ACTOR_IDLE is over with nothing queued,
Expire(i) ==
  /\ task[i].pc = "ready" /\ ~task[i].closed /\ task[i].queue = <<>>
  /\ task' = [task EXCEPT ![i].pc = "expired"]
  /\ UNCHANGED <<callerVars, netVars, spawned, route, mailbox, delivered, via, alive, held,
                 live, cancelled>>

\* and the queue is closed; what was queued in between is still delivered.
CloseQueue(i) ==
  /\ task[i].pc = "expired" /\ task' = [task EXCEPT ![i].pc = "ready", ![i].closed = TRUE]
  /\ UNCHANGED <<callerVars, netVars, spawned, route, mailbox, delivered, via, alive, held,
                 live, cancelled>>

-----------------------------------------------------------------------------
(* Operations, and the actor.                                              *)

\* Monitors::begin; the operation waits for the actor.
Begin(c) == held' = held \cup {c} /\ live' = live \cup {c} /\ UNCHANGED cancelled

\* Monitors::cancel.
CallOff(c) ==
  cancelled' = cancelled \cup (live \cap {c}) /\ live' = live \ {c} /\ UNCHANGED held

\* Builtin::deliver, and the run of the operation: a ping also waits for the actor
\* before this.  An operation on an actor that is gone fails.
RunOp(f) ==
  /\ f \in spawned /\ spawned' = spawned \ {f}
  /\ IF alive /\ f.what = "demonitor" THEN CallOff(f.id)
     ELSE IF alive /\ plan[f.id] = "monitor" THEN Begin(f.id)
     ELSE UNCHANGED <<held, live, cancelled>>
  /\ replies' = IF f.what = "demonitor" THEN replies
                ELSE IF ~alive THEN Answer(f.id, "no such actor")
                ELSE IF plan[f.id] = "op" THEN Answer(f.id, "ok") ELSE replies
  /\ UNCHANGED <<callerVars, lost, wire, faults, drops, route, task, mailbox, delivered, via,
                 alive>>

\* Mutation of MonitorEnds: the entry stays behind.
MonitorStays(c) ==
  /\ c \in held /\ (~alive \/ c \in cancelled) /\ held' = held \ {c}
  /\ replies' = Answer(c, IF alive THEN "no reply" ELSE "exited")
  /\ UNCHANGED <<callerVars, lost, wire, faults, drops, spawned, route, task, mailbox,
                 delivered, via, alive, live, cancelled>>
\* The rest of MonitorOp::run: the actor exited, or the monitor was called off.
MonitorEnds(c) ==
  /\ c \in held /\ (~alive \/ c \in cancelled)
  /\ held' = held \ {c} /\ live' = live \ {c}
  /\ replies' = Answer(c, IF alive THEN "no reply" ELSE "exited")
  /\ UNCHANGED <<callerVars, lost, wire, faults, drops, spawned, route, task, mailbox,
                 delivered, via, alive, cancelled>>

\* The actor answers a message, or drops the request.
Handle ==
  /\ mailbox # <<>> /\ mailbox' = Tail(mailbox)
  /\ \E result \in {"ok", "no reply"} : replies' = Answer(Head(mailbox), result)
  /\ UNCHANGED <<callerVars, lost, wire, faults, drops, spawned, route, task, delivered, via,
                 alive, held, live, cancelled>>

\* The actor exits, with the requests in its mailbox.
Exit ==
  /\ alive /\ alive' = FALSE /\ mailbox' = <<>>
  /\ replies' = replies \cup UNION {Answer(mailbox[i], "no reply") : i \in DOMAIN mailbox}
  /\ UNCHANGED <<callerVars, lost, wire, faults, drops, spawned, route, task, delivered, via,
                 held, live, cancelled>>

-----------------------------------------------------------------------------
(* The network and the members, as the links and foca report them.         *)

\* A connection is lost or replaced, and something of what was on the way.  What
\* had got to the host is still read, and the lane goes on with another stream.
Disconnect ==
  /\ Fault
  /\ \E n \in DOMAIN streams : \E j \in 0..Len(streams[n]) : \E k \in j..Len(streams[n]) :
       /\ streams' = Append([streams EXCEPT ![n] = SubSeq(@, 1, j)],
                            SubSeq(streams[n], k + 1, Len(streams[n])))
       /\ lane' = IF n = lane THEN Len(streams') ELSE lane
  /\ \E left \in {{}, replies} : replies' = left
  /\ lost' = [caller |-> lost.caller + 1, host |-> lost.host + 1]
  /\ UNCHANGED <<callerVars, drops, hostVars>>

\* The lane ends, for being idle or because the links forget the host: it sends
\* what it holds, next to the lane that is started for the next message.
LaneEnds ==
  /\ Fault
  /\ streams' = Append(streams, <<>>) /\ lane' = Len(streams')
  /\ UNCHANGED <<callerVars, lost, replies, drops, hostVars>>

\* The host crashes and restarts, with its actor.
Crash ==
  /\ Fault /\ streams' = << <<>> >> /\ lane' = 1 /\ replies' = {}
  /\ lost' = [caller |-> lost.caller + 1, host |-> 0]
  /\ spawned' = {} /\ route' = 0 /\ task' = <<>> /\ mailbox' = <<>> /\ alive' = TRUE
  /\ held' = {} /\ live' = {} /\ cancelled' = {}
  /\ delivered' = <<>> /\ via' = [c \in Ids |-> 0] /\ UNCHANGED <<callerVars, drops>>

\* Cluster::member_left or member_failed, at the caller.
MemberLost ==
  /\ known /\ Fault /\ known' = FALSE /\ lost' = [lost EXCEPT !.caller = @ + 1]
  /\ UNCHANGED <<plan, running, call, pending, answer, off, wire, replies, drops, hostVars>>

MemberUp ==
  /\ ~known /\ known' = TRUE
  /\ UNCHANGED <<plan, running, call, pending, answer, off, netVars, hostVars>>

\* A lane drops a message for a peer it can't reach; a reply finds no member, no
\* connection or no room; the reports of a loss lag behind.
DropQuietly ==
  /\ Quietly
  /\ \/ /\ \E n \in DOMAIN streams :
             streams[n] # <<>> /\ streams' = [streams EXCEPT ![n] = Tail(@)]
        /\ UNCHANGED <<replies, lost>>
     \/ \E r \in replies : replies' = replies \ {r} /\ UNCHANGED <<streams, lost>>
     \/ /\ \E side \in DOMAIN lost : lost[side] > 0 /\ lost' = [lost EXCEPT ![side] = 0]
        /\ UNCHANGED <<streams, replies>>
  /\ UNCHANGED <<lane, callerVars, hostVars>>

-----------------------------------------------------------------------------
CallerStep == \/ \E c \in Ids : Expect(c) \/ Send(c) \/ Wake(c) \/ TimeOut(c) \/ SendDemonitor(c)
              \/ \E r \in replies : Complete(r)
              \/ CallerLost
HostStep   == \/ HostLost \/ Handle \/ \E n \in DOMAIN streams : Arrive(n)
              \/ \E i \in DOMAIN task : Take(i) \/ Process(i) \/ CloseQueue(i)
              \/ \E f \in spawned : RunOp(f)
              \/ \E c \in held : MonitorEnds(c)

Next ==
  \/ CallerStep \/ HostStep
  \/ \E c \in Ids : Cast(c) \/ CallOp(c) \/ Cancel(c)
  \/ \E i \in DOMAIN task : Expire(i)
  \/ Exit \/ Stop \/ Disconnect \/ LaneEnds \/ DropQuietly
  \/ Crash \/ MemberLost \/ MemberUp

Spec == Init /\ [][Next]_vars

\* Tasks that can go on do, and what is on the way arrives.  The actor exits
\* some time, as a monitor's caller asked to hear.
FairSpec == Spec /\ WF_vars(CallerStep) /\ WF_vars(HostStep) /\ WF_vars(Exit)

-----------------------------------------------------------------------------
(* Properties.                                                             *)

\* The table holds the calls that are waited for and not answered, no more and
\* no fewer: an entry that was left behind would leak, and a wait without one
\* and without an answer would not end.
PendingIsAwaited ==
  \A c \in Ids : c \in pending <=>
    Replies(c) /\ call[c] \in {"sending", "waiting"} /\ answer[c] = "none"

\* The length of what is in a queue.
Total(q) ==
  LET total[n \in 0..Len(q)] == IF n = 0 THEN 0 ELSE total[n - 1] + Size[q[n]]
  IN  total[Len(q)]

\* What waits for one task stays within the limits, however it came to be there.
AdmissionBound ==
  \A i \in DOMAIN task :
    LET q == task[i].queue IN
    /\ Len(q) <= MaxMessages
    /\ Len(q) > 1 => Total(q) <= MaxBytes

\* The node holds no entry for a monitor that nothing waits for the actor for.
MonitorsAreHeld == live \subseteq held

\* Messages that came on one stream get into the mailbox in the order they were
\* sent, and each at most once, whatever is lost or replaced on the way, while no
\* task for the actor has closed its queue for being idle.
OrderOnStream ==
  (\A i \in DOMAIN task : ~task[i].closed) =>
    \A i, j \in DOMAIN delivered :
      i < j /\ via[delivered[i]] = via[delivered[j]] => delivered[i] < delivered[j]

\* What a stop leaves behind: a call without a deadline, in a table that no loss is
\* applied to any more.
Stranded(c) == ~running /\ c \in pending /\ ~Deadline(c)

\* Every other wait ends, also one without a deadline, when the actor gets there or
\* the host is lost, while nothing is lost quietly: again and again none is left.
ReportedLossEndsWaits ==
  []<>(drops > 0 \/ \A c \in Ids : call[c] = "waiting" => Stranded(c))
=============================================================================
