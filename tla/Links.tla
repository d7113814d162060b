------------------------------- MODULE Links -------------------------------
(***************************************************************************)
(* The links of every node: one connection kept per peer, dialed by the    *)
(* lanes on demand, one lane at a time, or accepted; the lanes, with what  *)
(* they queue, and the health of each peer, which its lanes share; and the *)
(* reports about both.                                                     *)
(*                                                                         *)
(* A step is what a task does between two awaits, under the locks it holds *)
(* there: what it learned before an await may be old when it goes on.      *)
(***************************************************************************)
EXTENDS Fabric

CONSTANTS
  MaxMessages,       \* bound: how many messages are sent where, a set of functions
  MaxFaults,         \* bound: crashes, shutdowns, partitions, forgets and timeouts
  UnreachableAfter   \* UNREACHABLE_AFTER

VARIABLES
  reg,        \* conns: the connection of each node to each peer, 0 for none
  receiving,  \* the connections each node receives on
  lane,       \* the lane tasks
  health,     \* Health of each pair of nodes: the current one last
  left,       \* how many messages may still be sent to each peer, protocol and shard
  got,        \* what arrived of them, in its order
  reports,    \* the connections each node reported Disconnected
  told,       \* the last of Unreachable and Reachable reported
  stopping,   \* the nodes in Links::shutdown
  faults

linkVars == <<reg, receiving, lane, health, left, got, reports, told, stopping, faults>>
vars == <<fabricVars, linkVars>>

\* A lane is <<from, to, protocol and shard, number>>: lanes that differ in the
\* number alone take turns under one LaneKey.
From(l) == l[1]
To(l)   == l[2]
Key(l)  == <<l[1], l[2], l[3]>>
Keys    == {Key(l) : l \in Lanes}

ASSUME LinksAssumption ==
  /\ IsFiniteSet(Lanes)
  /\ \A l \in Lanes : From(l) \in Nodes /\ To(l) \in Nodes \ {From(l)}
  /\ MaxMessages \subseteq [Keys -> Nat]
  /\ UnreachableAfter \in Nat \ {0}

LaneOff == [pc |-> "off", open |-> FALSE, queue |-> <<>>, conn |-> 0,
            stream |-> 0, health |-> 0, target |-> 0]
Healthy == [failures |-> 0, backing |-> FALSE, reported |-> FALSE]

Init ==
  /\ FabricInit
  /\ reg = [n \in Nodes |-> [p \in Nodes \ {n} |-> 0]]
  /\ receiving = [n \in Nodes |-> {}]
  /\ lane = [l \in Lanes |-> LaneOff]
  /\ health = [n \in Nodes |-> [p \in Nodes \ {n} |-> <<Healthy>>]]
  /\ left \in MaxMessages /\ got = [k \in Keys |-> <<>>]
  /\ reports = [n \in Nodes |-> {}]
  /\ told = [n \in Nodes |-> [p \in Nodes \ {n} |-> "nothing"]]
  /\ stopping = {} /\ faults = 0

Fault == faults < MaxFaults /\ faults' = faults + 1

\* Inner::live.
Live(n, p) == reg[n][p] # 0 /\ Open(reg[n][p])

HealthOf(l) == health[From(l)][To(l)][lane[l].health]

MayEnd(l) ==
  /\ lane[l].pc = "idle" /\ lane[l].queue = <<>>
  /\ ~lane[l].open \/ ~HealthOf(l).reported

-----------------------------------------------------------------------------
(* The one connection per peer.                                            *)

\* Mutation of Keeps: the dialed connection always wins.
KeepsOwn(n, p, c) ==
  \/ ~Live(n, p)
  \/ GenAt(c, p) > GenAt(reg[n][p], p)
  \/ GenAt(c, p) = GenAt(reg[n][p], p) /\ pairs[c].from = n
\* Inner::register: a connection to a newer incarnation wins, then one dialed
\* by the same side as the one before, then one dialed by the smaller name.
Keeps(n, p, c) ==
  LET old == reg[n][p] IN
    \/ ~Live(n, p)
    \/ GenAt(c, p) > GenAt(old, p)
    \/ /\ GenAt(c, p) = GenAt(old, p)
       /\ \/ pairs[c].from = pairs[old].from
          \/ \A x \in {n, p} : pairs[c].from <= x

\* Either c takes the place of the one there, which is closed and reported
\* unless it was closed already, or c is closed itself.
Register(n, p, c) ==
  IF Keeps(n, p, c)
  THEN /\ reg' = [reg EXCEPT ![n][p] = c]
       /\ receiving' = [receiving EXCEPT ![n] = @ \cup {c}]
       /\ IF Live(n, p)
          THEN reports' = [reports EXCEPT ![n] = @ \cup {reg[n][p]}]
          ELSE UNCHANGED reports
  ELSE UNCHANGED <<reg, receiving, reports>>

\* What registering c does to the connections.
AfterRegister(n, p, c) ==
  Close(IF ~Keeps(n, p, c) THEN {c} ELSE IF Live(n, p) THEN {reg[n][p]} ELSE {})

Unregister(n, p, c) ==
  IF reg[n][p] = c
  THEN /\ reg' = [reg EXCEPT ![n][p] = 0]
       /\ reports' = [reports EXCEPT ![n] = @ \cup {c}]
  ELSE UNCHANGED <<reg, reports>>

-----------------------------------------------------------------------------
(* Lanes.                                                                  *)

\* Inner::sender and a send into the lane, which is started if there is none.
\* A lane ends when it is idle, unless it reported the peer unreachable; a
\* message sent into it just then is lost with it.
Enqueue(l) ==
  LET k == Key(l)
      m == left[k] IN   \* a message is known by how many come after it
  /\ up[From(l)] # 0 /\ From(l) \notin stopping
  /\ m > 0 /\ left' = [left EXCEPT ![k] = m - 1]
  /\ \/ lane[l].open /\ lane' = [lane EXCEPT ![l].queue = Append(@, m)]
     \/ lane[l].open /\ MayEnd(l) /\ lane' = [lane EXCEPT ![l] = LaneOff]
     \/ /\ lane[l].pc = "off" /\ ~\E o \in Lanes : Key(o) = k /\ lane[o].open
        /\ lane' = [lane EXCEPT ![l] =
             [LaneOff EXCEPT !.pc = "idle", !.open = TRUE, !.queue = <<m>>,
                             !.health = Len(health[From(l)][To(l)])]]
  /\ UNCHANGED <<fabricVars, reg, receiving, health, got, reports, told, stopping, faults>>

\* Mutation of Drop: a message that was written or refused is tried again.
Retry(l) == [lane EXCEPT ![l].pc = "idle", ![l].conn = 0, ![l].target = 0]
Drop(l) == [lane EXCEPT ![l].pc = "idle", ![l].queue = Tail(@), ![l].conn = 0, ![l].target = 0]

\* peer_idle is over, or the lane was dropped.
Finish(l) ==
  /\ MayEnd(l)
  /\ lane' = [lane EXCEPT ![l] = LaneOff]
  /\ UNCHANGED <<fabricVars, reg, receiving, health, left, got, reports, told, stopping, faults>>

\* Mutation of Connected: nobody hears that the peer is reachable again.
ConnectedUnreported(l, c) ==
  /\ lane' = [lane EXCEPT ![l].pc = "send", ![l].conn = c, ![l].target = 0]
  /\ health' = [health EXCEPT ![From(l)][To(l)][lane[l].health] = Healthy]

\* connection() returned c: Health::succeeded.
Connected(l, c) ==
  /\ lane' = [lane EXCEPT ![l].pc = IF HealthOf(l).reported THEN "reachable" ELSE "send",
                          ![l].conn = c, ![l].target = 0]
  /\ health' = [health EXCEPT ![From(l)][To(l)][lane[l].health] = Healthy]

\* connection() failed: Health::failed, and the message is dropped.
Failed(l) ==
  LET h == HealthOf(l)
      count == IF h.failures < UnreachableAfter THEN h.failures + 1 ELSE h.failures
      newly == count >= UnreachableAfter /\ ~h.reported IN
  /\ health' = [health EXCEPT ![From(l)][To(l)][lane[l].health] =
       [failures |-> count, backing |-> TRUE, reported |-> h.reported \/ newly]]
  /\ lane' = IF newly THEN [Drop(l) EXCEPT ![l].pc = "unreachable"] ELSE Drop(l)

\* The pause between two attempts is over.
BackoffEnds(n, p, i) ==
  /\ i \in DOMAIN health[n][p] /\ health[n][p][i].backing
  /\ health' = [health EXCEPT ![n][p][i].backing = FALSE]
  /\ UNCHANGED <<fabricVars, reg, receiving, lane, left, got, reports, told, stopping, faults>>

\* The report, sent after the lock of the health was released.
Report(l) ==
  LET n == From(l)  p == To(l) IN
  /\ \/ /\ lane[l].pc = "reachable" /\ lane' = [lane EXCEPT ![l].pc = "send"]
        /\ told' = [told EXCEPT ![n][p] = "Reachable"]
     \/ /\ lane[l].pc = "unreachable" /\ lane' = [lane EXCEPT ![l].pc = "idle"]
        /\ told' = [told EXCEPT ![n][p] = "Unreachable"]
  /\ UNCHANGED <<fabricVars, reg, receiving, health, left, got, reports, stopping, faults>>

-----------------------------------------------------------------------------
(* Inner::connection.                                                      *)

\* The dialing mutex of a peer.
Dialing(n, p) ==
  \E l \in Lanes : From(l) = n /\ To(l) = p /\ lane[l].pc \in {"calling", "greeting"}

\* A message is taken, and dropped while the peer backs off; it goes to the live
\* connection, or to a dial, once no other lane dials and if it is not refused.
Connect(l) ==
  LET n == From(l)  p == To(l)
      skip == lane[l].pc = "idle" /\ HealthOf(l).backing IN
  /\ lane[l].pc \in {"idle", "waiting"} /\ lane[l].queue # <<>>
  /\ \/ skip /\ lane' = Drop(l) /\ UNCHANGED health
     \/ ~skip /\ Live(n, p) /\ Connected(l, reg[n][p])
     \/ /\ ~skip /\ ~Live(n, p) /\ Dialing(n, p) /\ lane[l].pc = "idle"
        /\ lane' = [lane EXCEPT ![l].pc = "waiting"] /\ UNCHANGED health
     \/ /\ ~skip /\ ~Live(n, p) /\ ~Dialing(n, p) /\ Answers(n, p)
        /\ lane' = [lane EXCEPT ![l].pc = "calling", ![l].target = up[p]]
        /\ UNCHANGED health
     \/ ~skip /\ ~Live(n, p) /\ ~Dialing(n, p) /\ ~Answers(n, p) /\ Failed(l)
  /\ UNCHANGED <<fabricVars, reg, receiving, left, got, reports, told, stopping, faults>>

\* The dial arrives, unless the listener it was for is gone.
Arrive(l) ==
  LET n == From(l)  p == To(l) IN
  /\ lane[l].pc = "calling" /\ Len(pairs) < MaxConns
  /\ \/ /\ up[p] = lane[l].target
        /\ pairs' = NewPair(n, p, up[p])
        /\ lane' = [lane EXCEPT ![l].pc = "greeting", ![l].conn = Len(pairs')]
        /\ UNCHANGED health
     \/ up[p] # lane[l].target /\ Failed(l) /\ UNCHANGED pairs
  /\ UNCHANGED <<up, born, parted, flow, accepted, reg, receiving, left, got, reports, told,
                 stopping, faults>>

\* The peer's Hello is there, perhaps of a connection that was closed since:
\* it is registered, or else the one preferred to it is used.
DialRegister(l) ==
  LET n == From(l)  p == To(l)  c == lane[l].conn IN
  /\ lane[l].pc = "greeting" /\ pairs[c].hello = "back"
  /\ Register(n, p, c) /\ pairs' = AfterRegister(n, p, c)
  /\ IF Keeps(n, p, c) THEN Connected(l, c)
     ELSE IF Live(n, p) THEN Connected(l, reg[n][p]) ELSE Failed(l)
  /\ UNCHANGED <<up, born, parted, flow, accepted, left, got, told, stopping, faults>>

\* Mutation of Stuck: the handshake has no timeout.
Broken(c) == ~Open(c)
\* A handshake that will not end by itself.
Stuck(c) == ~Open(c) \/ pairs[c].hello = "lost"

\* connect_timeout or handshake_timeout, or an error of the handshake: the
\* Conn is dropped, which closes it.
DialFails(l) ==
  LET c == lane[l].conn IN
  /\ \/ /\ lane[l].pc = "greeting"
        /\ IF Stuck(c) THEN UNCHANGED faults ELSE Fault
     \/ /\ lane[l].pc = "calling"
        /\ IF Len(pairs) = MaxConns THEN UNCHANGED faults ELSE Fault
  /\ pairs' = Close({c}) /\ Failed(l)
  /\ UNCHANGED <<up, born, parted, flow, accepted, reg, receiving, left, got, reports, told,
                 stopping>>

\* Inner::accept reads the dialer's Hello and writes its own,
Accept(c) ==
  /\ pairs[c].accept = "queued" /\ pairs[c].hello = "there"
  /\ up[pairs[c].to] = pairs[c].toGen
  /\ pairs' = [pairs EXCEPT ![c].accept = "replied", ![c].hello = "back"]
  /\ UNCHANGED <<up, born, parted, flow, accepted, linkVars>>

\* and registers the connection, however it fared in between.
AcceptRegister(c) ==
  LET n == pairs[c].to  p == pairs[c].from IN
  /\ pairs[c].accept = "replied" /\ up[n] = pairs[c].toGen
  /\ Register(n, p, c)
  /\ pairs' = [AfterRegister(n, p, c) EXCEPT ![c].accept = "done"]
  /\ UNCHANGED <<up, born, parted, flow, accepted, lane, health, left, got, told, stopping,
                 faults>>

AcceptFails(c) ==
  /\ pairs[c].accept = "queued"
  /\ IF Stuck(c) THEN UNCHANGED faults ELSE Fault
  /\ pairs' = [Close({c}) EXCEPT ![c].accept = "done"]
  /\ UNCHANGED <<up, born, parted, flow, accepted, reg, receiving, lane, health, left, got,
                 reports, told, stopping>>

-----------------------------------------------------------------------------
(* Messages.                                                               *)

\* send_ordered: a stream on an earlier connection is gone with it.
NeedsStream(l) == lane[l].stream # lane[l].conn

\* send_datagram and send_ordered: a stream that is open already may take a
\* message for a connection that was just closed.  After an error the
\* connection is unregistered.
Send(l) ==
  LET c == lane[l].conn
      stream == IF l \notin Ordered \/ NeedsStream(l) THEN c ELSE lane[l].stream
      fresh == l \notin Ordered \/ NeedsStream(l) IN
  /\ lane[l].pc = "send"
  /\ \/ /\ Open(c) \/ ~fresh
        /\ Write(stream, l, Head(lane[l].queue))
        /\ lane' = [Drop(l) EXCEPT ![l].stream = IF l \in Ordered THEN stream ELSE 0]
        /\ UNCHANGED <<reg, reports>>
     \/ /\ ~Open(c)
        /\ lane' = [Drop(l) EXCEPT ![l].stream = 0]
        /\ Unregister(From(l), To(l), c)
        /\ UNCHANGED flow
  /\ UNCHANGED <<up, born, parted, pairs, accepted, receiving, health, left, got, told,
                 stopping, faults>>

\* Inner::spawn_receive: the loop takes the streams of a connection,
AcceptStream(n, c, l) ==
  /\ c \in receiving[n] /\ Open(c) /\ l \in Ordered /\ From(l) = Other(c, n)
  /\ flow[c][l] # <<>> /\ <<c, l>> \notin accepted
  /\ accepted' = accepted \cup {<<c, l>>}
  /\ UNCHANGED <<up, born, parted, pairs, flow, linkVars>>

\* a task of its own reads each, and the datagrams, and delivers them,
Deliver(c, l, i) ==
  LET n == To(l) IN
  /\ c \in DOMAIN pairs /\ i \in Readable(c, l) /\ up[n] = GenAt(c, n)
  /\ c \in receiving[n] \/ l \in Ordered
  /\ got' = [got EXCEPT ![Key(l)] = Append(@, flow[c][l][i])]
  /\ flow' = [flow EXCEPT ![c][l] = SubSeq(@, 1, i - 1) \o SubSeq(@, i + 1, Len(@))]
  /\ UNCHANGED <<up, born, parted, pairs, accepted, reg, receiving, lane, health, left,
                 reports, told, stopping, faults>>

\* and the loop ends with the connection.
ReceiveEnds(n, c) ==
  /\ c \in receiving[n] /\ ~Open(c)
  /\ receiving' = [receiving EXCEPT ![n] = @ \ {c}]
  /\ Unregister(n, Other(c, n), c)
  /\ UNCHANGED <<fabricVars, lane, health, left, got, told, stopping, faults>>

-----------------------------------------------------------------------------
(* The end of a peer, of the node itself, and of the network.              *)

CloseLanes(L) == [l \in Lanes |-> IF l \in L THEN [lane[l] EXCEPT !.open = FALSE] ELSE lane[l]]

\* Links::forget: the lanes to the peer end once they sent what they have, its
\* health starts afresh, and the connection goes unless it is to an
\* incarnation newer than the one forgotten.
Forget(n, p, gen) ==
  /\ up[n] # 0 /\ Fault
  /\ lane' = CloseLanes({l \in Lanes : From(l) = n /\ To(l) = p})
  /\ health' = [health EXCEPT ![n][p] = Append(@, Healthy)]
  /\ IF reg[n][p] # 0 /\ GenAt(reg[n][p], p) <= gen
     THEN pairs' = Close({reg[n][p]}) /\ reg' = [reg EXCEPT ![n][p] = 0]
     ELSE UNCHANGED <<pairs, reg>>
  /\ UNCHANGED <<up, born, parted, flow, accepted, receiving, left, got, reports, told,
                 stopping>>

\* The tasks of a node that are aborted with it.
Aborted(n) ==
  /\ reg' = [reg EXCEPT ![n] = [p \in Nodes \ {n} |-> 0]]
  /\ receiving' = [receiving EXCEPT ![n] = {}]
  /\ lane' = [l \in Lanes |-> IF From(l) = n THEN LaneOff ELSE lane[l]]
  /\ health' = [health EXCEPT ![n] = [p \in Nodes \ {n} |-> <<Healthy>>]]
  /\ told' = [told EXCEPT ![n] = [p \in Nodes \ {n} |-> "nothing"]]
  /\ stopping' = stopping \ {n}

\* Dropping the Links.
Crash(n) ==
  /\ DropEndpoint(n) /\ Aborted(n) /\ Fault
  /\ UNCHANGED <<left, got, reports>>

\* Links::shutdown lets the lanes finish,
Shutdown(n) ==
  /\ up[n] # 0 /\ n \notin stopping /\ Fault
  /\ stopping' = stopping \cup {n}
  /\ lane' = CloseLanes({l \in Lanes : From(l) = n})
  /\ UNCHANGED <<fabricVars, reg, receiving, health, left, got, reports, told>>

\* and closes the endpoint when they have, or after shutdown_grace.
EndShutdown(n) ==
  /\ n \in stopping
  /\ IF \A l \in Lanes : From(l) = n => lane[l].pc = "off" THEN UNCHANGED faults ELSE Fault
  /\ DropEndpoint(n) /\ Aborted(n)
  /\ UNCHANGED <<left, got, reports>>

Faulty(A) == A /\ Fault /\ UNCHANGED <<reg, receiving, lane, health, left, got, reports, told, stopping>>
Quiet(A)  == A /\ UNCHANGED linkVars

LaneStep(l) ==
  \/ Connect(l) \/ Arrive(l) \/ DialRegister(l) \/ DialFails(l)
  \/ Report(l) \/ Send(l) \/ Finish(l)

ConnStep(c) ==
  \/ Accept(c) \/ AcceptRegister(c) \/ AcceptFails(c)
  \/ \E n \in Nodes : ReceiveEnds(n, c)

Next ==
  \/ \E l \in Lanes : Enqueue(l) \/ LaneStep(l)
  \/ \E c \in DOMAIN pairs :
       \/ ConnStep(c) \/ Quiet(LoseHello(c))
       \/ \E n \in Nodes, l \in Lanes : AcceptStream(n, c, l)
       \/ \E l \in Lanes : \E i \in DOMAIN flow[c][l] :
            Deliver(c, l, i)
  \/ \E n \in Nodes : Crash(n) \/ Shutdown(n) \/ EndShutdown(n) \/ Quiet(Bind(n))
  \/ \E n \in Nodes : \E p \in Nodes \ {n} :
       \/ \E i \in 1..MaxFaults + 1 : BackoffEnds(n, p, i)
       \/ \E gen \in 1..born[p] : Forget(n, p, gen)
       \/ Faulty(Partition(n, p))
  \/ Quiet(Heal)

Spec == Init /\ [][Next]_vars

\* The runtime runs some task while one can go on, and what was written to an
\* open connection gets there or is dropped.  Nothing is assumed of the layers
\* above, of faults and of partitions.
TaskStep ==
  \/ \E l \in Lanes : LaneStep(l)
  \/ \E c \in DOMAIN pairs : ConnStep(c) \/ Quiet(LoseHello(c))

FairSpec == Spec /\ WF_vars(TaskStep)

-----------------------------------------------------------------------------
(* Properties.                                                             *)

\* Nothing is under way between n and p that will change their connection.
Settled(n, p) ==
  /\ \A l \in Lanes : {From(l), To(l)} = {n, p} => lane[l].pc \notin {"calling", "greeting"}
  /\ \A c \in Own(n) \cup Own(p) : {pairs[c].from, pairs[c].to} = {n, p} =>
       /\ pairs[c].accept \in {"queued", "replied"} => up[pairs[c].to] # pairs[c].toGen
       /\ \A x \in {n, p} : c \in receiving[x] => Open(c)

\* Two nodes that dialed each other at once, any number of times, end up with
\* the same connection, leave no other open, and are connected at all unless
\* there was a fault.
ConnectionsAgree ==
  \A n \in Nodes : \A p \in Nodes \ {n} : Settled(n, p) =>
    /\ up[n] # 0 /\ up[p] # 0 /\ reg[n][p] # 0 => reg[p][n] = reg[n][p]
    /\ \A c \in Own(n) : Other(c, n) = p /\ Open(c) => reg[n][p] = c
    /\ faults = 0 /\ (\E c \in DOMAIN pairs : {pairs[c].from, pairs[c].to} = {n, p})
         => reg[n][p] # 0

\* A message is not delivered twice.
NeverTwice ==
  \A k \in Keys : \A i, j \in DOMAIN got[k] : got[k][i] = got[k][j] => i = j

\* A peer is not reported unreachable last once it was reached, if one lane
\* reports alone.
ReportsMatch ==
  \A n \in Nodes : \A p \in Nodes \ {n} :
    /\ Cardinality({l \in Lanes : From(l) = n /\ To(l) = p}) = 1
    /\ \A l \in Lanes : From(l) = n /\ To(l) = p => lane[l].pc \notin {"reachable", "unreachable"}
    /\ Len(health[n][p]) = 1 /\ ~health[n][p][1].reported
    => told[n][p] # "Unreachable"

\* The lanes are done, again and again, with all they took, whatever happens to
\* the dials that they make or wait for.
DialsEnd == []<>(\A l \in Lanes : lane[l].pc \in {"idle", "off"} /\ lane[l].queue = <<>>)
=============================================================================
