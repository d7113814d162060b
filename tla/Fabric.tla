------------------------------- MODULE Fabric -------------------------------
(***************************************************************************)
(* The network under the links: what a backend promises, as the simulated  *)
(* network keeps it.  Nodes listen on an address of their own, one         *)
(* incarnation (generation) at a time; a connection joins two incarnations *)
(* and is closed for both ends at once, by either, by a partition that     *)
(* falls across it, or with an endpoint that is dropped; streams keep      *)
(* their order and datagrams do not, and both lose what is in flight when  *)
(* the connection is closed.                                               *)
(***************************************************************************)
EXTENDS Naturals, Sequences, FiniteSets

CONSTANTS
  Nodes,     \* node names, ordered like the numbers
  MaxGen,    \* bound: incarnations of a node
  MaxConns,  \* bound: connections ever made
  Lanes,     \* the lanes that may open a stream on a connection
  Ordered    \* those with Delivery::Ordered; the others send datagrams

ASSUME FabricAssumption ==
  Nodes \subseteq Nat /\ MaxGen \in Nat /\ MaxConns \in Nat /\ Ordered \subseteq Lanes

VARIABLES
  up,        \* listeners: the generation that listens for each node, 0 for none
  born,      \* the generations used so far
  parted,    \* partitions, as sets of two nodes
  pairs,     \* the connections made
  flow,      \* what was sent on a connection by a lane and not read yet
  accepted   \* the streams (connection and lane) that the peer has accepted

fabricVars == <<up, born, parted, pairs, flow, accepted>>

Conns == 1..MaxConns

FabricInit ==
  /\ up = [n \in Nodes |-> 1] /\ born = up
  /\ parted = {} /\ pairs = <<>>
  /\ flow = [c \in Conns |-> [l \in Lanes |-> <<>>]]
  /\ accepted = {}

Parted(x, y) == {x, y} \in parted
Open(c) == pairs[c].open

\* CancellationToken::cancel of what both ends share.
Close(C) ==
  [c \in DOMAIN pairs |-> [pairs[c] EXCEPT !.open = @ /\ c \notin C]]

Other(c, n) == IF pairs[c].from = n THEN pairs[c].to ELSE pairs[c].from
GenAt(c, n) ==
  IF pairs[c].from = n THEN pairs[c].fromGen ELSE pairs[c].toGen

\* The connections of the incarnation of n that runs.
Own(n) == {c \in DOMAIN pairs : /\ n \in {pairs[c].from, pairs[c].to}
                                /\ up[n] # 0 /\ GenAt(c, n) = up[n]}

\* SimEndpoint::connect, as far as the check of the address: the listener
\* there, or none when the dial is refused.
Answers(n, p) == up[p] # 0 /\ ~Parted(n, p)

\* SimConnection::pair: both ends of a new connection, with what the links keep
\* of its handshake.  The dialer's Hello is written at once.
Pair(n, p, gen) ==
  [from |-> n, to |-> p, fromGen |-> up[n], toGen |-> gen, open |-> TRUE,
   hello |-> "there", accept |-> "queued"]

\* The end of connect, after the latency: the connection waits to be accepted.
NewPair(n, p, gen) == Append(pairs, Pair(n, p, gen))

\* A partition cuts the connections it falls across that exist by then.
Partition(x, y) ==
  /\ x # y /\ ~Parted(x, y)
  /\ parted' = parted \cup {{x, y}}
  /\ pairs' = Close({c \in DOMAIN pairs : {pairs[c].from, pairs[c].to} = {x, y}})
  /\ UNCHANGED <<up, born, flow, accepted>>

Heal == parted # {} /\ parted' = {} /\ UNCHANGED <<up, born, pairs, flow, accepted>>

\* Fabric::bind, by the next incarnation of n.
Bind(n) ==
  /\ up[n] = 0 /\ born[n] < MaxGen
  /\ born' = [born EXCEPT ![n] = @ + 1]
  /\ up' = [up EXCEPT ![n] = born'[n]]
  /\ UNCHANGED <<parted, pairs, flow, accepted>>

\* A SimEndpoint that is closed or dropped takes its connections along.
DropEndpoint(n) ==
  /\ up[n] # 0
  /\ pairs' = Close(Own(n))
  /\ up' = [up EXCEPT ![n] = 0]
  /\ UNCHANGED <<born, parted, flow, accepted>>

\* What leaves a pipe while the nodes are partitioned is dropped: of the
\* handshake, for a connection made by a dial that the partition overtook.
LoseHello(c) ==
  /\ pairs[c].hello \in {"there", "back"} /\ Open(c)
  /\ Parted(pairs[c].from, pairs[c].to)
  /\ pairs' = [pairs EXCEPT ![c].hello = "lost"]
  /\ UNCHANGED <<up, born, parted, flow, accepted>>

\* open_stream and write, or send_datagram: nothing gets through a connection
\* that is closed.
Write(c, l, m) ==
  flow' = [flow EXCEPT ![c][l] = IF Open(c) THEN Append(@, m) ELSE @]

\* What the reader of l may get next: the head of a stream, also of one whose
\* connection was closed after it arrived, or any datagram of a connection;
\* one that is never read is lost.
Readable(c, l) ==
  IF l \in Ordered THEN IF <<c, l>> \in accepted /\ flow[c][l] # <<>> THEN {1} ELSE {}
  ELSE IF Open(c) THEN DOMAIN flow[c][l] ELSE {}
=============================================================================
