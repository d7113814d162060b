----------------------------- MODULE NodeProofs ------------------------------
(***************************************************************************)
(* Theorems about what a node runs next to its actors' own tasks, three    *)
(* specifications that share no variable: Links for any nodes, lanes,      *)
(* messages and bounds; Membership for any peers, clocks and generations;  *)
(* and Node, a supervisor with its source, for any names and blueprint.    *)
(***************************************************************************)
EXTENDS Links, Membership, Node, SequenceTheorems, FiniteSetTheorems, NaturalsInduction,
        WellFoundedInduction, TLAPS

------------------------------------------------------------------------------
(* Links.                                                                  *)

PairType ==
  {r \in [from : Nodes, to : Nodes, fromGen : Nat \ {0}, toGen : Nat \ {0}, open : BOOLEAN,
          hello : {"there", "back", "lost"}, accept : {"queued", "replied", "done"}] :
     r.from # r.to}
LaneType == [pc : {"off", "idle", "waiting", "calling", "greeting", "reachable",
                   "unreachable", "send"},
             open : BOOLEAN, queue : Seq(Nat), conn : Nat, stream : Nat, health : Nat,
             target : Nat]
HealthType == [failures : Nat, backing : BOOLEAN, reported : BOOLEAN]

HealthTypes ==
  /\ DOMAIN health = Nodes
  /\ \A n \in Nodes : health[n] \in [Nodes \ {n} -> Seq(HealthType)]
  /\ \A n \in Nodes : \A p \in Nodes \ {n} : Len(health[n][p]) >= 1
LaneTypes == lane \in [Lanes -> LaneType]
PairTypes == pairs \in Seq(PairType) /\ Len(pairs) <= MaxConns

NetTypes ==
  /\ up \in [Nodes -> Nat] /\ born \in [Nodes -> Nat]
  /\ PairTypes
  /\ flow \in [Conns -> [Lanes -> Seq(Nat)]]

RegTypes ==
  /\ DOMAIN reg = Nodes /\ \A n \in Nodes : reg[n] \in [Nodes \ {n} -> Nat]
  /\ receiving \in [Nodes -> SUBSET Nat]

MsgTypes == left \in [Keys -> Nat] /\ got \in [Keys -> Seq(Nat)]

ToldTypes ==
  /\ DOMAIN told = Nodes
  /\ \A n \in Nodes : told[n] \in [Nodes \ {n} -> {"nothing", "Unreachable", "Reachable"}]
  /\ faults \in Nat

Types == NetTypes /\ RegTypes /\ LaneTypes /\ HealthTypes /\ MsgTypes /\ ToldTypes

\* What each lane keeps to: it runs on a node that is up, and has in hand what
\* it is about to send.
Good(l, r) ==
  /\ r.pc # "off" => up[From(l)] # 0 /\ r.health \in 1..Len(health[From(l)][To(l)])
  /\ r.pc \in {"waiting", "calling", "greeting", "reachable", "send"} => r.queue # <<>>
  /\ r.pc \in {"off", "idle", "waiting", "calling", "unreachable"} => r.conn = 0
  /\ r.pc = "calling" => r.target # 0

LanesGood == \A l \in Lanes : Good(l, lane[l])

-----------------------------------------------------------------------------
(* Lanes and connections, one change at a time.                            *)

LEMMA LaneEnds ==
  ASSUME NEW l \in Lanes
  PROVE  /\ From(l) \in Nodes /\ To(l) \in Nodes \ {From(l)} /\ To(l) \in Nodes /\ From(l) # To(l)
         /\ Key(l) \in Keys
  BY LinksAssumption DEF Keys

LEMMA CloseType ==
  ASSUME PairTypes, NEW C
  PROVE  /\ Close(C) \in Seq(PairType) /\ Len(Close(C)) = Len(pairs)
         /\ DOMAIN Close(C) = DOMAIN pairs /\ DOMAIN pairs = 1..Len(pairs) /\ Len(pairs) \in Nat
         /\ \A c \in DOMAIN pairs :
              /\ Close(C)[c] = [pairs[c] EXCEPT !.open = @ /\ c \notin C]
              /\ Close(C)[c] \in PairType
<1>1. Len(pairs) \in Nat /\ DOMAIN pairs = 1..Len(pairs) /\ pairs \in [1..Len(pairs) -> PairType]
  BY LenProperties DEF PairTypes
<1>2. \A c \in 1..Len(pairs) : [pairs[c] EXCEPT !.open = @ /\ c \notin C] \in PairType
  BY <1>1 DEF PairType
<1>3. Close(C) = [c \in 1..Len(pairs) |-> [pairs[c] EXCEPT !.open = @ /\ c \notin C]]
  BY <1>1 DEF Close
<1>4. Close(C) \in Seq(PairType) /\ Len(Close(C)) = Len(pairs)
  BY <1>1, <1>2, <1>3, IsASeq
<1> QED BY <1>1, <1>2, <1>3, <1>4

HealthBecomes(n, p, i, r) == health' = [health EXCEPT ![n][p][i] = r]

LEMMA HealthPut ==
  ASSUME HealthTypes, NEW n \in Nodes, NEW p \in Nodes \ {n}, NEW i \in 1..Len(health[n][p]),
         NEW r \in HealthType, HealthBecomes(n, p, i, r)
  PROVE  /\ HealthTypes' /\ health'[n][p][i] = r
         /\ \A m \in Nodes : \A q \in Nodes \ {m} :
              /\ Len(health'[m][q]) = Len(health[m][q])
              /\ m # n \/ q # p => health'[m][q] = health[m][q]
<1>1. /\ health[n] \in [Nodes \ {n} -> Seq(HealthType)]
      /\ health[n][p] \in Seq(HealthType)
  BY DEF HealthTypes
<1>2. /\ [health[n][p] EXCEPT ![i] = r] \in Seq(HealthType)
      /\ Len([health[n][p] EXCEPT ![i] = r]) = Len(health[n][p])
      /\ [health[n][p] EXCEPT ![i] = r][i] = r
  BY <1>1, ExceptSeq, LenProperties
<1>3. /\ DOMAIN health' = Nodes
      /\ health'[n] = [health[n] EXCEPT ![p] = [health[n][p] EXCEPT ![i] = r]]
      /\ \A m \in Nodes \ {n} : health'[m] = health[m]
  BY DEF HealthTypes, HealthBecomes
<1>4. /\ health'[n] \in [Nodes \ {n} -> Seq(HealthType)]
      /\ health'[n][p] = [health[n][p] EXCEPT ![i] = r]
      /\ \A q \in Nodes \ {n} : q # p => health'[n][q] = health[n][q]
  BY <1>1, <1>2, <1>3
<1>5. ASSUME NEW m \in Nodes, NEW q \in Nodes \ {m}
      PROVE  /\ Len(health'[m][q]) = Len(health[m][q])
             /\ m # n \/ q # p => health'[m][q] = health[m][q]
  BY <1>2, <1>3, <1>4
<1>6. HealthTypes'
  BY <1>3, <1>4, <1>5 DEF HealthTypes
<1> QED BY <1>2, <1>4, <1>5, <1>6

LEMMA DropType ==
  ASSUME LaneTypes, NEW l \in Lanes, lane[l].queue # <<>>
  PROVE  /\ Drop(l) \in [Lanes -> LaneType]
         /\ Drop(l)[l] = [lane[l] EXCEPT !.pc = "idle", !.queue = Tail(@), !.conn = 0, !.target = 0]
         /\ \A o \in Lanes : o # l => Drop(l)[o] = lane[o]
<1>1. lane[l] \in LaneType /\ Tail(lane[l].queue) \in Seq(Nat)
  BY HeadTailProperties DEF LaneTypes, LaneType
<1> QED BY <1>1 DEF Drop, LaneTypes, LaneType

LEMMA FailedType ==
  ASSUME LaneTypes, HealthTypes, NEW l \in Lanes, lane[l].queue # <<>>,
         lane[l].health \in 1..Len(health[From(l)][To(l)]), Failed(l)
  PROVE  /\ LaneTypes' /\ HealthTypes'
         /\ lane'[l].pc \in {"idle", "unreachable"} /\ lane'[l].conn = 0
         /\ lane'[l].queue = Tail(lane[l].queue) /\ lane'[l].health = lane[l].health
         /\ \A o \in Lanes : o # l => lane'[o] = lane[o]
         /\ \A m \in Nodes : \A q \in Nodes \ {m} :
              /\ Len(health'[m][q]) = Len(health[m][q])
              /\ m # From(l) \/ q # To(l) => health'[m][q] = health[m][q]
         /\ LET i == lane[l].health IN
              /\ health[From(l)][To(l)][i].reported => health'[From(l)][To(l)][i].reported
              /\ lane'[l].pc = "unreachable" => health'[From(l)][To(l)][i].reported
<1> DEFINE h == HealthOf(l)
           count == IF h.failures < UnreachableAfter THEN h.failures + 1 ELSE h.failures
           newly == count >= UnreachableAfter /\ ~h.reported
           r == [failures |-> count, backing |-> TRUE, reported |-> h.reported \/ newly]
<1>1. h \in HealthType
  <2>1. health[From(l)][To(l)] \in Seq(HealthType)
    BY LaneEnds DEF HealthTypes
  <2> QED BY <2>1, ElementOfSeq DEF HealthOf
<1>2. r \in HealthType
  <2>1. count \in Nat
    BY <1>1 DEF HealthType
  <2>2. (h.reported \/ newly) \in BOOLEAN
    BY <1>1 DEF HealthType
  <2> HIDE DEF count, newly
  <2> QED BY <2>1, <2>2 DEF HealthType
<1>3. /\ health' = [health EXCEPT ![From(l)][To(l)][lane[l].health] = r]
      /\ lane' = IF newly THEN [Drop(l) EXCEPT ![l].pc = "unreachable"] ELSE Drop(l)
  BY DEF Failed
<1>4. newly \in BOOLEAN /\ (newly => r.reported) /\ (h.reported => r.reported)
  OBVIOUS
<1> HIDE DEF r, newly, h
<1>5. /\ HealthTypes' /\ health'[From(l)][To(l)][lane[l].health] = r
      /\ \A m \in Nodes : \A q \in Nodes \ {m} :
           /\ Len(health'[m][q]) = Len(health[m][q])
           /\ m # From(l) \/ q # To(l) => health'[m][q] = health[m][q]
  <2>1. From(l) \in Nodes /\ To(l) \in Nodes \ {From(l)}
    BY LaneEnds
  <2>2. HealthBecomes(From(l), To(l), lane[l].health, r)
    BY <1>3 DEF HealthBecomes
  <2> QED BY <1>2, <2>1, <2>2, HealthPut
<1>6. /\ LaneTypes' /\ lane'[l].pc = (IF newly THEN "unreachable" ELSE "idle")
      /\ lane'[l].conn = 0 /\ lane'[l].queue = Tail(lane[l].queue)
      /\ lane'[l].health = lane[l].health
      /\ \A o \in Lanes : o # l => lane'[o] = lane[o]
  <2> DEFINE d == Drop(l)
  <2>1. /\ d \in [Lanes -> LaneType]
        /\ d[l] = [lane[l] EXCEPT !.pc = "idle", !.queue = Tail(@), !.conn = 0, !.target = 0]
        /\ \A o \in Lanes : o # l => d[o] = lane[o]
    BY DropType
  <2>2. lane' = IF newly THEN [d EXCEPT ![l].pc = "unreachable"] ELSE d
    BY <1>3
  <2> HIDE DEF d
  <2>3. lane[l] \in LaneType
    BY DEF LaneTypes
  <2>4. /\ d[l] \in LaneType /\ d[l].pc = "idle" /\ d[l].conn = 0
        /\ d[l].queue = Tail(lane[l].queue) /\ d[l].health = lane[l].health
    BY <2>1, <2>3 DEF LaneType
  <2>5. CASE newly
    <3>1. lane' = [d EXCEPT ![l] = [d[l] EXCEPT !.pc = "unreachable"]]
      BY <2>2, <2>5
    <3>2. [d[l] EXCEPT !.pc = "unreachable"] \in LaneType
      BY <2>4 DEF LaneType
    <3> QED BY <2>1, <2>4, <2>5, <3>1, <3>2 DEF LaneTypes, LaneType
  <2>6. CASE ~newly
    BY <2>1, <2>2, <2>4, <2>6 DEF LaneTypes
  <2> QED BY <2>5, <2>6
<1> QED BY <1>4, <1>5, <1>6 DEF h, HealthOf

LEMMA ConnectedType ==
  ASSUME LaneTypes, HealthTypes, NEW l \in Lanes,
         lane[l].health \in 1..Len(health[From(l)][To(l)]), NEW c \in Nat, Connected(l, c)
  PROVE  /\ LaneTypes' /\ HealthTypes'
         /\ lane'[l].pc = IF HealthOf(l).reported THEN "reachable" ELSE "send"
         /\ lane'[l].conn = c /\ lane'[l].queue = lane[l].queue
         /\ lane'[l].health = lane[l].health
         /\ \A o \in Lanes : o # l => lane'[o] = lane[o]
         /\ \A m \in Nodes : \A q \in Nodes \ {m} :
              /\ Len(health'[m][q]) = Len(health[m][q])
              /\ m # From(l) \/ q # To(l) => health'[m][q] = health[m][q]
<1>1. Healthy \in HealthType
  BY DEF Healthy, HealthType
<1>2. /\ HealthTypes'
      /\ \A m \in Nodes : \A q \in Nodes \ {m} :
           /\ Len(health'[m][q]) = Len(health[m][q])
           /\ m # From(l) \/ q # To(l) => health'[m][q] = health[m][q]
  <2>1. From(l) \in Nodes /\ To(l) \in Nodes \ {From(l)}
    BY LaneEnds
  <2>2. HealthBecomes(From(l), To(l), lane[l].health, Healthy)
    BY DEF Connected, HealthBecomes
  <2> QED BY <1>1, <2>1, <2>2, HealthPut
<1>3. lane' = [lane EXCEPT ![l].pc = IF HealthOf(l).reported THEN "reachable" ELSE "send",
                           ![l].conn = c, ![l].target = 0]
  BY DEF Connected
<1> DEFINE pc == IF HealthOf(l).reported THEN "reachable" ELSE "send"
           r == [lane[l] EXCEPT !.pc = pc, !.conn = c, !.target = 0]
<1>4. lane[l] \in LaneType /\ pc \in {"reachable", "send"}
  BY DEF LaneTypes
<1>5. lane' = [lane EXCEPT ![l] = r]
  BY <1>3
<1> HIDE DEF pc
<1>6. /\ r \in LaneType /\ r.pc = pc /\ r.conn = c /\ r.queue = lane[l].queue
      /\ r.health = lane[l].health
  BY <1>4 DEF LaneType
<1> HIDE DEF r
<1>7. LaneTypes' /\ lane'[l] = r /\ \A o \in Lanes : o # l => lane'[o] = lane[o]
  BY <1>5, <1>6 DEF LaneTypes
<1> QED BY <1>2, <1>6, <1>7 DEF pc

-----------------------------------------------------------------------------
(* What the steps of a lane have in common.                                *)

SameLens ==
  \A m \in Nodes : \A q \in Nodes \ {m} : Len(health'[m][q]) = Len(health[m][q])

\* Nothing is queued anew.
Thins(l) ==
  \/ lane'[l].queue = lane[l].queue
  \/ lane[l].queue # <<>> /\ lane'[l].queue = Tail(lane[l].queue)
  \/ lane'[l].queue = <<>>

Moves(l) ==
  /\ LaneTypes' /\ HealthTypes' /\ SameLens /\ UNCHANGED up
  /\ \A o \in Lanes : o # l => lane'[o] = lane[o]
  /\ Good(l, lane'[l])

LEMMA GoodStays ==
  ASSUME NEW l \in Lanes, NEW r, Good(l, r), up'[From(l)] = up[From(l)],
         Len(health'[From(l)][To(l)]) = Len(health[From(l)][To(l)]), lane'[l] = r
  PROVE  Good(l, lane[l])'
  BY DEF Good

LEMMA MovesGood ==
  ASSUME LanesGood, NEW l \in Lanes, Moves(l)
  PROVE  LanesGood'
<1> SUFFICES ASSUME NEW o \in Lanes PROVE Good(o, lane[o])'
  BY DEF LanesGood
<1>1. Good(o, lane'[o])
  BY DEF LanesGood, Moves
<1>2. Len(health'[From(o)][To(o)]) = Len(health[From(o)][To(o)]) /\ up' = up
  BY LaneEnds DEF Moves, SameLens
<1> QED BY <1>1, <1>2, GoodStays

LEMMA LaneIs ==
  ASSUME Types, LanesGood, NEW l \in Lanes
  PROVE  /\ lane[l] \in LaneType
         /\ Good(l, lane[l])
         /\ left[Key(l)] \in Nat
         /\ Len(health[From(l)][To(l)]) \in Nat /\ Len(health[From(l)][To(l)]) >= 1
<1>1. health[From(l)][To(l)] \in Seq(HealthType) /\ Len(health[From(l)][To(l)]) >= 1
  BY LaneEnds DEF Types, HealthTypes
<1>2. left[Key(l)] \in Nat
  BY LaneEnds DEF Types, MsgTypes
<1> QED BY <1>1, <1>2, LenProperties DEF Types, LaneTypes, LanesGood

\* One lane becomes r.
LEMMA LanePut ==
  ASSUME Types, NEW l \in Lanes, NEW r \in LaneType, lane' = [lane EXCEPT ![l] = r],
         Good(l, r), UNCHANGED <<up, health>>
  PROVE  Moves(l) /\ lane'[l] = r
<1>1. LaneTypes' /\ lane'[l] = r /\ \A o \in Lanes : o # l => lane'[o] = lane[o]
  BY DEF Types, LaneTypes
<1>2. HealthTypes' /\ SameLens
  BY DEF Types, HealthTypes, SameLens
<1> QED BY <1>1, <1>2 DEF Moves

LEMMA LaneOffType == LaneOff \in LaneType
<1>1. <<>> \in Seq(Nat)
  OBVIOUS
<1> QED BY <1>1 DEF LaneOff, LaneType

LEMMA FailedMoves ==
  ASSUME Types, LanesGood, NEW l \in Lanes, Failed(l), lane[l].queue # <<>>, lane[l].pc # "off",
         UNCHANGED up
  PROVE  Moves(l) /\ Thins(l)
<1>1. Good(l, lane[l])
  BY DEF LanesGood
<1>2. lane[l].health \in 1..Len(health[From(l)][To(l)]) /\ up[From(l)] # 0
  BY <1>1 DEF Good
<1>3. /\ LaneTypes' /\ HealthTypes' /\ SameLens
      /\ lane'[l].pc \in {"idle", "unreachable"} /\ lane'[l].conn = 0
      /\ lane'[l].queue = Tail(lane[l].queue) /\ lane'[l].health = lane[l].health
      /\ \A o \in Lanes : o # l => lane'[o] = lane[o]
  BY <1>2, FailedType DEF Types, SameLens
<1> QED BY <1>2, <1>3 DEF Moves, Good, Thins

LEMMA ConnectedMoves ==
  ASSUME Types, LanesGood, NEW l \in Lanes, NEW c \in Nat, Connected(l, c),
         lane[l].queue # <<>>, lane[l].pc # "off", UNCHANGED up
  PROVE  Moves(l) /\ Thins(l)
<1>1. Good(l, lane[l])
  BY DEF LanesGood
<1>2. lane[l].health \in 1..Len(health[From(l)][To(l)]) /\ up[From(l)] # 0
  BY <1>1 DEF Good
<1>3. /\ LaneTypes' /\ HealthTypes' /\ SameLens
      /\ lane'[l].pc \in {"reachable", "send"}
      /\ lane'[l].queue = lane[l].queue /\ lane'[l].health = lane[l].health
      /\ \A o \in Lanes : o # l => lane'[o] = lane[o]
  BY <1>2, ConnectedType DEF Types, SameLens
<1> QED BY <1>2, <1>3 DEF Moves, Good, Thins

LEMMA ConnectMoves ==
  ASSUME Types, LanesGood, NEW l \in Lanes, Connect(l)
  PROVE  Moves(l) /\ Thins(l)
<1>0. lane[l] \in LaneType /\ Good(l, lane[l])
  BY LaneIs
<1>1. /\ lane[l].pc \in {"idle", "waiting"} /\ lane[l].queue # <<>>
      /\ UNCHANGED up
  BY DEF Connect, fabricVars
<1>2. \/ lane' = Drop(l) /\ UNCHANGED health
      \/ Connected(l, reg[From(l)][To(l)])
      \/ lane' = [lane EXCEPT ![l].pc = "waiting"] /\ UNCHANGED health
      \/ /\ lane' = [lane EXCEPT ![l].pc = "calling", ![l].target = up[To(l)]]
         /\ up[To(l)] # 0 /\ UNCHANGED health
      \/ Failed(l)
  BY DEF Connect, Answers
<1>3. CASE lane' = Drop(l) /\ UNCHANGED health
  <2> DEFINE r == [lane[l] EXCEPT !.pc = "idle", !.queue = Tail(@), !.conn = 0, !.target = 0]
  <2>1. Tail(lane[l].queue) \in Seq(Nat)
    BY <1>0, <1>1, HeadTailProperties DEF LaneType
  <2>2. r \in LaneType /\ Good(l, r) /\ r.queue = Tail(lane[l].queue)
    BY <1>0, <1>1, <2>1 DEF LaneType, Good
  <2>3. lane' = [lane EXCEPT ![l] = r]
    BY <1>3 DEF Drop
  <2> HIDE DEF r
  <2> QED BY <1>1, <1>3, <2>2, <2>3, LanePut DEF Thins
<1>4. CASE Connected(l, reg[From(l)][To(l)])
  <2>1. reg[From(l)][To(l)] \in Nat
    BY LaneEnds DEF Types, RegTypes
  <2> QED BY <1>1, <1>4, <2>1, ConnectedMoves
<1>5. CASE lane' = [lane EXCEPT ![l].pc = "waiting"] /\ UNCHANGED health
  <2> DEFINE r == [lane[l] EXCEPT !.pc = "waiting"]
  <2>1. r \in LaneType /\ Good(l, r) /\ r.queue = lane[l].queue
    BY <1>0, <1>1 DEF LaneType, Good
  <2>2. lane' = [lane EXCEPT ![l] = r]
    BY <1>5
  <2> HIDE DEF r
  <2> QED BY <1>1, <1>5, <2>1, <2>2, LanePut DEF Thins
<1>6. CASE /\ lane' = [lane EXCEPT ![l].pc = "calling", ![l].target = up[To(l)]]
           /\ up[To(l)] # 0 /\ UNCHANGED health
  <2> DEFINE r == [lane[l] EXCEPT !.pc = "calling", !.target = up[To(l)]]
  <2>1. up[To(l)] \in Nat
    BY LaneEnds DEF Types, NetTypes
  <2>2. r \in LaneType /\ Good(l, r) /\ r.queue = lane[l].queue
    BY <1>0, <1>1, <1>6, <2>1 DEF LaneType, Good
  <2>3. lane' = [lane EXCEPT ![l] = r]
    BY <1>6
  <2> HIDE DEF r
  <2> QED BY <1>1, <1>6, <2>2, <2>3, LanePut DEF Thins
<1>7. CASE Failed(l)
  BY <1>1, <1>7, FailedMoves
<1> QED BY <1>2, <1>3, <1>4, <1>5, <1>6, <1>7

LEMMA ArriveMoves ==
  ASSUME Types, LanesGood, NEW l \in Lanes, Arrive(l)
  PROVE  Moves(l) /\ Thins(l) /\ PairTypes'
<1>0. lane[l] \in LaneType /\ Good(l, lane[l])
  BY LaneIs
<1>1. lane[l].pc = "calling" /\ Len(pairs) < MaxConns /\ UNCHANGED up
  BY DEF Arrive
<1>2. lane[l].queue # <<>> /\ lane[l].target # 0 /\ up[From(l)] # 0
  BY <1>0, <1>1 DEF Good
<1>3. CASE /\ up[To(l)] = lane[l].target
           /\ pairs' = NewPair(From(l), To(l), up[To(l)])
           /\ lane' = [lane EXCEPT ![l].pc = "greeting", ![l].conn = Len(pairs')]
           /\ UNCHANGED health
  <2> DEFINE r == [lane[l] EXCEPT !.pc = "greeting", !.conn = Len(pairs')]
             x == Pair(From(l), To(l), up[To(l)])
  <2>1. x \in PairType
    <3>1. up[From(l)] \in Nat \ {0} /\ up[To(l)] \in Nat \ {0}
      BY <1>2, <1>3, LaneEnds DEF Types, NetTypes
    <3> QED BY <3>1, LaneEnds DEF Pair, PairType
  <2>2. pairs' = Append(pairs, x)
    BY <1>3 DEF NewPair
  <2> HIDE DEF x
  <2>3. PairTypes' /\ Len(pairs') \in Nat
    <3>1. pairs \in Seq(PairType) /\ Len(pairs) \in Nat
      BY LenProperties DEF Types, NetTypes, PairTypes
    <3>2. Append(pairs, x) \in Seq(PairType) /\ Len(Append(pairs, x)) = Len(pairs) + 1
      BY <2>1, <3>1, AppendProperties
    <3> QED BY <1>1, <2>2, <3>1, <3>2, FabricAssumption DEF PairTypes
  <2>4. r \in LaneType /\ Good(l, r) /\ r.queue = lane[l].queue
    BY <1>0, <1>1, <1>2, <2>3 DEF LaneType, Good
  <2>5. lane' = [lane EXCEPT ![l] = r]
    BY <1>3
  <2> HIDE DEF r
  <2> QED BY <1>1, <1>3, <2>3, <2>4, <2>5, LanePut DEF Thins
<1>4. CASE Failed(l) /\ UNCHANGED pairs
  <2>1. PairTypes'
    BY <1>4 DEF Types, NetTypes, PairTypes
  <2> QED BY <1>1, <1>2, <1>4, <2>1, FailedMoves
<1> QED BY <1>3, <1>4 DEF Arrive

LEMMA RegisterTypes ==
  ASSUME Types, NEW n \in Nodes, NEW p \in Nodes \ {n}, NEW c \in Nat, Register(n, p, c)
  PROVE  RegTypes'
<1>1. DOMAIN reg = Nodes /\ reg[n] \in [Nodes \ {n} -> Nat]
  BY DEF Types, RegTypes
<1>2. CASE UNCHANGED <<reg, receiving>>
  BY <1>2 DEF Types, RegTypes
<1>3. CASE /\ reg' = [reg EXCEPT ![n][p] = c]
           /\ receiving' = [receiving EXCEPT ![n] = @ \cup {c}]
  <2>1. [reg[n] EXCEPT ![p] = c] \in [Nodes \ {n} -> Nat]
    BY <1>1
  <2>2. /\ DOMAIN reg' = Nodes /\ reg'[n] = [reg[n] EXCEPT ![p] = c]
        /\ \A m \in Nodes \ {n} : reg'[m] = reg[m]
    BY <1>1, <1>3
  <2>3. receiving' \in [Nodes -> SUBSET Nat]
    BY <1>3 DEF Types, RegTypes
  <2>4. ASSUME NEW m \in Nodes PROVE reg'[m] \in [Nodes \ {m} -> Nat]
    BY <2>1, <2>2 DEF Types, RegTypes
  <2> QED BY <2>2, <2>3, <2>4 DEF RegTypes
<1> QED BY <1>2, <1>3 DEF Register

LEMMA UnregisterTypes ==
  ASSUME Types, NEW n \in Nodes, NEW p \in Nodes \ {n}, NEW c, Unregister(n, p, c),
         receiving' \in [Nodes -> SUBSET Nat]
  PROVE  RegTypes'
<1>1. DOMAIN reg = Nodes /\ reg[n] \in [Nodes \ {n} -> Nat]
  BY DEF Types, RegTypes
<1>2. CASE UNCHANGED reg
  BY <1>2 DEF Types, RegTypes
<1>3. CASE reg' = [reg EXCEPT ![n][p] = 0]
  <2>1. [reg[n] EXCEPT ![p] = 0] \in [Nodes \ {n} -> Nat]
    BY <1>1
  <2>2. /\ DOMAIN reg' = Nodes /\ reg'[n] = [reg[n] EXCEPT ![p] = 0]
        /\ \A m \in Nodes \ {n} : reg'[m] = reg[m]
    BY <1>1, <1>3
  <2>4. ASSUME NEW m \in Nodes PROVE reg'[m] \in [Nodes \ {m} -> Nat]
    BY <2>1, <2>2 DEF Types, RegTypes
  <2> QED BY <2>2, <2>4 DEF RegTypes
<1> QED BY <1>2, <1>3 DEF Unregister

LEMMA CloseTypes ==
  ASSUME Types, NEW C, pairs' = Close(C)
  PROVE  PairTypes'
<1>1. PairTypes
  BY DEF Types, NetTypes
<1> QED BY <1>1, CloseType DEF PairTypes

\* A connection with another hello or accept.
LEMMA PairPut ==
  ASSUME PairTypes, NEW q, q \in Seq(PairType), Len(q) = Len(pairs), NEW c \in DOMAIN pairs,
         NEW h \in {"there", "back", "lost"}, NEW a \in {"queued", "replied", "done"},
         pairs' = [q EXCEPT ![c].hello = h, ![c].accept = a]
  PROVE  /\ PairTypes' /\ DOMAIN pairs' = DOMAIN pairs
         /\ \A d \in DOMAIN pairs : d # c => pairs'[d] = q[d]
         /\ pairs'[c] = [q[c] EXCEPT !.hello = h, !.accept = a]
<1>1. /\ DOMAIN pairs = 1..Len(pairs) /\ DOMAIN q = DOMAIN pairs /\ Len(q) \in Nat
      /\ q[c] \in PairType
  BY LenProperties, ElementOfSeq DEF PairTypes
<1> DEFINE r == [q[c] EXCEPT !.hello = h, !.accept = a]
<1>2. r \in PairType
  BY <1>1 DEF PairType
<1>3. pairs' = [q EXCEPT ![c] = r]
  OBVIOUS
<1> HIDE DEF r
<1>4. pairs' \in Seq(PairType) /\ Len(pairs') = Len(q)
  <2>1. c \in 1..Len(q)
    BY <1>1
  <2>2. [q EXCEPT ![c] = r] \in Seq(PairType) /\ Len([q EXCEPT ![c] = r]) = Len(q)
    BY <1>2, <2>1, ExceptSeq
  <2> QED BY <1>3, <2>2
<1>5. /\ DOMAIN pairs' = DOMAIN pairs
      /\ \A d \in DOMAIN pairs : d # c => pairs'[d] = q[d]
      /\ pairs'[c] = r
  BY <1>1, <1>3
<1> QED BY <1>4, <1>5 DEF PairTypes, r

LEMMA DialRegisterMoves ==
  ASSUME Types, LanesGood, NEW l \in Lanes, DialRegister(l)
  PROVE  Moves(l) /\ Thins(l) /\ PairTypes' /\ RegTypes'
<1>0. lane[l] \in LaneType /\ Good(l, lane[l])
  BY LaneIs
<1>1. /\ lane[l].pc = "greeting" /\ UNCHANGED up
      /\ Register(From(l), To(l), lane[l].conn)
      /\ pairs' = AfterRegister(From(l), To(l), lane[l].conn)
  BY DEF DialRegister
<1>2. lane[l].queue # <<>> /\ lane[l].conn \in Nat
  BY <1>0, <1>1 DEF Good, LaneType
<1>3. RegTypes'
  BY <1>1, <1>2, RegisterTypes, LaneEnds
<1>4. PairTypes'
  BY <1>1, CloseTypes DEF AfterRegister
<1>5. \E c \in Nat : Connected(l, c) \/ Failed(l)
  <2>1. reg[From(l)][To(l)] \in Nat
    BY LaneEnds DEF Types, RegTypes
  <2> QED BY <1>2, <2>1 DEF DialRegister
<1> QED BY <1>1, <1>2, <1>3, <1>4, <1>5, ConnectedMoves, FailedMoves

LEMMA DialFailsMoves ==
  ASSUME Types, LanesGood, NEW l \in Lanes, DialFails(l)
  PROVE  Moves(l) /\ Thins(l) /\ PairTypes' /\ faults' \in Nat
<1>0. lane[l] \in LaneType /\ Good(l, lane[l])
  BY LaneIs
<1>1. /\ lane[l].pc \in {"greeting", "calling"} /\ UNCHANGED up
      /\ pairs' = Close({lane[l].conn}) /\ Failed(l)
      /\ UNCHANGED faults \/ Fault
  BY DEF DialFails
<1>2. lane[l].queue # <<>>
  BY <1>0, <1>1 DEF Good
<1>3. PairTypes'
  BY <1>1, CloseTypes
<1>4. faults' \in Nat
  BY <1>1 DEF Types, ToldTypes, Fault
<1> QED BY <1>1, <1>2, <1>3, <1>4, FailedMoves

LEMMA ReportMoves ==
  ASSUME Types, LanesGood, NEW l \in Lanes, Report(l)
  PROVE  Moves(l) /\ Thins(l) /\ ToldTypes'
<1>0. lane[l] \in LaneType /\ Good(l, lane[l])
  BY LaneIs
<1>1. UNCHANGED <<up, health, faults>>
  BY DEF Report, fabricVars
<1>2. \E pc \in {"send", "idle"} : lane' = [lane EXCEPT ![l].pc = pc]
       /\ (pc = "send" => lane[l].pc = "reachable") /\ (pc = "idle" => lane[l].pc = "unreachable")
  BY DEF Report
<1>3. PICK pc \in {"send", "idle"} : lane' = [lane EXCEPT ![l].pc = pc]
       /\ (pc = "send" => lane[l].pc = "reachable") /\ (pc = "idle" => lane[l].pc = "unreachable")
  BY <1>2
<1> DEFINE r == [lane[l] EXCEPT !.pc = pc]
<1>4. r \in LaneType /\ Good(l, r) /\ r.queue = lane[l].queue
  BY <1>0, <1>3 DEF LaneType, Good
<1>5. lane' = [lane EXCEPT ![l] = r]
  BY <1>3
<1> HIDE DEF r
<1>6. ToldTypes'
  <2>1. \E w \in {"Unreachable", "Reachable"} : told' = [told EXCEPT ![From(l)][To(l)] = w]
    BY DEF Report
  <2>2. PICK w \in {"Unreachable", "Reachable"} : told' = [told EXCEPT ![From(l)][To(l)] = w]
    BY <2>1
  <2>3. told[From(l)] \in [Nodes \ {From(l)} -> {"nothing", "Unreachable", "Reachable"}]
    BY LaneEnds DEF Types, ToldTypes
  <2>4. [told[From(l)] EXCEPT ![To(l)] = w]
           \in [Nodes \ {From(l)} -> {"nothing", "Unreachable", "Reachable"}]
    BY <2>3
  <2>5. /\ DOMAIN told' = Nodes
        /\ told'[From(l)] = [told[From(l)] EXCEPT ![To(l)] = w]
        /\ \A m \in Nodes : m # From(l) => told'[m] = told[m]
    BY <2>2, LaneEnds DEF Types, ToldTypes
  <2>6. ASSUME NEW m \in Nodes
        PROVE  told'[m] \in [Nodes \ {m} -> {"nothing", "Unreachable", "Reachable"}]
    BY <2>4, <2>5 DEF Types, ToldTypes
  <2>7. faults' \in Nat
    BY <1>1 DEF Types, ToldTypes
  <2> QED BY <2>5, <2>6, <2>7 DEF ToldTypes
<1> QED BY <1>1, <1>4, <1>5, <1>6, LanePut DEF Thins

\* What is written on a connection, if it is one and open.
Writes(c, l) == flow' = [flow EXCEPT ![c][l] = Append(@, Head(lane[l].queue))]

LEMMA SendMoves ==
  ASSUME Types, LanesGood, NEW l \in Lanes, Send(l)
  PROVE  /\ Moves(l) /\ RegTypes' /\ lane'[l].pc = "idle"
         /\ lane[l].queue # <<>> /\ lane'[l].queue = Tail(lane[l].queue)
         /\ UNCHANGED flow \/ \E c : Writes(c, l)
<1>0. lane[l] \in LaneType /\ Good(l, lane[l])
  BY LaneIs
<1>1. lane[l].pc = "send" /\ UNCHANGED <<up, health>>
  BY DEF Send
<1>2. lane[l].queue # <<>>
  BY <1>0, <1>1 DEF Good
<1>3. PICK x \in {lane[l].conn, lane[l].stream, 0} : lane' = [Drop(l) EXCEPT ![l].stream = x]
  BY DEF Send
<1> DEFINE r == [lane[l] EXCEPT !.pc = "idle", !.queue = Tail(@), !.conn = 0, !.target = 0,
                                !.stream = x]
<1>4. r \in LaneType /\ Good(l, r) /\ r.pc = "idle" /\ r.queue = Tail(lane[l].queue)
  <2>1. Tail(lane[l].queue) \in Seq(Nat) /\ x \in Nat
    BY <1>0, <1>2, HeadTailProperties DEF LaneType
  <2> QED BY <1>0, <1>1, <2>1 DEF LaneType, Good
<1>5. lane' = [lane EXCEPT ![l] = r]
  <2>1. /\ Drop(l)[l] = [lane[l] EXCEPT !.pc = "idle", !.queue = Tail(@), !.conn = 0, !.target = 0]
        /\ Drop(l) = [lane EXCEPT ![l] = Drop(l)[l]]
    BY DEF Drop, Types, LaneTypes
  <2>2. lane' = [Drop(l) EXCEPT ![l] = [Drop(l)[l] EXCEPT !.stream = x]]
    BY <1>3
  <2>3. [Drop(l)[l] EXCEPT !.stream = x] = r
    BY <1>0, <2>1 DEF LaneType
  <2> QED BY <2>1, <2>2, <2>3
<1> HIDE DEF r
<1>6. Moves(l) /\ lane'[l] = r
  BY <1>1, <1>4, <1>5, LanePut
<1>7. RegTypes'
  <2>1. receiving' \in [Nodes -> SUBSET Nat]
    BY DEF Types, RegTypes, Send
  <2>2. CASE UNCHANGED <<reg, reports>>
    BY <2>1, <2>2 DEF Types, RegTypes
  <2>3. CASE Unregister(From(l), To(l), lane[l].conn)
    BY <2>1, <2>3, LaneEnds, UnregisterTypes
  <2> QED BY <2>2, <2>3 DEF Send
<1>8. UNCHANGED flow \/ \E c : Writes(c, l)
  <2>1. UNCHANGED flow \/ \E c : Write(c, l, Head(lane[l].queue))
    BY DEF Send
  <2>2. ASSUME NEW c, Write(c, l, Head(lane[l].queue)) PROVE UNCHANGED flow \/ Writes(c, l)
    <3>1. CASE Open(c)
      BY <2>2, <3>1 DEF Write, Writes
    <3>2. CASE ~Open(c)
      BY <2>2, <3>2 DEF Write, Types, NetTypes
    <3> QED BY <3>1, <3>2
  <2> QED BY <2>1, <2>2
<1> QED BY <1>2, <1>4, <1>6, <1>7, <1>8

\* A flow that grows, if it is one.
LEMMA FlowTypes ==
  ASSUME Types, NEW c, NEW l \in Lanes, NEW m \in Nat,
         flow' = [flow EXCEPT ![c][l] = Append(@, m)]
  PROVE  flow' \in [Conns -> [Lanes -> Seq(Nat)]]
<1>1. flow \in [Conns -> [Lanes -> Seq(Nat)]]
  BY DEF Types, NetTypes
<1>2. CASE c \in Conns
  <2>1. Append(flow[c][l], m) \in Seq(Nat)
    BY <1>1, <1>2
  <2> QED BY <1>1, <1>2, <2>1
<1>3. CASE c \notin Conns
  BY <1>1, <1>3
<1> QED BY <1>2, <1>3

LEMMA FinishMoves ==
  ASSUME Types, LanesGood, NEW l \in Lanes, Finish(l)
  PROVE  Moves(l) /\ Thins(l) /\ lane'[l] = LaneOff /\ MayEnd(l)
<1>1. lane' = [lane EXCEPT ![l] = LaneOff] /\ MayEnd(l) /\ UNCHANGED <<up, health>>
  BY DEF Finish, fabricVars
<1>2. Good(l, LaneOff) /\ LaneOff.queue = <<>>
  BY DEF Good, LaneOff
<1> QED BY <1>1, <1>2, LaneOffType, LanePut DEF Thins

\* How a lane takes a message: it queues it, ends just then, or is started.
Queues(l, r, m) ==
  \/ r = [lane[l] EXCEPT !.queue = Append(@, m)]
  \/ r = LaneOff /\ MayEnd(l)
  \/ /\ lane[l].pc = "off"
     /\ r = [LaneOff EXCEPT !.pc = "idle", !.open = TRUE, !.queue = <<m>>,
                            !.health = Len(health[From(l)][To(l)])]

LEMMA EnqueueMoves ==
  ASSUME Types, LanesGood, NEW l \in Lanes, Enqueue(l)
  PROVE  /\ Moves(l) /\ MsgTypes' /\ Queues(l, lane'[l], left[Key(l)])
         /\ left[Key(l)] \in Nat \ {0}
         /\ left' = [left EXCEPT ![Key(l)] = left[Key(l)] - 1]
         /\ UNCHANGED <<fabricVars, reg, receiving, health, got, reports, told, stopping, faults>>
<1> DEFINE m == left[Key(l)]
           started == [LaneOff EXCEPT !.pc = "idle", !.open = TRUE, !.queue = <<m>>,
                                      !.health = Len(health[From(l)][To(l)])]
<1>0. /\ lane[l] \in LaneType /\ Good(l, lane[l]) /\ m \in Nat
      /\ Len(health[From(l)][To(l)]) \in Nat /\ Len(health[From(l)][To(l)]) >= 1
  BY LaneIs
<1>1. /\ UNCHANGED <<fabricVars, reg, receiving, health, got, reports, told, stopping, faults>>
      /\ m > 0 /\ left' = [left EXCEPT ![Key(l)] = m - 1]
      /\ up[From(l)] # 0
  BY Zenon DEF Enqueue
<1>2. \/ lane' = [lane EXCEPT ![l].queue = Append(@, m)]
      \/ lane' = [lane EXCEPT ![l] = LaneOff] /\ MayEnd(l)
      \/ lane' = [lane EXCEPT ![l] = started] /\ lane[l].pc = "off"
  BY Zenon DEF Enqueue
<1>3. MsgTypes'
  <2>1. m - 1 \in Nat
    BY <1>0, <1>1
  <2> QED BY <1>1, <2>1 DEF Types, MsgTypes
<1>4. UNCHANGED <<up, health>>
  BY <1>1 DEF fabricVars
<1>5. CASE lane' = [lane EXCEPT ![l].queue = Append(@, m)]
  <2> DEFINE r == [lane[l] EXCEPT !.queue = Append(@, m)]
  <2>1. Append(lane[l].queue, m) \in Seq(Nat) /\ Append(lane[l].queue, m) # <<>>
    BY <1>0, AppendProperties DEF LaneType
  <2>2. r \in LaneType /\ Good(l, r)
    BY <1>0, <2>1 DEF LaneType, Good
  <2>3. lane' = [lane EXCEPT ![l] = r]
    BY <1>5
  <2>4. Moves(l) /\ lane'[l] = r
    <3> HIDE DEF r
    <3> QED BY <1>4, <2>2, <2>3, LanePut
  <2> QED BY <1>0, <1>1, <1>3, <2>4 DEF Queues
<1>6. CASE lane' = [lane EXCEPT ![l] = LaneOff] /\ MayEnd(l)
  <2>1. Good(l, LaneOff)
    BY DEF Good, LaneOff
  <2>2. Moves(l) /\ lane'[l] = LaneOff
    BY <1>4, <1>6, <2>1, LaneOffType, LanePut
  <2> QED BY <1>0, <1>1, <1>3, <1>6, <2>2 DEF Queues
<1>7. CASE lane' = [lane EXCEPT ![l] = started] /\ lane[l].pc = "off"
  <2>1. <<m>> \in Seq(Nat)
    BY <1>0
  <2>4. /\ started \in LaneType /\ started.pc = "idle" /\ started.conn = 0
        /\ started.health = Len(health[From(l)][To(l)])
    BY <1>0, <2>1 DEF LaneOff, LaneType
  <2>2. started \in LaneType /\ Good(l, started)
    <3> HIDE DEF started
    <3> QED BY <1>0, <1>1, <2>4 DEF Good
  <2>3. Moves(l) /\ lane'[l] = started
    <3> HIDE DEF started
    <3> QED BY <1>4, <1>7, <2>2, LanePut
  <2> QED BY <1>0, <1>1, <1>3, <1>7, <2>3 DEF Queues
<1> QED BY <1>2, <1>5, <1>6, <1>7

-----------------------------------------------------------------------------
(* The steps of connections and of nodes.                                  *)

LEMMA PairNodes ==
  ASSUME Types, NEW c \in DOMAIN pairs
  PROVE  /\ pairs[c] \in PairType /\ c \in Conns /\ c \in Nat /\ c # 0
         /\ DOMAIN pairs = 1..Len(pairs) /\ Len(pairs) \in Nat
<1>1. pairs \in Seq(PairType) /\ DOMAIN pairs = 1..Len(pairs) /\ Len(pairs) \in Nat
      /\ Len(pairs) <= MaxConns
  BY LenProperties DEF Types, NetTypes, PairTypes
<1> QED BY <1>1, ElementOfSeq, FabricAssumption DEF Conns

LEMMA ConnTypes ==
  ASSUME Types, NEW c \in DOMAIN pairs,
         ConnStep(c) \/ (LoseHello(c) /\ UNCHANGED linkVars)
  PROVE  /\ PairTypes' /\ RegTypes' /\ faults' \in Nat
         /\ UNCHANGED <<up, born, parted, flow, lane, health, left, got, told, stopping>>
<1>0. pairs[c] \in PairType /\ c \in Nat
  BY PairNodes
<1>1. PairTypes /\ pairs \in Seq(PairType) /\ faults \in Nat
  BY DEF Types, NetTypes, PairTypes, ToldTypes
<1>2. ASSUME UNCHANGED <<reg, receiving>> PROVE RegTypes'
  BY <1>2 DEF Types, RegTypes
<1>3. CASE Accept(c)
  <2>1. pairs' = [pairs EXCEPT ![c].hello = "back", ![c].accept = "replied"]
    BY <1>3 DEF Accept
  <2>2. PairTypes'
    BY <1>1, <2>1, PairPut
  <2> QED BY <1>1, <1>2, <1>3, <2>2 DEF Accept, linkVars
<1>4. CASE AcceptRegister(c)
  <2> DEFINE n == pairs[c].to  p == pairs[c].from
  <2>1. n \in Nodes /\ p \in Nodes \ {n}
    BY <1>0 DEF PairType
  <2>2. Register(n, p, c) /\ pairs' = [AfterRegister(n, p, c) EXCEPT ![c].accept = "done"]
    BY <1>4 DEF AcceptRegister
  <2>3. RegTypes'
    BY <1>0, <2>1, <2>2, RegisterTypes
  <2>4. PairTypes'
    <3> DEFINE q == AfterRegister(n, p, c)
    <3>1. /\ q \in Seq(PairType) /\ Len(q) = Len(pairs) /\ DOMAIN q = DOMAIN pairs
          /\ q[c] \in PairType
      BY <1>1, CloseType DEF AfterRegister
    <3>2. pairs' = [q EXCEPT ![c].accept = "done"]
      BY <2>2
    <3> HIDE DEF q
    <3>3. pairs' = [q EXCEPT ![c].hello = q[c].hello, ![c].accept = "done"]
      <4>1. [q[c] EXCEPT !.accept = "done"] = [q[c] EXCEPT !.hello = q[c].hello, !.accept = "done"]
        BY <3>1 DEF PairType
      <4> QED BY <3>1, <3>2, <4>1
    <3>4. q[c].hello \in {"there", "back", "lost"}
      BY <3>1 DEF PairType
    <3> QED BY <1>1, <3>1, <3>3, <3>4, PairPut
  <2> QED BY <1>1, <1>4, <2>3, <2>4 DEF AcceptRegister
<1>5. CASE AcceptFails(c)
  <2>1. UNCHANGED faults \/ Fault
    BY <1>5 DEF AcceptFails
  <2>2. faults' \in Nat
    BY <1>1, <2>1 DEF Fault
  <2>4. PairTypes'
    <3> DEFINE q == Close({c})
    <3>1. /\ q \in Seq(PairType) /\ Len(q) = Len(pairs) /\ DOMAIN q = DOMAIN pairs
          /\ q[c] \in PairType
      BY <1>1, CloseType
    <3>2. pairs' = [q EXCEPT ![c].accept = "done"]
      BY <1>5 DEF AcceptFails
    <3> HIDE DEF q
    <3>3. pairs' = [q EXCEPT ![c].hello = q[c].hello, ![c].accept = "done"]
      <4>1. [q[c] EXCEPT !.accept = "done"] = [q[c] EXCEPT !.hello = q[c].hello, !.accept = "done"]
        BY <3>1 DEF PairType
      <4> QED BY <3>1, <3>2, <4>1
    <3>4. q[c].hello \in {"there", "back", "lost"}
      BY <3>1 DEF PairType
    <3> QED BY <1>1, <3>1, <3>3, <3>4, PairPut
  <2> QED BY <1>2, <1>5, <2>2, <2>4 DEF AcceptFails
<1>6. CASE \E n \in Nodes : ReceiveEnds(n, c)
  <2> PICK n \in Nodes : ReceiveEnds(n, c)
    BY <1>6
  <2>1. receiving' \in [Nodes -> SUBSET Nat]
    BY DEF ReceiveEnds, Types, RegTypes
  <2>2. UNCHANGED pairs
    BY DEF ReceiveEnds, fabricVars
  <2>3. RegTypes'
    <3>1. CASE Other(c, n) \in Nodes \ {n}
      BY <2>1, <3>1, UnregisterTypes DEF ReceiveEnds
    <3>2. CASE Other(c, n) = n
      <4>1. FALSE
        BY <1>0, <3>2 DEF Other, PairType
      <4> QED BY <4>1
    <3>3. Other(c, n) \in Nodes
      BY <1>0 DEF Other, PairType
    <3> QED BY <3>1, <3>2, <3>3
  <2>4. PairTypes'
    BY <1>1, <2>2 DEF PairTypes
  <2> QED BY <1>1, <2>3, <2>4 DEF ReceiveEnds, fabricVars
<1>7. CASE LoseHello(c) /\ UNCHANGED linkVars
  <2>1. pairs' = [pairs EXCEPT ![c].hello = "lost"]
    BY <1>7 DEF LoseHello
  <2>2. pairs' = [pairs EXCEPT ![c].hello = "lost", ![c].accept = pairs[c].accept]
    <3>1. [pairs[c] EXCEPT !.hello = "lost"] =
            [pairs[c] EXCEPT !.hello = "lost", !.accept = pairs[c].accept]
      BY <1>0 DEF PairType
    <3> QED BY <2>1, <3>1
  <2>3. pairs[c].accept \in {"queued", "replied", "done"}
    BY <1>0 DEF PairType
  <2>4. PairTypes'
    BY <1>1, <2>2, <2>3, PairPut
  <2> QED BY <1>1, <1>2, <1>7, <2>4 DEF LoseHello, linkVars
<1> QED BY <1>3, <1>4, <1>5, <1>6, <1>7 DEF ConnStep

\* A node's tasks are gone with it.
LEMMA AbortedTypes ==
  ASSUME Types, LanesGood, NEW n \in Nodes, Aborted(n), up' = [up EXCEPT ![n] = 0]
  PROVE  /\ RegTypes' /\ LaneTypes' /\ HealthTypes' /\ LanesGood'
         /\ DOMAIN told' = Nodes
         /\ \A m \in Nodes : told'[m] \in [Nodes \ {m} -> {"nothing", "Unreachable", "Reachable"}]
         /\ \A l \in Lanes : lane'[l] = IF From(l) = n THEN LaneOff ELSE lane[l]
         /\ \A m \in Nodes : m # n => /\ health'[m] = health[m] /\ told'[m] = told[m]
                                      /\ reg'[m] = reg[m] /\ receiving'[m] = receiving[m]
         /\ \A p \in Nodes \ {n} : /\ health'[n][p] = <<Healthy>> /\ told'[n][p] = "nothing"
                                   /\ reg'[n][p] = 0
         /\ receiving'[n] = {}
<1>1. \A l \in Lanes : lane'[l] = IF From(l) = n THEN LaneOff ELSE lane[l]
  BY DEF Aborted
<1>2. LaneTypes'
  <2>1. lane' \in [Lanes -> LaneType]
    BY LaneOffType DEF Aborted, Types, LaneTypes
  <2> QED BY <2>1 DEF LaneTypes
<1>3. /\ DOMAIN reg' = Nodes /\ DOMAIN health' = Nodes /\ DOMAIN told' = Nodes
      /\ reg'[n] = [p \in Nodes \ {n} |-> 0]
      /\ health'[n] = [p \in Nodes \ {n} |-> <<Healthy>>]
      /\ told'[n] = [p \in Nodes \ {n} |-> "nothing"]
      /\ \A m \in Nodes : m # n =>
           reg'[m] = reg[m] /\ health'[m] = health[m] /\ told'[m] = told[m]
  BY DEF Aborted, Types, RegTypes, HealthTypes, ToldTypes
<1>4. receiving' \in [Nodes -> SUBSET Nat] /\ receiving'[n] = {}
      /\ \A m \in Nodes : m # n => receiving'[m] = receiving[m]
  BY DEF Aborted, Types, RegTypes
<1>5. RegTypes'
  <2>1. ASSUME NEW m \in Nodes PROVE reg'[m] \in [Nodes \ {m} -> Nat]
    <3>1. CASE m = n
      BY <1>3, <3>1
    <3>2. CASE m # n
      BY <1>3, <3>2 DEF Types, RegTypes
    <3> QED BY <3>1, <3>2
  <2> QED BY <1>3, <1>4, <2>1 DEF RegTypes
<1>6. <<Healthy>> \in Seq(HealthType) /\ Len(<<Healthy>>) = 1
  BY DEF Healthy, HealthType
<1>7. HealthTypes'
  <2>1. ASSUME NEW m \in Nodes
        PROVE  /\ health'[m] \in [Nodes \ {m} -> Seq(HealthType)]
               /\ \A p \in Nodes \ {m} : Len(health'[m][p]) >= 1
    <3>1. CASE m = n
      <4>1. health'[m] = [p \in Nodes \ {m} |-> <<Healthy>>]
        BY <1>3, <3>1
      <4>2. health'[m] \in [Nodes \ {m} -> Seq(HealthType)]
        BY <1>6, <4>1
      <4>3. \A p \in Nodes \ {m} : Len(health'[m][p]) >= 1
        BY <1>6, <4>1
      <4> QED BY <4>2, <4>3
    <3>2. CASE m # n
      BY <1>3, <3>2 DEF Types, HealthTypes
    <3> QED BY <3>1, <3>2
  <2> QED BY <1>3, <2>1 DEF HealthTypes
<1>8. ASSUME NEW m \in Nodes
      PROVE  told'[m] \in [Nodes \ {m} -> {"nothing", "Unreachable", "Reachable"}]
  BY <1>3 DEF Types, ToldTypes
<1>9. LanesGood'
  <2> SUFFICES ASSUME NEW l \in Lanes PROVE Good(l, lane[l])'
    BY DEF LanesGood
  <2>1. CASE From(l) = n
    BY <1>1, <2>1 DEF Good, LaneOff
  <2>2. CASE From(l) # n
    <3>1. /\ lane'[l] = lane[l] /\ health'[From(l)] = health[From(l)]
          /\ up'[From(l)] = up[From(l)]
      BY <1>1, <1>3, <2>2, LaneEnds DEF Types, NetTypes
    <3>2. Good(l, lane[l])
      BY DEF LanesGood
    <3> QED BY <3>1, <3>2, GoodStays
  <2> QED BY <2>1, <2>2
<1>10. \A m \in Nodes : m # n => /\ health'[m] = health[m] /\ told'[m] = told[m]
                                  /\ reg'[m] = reg[m] /\ receiving'[m] = receiving[m]
  BY <1>3, <1>4
<1>11. \A p \in Nodes \ {n} : /\ health'[n][p] = <<Healthy>> /\ told'[n][p] = "nothing"
                              /\ reg'[n][p] = 0
  BY <1>3
<1> QED BY <1>1, <1>2, <1>3, <1>4, <1>5, <1>7, <1>8, <1>9, <1>10, <1>11

\* Lanes that are closed, and nothing that they need is changed.
LEMMA CloseLanesTypes ==
  ASSUME Types, LanesGood, NEW L, lane' = CloseLanes(L), UNCHANGED up,
         \A m \in Nodes : \A q \in Nodes \ {m} :
           /\ Len(health'[m][q]) \in Nat /\ Len(health'[m][q]) >= Len(health[m][q])
  PROVE  /\ LaneTypes' /\ LanesGood'
         /\ \A l \in Lanes : lane'[l] = IF l \in L THEN [lane[l] EXCEPT !.open = FALSE] ELSE lane[l]
<1>1. \A l \in Lanes : lane'[l] = IF l \in L THEN [lane[l] EXCEPT !.open = FALSE] ELSE lane[l]
  BY DEF CloseLanes
<1>2. \A l \in Lanes : lane[l] \in LaneType /\ [lane[l] EXCEPT !.open = FALSE] \in LaneType
  BY DEF Types, LaneTypes, LaneType
<1>3. LaneTypes'
  BY <1>1, <1>2 DEF CloseLanes, LaneTypes
<1>4. LanesGood'
  <2> SUFFICES ASSUME NEW l \in Lanes PROVE Good(l, lane[l])'
    BY DEF LanesGood
  <2>1. /\ lane[l] \in LaneType /\ Good(l, lane[l])
        /\ Len(health[From(l)][To(l)]) \in Nat
    BY LaneIs
  <2>2. Len(health'[From(l)][To(l)]) \in Nat
        /\ Len(health'[From(l)][To(l)]) >= Len(health[From(l)][To(l)])
    BY LaneEnds
  <2>3. /\ lane'[l].pc = lane[l].pc /\ lane'[l].queue = lane[l].queue
        /\ lane'[l].conn = lane[l].conn /\ lane'[l].target = lane[l].target
        /\ lane'[l].health = lane[l].health
    BY <1>1, <2>1 DEF LaneType
  <2>4. lane'[l].pc # "off" => lane'[l].health \in 1..Len(health'[From(l)][To(l)])
    BY <2>1, <2>2, <2>3 DEF Good
  <2> QED BY <2>1, <2>3, <2>4 DEF Good
<1> QED BY <1>1, <1>3, <1>4

LEMMA ForgetTypes ==
  ASSUME Types, LanesGood, NEW n \in Nodes, NEW p \in Nodes \ {n}, NEW gen, Forget(n, p, gen)
  PROVE  /\ Types' /\ LanesGood' /\ Len(health'[n][p]) >= 2
         /\ \A l \in Lanes : lane'[l] = IF From(l) = n /\ To(l) = p
                                        THEN [lane[l] EXCEPT !.open = FALSE] ELSE lane[l]
         /\ \A m \in Nodes : \A q \in Nodes \ {m} : m # n \/ q # p => health'[m][q] = health[m][q]
<1> DEFINE L == {l \in Lanes : From(l) = n /\ To(l) = p}
<1>1. /\ lane' = CloseLanes(L) /\ health' = [health EXCEPT ![n][p] = Append(@, Healthy)]
      /\ UNCHANGED <<up, born, flow, receiving, left, got, told>> /\ faults' = faults + 1
      /\ \/ pairs' = Close({reg[n][p]}) /\ reg' = [reg EXCEPT ![n][p] = 0]
         \/ UNCHANGED <<pairs, reg>>
  BY DEF Forget, Fault
<1>2. /\ health[n] \in [Nodes \ {n} -> Seq(HealthType)] /\ health[n][p] \in Seq(HealthType)
      /\ Len(health[n][p]) >= 1 /\ Len(health[n][p]) \in Nat
  BY LenProperties DEF Types, HealthTypes
<1> DEFINE h == Append(health[n][p], Healthy)
<1>3. h \in Seq(HealthType) /\ Len(h) = Len(health[n][p]) + 1
  <2>1. Healthy \in HealthType
    BY DEF Healthy, HealthType
  <2> QED BY <1>2, <2>1, AppendProperties
<1>4. /\ DOMAIN health' = Nodes /\ health'[n] = [health[n] EXCEPT ![p] = h]
      /\ \A m \in Nodes : m # n => health'[m] = health[m]
  BY <1>1 DEF Types, HealthTypes
<1> HIDE DEF h
<1>5. /\ health'[n] \in [Nodes \ {n} -> Seq(HealthType)] /\ health'[n][p] = h
      /\ \A q \in Nodes \ {n} : q # p => health'[n][q] = health[n][q]
  BY <1>2, <1>3, <1>4
<1>6. ASSUME NEW m \in Nodes, NEW q \in Nodes \ {m}
      PROVE  /\ Len(health'[m][q]) \in Nat /\ Len(health'[m][q]) >= Len(health[m][q])
             /\ Len(health'[m][q]) >= 1
             /\ m # n \/ q # p => health'[m][q] = health[m][q]
  <2>1. CASE m = n /\ q = p
    BY <1>2, <1>3, <1>5, <2>1
  <2>2. CASE m # n \/ q # p
    <3>1. health'[m][q] = health[m][q]
      BY <1>4, <1>5, <2>2
    <3>2. health[m][q] \in Seq(HealthType) /\ Len(health[m][q]) >= 1
      BY DEF Types, HealthTypes
    <3> QED BY <3>1, <3>2, LenProperties
  <2> QED BY <2>1, <2>2
<1>7. HealthTypes'
  <2>1. ASSUME NEW m \in Nodes PROVE health'[m] \in [Nodes \ {m} -> Seq(HealthType)]
    <3>1. CASE m = n
      BY <1>5, <3>1
    <3>2. CASE m # n
      BY <1>4, <3>2 DEF Types, HealthTypes
    <3> QED BY <3>1, <3>2
  <2> QED BY <1>4, <1>6, <2>1 DEF HealthTypes
<1>8. /\ LaneTypes' /\ LanesGood'
      /\ \A l \in Lanes : lane'[l] = IF l \in L THEN [lane[l] EXCEPT !.open = FALSE] ELSE lane[l]
  <2> HIDE DEF L
  <2> QED BY <1>1, <1>6, CloseLanesTypes
<1>9. PairTypes' /\ RegTypes'
  <2>1. CASE UNCHANGED <<pairs, reg>>
    BY <1>1, <2>1 DEF Types, NetTypes, PairTypes, RegTypes
  <2>2. CASE pairs' = Close({reg[n][p]}) /\ reg' = [reg EXCEPT ![n][p] = 0]
    <3>1. PairTypes'
      BY <2>2, CloseTypes
    <3>2. /\ DOMAIN reg' = Nodes /\ reg'[n] \in [Nodes \ {n} -> Nat]
          /\ \A m \in Nodes : m # n => reg'[m] = reg[m]
      BY <2>2 DEF Types, RegTypes
    <3>3. ASSUME NEW m \in Nodes PROVE reg'[m] \in [Nodes \ {m} -> Nat]
      BY <3>2 DEF Types, RegTypes
    <3> QED BY <1>1, <3>1, <3>2, <3>3 DEF Types, RegTypes
  <2> QED BY <1>1, <2>1, <2>2
<1>10. Types'
  <2>1. NetTypes' /\ MsgTypes'
    BY <1>1, <1>9 DEF Types, NetTypes, MsgTypes
  <2>2. ToldTypes'
    <3>1. faults' \in Nat
      BY <1>1 DEF Types, ToldTypes
    <3> QED BY <1>1, <3>1 DEF Types, ToldTypes
  <2> QED BY <1>7, <1>8, <1>9, <2>1, <2>2 DEF Types
<1>11. Len(health'[n][p]) >= 2
  BY <1>2, <1>3, <1>5
<1>12. \A l \in Lanes : lane'[l] = IF From(l) = n /\ To(l) = p
                                 THEN [lane[l] EXCEPT !.open = FALSE] ELSE lane[l]
  BY <1>8
<1>13. \A m \in Nodes : \A q \in Nodes \ {m} : m # n \/ q # p => health'[m][q] = health[m][q]
  BY <1>6
<1> QED BY <1>8, <1>10, <1>11, <1>12, <1>13

LEMMA ShutdownTypes ==
  ASSUME Types, LanesGood, NEW n \in Nodes, Shutdown(n)
  PROVE  Types' /\ LanesGood'
         /\ \A l \in Lanes : lane'[l] = IF From(l) = n THEN [lane[l] EXCEPT !.open = FALSE]
                                        ELSE lane[l]
<1> DEFINE L == {l \in Lanes : From(l) = n}
<1>1. /\ lane' = CloseLanes(L) /\ UNCHANGED <<up, born, pairs, flow, reg, receiving, health, left, got, told>>
      /\ faults' = faults + 1
  BY DEF Shutdown, Fault, fabricVars
<1>2. ASSUME NEW m \in Nodes, NEW q \in Nodes \ {m}
      PROVE  Len(health'[m][q]) \in Nat /\ Len(health'[m][q]) >= Len(health[m][q])
  <2>1. health[m][q] \in Seq(HealthType)
    BY DEF Types, HealthTypes
  <2>2. Len(health[m][q]) \in Nat
    BY <2>1, LenProperties
  <2> QED BY <1>1, <2>2
<1>3. /\ LaneTypes' /\ LanesGood'
      /\ \A l \in Lanes : lane'[l] = IF l \in L THEN [lane[l] EXCEPT !.open = FALSE] ELSE lane[l]
  <2> HIDE DEF L
  <2> QED BY <1>1, <1>2, CloseLanesTypes
<1>4. Types'
  <2>1. NetTypes' /\ RegTypes' /\ MsgTypes'
    BY <1>1 DEF Types, NetTypes, PairTypes, RegTypes, MsgTypes
  <2>2. ToldTypes' /\ HealthTypes'
    <3>1. faults' \in Nat
      BY <1>1 DEF Types, ToldTypes
    <3> QED BY <1>1, <3>1 DEF Types, ToldTypes, HealthTypes
  <2> QED BY <1>3, <2>1, <2>2 DEF Types
<1> QED BY <1>3, <1>4

\* A node that is gone: Crash, or the end of Shutdown.
Goes(n) ==
  /\ DropEndpoint(n) /\ Aborted(n)
  /\ UNCHANGED <<left, got, reports>> /\ ((n \in stopping /\ UNCHANGED faults) \/ Fault)

LEMMA GoesTypes ==
  ASSUME Types, LanesGood, NEW n \in Nodes, Goes(n)
  PROVE  Types' /\ LanesGood'
         /\ \A l \in Lanes : lane'[l] = IF From(l) = n THEN LaneOff ELSE lane[l]
<1>1. /\ up' = [up EXCEPT ![n] = 0] /\ pairs' = Close(Own(n)) /\ Aborted(n)
      /\ UNCHANGED <<born, flow, left, got>> /\ (UNCHANGED faults \/ Fault)
  BY DEF Goes, DropEndpoint
<1>2. /\ RegTypes' /\ LaneTypes' /\ HealthTypes' /\ LanesGood'
      /\ DOMAIN told' = Nodes
      /\ \A m \in Nodes : told'[m] \in [Nodes \ {m} -> {"nothing", "Unreachable", "Reachable"}]
      /\ \A l \in Lanes : lane'[l] = IF From(l) = n THEN LaneOff ELSE lane[l]
  BY <1>1, AbortedTypes
<1>3. PairTypes'
  BY <1>1, CloseTypes
<1>4. NetTypes' /\ MsgTypes'
  BY <1>1, <1>3 DEF Types, NetTypes, MsgTypes
<1>5. ToldTypes'
  <2>1. faults' \in Nat
    BY <1>1 DEF Types, ToldTypes, Fault
  <2> QED BY <1>2, <2>1 DEF ToldTypes
<1> QED BY <1>2, <1>4, <1>5 DEF Types

LEMMA DeliverTypes ==
  ASSUME Types, NEW c \in DOMAIN pairs, NEW l \in Lanes, NEW i, Deliver(c, l, i)
  PROVE  /\ i \in 1..Len(flow[c][l]) /\ flow[c][l] \in Seq(Nat) /\ c \in Conns
         /\ flow' = [flow EXCEPT ![c][l] = SubSeq(@, 1, i - 1) \o SubSeq(@, i + 1, Len(@))]
         /\ got' = [got EXCEPT ![Key(l)] = Append(@, flow[c][l][i])]
         /\ flow' \in [Conns -> [Lanes -> Seq(Nat)]] /\ MsgTypes'
         /\ UNCHANGED <<up, born, parted, pairs, accepted, reg, receiving, lane, health, left,
                        reports, told, stopping, faults>>
<1>1. /\ c \in Conns /\ flow[c][l] \in Seq(Nat) /\ Len(flow[c][l]) \in Nat
      /\ DOMAIN flow[c][l] = 1..Len(flow[c][l])
  <2>1. c \in Conns
    BY PairNodes
  <2>2. flow[c][l] \in Seq(Nat)
    BY <2>1 DEF Types, NetTypes
  <2> QED BY <2>1, <2>2, LenProperties
<1>2. i \in 1..Len(flow[c][l])
  <2>1. i \in Readable(c, l)
    BY DEF Deliver
  <2>2. CASE l \in Ordered
    <3>1. i = 1 /\ flow[c][l] # <<>>
      BY <2>1, <2>2 DEF Readable
    <3>2. Len(flow[c][l]) # 0
      BY <1>1, <3>1, EmptySeq
    <3> QED BY <1>1, <3>1, <3>2
  <2>3. CASE l \notin Ordered
    BY <1>1, <2>1, <2>3 DEF Readable
  <2> QED BY <2>2, <2>3
<1>3. /\ flow' = [flow EXCEPT ![c][l] = SubSeq(@, 1, i - 1) \o SubSeq(@, i + 1, Len(@))]
      /\ got' = [got EXCEPT ![Key(l)] = Append(@, flow[c][l][i])]
      /\ UNCHANGED <<up, born, parted, pairs, accepted, reg, receiving, lane, health, left,
                     reports, told, stopping, faults>>
  BY DEF Deliver
<1>4. flow' \in [Conns -> [Lanes -> Seq(Nat)]]
  <2> DEFINE q == SubSeq(flow[c][l], 1, i - 1) \o SubSeq(flow[c][l], i + 1, Len(flow[c][l]))
  <2>1. q \in Seq(Nat)
    <3>1. /\ SubSeq(flow[c][l], 1, i - 1) \in Seq(Nat)
          /\ SubSeq(flow[c][l], i + 1, Len(flow[c][l])) \in Seq(Nat)
      BY <1>1, <1>2
    <3> QED BY <3>1, ConcatProperties
  <2>2. flow' = [flow EXCEPT ![c][l] = q]
    BY <1>3
  <2> HIDE DEF q
  <2> QED BY <2>1, <2>2 DEF Types, NetTypes
<1>5. MsgTypes'
  <2>1. flow[c][l][i] \in Nat
    BY <1>1, <1>2, ElementOfSeq
  <2>2. Key(l) \in Keys /\ got[Key(l)] \in Seq(Nat)
    BY LaneEnds DEF Types, MsgTypes
  <2>3. Append(got[Key(l)], flow[c][l][i]) \in Seq(Nat)
    BY <2>1, <2>2, AppendProperties
  <2> QED BY <1>3, <2>2, <2>3 DEF Types, MsgTypes
<1> QED BY <1>1, <1>2, <1>3, <1>4, <1>5

\* What the node and the network do besides.
Rests ==
  \/ \E c \in DOMAIN pairs, n \in Nodes, l \in Lanes : AcceptStream(n, c, l)
  \/ \E n \in Nodes : Quiet(Bind(n))
  \/ \E n \in Nodes : \E p \in Nodes \ {n} :
       (\E i \in 1..MaxFaults + 1 : BackoffEnds(n, p, i)) \/ Faulty(Partition(n, p))
  \/ Quiet(Heal)
  \/ UNCHANGED vars

LEMMA RestTypes ==
  ASSUME Types, LanesGood, Rests
  PROVE  /\ Types' /\ LanesGood'
         /\ UNCHANGED <<flow, reg, receiving, lane, left, got, told, stopping>>
<1>0. UNCHANGED <<flow, reg, receiving, lane, left, got, told, stopping>>
  BY DEF Rests, AcceptStream, Quiet, Bind, BackoffEnds, Faulty, Partition, Heal, vars,
         fabricVars, linkVars
<1>1. LaneTypes' /\ RegTypes' /\ MsgTypes'
  BY <1>0 DEF Types, LaneTypes, RegTypes, MsgTypes
<1>2. ASSUME faults' \in Nat PROVE ToldTypes'
  BY <1>0, <1>2 DEF Types, ToldTypes
<1>3. ASSUME UNCHANGED health,
             \A n \in Nodes : up'[n] = up[n] \/ up[n] = 0
      PROVE  HealthTypes' /\ LanesGood'
  <2>1. HealthTypes'
    BY <1>3 DEF Types, HealthTypes
  <2>2. ASSUME NEW l \in Lanes PROVE Good(l, lane[l])'
    <3>1. Good(l, lane[l]) /\ (up'[From(l)] = up[From(l)] \/ up[From(l)] = 0)
      BY <1>3, LaneEnds DEF LanesGood
    <3> QED BY <1>0, <1>3, <3>1 DEF Good
  <2> QED BY <2>1, <2>2 DEF LanesGood
<1>4. ASSUME NEW c \in DOMAIN pairs, NEW n \in Nodes, NEW l \in Lanes, AcceptStream(n, c, l)
      PROVE  Types' /\ LanesGood'
  <2>1. UNCHANGED <<up, born, pairs, flow, health, faults>>
    BY <1>4 DEF AcceptStream, linkVars
  <2>2. NetTypes' /\ faults' \in Nat
    BY <2>1 DEF Types, NetTypes, PairTypes, ToldTypes
  <2> QED BY <1>1, <1>2, <1>3, <2>1, <2>2 DEF Types
<1>5. ASSUME NEW n \in Nodes, Quiet(Bind(n)) PROVE Types' /\ LanesGood'
  <2>1. /\ UNCHANGED <<pairs, flow, health, faults>> /\ up[n] = 0
        /\ born' = [born EXCEPT ![n] = @ + 1] /\ up' = [up EXCEPT ![n] = born'[n]]
    BY <1>5 DEF Quiet, Bind, linkVars
  <2>2. /\ born' \in [Nodes -> Nat] /\ up' \in [Nodes -> Nat]
        /\ \A m \in Nodes : up'[m] = up[m] \/ up[m] = 0
    BY <2>1 DEF Types, NetTypes
  <2>3. NetTypes' /\ faults' \in Nat
    BY <2>1, <2>2 DEF Types, NetTypes, PairTypes, ToldTypes
  <2> QED BY <1>1, <1>2, <1>3, <2>1, <2>2, <2>3 DEF Types
<1>6. ASSUME NEW n \in Nodes, NEW p \in Nodes \ {n}, NEW i, BackoffEnds(n, p, i)
      PROVE  Types' /\ LanesGood'
  <2>1. /\ i \in DOMAIN health[n][p] /\ UNCHANGED <<up, born, pairs, flow, faults>>
        /\ health' = [health EXCEPT ![n][p][i].backing = FALSE]
    BY <1>6 DEF BackoffEnds, fabricVars
  <2>2. health[n][p] \in Seq(HealthType)
    BY DEF Types, HealthTypes
  <2>3. i \in 1..Len(health[n][p])
    BY <2>1, <2>2, LenProperties
  <2>4. health[n][p][i] \in HealthType
    BY <2>2, <2>3, ElementOfSeq
  <2> DEFINE r == [health[n][p][i] EXCEPT !.backing = FALSE]
  <2>5. r \in HealthType
    BY <2>4 DEF HealthType
  <2>6. HealthBecomes(n, p, i, r)
    BY <2>1 DEF HealthBecomes
  <2> HIDE DEF r
  <2>7. HealthTypes' /\ SameLens
    BY <2>3, <2>5, <2>6, HealthPut DEF Types, SameLens
  <2>8. LanesGood'
    <3> SUFFICES ASSUME NEW l \in Lanes PROVE Good(l, lane[l])'
      BY DEF LanesGood
    <3>1. /\ Good(l, lane[l]) /\ lane'[l] = lane[l] /\ up'[From(l)] = up[From(l)]
          /\ Len(health'[From(l)][To(l)]) = Len(health[From(l)][To(l)])
      BY <1>0, <2>1, <2>7, LaneEnds DEF LanesGood, SameLens
    <3> QED BY <3>1, GoodStays
  <2>9. NetTypes' /\ faults' \in Nat
    BY <2>1 DEF Types, NetTypes, PairTypes, ToldTypes
  <2> QED BY <1>1, <1>2, <2>7, <2>8, <2>9 DEF Types
<1>7. ASSUME NEW n \in Nodes, NEW p \in Nodes \ {n}, Faulty(Partition(n, p))
      PROVE  Types' /\ LanesGood'
  <2>1. /\ UNCHANGED <<up, born, flow, health>> /\ faults' = faults + 1
        /\ \E C : pairs' = Close(C)
    BY <1>7 DEF Faulty, Partition, Fault
  <2>2. PairTypes'
    BY <2>1, CloseTypes
  <2>3. NetTypes' /\ faults' \in Nat
    BY <2>1, <2>2 DEF Types, NetTypes, ToldTypes
  <2> QED BY <1>1, <1>2, <1>3, <2>1, <2>3 DEF Types
<1>8. CASE Quiet(Heal) \/ UNCHANGED vars
  <2>1. UNCHANGED <<up, born, pairs, flow, health, faults>>
    BY <1>8 DEF Quiet, Heal, linkVars, vars, fabricVars
  <2>2. NetTypes' /\ faults' \in Nat
    BY <2>1 DEF Types, NetTypes, PairTypes, ToldTypes
  <2> QED BY <1>0, <1>1, <1>2, <1>3, <2>1, <2>2 DEF Types
<1> QED BY <1>0, <1>4, <1>5, <1>6, <1>7, <1>8 DEF Rests

LEMMA LaneStepTypes ==
  ASSUME Types, LanesGood, NEW l \in Lanes, LaneStep(l)
  PROVE  /\ Types' /\ Moves(l) /\ LanesGood' /\ UNCHANGED <<born, parted, left, got, stopping>>
         /\ \/ Thins(l) /\ UNCHANGED flow
            \/ Send(l)
<1>0. UNCHANGED <<born, parted, left, got, stopping>>
  BY DEF LaneStep, Connect, Arrive, DialRegister, DialFails, Report, Send, Finish, fabricVars
<1>1. /\ Moves(l) /\ (Send(l) \/ (Thins(l) /\ UNCHANGED flow))
      /\ PairTypes' /\ RegTypes' /\ ToldTypes'
      /\ flow' \in [Conns -> [Lanes -> Seq(Nat)]]
  <2>0. /\ UNCHANGED pairs => PairTypes'
        /\ UNCHANGED <<reg, receiving>> => RegTypes'
        /\ UNCHANGED told /\ faults' \in Nat => ToldTypes'
        /\ UNCHANGED flow => flow' \in [Conns -> [Lanes -> Seq(Nat)]]
        /\ faults \in Nat
    <3>1. UNCHANGED told /\ faults' \in Nat => ToldTypes'
      BY DEF Types, ToldTypes
    <3> QED BY <3>1 DEF Types, NetTypes, PairTypes, RegTypes, ToldTypes
  <2>1. CASE Connect(l)
    BY <2>0, <2>1, ConnectMoves DEF Connect, fabricVars
  <2>2. CASE Arrive(l)
    BY <2>0, <2>2, ArriveMoves DEF Arrive
  <2>3. CASE DialRegister(l)
    BY <2>0, <2>3, DialRegisterMoves DEF DialRegister
  <2>4. CASE DialFails(l)
    BY <2>0, <2>4, DialFailsMoves DEF DialFails
  <2>5. CASE Report(l)
    BY <2>0, <2>5, ReportMoves DEF Report, fabricVars
  <2>6. CASE Finish(l)
    BY <2>0, <2>6, FinishMoves DEF Finish, fabricVars
  <2>7. CASE Send(l)
    <3>1. Moves(l) /\ RegTypes' /\ (UNCHANGED flow \/ \E c : Writes(c, l))
          /\ lane[l].queue # <<>>
      BY <2>7, SendMoves
    <3>2. UNCHANGED <<pairs, told, faults>>
      BY <2>7 DEF Send
    <3>3. flow' \in [Conns -> [Lanes -> Seq(Nat)]]
      <4>1. lane[l].queue \in Seq(Nat)
        BY DEF Types, LaneTypes, LaneType
      <4>2. Head(lane[l].queue) \in Nat
        BY <3>1, <4>1, HeadTailProperties
      <4> QED BY <2>0, <3>1, <4>2, FlowTypes DEF Writes
    <3> QED BY <2>0, <2>7, <3>1, <3>2, <3>3
  <2> QED BY <2>1, <2>2, <2>3, <2>4, <2>5, <2>6, <2>7 DEF LaneStep
<1>2. LanesGood'
  BY <1>1, MovesGood
<1>3. MsgTypes' /\ NetTypes' /\ LaneTypes' /\ HealthTypes'
  BY <1>0, <1>1 DEF Moves, Types, MsgTypes, NetTypes
<1> QED BY <1>0, <1>1, <1>2, <1>3 DEF Types

LEMMA EnqueueTypes ==
  ASSUME Types, LanesGood, NEW l \in Lanes, Enqueue(l)
  PROVE  Types' /\ LanesGood'
<1>1. /\ Moves(l) /\ MsgTypes'
      /\ UNCHANGED <<fabricVars, reg, receiving, health, told, faults>>
  BY EnqueueMoves
<1>2. NetTypes' /\ RegTypes'
  BY <1>1 DEF Types, NetTypes, PairTypes, RegTypes, fabricVars
<1>3. ToldTypes'
  BY <1>1 DEF Types, ToldTypes
<1>4. LanesGood'
  BY <1>1, MovesGood
<1> QED BY <1>1, <1>2, <1>3, <1>4 DEF Types, Moves

LEMMA ConnStepTypes ==
  ASSUME Types, LanesGood, NEW c \in DOMAIN pairs, ConnStep(c) \/ Quiet(LoseHello(c))
  PROVE  /\ Types' /\ LanesGood'
         /\ UNCHANGED <<up, born, parted, flow, lane, health, left, got, told, stopping>>
<1>1. /\ PairTypes' /\ RegTypes' /\ faults' \in Nat
      /\ UNCHANGED <<up, born, parted, flow, lane, health, left, got, told, stopping>>
  BY ConnTypes DEF Quiet
<1>2. NetTypes' /\ LaneTypes' /\ HealthTypes' /\ MsgTypes'
  BY <1>1 DEF Types, NetTypes, LaneTypes, HealthTypes, MsgTypes
<1>3. ToldTypes'
  BY <1>1 DEF Types, ToldTypes
<1>4. LanesGood'
  BY <1>1 DEF LanesGood, Good
<1> QED BY <1>1, <1>2, <1>3, <1>4 DEF Types

LEMMA DeliverGood ==
  ASSUME Types, LanesGood, NEW c \in DOMAIN pairs, NEW l \in Lanes, NEW i, Deliver(c, l, i)
  PROVE  Types' /\ LanesGood'
<1>1. /\ flow' \in [Conns -> [Lanes -> Seq(Nat)]] /\ MsgTypes'
      /\ UNCHANGED <<up, born, pairs, reg, receiving, lane, health, told, faults>>
  BY DeliverTypes
<1>2. NetTypes' /\ RegTypes' /\ LaneTypes' /\ HealthTypes'
  BY <1>1 DEF Types, NetTypes, PairTypes, RegTypes, LaneTypes, HealthTypes
<1>3. ToldTypes'
  BY <1>1 DEF Types, ToldTypes
<1>4. LanesGood'
  BY <1>1 DEF LanesGood, Good
<1> QED BY <1>1, <1>2, <1>3, <1>4 DEF Types

\* The kinds of steps.
LEMMA StepKinds ==
  ASSUME [Next]_vars
  PROVE  \/ \E l \in Lanes : Enqueue(l)
         \/ \E l \in Lanes : LaneStep(l)
         \/ \E c \in DOMAIN pairs : ConnStep(c) \/ Quiet(LoseHello(c))
         \/ \E c \in DOMAIN pairs, l \in Lanes : \E i : Deliver(c, l, i)
         \/ \E n \in Nodes : Goes(n)
         \/ \E n \in Nodes : Shutdown(n)
         \/ \E n \in Nodes : \E p \in Nodes \ {n} : \E gen : Forget(n, p, gen)
         \/ Rests
<1>1. ASSUME NEW n \in Nodes, Crash(n) \/ EndShutdown(n) PROVE Goes(n)
  BY <1>1 DEF Crash, EndShutdown, Goes
<1> QED BY <1>1 DEF Next, Rests

LEMMA TypesInit == Init => Types /\ LanesGood
<1> SUFFICES ASSUME Init PROVE Types /\ LanesGood
  OBVIOUS
<1> USE DEF Init, FabricInit
<1>0. <<>> \in Seq(Nat) /\ <<>> \in Seq(PairType) /\ Len(<<>>) = 0
  OBVIOUS
<1>1. NetTypes
  BY <1>0, FabricAssumption DEF NetTypes, PairTypes
<1>2. RegTypes
  BY DEF RegTypes
<1>3. LaneTypes
  BY LaneOffType DEF LaneTypes
<1>4. HealthTypes
  <2>1. <<Healthy>> \in Seq(HealthType) /\ Len(<<Healthy>>) = 1
    BY DEF Healthy, HealthType
  <2>2. ASSUME NEW n \in Nodes PROVE health[n] = [p \in Nodes \ {n} |-> <<Healthy>>]
    OBVIOUS
  <2>3. DOMAIN health = Nodes
    OBVIOUS
  <2> QED BY <2>1, <2>2, <2>3 DEF HealthTypes
<1>5. MsgTypes
  BY <1>0, LinksAssumption DEF MsgTypes
<1>6. ToldTypes
  BY DEF ToldTypes
<1>7. LanesGood
  BY DEF LanesGood, Good, LaneOff
<1> QED BY <1>1, <1>2, <1>3, <1>4, <1>5, <1>6, <1>7 DEF Types

LEMMA TypesStep == Types /\ LanesGood /\ [Next]_vars => Types' /\ LanesGood'
<1> SUFFICES ASSUME Types, LanesGood, [Next]_vars PROVE Types' /\ LanesGood'
  OBVIOUS
<1> QED BY StepKinds, EnqueueTypes, LaneStepTypes, ConnStepTypes, DeliverGood, GoesTypes,
           ShutdownTypes, ForgetTypes, RestTypes

-----------------------------------------------------------------------------
(* Messages: each is in one place.                                         *)

In(s) == {s[i] : i \in DOMAIN s}
Once(s) == \A i, j \in DOMAIN s : s[i] = s[j] => i = j

LEMMA TailOnce ==
  ASSUME NEW s \in Seq(Nat), s # <<>>, Once(s)
  PROVE  /\ Once(Tail(s)) /\ In(Tail(s)) \subseteq In(s) \ {Head(s)}
         /\ Head(s) \in In(s) /\ Head(s) \in Nat
<1>1. /\ Len(s) \in Nat \ {0} /\ DOMAIN s = 1..Len(s) /\ Head(s) = s[1] /\ Head(s) \in Nat
      /\ Tail(s) \in Seq(Nat) /\ Len(Tail(s)) = Len(s) - 1
      /\ \A i \in 1..Len(Tail(s)) : Tail(s)[i] = s[i + 1]
  BY HeadTailProperties, LenProperties, EmptySeq
<1>2. DOMAIN Tail(s) = 1..(Len(s) - 1)
  BY <1>1, LenProperties
<1>3. \A i \in DOMAIN Tail(s) : i + 1 \in DOMAIN s /\ i + 1 # 1 /\ i \in Nat /\ Tail(s)[i] = s[i + 1]
  BY <1>1, <1>2
<1>4. 1 \in DOMAIN s
  BY <1>1
<1>5. Once(Tail(s))
  <2> SUFFICES ASSUME NEW i \in DOMAIN Tail(s), NEW j \in DOMAIN Tail(s), Tail(s)[i] = Tail(s)[j]
               PROVE  i = j
    BY DEF Once
  <2>1. i + 1 = j + 1
    BY <1>3 DEF Once
  <2> QED BY <1>3, <2>1
<1> QED BY <1>1, <1>3, <1>4, <1>5 DEF Once, In

LEMMA AppendOnce ==
  ASSUME NEW s \in Seq(Nat), NEW m \in Nat, Once(s), m \notin In(s)
  PROVE  Once(Append(s, m)) /\ In(Append(s, m)) \subseteq In(s) \cup {m}
<1> DEFINE t == Append(s, m)
<1>1. /\ Len(s) \in Nat /\ DOMAIN s = 1..Len(s) /\ t \in Seq(Nat) /\ Len(t) = Len(s) + 1
      /\ t[Len(s) + 1] = m /\ \A i \in 1..Len(s) : t[i] = s[i]
  BY AppendProperties, LenProperties
<1>2. DOMAIN t = 1..(Len(s) + 1)
  BY <1>1, LenProperties
<1>3. \A i \in DOMAIN t : (i \in DOMAIN s /\ t[i] = s[i]) \/ (i = Len(s) + 1 /\ t[i] = m)
  BY <1>1, <1>2
<1> HIDE DEF t
<1>4. Once(t) /\ In(t) \subseteq In(s) \cup {m}
  BY <1>3 DEF Once, In
<1> QED BY <1>4 DEF t

LEMMA CutOnce ==
  ASSUME NEW s \in Seq(Nat), NEW n \in 1..Len(s), Once(s)
  PROVE  LET t == SubSeq(s, 1, n - 1) \o SubSeq(s, n + 1, Len(s)) IN
           Once(t) /\ In(t) \subseteq In(s) \ {s[n]}
<1> DEFINE a == SubSeq(s, 1, n - 1)  b == SubSeq(s, n + 1, Len(s))  t == a \o b
<1>1. Len(s) \in Nat /\ DOMAIN s = 1..Len(s) /\ n \in Nat
  BY LenProperties
<1>2. /\ a \in Seq(Nat) /\ Len(a) = n - 1 /\ \A i \in 1..(n - 1) : a[i] = s[i]
      /\ b \in Seq(Nat) /\ Len(b) = Len(s) - n /\ \A i \in 1..(Len(s) - n) : b[i] = s[n + i]
  <2>1. \A i \in 1..Len(s) : s[i] \in Nat
    BY ElementOfSeq
  <2>2. a \in Seq(Nat) /\ Len(a) = n - 1 /\ \A i \in 1..(n - 1) : a[i] = s[i]
    <3>1. n - 1 \in Int /\ 1 \in Int /\ \A i \in 1..(n - 1) : s[i] \in Nat
      BY <1>1, <2>1
    <3>2. /\ a \in Seq(Nat) /\ Len(a) = IF 1 <= n - 1 THEN (n - 1) - 1 + 1 ELSE 0
          /\ \A i \in 1..((n - 1) - 1 + 1) : a[i] = s[1 + i - 1]
      BY <3>1, SubSeqProperties
    <3> HIDE DEF a
    <3> QED BY <1>1, <3>2
  <2>3. b \in Seq(Nat) /\ Len(b) = Len(s) - n /\ \A i \in 1..(Len(s) - n) : b[i] = s[n + i]
    <3>1. n + 1 \in Int /\ Len(s) \in Int /\ \A i \in (n + 1)..Len(s) : s[i] \in Nat
      BY <1>1, <2>1
    <3>2. /\ b \in Seq(Nat) /\ Len(b) = IF n + 1 <= Len(s) THEN Len(s) - (n + 1) + 1 ELSE 0
          /\ \A i \in 1..(Len(s) - (n + 1) + 1) : b[i] = s[n + 1 + i - 1]
      BY <3>1, SubSeqProperties
    <3> HIDE DEF b
    <3>3. n <= Len(s) /\ Len(s) - (n + 1) + 1 = Len(s) - n
      BY <1>1
    <3>4. Len(b) = Len(s) - n
      <4>1. CASE n + 1 <= Len(s)
        BY <3>2, <3>3, <4>1
      <4>2. CASE ~(n + 1 <= Len(s))
        <5>0. \A x, y \in Nat : y <= x /\ ~(y + 1 <= x) => x - y = 0
          BY SMTT(30)
        <5>1. Len(s) - n = 0
          BY <1>1, <3>3, <4>2, <5>0
        <5> QED BY <3>2, <4>2, <5>1
      <4> QED BY <4>1, <4>2
    <3>5. ASSUME NEW i \in 1..(Len(s) - n) PROVE b[i] = s[n + i]
      <4>1. n + 1 + i - 1 = n + i
        BY <1>1
      <4> QED BY <3>2, <3>3, <4>1
    <3> QED BY <3>2, <3>4, <3>5
  <2> QED BY <2>2, <2>3
<1> HIDE DEF a, b
<1>3. /\ t \in Seq(Nat) /\ Len(t) = Len(s) - 1 /\ DOMAIN t = 1..(Len(s) - 1)
      /\ \A i \in 1..(Len(s) - 1) : t[i] = IF i <= n - 1 THEN a[i] ELSE b[i - (n - 1)]
  <2>1. /\ t \in Seq(Nat) /\ Len(t) = Len(a) + Len(b)
        /\ \A i \in 1..(Len(a) + Len(b)) : t[i] = IF i <= Len(a) THEN a[i] ELSE b[i - Len(a)]
    BY <1>2, ConcatProperties
  <2>2. DOMAIN t = 1..Len(t)
    BY <2>1, LenProperties
  <2>3. Len(a) + Len(b) = Len(s) - 1
    BY <1>1, <1>2
  <2> HIDE DEF t
  <2> QED BY <1>2, <2>1, <2>2, <2>3
<1> HIDE DEF t
<1>4. ASSUME NEW i \in DOMAIN t
      PROVE  /\ i \in Nat
             /\ \/ i < n /\ t[i] = s[i] /\ i \in DOMAIN s
                \/ i >= n /\ t[i] = s[i + 1] /\ i + 1 \in DOMAIN s
  <2>0. i \in Nat /\ 1 <= i /\ i <= Len(s) - 1 /\ t[i] = IF i <= n - 1 THEN a[i] ELSE b[i - (n - 1)]
    <3>1. i \in 1..(Len(s) - 1)
      BY <1>3
    <3>2. i \in Nat /\ 1 <= i /\ i <= Len(s) - 1
      BY <1>1, <3>1
    <3> QED BY <1>3, <3>1, <3>2
  <2>1. CASE i <= n - 1
    <3>1. i \in 1..(n - 1) /\ i < n /\ i \in 1..Len(s)
      BY <1>1, <2>0, <2>1
    <3> QED BY <1>1, <1>2, <2>0, <2>1, <3>1
  <2>2. CASE ~(i <= n - 1)
    <3>1. /\ i - (n - 1) \in 1..(Len(s) - n) /\ n + (i - (n - 1)) = i + 1
          /\ i >= n /\ i + 1 \in 1..Len(s)
      BY <1>1, <2>0, <2>2
    <3>2. b[i - (n - 1)] = s[n + (i - (n - 1))]
      BY <1>2, <3>1
    <3> QED BY <1>1, <2>0, <2>2, <3>1, <3>2
  <2> QED BY <2>1, <2>2
<1>5. Once(t)
  <2> SUFFICES ASSUME NEW i \in DOMAIN t, NEW j \in DOMAIN t, t[i] = t[j] PROVE i = j
    BY DEF Once
  <2> QED BY <1>1, <1>4 DEF Once
<1>6. In(t) \subseteq In(s) \ {s[n]}
  <2> SUFFICES ASSUME NEW i \in DOMAIN t PROVE t[i] \in In(s) /\ t[i] # s[n]
    BY DEF In
  <2> QED BY <1>1, <1>4 DEF Once, In
<1> QED BY <1>5, <1>6 DEF t, a, b

\* What lane l has queued, what it has on connection c, and what arrived for k.
Queue(l) == lane[l].queue
Sent(c, l) == flow[c][l]

\* Where each message is: in one queue, on one connection, or arrived; those
\* that were not sent yet are none of these.
Ledger(w) ==
  /\ DOMAIN w = Keys /\ \A k \in Keys : DOMAIN w[k] = Nat
  /\ \A l \in Lanes :
       /\ Once(Queue(l))
       /\ \A m \in In(Queue(l)) :
            m > left[Key(l)] /\ w[Key(l)][m].at = "queue" /\ w[Key(l)][m].of = l
  /\ \A c \in Conns : \A l \in Lanes :
       /\ Once(Sent(c, l))
       /\ \A m \in In(Sent(c, l)) :
            /\ m > left[Key(l)] /\ w[Key(l)][m].at = "flow"
            /\ w[Key(l)][m].of = l /\ w[Key(l)][m].on = c
  /\ \A k \in Keys :
       /\ Once(got[k])
       /\ \A m \in In(got[k]) : m > left[k] /\ w[k][m].at = "got"

LedgerInv == \E w : Ledger(w)

LEMMA InNat ==
  ASSUME NEW s \in Seq(Nat)
  PROVE  In(s) \subseteq Nat
  BY ElementOfSeq, LenProperties DEF In

LEMMA EmptyOnce == Once(<<>>) /\ In(<<>>) = {}
<1>1. DOMAIN <<>> = {}
  OBVIOUS
<1> QED BY <1>1 DEF Once, In

LEMMA MsgsAre ==
  ASSUME Types
  PROVE  /\ \A l \in Lanes : Queue(l) \in Seq(Nat) /\ In(Queue(l)) \subseteq Nat
         /\ \A c \in Conns : \A l \in Lanes : Sent(c, l) \in Seq(Nat) /\ In(Sent(c, l)) \subseteq Nat
         /\ \A k \in Keys : got[k] \in Seq(Nat) /\ In(got[k]) \subseteq Nat /\ left[k] \in Nat
  BY InNat DEF Types, LaneTypes, LaneType, NetTypes, MsgTypes, Queue, Sent

LEMMA ThinsOnce ==
  ASSUME Types, NEW l \in Lanes, Thins(l), Once(Queue(l))
  PROVE  Once(Queue(l))' /\ In(Queue(l)') \subseteq In(Queue(l))
<1>1. Queue(l) \in Seq(Nat)
  BY MsgsAre
<1>2. CASE lane'[l].queue = lane[l].queue
  BY <1>2 DEF Queue
<1>3. CASE lane[l].queue # <<>> /\ lane'[l].queue = Tail(lane[l].queue)
  BY <1>1, <1>3, TailOnce DEF Queue
<1>4. CASE lane'[l].queue = <<>>
  BY <1>4, EmptyOnce DEF Queue
<1> QED BY <1>2, <1>3, <1>4 DEF Thins

\* Nothing is sent, or written, or delivered.
LEMMA LedgerThins ==
  ASSUME Types, NEW w, Ledger(w), \A l \in Lanes : Thins(l), UNCHANGED <<left, flow, got>>
  PROVE  Ledger(w)'
<1>1. \A l \in Lanes : Once(Queue(l))' /\ In(Queue(l)') \subseteq In(Queue(l))
  BY ThinsOnce DEF Ledger
<1>2. \A c \in Conns : \A l \in Lanes : Sent(c, l)' = Sent(c, l)
  BY DEF Sent
<1> QED BY <1>1, <1>2 DEF Ledger

LEMMA LedgerSend ==
  ASSUME Types, NEW w, Ledger(w), NEW l \in Lanes, NEW c,
         Queue(l) # <<>>, Queue(l)' = Tail(Queue(l)),
         \A o \in Lanes : o # l => lane'[o] = lane[o],
         Writes(c, l), UNCHANGED <<left, got>>
  PROVE  LedgerInv'
<1> DEFINE h == Head(Queue(l))  k == Key(l)
           w2 == [w EXCEPT ![k][h] = [at |-> "flow", of |-> l, on |-> c]]
<1>1. /\ Queue(l) \in Seq(Nat) /\ k \in Keys
      /\ Once(Queue(l)') /\ In(Queue(l)') \subseteq In(Queue(l)) \ {h}
      /\ h \in In(Queue(l)) /\ h \in Nat /\ Once(Queue(l))
  BY MsgsAre, TailOnce, LaneEnds DEF Ledger
<1>2. \A o \in Lanes : o # l => Queue(o)' = Queue(o)
  BY DEF Queue
<1>3. w[k][h].at = "queue" /\ w[k][h].of = l /\ h > left[k]
  BY <1>1 DEF Ledger
<1>4. /\ DOMAIN w2 = Keys /\ \A x \in Keys : DOMAIN w2[x] = Nat
      /\ w2[k][h] = [at |-> "flow", of |-> l, on |-> c]
      /\ \A x \in Keys : \A m \in Nat : x # k \/ m # h => w2[x][m] = w[x][m]
  BY <1>1 DEF Ledger
<1> HIDE DEF w2
<1>10. PICK v : /\ DOMAIN v = Keys /\ \A x \in Keys : DOMAIN v[x] = Nat
               /\ v[k][h] = [at |-> "flow", of |-> l, on |-> c]
               /\ \A x \in Keys : \A m \in Nat : x # k \/ m # h => v[x][m] = w[x][m]
  BY <1>4
<1>5. ASSUME NEW o \in Lanes, NEW m \in In(Queue(o)')
      PROVE  m > left[Key(o)] /\ v[Key(o)][m].at = "queue" /\ v[Key(o)][m].of = o
  <2>1. m \in In(Queue(o)) /\ m \in Nat /\ Key(o) \in Keys
    BY <1>1, <1>2, MsgsAre, LaneEnds
  <2>2. m > left[Key(o)] /\ w[Key(o)][m].at = "queue" /\ w[Key(o)][m].of = o
    BY <2>1 DEF Ledger
  <2>3. Key(o) # k \/ m # h
    BY <1>1, <1>3, <2>2
  <2> QED BY <1>10, <2>1, <2>2, <2>3
<1>6. ASSUME NEW d \in Conns, NEW o \in Lanes
      PROVE  /\ Once(Sent(d, o)')
             /\ \A m \in In(Sent(d, o)') :
                  /\ m > left[Key(o)] /\ v[Key(o)][m].at = "flow"
                  /\ v[Key(o)][m].of = o /\ v[Key(o)][m].on = d
  <2>1. /\ Sent(d, o) \in Seq(Nat) /\ Once(Sent(d, o)) /\ In(Sent(d, o)) \subseteq Nat
        /\ Key(o) \in Keys
        /\ \A m \in In(Sent(d, o)) :
             /\ m > left[Key(o)] /\ w[Key(o)][m].at = "flow"
             /\ w[Key(o)][m].of = o /\ w[Key(o)][m].on = d
    BY MsgsAre, LaneEnds DEF Ledger
  <2>2. \A m \in In(Sent(d, o)) : Key(o) # k \/ m # h
    BY <1>3, <2>1
  <2>3. CASE d = c /\ o = l
    <3>1. Sent(d, o)' = Append(Sent(d, o), h)
      BY <2>3 DEF Writes, Sent, Queue, Types, NetTypes
    <3>2. h \notin In(Sent(d, o))
      BY <2>2, <2>3
    <3>3. Once(Sent(d, o)') /\ In(Sent(d, o)') \subseteq In(Sent(d, o)) \cup {h}
      BY <1>1, <2>1, <3>1, <3>2, AppendOnce
    <3>4. ASSUME NEW m \in In(Sent(d, o)')
          PROVE  /\ m > left[Key(o)] /\ v[Key(o)][m].at = "flow"
                 /\ v[Key(o)][m].of = o /\ v[Key(o)][m].on = d
      <4>1. CASE m = h
        BY <1>3, <1>10, <2>3, <4>1
      <4>2. CASE m \in In(Sent(d, o))
        BY <1>10, <2>1, <2>2, <4>2
      <4> QED BY <3>3, <4>1, <4>2
    <3> QED BY <3>3, <3>4
  <2>4. CASE d # c \/ o # l
    <3>1. Sent(d, o)' = Sent(d, o)
      BY <2>4 DEF Writes, Sent, Types, NetTypes
    <3> QED BY <1>10, <2>1, <2>2, <3>1
  <2> QED BY <2>3, <2>4
<1>7. ASSUME NEW x \in Keys
      PROVE  /\ Once(got[x])
             /\ \A m \in In(got[x]) : m > left[x] /\ v[x][m].at = "got"
  <2>1. /\ Once(got[x]) /\ In(got[x]) \subseteq Nat
        /\ \A m \in In(got[x]) : m > left[x] /\ w[x][m].at = "got"
    BY MsgsAre DEF Ledger
  <2>2. \A m \in In(got[x]) : x # k \/ m # h
    BY <1>3, <2>1
  <2> QED BY <1>10, <2>1, <2>2
<1>8. ASSUME NEW o \in Lanes PROVE Once(Queue(o)')
  <2>1. CASE o = l
    BY <1>1, <2>1
  <2>2. CASE o # l
    <3>1. Queue(o)' = Queue(o)
      BY <1>2, <2>2
    <3> QED BY <3>1 DEF Ledger
  <2> QED BY <2>1, <2>2
<1>9. Ledger(v)'
  BY <1>10, <1>5, <1>6, <1>7, <1>8 DEF Ledger
<1> QED BY <1>9 DEF LedgerInv

LEMMA LedgerDeliver ==
  ASSUME Types, NEW w, Ledger(w), NEW c \in DOMAIN pairs, NEW l \in Lanes, NEW i, Deliver(c, l, i)
  PROVE  LedgerInv'
<1> DEFINE h == Sent(c, l)[i]  k == Key(l)
           w2 == [w EXCEPT ![k][h] = [at |-> "got", of |-> l, on |-> c]]
<1>0. /\ i \in 1..Len(Sent(c, l)) /\ Sent(c, l) \in Seq(Nat) /\ c \in Conns /\ k \in Keys
      /\ flow' = [flow EXCEPT ![c][l] = SubSeq(@, 1, i - 1) \o SubSeq(@, i + 1, Len(@))]
      /\ got' = [got EXCEPT ![k] = Append(@, h)]
      /\ UNCHANGED <<left, lane>>
  <2>1. i \in 1..Len(flow[c][l]) /\ flow[c][l] \in Seq(Nat) /\ c \in Conns
    BY DeliverTypes
  <2>2. k \in Keys
    BY LaneEnds
  <2>3. /\ flow' = [flow EXCEPT ![c][l] = SubSeq(@, 1, i - 1) \o SubSeq(@, i + 1, Len(@))]
        /\ got' = [got EXCEPT ![k] = Append(@, h)]
        /\ UNCHANGED <<left, lane>>
    BY DEF Deliver, Sent
  <2> QED BY <2>1, <2>2, <2>3 DEF Sent
<1>1. /\ Sent(c, l)' = SubSeq(Sent(c, l), 1, i - 1) \o SubSeq(Sent(c, l), i + 1, Len(Sent(c, l)))
      /\ \A d \in Conns : \A o \in Lanes : d # c \/ o # l => Sent(d, o)' = Sent(d, o)
  BY <1>0 DEF Sent, Types, NetTypes
<1>2. /\ Once(Sent(c, l)') /\ In(Sent(c, l)') \subseteq In(Sent(c, l)) \ {h}
      /\ h \in In(Sent(c, l)) /\ h \in Nat
  <2>1. Once(Sent(c, l))
    BY <1>0 DEF Ledger
  <2>2. h \in In(Sent(c, l))
    BY <1>0, LenProperties DEF In
  <2>3. h \in Nat
    BY <1>0, ElementOfSeq
  <2> QED BY <1>0, <1>1, <2>1, <2>2, <2>3, CutOnce
<1>3. /\ w[k][h].at = "flow" /\ w[k][h].of = l /\ w[k][h].on = c /\ h > left[k]
  BY <1>0, <1>2 DEF Ledger
<1> HIDE DEF h
<1>4. /\ DOMAIN w2 = Keys /\ \A x \in Keys : DOMAIN w2[x] = Nat
      /\ w2[k][h] = [at |-> "got", of |-> l, on |-> c]
      /\ \A x \in Keys : \A m \in Nat : x # k \/ m # h => w2[x][m] = w[x][m]
  BY <1>0, <1>2 DEF Ledger
<1> HIDE DEF w2
<1>10. PICK v : /\ DOMAIN v = Keys /\ \A x \in Keys : DOMAIN v[x] = Nat
               /\ v[k][h] = [at |-> "got", of |-> l, on |-> c]
               /\ \A x \in Keys : \A m \in Nat : x # k \/ m # h => v[x][m] = w[x][m]
  BY <1>4
<1>5. ASSUME NEW o \in Lanes
      PROVE  /\ Once(Queue(o)')
             /\ \A m \in In(Queue(o)') :
                  m > left[Key(o)] /\ v[Key(o)][m].at = "queue" /\ v[Key(o)][m].of = o
  <2>1. /\ Once(Queue(o)) /\ In(Queue(o)) \subseteq Nat /\ Key(o) \in Keys
        /\ \A m \in In(Queue(o)) :
             m > left[Key(o)] /\ w[Key(o)][m].at = "queue" /\ w[Key(o)][m].of = o
    BY MsgsAre, LaneEnds DEF Ledger
  <2>2. \A m \in In(Queue(o)) : Key(o) # k \/ m # h
    BY <1>3, <2>1
  <2>3. Queue(o)' = Queue(o)
    BY <1>0 DEF Queue
  <2> QED BY <1>10, <2>1, <2>2, <2>3
<1>6. ASSUME NEW d \in Conns, NEW o \in Lanes
      PROVE  /\ Once(Sent(d, o)')
             /\ \A m \in In(Sent(d, o)') :
                  /\ m > left[Key(o)] /\ v[Key(o)][m].at = "flow"
                  /\ v[Key(o)][m].of = o /\ v[Key(o)][m].on = d
  <2>1. /\ Once(Sent(d, o)) /\ In(Sent(d, o)) \subseteq Nat /\ Key(o) \in Keys
        /\ \A m \in In(Sent(d, o)) :
             /\ m > left[Key(o)] /\ w[Key(o)][m].at = "flow"
             /\ w[Key(o)][m].of = o /\ w[Key(o)][m].on = d
    BY MsgsAre, LaneEnds DEF Ledger
  <2>2. CASE d = c /\ o = l
    BY <1>2, <1>10, <2>1, <2>2
  <2>3. CASE d # c \/ o # l
    <3>1. \A m \in In(Sent(d, o)) : Key(o) # k \/ m # h
      BY <1>3, <2>1, <2>3
    <3> QED BY <1>1, <1>10, <2>1, <2>3, <3>1
  <2> QED BY <2>2, <2>3
<1>7. ASSUME NEW x \in Keys
      PROVE  /\ Once(got'[x])
             /\ \A m \in In(got'[x]) : m > left[x] /\ v[x][m].at = "got"
  <2>1. /\ Once(got[x]) /\ In(got[x]) \subseteq Nat /\ got[x] \in Seq(Nat)
        /\ \A m \in In(got[x]) : m > left[x] /\ w[x][m].at = "got"
    BY MsgsAre DEF Ledger
  <2>2. \A m \in In(got[x]) : x # k \/ m # h
    BY <1>3, <2>1
  <2>3. CASE x = k
    <3>1. got'[x] = Append(got[x], h)
      BY <1>0, <2>3 DEF Types, MsgTypes
    <3>2. Once(got'[x]) /\ In(got'[x]) \subseteq In(got[x]) \cup {h}
      BY <1>2, <2>1, <2>2, <2>3, <3>1, AppendOnce
    <3> QED BY <1>3, <1>10, <2>1, <2>2, <2>3, <3>2
  <2>4. CASE x # k
    <3>1. got'[x] = got[x]
      BY <1>0, <2>4 DEF Types, MsgTypes
    <3> QED BY <1>10, <2>1, <2>2, <3>1
  <2> QED BY <2>3, <2>4
<1>8. Ledger(v)'
  BY <1>0, <1>10, <1>5, <1>6, <1>7 DEF Ledger
<1> QED BY <1>8 DEF LedgerInv

LEMMA LedgerEnqueue ==
  ASSUME Types, LanesGood, NEW w, Ledger(w), NEW l \in Lanes, Enqueue(l)
  PROVE  LedgerInv'
<1> DEFINE k == Key(l)  h == left[k]
           w2 == [w EXCEPT ![k][h] = [at |-> "queue", of |-> l, on |-> 0]]
<1>0. /\ h \in Nat \ {0} /\ k \in Keys /\ left' = [left EXCEPT ![k] = h - 1]
      /\ UNCHANGED <<flow, got>> /\ Queues(l, lane'[l], h)
      /\ \A o \in Lanes : o # l => lane'[o] = lane[o]
      /\ lane[l] \in LaneType
  BY EnqueueMoves, LaneEnds, LaneIs DEF Moves, fabricVars
<1>1. /\ \A x \in Keys : left'[x] \in Nat /\ left'[x] <= left[x]
      /\ left'[k] = h - 1 /\ h - 1 < h
  BY <1>0, MsgsAre DEF Types, MsgTypes
<1>2. /\ DOMAIN w2 = Keys /\ \A x \in Keys : DOMAIN w2[x] = Nat
      /\ w2[k][h] = [at |-> "queue", of |-> l, on |-> 0]
      /\ \A x \in Keys : \A m \in Nat : x # k \/ m # h => w2[x][m] = w[x][m]
  BY <1>0 DEF Ledger
<1> HIDE DEF w2
<1>10. PICK v : /\ DOMAIN v = Keys /\ \A x \in Keys : DOMAIN v[x] = Nat
               /\ v[k][h] = [at |-> "queue", of |-> l, on |-> 0]
               /\ \A x \in Keys : \A m \in Nat : x # k \/ m # h => v[x][m] = w[x][m]
  BY <1>2
<1>3. \A x \in Keys : \A m \in Nat : m > left[x] => m > left'[x] /\ v[x][m] = w[x][m]
  <2> SUFFICES ASSUME NEW x \in Keys, NEW m \in Nat, m > left[x]
               PROVE  m > left'[x] /\ v[x][m] = w[x][m]
    OBVIOUS
  <2>1. left[x] \in Nat
    BY MsgsAre
  <2>2. m > left'[x] /\ (x = k => m # h)
    BY <1>0, <1>1, <2>1
  <2> QED BY <1>10, <2>2
<1>4. Once(Queue(l)') /\ In(Queue(l)') \subseteq In(Queue(l)) \cup {h}
  <2>1. /\ Queue(l) \in Seq(Nat) /\ Once(Queue(l)) /\ In(Queue(l)) \subseteq Nat
        /\ \A m \in In(Queue(l)) : m > h
    BY MsgsAre DEF Ledger
  <2>2. h \notin In(Queue(l))
    BY <1>0, <2>1
  <2>3. CASE lane'[l] = [lane[l] EXCEPT !.queue = Append(@, h)]
    <3>1. Queue(l)' = Append(Queue(l), h)
      BY <1>0, <2>3 DEF Queue, LaneType
    <3> QED BY <1>0, <2>1, <2>2, <3>1, AppendOnce
  <2>4. CASE lane'[l] = LaneOff
    BY <2>4, EmptyOnce DEF Queue, LaneOff
  <2>5. CASE lane'[l] = [LaneOff EXCEPT !.pc = "idle", !.open = TRUE, !.queue = <<h>>,
                                        !.health = Len(health[From(l)][To(l)])]
    <3>1. Queue(l)' = <<h>>
      BY <2>5 DEF Queue, LaneOff
    <3>2. Once(<<h>>) /\ In(<<h>>) = {h}
      <4>1. DOMAIN <<h>> = {1}
        OBVIOUS
      <4> QED BY <4>1 DEF Once, In
    <3> QED BY <3>1, <3>2
  <2> QED BY <1>0, <2>3, <2>4, <2>5 DEF Queues
<1>5. ASSUME NEW o \in Lanes
      PROVE  /\ Once(Queue(o)')
             /\ \A m \in In(Queue(o)') :
                  m > left'[Key(o)] /\ v[Key(o)][m].at = "queue" /\ v[Key(o)][m].of = o
  <2>1. /\ Once(Queue(o)) /\ In(Queue(o)) \subseteq Nat /\ Key(o) \in Keys
        /\ \A m \in In(Queue(o)) :
             m > left[Key(o)] /\ w[Key(o)][m].at = "queue" /\ w[Key(o)][m].of = o
    BY MsgsAre, LaneEnds DEF Ledger
  <2>2. \A m \in In(Queue(o)) :
          m > left'[Key(o)] /\ v[Key(o)][m].at = "queue" /\ v[Key(o)][m].of = o
    BY <1>3, <2>1
  <2>3. CASE o = l
    <3>1. h > left'[k] /\ v[k][h].at = "queue" /\ v[k][h].of = l
      BY <1>1, <1>10
    <3> HIDE DEF h
    <3> QED BY <1>4, <2>2, <2>3, <3>1
  <2>4. CASE o # l
    BY <1>0, <2>1, <2>2, <2>4 DEF Queue
  <2> QED BY <2>3, <2>4
<1>6. ASSUME NEW d \in Conns, NEW o \in Lanes
      PROVE  /\ Once(Sent(d, o)')
             /\ \A m \in In(Sent(d, o)') :
                  /\ m > left'[Key(o)] /\ v[Key(o)][m].at = "flow"
                  /\ v[Key(o)][m].of = o /\ v[Key(o)][m].on = d
  <2>1. /\ Once(Sent(d, o)) /\ In(Sent(d, o)) \subseteq Nat /\ Key(o) \in Keys
        /\ \A m \in In(Sent(d, o)) :
             /\ m > left[Key(o)] /\ w[Key(o)][m].at = "flow"
             /\ w[Key(o)][m].of = o /\ w[Key(o)][m].on = d
    BY MsgsAre, LaneEnds DEF Ledger
  <2>2. Sent(d, o)' = Sent(d, o)
    BY <1>0 DEF Sent
  <2> QED BY <1>3, <2>1, <2>2
<1>7. ASSUME NEW x \in Keys
      PROVE  /\ Once(got'[x])
             /\ \A m \in In(got'[x]) : m > left'[x] /\ v[x][m].at = "got"
  <2>1. /\ Once(got[x]) /\ In(got[x]) \subseteq Nat
        /\ \A m \in In(got[x]) : m > left[x] /\ w[x][m].at = "got"
    BY MsgsAre DEF Ledger
  <2> QED BY <1>0, <1>3, <2>1
<1>8. Ledger(v)'
  BY <1>10, <1>5, <1>6, <1>7 DEF Ledger
<1> QED BY <1>8 DEF LedgerInv

LEMMA LedgerInit == Init => LedgerInv
<1> SUFFICES ASSUME Init PROVE LedgerInv
  OBVIOUS
<1> DEFINE w == [k \in Keys |-> [m \in Nat |-> 0]]
<1>1. /\ \A l \in Lanes : Queue(l) = <<>>
      /\ \A c \in Conns : \A l \in Lanes : Sent(c, l) = <<>>
      /\ \A k \in Keys : got[k] = <<>>
  BY DEF Init, FabricInit, Queue, Sent, LaneOff
<1>2. Ledger(w)
  <2>1. DOMAIN w = Keys /\ \A k \in Keys : DOMAIN w[k] = Nat
    OBVIOUS
  <2> HIDE DEF w
  <2> QED BY <1>1, <2>1, EmptyOnce DEF Ledger
<1> QED BY <1>2 DEF LedgerInv

LEMMA LedgerStep == Types /\ LanesGood /\ LedgerInv /\ [Next]_vars => LedgerInv'
<1> SUFFICES ASSUME Types, LanesGood, LedgerInv, [Next]_vars PROVE LedgerInv'
  OBVIOUS
<1>1. PICK w : Ledger(w)
  BY DEF LedgerInv
<1>2. ASSUME \A l \in Lanes : Thins(l), UNCHANGED <<left, flow, got>> PROVE LedgerInv'
  BY <1>1, <1>2, LedgerThins DEF LedgerInv
<1>3. ASSUME NEW l \in Lanes, Enqueue(l) PROVE LedgerInv'
  BY <1>1, <1>3, LedgerEnqueue
<1>4. ASSUME NEW l \in Lanes, LaneStep(l) PROVE LedgerInv'
  <2>1. /\ UNCHANGED <<left, got>> /\ \A o \in Lanes : o # l => lane'[o] = lane[o]
        /\ (Thins(l) /\ UNCHANGED flow) \/ Send(l)
    BY <1>4, LaneStepTypes DEF Moves
  <2>2. ASSUME Thins(l), UNCHANGED flow PROVE LedgerInv'
    BY <1>2, <2>1, <2>2 DEF Thins
  <2>3. CASE Send(l)
    <3>1. /\ lane[l].queue # <<>> /\ lane'[l].queue = Tail(lane[l].queue)
          /\ UNCHANGED flow \/ \E c : Writes(c, l)
      BY <2>3, SendMoves
    <3>2. CASE UNCHANGED flow
      BY <2>2, <3>1, <3>2 DEF Thins
    <3>3. ASSUME NEW c, Writes(c, l) PROVE LedgerInv'
      BY <1>1, <2>1, <3>1, <3>3, LedgerSend DEF Queue
    <3> QED BY <3>1, <3>2, <3>3
  <2> QED BY <2>1, <2>2, <2>3
<1>5. ASSUME NEW c \in DOMAIN pairs, ConnStep(c) \/ Quiet(LoseHello(c)) PROVE LedgerInv'
  BY <1>2, <1>5, ConnStepTypes DEF Thins
<1>6. ASSUME NEW c \in DOMAIN pairs, NEW l \in Lanes, NEW i, Deliver(c, l, i) PROVE LedgerInv'
  BY <1>1, <1>6, LedgerDeliver
<1>7. ASSUME NEW n \in Nodes, Goes(n) PROVE LedgerInv'
  <2>1. UNCHANGED <<left, flow, got>>
    BY <1>7 DEF Goes, DropEndpoint
  <2>2. \A l \in Lanes : Thins(l)
    BY <1>7, GoesTypes DEF Thins, LaneOff
  <2> QED BY <1>2, <2>1, <2>2
<1>8. ASSUME NEW n \in Nodes, Shutdown(n) PROVE LedgerInv'
  <2>1. UNCHANGED <<left, flow, got>>
    BY <1>8 DEF Shutdown, fabricVars
  <2>2. \A l \in Lanes : Thins(l)
    BY <1>8, ShutdownTypes, LaneIs DEF Thins, LaneType
  <2> QED BY <1>2, <2>1, <2>2
<1>9. ASSUME NEW n \in Nodes, NEW p \in Nodes \ {n}, NEW gen, Forget(n, p, gen) PROVE LedgerInv'
  <2>1. UNCHANGED <<left, flow, got>>
    BY <1>9 DEF Forget
  <2>2. \A l \in Lanes : Thins(l)
    BY <1>9, ForgetTypes, LaneIs DEF Thins, LaneType
  <2> QED BY <1>2, <2>1, <2>2
<1>10. CASE Rests
  BY <1>2, <1>10, RestTypes DEF Thins
<1> QED BY <1>3, <1>4, <1>5, <1>6, <1>7, <1>8, <1>9, <1>10, StepKinds

\* A message is not delivered twice, however often its lane is started anew, its
\* node restarts and its connection is lost (lane, send_ordered, spawn_receive).
THEOREM NoMessageTwice == Spec => []NeverTwice
<1> DEFINE Inv == Types /\ LanesGood /\ LedgerInv
<1>1. Init => Inv
  BY TypesInit, LedgerInit
<1>2. Inv /\ [Next]_vars => Inv'
  BY TypesStep, LedgerStep
<1>3. Inv => NeverTwice
  BY DEF LedgerInv, Ledger, NeverTwice, Once
<1> QED BY <1>1, <1>2, <1>3, PTL DEF Spec

-----------------------------------------------------------------------------
(* Reports.                                                                *)

\* No other lane shares the health that l sees.
Solo(l) == \A o \in Lanes : From(o) = From(l) /\ To(o) = To(l) => o = l

\* Whoever heard that the peer is unreachable will hear when that ends: the
\* health remembers it, or the report is on its way.
Honest(l) ==
  LET h == health[From(l)][To(l)] IN
    Solo(l) /\ Len(h) = 1 =>
      /\ told[From(l)][To(l)] = "Unreachable" => h[1].reported \/ lane[l].pc = "reachable"
      /\ lane[l].pc = "unreachable" => h[1].reported

HonestInv == \A l \in Lanes : Honest(l)

LEMMA HealthIsFirst ==
  ASSUME Types, LanesGood, NEW l \in Lanes, lane[l].pc # "off",
         Len(health[From(l)][To(l)]) = 1
  PROVE  lane[l].health = 1
<1>1. lane[l].health \in 1..Len(health[From(l)][To(l)])
  BY DEF LanesGood, Good
<1> QED BY <1>1

\* How a step of l bears on reports.
LEMMA LaneStepTells ==
  ASSUME Types, LanesGood, NEW l \in Lanes, LaneStep(l)
  PROVE  \/ /\ Failed(l) /\ UNCHANGED told
            /\ lane[l].pc \in {"idle", "waiting", "calling", "greeting"} /\ lane[l].queue # <<>>
         \/ /\ \E c \in Nat : Connected(l, c)
            /\ UNCHANGED told /\ lane[l].pc \in {"idle", "waiting", "greeting"}
         \/ /\ UNCHANGED <<health, told>> /\ lane[l].pc # "reachable"
            /\ lane'[l].pc # "unreachable"
         \/ Report(l)
<1>0. lane[l] \in LaneType /\ Good(l, lane[l]) /\ reg[From(l)][To(l)] \in Nat
  BY LaneIs, LaneEnds DEF Types, RegTypes
<1>1. CASE Connect(l)
  <2>1. /\ lane[l].pc \in {"idle", "waiting"} /\ lane[l].queue # <<>> /\ UNCHANGED told
        /\ \/ lane' = Drop(l) /\ UNCHANGED health
           \/ Connected(l, reg[From(l)][To(l)])
           \/ lane' = [lane EXCEPT ![l].pc = "waiting"] /\ UNCHANGED health
           \/ /\ lane' = [lane EXCEPT ![l].pc = "calling", ![l].target = up[To(l)]]
              /\ UNCHANGED health
           \/ Failed(l)
    BY <1>1 DEF Connect
  <2>2. CASE lane' = Drop(l) /\ UNCHANGED health
    BY <2>1, <2>2, DropType DEF Types, LaneType
  <2>3. CASE lane' = [lane EXCEPT ![l].pc = "waiting"] /\ UNCHANGED health
    BY <1>0, <2>1, <2>3 DEF Types, LaneTypes, LaneType
  <2>4. CASE /\ lane' = [lane EXCEPT ![l].pc = "calling", ![l].target = up[To(l)]]
             /\ UNCHANGED health
    BY <1>0, <2>1, <2>4 DEF Types, LaneTypes, LaneType
  <2> QED BY <1>0, <2>1, <2>2, <2>3, <2>4
<1>2. CASE Arrive(l)
  <2>1. lane[l].pc = "calling" /\ lane[l].queue # <<>> /\ UNCHANGED told
    BY <1>0, <1>2 DEF Arrive, Good
  <2>2. CASE /\ lane' = [lane EXCEPT ![l].pc = "greeting", ![l].conn = Len(pairs')]
             /\ UNCHANGED health
    BY <1>0, <2>1, <2>2 DEF Types, LaneTypes, LaneType
  <2> QED BY <1>2, <2>1, <2>2 DEF Arrive
<1>3. CASE DialRegister(l)
  <2>1. lane[l].pc = "greeting" /\ lane[l].queue # <<>> /\ UNCHANGED told /\ lane[l].conn \in Nat
    BY <1>0, <1>3 DEF DialRegister, Good, LaneType
  <2> QED BY <1>0, <1>3, <2>1 DEF DialRegister
<1>4. CASE DialFails(l)
  BY <1>0, <1>4 DEF DialFails, Good
<1>5. CASE Send(l)
  BY <1>5, SendMoves DEF Send
<1>6. CASE Finish(l)
  <2>1. lane'[l].pc = "off"
    BY <1>6, FinishMoves DEF LaneOff
  <2> QED BY <1>6, <2>1 DEF Finish, MayEnd
<1> QED BY <1>1, <1>2, <1>3, <1>4, <1>5, <1>6 DEF LaneStep

\* The step of one lane.
LEMMA LaneStepHonest ==
  ASSUME Types, LanesGood, HonestInv, NEW l \in Lanes, LaneStep(l)
  PROVE  HonestInv'
<1> DEFINE n == From(l)  p == To(l)
<1>0. /\ n \in Nodes /\ p \in Nodes \ {n} /\ \A o \in Lanes : o # l => lane'[o] = lane[o]
      /\ SameLens /\ Honest(l)
  BY LaneStepTypes, LaneEnds DEF Moves, HonestInv
<1>1. ASSUME \A m \in Nodes : \A q \in Nodes \ {m} : m # n \/ q # p =>
               health'[m][q] = health[m][q] /\ told'[m][q] = told[m][q],
             Honest(l)'
      PROVE  HonestInv'
  <2> SUFFICES ASSUME NEW o \in Lanes, o # l PROVE Honest(o)'
    BY <1>1 DEF HonestInv
  <2>1. Honest(o) /\ lane'[o] = lane[o] /\ From(o) \in Nodes /\ To(o) \in Nodes \ {From(o)}
    BY <1>0, LaneEnds DEF HonestInv
  <2>2. CASE From(o) = n /\ To(o) = p
    BY <2>2 DEF Honest, Solo
  <2>3. CASE From(o) # n \/ To(o) # p
    <3>1. health'[From(o)][To(o)] = health[From(o)][To(o)]
          /\ told'[From(o)][To(o)] = told[From(o)][To(o)]
      BY <1>1, <2>1, <2>3
    <3> QED BY <2>1, <3>1 DEF Honest
  <2> QED BY <2>2, <2>3
<1>2. Len(health'[n][p]) = Len(health[n][p])
  BY <1>0 DEF SameLens
<1>3. ASSUME Failed(l), UNCHANGED told, lane[l].queue # <<>>,
             lane[l].pc \in {"idle", "waiting", "calling", "greeting"}
      PROVE  HonestInv'
  <2>1. lane[l].health \in 1..Len(health[n][p])
    BY <1>3 DEF LanesGood, Good
  <2>2. /\ \A m \in Nodes : \A q \in Nodes \ {m} : m # n \/ q # p =>
              health'[m][q] = health[m][q]
        /\ health[n][p][lane[l].health].reported => health'[n][p][lane[l].health].reported
        /\ lane'[l].pc = "unreachable" => health'[n][p][lane[l].health].reported
        /\ lane'[l].pc \in {"idle", "unreachable"}
    BY <1>3, <2>1, FailedType DEF Types
  <2>3. Honest(l)'
    <3> SUFFICES ASSUME Solo(l), Len(health'[n][p]) = 1
                 PROVE  /\ told'[n][p] = "Unreachable" => health'[n][p][1].reported
                        /\ lane'[l].pc = "unreachable" => health'[n][p][1].reported
      BY DEF Honest, Solo
    <3>1. lane[l].health = 1
      BY <1>2, <1>3, HealthIsFirst
    <3>2. told[n][p] = "Unreachable" => health[n][p][1].reported
      BY <1>0, <1>2, <1>3 DEF Honest
    <3> QED BY <1>3, <2>2, <3>1, <3>2
  <2> QED BY <1>1, <1>3, <2>2, <2>3
<1>4. ASSUME NEW c \in Nat, Connected(l, c), UNCHANGED told,
             lane[l].pc \in {"idle", "waiting", "greeting"}
      PROVE  HonestInv'
  <2>1. lane[l].health \in 1..Len(health[n][p])
    BY <1>4 DEF LanesGood, Good
  <2>2. /\ \A m \in Nodes : \A q \in Nodes \ {m} : m # n \/ q # p =>
              health'[m][q] = health[m][q]
        /\ lane'[l].pc = IF HealthOf(l).reported THEN "reachable" ELSE "send"
    BY <1>4, <2>1, ConnectedType DEF Types
  <2>3. Honest(l)'
    <3> SUFFICES ASSUME Solo(l), Len(health'[n][p]) = 1, told'[n][p] = "Unreachable"
                 PROVE  lane'[l].pc = "reachable"
      BY <2>2 DEF Honest, Solo
    <3>1. lane[l].health = 1
      BY <1>2, <1>4, HealthIsFirst
    <3>2. health[n][p][1].reported
      BY <1>0, <1>2, <1>4 DEF Honest
    <3> QED BY <2>2, <3>1, <3>2 DEF HealthOf
  <2> QED BY <1>1, <1>4, <2>2, <2>3
<1>5. ASSUME UNCHANGED <<health, told>>, lane[l].pc # "reachable", lane'[l].pc # "unreachable"
      PROVE  HonestInv'
  <2>1. Honest(l)'
    BY <1>0, <1>5 DEF Honest, Solo
  <2> QED BY <1>1, <1>5, <2>1
<1>6. CASE Report(l)
  <2>1. PICK w \in {"Reachable", "Unreachable"} :
          /\ told' = [told EXCEPT ![n][p] = w] /\ UNCHANGED health
          /\ w = "Unreachable" => lane[l].pc = "unreachable"
    BY <1>6 DEF Report
  <2>2. /\ told'[n][p] = w
        /\ \A m \in Nodes : \A q \in Nodes \ {m} : m # n \/ q # p => told'[m][q] = told[m][q]
    BY <1>0, <2>1 DEF Types, ToldTypes
  <2>3. lane'[l].pc \in {"send", "idle"}
    BY <1>6 DEF Report, Types, LaneTypes, LaneType
  <2>4. Honest(l)'
    BY <1>0, <2>1, <2>2, <2>3 DEF Honest, Solo
  <2> QED BY <1>1, <2>1, <2>2, <2>4
<1> QED BY <1>3, <1>4, <1>5, <1>6, LaneStepTells

LEMMA HonestInit == Init => HonestInv
<1> SUFFICES ASSUME Init, NEW l \in Lanes PROVE Honest(l)
  BY DEF HonestInv
<1>1. told[From(l)][To(l)] = "nothing" /\ lane[l].pc = "off"
  BY LaneEnds DEF Init, LaneOff
<1> QED BY <1>1 DEF Honest

LEMMA HonestStep == Types /\ LanesGood /\ HonestInv /\ [Next]_vars => HonestInv'
<1> SUFFICES ASSUME Types, LanesGood, HonestInv, [Next]_vars PROVE HonestInv'
  OBVIOUS
<1>1. ASSUME UNCHANGED <<health, told>>, \A l \in Lanes : lane'[l].pc = lane[l].pc
      PROVE  HonestInv'
  BY <1>1 DEF HonestInv, Honest, Solo
<1>2. ASSUME NEW l \in Lanes, Enqueue(l) PROVE HonestInv'
  <2>1. /\ UNCHANGED <<health, told>> /\ Queues(l, lane'[l], left[Key(l)])
        /\ \A o \in Lanes : o # l => lane'[o] = lane[o]
        /\ lane[l] \in LaneType
    BY <1>2, EnqueueMoves, LaneIs DEF Moves
  <2>2. \/ lane'[l].pc = lane[l].pc
        \/ lane[l].pc \in {"idle", "off"} /\ lane'[l].pc \in {"idle", "off"}
    <3>1. CASE lane'[l] = [lane[l] EXCEPT !.queue = Append(@, left[Key(l)])]
      BY <2>1, <3>1 DEF LaneType
    <3>2. CASE lane'[l] = LaneOff /\ MayEnd(l)
      BY <3>2 DEF LaneOff, MayEnd
    <3>3. CASE /\ lane[l].pc = "off"
               /\ lane'[l] = [LaneOff EXCEPT !.pc = "idle", !.open = TRUE,
                    !.queue = <<left[Key(l)]>>, !.health = Len(health[From(l)][To(l)])]
      <4>1. lane'[l].pc = "idle"
        BY <3>3 DEF LaneOff
      <4> QED BY <3>3, <4>1
    <3> QED BY <2>1, <3>1, <3>2, <3>3 DEF Queues
  <2>3. ASSUME NEW o \in Lanes PROVE Honest(o)'
    <3>1. CASE o = l
      BY <2>1, <2>2, <3>1 DEF HonestInv, Honest, Solo
    <3>2. CASE o # l
      BY <2>1, <3>2 DEF HonestInv, Honest, Solo
    <3> QED BY <3>1, <3>2
  <2> QED BY <2>3 DEF HonestInv
<1>3. ASSUME NEW l \in Lanes, LaneStep(l) PROVE HonestInv'
  BY <1>3, LaneStepHonest
<1>4. ASSUME NEW c \in DOMAIN pairs, ConnStep(c) \/ Quiet(LoseHello(c)) PROVE HonestInv'
  BY <1>1, <1>4, ConnStepTypes
<1>5. ASSUME NEW c \in DOMAIN pairs, NEW l \in Lanes, NEW i, Deliver(c, l, i) PROVE HonestInv'
  BY <1>1, <1>5 DEF Deliver
<1>6. ASSUME NEW n \in Nodes, Goes(n) PROVE HonestInv'
  <2> SUFFICES ASSUME NEW l \in Lanes PROVE Honest(l)'
    BY DEF HonestInv
  <2>0. Aborted(n) /\ up' = [up EXCEPT ![n] = 0]
    BY <1>6 DEF Goes, DropEndpoint
  <2>1. /\ \A m \in Nodes : m # n => health'[m] = health[m] /\ told'[m] = told[m]
        /\ \A p \in Nodes \ {n} : told'[n][p] = "nothing"
        /\ lane'[l] = IF From(l) = n THEN LaneOff ELSE lane[l]
    BY <2>0, AbortedTypes
  <2>2. CASE From(l) = n
    BY <2>1, <2>2, LaneEnds DEF Honest, LaneOff
  <2>3. CASE From(l) # n
    BY <2>1, <2>3, LaneEnds DEF HonestInv, Honest, Solo
  <2> QED BY <2>2, <2>3
<1>7. ASSUME NEW n \in Nodes, Shutdown(n) PROVE HonestInv'
  <2>1. UNCHANGED <<health, told>>
    BY <1>7 DEF Shutdown
  <2>2. \A l \in Lanes : lane'[l].pc = lane[l].pc
    BY <1>7, ShutdownTypes, LaneIs DEF LaneType
  <2> QED BY <1>1, <2>1, <2>2
<1>8. ASSUME NEW n \in Nodes, NEW p \in Nodes \ {n}, NEW gen, Forget(n, p, gen) PROVE HonestInv'
  <2> SUFFICES ASSUME NEW l \in Lanes PROVE Honest(l)'
    BY DEF HonestInv
  <2>1. /\ Len(health'[n][p]) >= 2 /\ UNCHANGED told
        /\ \A m \in Nodes : \A q \in Nodes \ {m} : m # n \/ q # p => health'[m][q] = health[m][q]
    BY <1>8, ForgetTypes DEF Forget
  <2>2. lane'[l].pc = lane[l].pc
    BY <1>8, ForgetTypes, LaneIs DEF LaneType
  <2>3. CASE From(l) = n /\ To(l) = p
    <3>0. Len(health'[n][p]) \in Nat
      BY <1>8, ForgetTypes, LenProperties DEF Types, HealthTypes
    <3>1. \A k \in Nat : k >= 2 => k # 1
      OBVIOUS
    <3>2. Len(health'[n][p]) # 1
      BY <2>1, <3>0, <3>1, Zenon
    <3> QED BY <2>3, <3>2 DEF Honest
  <2>4. CASE From(l) # n \/ To(l) # p
    <3>1. health'[From(l)][To(l)] = health[From(l)][To(l)]
      BY <2>1, <2>4, LaneEnds
    <3> QED BY <2>1, <2>2, <3>1 DEF HonestInv, Honest, Solo
  <2> QED BY <2>3, <2>4
<1>9. CASE Rests
  <2>0. UNCHANGED <<lane, told>>
    BY <1>9, RestTypes
  <2>1. CASE UNCHANGED health
    BY <1>1, <2>0, <2>1
  <2>2. ASSUME NEW n \in Nodes, NEW p \in Nodes \ {n}, NEW i, BackoffEnds(n, p, i)
        PROVE  HonestInv'
    <3>1. /\ i \in DOMAIN health[n][p]
          /\ health' = [health EXCEPT ![n][p][i].backing = FALSE]
      BY <2>2 DEF BackoffEnds
    <3>2. health[n][p] \in Seq(HealthType)
      BY DEF Types, HealthTypes
    <3>3. i \in 1..Len(health[n][p])
      BY <3>1, <3>2, LenProperties
    <3>4. health[n][p][i] \in HealthType
      BY <3>2, <3>3, ElementOfSeq
    <3> DEFINE r == [health[n][p][i] EXCEPT !.backing = FALSE]
    <3>5. r \in HealthType /\ r.reported = health[n][p][i].reported
      BY <3>4 DEF HealthType
    <3>6. HealthBecomes(n, p, i, r)
      BY <3>1 DEF HealthBecomes
    <3> HIDE DEF r
    <3>7. /\ health'[n][p][i] = r
          /\ \A m \in Nodes : \A q \in Nodes \ {m} :
               /\ Len(health'[m][q]) = Len(health[m][q])
               /\ m # n \/ q # p => health'[m][q] = health[m][q]
      BY <3>3, <3>5, <3>6, HealthPut DEF Types
    <3> SUFFICES ASSUME NEW l \in Lanes PROVE Honest(l)'
      BY DEF HonestInv
    <3>8. CASE From(l) = n /\ To(l) = p
      <4> SUFFICES ASSUME Len(health'[n][p]) = 1
                   PROVE  health'[n][p][1].reported = health[n][p][1].reported
        BY <2>0, <3>7, <3>8 DEF HonestInv, Honest, Solo
      <4>1. i = 1
        BY <3>3, <3>7
      <4> QED BY <3>5, <3>7, <4>1
    <3>9. CASE From(l) # n \/ To(l) # p
      <4>1. health'[From(l)][To(l)] = health[From(l)][To(l)]
        BY <3>7, <3>9, LaneEnds
      <4> QED BY <2>0, <4>1 DEF HonestInv, Honest, Solo
    <3> QED BY <3>8, <3>9
  <2>3. UNCHANGED health \/ \E n \in Nodes : \E p \in Nodes \ {n} : \E i : BackoffEnds(n, p, i)
    BY <1>9 DEF Rests, AcceptStream, Quiet, Faulty, vars, linkVars
  <2> QED BY <2>1, <2>2, <2>3
<1> QED BY <1>2, <1>3, <1>4, <1>5, <1>6, <1>7, <1>8, <1>9, StepKinds

\* While one lane reports on a peer alone, and nobody forgets the peer, whoever
\* heard last that it is unreachable is right (Health, lane, forget).
THEOREM ReportsAreTrue == Spec => []ReportsMatch
<1> DEFINE Inv == Types /\ LanesGood /\ HonestInv
<1>1. Init => Inv
  BY TypesInit, HonestInit
<1>2. Inv /\ [Next]_vars => Inv'
  BY TypesStep, HonestStep
<1>3. Inv => ReportsMatch
  <2> SUFFICES ASSUME Inv, NEW n \in Nodes, NEW p \in Nodes \ {n},
                      Cardinality({l \in Lanes : From(l) = n /\ To(l) = p}) = 1,
                      \A l \in Lanes : From(l) = n /\ To(l) = p =>
                        lane[l].pc \notin {"reachable", "unreachable"},
                      Len(health[n][p]) = 1, ~health[n][p][1].reported
               PROVE  told[n][p] # "Unreachable"
    BY DEF ReportsMatch
  <2>1. IsFiniteSet({l \in Lanes : From(l) = n /\ To(l) = p})
    BY LinksAssumption, FS_Subset
  <2>2. PICK l : {o \in Lanes : From(o) = n /\ To(o) = p} = {l}
    BY <2>1, FS_Singleton
  <2>3. l \in Lanes /\ From(l) = n /\ To(l) = p /\ Solo(l)
    BY <2>2 DEF Solo
  <2> QED BY <2>3 DEF HonestInv, Honest
<1> QED BY <1>1, <1>2, <1>3, PTL DEF Spec

-----------------------------------------------------------------------------
(* Connections.                                                            *)

\* c was dialed by n to p.
Dialed(c, n, p) == pairs[c].from = n /\ pairs[c].to = p

\* c joins the incarnation of n that runs with some incarnation of p.
Mine(n, p, c) ==
  /\ c \in DOMAIN pairs /\ up[n] # 0
  /\ \/ Dialed(c, n, p) /\ pairs[c].fromGen = up[n]
     \/ Dialed(c, p, n) /\ pairs[c].toGen = up[n]

\* A handshake is of a connection that the lane's node dialed and that it has not
\* registered.
Greets(l, c) == lane[l].pc = "greeting" /\ lane[l].conn = c
GreetInv ==
  \A l \in Lanes : \A c : Greets(l, c) =>
    /\ c \in DOMAIN pairs /\ Dialed(c, From(l), To(l)) /\ pairs[c].fromGen = up[From(l)]
    /\ reg[From(l)][To(l)] # c

\* The dialing mutex.
Dials(l) == lane[l].pc \in {"calling", "greeting"}
DialInv ==
  \A l, o \in Lanes : Dials(l) /\ Dials(o) /\ From(o) = From(l) /\ To(o) = To(l) => o = l

\* A connection is open only between incarnations that both run, each of which
\* has it or is about to register it.
Joined(c) ==
  LET n == pairs[c].from  p == pairs[c].to IN
  /\ Open(c) =>
       /\ up[n] = pairs[c].fromGen /\ up[p] = pairs[c].toGen
       /\ reg[n][p] = c \/ \E l \in Lanes : Greets(l, c)
       /\ reg[p][n] = c \/ pairs[c].accept # "done"
  /\ pairs[c].accept # "done" => reg[p][n] # c
PairInv == \A c \in DOMAIN pairs : Joined(c)

RegInv ==
  \A n \in Nodes : \A p \in Nodes \ {n} : reg[n][p] # 0 =>
    Mine(n, p, reg[n][p]) /\ reg[n][p] \in receiving[n]

ConnInv == GreetInv /\ PairInv /\ RegInv

-----------------------------------------------------------------------------
(* What a step may do to connections.                                      *)

\* They are closed, and their accept ends.
Ages ==
  /\ DOMAIN pairs' = DOMAIN pairs
  /\ \A c \in DOMAIN pairs :
       /\ pairs'[c].from = pairs[c].from /\ pairs'[c].to = pairs[c].to
       /\ pairs'[c].fromGen = pairs[c].fromGen /\ pairs'[c].toGen = pairs[c].toGen
       /\ pairs'[c].open => pairs[c].open
       /\ pairs'[c].accept # "done" => pairs[c].accept # "done"

\* A handshake goes on, unless its connection was registered or closed.
GreetsOn(l) ==
  /\ lane'[l].pc = "greeting" =>
       /\ lane[l].pc = "greeting" /\ lane'[l].conn = lane[l].conn
       /\ reg'[From(l)][To(l)] # lane[l].conn
  /\ lane[l].pc = "greeting" /\ pairs'[lane[l].conn].open =>
       lane'[l].pc = "greeting" \/ reg'[From(l)][To(l)] = lane[l].conn

\* An entry is replaced when its connection is closed.
Turns(n, p) ==
  /\ \/ reg'[n][p] = reg[n][p]
     \/ /\ reg[n][p] \in DOMAIN pairs => ~pairs'[reg[n][p]].open
        /\ reg'[n][p] # 0 => Mine(n, p, reg'[n][p])
  /\ reg'[n][p] # 0 => reg'[n][p] \in receiving'[n]

\* An accept ends when its connection is registered or closed.
AcceptsOn(c) ==
  LET n == pairs[c].from  p == pairs[c].to IN
  /\ pairs'[c].accept # "done" => reg'[p][n] # c
  /\ pairs[c].accept # "done" /\ pairs'[c].accept = "done" /\ pairs'[c].open => reg'[p][n] = c

LEMMA PairEnds ==
  ASSUME Types, NEW c \in DOMAIN pairs
  PROVE  /\ pairs[c].from \in Nodes /\ pairs[c].to \in Nodes /\ pairs[c].from # pairs[c].to
         /\ pairs[c].fromGen \in Nat \ {0} /\ pairs[c].toGen \in Nat \ {0} /\ c \in Nat \ {0}
  BY PairNodes DEF PairType

LEMMA ConnKeeps ==
  ASSUME Types, ConnInv, Ages, UNCHANGED up,
         \A l \in Lanes : GreetsOn(l),
         \A n \in Nodes : \A p \in Nodes \ {n} : Turns(n, p),
         \A c \in DOMAIN pairs : AcceptsOn(c)
  PROVE  ConnInv'
<1>1. GreetInv'
  <2> SUFFICES ASSUME NEW l \in Lanes, NEW c, Greets(l, c)'
               PROVE  /\ c \in DOMAIN pairs' /\ Dialed(c, From(l), To(l))'
                      /\ pairs'[c].fromGen = up[From(l)] /\ reg'[From(l)][To(l)] # c
    BY DEF GreetInv
  <2>1. Greets(l, c) /\ reg'[From(l)][To(l)] # c
    BY DEF GreetsOn, Greets
  <2> QED BY <2>1 DEF ConnInv, GreetInv, Ages, Dialed
<1>2. ASSUME NEW c \in DOMAIN pairs PROVE Joined(c)'
  <2> DEFINE n == pairs[c].from
             p == pairs[c].to
  <2>1. /\ n \in Nodes /\ p \in Nodes \ {n} /\ n \in Nodes \ {p}
        /\ pairs'[c].from = n /\ pairs'[c].to = p
        /\ pairs'[c].fromGen = pairs[c].fromGen /\ pairs'[c].toGen = pairs[c].toGen
    BY PairEnds DEF Ages
  <2>2. Joined(c)
    BY DEF ConnInv, PairInv
  <2>3. pairs'[c].accept # "done" => reg'[p][n] # c
    BY DEF AcceptsOn
  <2>4. ASSUME pairs'[c].open
        PROVE  /\ up[n] = pairs[c].fromGen /\ up[p] = pairs[c].toGen
               /\ reg'[n][p] = c \/ \E l \in Lanes : Greets(l, c)'
               /\ reg'[p][n] = c \/ pairs'[c].accept # "done"
    <3>1. /\ Open(c) /\ up[n] = pairs[c].fromGen /\ up[p] = pairs[c].toGen
          /\ reg[n][p] = c \/ \E l \in Lanes : Greets(l, c)
          /\ reg[p][n] = c \/ pairs[c].accept # "done"
      BY <2>2, <2>4 DEF Joined, Ages, Open
    <3>2. \A m \in Nodes : \A q \in Nodes \ {m} : reg[m][q] = c => reg'[m][q] = c
      BY <2>4 DEF Turns
    <3>3. ASSUME NEW l \in Lanes, Greets(l, c) PROVE reg'[n][p] = c \/ Greets(l, c)'
      <4>1. From(l) = n /\ To(l) = p
        BY <3>3 DEF ConnInv, GreetInv, Dialed
      <4> QED BY <2>4, <3>3, <4>1 DEF GreetsOn, Greets
    <3>4. reg'[p][n] = c \/ pairs'[c].accept # "done"
      BY <2>1, <2>4, <3>1, <3>2 DEF AcceptsOn
    <3> QED BY <2>1, <3>1, <3>2, <3>3, <3>4
  <2> HIDE DEF n, p
  <2> QED BY <2>1, <2>3, <2>4 DEF Joined, Open
<1>3. RegInv'
  <2> SUFFICES ASSUME NEW n \in Nodes, NEW p \in Nodes \ {n}, reg'[n][p] # 0
               PROVE  (Mine(n, p, reg[n][p]) /\ reg[n][p] \in receiving[n])'
    BY DEF RegInv
  <2>1. Mine(n, p, reg'[n][p])
    BY DEF Turns, ConnInv, RegInv
  <2>2. reg'[n][p] \in receiving'[n]
    BY DEF Turns
  <2> QED BY <2>1, <2>2 DEF Mine, Dialed, Ages
<1> QED BY <1>1, <1>2, <1>3 DEF ConnInv, PairInv, Ages

-----------------------------------------------------------------------------
(* Each step keeps ConnInv.                                                *)

\* A handshake is neither begun nor ended.
SameGreets(l) == \A c : Greets(l, c)' <=> Greets(l, c)

LEMMA ConnRests ==
  ASSUME Types, ConnInv, UNCHANGED <<up, reg, receiving>>, Ages,
         \A l \in Lanes : SameGreets(l),
         \A c \in DOMAIN pairs : pairs'[c].accept = "done" /\ pairs'[c].open => pairs[c].accept = "done"
  PROVE  ConnInv'
<1>1. ASSUME NEW l \in Lanes PROVE GreetsOn(l)
  <2>1. ASSUME lane[l].pc = "greeting" PROVE reg[From(l)][To(l)] # lane[l].conn
    BY <2>1 DEF ConnInv, GreetInv, Greets
  <2>2. /\ lane'[l].pc = "greeting" => lane[l].pc = "greeting" /\ lane[l].conn = lane'[l].conn
        /\ lane[l].pc = "greeting" => lane'[l].pc = "greeting"
    BY DEF SameGreets, Greets
  <2> QED BY <2>1, <2>2 DEF GreetsOn
<1>2. ASSUME NEW n \in Nodes, NEW p \in Nodes \ {n} PROVE Turns(n, p)
  BY DEF ConnInv, RegInv, Turns
<1>3. ASSUME NEW c \in DOMAIN pairs PROVE AcceptsOn(c)
  BY DEF ConnInv, PairInv, Joined, Ages, AcceptsOn
<1> QED BY <1>1, <1>2, <1>3, ConnKeeps

LEMMA SamePairs ==
  ASSUME Types, UNCHANGED pairs
  PROVE  Ages
  BY DEF Ages

\* Connections that are closed.
LEMMA CloseAges ==
  ASSUME Types, NEW C, pairs' = Close(C)
  PROVE  /\ Ages
         /\ \A c \in DOMAIN pairs : /\ pairs'[c].open <=> Open(c) /\ c \notin C
                                    /\ pairs'[c].accept = pairs[c].accept
                                    /\ pairs'[c].hello = pairs[c].hello
<1>1. PairTypes
  BY DEF Types, NetTypes
<1>2. DOMAIN pairs' = DOMAIN pairs
  BY <1>1, CloseType
<1>3. ASSUME NEW c \in DOMAIN pairs
      PROVE  /\ pairs'[c].open <=> Open(c) /\ c \notin C
             /\ pairs'[c].accept = pairs[c].accept /\ pairs'[c].hello = pairs[c].hello
             /\ pairs'[c].from = pairs[c].from /\ pairs'[c].to = pairs[c].to
             /\ pairs'[c].fromGen = pairs[c].fromGen /\ pairs'[c].toGen = pairs[c].toGen
  <2>1. pairs'[c] = [pairs[c] EXCEPT !.open = @ /\ c \notin C] /\ pairs[c] \in PairType
    BY <1>1, CloseType, PairNodes
  <2> QED BY <2>1 DEF PairType, Open
<1> QED BY <1>2, <1>3 DEF Ages, Open

\* Connections that are closed, but for the accept of c, which is over.
LEMMA DoneAges ==
  ASSUME Types, NEW C, NEW c \in DOMAIN pairs, pairs' = [Close(C) EXCEPT ![c].accept = "done"]
  PROVE  /\ Ages /\ pairs'[c].accept = "done"
         /\ \A d \in DOMAIN pairs : /\ pairs'[d].open <=> Open(d) /\ d \notin C
                                    /\ d # c => pairs'[d].accept = pairs[d].accept
                                    /\ pairs'[d].hello = pairs[d].hello
<1>1. PairTypes
  BY DEF Types, NetTypes
<1> DEFINE q == Close(C)
<1>2. DOMAIN q = DOMAIN pairs /\ pairs' = [q EXCEPT ![c] = [q[c] EXCEPT !.accept = "done"]]
  BY <1>1, CloseType
<1>3. \A d \in DOMAIN pairs : q[d] = [pairs[d] EXCEPT !.open = @ /\ d \notin C] /\ q[d] \in PairType
  BY <1>1, CloseType
<1> HIDE DEF q
<1>4. DOMAIN pairs' = DOMAIN pairs
  BY <1>2
<1>5. ASSUME NEW d \in DOMAIN pairs
      PROVE  /\ pairs'[d].open <=> Open(d) /\ d \notin C
             /\ d # c => pairs'[d].accept = pairs[d].accept
             /\ d = c => pairs'[d].accept = "done"
             /\ pairs'[d].hello = pairs[d].hello
             /\ pairs'[d].from = pairs[d].from /\ pairs'[d].to = pairs[d].to
             /\ pairs'[d].fromGen = pairs[d].fromGen /\ pairs'[d].toGen = pairs[d].toGen
  <2>1. pairs[d] \in PairType
    BY PairNodes
  <2>2. PICK b \in BOOLEAN : (b <=> Open(d) /\ d \notin C) /\ q[d] = [pairs[d] EXCEPT !.open = b]
    BY <1>3 DEF Open
  <2>3. CASE d = c
    <3>1. pairs'[d] = [q[d] EXCEPT !.accept = "done"] /\ q[d] \in PairType
      BY <1>2, <1>3, <2>3
    <3>2. /\ q[d].open = b /\ q[d].hello = pairs[d].hello
          /\ q[d].from = pairs[d].from /\ q[d].to = pairs[d].to
          /\ q[d].fromGen = pairs[d].fromGen /\ q[d].toGen = pairs[d].toGen
      BY <2>1, <2>2 DEF PairType
    <3>3. /\ pairs'[d].open = b /\ pairs'[d].accept = "done" /\ pairs'[d].hello = pairs[d].hello
          /\ pairs'[d].from = pairs[d].from /\ pairs'[d].to = pairs[d].to
          /\ pairs'[d].fromGen = pairs[d].fromGen /\ pairs'[d].toGen = pairs[d].toGen
      BY <3>1, <3>2 DEF PairType
    <3> QED BY <2>2, <2>3, <3>3
  <2>4. CASE d # c
    <3>1. pairs'[d] = [pairs[d] EXCEPT !.open = b]
      BY <1>2, <2>2, <2>4
    <3>2. /\ pairs'[d].open = b /\ pairs'[d].accept = pairs[d].accept
          /\ pairs'[d].hello = pairs[d].hello
          /\ pairs'[d].from = pairs[d].from /\ pairs'[d].to = pairs[d].to
          /\ pairs'[d].fromGen = pairs[d].fromGen /\ pairs'[d].toGen = pairs[d].toGen
      BY <2>1, <3>1 DEF PairType
    <3> QED BY <2>2, <2>4, <3>2
  <2> QED BY <2>3, <2>4
<1> QED BY <1>4, <1>5 DEF Ages, Open

\* The hello or the accept of c is another.
LEMMA HelloAges ==
  ASSUME Types, NEW c \in DOMAIN pairs, Accept(c) \/ LoseHello(c)
  PROVE  /\ Ages
         /\ \A d \in DOMAIN pairs :
              /\ pairs'[d].open <=> Open(d)
              /\ pairs'[d].accept = "done" => pairs[d].accept = "done"
              /\ Accept(c) => pairs'[d].hello = pairs[d].hello \/ pairs'[d].hello = "back"
<1>1. PairTypes /\ pairs \in Seq(PairType) /\ Len(pairs) = Len(pairs) /\ pairs[c] \in PairType
  BY PairNodes DEF Types, NetTypes, PairTypes
<1>2. \E h \in {"there", "back", "lost"} : \E a \in {"queued", "replied", "done"} :
        /\ pairs' = [pairs EXCEPT ![c].hello = h, ![c].accept = a]
        /\ (pairs[c].accept = "queued" /\ a = "replied") \/ a = pairs[c].accept
        /\ Accept(c) => h = "back"
  <2>1. CASE Accept(c)
    BY <2>1 DEF Accept
  <2>2. CASE LoseHello(c) /\ ~Accept(c)
    <3>1. pairs' = [pairs EXCEPT ![c].hello = "lost"]
      BY <2>2 DEF LoseHello
    <3>2. [pairs[c] EXCEPT !.hello = "lost"] =
            [pairs[c] EXCEPT !.hello = "lost", !.accept = pairs[c].accept]
      BY <1>1 DEF PairType
    <3>3. pairs' = [pairs EXCEPT ![c].hello = "lost", ![c].accept = pairs[c].accept]
      BY <3>1, <3>2
    <3>4. pairs[c].accept \in {"queued", "replied", "done"}
      BY <1>1 DEF PairType
    <3> QED BY <2>2, <3>3, <3>4
  <2> QED BY <2>1, <2>2
<1>3. PICK h \in {"there", "back", "lost"}, a \in {"queued", "replied", "done"} :
        /\ pairs' = [pairs EXCEPT ![c].hello = h, ![c].accept = a]
        /\ (pairs[c].accept = "queued" /\ a = "replied") \/ a = pairs[c].accept
        /\ Accept(c) => h = "back"
  BY <1>2
<1>4. /\ DOMAIN pairs' = DOMAIN pairs
      /\ \A d \in DOMAIN pairs : d # c => pairs'[d] = pairs[d]
      /\ pairs'[c] = [pairs[c] EXCEPT !.hello = h, !.accept = a]
  BY <1>1, <1>3, PairPut
<1>5. ASSUME NEW d \in DOMAIN pairs
      PROVE  /\ pairs'[d].open <=> Open(d)
             /\ \/ pairs'[d].accept = pairs[d].accept
                \/ pairs[d].accept = "queued" /\ pairs'[d].accept = "replied"
             /\ Accept(c) => pairs'[d].hello = pairs[d].hello \/ pairs'[d].hello = "back"
             /\ pairs'[d].from = pairs[d].from /\ pairs'[d].to = pairs[d].to
             /\ pairs'[d].fromGen = pairs[d].fromGen /\ pairs'[d].toGen = pairs[d].toGen
  <2>1. CASE d = c
    <3>1. pairs'[d] = [pairs[d] EXCEPT !.hello = h, !.accept = a]
      BY <1>4, <2>1
    <3>0. /\ a = pairs[c].accept \/ (pairs[c].accept = "queued" /\ a = "replied")
          /\ Accept(c) => h = "back"
      BY <1>3
    <3>2. /\ (pairs'[d].open <=> pairs[d].open) /\ pairs'[d].accept = a /\ pairs'[d].hello = h
          /\ pairs'[d].from = pairs[d].from /\ pairs'[d].to = pairs[d].to
          /\ pairs'[d].fromGen = pairs[d].fromGen /\ pairs'[d].toGen = pairs[d].toGen
      BY <1>1, <2>1, <3>1 DEF PairType
    <3> QED BY <2>1, <3>0, <3>2 DEF Open
  <2>2. CASE d # c
    <3>1. pairs'[d] = pairs[d]
      BY <1>4, <2>2
    <3> QED BY <3>1 DEF Open
  <2> QED BY <2>1, <2>2
<1> QED BY <1>4, <1>5 DEF Ages, Open

\* What registering c closes.
Loser(n, p, c) == IF ~Keeps(n, p, c) THEN {c} ELSE IF Live(n, p) THEN {reg[n][p]} ELSE {}

LEMMA RegisterTurns ==
  ASSUME Types, ConnInv, NEW n \in Nodes, NEW p \in Nodes \ {n}, NEW c \in DOMAIN pairs,
         Mine(n, p, c), Register(n, p, c), Ages,
         \A d \in DOMAIN pairs : pairs'[d].open => Open(d) /\ d \notin Loser(n, p, c)
  PROVE  /\ \A m \in Nodes : \A q \in Nodes \ {m} :
              /\ Turns(m, q)
              /\ reg'[m][q] = reg[m][q] \/ (m = n /\ q = p /\ reg'[m][q] = c)
         /\ pairs'[c].open => reg'[n][p] = c
<1>0. /\ DOMAIN reg = Nodes /\ \A m \in Nodes : reg[m] \in [Nodes \ {m} -> Nat]
      /\ receiving \in [Nodes -> SUBSET Nat]
  BY DEF Types, RegTypes
<1>1. \A m \in Nodes : \A q \in Nodes \ {m} : reg[m][q] # 0 => reg[m][q] \in receiving[m]
  BY DEF ConnInv, RegInv
<1>2. CASE Keeps(n, p, c)
  <2>1. /\ reg' = [reg EXCEPT ![n][p] = c]
        /\ receiving' = [receiving EXCEPT ![n] = @ \cup {c}]
    BY <1>2 DEF Register
  <2>2. /\ reg'[n][p] = c
        /\ \A m \in Nodes : \A q \in Nodes \ {m} : m # n \/ q # p => reg'[m][q] = reg[m][q]
        /\ c \in receiving'[n] /\ \A m \in Nodes : receiving[m] \subseteq receiving'[m]
    BY <1>0, <2>1
  <2>3. ASSUME reg[n][p] \in DOMAIN pairs PROVE ~pairs'[reg[n][p]].open
    <3>1. CASE Live(n, p)
      BY <1>2, <2>3, <3>1 DEF Loser
    <3>2. CASE ~Live(n, p)
      <4>1. reg[n][p] # 0
        BY <2>3, PairNodes
      <4> QED BY <2>3, <3>2, <4>1 DEF Live
    <3> QED BY <3>1, <3>2
  <2>4. Turns(n, p)
    BY <2>2, <2>3 DEF Turns
  <2>5. ASSUME NEW m \in Nodes, NEW q \in Nodes \ {m}, m # n \/ q # p PROVE Turns(m, q)
    BY <1>1, <2>2, <2>5 DEF Turns
  <2>6. ASSUME NEW m \in Nodes, NEW q \in Nodes \ {m}
        PROVE  /\ Turns(m, q)
               /\ reg'[m][q] = reg[m][q] \/ (m = n /\ q = p /\ reg'[m][q] = c)
    <3>1. CASE m = n /\ q = p
      BY <2>2, <2>4, <3>1
    <3>2. CASE m # n \/ q # p
      BY <2>2, <2>5, <3>2
    <3> QED BY <3>1, <3>2
  <2> QED BY <2>2, <2>6
<1>3. CASE ~Keeps(n, p, c)
  <2>1. UNCHANGED <<reg, receiving>>
    BY <1>3 DEF Register
  <2>2. ~pairs'[c].open
    BY <1>3 DEF Loser
  <2> QED BY <1>1, <2>1, <2>2 DEF Turns
<1> QED BY <1>2, <1>3

LEMMA DialRegisterConn ==
  ASSUME Types, LanesGood, DialInv, ConnInv, NEW l \in Lanes, DialRegister(l)
  PROVE  ConnInv' /\ Ages
<1> DEFINE n == From(l)  p == To(l)  c == lane[l].conn
<1>1. /\ Greets(l, c) /\ Register(n, p, c) /\ pairs' = Close(Loser(n, p, c)) /\ UNCHANGED up
      /\ \A o \in Lanes : o # l => lane'[o] = lane[o]
      /\ n \in Nodes /\ p \in Nodes \ {n}
  <2>1. \A o \in Lanes : o # l => lane'[o] = lane[o]
    BY DialRegisterMoves DEF Moves
  <2> QED BY <2>1, LaneEnds DEF DialRegister, AfterRegister, Loser, Greets
<1>2. lane'[l].pc # "greeting"
  <2>1. Good(l, lane[l]) /\ lane[l].conn \in Nat /\ reg[n][p] \in Nat
    BY <1>1, LaneIs DEF Types, RegTypes, LaneType
  <2>2. lane[l].queue # <<>> /\ lane[l].health \in 1..Len(health[n][p])
    BY <1>1, <2>1 DEF Good, Greets
  <2>3. (\E d \in Nat : Connected(l, d)) \/ Failed(l)
    BY <2>1 DEF DialRegister
  <2> QED BY <2>2, <2>3, ConnectedType, FailedType DEF Types
<1>3. /\ c \in DOMAIN pairs /\ Dialed(c, n, p) /\ pairs[c].fromGen = up[n]
      /\ reg[n][p] # c /\ Mine(n, p, c)
  <2>1. /\ c \in DOMAIN pairs /\ Dialed(c, n, p) /\ pairs[c].fromGen = up[n] /\ reg[n][p] # c
    BY <1>1 DEF ConnInv, GreetInv
  <2>2. up[n] # 0
    BY <1>1 DEF LanesGood, Good, Greets
  <2> QED BY <2>1, <2>2 DEF Mine
<1>4. /\ Ages
      /\ \A d \in DOMAIN pairs : /\ pairs'[d].open <=> Open(d) /\ d \notin Loser(n, p, c)
                                 /\ pairs'[d].accept = pairs[d].accept
  BY <1>1, CloseAges
<1>5. /\ \A m \in Nodes : \A q \in Nodes \ {m} :
           /\ Turns(m, q)
           /\ reg'[m][q] = reg[m][q] \/ (m = n /\ q = p /\ reg'[m][q] = c)
      /\ pairs'[c].open => reg'[n][p] = c
  <2> HIDE DEF n, p, c
  <2> QED BY <1>1, <1>3, <1>4, RegisterTurns
<1>6. ASSUME NEW o \in Lanes PROVE GreetsOn(o)
  <2>1. CASE o = l
    BY <1>1, <1>2, <1>5, <2>1 DEF GreetsOn
  <2>2. CASE o # l
    <3> SUFFICES ASSUME lane[o].pc = "greeting" PROVE reg'[From(o)][To(o)] # lane[o].conn
      BY <1>1, <2>2 DEF GreetsOn
    <3>1. reg[From(o)][To(o)] # lane[o].conn /\ Dialed(lane[o].conn, From(o), To(o))
      BY DEF ConnInv, GreetInv, Greets
    <3>2. ~(From(o) = n /\ To(o) = p)
      BY <1>1, <2>2 DEF DialInv, Dials, Greets
    <3>3. From(o) \in Nodes /\ To(o) \in Nodes \ {From(o)}
      BY LaneEnds
    <3> QED BY <1>5, <3>1, <3>2, <3>3
  <2> QED BY <2>1, <2>2
<1>7. ASSUME NEW d \in DOMAIN pairs PROVE AcceptsOn(d)
  <2>1. /\ pairs[d].from \in Nodes /\ pairs[d].to \in Nodes /\ pairs[d].from # pairs[d].to
    BY PairEnds
  <2>2. pairs[d].accept # "done" => reg[pairs[d].to][pairs[d].from] # d
    BY DEF ConnInv, PairInv, Joined
  <2>3. d = c => pairs[d].from = n /\ n # p
    BY <1>1, <1>3 DEF Dialed
  <2>4. reg'[pairs[d].to][pairs[d].from] = d => reg[pairs[d].to][pairs[d].from] = d
    BY <1>1, <1>5, <2>1, <2>3
  <2> QED BY <1>4, <2>2, <2>4 DEF AcceptsOn
<1> QED BY <1>1, <1>4, <1>5, <1>6, <1>7, ConnKeeps

LEMMA AcceptRegisterConn ==
  ASSUME Types, ConnInv, NEW c \in DOMAIN pairs, AcceptRegister(c)
  PROVE  /\ ConnInv' /\ Ages
         /\ reg[pairs[c].to][pairs[c].from] # c
         /\ \A d \in DOMAIN pairs :
              /\ pairs'[d].open <=> Open(d) /\ d \notin Loser(pairs[c].to, pairs[c].from, c)
              /\ pairs'[d].hello = pairs[d].hello
<1> DEFINE n == pairs[c].to  p == pairs[c].from
<1>1. /\ pairs[c].accept = "replied" /\ up[n] = pairs[c].toGen
      /\ Register(n, p, c) /\ pairs' = [Close(Loser(n, p, c)) EXCEPT ![c].accept = "done"]
      /\ UNCHANGED <<up, lane>> /\ n \in Nodes /\ p \in Nodes \ {n}
  BY PairEnds DEF AcceptRegister, AfterRegister, Loser
<1>2. Mine(n, p, c) /\ reg[n][p] # c
  <2>1. up[n] # 0
    BY <1>1, PairEnds
  <2> QED BY <1>1, <2>1 DEF Mine, Dialed, ConnInv, PairInv, Joined
<1>4. /\ Ages /\ pairs'[c].accept = "done"
      /\ \A d \in DOMAIN pairs : /\ pairs'[d].open <=> Open(d) /\ d \notin Loser(n, p, c)
                                 /\ d # c => pairs'[d].accept = pairs[d].accept
                                 /\ pairs'[d].hello = pairs[d].hello
  <2> HIDE DEF n, p
  <2> QED BY <1>1, DoneAges
<1>5. /\ \A m \in Nodes : \A q \in Nodes \ {m} :
           /\ Turns(m, q)
           /\ reg'[m][q] = reg[m][q] \/ (m = n /\ q = p /\ reg'[m][q] = c)
      /\ pairs'[c].open => reg'[n][p] = c
  <2> HIDE DEF n, p
  <2> QED BY <1>1, <1>2, <1>4, RegisterTurns
<1>6. ASSUME NEW o \in Lanes PROVE GreetsOn(o)
  <2> SUFFICES ASSUME lane[o].pc = "greeting" PROVE reg'[From(o)][To(o)] # lane[o].conn
    BY <1>1 DEF GreetsOn
  <2>1. reg[From(o)][To(o)] # lane[o].conn /\ Dialed(lane[o].conn, From(o), To(o))
    BY DEF ConnInv, GreetInv, Greets
  <2>2. From(o) \in Nodes /\ To(o) \in Nodes \ {From(o)}
    BY LaneEnds
  <2>3. lane[o].conn = c => From(o) = p
    BY <2>1 DEF Dialed
  <2> QED BY <1>1, <1>5, <2>1, <2>2, <2>3
<1>7. ASSUME NEW d \in DOMAIN pairs PROVE AcceptsOn(d)
  <2>1. /\ pairs[d].from \in Nodes /\ pairs[d].to \in Nodes /\ pairs[d].from # pairs[d].to
    BY PairEnds
  <2>2. pairs[d].accept # "done" => reg[pairs[d].to][pairs[d].from] # d
    BY DEF ConnInv, PairInv, Joined
  <2>3. CASE d = c
    BY <1>4, <1>5, <2>3 DEF AcceptsOn
  <2>4. CASE d # c
    <3>1. reg'[pairs[d].to][pairs[d].from] = d => reg[pairs[d].to][pairs[d].from] = d
      BY <1>5, <2>1, <2>4
    <3> QED BY <1>4, <2>2, <2>4, <3>1 DEF AcceptsOn
  <2> QED BY <2>3, <2>4
<1>8. ConnInv'
  BY <1>1, <1>4, <1>5, <1>6, <1>7, ConnKeeps
<1> QED BY <1>2, <1>4, <1>8

\* The step closes connections and leaves entries out that it closed.
LEMMA CutConn ==
  ASSUME Types, ConnInv, Ages, UNCHANGED up,
         \A l \in Lanes : \A c : Greets(l, c)' => Greets(l, c),
         \A l \in Lanes : \A c \in DOMAIN pairs :
           Greets(l, c) /\ pairs'[c].open => lane'[l].pc = "greeting",
         \A n \in Nodes : \A p \in Nodes \ {n} :
           /\ \/ reg'[n][p] = reg[n][p]
              \/ reg'[n][p] = 0 /\ (reg[n][p] \in DOMAIN pairs => ~pairs'[reg[n][p]].open)
           /\ reg'[n][p] # 0 => reg'[n][p] \in receiving'[n],
         \A c \in DOMAIN pairs : pairs'[c].open /\ pairs'[c].accept = "done" => pairs[c].accept = "done"
  PROVE  ConnInv'
<1>1. ASSUME NEW l \in Lanes PROVE GreetsOn(l)
  <2>0. From(l) \in Nodes /\ To(l) \in Nodes \ {From(l)}
    BY LaneEnds
  <2>1. ASSUME lane[l].pc = "greeting"
        PROVE  lane[l].conn \in DOMAIN pairs /\ reg'[From(l)][To(l)] # lane[l].conn
    <3>1. lane[l].conn \in DOMAIN pairs /\ reg[From(l)][To(l)] # lane[l].conn
      BY <2>1 DEF ConnInv, GreetInv, Greets
    <3>2. lane[l].conn # 0
      BY <3>1, PairEnds
    <3> QED BY <2>0, <3>1, <3>2
  <2>2. lane'[l].pc = "greeting" => lane[l].pc = "greeting" /\ lane[l].conn = lane'[l].conn
    BY DEF Greets
  <2>3. lane[l].pc = "greeting" /\ pairs'[lane[l].conn].open => lane'[l].pc = "greeting"
    BY <2>1 DEF Greets
  <2> QED BY <2>1, <2>2, <2>3 DEF GreetsOn
<1>2. ASSUME NEW n \in Nodes, NEW p \in Nodes \ {n} PROVE Turns(n, p)
  BY DEF Turns
<1>3. ASSUME NEW c \in DOMAIN pairs PROVE AcceptsOn(c)
  <2>1. pairs[c].accept # "done" => reg[pairs[c].to][pairs[c].from] # c
    BY DEF ConnInv, PairInv, Joined
  <2>2. c # 0 /\ pairs[c].from \in Nodes /\ pairs[c].to \in Nodes /\ pairs[c].from # pairs[c].to
    BY PairEnds
  <2>3. reg'[pairs[c].to][pairs[c].from] = c => reg[pairs[c].to][pairs[c].from] = c
    BY <2>2
  <2> QED BY <2>1, <2>3 DEF Ages, AcceptsOn
<1> QED BY <1>1, <1>2, <1>3, ConnKeeps

LEMMA UnregisterReg ==
  ASSUME Types, NEW n \in Nodes, NEW p \in Nodes \ {n}, NEW c, Unregister(n, p, c)
  PROVE  \A m \in Nodes : \A q \in Nodes \ {m} :
           /\ reg'[m][q] = reg[m][q] \/ (reg'[m][q] = 0 /\ reg[m][q] = c)
           /\ m = n /\ q = p => reg'[m][q] # c \/ c = 0
<1>1. DOMAIN reg = Nodes /\ \A m \in Nodes : reg[m] \in [Nodes \ {m} -> Nat]
  BY DEF Types, RegTypes
<1>2. CASE reg[n][p] = c
  <2>1. reg' = [reg EXCEPT ![n][p] = 0]
    BY <1>2 DEF Unregister
  <2>2. /\ reg'[n][p] = 0
        /\ \A m \in Nodes : \A q \in Nodes \ {m} : m # n \/ q # p => reg'[m][q] = reg[m][q]
    BY <1>1, <2>1
  <2> QED BY <1>2, <2>2
<1>3. CASE reg[n][p] # c
  BY <1>3 DEF Unregister
<1> QED BY <1>2, <1>3

\* A lane's step other than those that dial and register.
LEMMA FailConn ==
  ASSUME Types, LanesGood, ConnInv, NEW l \in Lanes, DialFails(l)
  PROVE  ConnInv'
<1>1. /\ pairs' = Close({lane[l].conn}) /\ UNCHANGED <<up, reg, receiving>>
      /\ \A o \in Lanes : o # l => lane'[o] = lane[o]
  BY DialFailsMoves DEF DialFails, Moves
<1>2. lane'[l].pc # "greeting"
  <2>1. Good(l, lane[l]) /\ Failed(l) /\ lane[l].pc \in {"calling", "greeting"}
    BY LaneIs DEF DialFails
  <2>2. lane[l].queue # <<>> /\ lane[l].health \in 1..Len(health[From(l)][To(l)])
    BY <2>1 DEF Good
  <2> QED BY <2>1, <2>2, FailedType DEF Types
<1>3. /\ Ages
      /\ \A c \in DOMAIN pairs : /\ pairs'[c].open <=> Open(c) /\ c \notin {lane[l].conn}
                                 /\ pairs'[c].accept = pairs[c].accept
  BY <1>1, CloseAges
<1>4. \A o \in Lanes : \A c : Greets(o, c)' => Greets(o, c)
  BY <1>1, <1>2 DEF Greets
<1>5. \A o \in Lanes : \A c \in DOMAIN pairs :
        Greets(o, c) /\ pairs'[c].open => lane'[o].pc = "greeting"
  BY <1>1, <1>3 DEF Greets
<1>6. \A n \in Nodes : \A p \in Nodes \ {n} : reg'[n][p] # 0 => reg'[n][p] \in receiving'[n]
  BY <1>1 DEF ConnInv, RegInv
<1> QED BY <1>1, <1>3, <1>4, <1>5, <1>6, CutConn

LEMMA DropIdle ==
  ASSUME LaneTypes, NEW l \in Lanes, lane[l].queue # <<>>
  PROVE  Drop(l) \in [Lanes -> LaneType] /\ Drop(l)[l].pc = "idle"
<1>1. lane[l] \in LaneType
  BY DEF LaneTypes
<1>2. Drop(l)[l] = [lane[l] EXCEPT !.pc = "idle", !.queue = Tail(@), !.conn = 0, !.target = 0]
  BY DropType
<1>3. [lane[l] EXCEPT !.pc = "idle", !.queue = Tail(@), !.conn = 0, !.target = 0].pc = "idle"
  BY <1>1 DEF LaneType
<1>4. Drop(l) \in [Lanes -> LaneType]
  BY DropType
<1> QED BY <1>2, <1>3, <1>4

LEMMA SendConn ==
  ASSUME Types, LanesGood, ConnInv, NEW l \in Lanes, Send(l)
  PROVE  ConnInv'
<1>1. /\ UNCHANGED <<up, pairs, receiving>> /\ lane[l].pc = "send"
      /\ \A o \in Lanes : o # l => lane'[o] = lane[o]
  BY SendMoves DEF Send, Moves
<1>2. lane'[l].pc # "greeting"
  <2>1. lane[l].queue # <<>>
    BY <1>1 DEF LanesGood, Good
  <2>2. \E s : lane' = [Drop(l) EXCEPT ![l].stream = s]
    BY DEF Send
  <2>3. Drop(l) \in [Lanes -> LaneType] /\ Drop(l)[l].pc = "idle"
    BY <2>1, DropIdle DEF Types
  <2>4. PICK s : lane' = [Drop(l) EXCEPT ![l].stream = s]
    BY <2>2
  <2> DEFINE d == Drop(l)
  <2>5. lane' = [d EXCEPT ![l] = [d[l] EXCEPT !.stream = s]]
    BY <2>4
  <2>6. d \in [Lanes -> LaneType] /\ d[l].pc = "idle" /\ d[l] \in LaneType
    BY <2>3
  <2> HIDE DEF d
  <2> QED BY <2>5, <2>6 DEF LaneType
<1>3. Ages
  BY <1>1, SamePairs
<1>4. \A o \in Lanes : \A c : Greets(o, c)' <=> Greets(o, c)
  BY <1>1, <1>2 DEF Greets
<1>5. \A n \in Nodes : \A p \in Nodes \ {n} :
        \/ reg'[n][p] = reg[n][p]
        \/ reg'[n][p] = 0 /\ (reg[n][p] \in DOMAIN pairs => ~pairs'[reg[n][p]].open)
  <2>1. UNCHANGED reg \/ (~Open(lane[l].conn) /\ Unregister(From(l), To(l), lane[l].conn))
    BY DEF Send
  <2> QED BY <1>1, <2>1, LaneEnds, UnregisterReg DEF Open
<1>6. \A n \in Nodes : \A p \in Nodes \ {n} : reg'[n][p] # 0 => reg'[n][p] \in receiving'[n]
  BY <1>1, <1>5 DEF ConnInv, RegInv
<1>7. \A o \in Lanes : \A c \in DOMAIN pairs : Greets(o, c) => lane'[o].pc = "greeting"
  BY <1>4 DEF Greets
<1> QED BY <1>1, <1>3, <1>4, <1>5, <1>6, <1>7, CutConn

LEMMA ArriveConn ==
  ASSUME Types, LanesGood, ConnInv, NEW l \in Lanes, Arrive(l), up[To(l)] = lane[l].target,
         pairs' = NewPair(From(l), To(l), up[To(l)]),
         lane' = [lane EXCEPT ![l].pc = "greeting", ![l].conn = Len(pairs')]
  PROVE  /\ ConnInv'
         /\ \E c : /\ c \notin DOMAIN pairs /\ DOMAIN pairs' = DOMAIN pairs \cup {c}
                   /\ pairs'[c] = Pair(From(l), To(l), up[To(l)])
         /\ \A d \in DOMAIN pairs : pairs'[d] = pairs[d]
<1> DEFINE n == From(l)  p == To(l)  c == Len(pairs) + 1
<1>1. /\ lane[l].pc = "calling" /\ UNCHANGED <<up, reg, receiving>>
      /\ n \in Nodes /\ p \in Nodes \ {n} /\ p # n
  BY LaneEnds DEF Arrive
<1>2. /\ pairs \in Seq(PairType) /\ Len(pairs) \in Nat /\ DOMAIN pairs = 1..Len(pairs)
  BY LenProperties DEF Types, NetTypes, PairTypes
<1>3. /\ pairs' = Append(pairs, Pair(n, p, up[p])) /\ Len(pairs') = c
      /\ DOMAIN pairs' = DOMAIN pairs \cup {c} /\ c \notin DOMAIN pairs
      /\ pairs'[c] = Pair(n, p, up[p]) /\ \A d \in DOMAIN pairs : pairs'[d] = pairs[d]
  <2> DEFINE x == Pair(n, p, up[p])
  <2>1. pairs' = Append(pairs, x)
    BY DEF NewPair
  <2>2. x \in PairType
    <3>1. PairTypes'
      BY ArriveMoves
    <3>2. up[n] # 0 /\ up[p] # 0
      BY <1>1 DEF LanesGood, Good
    <3> QED BY <1>1, <3>2 DEF Pair, PairType, Types, NetTypes
  <2> HIDE DEF x
  <2>3. /\ Append(pairs, x) \in Seq(PairType) /\ Len(Append(pairs, x)) = Len(pairs) + 1
        /\ Append(pairs, x)[Len(pairs) + 1] = x
        /\ \A i \in 1..Len(pairs) : Append(pairs, x)[i] = pairs[i]
    BY <1>2, <2>2, AppendProperties
  <2>4. DOMAIN pairs' = 1..(Len(pairs) + 1)
    BY <2>1, <2>3, LenProperties
  <2>5. 1..(Len(pairs) + 1) = 1..Len(pairs) \cup {Len(pairs) + 1} /\ Len(pairs) + 1 \notin 1..Len(pairs)
    BY <1>2
  <2> QED BY <1>2, <2>1, <2>3, <2>4, <2>5 DEF x
<1>4. /\ lane'[l].pc = "greeting" /\ lane'[l].conn = c
      /\ \A o \in Lanes : o # l => lane'[o] = lane[o]
  <2>1. lane[l] \in LaneType /\ lane \in [Lanes -> LaneType]
    BY LaneIs DEF Types, LaneTypes
  <2>2. lane' = [lane EXCEPT ![l] = [lane[l] EXCEPT !.pc = "greeting", !.conn = c]]
    BY <1>3
  <2> HIDE DEF c
  <2> QED BY <2>1, <2>2 DEF LaneType
<1>5. /\ pairs'[c].from = n /\ pairs'[c].to = p /\ pairs'[c].fromGen = up[n]
      /\ pairs'[c].toGen = up[p] /\ pairs'[c].accept = "queued"
  BY <1>3 DEF Pair
<1> HIDE DEF n, p, c
<1>6. \A m \in Nodes : \A q \in Nodes \ {m} : reg[m][q] # c
  <2>1. ASSUME NEW m \in Nodes, NEW q \in Nodes \ {m}, reg[m][q] # 0
        PROVE reg[m][q] \in DOMAIN pairs
    BY <2>1 DEF ConnInv, RegInv, Mine
  <2>2. c # 0
    BY <1>2 DEF c
  <2> QED BY <1>3, <2>1, <2>2
<1>7. GreetInv'
  <2> SUFFICES ASSUME NEW o \in Lanes, NEW d, Greets(o, d)'
               PROVE  /\ d \in DOMAIN pairs' /\ Dialed(d, From(o), To(o))'
                      /\ pairs'[d].fromGen = up[From(o)] /\ reg[From(o)][To(o)] # d
    BY <1>1 DEF GreetInv
  <2>1. CASE o = l
    BY <1>1, <1>3, <1>4, <1>5, <1>6, <2>1 DEF Greets, Dialed, n, p
  <2>2. CASE o # l
    <3>1. Greets(o, d)
      BY <1>4, <2>2 DEF Greets
    <3> QED BY <1>3, <3>1 DEF ConnInv, GreetInv, Dialed
  <2> QED BY <2>1, <2>2
<1>8. ASSUME NEW d \in DOMAIN pairs' PROVE Joined(d)'
  <2>1. CASE d = c
    <3>1. Greets(l, d)'
      BY <1>4, <2>1 DEF Greets
    <3>2. reg'[p][n] # d
      BY <1>1, <1>6, <2>1
    <3> QED BY <1>1, <1>5, <2>1, <3>1, <3>2 DEF Joined
  <2>2. CASE d # c
    <3>1. d \in DOMAIN pairs /\ pairs'[d] = pairs[d] /\ Joined(d)
      BY <1>3, <2>2 DEF ConnInv, PairInv
    <3>2. ASSUME NEW o \in Lanes, Greets(o, d) PROVE Greets(o, d)'
      <4>1. o # l
        BY <1>1, <3>2 DEF Greets
      <4> QED BY <1>4, <3>2, <4>1 DEF Greets
    <3> QED BY <1>1, <3>1, <3>2 DEF Joined, Open
  <2> QED BY <2>1, <2>2
<1>9. RegInv'
  <2> SUFFICES ASSUME NEW m \in Nodes, NEW q \in Nodes \ {m}, reg'[m][q] # 0
               PROVE  (Mine(m, q, reg[m][q]) /\ reg[m][q] \in receiving[m])'
    BY DEF RegInv
  <2>1. Mine(m, q, reg[m][q]) /\ reg[m][q] \in receiving[m]
    BY <1>1 DEF ConnInv, RegInv
  <2> QED BY <1>1, <1>3, <2>1 DEF Mine, Dialed
<1>10. ConnInv'
  BY <1>7, <1>8, <1>9 DEF ConnInv, PairInv
<1>11. pairs'[c] = Pair(From(l), To(l), up[To(l)])
  BY <1>3 DEF n, p
<1> QED BY <1>3, <1>10, <1>11

LEMMA GoesConn ==
  ASSUME Types, LanesGood, ConnInv, NEW n \in Nodes, Goes(n)
  PROVE  ConnInv'
<1>1. /\ up[n] # 0 /\ up' = [up EXCEPT ![n] = 0] /\ pairs' = Close(Own(n)) /\ Aborted(n)
  BY DEF Goes, DropEndpoint
<1>2. /\ up'[n] = 0 /\ \A m \in Nodes : m # n => up'[m] = up[m]
  BY <1>1 DEF Types, NetTypes
<1>3. /\ \A l \in Lanes : lane'[l] = IF From(l) = n THEN LaneOff ELSE lane[l]
      /\ \A m \in Nodes : m # n => reg'[m] = reg[m] /\ receiving'[m] = receiving[m]
      /\ \A p \in Nodes \ {n} : reg'[n][p] = 0
  <2>1. \A l \in Lanes : lane'[l] = IF From(l) = n THEN LaneOff ELSE lane[l]
    BY <1>1, AbortedTypes
  <2>2. \A m \in Nodes : m # n => /\ health'[m] = health[m] /\ told'[m] = told[m]
                                  /\ reg'[m] = reg[m] /\ receiving'[m] = receiving[m]
    BY <1>1, AbortedTypes
  <2>3. \A p \in Nodes \ {n} : /\ health'[n][p] = <<Healthy>> /\ told'[n][p] = "nothing"
                               /\ reg'[n][p] = 0
    BY <1>1, AbortedTypes
  <2> QED BY <2>1, <2>2, <2>3
<1>4. /\ Ages
      /\ \A c \in DOMAIN pairs : /\ pairs'[c].open <=> Open(c) /\ c \notin Own(n)
                                 /\ pairs'[c].accept = pairs[c].accept
  BY <1>1, CloseAges
<1>5. ASSUME NEW l \in Lanes, NEW c, Greets(l, c)' PROVE From(l) # n /\ Greets(l, c)
  BY <1>3, <1>5 DEF Greets, LaneOff
<1>6. GreetInv'
  <2> SUFFICES ASSUME NEW l \in Lanes, NEW c, Greets(l, c)'
               PROVE  /\ c \in DOMAIN pairs' /\ Dialed(c, From(l), To(l))'
                      /\ pairs'[c].fromGen = up'[From(l)] /\ reg'[From(l)][To(l)] # c
    BY DEF GreetInv
  <2>1. From(l) # n /\ Greets(l, c) /\ From(l) \in Nodes
    BY <1>5, LaneEnds
  <2> QED BY <1>2, <1>3, <1>4, <2>1 DEF ConnInv, GreetInv, Ages, Dialed
<1>7. ASSUME NEW c \in DOMAIN pairs PROVE Joined(c)'
  <2> DEFINE x == pairs[c].from
             y == pairs[c].to
  <2>1. /\ x \in Nodes /\ y \in Nodes /\ x # y /\ c # 0
        /\ pairs'[c].from = x /\ pairs'[c].to = y
        /\ pairs'[c].fromGen = pairs[c].fromGen /\ pairs'[c].toGen = pairs[c].toGen
        /\ pairs'[c].accept = pairs[c].accept
    BY <1>4, PairEnds DEF Ages
  <2>2. Joined(c)
    BY DEF ConnInv, PairInv
  <2>3. pairs'[c].accept # "done" => reg'[y][x] # c
    <3>1. pairs[c].accept # "done" => reg[y][x] # c
      BY <2>2 DEF Joined
    <3>2. reg'[y][x] = reg[y][x] \/ reg'[y][x] = 0
      <4>1. CASE y = n
        BY <1>3, <2>1, <4>1
      <4>2. CASE y # n
        BY <1>3, <2>1, <4>2
      <4> QED BY <4>1, <4>2
    <3> QED BY <2>1, <3>1, <3>2
  <2>4. ASSUME pairs'[c].open PROVE Open(c) /\ x # n /\ y # n
    <3>1. Open(c) /\ c \notin Own(n)
      BY <1>4, <2>4
    <3>2. up[x] = pairs[c].fromGen /\ up[y] = pairs[c].toGen
      BY <2>2, <3>1 DEF Joined
    <3> QED BY <1>1, <2>1, <3>1, <3>2 DEF Own, GenAt
  <2>5. ASSUME pairs'[c].open
        PROVE  /\ up'[x] = pairs[c].fromGen /\ up'[y] = pairs[c].toGen
               /\ reg'[x][y] = c \/ \E l \in Lanes : Greets(l, c)'
               /\ reg'[y][x] = c \/ pairs[c].accept # "done"
    <3>1. /\ up[x] = pairs[c].fromGen /\ up[y] = pairs[c].toGen
          /\ reg[x][y] = c \/ \E l \in Lanes : Greets(l, c)
          /\ reg[y][x] = c \/ pairs[c].accept # "done"
      BY <2>2, <2>4, <2>5 DEF Joined
    <3>2. ASSUME NEW l \in Lanes, Greets(l, c) PROVE Greets(l, c)'
      <4>1. From(l) = x
        BY <3>2 DEF ConnInv, GreetInv, Dialed
      <4> QED BY <1>3, <2>4, <2>5, <3>2, <4>1 DEF Greets
    <3> QED BY <1>2, <1>3, <2>1, <2>4, <2>5, <3>1, <3>2
  <2> HIDE DEF x, y
  <2> QED BY <2>1, <2>3, <2>5 DEF Joined, Open
<1>8. RegInv'
  <2> SUFFICES ASSUME NEW m \in Nodes, NEW p \in Nodes \ {m}, reg'[m][p] # 0
               PROVE  (Mine(m, p, reg[m][p]) /\ reg[m][p] \in receiving[m])'
    BY DEF RegInv
  <2>1. m # n
    BY <1>3
  <2>2. /\ reg'[m] = reg[m] /\ receiving'[m] = receiving[m] /\ up'[m] = up[m]
        /\ Mine(m, p, reg[m][p]) /\ reg[m][p] \in receiving[m]
    BY <1>2, <1>3, <2>1 DEF ConnInv, RegInv
  <2> QED BY <1>4, <2>2 DEF Mine, Dialed, Ages
<1> QED BY <1>4, <1>6, <1>7, <1>8 DEF ConnInv, PairInv, Ages

LEMMA BindConn ==
  ASSUME Types, LanesGood, ConnInv, NEW n \in Nodes, Quiet(Bind(n))
  PROVE  ConnInv'
<1>1. /\ up[n] = 0 /\ UNCHANGED <<pairs, linkVars>>
      /\ up' = [up EXCEPT ![n] = born'[n]]
  BY DEF Quiet, Bind
<1>2. \A m \in Nodes : m # n => up'[m] = up[m]
  BY <1>1 DEF Types, NetTypes
<1>3. UNCHANGED <<reg, receiving, lane, pairs>>
  BY <1>1 DEF linkVars
<1>4. GreetInv'
  <2> SUFFICES ASSUME NEW l \in Lanes, NEW c, Greets(l, c)
               PROVE  /\ c \in DOMAIN pairs /\ Dialed(c, From(l), To(l))
                      /\ pairs[c].fromGen = up'[From(l)] /\ reg[From(l)][To(l)] # c
    BY <1>3 DEF GreetInv, Greets, Dialed
  <2>1. up[From(l)] # 0 /\ From(l) \in Nodes
    BY LaneEnds DEF LanesGood, Good, Greets
  <2> QED BY <1>1, <1>2, <2>1 DEF ConnInv, GreetInv
<1>5. ASSUME NEW c \in DOMAIN pairs PROVE Joined(c)'
  <2>1. pairs[c].from \in Nodes /\ pairs[c].to \in Nodes
        /\ pairs[c].fromGen # 0 /\ pairs[c].toGen # 0 /\ Joined(c)
    BY PairEnds DEF ConnInv, PairInv
  <2> QED BY <1>1, <1>2, <1>3, <2>1 DEF Joined, Open, Greets
<1>6. RegInv'
  <2> SUFFICES ASSUME NEW m \in Nodes, NEW p \in Nodes \ {m}, reg[m][p] # 0
               PROVE  Mine(m, p, reg[m][p])' /\ reg[m][p] \in receiving[m]
    BY <1>3 DEF RegInv
  <2>1. Mine(m, p, reg[m][p]) /\ reg[m][p] \in receiving[m] /\ m # n
    BY <1>1 DEF ConnInv, RegInv, Mine
  <2> QED BY <1>2, <1>3, <2>1 DEF Mine, Dialed
<1> QED BY <1>3, <1>4, <1>5, <1>6 DEF ConnInv, PairInv

\* How a lane comes to dial.
LEMMA LaneDials ==
  ASSUME Types, LanesGood, NEW l \in Lanes, LaneStep(l)
  PROVE  /\ \A o \in Lanes : o # l => lane'[o] = lane[o]
         /\ \/ Connect(l) /\ lane[l].pc \in {"idle", "waiting"} /\ lane'[l].pc # "greeting"
               /\ (lane'[l].pc = "calling" =>
                     ~Live(From(l), To(l)) /\ ~Dialing(From(l), To(l)))
            \/ Arrive(l) /\ lane[l].pc = "calling" /\ lane'[l].pc # "calling"
            \/ DialRegister(l) /\ ~Dials(l)'
            \/ DialFails(l) /\ ~Dials(l)'
            \/ Report(l) /\ ~Dials(l) /\ ~Dials(l)'
            \/ Send(l) /\ ~Dials(l) /\ ~Dials(l)'
            \/ Finish(l) /\ ~Dials(l) /\ ~Dials(l)'
<1>0. /\ lane[l] \in LaneType /\ Good(l, lane[l]) /\ reg[From(l)][To(l)] \in Nat
      /\ lane \in [Lanes -> LaneType]
      /\ \A o \in Lanes : o # l => lane'[o] = lane[o]
  BY LaneIs, LaneEnds, LaneStepTypes DEF Types, RegTypes, LaneTypes, Moves
<1>1. ASSUME Failed(l), lane[l].queue # <<>>, lane[l].pc # "off"
      PROVE  lane'[l].pc \in {"idle", "unreachable"}
  <2>1. lane[l].health \in 1..Len(health[From(l)][To(l)])
    BY <1>0, <1>1 DEF Good
  <2> QED BY <1>1, <2>1, FailedType DEF Types
<1>2. ASSUME NEW c \in Nat, Connected(l, c), lane[l].pc # "off"
      PROVE  lane'[l].pc \in {"reachable", "send"}
  <2>1. lane[l].health \in 1..Len(health[From(l)][To(l)])
    BY <1>0, <1>2 DEF Good
  <2> QED BY <1>2, <2>1, ConnectedType DEF Types
<1>3. CASE Connect(l)
  <2>1. lane[l].pc \in {"idle", "waiting"} /\ lane[l].queue # <<>>
    BY <1>3 DEF Connect
  <2>2. \/ lane' = Drop(l)
        \/ Connected(l, reg[From(l)][To(l)])
        \/ lane' = [lane EXCEPT ![l].pc = "waiting"]
        \/ /\ ~Live(From(l), To(l)) /\ ~Dialing(From(l), To(l))
           /\ lane' = [lane EXCEPT ![l].pc = "calling", ![l].target = up[To(l)]]
        \/ Failed(l)
    BY <1>3 DEF Connect
  <2>3. CASE lane' = Drop(l)
    <3>1. lane'[l].pc = "idle"
      BY <2>1, <2>3, DropIdle DEF Types
    <3> QED BY <1>0, <1>3, <2>1, <3>1
  <2>4. CASE lane' = [lane EXCEPT ![l].pc = "waiting"]
    <3>1. lane'[l].pc = "waiting"
      BY <1>0, <2>4 DEF LaneType
    <3> QED BY <1>0, <1>3, <2>1, <3>1
  <2>5. CASE /\ ~Live(From(l), To(l)) /\ ~Dialing(From(l), To(l))
             /\ lane' = [lane EXCEPT ![l].pc = "calling", ![l].target = up[To(l)]]
    <3>1. lane'[l].pc = "calling"
      BY <1>0, <2>5 DEF LaneType
    <3> QED BY <1>0, <1>3, <2>1, <2>5, <3>1
  <2>6. CASE Connected(l, reg[From(l)][To(l)])
    <3>1. lane'[l].pc \in {"reachable", "send"}
      BY <1>0, <1>2, <2>1, <2>6
    <3> QED BY <1>0, <1>3, <2>1, <3>1
  <2>7. CASE Failed(l)
    <3>1. lane'[l].pc \in {"idle", "unreachable"}
      BY <1>1, <2>1, <2>7
    <3> QED BY <1>0, <1>3, <2>1, <3>1
  <2> QED BY <2>2, <2>3, <2>4, <2>5, <2>6, <2>7
<1>4. CASE Arrive(l)
  <2>1. lane[l].pc = "calling" /\ lane[l].queue # <<>>
    BY <1>0, <1>4 DEF Arrive, Good
  <2>2. CASE lane' = [lane EXCEPT ![l].pc = "greeting", ![l].conn = Len(pairs')]
    <3>1. lane'[l].pc = "greeting"
      BY <1>0, <2>2 DEF LaneType
    <3> QED BY <1>0, <1>4, <2>1, <3>1
  <2>3. CASE Failed(l)
    <3>1. lane'[l].pc \in {"idle", "unreachable"}
      BY <1>1, <2>1, <2>3
    <3> QED BY <1>0, <1>4, <2>1, <3>1
  <2> QED BY <1>4, <2>2, <2>3 DEF Arrive
<1>5. CASE DialRegister(l)
  <2>1. lane[l].pc = "greeting" /\ lane[l].queue # <<>> /\ lane[l].conn \in Nat
    BY <1>0, <1>5 DEF DialRegister, Good, LaneType
  <2>2. (\E c \in Nat : Connected(l, c)) \/ Failed(l)
    BY <1>0, <1>5, <2>1 DEF DialRegister
  <2>3. lane'[l].pc \in {"reachable", "send", "idle", "unreachable"}
    BY <1>1, <1>2, <2>1, <2>2
  <2> QED BY <1>0, <1>5, <2>3 DEF Dials
<1>6. CASE DialFails(l)
  <2>1. lane[l].pc \in {"greeting", "calling"} /\ lane[l].queue # <<>> /\ Failed(l)
    BY <1>0, <1>6 DEF DialFails, Good
  <2>2. lane'[l].pc \in {"idle", "unreachable"}
    BY <1>1, <2>1
  <2> QED BY <1>0, <1>6, <2>2 DEF Dials
<1>7. CASE Report(l)
  <2>1. lane[l].pc \in {"reachable", "unreachable"} /\ lane'[l].pc \in {"send", "idle"}
    BY <1>0, <1>7 DEF Report, LaneType
  <2> QED BY <1>0, <1>7, <2>1 DEF Dials
<1>8. CASE Send(l)
  <2>1. lane[l].pc = "send" /\ lane[l].queue # <<>>
    BY <1>0, <1>8 DEF Send, Good
  <2>2. \E s : lane' = [Drop(l) EXCEPT ![l].stream = s]
    BY <1>8 DEF Send
  <2>0. Drop(l) \in [Lanes -> LaneType] /\ Drop(l)[l].pc = "idle"
    BY <2>1, DropIdle DEF Types
  <2> DEFINE d == Drop(l)
  <2>3. d \in [Lanes -> LaneType] /\ d[l].pc = "idle" /\ d[l] \in LaneType
    BY <2>0
  <2>4. \E s : lane' = [d EXCEPT ![l] = [d[l] EXCEPT !.stream = s]]
    BY <2>2
  <2> HIDE DEF d
  <2>5. lane'[l].pc = "idle"
    BY <2>3, <2>4 DEF LaneType
  <2> QED BY <1>0, <1>8, <2>1, <2>5 DEF Dials
<1>9. CASE Finish(l)
  <2>1. lane[l].pc = "idle" /\ lane'[l].pc = "off"
    <3>1. lane'[l] = LaneOff /\ MayEnd(l)
      BY <1>9, FinishMoves
    <3> QED BY <3>1 DEF LaneOff, MayEnd
  <2> QED BY <1>0, <1>9, <2>1 DEF Dials
<1> QED BY <1>3, <1>4, <1>5, <1>6, <1>7, <1>8, <1>9 DEF LaneStep

LEMMA LaneStepConn ==
  ASSUME Types, LanesGood, DialInv, ConnInv, NEW l \in Lanes, LaneStep(l)
  PROVE  ConnInv'
<1>1. ASSUME UNCHANGED <<up, pairs, reg, receiving>>, lane[l].pc # "greeting",
             lane'[l].pc # "greeting", \A o \in Lanes : o # l => lane'[o] = lane[o]
      PROVE  ConnInv'
  <2>1. \A o \in Lanes : SameGreets(o)
    BY <1>1 DEF SameGreets, Greets
  <2> QED BY <1>1, <2>1, SamePairs, ConnRests
<1>2. \A o \in Lanes : o # l => lane'[o] = lane[o]
  BY LaneDials
<1>3. CASE Connect(l) /\ lane[l].pc \in {"idle", "waiting"} /\ lane'[l].pc # "greeting"
  BY <1>1, <1>2, <1>3 DEF Connect, fabricVars
<1>4. CASE Arrive(l) /\ lane[l].pc = "calling"
  <2>1. CASE Failed(l) /\ UNCHANGED pairs
    <3>1. lane[l].queue # <<>> /\ lane[l].health \in 1..Len(health[From(l)][To(l)])
      BY <1>4 DEF LanesGood, Good
    <3>2. lane'[l].pc \in {"idle", "unreachable"}
      BY <2>1, <3>1, FailedType DEF Types
    <3> QED BY <1>1, <1>2, <1>4, <2>1, <3>2 DEF Arrive
  <2>2. CASE /\ up[To(l)] = lane[l].target
             /\ pairs' = NewPair(From(l), To(l), up[To(l)])
             /\ lane' = [lane EXCEPT ![l].pc = "greeting", ![l].conn = Len(pairs')]
    BY <1>4, <2>2, ArriveConn
  <2> QED BY <1>4, <2>1, <2>2 DEF Arrive
<1>5. CASE (Report(l) \/ Finish(l)) /\ ~Dials(l) /\ ~Dials(l)'
  BY <1>1, <1>2, <1>5 DEF Report, Finish, Dials, fabricVars
<1> QED BY <1>3, <1>4, <1>5, LaneDials, DialRegisterConn, FailConn, SendConn

LEMMA ConnStepConn ==
  ASSUME Types, LanesGood, ConnInv, NEW c \in DOMAIN pairs, ConnStep(c) \/ Quiet(LoseHello(c))
  PROVE  ConnInv'
<1>0. UNCHANGED <<up, lane>> /\ \A l \in Lanes : SameGreets(l)
  BY ConnStepTypes DEF SameGreets, Greets
<1>1. CASE Accept(c) \/ Quiet(LoseHello(c))
  <2>1. Accept(c) \/ LoseHello(c)
    BY <1>1 DEF Quiet
  <2>2. UNCHANGED <<reg, receiving>>
    BY <1>1 DEF Accept, Quiet, linkVars
  <2> QED BY <1>0, <2>1, <2>2, HelloAges, ConnRests
<1>2. CASE AcceptFails(c)
  <2>1. UNCHANGED <<reg, receiving>> /\ pairs' = [Close({c}) EXCEPT ![c].accept = "done"]
    BY <1>2 DEF AcceptFails
  <2> DEFINE C == {c}
  <2>0. pairs' = [Close(C) EXCEPT ![c].accept = "done"] /\ c \in C
    BY <2>1
  <2> HIDE DEF C
  <2>2. /\ Ages
        /\ \A d \in DOMAIN pairs : /\ pairs'[d].open <=> Open(d) /\ d \notin C
                                   /\ d # c => pairs'[d].accept = pairs[d].accept
                                   /\ pairs'[d].hello = pairs[d].hello
    BY <2>0, DoneAges
  <2>3. \A d \in DOMAIN pairs : pairs'[d].accept = "done" /\ pairs'[d].open => pairs[d].accept = "done"
    BY <2>0, <2>2
  <2> QED BY <1>0, <2>1, <2>2, <2>3, ConnRests
<1>3. CASE \E n \in Nodes : ReceiveEnds(n, c)
  <2> PICK n \in Nodes : ReceiveEnds(n, c)
    BY <1>3
  <2> DEFINE p == Other(c, n)
  <2>1. /\ ~Open(c) /\ receiving' = [receiving EXCEPT ![n] = @ \ {c}] /\ UNCHANGED pairs
        /\ Unregister(n, p, c)
    BY DEF ReceiveEnds, fabricVars
  <2>2. p \in Nodes \ {n} /\ c # 0
    BY PairEnds DEF Other
  <2>3. \A m \in Nodes : \A q \in Nodes \ {m} :
          /\ reg'[m][q] = reg[m][q] \/ (reg'[m][q] = 0 /\ reg[m][q] = c)
          /\ m = n /\ q = p => reg'[m][q] # c
    <3> HIDE DEF p
    <3> QED BY <2>1, <2>2, UnregisterReg
  <2>4. ASSUME NEW m \in Nodes, NEW q \in Nodes \ {m}, reg'[m][q] # 0
        PROVE  reg'[m][q] \in receiving'[m]
    <3>1. reg'[m][q] = reg[m][q]
      BY <2>3, <2>4
    <3>2. Mine(m, q, reg[m][q]) /\ reg[m][q] \in receiving[m]
      BY <2>4, <3>1 DEF ConnInv, RegInv
    <3>3. m = n /\ reg[m][q] = c => q = p
      BY <3>2, PairEnds DEF Mine, Dialed, Other
    <3>4. ~(m = n /\ reg'[m][q] = c)
      BY <2>3, <3>1, <3>3
    <3> QED BY <2>1, <3>1, <3>2, <3>4 DEF Types, RegTypes
  <2>5. \A m \in Nodes : \A q \in Nodes \ {m} :
          /\ \/ reg'[m][q] = reg[m][q]
             \/ reg'[m][q] = 0 /\ (reg[m][q] \in DOMAIN pairs => ~pairs'[reg[m][q]].open)
          /\ reg'[m][q] # 0 => reg'[m][q] \in receiving'[m]
    BY <2>1, <2>3, <2>4 DEF Open
  <2>6. /\ \A l \in Lanes : \A d : Greets(l, d)' => Greets(l, d)
        /\ \A l \in Lanes : \A d \in DOMAIN pairs :
             Greets(l, d) /\ pairs'[d].open => lane'[l].pc = "greeting"
    BY <1>0 DEF Greets
  <2> QED BY <1>0, <2>1, <2>5, <2>6, SamePairs, CutConn
<1> QED BY <1>1, <1>2, <1>3, AcceptRegisterConn DEF ConnStep

LEMMA ForgetConn ==
  ASSUME Types, LanesGood, ConnInv, NEW n \in Nodes, NEW p \in Nodes \ {n}, NEW gen, Forget(n, p, gen)
  PROVE  ConnInv'
<1>1. /\ UNCHANGED <<up, receiving>>
      /\ \/ pairs' = Close({reg[n][p]}) /\ reg' = [reg EXCEPT ![n][p] = 0]
         \/ UNCHANGED <<pairs, reg>>
  BY DEF Forget
<1>2. \A l \in Lanes : lane'[l] = IF From(l) = n /\ To(l) = p
                                  THEN [lane[l] EXCEPT !.open = FALSE] ELSE lane[l]
  BY ForgetTypes
<1>3. ASSUME NEW l \in Lanes PROVE SameGreets(l)
  <2>1. lane[l] \in LaneType
    BY DEF Types, LaneTypes
  <2>2. lane'[l].pc = lane[l].pc /\ lane'[l].conn = lane[l].conn
    BY <1>2, <2>1 DEF LaneType
  <2> QED BY <2>2 DEF SameGreets, Greets
<1>4. CASE UNCHANGED <<pairs, reg>>
  BY <1>1, <1>3, <1>4, SamePairs, ConnRests
<1>5. CASE pairs' = Close({reg[n][p]}) /\ reg' = [reg EXCEPT ![n][p] = 0]
  <2>1. /\ Ages
        /\ \A c \in DOMAIN pairs : /\ pairs'[c].open <=> Open(c) /\ c \notin {reg[n][p]}
                                   /\ pairs'[c].accept = pairs[c].accept
    BY <1>5, CloseAges
  <2>2. /\ reg'[n][p] = 0
        /\ \A m \in Nodes : \A q \in Nodes \ {m} : m # n \/ q # p => reg'[m][q] = reg[m][q]
    BY <1>5 DEF Types, RegTypes
  <2>3. \A m \in Nodes : \A q \in Nodes \ {m} :
          /\ \/ reg'[m][q] = reg[m][q]
             \/ reg'[m][q] = 0 /\ (reg[m][q] \in DOMAIN pairs => ~pairs'[reg[m][q]].open)
          /\ reg'[m][q] # 0 => reg'[m][q] \in receiving'[m]
    <3> SUFFICES ASSUME NEW m \in Nodes, NEW q \in Nodes \ {m}
                 PROVE  /\ \/ reg'[m][q] = reg[m][q]
                           \/ reg'[m][q] = 0 /\ (reg[m][q] \in DOMAIN pairs => ~pairs'[reg[m][q]].open)
                        /\ reg'[m][q] # 0 => reg'[m][q] \in receiving'[m]
      OBVIOUS
    <3>1. CASE m = n /\ q = p
      BY <2>1, <2>2, <3>1
    <3>2. CASE m # n \/ q # p
      <4>1. reg'[m][q] = reg[m][q]
        BY <2>2, <3>2
      <4> QED BY <1>1, <4>1 DEF ConnInv, RegInv
    <3> QED BY <3>1, <3>2
  <2>4. /\ \A l \in Lanes : \A d : Greets(l, d)' => Greets(l, d)
        /\ \A l \in Lanes : \A d \in DOMAIN pairs :
             Greets(l, d) /\ pairs'[d].open => lane'[l].pc = "greeting"
    BY <1>3 DEF SameGreets, Greets
  <2> QED BY <1>1, <2>1, <2>3, <2>4, CutConn
<1> QED BY <1>1, <1>4, <1>5

LEMMA ConnNext == Types /\ LanesGood /\ DialInv /\ ConnInv /\ [Next]_vars => ConnInv'
<1> SUFFICES ASSUME Types, LanesGood, DialInv, ConnInv, [Next]_vars PROVE ConnInv'
  OBVIOUS
<1>1. ASSUME UNCHANGED <<up, pairs, reg, receiving>>, \A l \in Lanes : SameGreets(l)
      PROVE  ConnInv'
  BY <1>1, SamePairs, ConnRests
<1>2. ASSUME NEW l \in Lanes, Enqueue(l) PROVE ConnInv'
  <2>1. /\ UNCHANGED <<up, pairs, reg, receiving>> /\ Queues(l, lane'[l], left[Key(l)])
        /\ \A o \in Lanes : o # l => lane'[o] = lane[o]
        /\ lane[l] \in LaneType
    BY <1>2, EnqueueMoves, LaneIs DEF Moves, fabricVars
  <2>2. SameGreets(l)
    <3>1. \/ lane'[l].pc = lane[l].pc /\ lane'[l].conn = lane[l].conn
          \/ lane[l].pc \in {"idle", "off"} /\ lane'[l].pc \in {"idle", "off"}
      <4>1. CASE lane'[l] = [lane[l] EXCEPT !.queue = Append(@, left[Key(l)])]
        BY <2>1, <4>1 DEF LaneType
      <4>2. CASE lane'[l] = LaneOff /\ MayEnd(l)
        BY <4>2 DEF LaneOff, MayEnd
      <4>3. CASE /\ lane[l].pc = "off"
                 /\ lane'[l] = [LaneOff EXCEPT !.pc = "idle", !.open = TRUE,
                      !.queue = <<left[Key(l)]>>, !.health = Len(health[From(l)][To(l)])]
        <5>1. lane'[l].pc = "idle"
          BY <4>3 DEF LaneOff
        <5> QED BY <4>3, <5>1
      <4> QED BY <2>1, <4>1, <4>2, <4>3 DEF Queues
    <3> QED BY <3>1 DEF SameGreets, Greets
  <2>3. \A o \in Lanes : SameGreets(o)
    BY <2>1, <2>2 DEF SameGreets, Greets
  <2> QED BY <1>1, <2>1, <2>3
<1>3. ASSUME NEW c \in DOMAIN pairs, NEW l \in Lanes, NEW i, Deliver(c, l, i) PROVE ConnInv'
  <2>1. UNCHANGED <<up, pairs, reg, receiving, lane>>
    BY <1>3 DEF Deliver
  <2> QED BY <1>1, <2>1 DEF SameGreets, Greets
<1>4. ASSUME NEW n \in Nodes, Shutdown(n) PROVE ConnInv'
  <2>1. /\ UNCHANGED <<up, pairs, reg, receiving>>
        /\ \A l \in Lanes : lane'[l] = IF From(l) = n THEN [lane[l] EXCEPT !.open = FALSE]
                                       ELSE lane[l]
    BY <1>4, ShutdownTypes DEF Shutdown, fabricVars
  <2>2. ASSUME NEW l \in Lanes PROVE SameGreets(l)
    <3>1. lane[l] \in LaneType
      BY DEF Types, LaneTypes
    <3>2. lane'[l].pc = lane[l].pc /\ lane'[l].conn = lane[l].conn
      BY <2>1, <3>1 DEF LaneType
    <3> QED BY <3>2 DEF SameGreets, Greets
  <2> QED BY <1>1, <2>1, <2>2
<1>5. CASE Rests
  <2>0. UNCHANGED <<reg, receiving, lane>> /\ \A l \in Lanes : SameGreets(l)
    BY <1>5, RestTypes DEF SameGreets, Greets
  <2>1. CASE UNCHANGED <<up, pairs>>
    BY <1>1, <2>0, <2>1
  <2>2. ASSUME NEW n \in Nodes, NEW p \in Nodes, Partition(n, p) PROVE ConnInv'
    <3>1. UNCHANGED up /\ \E C : pairs' = Close(C)
      BY <2>2 DEF Partition
    <3>2. PICK C : pairs' = Close(C)
      BY <3>1
    <3> QED BY <2>0, <3>1, <3>2, CloseAges, ConnRests
  <2>3. ASSUME NEW n \in Nodes, Quiet(Bind(n)) PROVE ConnInv'
    BY <2>3, BindConn
  <2>4. \/ UNCHANGED <<up, pairs>> \/ \E n \in Nodes : Quiet(Bind(n))
        \/ \E n, p \in Nodes : Partition(n, p)
    BY <1>5 DEF Rests, AcceptStream, BackoffEnds, Faulty, Quiet, Heal, vars, fabricVars
  <2> QED BY <2>1, <2>2, <2>3, <2>4
<1> QED BY <1>2, <1>3, <1>4, <1>5, StepKinds, LaneStepConn, ConnStepConn, GoesConn, ForgetConn

-----------------------------------------------------------------------------
(* The dialing mutex.                                                      *)

LEMMA DialKeeps ==
  ASSUME DialInv, NEW l \in Lanes,
         \A o \in Lanes : o # l /\ Dials(o)' => Dials(o),
         Dials(l)' => Dials(l) \/ ~Dialing(From(l), To(l))
  PROVE  DialInv'
<1> SUFFICES ASSUME NEW x \in Lanes, NEW y \in Lanes, Dials(x)', Dials(y)',
                    From(y) = From(x), To(y) = To(x)
             PROVE  y = x
  BY DEF DialInv
<1>1. CASE Dials(x) /\ Dials(y)
  BY <1>1 DEF DialInv
<1>2. CASE ~Dials(x) /\ x # y
  BY <1>2 DEF Dialing, Dials
<1>3. CASE ~Dials(y) /\ x # y
  BY <1>3 DEF Dialing, Dials
<1> QED BY <1>1, <1>2, <1>3

LEMMA DialNext == Types /\ LanesGood /\ DialInv /\ [Next]_vars => DialInv'
<1> SUFFICES ASSUME Types, LanesGood, DialInv, [Next]_vars PROVE DialInv'
  OBVIOUS
<1>1. ASSUME \A l \in Lanes : Dials(l)' => Dials(l) PROVE DialInv'
  BY <1>1 DEF DialInv
<1>2. ASSUME NEW l \in Lanes, Enqueue(l) PROVE DialInv'
  <2>1. /\ Queues(l, lane'[l], left[Key(l)]) /\ lane[l] \in LaneType
        /\ \A o \in Lanes : o # l => lane'[o] = lane[o]
    BY <1>2, EnqueueMoves, LaneIs DEF Moves
  <2>2. lane'[l].pc = lane[l].pc \/ lane'[l].pc \in {"off", "idle"}
    <3>1. CASE lane'[l] = [lane[l] EXCEPT !.queue = Append(@, left[Key(l)])]
      BY <2>1, <3>1 DEF LaneType
    <3>2. CASE lane'[l] = LaneOff
      BY <3>2 DEF LaneOff
    <3>3. CASE lane'[l] = [LaneOff EXCEPT !.pc = "idle", !.open = TRUE,
                 !.queue = <<left[Key(l)]>>, !.health = Len(health[From(l)][To(l)])]
      BY <3>3 DEF LaneOff
    <3> QED BY <2>1, <3>1, <3>2, <3>3 DEF Queues
  <2> QED BY <1>1, <2>1, <2>2 DEF Dials
<1>3. ASSUME NEW l \in Lanes, LaneStep(l) PROVE DialInv'
  <2>1. \A o \in Lanes : o # l /\ Dials(o)' => Dials(o)
    BY <1>3, LaneDials DEF Dials
  <2>2. Dials(l)' => Dials(l) \/ ~Dialing(From(l), To(l))
    BY <1>3, LaneDials DEF Dials
  <2> QED BY <1>3, <2>1, <2>2, DialKeeps
<1>4. ASSUME UNCHANGED lane PROVE DialInv'
  BY <1>1, <1>4 DEF Dials
<1>5. ASSUME NEW n \in Nodes, Goes(n) PROVE DialInv'
  <2>1. \A l \in Lanes : lane'[l] = IF From(l) = n THEN LaneOff ELSE lane[l]
    BY <1>5, GoesTypes
  <2> QED BY <1>1, <2>1 DEF Dials, LaneOff
<1>6. ASSUME \A l \in Lanes : lane'[l] = lane[l] \/ lane'[l] = [lane[l] EXCEPT !.open = FALSE]
      PROVE  DialInv'
  <2>1. \A l \in Lanes : lane'[l].pc = lane[l].pc
    BY <1>6 DEF Types, LaneTypes, LaneType
  <2> QED BY <1>1, <2>1 DEF Dials
<1>7. ASSUME NEW n \in Nodes, Shutdown(n) PROVE DialInv'
  BY <1>6, <1>7, ShutdownTypes
<1>8. ASSUME NEW n \in Nodes, NEW p \in Nodes \ {n}, NEW gen, Forget(n, p, gen) PROVE DialInv'
  BY <1>6, <1>8, ForgetTypes
<1>9. ASSUME NEW c \in DOMAIN pairs, ConnStep(c) \/ Quiet(LoseHello(c)) PROVE DialInv'
  BY <1>4, <1>9, ConnStepTypes
<1>10. ASSUME NEW c, NEW l, NEW i, Deliver(c, l, i) PROVE DialInv'
  BY <1>4, <1>10 DEF Deliver
<1>11. CASE Rests
  BY <1>4, <1>11, RestTypes
<1> QED BY <1>2, <1>3, <1>5, <1>7, <1>8, <1>9, <1>10, <1>11, StepKinds

-----------------------------------------------------------------------------
(* Without a fault, a connection is closed only in favour of another.      *)

\* Of the two directions in which n and p may dial each other, this one has the
\* connection that is kept.
Alone(n, p) == n < p \/ \A c \in DOMAIN pairs : ~Dialed(c, p, n)

Calm ==
  /\ parted = {} /\ stopping = {} /\ \A n \in Nodes : up[n] = 1
  /\ \A c \in DOMAIN pairs :
       pairs[c].fromGen = 1 /\ pairs[c].toGen = 1 /\ pairs[c].hello # "lost"

Spared(n, p) ==
  /\ \A c, d \in DOMAIN pairs : Dialed(c, n, p) /\ Dialed(d, n, p) => c = d
  /\ \A c \in DOMAIN pairs : Dialed(c, n, p) => Open(c)
  /\ \A l \in Lanes : From(l) = n /\ To(l) = p /\ lane[l].pc = "calling" =>
       \A c \in DOMAIN pairs : ~Dialed(c, n, p)

CalmInv ==
  faults = 0 => Calm /\ \A n \in Nodes : \A p \in Nodes \ {n} : Alone(n, p) => Spared(n, p)

LEMMA CalmKeeps ==
  ASSUME CalmInv, Ages, UNCHANGED up, parted' = parted \/ parted' = {}, UNCHANGED stopping,
         faults' = 0 => faults = 0,
         \A c \in DOMAIN pairs : pairs'[c].hello = "lost" => pairs[c].hello = "lost",
         faults = 0 => \A c \in DOMAIN pairs : \A n \in Nodes : \A p \in Nodes \ {n} :
           Dialed(c, n, p) /\ Alone(n, p) /\ Open(c) => pairs'[c].open,
         faults = 0 => \A l \in Lanes : lane'[l].pc = "calling" =>
           \/ lane[l].pc = "calling"
           \/ Alone(From(l), To(l)) => \A c \in DOMAIN pairs : ~Dialed(c, From(l), To(l))
  PROVE  CalmInv'
<1> SUFFICES ASSUME faults' = 0
             PROVE  Calm' /\ \A n \in Nodes : \A p \in Nodes \ {n} : Alone(n, p)' => Spared(n, p)'
  BY DEF CalmInv
<1>1. faults = 0 /\ Calm
  BY DEF CalmInv
<1>2. Calm'
  BY <1>1 DEF Calm, Ages
<1>3. \A n, p : \A c \in DOMAIN pairs : Dialed(c, n, p)' <=> Dialed(c, n, p)
  BY DEF Ages, Dialed
<1>4. \A n, p : Alone(n, p)' <=> Alone(n, p)
  BY <1>3 DEF Alone, Ages
<1>5. ASSUME NEW n \in Nodes, NEW p \in Nodes \ {n}, Alone(n, p) PROVE Spared(n, p)'
  <2>1. Spared(n, p)
    BY <1>1, <1>5 DEF CalmInv
  <2>2. \A c, d \in DOMAIN pairs' : Dialed(c, n, p)' /\ Dialed(d, n, p)' => c = d
    BY <1>3, <2>1 DEF Spared, Ages
  <2>3. \A c \in DOMAIN pairs' : Dialed(c, n, p)' => pairs'[c].open
    BY <1>1, <1>3, <1>5, <2>1 DEF Spared, Ages
  <2>4. ASSUME NEW l \in Lanes, From(l) = n, To(l) = p, lane'[l].pc = "calling",
               NEW c \in DOMAIN pairs'
        PROVE  ~Dialed(c, n, p)'
    BY <1>1, <1>3, <1>5, <2>1, <2>4 DEF Spared, Ages
  <2> QED BY <2>2, <2>3, <2>4 DEF Spared, Open
<1> QED BY <1>2, <1>4, <1>5

\* The connection that Register closes is not of the direction that wins.
LEMMA LoserYields ==
  ASSUME Types, ConnInv, CalmInv, faults = 0, NEW n \in Nodes, NEW p \in Nodes \ {n},
         NEW c \in DOMAIN pairs, Dialed(c, n, p) \/ Dialed(c, p, n), reg[n][p] # c,
         NEW d \in Loser(n, p, c), NEW x \in Nodes, NEW y \in Nodes \ {x}, Dialed(d, x, y)
  PROVE  ~Alone(x, y)
<1> DEFINE old == reg[n][p]
<1>1. Live(n, p) /\ old # 0
  BY DEF Loser, Keeps, Live
<1>2. old \in DOMAIN pairs /\ (Dialed(old, n, p) \/ Dialed(old, p, n)) /\ old # c
  BY <1>1 DEF ConnInv, RegInv, Mine
<1>3. GenAt(c, p) = 1 /\ GenAt(old, p) = 1
  BY <1>2 DEF CalmInv, Calm, GenAt
<1>4. Keeps(n, p, c) <=> pairs[c].from = pairs[old].from \/ \A z \in {n, p} : pairs[c].from <= z
  BY <1>1, <1>3 DEF Keeps
<1>5. n \in Nat /\ p \in Nat /\ n # p /\ x \in Nat /\ y \in Nat
  BY FabricAssumption
<1>6. Alone(x, y) => Spared(x, y)
  BY DEF CalmInv
<1> HIDE DEF old
<1>7. d = c \/ d = old
  BY DEF Loser, old
<1>8. CASE pairs[c].from = pairs[old].from
  <2>1. Dialed(c, x, y) /\ Dialed(old, x, y)
    BY <1>2, <1>5, <1>7, <1>8 DEF Dialed
  <2> QED BY <1>2, <1>6, <2>1 DEF Spared
<1>9. CASE pairs[c].from # pairs[old].from
  <2>1. (Dialed(c, n, p) /\ Dialed(old, p, n)) \/ (Dialed(c, p, n) /\ Dialed(old, n, p))
    BY <1>2, <1>9 DEF Dialed
  <2>2. \/ d = c /\ Dialed(c, x, y) /\ Dialed(old, y, x)
        \/ d = old /\ Dialed(old, x, y) /\ Dialed(c, y, x)
    BY <1>7, <2>1 DEF Dialed
  <2>3. ~(\A b \in DOMAIN pairs : ~Dialed(b, y, x))
    BY <1>2, <2>2
  <2>4. ~(x < y)
    <3>1. CASE d = c /\ Dialed(c, x, y) /\ Dialed(old, y, x)
      <4>1. ~Keeps(n, p, c)
        BY <1>1, <1>2, <3>1 DEF Loser, old
      <4>2. {n, p} = {x, y} /\ pairs[c].from = x
        BY <2>1, <3>1 DEF Dialed
      <4> QED BY <1>4, <1>5, <4>1, <4>2
    <3>2. CASE d = old /\ Dialed(old, x, y) /\ Dialed(c, y, x)
      <4>1. Keeps(n, p, c)
        BY <1>2, <3>2 DEF Loser
      <4>2. {n, p} = {x, y} /\ pairs[c].from = y
        BY <2>1, <3>2 DEF Dialed
      <4> QED BY <1>4, <1>5, <1>9, <4>1, <4>2
    <3> QED BY <2>2, <3>1, <3>2
  <2> QED BY <2>3, <2>4 DEF Alone
<1> QED BY <1>8, <1>9

LEMMA ArriveCalm ==
  ASSUME Types, LanesGood, DialInv, ConnInv, CalmInv, NEW l \in Lanes, Arrive(l)
  PROVE  CalmInv'
<1> DEFINE n == From(l)  p == To(l)
<1>1. /\ lane[l].pc = "calling" /\ lane'[l].pc # "calling"
      /\ \A o \in Lanes : o # l => lane'[o] = lane[o]
      /\ UNCHANGED <<up, parted, stopping, faults>>
      /\ n \in Nodes /\ p \in Nodes \ {n}
  <2>1. lane[l].pc = "calling"
    BY DEF Arrive
  <2>2. LaneStep(l)
    BY DEF LaneStep
  <2>3. lane'[l].pc # "calling"
    BY <2>1, <2>2, LaneDials DEF Connect, DialRegister, DialFails, Report, Send, Finish, Dials
  <2> QED BY <2>1, <2>2, <2>3, LaneDials, LaneEnds DEF Arrive
<1>2. CASE UNCHANGED pairs
  <2>1. Ages
    BY <1>2, SamePairs
  <2>2. \A o \in Lanes : lane'[o].pc = "calling" => lane[o].pc = "calling"
    BY <1>1
  <2> QED BY <1>1, <1>2, <2>1, <2>2, CalmKeeps DEF Open
<1>3. CASE /\ up[p] = lane[l].target
           /\ pairs' = NewPair(n, p, up[p])
           /\ lane' = [lane EXCEPT ![l].pc = "greeting", ![l].conn = Len(pairs')]
  <2>1. PICK c : /\ c \notin DOMAIN pairs /\ DOMAIN pairs' = DOMAIN pairs \cup {c}
                 /\ pairs'[c] = Pair(n, p, up[p])
                 /\ \A d \in DOMAIN pairs : pairs'[d] = pairs[d]
    BY <1>3, ArriveConn
  <2> SUFFICES ASSUME faults' = 0
               PROVE  Calm' /\ \A x \in Nodes : \A y \in Nodes \ {x} : Alone(x, y)' => Spared(x, y)'
    BY DEF CalmInv
  <2>2. faults = 0 /\ Calm
    BY <1>1 DEF CalmInv
  <2>3. /\ pairs'[c].from = n /\ pairs'[c].to = p /\ pairs'[c].fromGen = 1
        /\ pairs'[c].toGen = 1 /\ pairs'[c].hello # "lost" /\ pairs'[c].open
    BY <1>1, <2>1, <2>2 DEF Pair, Calm
  <2>4. Calm'
    BY <1>1, <2>1, <2>2, <2>3 DEF Calm
  <2>5. \A x, y : \A d \in DOMAIN pairs : Dialed(d, x, y)' <=> Dialed(d, x, y)
    BY <2>1 DEF Dialed
  <2>6. ASSUME NEW x \in Nodes, NEW y \in Nodes \ {x}, Alone(x, y)' PROVE Spared(x, y)'
    <3>1. Alone(x, y)
      BY <2>1, <2>5, <2>6 DEF Alone
    <3>2. Spared(x, y)
      BY <2>2, <2>6, <3>1 DEF CalmInv
    <3>3. CASE x = n /\ y = p
      <4>1. \A d \in DOMAIN pairs : ~Dialed(d, x, y)
        BY <1>1, <3>2, <3>3 DEF Spared
      <4>2. \A d \in DOMAIN pairs' : Dialed(d, x, y)' => d = c
        BY <2>1, <2>5, <4>1
      <4>3. ASSUME NEW o \in Lanes, From(o) = x, To(o) = y PROVE lane'[o].pc # "calling"
        <5>1. CASE o = l
          BY <1>1, <5>1
        <5>2. CASE o # l
          BY <1>1, <3>3, <4>3, <5>2 DEF DialInv, Dials
        <5> QED BY <5>1, <5>2
      <4> QED BY <2>3, <4>2, <4>3 DEF Spared, Open
    <3>4. CASE x # n \/ y # p
      <4>1. ~Dialed(c, x, y)'
        BY <2>3, <3>4 DEF Dialed
      <4>2. \A d \in DOMAIN pairs' : Dialed(d, x, y)' => d \in DOMAIN pairs /\ Dialed(d, x, y)
        BY <2>1, <2>5, <4>1
      <4>3. \A d \in DOMAIN pairs' : Dialed(d, x, y)' => pairs'[d].open
        BY <2>1, <3>2, <4>2 DEF Spared, Open
      <4>4. \A o \in Lanes : From(o) = x /\ To(o) = y /\ lane'[o].pc = "calling" =>
              \A d \in DOMAIN pairs' : ~Dialed(d, x, y)'
        BY <1>1, <3>2, <4>2 DEF Spared
      <4>5. \A d, e \in DOMAIN pairs' : Dialed(d, x, y)' /\ Dialed(e, x, y)' => d = e
        BY <3>2, <4>2 DEF Spared
      <4> QED BY <4>3, <4>4, <4>5 DEF Spared, Open
    <3> QED BY <3>3, <3>4
  <2> QED BY <2>4, <2>6
<1> QED BY <1>2, <1>3 DEF Arrive

LEMMA LaneStepCalm ==
  ASSUME Types, LanesGood, DialInv, ConnInv, CalmInv, NEW l \in Lanes, LaneStep(l)
  PROVE  CalmInv'
<1> DEFINE n == From(l)  p == To(l)  c == lane[l].conn
<1>1. /\ \A o \in Lanes : o # l => lane'[o] = lane[o]
      /\ UNCHANGED <<up, parted, stopping>> /\ n \in Nodes /\ p \in Nodes \ {n}
  BY LaneDials, LaneStepTypes, LaneEnds DEF Moves
<1>2. ASSUME UNCHANGED <<pairs, faults>>,
             faults = 0 /\ lane'[l].pc = "calling" =>
               \/ lane[l].pc = "calling"
               \/ Alone(n, p) => \A d \in DOMAIN pairs : ~Dialed(d, n, p)
      PROVE  CalmInv'
  <2>1. Ages
    BY <1>2, SamePairs
  <2> QED BY <1>1, <1>2, <2>1, CalmKeeps DEF Open
<1>3. CASE Connect(l) /\ (lane'[l].pc = "calling" => ~Live(n, p) /\ ~Dialing(n, p))
  <2>1. UNCHANGED <<pairs, faults>>
    BY <1>3 DEF Connect, fabricVars
  <2>2. ASSUME faults = 0, lane'[l].pc = "calling", Alone(n, p), NEW d \in DOMAIN pairs,
               Dialed(d, n, p)
        PROVE  FALSE
    <3>1. Open(d)
      BY <1>1, <2>2 DEF CalmInv, Spared
    <3>2. Joined(d) /\ d # 0
      BY PairEnds DEF ConnInv, PairInv
    <3>3. reg[n][p] = d \/ \E o \in Lanes : Greets(o, d)
      BY <2>2, <3>1, <3>2 DEF Joined, Dialed
    <3>4. CASE reg[n][p] = d
      BY <1>3, <2>2, <3>1, <3>2, <3>4 DEF Live
    <3>5. ASSUME NEW o \in Lanes, Greets(o, d) PROVE FALSE
      <4>1. Dialed(d, From(o), To(o))
        BY <3>5 DEF ConnInv, GreetInv
      <4>2. From(o) = n /\ To(o) = p /\ lane[o].pc = "greeting"
        BY <2>2, <3>5, <4>1 DEF Dialed, Greets
      <4> QED BY <1>3, <2>2, <4>2 DEF Dialing
    <3> QED BY <3>3, <3>4, <3>5
  <2> QED BY <1>2, <2>1, <2>2
<1>4. CASE DialRegister(l) /\ ~Dials(l)'
  <2>1. /\ Greets(l, c) /\ pairs' = Close(Loser(n, p, c)) /\ UNCHANGED faults
    BY <1>4 DEF DialRegister, AfterRegister, Loser, Greets
  <2>2. c \in DOMAIN pairs /\ Dialed(c, n, p) /\ reg[n][p] # c
    BY <2>1 DEF ConnInv, GreetInv
  <2>3. /\ Ages
        /\ \A d \in DOMAIN pairs : /\ pairs'[d].open <=> Open(d) /\ d \notin Loser(n, p, c)
                                   /\ pairs'[d].hello = pairs[d].hello
    BY <2>1, CloseAges
  <2>4. ASSUME faults = 0, NEW d \in DOMAIN pairs, NEW x \in Nodes, NEW y \in Nodes \ {x},
               Dialed(d, x, y), Alone(x, y), Open(d)
        PROVE  pairs'[d].open
    <3>1. d \notin Loser(n, p, c)
      BY <1>1, <2>2, <2>4, LoserYields
    <3> QED BY <2>3, <2>4, <3>1
  <2>5. \A o \in Lanes : lane'[o].pc = "calling" => lane[o].pc = "calling"
    BY <1>1, <1>4 DEF Dials
  <2> QED BY <1>1, <2>1, <2>3, <2>4, <2>5, CalmKeeps
<1>5. CASE DialFails(l) /\ ~Dials(l)'
  <2>1. pairs' = Close({c})
    BY <1>5 DEF DialFails
  <2>2. /\ Ages
        /\ \A d \in DOMAIN pairs : /\ pairs'[d].open <=> Open(d) /\ d \notin {c}
                                   /\ pairs'[d].hello = pairs[d].hello
    BY <2>1, CloseAges
  <2>3. faults' = 0 => faults = 0 /\ \A d \in DOMAIN pairs : d = c => ~Open(d)
    <3> SUFFICES ASSUME faults' = 0, faults \in Nat
                 PROVE  faults = 0 /\ \A d \in DOMAIN pairs : d = c => ~Open(d)
      BY DEF Types, ToldTypes
    <3>1. ~Fault
      BY DEF Fault
    <3>2. faults = 0
      BY <1>5, <3>1 DEF DialFails
    <3>3. CASE lane[l].pc = "calling"
      <4>1. c = 0
        BY <3>3 DEF LanesGood, Good
      <4> QED BY <3>2, <4>1, PairEnds
    <3>4. CASE lane[l].pc = "greeting"
      <4>1. Stuck(c)
        BY <1>5, <3>1, <3>4 DEF DialFails
      <4>2. c \in DOMAIN pairs
        BY <3>4 DEF ConnInv, GreetInv, Greets
      <4> QED BY <3>2, <4>1, <4>2 DEF Stuck, CalmInv, Calm
    <3> QED BY <1>5, <3>3, <3>4 DEF DialFails
  <2>5. \A o \in Lanes : lane'[o].pc = "calling" => lane[o].pc = "calling"
    BY <1>1, <1>5 DEF Dials
  <2>6. CASE faults' # 0
    BY <2>6 DEF CalmInv
  <2>7. CASE faults' = 0
    <3>1. \A d \in DOMAIN pairs : Open(d) => pairs'[d].open
      BY <2>2, <2>3, <2>7
    <3> QED BY <1>1, <2>2, <2>3, <2>5, <2>7, <3>1, CalmKeeps
  <2> QED BY <2>6, <2>7
<1>6. CASE (Report(l) \/ Send(l) \/ Finish(l)) /\ ~Dials(l)'
  <2>1. UNCHANGED <<pairs, faults>>
    BY <1>6 DEF Report, Send, Finish, fabricVars
  <2> QED BY <1>2, <1>6, <2>1 DEF Dials
<1> QED BY <1>3, <1>4, <1>5, <1>6, ArriveCalm, LaneDials

LEMMA ConnStepCalm ==
  ASSUME Types, LanesGood, ConnInv, CalmInv, NEW c \in DOMAIN pairs,
         ConnStep(c) \/ Quiet(LoseHello(c))
  PROVE  CalmInv'
<1>0. UNCHANGED <<up, parted, lane, stopping>>
  BY ConnStepTypes
<1>1. ASSUME Ages, faults' = 0 => faults = 0,
             \A d \in DOMAIN pairs : pairs'[d].hello = "lost" => pairs[d].hello = "lost",
             faults = 0 => \A d \in DOMAIN pairs : \A x \in Nodes : \A y \in Nodes \ {x} :
               Dialed(d, x, y) /\ Alone(x, y) /\ Open(d) => pairs'[d].open
      PROVE  CalmInv'
  BY <1>0, <1>1, CalmKeeps
<1>2. CASE Accept(c)
  <2>1. UNCHANGED faults
    BY <1>2 DEF Accept, linkVars
  <2>2. /\ Ages
        /\ \A d \in DOMAIN pairs : /\ pairs'[d].open <=> Open(d)
                                   /\ pairs'[d].hello = pairs[d].hello \/ pairs'[d].hello = "back"
    BY <1>2, HelloAges
  <2> QED BY <1>1, <2>1, <2>2
<1>3. CASE AcceptRegister(c)
  <2> DEFINE n == pairs[c].to  p == pairs[c].from
  <2>1. /\ Ages /\ reg[n][p] # c
        /\ \A d \in DOMAIN pairs : /\ pairs'[d].open <=> Open(d) /\ d \notin Loser(n, p, c)
                                   /\ pairs'[d].hello = pairs[d].hello
    BY <1>3, AcceptRegisterConn
  <2>2. n \in Nodes /\ p \in Nodes \ {n} /\ Dialed(c, p, n) /\ UNCHANGED faults
    BY <1>3, PairEnds DEF Dialed, AcceptRegister
  <2> HIDE DEF n, p
  <2>3. ASSUME faults = 0, NEW d \in DOMAIN pairs, NEW x \in Nodes, NEW y \in Nodes \ {x},
               Dialed(d, x, y), Alone(x, y), Open(d)
        PROVE  pairs'[d].open
    <3>1. d \notin Loser(n, p, c)
      BY <2>1, <2>2, <2>3, LoserYields
    <3> QED BY <2>1, <2>3, <3>1
  <2> QED BY <1>1, <2>1, <2>2, <2>3
<1>4. CASE AcceptFails(c)
  <2> DEFINE C == {c}
  <2>1. pairs' = [Close(C) EXCEPT ![c].accept = "done"] /\ \A d : d \in C <=> d = c
    BY <1>4 DEF AcceptFails
  <2> HIDE DEF C
  <2>2. /\ Ages
        /\ \A d \in DOMAIN pairs : /\ pairs'[d].open <=> Open(d) /\ d \notin C
                                   /\ pairs'[d].hello = pairs[d].hello
    BY <2>1, DoneAges
  <2>3. faults' = 0 => faults = 0 /\ ~Open(c)
    <3> SUFFICES ASSUME faults' = 0, faults \in Nat
                 PROVE  faults = 0 /\ ~Open(c)
      BY DEF Types, ToldTypes
    <3>1. ~Fault
      BY DEF Fault
    <3>2. faults = 0 /\ Stuck(c)
      BY <1>4, <3>1 DEF AcceptFails
    <3> QED BY <3>2 DEF Stuck, CalmInv, Calm
  <2>4. CASE faults' # 0
    BY <2>4 DEF CalmInv
  <2>5. CASE faults' = 0
    BY <1>1, <2>1, <2>2, <2>3, <2>5
  <2> QED BY <2>4, <2>5
<1>5. CASE \E n \in Nodes : ReceiveEnds(n, c)
  <2>1. UNCHANGED <<pairs, faults>>
    BY <1>5 DEF ReceiveEnds, fabricVars
  <2> QED BY <1>1, <2>1, SamePairs DEF Open
<1>6. CASE Quiet(LoseHello(c))
  <2>1. parted # {} /\ UNCHANGED faults
    BY <1>6 DEF Quiet, LoseHello, Parted, linkVars
  <2> QED BY <2>1 DEF CalmInv, Calm
<1> QED BY <1>2, <1>3, <1>4, <1>5, <1>6 DEF ConnStep

LEMMA CalmNext == Types /\ LanesGood /\ DialInv /\ ConnInv /\ CalmInv /\ [Next]_vars => CalmInv'
<1> SUFFICES ASSUME Types, LanesGood, DialInv, ConnInv, CalmInv, [Next]_vars PROVE CalmInv'
  OBVIOUS
<1>0. faults \in Nat
  BY DEF Types, ToldTypes
<1>1. ASSUME UNCHANGED <<up, pairs, stopping, faults>>, parted' = parted \/ parted' = {},
             \A l \in Lanes : lane'[l].pc = "calling" => lane[l].pc = "calling"
      PROVE  CalmInv'
  <2>1. Ages
    BY <1>1, SamePairs
  <2> QED BY <1>1, <2>1, CalmKeeps DEF Open
<1>2. ASSUME Fault PROVE CalmInv'
  BY <1>0, <1>2 DEF Fault, CalmInv
<1>3. ASSUME NEW l \in Lanes, Enqueue(l) PROVE CalmInv'
  <2>1. /\ Queues(l, lane'[l], left[Key(l)]) /\ lane[l] \in LaneType
        /\ \A o \in Lanes : o # l => lane'[o] = lane[o]
        /\ UNCHANGED <<fabricVars, stopping, faults>>
    BY <1>3, EnqueueMoves, LaneIs DEF Moves
  <2>2. lane'[l].pc = lane[l].pc \/ lane'[l].pc \in {"off", "idle"}
    <3>1. CASE lane'[l] = [lane[l] EXCEPT !.queue = Append(@, left[Key(l)])]
      BY <2>1, <3>1 DEF LaneType
    <3>2. CASE lane'[l] = LaneOff
      BY <3>2 DEF LaneOff
    <3>3. CASE lane'[l] = [LaneOff EXCEPT !.pc = "idle", !.open = TRUE,
                 !.queue = <<left[Key(l)]>>, !.health = Len(health[From(l)][To(l)])]
      BY <3>3 DEF LaneOff
    <3> QED BY <2>1, <3>1, <3>2, <3>3 DEF Queues
  <2> QED BY <1>1, <2>1, <2>2 DEF fabricVars
<1>4. ASSUME NEW c, NEW l, NEW i, Deliver(c, l, i) PROVE CalmInv'
  BY <1>1, <1>4 DEF Deliver
<1>5. ASSUME NEW n \in Nodes, Goes(n) PROVE CalmInv'
  <2>1. CASE Fault
    BY <1>2, <2>1
  <2>2. CASE n \in stopping /\ UNCHANGED faults
    BY <2>2 DEF CalmInv, Calm
  <2> QED BY <1>5, <2>1, <2>2 DEF Goes
<1>6. ASSUME NEW n \in Nodes, Shutdown(n) PROVE CalmInv'
  BY <1>2, <1>6 DEF Shutdown
<1>7. ASSUME NEW n \in Nodes, NEW p \in Nodes \ {n}, NEW gen, Forget(n, p, gen) PROVE CalmInv'
  BY <1>2, <1>7 DEF Forget
<1>8. CASE Rests
  <2>1. ASSUME NEW n \in Nodes, Quiet(Bind(n)) PROVE CalmInv'
    <3>1. up[n] = 0 /\ UNCHANGED faults
      BY <2>1 DEF Quiet, Bind, linkVars
    <3> QED BY <3>1 DEF CalmInv, Calm
  <2>2. ASSUME NEW n, NEW p, Faulty(Partition(n, p)) PROVE CalmInv'
    BY <1>2, <2>2 DEF Faulty
  <2>3. CASE Quiet(Heal)
    BY <1>1, <2>3 DEF Quiet, Heal, linkVars
  <2>4. CASE \/ \E c \in DOMAIN pairs, n \in Nodes, l \in Lanes : AcceptStream(n, c, l)
             \/ \E n \in Nodes : \E p \in Nodes \ {n} : \E i \in 1..MaxFaults + 1 : BackoffEnds(n, p, i)
             \/ UNCHANGED vars
    <3>1. UNCHANGED <<up, pairs, stopping, faults, parted, lane>>
      BY <2>4 DEF AcceptStream, BackoffEnds, vars, fabricVars, linkVars
    <3> QED BY <1>1, <3>1
  <2> QED BY <1>8, <2>1, <2>2, <2>3, <2>4 DEF Rests
<1> QED BY <1>3, <1>4, <1>5, <1>6, <1>7, <1>8, StepKinds, LaneStepCalm, ConnStepCalm

LEMMA ConnsInit == Init => DialInv /\ ConnInv /\ CalmInv
<1> SUFFICES ASSUME Init PROVE DialInv /\ ConnInv /\ CalmInv
  OBVIOUS
<1>1. /\ pairs = <<>> /\ DOMAIN pairs = {} /\ parted = {} /\ stopping = {}
      /\ \A n \in Nodes : up[n] = 1
      /\ \A l \in Lanes : lane[l].pc = "off"
      /\ \A n \in Nodes : \A p \in Nodes \ {n} : reg[n][p] = 0
  BY DEF Init, FabricInit, LaneOff
<1>2. DialInv
  BY <1>1 DEF DialInv, Dials
<1>3. ConnInv
  BY <1>1 DEF ConnInv, GreetInv, Greets, PairInv, RegInv
<1>4. CalmInv
  BY <1>1 DEF CalmInv, Calm, Spared
<1> QED BY <1>2, <1>3, <1>4

LEMMA AgreeInv ==
  ASSUME Types, DialInv, ConnInv, CalmInv
  PROVE  ConnectionsAgree
<1> SUFFICES ASSUME NEW n \in Nodes, NEW p \in Nodes \ {n}, Settled(n, p)
             PROVE  /\ up[n] # 0 /\ up[p] # 0 /\ reg[n][p] # 0 => reg[p][n] = reg[n][p]
                    /\ \A c \in Own(n) : Other(c, n) = p /\ Open(c) => reg[n][p] = c
                    /\ faults = 0 /\ (\E c \in DOMAIN pairs : {pairs[c].from, pairs[c].to} = {n, p})
                         => reg[n][p] # 0
  BY DEF ConnectionsAgree
<1>0. n # p /\ n \in Nodes \ {p} /\ p \in Nodes /\ n \in Nat /\ p \in Nat
  BY FabricAssumption
<1>1. ASSUME NEW c \in DOMAIN pairs, Dialed(c, n, p) \/ Dialed(c, p, n), Open(c)
      PROVE  reg[n][p] = c /\ reg[p][n] = c
  <2> DEFINE x == pairs[c].from
             y == pairs[c].to
  <2>1. Joined(c) /\ x \in Nodes /\ y \in Nodes /\ x # y /\ pairs[c].toGen # 0 /\ c # 0
    BY PairEnds DEF ConnInv, PairInv
  <2>2. {x, y} = {n, p}
    BY <1>1 DEF Dialed
  <2>3. \A l \in Lanes : ~Greets(l, c)
    <3> SUFFICES ASSUME NEW l \in Lanes, Greets(l, c) PROVE FALSE
      OBVIOUS
    <3>1. Dialed(c, From(l), To(l))
      BY DEF ConnInv, GreetInv
    <3>2. {From(l), To(l)} = {n, p}
      BY <2>2, <3>1 DEF Dialed
    <3> QED BY <3>2 DEF Settled, Greets
  <2>4. pairs[c].accept = "done"
    <3>1. up[y] = pairs[c].toGen
      BY <1>1, <2>1 DEF Joined
    <3>2. c \in Own(y)
      BY <2>1, <3>1 DEF Own, GenAt
    <3>3. c \in Own(n) \cup Own(p)
      BY <2>2, <3>2
    <3>4. pairs[c].accept \notin {"queued", "replied"}
      BY <2>2, <3>1, <3>3 DEF Settled
    <3>5. pairs[c] \in PairType
      BY PairNodes
    <3> QED BY <3>4, <3>5 DEF PairType
  <2>5. reg[x][y] = c /\ reg[y][x] = c
    BY <1>1, <2>1, <2>3, <2>4 DEF Joined
  <2> QED BY <1>0, <2>2, <2>5
<1>2. ASSUME up[n] # 0, up[p] # 0, reg[n][p] # 0 PROVE reg[p][n] = reg[n][p]
  <2> DEFINE c == reg[n][p]
  <2>1. Mine(n, p, c) /\ c \in receiving[n]
    BY <1>2 DEF ConnInv, RegInv
  <2>2. c \in DOMAIN pairs /\ (Dialed(c, n, p) \/ Dialed(c, p, n)) /\ c \in Own(n)
    BY <1>0, <2>1 DEF Mine, Dialed, Own, GenAt
  <2>3. {pairs[c].from, pairs[c].to} = {n, p}
    BY <2>2 DEF Dialed
  <2>4. Open(c)
    BY <2>1, <2>2, <2>3 DEF Settled
  <2> QED BY <1>1, <2>2, <2>4
<1>3. ASSUME NEW c \in Own(n), Other(c, n) = p, Open(c) PROVE reg[n][p] = c
  <2>1. c \in DOMAIN pairs /\ (Dialed(c, n, p) \/ Dialed(c, p, n))
    BY <1>0, <1>3 DEF Own, Other, Dialed
  <2> QED BY <1>1, <1>3, <2>1
<1>4. ASSUME faults = 0, NEW c \in DOMAIN pairs, {pairs[c].from, pairs[c].to} = {n, p}
      PROVE  reg[n][p] # 0
  <2>0. Dialed(c, n, p) \/ Dialed(c, p, n)
    BY <1>0, <1>4 DEF Dialed
  <2>1. \A d \in DOMAIN pairs : d # 0
    BY PairEnds
  <2>2. /\ Alone(n, p) => Spared(n, p)
        /\ Alone(p, n) => Spared(p, n)
    BY <1>0, <1>4 DEF CalmInv
  <2>3. \E d \in DOMAIN pairs : (Dialed(d, n, p) \/ Dialed(d, p, n)) /\ Open(d)
    <3>1. CASE Alone(n, p) /\ Dialed(c, n, p)
      BY <2>2, <3>1 DEF Spared
    <3>2. CASE Alone(p, n) /\ Dialed(c, p, n)
      BY <2>2, <3>2 DEF Spared
    <3>3. CASE ~Alone(n, p) /\ Dialed(c, n, p)
      <4>1. p < n /\ \E d \in DOMAIN pairs : Dialed(d, p, n)
        BY <1>0, <3>3 DEF Alone
      <4> QED BY <2>2, <4>1 DEF Spared, Alone
    <3>4. CASE ~Alone(p, n) /\ Dialed(c, p, n)
      <4>1. n < p /\ \E d \in DOMAIN pairs : Dialed(d, n, p)
        BY <1>0, <3>4 DEF Alone
      <4> QED BY <2>2, <4>1 DEF Spared, Alone
    <3> QED BY <2>0, <3>1, <3>2, <3>3, <3>4
  <2> QED BY <1>1, <2>1, <2>3
<1> QED BY <1>2, <1>3, <1>4

\* Two nodes that dialed each other at once end up with the same connection,
\* leave no other open, and are connected at all unless there was a fault
\* (Inner::register and its callers), for any nodes and lanes and any number of
\* connections, incarnations and faults.
THEOREM NodesAgree == Spec => []ConnectionsAgree
<1> DEFINE Inv == Types /\ LanesGood /\ DialInv /\ ConnInv /\ CalmInv
<1>1. Init => Inv
  BY TypesInit, ConnsInit
<1>2. Inv /\ [Next]_vars => Inv'
  BY TypesStep, DialNext, ConnNext, CalmNext
<1>3. Inv => ConnectionsAgree
  BY AgreeInv
<1> QED BY <1>1, <1>2, <1>3, PTL DEF Spec

------------------------------------------------------------------------------
(* Membership.                                                             *)

ViewType == [member : Nat, cut : BOOLEAN, key : Nat, graces : SUBSET Nat,
             heard : {"out", "in", "cut", "confused"}, news : BOOLEAN]

\* What the member list says of a peer is what the events said.
Consistent(v) ==
  /\ v \in ViewType
  /\ v.heard = IF v.member = 0 THEN "out" ELSE IF v.cut THEN "cut" ELSE "in"
  /\ v.member = 0 => ~v.cut

\* v became w: consistent as well, and no change without an event.
Announced(v, w) ==
  /\ Consistent(w)
  /\ w.member # v.member => w.news
  /\ v.news => w.news

\* What the events are right because of: the member list follows foca by one
\* incarnation at a time, and foca never takes a peer it does not know for one.
ViewInv ==
  /\ foca \in [Peers -> [gen : Nat, state : {"unknown", "active", "down"}]]
  /\ view \in [Peers -> ViewType]
  /\ \A p \in Peers :
       /\ Consistent(view[p])
       /\ foca[p].state = "unknown" <=> foca[p].gen = 0
       /\ view[p].member \in {0, foca[p].gen}

\* What a waiter has seen, from its first read on.
WaitInv ==
  /\ wait \in [pc : {"off", "check", "listen", "heard"}, seen : [Peers -> Nat],
               news : BOOLEAN]
  /\ wait.pc \in {"check", "listen"} /\ ~wait.news => wait.seen = Members

\* What a generation is newer because of: a process knows, or has stored, the
\* last one that was handed out.
PeerInv ==
  /\ peer \in [Peers -> [gen : Nat, up : BOOLEAN, last : Nat, stored : Nat, handed : Nat]]
  /\ \A p \in Peers :
       /\ peer[p].handed = peer[p].last
       /\ p \in Stored => peer[p].stored = peer[p].handed
       /\ peer[p].gen = 0 => peer[p].handed = 0

-----------------------------------------------------------------------------
(* The member list, one change at a time.                                  *)

\* member_up, of the peer's first incarnation or of the one that is a member.
LEMMA UpAnnounced ==
  ASSUME NEW v, Consistent(v), NEW g \in Nat \ {0}, v.member \in {0, g}
  PROVE  Announced(v, MemberUp(v, g)) /\ MemberUp(v, g).member = g
  BY DEF Announced, Consistent, ViewType, MemberUp, Publish

\* member_failed and member_left.
LEMMA GoneAnnounced ==
  ASSUME NEW v, Consistent(v), NEW g \in Nat
  PROVE  /\ g # 0 => Announced(v, MemberFailed(v, g))
         /\ Announced(v, MemberLeft(v, g))
         /\ MemberFailed(v, g).member \in {0, v.member}
         /\ MemberLeft(v, g).member \in {0, v.member}
  BY DEF Announced, Consistent, ViewType, MemberFailed, MemberLeft, Publish, Remove

\* member_renamed says two things, or nothing.
LEMMA RenameAnnounced ==
  ASSUME NEW v, Consistent(v), NEW before \in Nat \ {0}, NEW after \in Nat \ {0}
  PROVE  /\ Announced(v, MemberRenamed(v, before, after))
         /\ MemberRenamed(v, before, after).member =
              IF v.member = before THEN after ELSE v.member
<1> DEFINE w == [v EXCEPT !.member = after, !.cut = FALSE]
           x == Publish(w, "Failed")
           y == Publish(x, "Up")
<1>1. CASE v.member = before
  <2>1. w \in ViewType /\ w.heard \in {"in", "cut"} /\ w.member = after /\ ~w.cut
    BY <1>1 DEF Consistent, ViewType
  <2>2. /\ x \in ViewType /\ x.heard = "out" /\ x.member = after /\ ~x.cut /\ x.news
    BY <2>1 DEF Publish, ViewType
  <2>3. y \in ViewType /\ y.heard = "in" /\ y.member = after /\ ~y.cut /\ y.news
    BY <2>2 DEF Publish, ViewType
  <2> QED BY <1>1, <2>3 DEF Announced, Consistent, MemberRenamed
<1>2. CASE v.member # before
  BY <1>2 DEF Announced, MemberRenamed
<1> QED BY <1>1, <1>2

\* What the driver does to its graces alone.
LEMMA GraceAnnounced ==
  ASSUME NEW v, Consistent(v), NEW g \in Nat
  PROVE  /\ Announced(v, CancelPending(v)) /\ CancelPending(v).member = v.member
         /\ Announced(v, NotifyDown(v, g)) /\ NotifyDown(v, g).member = v.member
  BY DEF Announced, Consistent, ViewType, CancelPending, NotifyDown

\* Announcements add up.
LEMMA AnnouncedTwice ==
  ASSUME NEW v, NEW w, NEW x, Announced(v, w), Announced(w, x)
  PROVE  Announced(v, x)
  BY DEF Announced

-----------------------------------------------------------------------------
(* The steps.                                                              *)

\* A change that is announced keeps the waiter's knowledge, and the events.
LEMMA ChangeKeeps ==
  ASSUME ViewInv, WaitInv, NEW p \in Peers, NEW v, Becomes(p, v), Announced(view[p], v)
  PROVE  /\ view' \in [Peers -> ViewType] /\ Consistent(view'[p])
         /\ view'[p].member = v.member
         /\ \A q \in Peers : q # p => view'[q] = view[q]
         /\ WaitInv'
<1>1. /\ view' = [view EXCEPT ![p] = [v EXCEPT !.news = FALSE]]
      /\ wait' = [wait EXCEPT !.news = @ \/ v.news]
  BY DEF Becomes
<1>2. v \in ViewType /\ [v EXCEPT !.news = FALSE] \in ViewType
  BY DEF Announced, Consistent, ViewType
<1>3. /\ view' \in [Peers -> ViewType]
      /\ view'[p] = [v EXCEPT !.news = FALSE] /\ \A q \in Peers : q # p => view'[q] = view[q]
  BY <1>1, <1>2 DEF ViewInv
<1>4. Consistent(view'[p]) /\ view'[p].member = v.member
  BY <1>2, <1>3 DEF Announced, Consistent, ViewType
<1>5. wait' \in [pc : {"off", "check", "listen", "heard"}, seen : [Peers -> Nat],
                 news : BOOLEAN]
  BY <1>1, <1>2 DEF WaitInv, ViewType
<1>6. wait'.pc = wait.pc /\ wait'.seen = wait.seen /\ wait'.news = (wait.news \/ v.news)
  BY <1>1 DEF WaitInv
<1>7. ~v.news => Members' = Members
  BY <1>3, <1>4 DEF Announced, Members
<1> QED BY <1>3, <1>4, <1>5, <1>6, <1>7 DEF WaitInv

\* Foca's notifications.
LEMMA FocaKeeps ==
  ASSUME ViewInv, WaitInv, NEW p \in Peers,
         FocaDown(p) \/ \E g \in 1..Generations : FocaUp(p, g)
  PROVE  ViewInv' /\ WaitInv'
<1> DEFINE f == foca[p]
<1>0. /\ f \in [gen : Nat, state : {"unknown", "active", "down"}] /\ Consistent(view[p])
      /\ f.state = "unknown" <=> f.gen = 0
      /\ view[p].member \in {0, f.gen}
  BY DEF ViewInv
<1>1. CASE FocaDown(p)
  <2>1. Becomes(p, NotifyDown(view[p], f.gen))
    BY <1>1 DEF FocaDown
  <2>2. Announced(view[p], NotifyDown(view[p], f.gen))
        /\ NotifyDown(view[p], f.gen).member = view[p].member
    BY <1>0, GraceAnnounced
  <2>3. foca' = [foca EXCEPT ![p].state = "down"] /\ f.state = "active"
    BY <1>1 DEF FocaDown
  <2> HIDE DEF f
  <2>4. /\ view' \in [Peers -> ViewType] /\ Consistent(view'[p])
        /\ view'[p].member = view[p].member
        /\ \A q \in Peers : q # p => view'[q] = view[q]
        /\ WaitInv'
    BY <2>1, <2>2, ChangeKeeps
  <2> QED BY <1>0, <2>3, <2>4 DEF ViewInv, f
<1>2. ASSUME NEW g \in 1..Generations, FocaUp(p, g) PROVE ViewInv' /\ WaitInv'
  <2> DEFINE c == CancelPending(view[p])
             r == MemberRenamed(c, f.gen, g)
             v == CASE f.state = "unknown" -> NotifyUp(view[p], g)
                    [] f.state = "active"  -> NotifyRename(view[p], f.gen, g)
                    [] f.state = "down"    -> NotifyUp(NotifyRename(view[p], f.gen, g), g)
  <2>0. g \in Nat \ {0}
    BY MembershipAssumption
  <2>1. /\ foca' = [foca EXCEPT ![p] = [gen |-> g, state |-> "active"]]
        /\ Becomes(p, v)
    BY <1>2, Zenon DEF FocaUp
  <2>2. Announced(view[p], c) /\ c.member = view[p].member /\ Consistent(c)
    BY <1>0, GraceAnnounced DEF Announced
  <2>3. f.state # "unknown" =>
          /\ Announced(view[p], r) /\ Consistent(r)
          /\ r.member = IF view[p].member = f.gen THEN g ELSE 0
    <3> HAVE f.state # "unknown"
    <3>1. f.gen \in Nat \ {0}
      BY <1>0
    <3>2. Announced(c, r) /\ r.member = IF c.member = f.gen THEN g ELSE c.member
      BY <2>0, <2>2, <3>1, RenameAnnounced
    <3> QED BY <1>0, <2>2, <3>2, AnnouncedTwice DEF Announced
  <2>4. Announced(view[p], v) /\ v.member \in {0, g}
    <3>1. CASE f.state = "unknown"
      <4>1. c.member \in {0, g}
        BY <1>0, <2>2, <3>1
      <4>2. Announced(c, MemberUp(c, g)) /\ MemberUp(c, g).member = g
        BY <2>0, <2>2, <4>1, UpAnnounced
      <4> QED BY <2>2, <3>1, <4>2, AnnouncedTwice DEF NotifyUp
    <3>2. CASE f.state = "active"
      BY <2>3, <3>2 DEF NotifyRename
    <3>3. CASE f.state = "down"
      <4> DEFINE d == CancelPending(r)
      <4>1. Announced(r, d) /\ d.member = r.member /\ Consistent(d)
        BY <1>0, <2>3, <3>3, GraceAnnounced DEF Announced
      <4>2. Announced(d, MemberUp(d, g)) /\ MemberUp(d, g).member = g
        BY <2>0, <2>3, <3>3, <4>1, UpAnnounced
      <4>3. v = MemberUp(d, g)
        BY <3>3 DEF NotifyUp, NotifyRename
      <4> HIDE DEF d, r, v
      <4>4. Announced(view[p], d)
        BY <2>3, <3>3, <4>1, AnnouncedTwice
      <4>5. Announced(view[p], MemberUp(d, g))
        BY <4>2, <4>4, AnnouncedTwice
      <4> QED BY <4>2, <4>3, <4>5
    <3> QED BY <1>0, <3>1, <3>2, <3>3
  <2> HIDE DEF v
  <2>5. /\ view' \in [Peers -> ViewType] /\ Consistent(view'[p])
        /\ view'[p].member = v.member
        /\ \A q \in Peers : q # p => view'[q] = view[q]
        /\ WaitInv'
    BY <2>1, <2>4, ChangeKeeps
  <2> QED BY <2>0, <2>1, <2>4, <2>5 DEF ViewInv
<1> QED BY <1>1, <1>2

\* What the driver does without foca.
LEMMA DriverKeeps ==
  ASSUME ViewInv, WaitInv, NEW p \in Peers,
         \/ PeerUnreachable(p) \/ PeerReachable(p)
         \/ \E g \in 1..Generations : Expire(p, g) \/ Departure(p, g)
  PROVE  ViewInv' /\ WaitInv'
<1>0. Consistent(view[p]) /\ view[p].member \in {0, foca[p].gen}
  BY DEF ViewInv
<1>1. ASSUME NEW v, Becomes(p, v), Announced(view[p], v), v.member \in {0, view[p].member},
             UNCHANGED foca
      PROVE  ViewInv' /\ WaitInv'
  <2>1. /\ view' \in [Peers -> ViewType] /\ Consistent(view'[p])
        /\ view'[p].member = v.member
        /\ \A q \in Peers : q # p => view'[q] = view[q]
        /\ WaitInv'
    BY <1>1, ChangeKeeps
  <2> QED BY <1>0, <1>1, <2>1 DEF ViewInv
<1>2. CASE PeerUnreachable(p)
  <2> DEFINE v == Publish([view[p] EXCEPT !.cut = TRUE], "Unreachable")
  <2>1. Becomes(p, v) /\ UNCHANGED foca /\ view[p].member # 0 /\ ~view[p].cut
    BY <1>2 DEF PeerUnreachable
  <2>2. Announced(view[p], v) /\ v.member = view[p].member
    BY <1>0, <2>1 DEF Announced, Consistent, ViewType, Publish
  <2> QED BY <1>1, <2>1, <2>2
<1>3. CASE PeerReachable(p)
  <2> DEFINE v == Publish([view[p] EXCEPT !.cut = FALSE], "Reachable")
  <2>1. Becomes(p, v) /\ UNCHANGED foca /\ view[p].member # 0 /\ view[p].cut
    BY <1>3 DEF PeerReachable
  <2>2. Announced(view[p], v) /\ v.member = view[p].member
    BY <1>0, <2>1 DEF Announced, Consistent, ViewType, Publish
  <2> QED BY <1>1, <2>1, <2>2
<1>4. ASSUME NEW g \in 1..Generations, Expire(p, g) PROVE ViewInv' /\ WaitInv'
  <2> DEFINE w == [view[p] EXCEPT !.graces = @ \ {g}, !.key = 0]
             v == MemberFailed(w, g)
  <2>0. g \in Nat /\ g # 0
    BY MembershipAssumption
  <2>1. Becomes(p, v) /\ UNCHANGED foca
    BY <1>4, Zenon DEF Expire
  <2>2. Announced(view[p], w) /\ Consistent(w) /\ w.member = view[p].member
    BY <1>0 DEF Announced, Consistent, ViewType
  <2>3. Announced(w, v) /\ v.member \in {0, w.member}
    BY <2>0, <2>2, GoneAnnounced
  <2> HIDE DEF v, w
  <2>4. Announced(view[p], v)
    BY <2>2, <2>3, AnnouncedTwice
  <2> QED BY <1>1, <2>1, <2>2, <2>3, <2>4
<1>5. ASSUME NEW g \in 1..Generations, Departure(p, g) PROVE ViewInv' /\ WaitInv'
  <2> DEFINE w == MemberLeft(view[p], g)
             v == IF view[p].member = g THEN CancelPending(w) ELSE view[p]
  <2>1. Becomes(p, v) /\ UNCHANGED foca /\ g \in Nat
    BY <1>5, MembershipAssumption DEF Departure
  <2>2. Announced(view[p], w) /\ Consistent(w) /\ w.member \in {0, view[p].member}
    BY <1>0, <2>1, GoneAnnounced DEF Announced
  <2>3. Announced(w, CancelPending(w)) /\ CancelPending(w).member = w.member
    BY <2>1, <2>2, GraceAnnounced
  <2>4. Announced(view[p], view[p])
    BY <1>0 DEF Announced
  <2>5. Announced(view[p], v) /\ v.member \in {0, view[p].member}
    BY <2>2, <2>3, <2>4, AnnouncedTwice
  <2> QED BY <1>1, <2>1, <2>5
<1> QED BY <1>2, <1>3, <1>4, <1>5

\* Every other step leaves the view alone.
LEMMA ViewStep == ViewInv /\ WaitInv /\ [MembershipNext]_membershipVars => ViewInv' /\ WaitInv'
<1> SUFFICES ASSUME ViewInv, WaitInv, [MembershipNext]_membershipVars PROVE ViewInv' /\ WaitInv'
  OBVIOUS
<1>1. ASSUME UNCHANGED <<foca, view, wait>> PROVE ViewInv' /\ WaitInv'
  BY <1>1 DEF ViewInv, WaitInv, Members
<1>2. ASSUME NEW p \in Peers,
             \/ Renew(p) \/ End(p)
             \/ \E g \in 1..Generations : LoseDeparture(p, g)
             \/ \E now \in Clock, afresh \in BOOLEAN : Start(p, now, afresh)
      PROVE  ViewInv' /\ WaitInv'
  BY <1>1, <1>2 DEF Renew, End, LoseDeparture, Start
<1>3. ASSUME LeaveDefunct \/ \E s \in {"Leaving", "Defunct"} : SetStatus(s)
      PROVE  ViewInv' /\ WaitInv'
  BY <1>1, <1>3 DEF LeaveDefunct, SetStatus
<1>4. ASSUME WaitStep PROVE ViewInv' /\ WaitInv'
  <2>1. UNCHANGED <<foca, view>> /\ Members' = Members
    BY <1>4 DEF WaitStep, StartWait, Check, Hear, Reread, Members
  <2>2. Members \in [Peers -> Nat]
    BY DEF Members, ViewInv, ViewType
  <2> DEFINE WaitType == [pc : {"off", "check", "listen", "heard"}, seen : [Peers -> Nat],
                          news : BOOLEAN]
             Read == wait.pc \in {"check", "listen"} /\ ~wait.news => wait.seen = Members
  <2>0. wait \in WaitType /\ Read
    BY DEF WaitInv
  <2>3. ViewInv'
    BY <2>1 DEF ViewInv
  <2>4. CASE StartWait
    <3>1. wait' = [pc |-> "check", seen |-> Members, news |-> FALSE]
      BY <2>4 DEF StartWait
    <3>2. wait' \in WaitType
      BY <2>2, <3>1
    <3>3. wait'.seen = Members'
      BY <2>1, <3>1
    <3> QED BY <2>3, <3>2, <3>3 DEF WaitInv
  <2>5. CASE Check
    <3>1. wait' = [wait EXCEPT !.pc = IF Enough(wait.seen) THEN "off" ELSE "listen"]
          /\ wait.pc = "check"
      BY <2>5 DEF Check
    <3>2. wait' \in WaitType /\ wait'.seen = wait.seen /\ wait'.news = wait.news
      BY <2>0, <3>1
    <3> QED BY <2>3, <2>0, <2>1, <3>1, <3>2 DEF WaitInv
  <2>6. CASE Hear
    <3>1. wait' = [wait EXCEPT !.pc = "heard", !.news = FALSE]
      BY <2>6 DEF Hear
    <3>2. wait' \in WaitType /\ wait'.pc = "heard"
      BY <2>0, <3>1
    <3> QED BY <2>3, <3>2 DEF WaitInv
  <2>7. CASE Reread
    <3>1. wait' = [wait EXCEPT !.pc = "check", !.seen = Members]
      BY <2>7 DEF Reread
    <3>2. wait' \in WaitType /\ wait'.seen = Members
      BY <2>0, <2>2, <3>1
    <3> QED BY <2>3, <2>1, <3>2 DEF WaitInv
  <2> QED BY <1>4, <2>4, <2>5, <2>6, <2>7 DEF WaitStep
<1>5. CASE UNCHANGED membershipVars
  BY <1>1, <1>5 DEF membershipVars
<1> QED BY <1>2, <1>3, <1>4, <1>5, FocaKeeps, DriverKeeps DEF MembershipNext

\* A generation is picked once per process, and only Renew moves it on.
LEMMA PeerStep == PeerInv /\ [MembershipNext]_membershipVars => PeerInv'
<1> SUFFICES ASSUME PeerInv, [MembershipNext]_membershipVars PROVE PeerInv'
  OBVIOUS
<1>1. ASSUME NEW p \in Peers, NEW now \in Clock, NEW afresh \in BOOLEAN, Start(p, now, afresh)
      PROVE  PeerInv'
  <2> DEFINE q == peer[p]
             g == Pick(now, Greater(IF afresh THEN 0 ELSE q.last, q.stored))
  <2>1. g \in Nat /\ g # 0
    BY MembershipAssumption DEF Pick, Greater, PeerInv
  <2>2. peer' = [peer EXCEPT ![p] =
                   [gen |-> g, up |-> TRUE, last |-> g, handed |-> g,
                    stored |-> IF p \in Stored THEN g ELSE q.stored]]
    BY <1>1 DEF Start
  <2> HIDE DEF g
  <2> QED BY <2>1, <2>2 DEF PeerInv
<1>2. ASSUME NEW p \in Peers, Renew(p) \/ End(p) PROVE PeerInv'
  <2>1. CASE Renew(p)
    <3>1. peer' = [peer EXCEPT ![p].gen = @ + 1]
      BY <2>1 DEF Renew
    <3> QED BY <3>1 DEF PeerInv
  <2>2. CASE End(p)
    <3>1. peer' = [peer EXCEPT ![p].up = FALSE]
      BY <2>2 DEF End
    <3> QED BY <3>1 DEF PeerInv
  <2> QED BY <1>2, <2>1, <2>2
<1>3. ASSUME UNCHANGED peer PROVE PeerInv'
  BY <1>3 DEF PeerInv
<1>4. ASSUME NEW p \in Peers,
             \/ FocaDown(p) \/ PeerUnreachable(p) \/ PeerReachable(p)
             \/ \E g \in 1..Generations :
                  FocaUp(p, g) \/ Expire(p, g) \/ Departure(p, g) \/ LoseDeparture(p, g)
      PROVE  PeerInv'
  BY <1>3, <1>4 DEF FocaDown, PeerUnreachable, PeerReachable, FocaUp, Expire, Departure,
     LoseDeparture
<1>5. ASSUME LeaveDefunct \/ WaitStep \/ \E s \in {"Leaving", "Defunct"} : SetStatus(s)
      PROVE  PeerInv'
  BY <1>3, <1>5 DEF LeaveDefunct, SetStatus, WaitStep, StartWait, Check, Hear, Reread
<1>6. CASE UNCHANGED membershipVars
  BY <1>3, <1>6 DEF membershipVars
<1> QED BY <1>1, <1>2, <1>4, <1>5, <1>6 DEF MembershipNext

LEMMA InvInit == MembershipInit => ViewInv /\ WaitInv /\ PeerInv
<1> SUFFICES ASSUME MembershipInit PROVE ViewInv /\ WaitInv /\ PeerInv
  OBVIOUS
<1>1. ViewInit \in ViewType /\ Consistent(ViewInit)
  BY DEF ViewInit, ViewType, Consistent
<1>2. ViewInv
  BY <1>1 DEF MembershipInit, ViewInv, ViewInit
<1>3. WaitInv
  BY DEF MembershipInit, WaitInv
<1>4. PeerInv
  BY DEF MembershipInit, PeerInv, PeerInit
<1> QED BY <1>2, <1>3, <1>4

-----------------------------------------------------------------------------
\* Whatever foca, the goodbyes and the links report, in whatever order and for
\* whichever incarnation, the events tell of each peer what the member list says.
THEOREM EventsAreEnough == MembershipSpec => []EventsTellAll
<1>1. ViewInv => EventsTellAll
  BY DEF ViewInv, Consistent, EventsTellAll
<1> QED BY <1>1, InvInit, ViewStep, PTL DEF MembershipSpec

\* wait_until never listens for a change that came before it listened.
THEOREM WaitersAreCurrent == MembershipSpec => []WaiterIsCurrent
<1>1. WaitInv => WaiterIsCurrent
  BY DEF WaitInv, WaiterIsCurrent
<1> QED BY <1>1, InvInit, ViewStep, PTL DEF MembershipSpec

\* However the clock stands, and whether LAST or the store remembers it, a
\* process that starts is newer than every one before it.
THEOREM RestartsAreNewer == MembershipSpec => RestartIsNewer
<1> DEFINE Newer == \A p \in Peers : peer'[p].up /\ ~peer[p].up => peer'[p].gen > peer[p].handed
<1>1. PeerInv /\ [MembershipNext]_membershipVars => [Newer]_membershipVars
  <2> SUFFICES ASSUME PeerInv, MembershipNext PROVE Newer
    OBVIOUS
  <2>1. ASSUME NEW p \in Peers, NEW now \in Clock, NEW afresh \in BOOLEAN, Start(p, now, afresh)
        PROVE  Newer
    <3> DEFINE q == peer[p]
               g == Pick(now, Greater(IF afresh THEN 0 ELSE q.last, q.stored))
    <3>1. /\ q.last \in Nat /\ q.stored \in Nat /\ q.handed = q.last
          /\ p \in Stored => q.stored = q.handed
          /\ q.gen = 0 => q.handed = 0
          /\ q.gen = 0 \/ p \in Stored \/ ~afresh
      BY <2>1 DEF PeerInv, Start
    <3>2. g > q.handed
      BY <3>1, MembershipAssumption DEF Pick, Greater
    <3>3. peer' = [peer EXCEPT ![p] =
                     [gen |-> g, up |-> TRUE, last |-> g, handed |-> g,
                      stored |-> IF p \in Stored THEN g ELSE q.stored]]
      BY <2>1 DEF Start
    <3> HIDE DEF g
    <3> QED BY <3>2, <3>3 DEF PeerInv
  <2>2. ASSUME \A p \in Peers : peer'[p].up => peer[p].up PROVE Newer
    BY <2>2
  <2>3. ASSUME NEW p \in Peers, Renew(p) \/ End(p) PROVE Newer
    BY <2>2, <2>3 DEF Renew, End, PeerInv
  <2>4. ASSUME UNCHANGED peer PROVE Newer
    BY <2>2, <2>4
  <2>5. ASSUME NEW p \in Peers,
               \/ FocaDown(p) \/ PeerUnreachable(p) \/ PeerReachable(p)
               \/ \E g \in 1..Generations :
                    FocaUp(p, g) \/ Expire(p, g) \/ Departure(p, g) \/ LoseDeparture(p, g)
        PROVE  Newer
    BY <2>4, <2>5 DEF FocaDown, PeerUnreachable, PeerReachable, FocaUp, Expire, Departure,
       LoseDeparture
  <2>6. ASSUME LeaveDefunct \/ WaitStep \/ \E s \in {"Leaving", "Defunct"} : SetStatus(s)
        PROVE  Newer
    BY <2>4, <2>6 DEF LeaveDefunct, SetStatus, WaitStep, StartWait, Check, Hear, Reread
  <2> QED BY <2>1, <2>3, <2>5, <2>6 DEF MembershipNext
<1> QED BY <1>1, InvInit, PeerStep, PTL DEF MembershipSpec, RestartIsNewer

------------------------------------------------------------------------------
(* A supervisor and its source.                                            *)

\* A set of numbers has a least one.
LEMMA Least ==
  ASSUME NEW T \in SUBSET Nat, T # {}
  PROVE  \E n \in T : \A m \in T : n <= m
<1> DEFINE R == OpToRel(<, Nat)
<1>1. \E n \in T : \A m \in T : <<m, n>> \notin R
  <2>1. IsWellFoundedOn(R, Nat)
    BY NatLessThanWellFounded
  <2> HIDE DEF R
  <2> QED BY <2>1, WFMin
<1>2. \A n, m \in Nat : <<m, n>> \in R <=> m < n
  BY DEF OpToRel
<1> HIDE DEF R
<1>3. PICK n \in T : \A m \in T : <<m, n>> \notin R
  BY <1>1
<1>4. ASSUME NEW m \in T PROVE n <= m
  <2>1. n \in Nat /\ m \in Nat /\ ~(m < n)
    BY <1>2, <1>3
  <2> QED BY <2>1
<1> QED BY <1>4

Event == [kind : {"Added", "Removed"}, name : Names]

\* The children S, after each of the events.
Plays(f, q, S) ==
  /\ f \in [0..Len(q) -> SUBSET Names]
  /\ f[0] = S
  /\ \A i \in 1..Len(q) : f[i] = Meant(q[i], f[i - 1])

\* No event of q is on the name x.
NoneOn(q, x) == \A i \in 1..Len(q) : q[i].name # x

\* The events of q make T of the children S, but for names in A that no event is
\* on.
Leads(q, S, T, A) ==
  \E f : /\ Plays(f, q, S)
         /\ \A x \in Names \ Blueprint :
              (x \in f[Len(q)] <=> x \in T) \/ (x \in A /\ NoneOn(q, x))

LEMMA PlaysReplayed ==
  ASSUME NEW q \in Seq(Event), NEW S \in SUBSET Names, NEW f, Plays(f, q, S)
  PROVE  Replayed(q, S) = f[Len(q)]
<1> DEFINE after == CHOOSE g : g = [i \in 0..Len(q) |->
                                      IF i = 0 THEN S ELSE Meant(q[i], g[i - 1])]
           D == {i \in 0..Len(q) : after[i] # f[i]}
<1>1. /\ Len(q) \in Nat
      /\ \A i \in 0..Len(q) : f[i] = IF i = 0 THEN S ELSE Meant(q[i], f[i - 1])
  BY LenProperties DEF Plays
<1>2. after = [i \in 0..Len(q) |-> IF i = 0 THEN S ELSE Meant(q[i], after[i - 1])]
  <2>1. f = [i \in 0..Len(q) |-> IF i = 0 THEN S ELSE Meant(q[i], f[i - 1])]
    BY <1>1 DEF Plays
  <2> QED BY <2>1
<1>3. Replayed(q, S) = after[Len(q)]
  BY DEF Replayed
<1> HIDE DEF after
<1>4. D = {}
  <2> SUFFICES ASSUME D # {} PROVE FALSE
    OBVIOUS
  <2>1. D \in SUBSET Nat
    BY <1>1
  <2>2. PICK n \in D : \A m \in D : n <= m
    <3> HIDE DEF D
    <3> QED BY <2>1, Least
  <2>3. n \in 0..Len(q) /\ n # 0
    BY <1>1, <1>2
  <2>4. n - 1 \in 0..Len(q) /\ n - 1 < n
    BY <1>1, <2>3
  <2>5. n - 1 \notin D
    <3> HIDE DEF D
    <3> QED BY <1>1, <2>2, <2>3, <2>4
  <2> QED BY <1>1, <1>2, <2>3, <2>4, <2>5
<1> QED BY <1>1, <1>3, <1>4

\* A supervisor that has just loaded.
LEMMA LeadsEmpty ==
  ASSUME NEW S \in SUBSET Names, NEW T, NEW A, S \ Blueprint = T \ Blueprint
  PROVE  Leads(<<>>, S, T, A)
<1> DEFINE f == [i \in 0..0 |-> S]
<1>1. Len(<<>>) = 0 /\ 0..0 = {0}
  OBVIOUS
<1>2. f[0] = S /\ f \in [0..0 -> SUBSET Names]
  OBVIOUS
<1> HIDE DEF f
<1>3. Plays(f, <<>>, S)
  BY <1>1, <1>2 DEF Plays
<1>4. \A x \in Names \ Blueprint : x \in f[Len(<<>>)] <=> x \in T
  BY <1>1, <1>2
<1> QED BY <1>3, <1>4 DEF Leads

\* A change of the source, with its event.
LEMMA LeadsAppend ==
  ASSUME NEW q \in Seq(Event), NEW S \in SUBSET Names, NEW T, NEW A, Leads(q, S, T, A),
         NEW ev \in Event
  PROVE  Leads(Append(q, ev), S, Meant(ev, T), A)
<1>1. PICK f : /\ Plays(f, q, S)
               /\ \A x \in Names \ Blueprint :
                    (x \in f[Len(q)] <=> x \in T) \/ (x \in A /\ NoneOn(q, x))
  BY DEF Leads
<1> DEFINE n == Len(q)
           r == Append(q, ev)
           g == [i \in 0..(n + 1) |-> IF i <= n THEN f[i] ELSE Meant(ev, f[n])]
<1>2. /\ n \in Nat /\ Len(r) = n + 1
      /\ r[n + 1] = ev /\ \A i \in 1..n : r[i] = q[i]
  BY AppendProperties, LenProperties
<1> HIDE DEF n, r
<1>3. /\ g \in [0..(n + 1) -> SUBSET Names]
      /\ \A i \in 0..n : g[i] = f[i]
      /\ g[n + 1] = Meant(ev, f[n])
  <2>1. \A i \in 0..n : f[i] \in SUBSET Names
    BY <1>1 DEF Plays, n
  <2>2. n \in 0..n /\ ~(n + 1 <= n) /\ n + 1 \in 0..(n + 1)
        /\ \A i \in 0..n : i \in 0..(n + 1) /\ i <= n
    BY <1>2
  <2>3. Meant(ev, f[n]) \in SUBSET Names
    BY <2>1, <2>2 DEF Meant, Event
  <2>4. \A i \in 0..(n + 1) : ~(i <= n) => i = n + 1
    BY <1>2
  <2>5. \A i \in 0..(n + 1) : i <= n => i \in 0..n
    BY <1>2
  <2>6. g \in [0..(n + 1) -> SUBSET Names]
    BY <2>1, <2>3, <2>5
  <2> QED BY <2>2, <2>6
<1> HIDE DEF g
<1>4. g[0] = S
  BY <1>1, <1>2, <1>3 DEF Plays
<1>5. ASSUME NEW i \in 1..(n + 1) PROVE g[i] = Meant(r[i], g[i - 1])
  <2>1. CASE i = n + 1
    BY <1>2, <1>3, <2>1
  <2>2. CASE i \in 1..n
    <3>1. i \in 0..n /\ i - 1 \in 0..n
      BY <1>2, <2>2
    <3> QED BY <1>1, <1>2, <1>3, <2>2, <3>1 DEF Plays, n
  <2> QED BY <1>2, <2>1, <2>2
<1>6. Plays(g, r, S)
  BY <1>2, <1>3, <1>4, <1>5 DEF Plays
<1>7. ASSUME NEW x \in Names \ Blueprint
      PROVE  (x \in g[Len(r)] <=> x \in Meant(ev, T)) \/ (x \in A /\ NoneOn(r, x))
  <2>1. CASE x = ev.name
    BY <1>2, <1>3, <2>1 DEF Meant
  <2>2. CASE x # ev.name
    <3>1. x \in g[Len(r)] <=> x \in f[n]
      BY <1>2, <1>3, <2>2 DEF Meant
    <3>2. x \in Meant(ev, T) <=> x \in T
      BY <2>2 DEF Meant
    <3>3. ASSUME NoneOn(q, x) PROVE NoneOn(r, x)
      <4> SUFFICES ASSUME NEW i \in 1..(n + 1) PROVE r[i].name # x
        BY <1>2 DEF NoneOn
      <4>1. i \in 1..n \/ i = n + 1
        BY <1>2
      <4>2. \A j \in 1..n : q[j].name # x
        BY <3>3 DEF NoneOn, n
      <4> QED BY <1>2, <2>2, <4>1, <4>2
    <3> QED BY <1>1, <3>1, <3>2, <3>3 DEF n
  <2> QED BY <2>1, <2>2
<1>8. Leads(r, S, Meant(ev, T), A)
  BY <1>6, <1>7 DEF Leads
<1> QED BY <1>8 DEF r

\* An event that is taken.
LEMMA LeadsTail ==
  ASSUME NEW q \in Seq(Event), q # <<>>, NEW S \in SUBSET Names, NEW T, NEW A, Leads(q, S, T, A)
  PROVE  Leads(Tail(q), Meant(Head(q), S), T, A \ {Head(q).name})
<1>1. PICK f : /\ Plays(f, q, S)
               /\ \A x \in Names \ Blueprint :
                    (x \in f[Len(q)] <=> x \in T) \/ (x \in A /\ NoneOn(q, x))
  BY DEF Leads
<1> DEFINE r == Tail(q)
           g == [i \in 0..Len(r) |-> f[i + 1]]
<1>2. /\ r \in Seq(Event) /\ Len(q) \in Nat \ {0} /\ Len(r) = Len(q) - 1 /\ Len(r) \in Nat
      /\ Head(q) = q[1] /\ \A i \in 1..(Len(q) - 1) : r[i] = q[i + 1]
  BY HeadTailProperties, LenProperties
<1> HIDE DEF r
<1>3. g \in [0..Len(r) -> SUBSET Names] /\ \A i \in 0..Len(r) : g[i] = f[i + 1]
  <2>1. \A i \in 0..Len(r) : i + 1 \in 0..Len(q)
    BY <1>2
  <2>2. \A i \in 0..Len(q) : f[i] \in SUBSET Names
    BY <1>1 DEF Plays
  <2> QED BY <2>1, <2>2
<1> HIDE DEF g
<1>4. g[0] = Meant(Head(q), S)
  <2>1. f[1] = Meant(q[1], f[1 - 1]) /\ f[0] = S
    BY <1>1, <1>2 DEF Plays
  <2> QED BY <1>2, <1>3, <2>1
<1>5. ASSUME NEW i \in 1..Len(r) PROVE g[i] = Meant(r[i], g[i - 1])
  <2>1. i + 1 \in 1..Len(q) /\ i - 1 \in 0..Len(r) /\ (i + 1) - 1 = (i - 1) + 1 /\ i \in 0..Len(r)
    BY <1>2
  <2>2. f[i + 1] = Meant(q[i + 1], f[(i + 1) - 1])
    BY <1>1, <2>1 DEF Plays
  <2> QED BY <1>2, <1>3, <2>1, <2>2
<1>6. Plays(g, r, Meant(Head(q), S))
  BY <1>3, <1>4, <1>5 DEF Plays
<1>7. g[Len(r)] = f[Len(q)]
  BY <1>2, <1>3
<1>8. ASSUME NEW x \in Names \ Blueprint, x \in A, NoneOn(q, x)
      PROVE  x \in A \ {Head(q).name} /\ NoneOn(r, x)
  <2>1. \A i \in 1..Len(q) : q[i].name # x
    BY <1>8 DEF NoneOn
  <2>2. 1 \in 1..Len(q) /\ \A i \in 1..Len(r) : i \in 1..(Len(q) - 1) /\ i + 1 \in 1..Len(q)
    BY <1>2
  <2>3. Head(q).name # x
    BY <1>2, <2>1, <2>2
  <2>4. \A i \in 1..Len(r) : r[i].name # x
    BY <1>2, <2>1, <2>2
  <2> QED BY <1>8, <2>3, <2>4 DEF NoneOn
<1>9. \A x \in Names \ Blueprint :
        (x \in g[Len(r)] <=> x \in T) \/ (x \in A \ {Head(q).name} /\ NoneOn(r, x))
  BY <1>1, <1>7, <1>8
<1>10. Leads(r, Meant(Head(q), S), T, A \ {Head(q).name})
  BY <1>6, <1>9 DEF Leads
<1> QED BY <1>10 DEF r

\* A child that comes or goes without the source: its name is in A from then on.
LEMMA LeadsAside ==
  ASSUME NEW q \in Seq(Event), NEW S \in SUBSET Names, NEW T, NEW A, Leads(q, S, T, A),
         NEW n \in Names, NEW U \in SUBSET Names, S \ {n} = U \ {n}
  PROVE  Leads(q, U, T, A \cup {n})
<1>1. PICK f : /\ Plays(f, q, S)
               /\ \A x \in Names \ Blueprint :
                    (x \in f[Len(q)] <=> x \in T) \/ (x \in A /\ NoneOn(q, x))
  BY DEF Leads
<1> DEFINE Said(i) == \E j \in 1..i : q[j].name = n
           Swapped(V) == (V \ {n}) \cup (U \cap {n})
           g == [i \in 0..Len(q) |-> IF Said(i) THEN f[i] ELSE Swapped(f[i])]
<1>2. /\ Len(q) \in Nat
      /\ f \in [0..Len(q) -> SUBSET Names] /\ f[0] = S
      /\ \A i \in 1..Len(q) : f[i] = Meant(q[i], f[i - 1])
  BY <1>1, LenProperties DEF Plays
<1>3. /\ g \in [0..Len(q) -> SUBSET Names]
      /\ \A i \in 0..Len(q) : g[i] = IF Said(i) THEN f[i] ELSE Swapped(f[i])
  BY <1>2
<1>4. ~Said(0) /\ \A i \in 1..Len(q) : Said(i) <=> Said(i - 1) \/ q[i].name = n
  <2>1. 1..0 = {}
    OBVIOUS
  <2>2. ASSUME NEW i \in 1..Len(q) PROVE 1..i = (1..(i - 1)) \cup {i}
    BY <1>2
  <2> QED BY <2>1, <2>2
<1> HIDE DEF Said, g
<1>5. g[0] = U
  <2>1. 0 \in 0..Len(q)
    BY <1>2
  <2>2. g[0] = Swapped(S)
    <3> HIDE DEF Swapped
    <3> QED BY <1>2, <1>3, <1>4, <2>1
  <2> QED BY <2>2
<1>6. ASSUME NEW i \in 1..Len(q) PROVE g[i] = Meant(q[i], g[i - 1])
  <2>1. i \in 0..Len(q) /\ i - 1 \in 0..Len(q)
    BY <1>2
  <2>2. CASE q[i].name = n
    <3>1. g[i] = Meant(q[i], f[i - 1])
      <4> HIDE DEF Swapped
      <4> QED BY <1>2, <1>3, <1>4, <2>1, <2>2
    <3>2. Meant(q[i], Swapped(f[i - 1])) = Meant(q[i], f[i - 1])
      BY <2>2 DEF Meant
    <3> HIDE DEF Swapped
    <3> QED BY <1>3, <2>1, <3>1, <3>2
  <2>3. CASE q[i].name # n
    <3>1. Swapped(Meant(q[i], f[i - 1])) = Meant(q[i], Swapped(f[i - 1]))
      BY <2>3 DEF Meant
    <3>2. Said(i) <=> Said(i - 1)
      BY <1>4, <2>3
    <3> HIDE DEF Swapped
    <3> QED BY <1>2, <1>3, <2>1, <3>1, <3>2
  <2> QED BY <2>2, <2>3
<1>7. Plays(g, q, U)
  BY <1>3, <1>5, <1>6 DEF Plays
<1>8. ASSUME NEW x \in Names \ Blueprint
      PROVE  (x \in g[Len(q)] <=> x \in T) \/ (x \in A \cup {n} /\ NoneOn(q, x))
  <2>1. Len(q) \in 0..Len(q)
    BY <1>2
  <2>2. CASE Said(Len(q)) \/ x # n
    <3>1. x \in g[Len(q)] <=> x \in f[Len(q)]
      BY <1>3, <2>1, <2>2
    <3> QED BY <1>1, <3>1
  <2>3. CASE ~Said(Len(q)) /\ x = n
    BY <2>3 DEF Said, NoneOn
  <2> QED BY <2>2, <2>3
<1> QED BY <1>7, <1>8 DEF Leads

SourceInv ==
  /\ events \in Seq(Event) /\ children \in SUBSET Names /\ names \in SUBSET Names
  /\ at \in {"look", "wait"} => Leads(events, names, children, aside)

LEMMA FollowsInit == ProgramInit => SourceInv
<1>1. <<>> \in Seq(Event)
  OBVIOUS
<1> QED BY <1>1 DEF ProgramInit, SourceInit, SourceInv

\* Every step keeps the events that lead to the children of the source.
LEMMA FollowsStep == SourceInv /\ [ProgramNext]_programVars => SourceInv'
<1> SUFFICES ASSUME SourceInv, [ProgramNext]_programVars PROVE SourceInv'
  OBVIOUS
<1>0. events \in Seq(Event) /\ children \in SUBSET Names /\ names \in SUBSET Names
  BY DEF SourceInv
<1> USE SourceAssumption
<1>1. ASSUME UNCHANGED <<children, events, names, aside>>,
             at' \in {"look", "wait"} => at \in {"look", "wait"}
      PROVE  SourceInv'
  BY <1>1 DEF SourceInv
<1>2. ASSUME NEW ev \in Event, children' = Meant(ev, children),
             events' = Append(events, ev), UNCHANGED <<at, names, aside>>
      PROVE  SourceInv'
  <2>1. children' \in SUBSET Names
    BY <1>0, <1>2 DEF Meant, Event
  <2>2. events' \in Seq(Event)
    BY <1>0, <1>2, AppendProperties
  <2> QED BY <1>0, <1>2, <2>1, <2>2, LeadsAppend DEF SourceInv
<1>3. ASSUME NEW n \in Names, Add(n) PROVE SourceInv'
  <2>1. Added(n) \in Event /\ children' = Meant(Added(n), children)
    BY <1>3 DEF Add, Added, Event, Meant
  <2> QED BY <1>2, <1>3, <2>1 DEF Add, Change, supVars
<1>4. ASSUME NEW n \in Names, RemoveSpec(n) PROVE SourceInv'
  <2>1. Removed(n) \in Event /\ children' = Meant(Removed(n), children)
    BY <1>4 DEF RemoveSpec, Removed, Event, Meant
  <2> QED BY <1>2, <1>4, <2>1 DEF RemoveSpec, Change, supVars
<1>5. CASE Begin
  BY <1>0, <1>5 DEF Begin, SourceInv, sourceVars
<1>6. CASE Load
  <2>1. events' = <<>> /\ children' = children /\ <<>> \in Seq(Event)
    BY <1>6 DEF Load, LoadAll
  <2>4. names' \in SUBSET Names
    BY <1>0, <1>6 DEF Load
  <2>2. CASE at' \in {"look", "wait"}
    <3>1. names' = Blueprint \cup children
      BY <1>6, <2>2 DEF Load
    <3>2. names' \ Blueprint = children \ Blueprint
      BY <3>1
    <3>3. Leads(<<>>, names', children, aside')
      BY <2>4, <3>2, LeadsEmpty
    <3> QED BY <1>0, <2>1, <2>4, <3>3 DEF SourceInv
  <2> QED BY <1>0, <2>1, <2>2, <2>4 DEF SourceInv
<1>7. CASE TakeEvent
  <2>1. /\ events # <<>> /\ events' = Tail(events) /\ UNCHANGED <<at, children>>
        /\ names' = Applied(Head(events), names) /\ aside' = aside \ {Head(events).name}
    BY <1>7 DEF TakeEvent
  <2>2. Tail(events) \in Seq(Event) /\ Head(events) \in Event
    BY <1>0, <2>1, HeadTailProperties
  <2>4. names' \in SUBSET Names
    BY <1>0, <2>1, <2>2 DEF Applied, Meant, Event
  <2>3. CASE at \in {"look", "wait"}
    <3>1. names' = Meant(Head(events), names)
      BY <2>1, <2>3 DEF Applied, Exiting
    <3>2. Leads(events, names, children, aside)
      BY <2>3 DEF SourceInv
    <3>3. Leads(Tail(events), Meant(Head(events), names), children, aside \ {Head(events).name})
      BY <1>0, <2>1, <3>2, LeadsTail
    <3>4. Leads(events', names', children', aside')
      BY <2>1, <3>1, <3>3
    <3> QED BY <1>0, <2>1, <2>2, <2>4, <3>4 DEF SourceInv
  <2> QED BY <1>0, <2>1, <2>2, <2>3, <2>4 DEF SourceInv
<1>8. CASE NoEvent
  BY <1>1, <1>8 DEF NoEvent, Looks, sourceVars
<1>9. CASE Notified
  BY <1>1, <1>9 DEF Notified, LookAgain, Exiting
<1>10. CASE Interrupted
  BY <1>1, <1>10 DEF Interrupted, LookAgain, Exiting, sourceVars
<1>11. CASE BeginExit
  BY <1>0, <1>11 DEF BeginExit, SourceInv, sourceVars
<1>12. ASSUME NEW how, EndSupervisor(how) PROVE SourceInv'
  BY <1>0, <1>12 DEF EndSupervisor, SourceInv, sourceVars
<1>13. CASE AbortSupervisor
  BY <1>0, <1>13 DEF AbortSupervisor, SourceInv, sourceVars
<1>14. ASSUME NEW n \in Names, DropSpec(n) \/ AddSpec(n) PROVE SourceInv'
  <2>1. /\ UNCHANGED <<children, events>> /\ aside' = aside \cup {n}
        /\ names' \in SUBSET Names /\ names \ {n} = names' \ {n}
        /\ at' \in {"look", "wait"} => at \in {"look", "wait"}
    BY <1>0, <1>14 DEF DropSpec, AddSpec, LookAgain, Exiting, Following, sourceVars
  <2>2. CASE at \in {"look", "wait"}
    BY <1>0, <2>1, <2>2, LeadsAside DEF SourceInv
  <2> QED BY <1>0, <2>1, <2>2 DEF SourceInv
<1>15. CASE SourceStep
  BY <1>3, <1>4, <1>6, <1>7, <1>8, <1>9, <1>10, <1>11, <1>12, <1>13, <1>14, <1>15
  DEF SourceStep
<1>16. CASE NodeStep
  <2>1. Begin \/ UNCHANGED <<children, events, names, aside, at>>
    BY <1>16 DEF NodeStep, StartRoot, RootExits, FirstSignal, TimesOut, RootStopped, SleepEnds,
                 SecondSignal, ParentStarts, Return, sourceVars, supVars
  <2> QED BY <1>1, <1>5, <2>1
<1>17. CASE UNCHANGED programVars
  BY <1>1, <1>17 DEF programVars, sourceVars, supVars
<1> QED BY <1>15, <1>16, <1>17 DEF ProgramNext

\* However a source changes, however often its supervisor starts anew, and
\* whatever children it drops or is given besides, the events it has not taken
\* lead from its children to those of the source; a child that went or came
\* without the source is off until an event on it or the next start
\* (load_all, next_change, InMemorySupervisorSource).
THEOREM SourceIsFollowed == ProgramSpec => []FollowsSource
<1>1. SourceInv => FollowsSource
  <2> SUFFICES ASSUME SourceInv, at \in {"look", "wait"}
               PROVE  Replayed(events, names) \ (Blueprint \cup aside)
                        = children \ (Blueprint \cup aside)
    BY DEF FollowsSource
  <2>1. PICK f : /\ Plays(f, events, names)
                 /\ \A x \in Names \ Blueprint :
                      (x \in f[Len(events)] <=> x \in children)
                        \/ (x \in aside /\ NoneOn(events, x))
    BY DEF SourceInv, Leads
  <2>2. events \in Seq(Event) /\ names \in SUBSET Names /\ children \in SUBSET Names
    BY DEF SourceInv
  <2>3. Replayed(events, names) = f[Len(events)]
    BY <2>1, <2>2, PlaysReplayed
  <2>4. f[Len(events)] \in SUBSET Names
    <3>1. Len(events) \in 0..Len(events)
      BY <2>2, LenProperties
    <3> QED BY <2>1, <3>1 DEF Plays
  <2> QED BY <2>1, <2>2, <2>3, <2>4
<1> QED BY <1>1, FollowsInit, FollowsStep, PTL DEF ProgramSpec
==============================================================================
