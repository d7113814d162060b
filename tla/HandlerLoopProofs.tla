-------------------------- MODULE HandlerLoopProofs --------------------------
(***************************************************************************)
(* Theorems about References and HandlerLoop for any users, channels and   *)
(* messages: the strong count with the registry, and the lifecycle of a    *)
(* handler.                                                                *)
(***************************************************************************)
EXTENDS HandlerLoop, FiniteSetTheorems, TLAPS

UserStates  == {"idle", "holds", "found", "upgrading", "removing"}
ChildStates == Owned \cup {"none", "removing"}
TaskStates  == HasInbox \cup {"none", "deregister", "dropped", "done"}
Statuses    == {"Initializing", "Running", "Suspended", "Exiting", "Exited"}

\* Whoever owes the removal of the name, and the channel it dropped last.
Removers ==
  {<<"user", u, user[u].of>> : u \in {v \in Users : user[v].at = "removing"}}
    \cup {<<"child", c, c>> : c \in {d \in Channels : child[d].at = "removing"}}
    \cup {<<"task", c, c>> : c \in {d \in Channels : task[d] = "deregister"}}

RefType ==
  /\ user \in [Users -> [at : UserStates, of : Channels \cup {NoChannel}]]
  /\ \A u \in Users : user[u].at # "idle" => user[u].of \in Channels
  /\ child \in [Channels -> [at : ChildStates, attached : BOOLEAN, join : BOOLEAN]]
  /\ task \in [Channels -> TaskStates]
  /\ status \in [Channels -> Statuses]
  /\ strong \in [Channels -> Nat]
  /\ bound \in Bounds

\* The count of each channel is right.
Counted == \A c \in Channels : strong[c] = Holders(c)

\* The registry: a channel that is held is in it, and so is one whose removal is
\* due, which nobody holds any more; one removal is due at most.
InOrder ==
  /\ \A c \in Channels : strong[c] > 0 => registered = c
  /\ \A x \in Removers : registered = x[3] /\ strong[x[3]] = 0
  /\ \A x, y \in Removers : x = y

\* That lasts until an upgrade brings a count back from zero.
Named ==
  /\ registered \in Channels \cup {NoChannel}
  /\ ~revived => InOrder

\* A channel that says Exited has no task left to end.
Alive == \A c \in Channels : status[c] = "Exited" => task[c] \in {"none", "done"}

RefInv == RefType /\ Counted /\ Named /\ Alive

\* The part of it that is about tasks, and holds whatever callers do.
TaskInv ==
  /\ task \in [Channels -> TaskStates] /\ status \in [Channels -> Statuses]
  /\ bound \in Bounds /\ Alive

LoopType ==
  /\ msg \in [Msgs -> {"unsent", "queued", "handling", "handled", "dropped"}]
  /\ msgQueue \in [Channels -> Seq(Msgs)]
  /\ atExiting \in [Channels -> SUBSET Msgs]
  /\ doing \in [Channels -> Msgs \cup Hooks \cup {"scheduled", "nothing"}]
  /\ reason \in [Channels -> {"None", "InitError", "InitCancelled", "HandlerError", "Normal"}]

\* A message is in one place.
OnePlace ==
  /\ \A c \in Channels : \A i \in DOMAIN msgQueue[c] : msg[msgQueue[c][i]] = "queued"
  /\ \A c, d \in Channels : \A i \in DOMAIN msgQueue[c], j \in DOMAIN msgQueue[d] :
       msgQueue[c][i] = msgQueue[d][j] => c = d /\ i = j
  /\ \A c \in Channels : doing[c] \in Msgs => msg[doing[c]] = "handling"
  /\ \A c, d \in Channels : doing[c] \in Msgs /\ doing[c] = doing[d] => c = d

\* What was queued when the actor began to exit is there, in hand, or handled.
Followed ==
  \A c \in Channels : \A m \in atExiting[c] :
    m \in Queued(c) \/ m = doing[c] \/ msg[m] = "handled"

\* Where the task has something in hand, and where it has a reason to exit.
InPhase ==
  \A c \in Channels :
    /\ task[c] \notin {"hook", "over"} => doing[c] = "nothing"
    /\ reason[c] # "None" => task[c] \in {"exit", "over", "deregister", "dropped"}

LoopInv == LoopType /\ OnePlace /\ Followed /\ InPhase /\ NormalExitHandlesAll

-----------------------------------------------------------------------------
(* The count.                                                              *)

LEMMA HoldsFinite ==
  ASSUME NEW c
  PROVE  IsFiniteSet(Holds(c)) /\ Cardinality(Holds(c)) \in Nat
<1>1. Holds(c) \subseteq Users
  BY DEF Holds
<1> QED BY <1>1, ReferencesAssumption, FS_Subset, FS_CardinalityType

\* A user gets a reference,
LEMMA UserGains ==
  ASSUME RefType, NEW u \in Users, NEW c \in Channels, user[u] # User("holds", c),
         user' = [user EXCEPT ![u] = User("holds", c)],
         \A d \in Channels : d # c => user[u] # User("holds", d)
  PROVE  /\ Cardinality(Holds(c)') = Cardinality(Holds(c)) + 1
         /\ \A d \in Channels : d # c => Holds(d)' = Holds(d)
         /\ \A d \in Channels : Holds(d) \subseteq Holds(d)'
<1>1. Holds(c)' = Holds(c) \cup {u} /\ u \notin Holds(c)
  BY DEF RefType, Holds, User
<1>2. \A d \in Channels : d # c => Holds(d)' = Holds(d)
  BY DEF RefType, Holds, User
<1>3. Cardinality(Holds(c)') = Cardinality(Holds(c)) + 1
  BY <1>1, HoldsFinite, FS_AddElement
<1> QED BY <1>1, <1>2, <1>3

\* gives one up,
LEMMA UserLoses ==
  ASSUME RefType, NEW u \in Users, NEW c \in Channels, user[u] = User("holds", c),
         NEW after, user' = [user EXCEPT ![u] = after], after.at # "holds"
  PROVE  /\ Cardinality(Holds(c)') = Cardinality(Holds(c)) - 1
         /\ Cardinality(Holds(c)) > 0
         /\ \A d \in Channels : d # c => Holds(d)' = Holds(d)
         /\ Holds(c)' = Holds(c) \ {u}
<1>1. Holds(c)' = Holds(c) \ {u} /\ u \in Holds(c)
  BY DEF RefType, Holds, User
<1>2. \A d \in Channels : d # c => Holds(d)' = Holds(d)
  BY DEF RefType, Holds, User
<1>3. Cardinality(Holds(c)') = Cardinality(Holds(c)) - 1
  BY <1>1, HoldsFinite, FS_RemoveElement
<1>4. Cardinality(Holds(c)) # 0
  BY <1>1, HoldsFinite, FS_EmptySet
<1> QED BY <1>1, <1>2, <1>3, <1>4, HoldsFinite

\* or does something else.
LEMMA UserMoves ==
  ASSUME RefType, NEW u \in Users, user[u].at # "holds",
         NEW after, user' = [user EXCEPT ![u] = after], after.at # "holds"
  PROVE  \A d \in Channels : Holds(d)' = Holds(d)
  BY DEF RefType, Holds, User

-----------------------------------------------------------------------------
(* The registry.                                                           *)

LEMMA RemoversWithin ==
  ASSUME NEW S,
         \A u \in Users : user'[u].at = "removing" => <<"user", u, user'[u].of>> \in S,
         \A c \in Channels : child'[c].at = "removing" => <<"child", c, c>> \in S,
         \A c \in Channels : task'[c] = "deregister" => <<"task", c, c>> \in S
  PROVE  Removers' \subseteq S
  BY DEF Removers

LEMMA RemoversAre ==
  /\ \A u \in Users : user[u].at = "removing" => <<"user", u, user[u].of>> \in Removers
  /\ \A c \in Channels : child[c].at = "removing" => <<"child", c, c>> \in Removers
  /\ \A c \in Channels : task[c] = "deregister" => <<"task", c, c>> \in Removers
  BY DEF Removers

LEMMA RemoverChannel ==
  ASSUME RefType, NEW x \in Removers
  PROVE  x[3] \in Channels
  BY DEF RefType, Removers

\* Nothing is added or dropped.
LEMMA NamedKept ==
  ASSUME Named, strong' = strong, registered' = registered, revived' = revived,
         Removers' \subseteq Removers
  PROVE  Named'
  BY DEF Named, InOrder

\* While a channel is held no removal is due.
LEMMA HeldNotRemoved ==
  ASSUME RefType, Named, ~revived, NEW c \in Channels, strong[c] > 0
  PROVE  Removers = {} /\ registered = c
<1> USE DEF Named, InOrder
<1> SUFFICES ASSUME NEW x \in Removers PROVE FALSE
  OBVIOUS
<1>1. registered = c /\ registered = x[3] /\ strong[x[3]] = 0
  OBVIOUS
<1> QED BY <1>1

\* A reference is added: to a channel that has one, or revived says so.
LEMMA NamedGains ==
  ASSUME RefType, Named, NEW c \in Channels, Incr(c), strong[c] > 0 \/ revived',
         revived => revived', registered' = registered, Removers' \subseteq Removers
  PROVE  Named'
<1> USE DEF Named
<1> SUFFICES ASSUME ~revived' PROVE InOrder'
  OBVIOUS
<1>1. Removers' = {} /\ registered' = c
  BY HeldNotRemoved
<1>2. \A d \in Channels : strong'[d] > 0 => strong[d] > 0
  BY DEF Incr, RefType
<1> QED BY <1>1, <1>2 DEF InOrder

\* A reference is dropped, and whoever dropped the last one owes the removal.
LEMMA NamedLoses ==
  ASSUME RefType, Named, NEW c \in Channels, strong[c] > 0, Decr(c), NEW who,
         registered' = registered, revived' = revived,
         Removers' \subseteq Removers \cup (IF IsLast(c) THEN {<<who[1], who[2], c>>} ELSE {})
  PROVE  Named'
<1> USE DEF Named
<1> SUFFICES ASSUME ~revived PROVE InOrder'
  OBVIOUS
<1>1. Removers = {} /\ registered' = c
  BY HeldNotRemoved
<1>2. \A d \in Channels : strong'[d] > 0 => strong[d] > 0
  BY DEF Decr, RefType
<1>3. IsLast(c) => strong'[c] = 0
  BY DEF Decr, IsLast, RefType
<1>4. \A x \in Removers' : x = <<who[1], who[2], c>> /\ IsLast(c)
  BY <1>1
<1> QED BY <1>1, <1>2, <1>3, <1>4 DEF InOrder

\* The removal that is due is made.
LEMMA NamedRemoved ==
  ASSUME RefType, Named, NEW x \in Removers, strong' = strong, revived' = revived,
         Deregister, Removers' \subseteq Removers \ {x}
  PROVE  Named'
<1> USE DEF Named
<1>1. registered' \in Channels \cup {NoChannel}
  BY DEF Deregister
<1> SUFFICES ASSUME ~revived PROVE InOrder'
  BY <1>1
<1>2. Removers' = {}
  BY DEF InOrder
<1>3. \A d \in Channels : ~(strong[d] > 0)
  <2> SUFFICES ASSUME NEW d \in Channels, strong[d] > 0 PROVE FALSE
    OBVIOUS
  <2> QED BY HeldNotRemoved
<1> QED BY <1>2, <1>3 DEF InOrder

-----------------------------------------------------------------------------
(* The steps of users.                                                     *)

Elsewhere == UNCHANGED <<child, task, status, bound>>

\* User u gets a reference to c, which is counted.
LEMMA GainKeeps ==
  ASSUME RefInv, NEW u \in Users, NEW c \in Channels, user[u].at # "holds",
         user' = [user EXCEPT ![u] = User("holds", c)], Incr(c), Elsewhere, Named'
  PROVE  RefInv'
<1>1. /\ Cardinality(Holds(c)') = Cardinality(Holds(c)) + 1
      /\ \A d \in Channels : d # c => Holds(d)' = Holds(d)
      /\ \A d \in Channels : Holds(d) \subseteq Holds(d)'
  <2>1. \A d \in Channels : user[u] # User("holds", d)
    BY DEF User
  <2> QED BY <2>1, UserGains DEF RefInv
<1>2. RefType'
  BY DEF RefInv, RefType, Elsewhere, User, Incr, UserStates
<1>3. Counted'
  <2> SUFFICES ASSUME NEW d \in Channels PROVE strong'[d] = Holders(d)'
    BY DEF Counted
  <2>1. strong[d] = Holders(d) /\ Cardinality(Holds(d)) \in Nat
    BY HoldsFinite DEF RefInv, Counted
  <2> QED BY <1>1, <2>1 DEF RefInv, RefType, Incr, Holders, Elsewhere
<1>5. Alive'
  BY DEF RefInv, Alive, Elsewhere
<1> QED BY <1>2, <1>3, <1>5 DEF RefInv

\* User u gives up its reference to c.
LEMMA LossKeeps ==
  ASSUME RefInv, NEW u \in Users, NEW c \in Channels, user[u] = User("holds", c),
         Decr(c), Elsewhere, registered' = registered, revived' = revived,
         user' = [user EXCEPT ![u] = IF IsLast(c) THEN User("removing", c) ELSE Idle]
  PROVE  RefInv'
<1> DEFINE after == IF IsLast(c) THEN User("removing", c) ELSE Idle
<1>1. /\ after.at \notin {"holds", "upgrading"} /\ after.at \in UserStates
      /\ after.of \in Channels \cup {NoChannel} /\ (after.at # "idle" => after.of = c)
      /\ after \in [at : UserStates, of : Channels \cup {NoChannel}]
      /\ (after.at = "removing" => IsLast(c))
  BY DEF User, Idle, UserStates
<1>2. user' = [user EXCEPT ![u] = after]
  OBVIOUS
<1> HIDE DEF after
<1>0. after.at # "holds"
  BY <1>1
<1>3. /\ Cardinality(Holds(c)') = Cardinality(Holds(c)) - 1
      /\ Cardinality(Holds(c)) > 0
      /\ \A d \in Channels : d # c => Holds(d)' = Holds(d)
  BY <1>0, <1>2, UserLoses DEF RefInv
<1>4. \A d \in Channels : strong[d] = Holders(d) /\ Cardinality(Holds(d)) \in Nat
  BY HoldsFinite DEF RefInv, Counted
<1>5. strong[c] > 0
  BY <1>3, <1>4 DEF Holders
<1>6. RefType'
  BY <1>1, <1>2, <1>5 DEF RefInv, RefType, Elsewhere, Decr
<1>7. Counted'
  <2> SUFFICES ASSUME NEW d \in Channels PROVE strong'[d] = Holders(d)'
    BY DEF Counted
  <2> QED BY <1>3, <1>4 DEF RefInv, RefType, Decr, Holders, Elsewhere
<1>8. Named'
  <2> DEFINE S == Removers \cup (IF IsLast(c) THEN {<<"user", u, c>>} ELSE {})
  <2>1. Removers' \subseteq S
    <3>1. \A v \in Users : user'[v].at = "removing" => <<"user", v, user'[v].of>> \in S
      BY <1>1, <1>2, RemoversAre DEF RefInv, RefType
    <3> QED BY <3>1, RemoversAre, RemoversWithin DEF Elsewhere
  <2> QED BY <1>5, <2>1, NamedLoses DEF RefInv
<1>10. Alive'
  BY DEF RefInv, Alive, Elsewhere
<1> QED BY <1>6, <1>7, <1>8, <1>10 DEF RefInv

\* User u does something without a reference, before and after.
LEMMA MoveKeeps ==
  ASSUME RefInv, NEW u \in Users, user[u].at # "holds",
         NEW after \in [at : UserStates \ {"holds"}, of : Channels \cup {NoChannel}],
         after.at # "idle" => after.of \in Channels,
         user' = [user EXCEPT ![u] = after], strong' = strong, Elsewhere, Named'
  PROVE  RefInv'
<1>1. \A d \in Channels : Holds(d)' = Holds(d)
  BY UserMoves DEF RefInv
<1>2. RefType'
  BY DEF RefInv, RefType, Elsewhere
<1>3. Counted'
  BY <1>1 DEF RefInv, Counted, Holders, Elsewhere
<1>5. Alive'
  BY DEF RefInv, Alive, Elsewhere
<1> QED BY <1>2, <1>3, <1>5 DEF RefInv

\* Whoever has a reference is counted.
LEMMA HeldCounts ==
  ASSUME RefInv, NEW c \in Channels,
         \/ Holds(c) # {}
         \/ child[c].at \in Owned
         \/ task[c] \in HasInbox
  PROVE  strong[c] > 0
<1>1. strong[c] = Holders(c) /\ Cardinality(Holds(c)) \in Nat
  BY HoldsFinite DEF RefInv, Counted
<1>2. Holds(c) # {} => Cardinality(Holds(c)) # 0
  BY HoldsFinite, FS_EmptySet
<1> QED BY <1>1, <1>2 DEF Holders

LEMMA HolderHolds ==
  ASSUME RefInv, NEW u \in Users, user[u].at = "holds"
  PROVE  /\ user[u].of \in Channels /\ user[u] = User("holds", user[u].of)
         /\ Holds(user[u].of) # {} /\ strong[user[u].of] > 0
<1>1. user[u].of \in Channels /\ user[u] = User("holds", user[u].of)
  BY DEF RefInv, RefType, User
<1>2. u \in Holds(user[u].of)
  BY <1>1 DEF Holds
<1> QED BY <1>1, <1>2, HeldCounts

\* What a user does about a name, an Address or its reference keeps all that.
LEMMA UserStep ==
  ASSUME RefInv, NEW u \in Users,
         \/ \E c \in Channels : Create(u, c) \/ SpawnRefused(u, c)
         \/ \E v \in Users : Clone(u, v)
         \/ Find(u) \/ UpgradeCheck(u) \/ UpgradeIncr(u) \/ Drop(u) \/ Remove(u)
  PROVE  RefInv'
<1> USE DEF RefInv
<1>a. ASSUME Elsewhere, NEW v \in Users, NEW after, after.at # "removing",
             user' = [user EXCEPT ![v] = after]
      PROVE  Removers' \subseteq Removers
  <2>1. \A w \in Users : user'[w].at = "removing" => <<"user", w, user'[w].of>> \in Removers
    BY <1>a, RemoversAre DEF RefType
  <2> QED BY <1>a, <2>1, RemoversAre, RemoversWithin DEF Elsewhere
<1>1. ASSUME NEW c \in Channels, Create(u, c) PROVE RefInv'
  <2>1. /\ Elsewhere /\ Incr(c) /\ user[u].at # "holds" /\ registered' = c
        /\ user' = [user EXCEPT ![u] = User("holds", c)] /\ registered = NoChannel
        /\ revived' = revived
    BY <1>1 DEF Create, Elsewhere, childVars, taskVars, counters, Idle, Register
  <2>2. ASSUME ~revived PROVE InOrder'
    <3>1. Removers = {}
      <4> SUFFICES ASSUME NEW x \in Removers PROVE FALSE
        OBVIOUS
      <4>1. x[3] \in Channels /\ registered = x[3]
        BY <2>2, RemoverChannel DEF Named, InOrder
      <4> QED BY <2>1, <4>1, ReferencesAssumption
    <3>2. Removers' = {}
      BY <1>a, <2>1, <3>1 DEF User
    <3>3. \A d \in Channels : strong[d] = 0
      BY <2>1, <2>2, ReferencesAssumption DEF RefType, Named, InOrder
    <3>4. \A d \in Channels : strong'[d] > 0 => d = c
      BY <2>1, <3>3 DEF Incr, RefType
    <3> QED BY <2>1, <3>2, <3>4 DEF InOrder
  <2>3. Named'
    BY <2>1, <2>2 DEF Named
  <2> QED BY <2>1, <2>3, GainKeeps
<1>2. ASSUME NEW c \in Channels, SpawnRefused(u, c) PROVE RefInv'
  <2>1. Elsewhere /\ registered' = registered /\ revived' = revived
    BY <1>2 DEF SpawnRefused, Elsewhere, childVars, taskVars, counters
  <2> QED BY <1>2, <2>1, LossKeeps DEF SpawnRefused
<1>3. ASSUME NEW v \in Users, Clone(u, v) PROVE RefInv'
  <2> DEFINE c == user[u].of
  <2>1. /\ c \in Channels /\ user[u] = User("holds", c) /\ strong[c] > 0
    BY <1>3, HolderHolds DEF Clone
  <2>2. /\ Elsewhere /\ registered' = registered /\ revived' = revived
        /\ Incr(c) /\ user[v].at # "holds"
        /\ user' = [user EXCEPT ![v] = User("holds", c)]
    <3>1. user' = [user EXCEPT ![v] = user[u]] /\ Incr(c) /\ user[v].at = "idle"
      BY <1>3 DEF Clone, Idle
    <3> QED BY <1>3, <2>1, <3>1 DEF Clone, Elsewhere, childVars, taskVars, counters
  <2> HIDE DEF c
  <2>3. Named'
    BY <2>1, <2>2, <1>a, NamedGains DEF User
  <2> QED BY <2>1, <2>2, <2>3, GainKeeps
<1>b. ASSUME Elsewhere, registered' = registered, strong' = strong, revived' = revived,
             user[u].at # "holds",
             NEW after \in [at : {"idle", "found", "upgrading"}, of : Channels \cup {NoChannel}],
             after.at # "idle" => after.of \in Channels,
             user' = [user EXCEPT ![u] = after]
      PROVE  RefInv'
  <2>1. after \in [at : UserStates \ {"holds"}, of : Channels \cup {NoChannel}]
        /\ after.at # "removing"
    BY <1>b DEF UserStates
  <2>2. Named'
    BY <1>a, <1>b, <2>1, NamedKept
  <2> QED BY <1>b, <2>1, <2>2, MoveKeeps
<1>4. CASE Find(u)
  <2>1. /\ Elsewhere /\ registered' = registered /\ strong' = strong /\ revived' = revived
        /\ user[u].at # "holds"
        /\ user' = [user EXCEPT ![u] = User("found", registered)]
    BY <1>4 DEF Find, Elsewhere, childVars, taskVars, counters, Idle
  <2>2. registered \in Channels
    BY <1>4 DEF Find, Named
  <2> QED BY <1>b, <2>1, <2>2 DEF User
<1>5. CASE UpgradeCheck(u)
  <2> DEFINE c == user[u].of
             after == IF PermanentlyDead(c) THEN Idle ELSE User("upgrading", c)
  <2>1. /\ Elsewhere /\ registered' = registered /\ strong' = strong /\ revived' = revived
        /\ user[u].at # "holds"
        /\ user' = [user EXCEPT ![u] = after]
    BY <1>5 DEF UpgradeCheck, Elsewhere, childVars, taskVars, counters
  <2>2. c \in Channels
    BY <1>5 DEF UpgradeCheck, RefType
  <2>3. /\ after \in [at : {"idle", "found", "upgrading"}, of : Channels \cup {NoChannel}]
        /\ after.at # "idle" => after.of \in Channels
    BY <2>1, <2>2 DEF User, Idle
  <2> HIDE DEF after
  <2> QED BY <1>b, <2>1, <2>3
<1>6. CASE UpgradeIncr(u)
  <2> DEFINE c == user[u].of
  <2>1. c \in Channels
    BY <1>6 DEF UpgradeIncr, RefType
  <2>2. /\ Elsewhere /\ registered' = registered /\ Incr(c) /\ user[u].at # "holds"
        /\ user' = [user EXCEPT ![u] = User("holds", c)]
        /\ revived' = IF strong[c] = 0 THEN TRUE ELSE revived
    BY <1>6 DEF UpgradeIncr, Elsewhere, childVars, taskVars, counters
  <2> HIDE DEF c
  <2>3. Named'
    <3>1. (strong[c] > 0 \/ revived') /\ (revived => revived')
      BY <2>1, <2>2 DEF RefType
    <3> QED BY <2>1, <2>2, <3>1, <1>a, NamedGains DEF User
  <2> QED BY <2>1, <2>2, <2>3, GainKeeps
<1>7. CASE Drop(u)
  <2> DEFINE c == user[u].of
  <2>1. Elsewhere /\ registered' = registered /\ revived' = revived
    BY <1>7 DEF Drop, Elsewhere, childVars, taskVars, counters
  <2>2. CASE user[u].at = "holds"
    <3>1. c \in Channels /\ user[u] = User("holds", c)
      BY <2>2, HolderHolds
    <3> QED BY <1>7, <2>1, <2>2, <3>1, LossKeeps DEF Drop
  <2>3. CASE user[u].at = "found"
    <3>1. strong' = strong /\ user' = [user EXCEPT ![u] = Idle]
      BY <1>7, <2>3 DEF Drop
    <3> QED BY <1>b, <2>1, <2>3, <3>1 DEF Idle
  <2> QED BY <1>7, <2>2, <2>3 DEF Drop
<1>8. CASE Remove(u)
  <2> DEFINE x == <<"user", u, user[u].of>>
  <2>1. /\ Elsewhere /\ strong' = strong /\ Deregister /\ user[u].at = "removing"
        /\ revived' = revived
        /\ user' = [user EXCEPT ![u] = Idle]
    BY <1>8 DEF Remove, Elsewhere, childVars, taskVars, counters
  <2>2. x \in Removers
    BY <2>1, RemoversAre
  <2>3. Removers' \subseteq Removers \ {x}
    <3>1. \A v \in Users : user'[v].at = "removing" =>
            <<"user", v, user'[v].of>> \in Removers \ {x}
      BY <2>1, RemoversAre DEF RefType, Idle
    <3>2. \A d \in Channels : child'[d].at = "removing" => <<"child", d, d>> \in Removers \ {x}
      BY <2>1, RemoversAre DEF Elsewhere
    <3>3. \A d \in Channels : task'[d] = "deregister" => <<"task", d, d>> \in Removers \ {x}
      BY <2>1, RemoversAre DEF Elsewhere
    <3> HIDE DEF x
    <3> QED BY <3>1, <3>2, <3>3, RemoversWithin
  <2> HIDE DEF x
  <2>4. Named'
    BY <2>1, <2>2, <2>3, NamedRemoved
  <2> QED BY <2>1, <2>4, MoveKeeps DEF Idle, UserStates
<1> QED BY <1>1, <1>2, <1>3, <1>4, <1>5, <1>6, <1>7, <1>8

-----------------------------------------------------------------------------
(* The steps of the Child, and of its task.                                *)

ChildRecords == [at : ChildStates, attached : BOOLEAN, join : BOOLEAN]
Apart == UNCHANGED <<task, status, bound, revived>>

\* The Child of c changes, and is a reference as much as before.
LEMMA ChildKeeps ==
  ASSUME RefInv, NEW c \in Channels, NEW after \in ChildRecords,
         child' = [child EXCEPT ![c] = after], after.at \in Owned <=> child[c].at \in Owned,
         user' = user, strong' = strong, Apart, Named'
  PROVE  RefInv'
<1>1. \A d \in Channels : Holds(d)' = Holds(d)
  BY DEF Holds
<1>2. RefType'
  BY DEF RefInv, RefType, Apart, ChildRecords
<1>3. Counted'
  BY <1>1 DEF RefInv, RefType, Counted, Holders, Apart
<1>4. Alive'
  BY <1>1 DEF RefInv, Alive, Apart
<1> QED BY <1>2, <1>3, <1>4 DEF RefInv

\* It changes, and owes no removal that it did not owe before.
LEMMA ChildQuiet ==
  ASSUME RefInv, NEW c \in Channels, NEW after \in ChildRecords,
         child' = [child EXCEPT ![c] = after],
         after.at = child[c].at \/ {after.at, child[c].at} \subseteq Owned,
         UNCHANGED refVars, Apart
  PROVE  RefInv'
<1>1. /\ user' = user /\ strong' = strong /\ registered' = registered /\ revived' = revived
  BY DEF refVars
<1>2. Removers' \subseteq Removers
  <2>1. \A d \in Channels : child'[d].at = "removing" => <<"child", d, d>> \in Removers
    BY RemoversAre DEF RefInv, RefType, Owned
  <2> QED BY <1>1, <2>1, RemoversAre, RemoversWithin DEF Apart
<1>3. Named'
  BY <1>1, <1>2, NamedKept DEF RefInv
<1> QED BY <1>1, <1>3, ChildKeeps

\* The Child is gone, and its reference with it.
LEMMA GoneKeeps ==
  ASSUME RefInv, NEW c \in Channels, child[c].at \in Owned, ChildGone(c),
         user' = user, registered' = registered, Apart
  PROVE  RefInv'
<1> DEFINE after == [NoChild EXCEPT !.at = IF IsLast(c) THEN "removing" ELSE "none"]
<1>1. /\ child' = [child EXCEPT ![c] = after] /\ Decr(c) /\ after \in ChildRecords
      /\ after.at = IF IsLast(c) THEN "removing" ELSE "none"
  BY DEF ChildGone, NoChild, ChildRecords, ChildStates
<1> HIDE DEF after
<1>2. \A d \in Channels : Holds(d)' = Holds(d)
  BY DEF Holds
<1>3. strong[c] > 0
  BY HeldCounts
<1>4. RefType'
  BY <1>1, <1>3 DEF RefInv, RefType, Apart, ChildRecords, Decr
<1>5. Counted'
  <2> SUFFICES ASSUME NEW d \in Channels PROVE strong'[d] = Holders(d)'
    BY DEF Counted
  <2>1. strong[d] = Holders(d) /\ Cardinality(Holds(d)) \in Nat
    BY HoldsFinite DEF RefInv, Counted
  <2>2. after.at \notin Owned
    BY <1>1 DEF Owned
  <2>3. Holds(d)' = Holds(d) /\ task'[d] = task[d]
    BY <1>2 DEF Apart
  <2>4. CASE d = c
    <3>1. child'[d].at \notin Owned /\ child[d].at \in Owned /\ strong'[d] = strong[d] - 1
      BY <1>1, <2>2, <2>4 DEF RefInv, RefType, Decr
    <3> QED BY <2>1, <2>3, <3>1 DEF Holders
  <2>5. CASE d # c
    <3>1. child'[d] = child[d] /\ strong'[d] = strong[d]
      BY <1>1, <2>5 DEF RefInv, RefType, Decr
    <3> QED BY <2>1, <2>3, <3>1 DEF Holders
  <2> QED BY <2>4, <2>5
<1>6. Named'
  <2> DEFINE S == Removers \cup (IF IsLast(c) THEN {<<"child", c, c>>} ELSE {})
  <2>1. Removers' \subseteq S
    <3>1. \A d \in Channels : child'[d].at = "removing" => <<"child", d, d>> \in S
      BY <1>1, RemoversAre DEF RefInv, RefType
    <3> QED BY <3>1, RemoversAre, RemoversWithin DEF Apart
  <2> QED BY <1>1, <1>3, <2>1, NamedLoses DEF RefInv, Apart
<1>7. Alive'
  BY <1>2 DEF RefInv, Alive, Apart
<1> QED BY <1>4, <1>5, <1>6, <1>7 DEF RefInv

\* into_parts: the reference of the Child becomes one of the user.
LEMMA PartsKeep ==
  ASSUME RefInv, NEW c \in Channels, NEW u \in Users, IntoParts(c, u)
  PROVE  RefInv'
<1>1. /\ child[c].at = "held" /\ user[u].at = "idle"
      /\ user' = [user EXCEPT ![u] = User("holds", c)]
      /\ child' = [child EXCEPT ![c] = NoChild]
      /\ registered' = registered /\ strong' = strong /\ Apart
  BY DEF IntoParts, Idle, Apart, taskVars, counters
<1>2. /\ Cardinality(Holds(c)') = Cardinality(Holds(c)) + 1
      /\ \A d \in Channels : d # c => Holds(d)' = Holds(d)
      /\ \A d \in Channels : Holds(d) \subseteq Holds(d)'
  <2>1. \A d \in Channels : user[u] # User("holds", d)
    BY <1>1 DEF User
  <2> QED BY <1>1, <2>1, UserGains DEF RefInv
<1>3. RefType'
  BY <1>1 DEF RefInv, RefType, Apart, User, UserStates, NoChild, ChildStates
<1>4. Counted'
  <2> SUFFICES ASSUME NEW d \in Channels PROVE strong'[d] = Holders(d)'
    BY DEF Counted
  <2>1. strong[d] = Holders(d) /\ Cardinality(Holds(d)) \in Nat
    BY HoldsFinite DEF RefInv, Counted
  <2>2. child'[d].at \in Owned <=> d # c /\ child[d].at \in Owned
    BY <1>1 DEF RefInv, RefType, NoChild, Owned
  <2>3. child[c].at \in Owned
    BY <1>1 DEF Owned
  <2> QED BY <1>1, <1>2, <2>1, <2>2, <2>3 DEF Holders, Apart
<1>5. Named'
  <2>1. \A v \in Users : user'[v].at = "removing" => <<"user", v, user'[v].of>> \in Removers
    BY <1>1, RemoversAre DEF RefInv, RefType, User
  <2>2. \A d \in Channels : child'[d].at = "removing" => <<"child", d, d>> \in Removers
    BY <1>1, RemoversAre DEF RefInv, RefType, NoChild
  <2>3. Removers' \subseteq Removers
    BY <1>1, <2>1, <2>2, RemoversAre, RemoversWithin DEF Apart
  <2> QED BY <1>1, <2>3, NamedKept DEF RefInv, Apart
<1>7. Alive'
  BY <1>1 DEF RefInv, Alive, Apart
<1> QED BY <1>3, <1>4, <1>5, <1>7 DEF RefInv

\* A process: the reference of the user goes to the Child, and a clone of it to
\* the Inbox.
LEMMA SpawnKeeps ==
  ASSUME RefInv, NEW c \in Channels, NEW u \in Users, Spawn(u, c)
  PROVE  RefInv'
<1> DEFINE after == [at |-> "held", attached |-> TRUE, join |-> TRUE]
<1>1. /\ user[u] = User("holds", c) /\ child[c].at = "none" /\ status[c] = "Exited"
      /\ Incr(c) /\ revived' = revived /\ user' = [user EXCEPT ![u] = Idle]
      /\ child' = [child EXCEPT ![c] = after]
      /\ status' = [status EXCEPT ![c] = "Initializing"]
      /\ task' = [task EXCEPT ![c] = "init"]
      /\ registered' = registered /\ bound' = bound
  BY DEF Spawn
<1>2. after \in ChildRecords /\ after.at = "held"
  BY DEF ChildRecords, ChildStates, Owned
<1> HIDE DEF after
<1>3. task[c] \in {"none", "done"}
  BY <1>1 DEF RefInv, Alive
<1>4. Idle.at = "idle" /\ Idle \in [at : UserStates, of : Channels \cup {NoChannel}]
  BY DEF Idle, UserStates
<1>5. /\ Cardinality(Holds(c)') = Cardinality(Holds(c)) - 1
      /\ \A d \in Channels : d # c => Holds(d)' = Holds(d)
  BY <1>1, <1>4, UserLoses DEF RefInv
<1>6. strong[c] > 0
  BY <1>1, HolderHolds DEF User
<1>7. RefType'
  BY <1>1, <1>2, <1>4 DEF RefInv, RefType, ChildRecords, Incr, Statuses, TaskStates,
     HasInbox, Running
<1>8. Counted'
  <2> SUFFICES ASSUME NEW d \in Channels PROVE strong'[d] = Holders(d)'
    BY DEF Counted
  <2>1. strong[d] = Holders(d) /\ Cardinality(Holds(d)) \in Nat
    BY HoldsFinite DEF RefInv, Counted
  <2>2. CASE d = c
    <3>1. /\ child'[d].at \in Owned /\ child[d].at \notin Owned /\ strong'[d] = strong[d] + 1
          /\ task'[d] \in HasInbox /\ task[d] \notin HasInbox
      BY <1>1, <1>2, <1>3, <2>2 DEF RefInv, RefType, Incr, Owned, HasInbox, Running
    <3> QED BY <1>5, <2>1, <2>2, <3>1 DEF Holders
  <2>3. CASE d # c
    <3>1. child'[d] = child[d] /\ strong'[d] = strong[d] /\ task'[d] = task[d]
      BY <1>1, <2>3 DEF RefInv, RefType, Incr
    <3> QED BY <1>5, <2>1, <2>3, <3>1 DEF Holders
  <2> QED BY <2>2, <2>3
<1>9. Named'
  <2>1. \A v \in Users : user'[v].at = "removing" => <<"user", v, user'[v].of>> \in Removers
    BY <1>1, <1>4, RemoversAre DEF RefInv, RefType
  <2>2. \A d \in Channels : child'[d].at = "removing" => <<"child", d, d>> \in Removers
    BY <1>1, <1>2, RemoversAre DEF RefInv, RefType
  <2>3. \A d \in Channels : task'[d] = "deregister" => <<"task", d, d>> \in Removers
    BY <1>1, RemoversAre DEF RefInv, RefType
  <2>4. Removers' \subseteq Removers
    BY <2>1, <2>2, <2>3, RemoversWithin
  <2> QED BY <1>1, <1>6, <2>4, NamedGains DEF RefInv
<1>11. Alive'
  BY <1>1 DEF RefInv, RefType, Alive
<1> QED BY <1>7, <1>8, <1>9, <1>11 DEF RefInv

\* What the owner of a Child does keeps all that.
LEMMA ChildStep ==
  ASSUME RefInv, NEW c \in Channels,
         \/ \E u \in Users : Spawn(u, c) \/ IntoParts(c, u)
         \/ \E attached \in BOOLEAN : SetAttached(c, attached)
         \/ \E kind \in {"Shutdown", "Suspend", "Resume"} : Signal(c, kind)
         \/ IntoDyn(c) \/ IntoHandle(c) \/ AbortChild(c) \/ BeginShutdown(c) \/ GiveUp(c)
         \/ Join(c) \/ DropChild(c) \/ ChildRemove(c)
  PROVE  RefInv'
<1> USE DEF Apart
<1>0. child[c] \in ChildRecords
  BY DEF RefInv, RefType, ChildRecords
<1>1. ASSUME NEW u \in Users, Spawn(u, c) \/ IntoParts(c, u) PROVE RefInv'
  BY <1>1, SpawnKeeps, PartsKeep
<1>2. ASSUME NEW attached \in BOOLEAN,
             SetAttached(c, attached) \/ IntoDyn(c)
      PROVE  RefInv'
  <2>1. PICK b \in BOOLEAN : child' = [child EXCEPT ![c] = [child[c] EXCEPT !.attached = b]]
    BY <1>2 DEF SetAttached, IntoDyn
  <2>2. UNCHANGED refVars /\ Apart
    BY <1>2 DEF SetAttached, IntoDyn, taskVars, counters, refVars
  <2>3. /\ [child[c] EXCEPT !.attached = b] \in ChildRecords
        /\ [child[c] EXCEPT !.attached = b].at = child[c].at
    BY <1>0 DEF ChildRecords
  <2> QED BY <2>1, <2>2, <2>3, ChildQuiet
<1>3. ASSUME child' = child, UNCHANGED refVars, Apart PROVE RefInv'
  <2>1. child' = [child EXCEPT ![c] = child[c]]
    BY <1>3 DEF RefInv, RefType
  <2> QED BY <1>0, <1>3, <2>1, ChildQuiet
<1>4. ASSUME NEW kind, Signal(c, kind) PROVE RefInv'
  BY <1>3, <1>4 DEF Signal, childVars, refVars
<1>5. CASE AbortChild(c)
  BY <1>3, <1>5 DEF AbortChild, taskVars, counters, refVars
<1>6. CASE BeginShutdown(c) \/ GiveUp(c)
  <2>1. PICK at \in {"shutdown", "aborting"} :
          child' = [child EXCEPT ![c] = [child[c] EXCEPT !.at = at]]
    BY <1>6 DEF BeginShutdown, GiveUp
  <2>2. UNCHANGED refVars /\ Apart /\ child[c].at \in Owned
    BY <1>6 DEF BeginShutdown, GiveUp, taskVars, counters, Owned, refVars
  <2>3. /\ [child[c] EXCEPT !.at = at] \in ChildRecords
        /\ [child[c] EXCEPT !.at = at].at \in Owned
    BY <1>0, <2>1 DEF ChildRecords, ChildStates, Owned
  <2> QED BY <2>1, <2>2, <2>3, ChildQuiet
<1>7. CASE Join(c) /\ child[c].at = "held"
  <2>1. /\ child' = [child EXCEPT ![c] = [child[c] EXCEPT !.join = FALSE]]
        /\ UNCHANGED refVars /\ Apart
    BY <1>7 DEF Join, refVars, taskVars, counters
  <2>2. /\ [child[c] EXCEPT !.join = FALSE] \in ChildRecords
        /\ [child[c] EXCEPT !.join = FALSE].at = child[c].at
    BY <1>0 DEF ChildRecords
  <2> QED BY <2>1, <2>2, ChildQuiet
<1>8. CASE IntoHandle(c) \/ DropChild(c) \/ (Join(c) /\ child[c].at # "held")
  <2>1. child[c].at \in Owned /\ ChildGone(c) /\ UNCHANGED <<user, registered>> /\ Apart
    BY <1>8 DEF IntoHandle, DropChild, Join, taskVars, counters, Owned
  <2> QED BY <2>1, GoneKeeps
<1>9. CASE ChildRemove(c)
  <2> DEFINE x == <<"child", c, c>>
  <2>1. /\ child[c].at = "removing" /\ Deregister /\ child' = [child EXCEPT ![c] = NoChild]
        /\ user' = user /\ strong' = strong /\ Apart
    BY <1>9 DEF ChildRemove, taskVars, counters
  <2>2. x \in Removers
    BY <2>1, RemoversAre
  <2>3. NoChild \in ChildRecords /\ NoChild.at = "none"
    BY DEF NoChild, ChildRecords, ChildStates
  <2>4. Removers' \subseteq Removers \ {x}
    <3>1. \A d \in Channels : child'[d].at = "removing" => <<"child", d, d>> \in Removers \ {x}
      BY <2>1, <2>3, RemoversAre DEF RefInv, RefType
    <3>2. \A v \in Users : user'[v].at = "removing" =>
            <<"user", v, user'[v].of>> \in Removers \ {x}
      BY <2>1, RemoversAre
    <3>3. \A d \in Channels : task'[d] = "deregister" => <<"task", d, d>> \in Removers \ {x}
      BY <2>1, RemoversAre
    <3> HIDE DEF x
    <3> QED BY <3>1, <3>2, <3>3, RemoversWithin
  <2> HIDE DEF x
  <2>5. Named'
    BY <2>1, <2>2, <2>4, NamedRemoved DEF RefInv
  <2> QED BY <2>1, <2>3, <2>5, ChildKeeps DEF Owned
<1>10. CASE IntoDyn(c)
  <2>1. TRUE \in BOOLEAN
    OBVIOUS
  <2> QED BY <1>2, <1>10, <2>1
<1>11. Join(c) => RefInv'
  BY <1>7, <1>8
<1>12. /\ (\E u \in Users : Spawn(u, c) \/ IntoParts(c, u)) => RefInv'
       /\ (\E attached \in BOOLEAN : SetAttached(c, attached)) => RefInv'
       /\ (\E kind \in {"Shutdown", "Suspend", "Resume"} : Signal(c, kind)) => RefInv'
  BY <1>1, <1>2, <1>4
<1> QED BY <1>5, <1>6, <1>8, <1>9, <1>10, <1>11, <1>12

\* RefStep as a whole.
LEMMA RefStepKeeps ==
  ASSUME RefInv, RefStep
  PROVE  RefInv'
<1>0. bound.users \subseteq Users /\ bound.channels \subseteq Channels
  BY ReferencesAssumption DEF RefInv, RefType
<1>1. CASE \E u \in bound.users :
             \/ \E c \in bound.channels : Create(u, c) \/ Spawn(u, c) \/ SpawnRefused(u, c)
             \/ \E v \in bound.users : Clone(u, v)
             \/ bound.handles /\ Find(u)
             \/ UpgradeCheck(u) \/ UpgradeIncr(u) \/ Drop(u) \/ Remove(u)
  <2>1. PICK u \in Users :
          \/ \E c \in Channels : Create(u, c) \/ SpawnRefused(u, c)
          \/ \E c \in Channels : Spawn(u, c)
          \/ \E v \in Users : Clone(u, v)
          \/ Find(u) \/ UpgradeCheck(u) \/ UpgradeIncr(u) \/ Drop(u) \/ Remove(u)
    BY <1>0, <1>1
  <2>2. CASE \E c \in Channels : Spawn(u, c)
    BY <2>2, SpawnKeeps
  <2> QED BY <2>1, <2>2, UserStep
<1>2. CASE \E c \in bound.channels :
             \/ \E kind \in {"Shutdown", "Suspend", "Resume"} : Signal(c, kind)
             \/ bound.handles /\ HandleStep(c)
             \/ BeginShutdown(c) \/ GiveUp(c) \/ Join(c)
             \/ DropChild(c) \/ ChildRemove(c)
  <2>1. PICK c \in Channels :
          \/ \E kind \in {"Shutdown", "Suspend", "Resume"} : Signal(c, kind)
          \/ HandleStep(c)
          \/ BeginShutdown(c) \/ GiveUp(c) \/ Join(c)
          \/ DropChild(c) \/ ChildRemove(c)
    BY <1>0, <1>2
  <2>2. CASE HandleStep(c)
    <3>1. \/ \E u \in Users : IntoParts(c, u)
          \/ \E attached \in BOOLEAN : SetAttached(c, attached)
          \/ IntoDyn(c) \/ IntoHandle(c) \/ AbortChild(c)
      BY <1>0, <2>2 DEF HandleStep
    <3> QED BY <3>1, ChildStep
  <2> QED BY <2>1, <2>2, ChildStep
<1> QED BY <1>1, <1>2 DEF RefStep

-----------------------------------------------------------------------------
(* The steps of the task.                                                  *)

\* While it runs it has its Inbox, and its channel does not say Exited.
LEMMA RunsOn ==
  ASSUME RefInv, NEW c \in Channels, task[c] \in Running,
         NEW where \in HasInbox, task' = [task EXCEPT ![c] = where],
         NEW st \in Statuses \ {"Exited"}, status' = [status EXCEPT ![c] = st],
         UNCHANGED <<refVars, childVars, bound>>
  PROVE  RefInv'
<1>1. /\ user' = user /\ strong' = strong /\ registered' = registered /\ child' = child
      /\ bound' = bound /\ revived' = revived
      /\ \A d \in Channels : Holds(d)' = Holds(d)
  BY DEF refVars, childVars, Holds
<1>2. \A d \in Channels : /\ task'[d] \in HasInbox <=> task[d] \in HasInbox
                          /\ task'[d] = "deregister" => task[d] = "deregister"
  BY DEF RefInv, RefType, HasInbox, Running
<1>3. RefType'
  BY <1>1 DEF RefInv, RefType, TaskStates
<1>4. Counted'
  BY <1>1, <1>2 DEF RefInv, Counted, Holders
<1>5. Named'
  <2>1. Removers' \subseteq Removers
    BY <1>1, <1>2, RemoversAre, RemoversWithin
  <2> QED BY <1>1, <2>1, NamedKept DEF RefInv
<1>7. Alive'
  BY DEF RefInv, RefType, Alive
<1> QED BY <1>3, <1>4, <1>5, <1>7 DEF RefInv

\* What a signal makes of a status, one after the other or all at once.
LEMMA SignalsNeverExit ==
  ASSUME NEW st \in Statuses \ {"Exited"}
  PROVE  /\ \A kind : AfterSignal(st, kind) \in Statuses \ {"Exited"}
         /\ \A queue : AfterSignals(st, queue) \in Statuses \ {"Exited"}
  BY DEF AfterSignal, AfterSignals, Statuses

\* A turn of the loop or of the handler, and what it may do.
Turn(c) ==
  /\ task[c] \in Running /\ UNCHANGED <<refVars, childVars, bound>>
  /\ \E where \in HasInbox : task' = [task EXCEPT ![c] = where]
  /\ \/ status' = status
     \/ status' = [status EXCEPT ![c] = "Running"]
     \/ status' = [status EXCEPT ![c] = AfterSignal(status[c], Head(signals[c]))]

LEMMA Turns ==
  ASSUME TaskInv, NEW c \in Channels, LoopStep(c) \/ HandlerStep(c) \/ Aborted(c)
  PROVE  Turn(c)
<1> USE DEF Turn
<1>0. task[c] \in Running => task[c] \in HasInbox /\ task = [task EXCEPT ![c] = task[c]]
  BY DEF TaskInv, HasInbox
<1> USE DEF counters, Running, HasInbox, Goto, ExitWith
<1>1. CASE AutoInit(c)
  BY <1>0, <1>1 DEF AutoInit
<1>2. CASE InitSignal(c)
  BY <1>0, <1>2 DEF InitSignal, PopSignal
<1>3. CASE ExitNormal(c)
  BY <1>3 DEF ExitNormal, Receives
<1>4. CASE TakeSignal(c)
  BY <1>0, <1>4 DEF TakeSignal, Receives, PopSignal
<1>5. CASE TakeMsg(c)
  BY <1>5 DEF TakeMsg, Receives
<1>6. ASSUME NEW brings, TakeScheduled(c, brings) PROVE Turn(c)
  BY <1>0, <1>6 DEF TakeScheduled
<1>7. ASSUME NEW ok, InitReturns(c, ok) PROVE Turn(c)
  BY <1>7 DEF InitReturns
<1>8. ASSUME NEW ok, HookReturns(c, ok) \/ HandleReturns(c, ok) \/ ScheduledReturns(c, ok)
      PROVE  Turn(c)
  BY <1>8 DEF HookReturns, HandleReturns, ScheduledReturns, Returned
<1>9. CASE Schedule(c)
  BY <1>0, <1>9 DEF Schedule, taskVars
<1>10. ASSUME NEW how, ExitReturns(c, how) PROVE Turn(c)
  BY <1>10 DEF ExitReturns, Ends
<1>11. CASE Panic(c) \/ Aborted(c)
  BY <1>11 DEF Panic, Aborted, Ends
<1>12. LoopStep(c) => Turn(c)
  BY <1>1, <1>2, <1>3, <1>4, <1>5, <1>6 DEF LoopStep
<1>13. HandlerStep(c) => Turn(c)
  BY <1>7, <1>8, <1>9, <1>10, <1>11 DEF HandlerStep
<1> QED BY <1>11, <1>12, <1>13

LEMMA TurnStatus ==
  ASSUME TaskInv, NEW c \in Channels, Turn(c)
  PROVE  \E st \in Statuses \ {"Exited"} : status' = [status EXCEPT ![c] = st]
<1>1. status[c] \in Statuses \ {"Exited"}
  BY DEF Turn, TaskInv, Alive, Running
<1> QED BY <1>1, SignalsNeverExit DEF Turn, TaskInv, Statuses

\* The loop takes a turn, or the handler gets on, or the task ends.
LEMMA TurnKeeps ==
  ASSUME RefInv, NEW c \in Channels,
         \/ LoopStep(c) \/ HandlerStep(c) \/ Aborted(c)
         \/ \E m \in Msgs : Send(m, c)
  PROVE  RefInv'
<1>1. CASE \E m \in Msgs : Send(m, c)
  BY <1>1 DEF Send, RefInv, RefType, Counted, Holders, Holds, Named, InOrder, Removers, Alive,
     refVars, childVars, taskVars, counters
<1>2. CASE LoopStep(c) \/ HandlerStep(c) \/ Aborted(c)
  <2>1. TaskInv
    BY DEF RefInv, RefType, TaskInv
  <2>2. Turn(c)
    BY <1>2, <2>1, Turns
  <2> QED BY <2>1, <2>2, TurnStatus, RunsOn DEF Turn
<1> QED BY <1>1, <1>2

\* The Inbox is dropped, with its reference.
LEMMA InboxKeeps ==
  ASSUME RefInv, NEW c \in Channels, DropInbox(c)
  PROVE  RefInv'
<1> DEFINE where == IF IsLast(c) THEN "deregister" ELSE "dropped"
           st == AfterSignals(status[c], signals[c])
<1>1. /\ task[c] = "over" /\ Decr(c) /\ registered' = registered /\ user' = user
      /\ child' = child /\ bound' = bound /\ revived' = revived
      /\ task' = [task EXCEPT ![c] = where] /\ status' = [status EXCEPT ![c] = st]
  BY DEF DropInbox, Goto, childVars, counters, RefInv, RefType
<1>2. where \in TaskStates \ (HasInbox \cup {"none", "done"}) /\ (where = "deregister" => IsLast(c))
  BY DEF TaskStates, HasInbox, Running
<1>3. st \in Statuses \ {"Exited"}
  <2>1. status[c] \in Statuses \ {"Exited"}
    BY <1>1 DEF RefInv, RefType, Alive
  <2> QED BY <2>1, SignalsNeverExit
<1> HIDE DEF where, st
<1>4. task[c] \in HasInbox /\ strong[c] > 0
  BY <1>1, HeldCounts DEF HasInbox
<1>5. \A d \in Channels : Holds(d)' = Holds(d)
  BY <1>1 DEF Holds
<1>6. RefType'
  BY <1>1, <1>2, <1>3, <1>4 DEF RefInv, RefType, Decr
<1>7. Counted'
  <2> SUFFICES ASSUME NEW d \in Channels PROVE strong'[d] = Holders(d)'
    BY DEF Counted
  <2>1. strong[d] = Holders(d) /\ Cardinality(Holds(d)) \in Nat
    BY HoldsFinite DEF RefInv, Counted
  <2>2. CASE d = c
    <3>1. task'[d] \notin HasInbox /\ strong'[d] = strong[d] - 1 /\ child'[d] = child[d]
      BY <1>1, <1>2, <2>2 DEF RefInv, RefType, Decr
    <3> QED BY <1>4, <1>5, <2>1, <2>2, <3>1 DEF Holders
  <2>3. CASE d # c
    <3>1. task'[d] = task[d] /\ strong'[d] = strong[d] /\ child'[d] = child[d]
      BY <1>1, <2>3 DEF RefInv, RefType, Decr
    <3> QED BY <1>5, <2>1, <3>1 DEF Holders
  <2> QED BY <2>2, <2>3
<1>8. Named'
  <2> DEFINE S == Removers \cup (IF IsLast(c) THEN {<<"task", c, c>>} ELSE {})
  <2>1. Removers' \subseteq S
    <3>1. \A d \in Channels : task'[d] = "deregister" => <<"task", d, d>> \in S
      BY <1>1, <1>2, RemoversAre DEF RefInv, RefType
    <3> QED BY <1>1, <3>1, RemoversAre, RemoversWithin
  <2> QED BY <1>1, <1>4, <2>1, NamedLoses DEF RefInv
<1>10. Alive'
  BY <1>1, <1>3 DEF RefInv, RefType, Alive
<1> QED BY <1>6, <1>7, <1>8, <1>10 DEF RefInv

\* The removal, and the end: the task goes on without an Inbox.
LEMMA EndKeeps ==
  ASSUME RefInv, NEW c \in Channels, InboxRemove(c) \/ RegisterExited(c)
  PROVE  RefInv'
<1>1. /\ user' = user /\ strong' = strong /\ child' = child /\ bound' = bound
      /\ revived' = revived
      /\ \A d \in Channels : Holds(d)' = Holds(d)
  BY DEF InboxRemove, RegisterExited, refVars, childVars, counters, Holds
<1>2. PICK where \in {"dropped", "done"}, st \in Statuses :
        /\ task[c] \in {"deregister", "dropped"} /\ task' = [task EXCEPT ![c] = where]
        /\ status' = [status EXCEPT ![c] = st] /\ (where # "done" => st = status[c])
  BY DEF InboxRemove, RegisterExited, Goto, Statuses, RefInv, RefType
<1>3. \A d \in Channels : task'[d] \in HasInbox <=> task[d] \in HasInbox
  BY <1>2 DEF RefInv, RefType, HasInbox, Running
<1>4. RefType'
  BY <1>1, <1>2 DEF RefInv, RefType, TaskStates
<1>5. Counted'
  BY <1>1, <1>3 DEF RefInv, Counted, Holders
<1>6. Alive'
  BY <1>1, <1>2 DEF RefInv, RefType, Alive
<1>7. CASE InboxRemove(c)
  <2> DEFINE x == <<"task", c, c>>
  <2>1. task[c] = "deregister" /\ Deregister /\ task' = [task EXCEPT ![c] = "dropped"]
    BY <1>7 DEF InboxRemove, Goto
  <2>2. x \in Removers
    BY <2>1, RemoversAre
  <2>3. Removers' \subseteq Removers \ {x}
    <3>1. \A d \in Channels : task'[d] = "deregister" => <<"task", d, d>> \in Removers \ {x}
      BY <2>1, RemoversAre DEF RefInv, RefType
    <3>2. \A d \in Channels : child'[d].at = "removing" => <<"child", d, d>> \in Removers \ {x}
      BY <1>1, RemoversAre
    <3>3. \A v \in Users : user'[v].at = "removing" =>
            <<"user", v, user'[v].of>> \in Removers \ {x}
      BY <1>1, RemoversAre
    <3> HIDE DEF x
    <3> QED BY <3>1, <3>2, <3>3, RemoversWithin
  <2> HIDE DEF x
  <2>4. Named'
    BY <1>1, <2>1, <2>2, <2>3, NamedRemoved DEF RefInv
  <2> QED BY <1>4, <1>5, <1>6, <2>4 DEF RefInv
<1>8. CASE RegisterExited(c)
  <2>1. registered' = registered /\ task' = [task EXCEPT ![c] = "done"]
    BY <1>8 DEF RegisterExited, refVars, Goto
  <2>2. Removers' \subseteq Removers
    <3>1. \A d \in Channels : task'[d] = "deregister" => <<"task", d, d>> \in Removers
      BY <2>1, RemoversAre DEF RefInv, RefType
    <3> QED BY <1>1, <3>1, RemoversAre, RemoversWithin
  <2>3. Named'
    BY <1>1, <2>1, <2>2, NamedKept DEF RefInv
  <2> QED BY <1>4, <1>5, <1>6, <2>3 DEF RefInv
<1> QED BY <1>7, <1>8

LEMMA RefInitHolds == Init => RefInv
<1> SUFFICES ASSUME Init PROVE RefInv
  OBVIOUS
<1> USE DEF Init, RefInit
<1>1. RefType
  BY DEF RefType, Idle, NoChild, UserStates, ChildStates, TaskStates, Statuses
<1>2. Counted
  <2> SUFFICES ASSUME NEW c \in Channels PROVE strong[c] = Holders(c)
    BY DEF Counted
  <2>1. Holds(c) = {}
    BY DEF Holds, Idle, User
  <2>2. child[c].at \notin Owned /\ task[c] \notin HasInbox /\ strong[c] = 0
    BY DEF NoChild, Owned, HasInbox, Running
  <2> QED BY <2>1, <2>2, FS_EmptySet DEF Holders
<1>3. Named
  <2>1. Removers = {}
    BY DEF Removers, Idle, NoChild
  <2> QED BY <2>1 DEF Named, InOrder
<1>4. Alive
  BY DEF Alive, Idle
<1> QED BY <1>1, <1>2, <1>3, <1>4 DEF RefInv

LEMMA RefInvStep ==
  ASSUME RefInv, [Next]_vars
  PROVE  RefInv'
<1>0. /\ bound.channels \subseteq Channels /\ bound.msgs \subseteq Msgs
  BY ReferencesAssumption, HandlerLoopAssumption DEF RefInv, RefType
<1>1. CASE RefStep
  BY <1>1, RefStepKeeps
<1>2. ASSUME NEW c \in bound.channels,
             \/ TaskStep(c) \/ LoopStep(c) \/ HandlerStep(c)
             \/ \E m \in bound.msgs : Send(m, c)
      PROVE  RefInv'
  <2>1. c \in Channels
    BY <1>0
  <2>2. CASE LoopStep(c) \/ HandlerStep(c) \/ Aborted(c) \/ \E m \in Msgs : Send(m, c)
    BY <2>1, <2>2, TurnKeeps
  <2>3. CASE DropInbox(c) \/ InboxRemove(c) \/ RegisterExited(c)
    BY <2>1, <2>3, InboxKeeps, EndKeeps
  <2> QED BY <1>0, <1>2, <2>2, <2>3 DEF TaskStep
<1>3. CASE UNCHANGED vars
  BY <1>3 DEF vars, refVars, childVars, taskVars, counters, RefInv, RefType, Counted,
     Holders, Holds, Named, InOrder, Removers, Alive
<1> QED BY <1>1, <1>2, <1>3 DEF Next

\* The count is the number of references whatever upgrades race with drops, and
\* until one of them comes too late a channel is registered as long as it has a
\* reference and until it is removed, for any users and channels.
THEOREM CountIsTrue == Spec => []RegisteredWhileHeld
<1>1. RefInv /\ [Next]_vars => RefInv'
  BY RefInvStep
<1>2. RefInv => RegisteredWhileHeld
  <2> SUFFICES ASSUME RefInv, NEW c \in Channels
               PROVE  /\ strong[c] = Holders(c)
                      /\ ~revived /\ (strong[c] > 0 \/ Removes(c)) => registered = c
    BY DEF RegisteredWhileHeld
  <2>1. ASSUME Removes(c) PROVE \E x \in Removers : x[3] = c
    <3>1. CASE \E u \in Users : user[u] = User("removing", c)
      <4>1. PICK u \in Users : user[u] = User("removing", c)
        BY <3>1
      <4>2. user[u].at = "removing" /\ user[u].of = c
        BY <4>1 DEF User
      <4>3. <<"user", u, c>> \in Removers
        BY <4>2, RemoversAre
      <4> QED BY <4>3
    <3>2. CASE child[c].at = "removing" \/ task[c] = "deregister"
      BY <3>2, RemoversAre
    <3> QED BY <2>1, <3>1, <3>2 DEF Removes
  <2> QED BY <2>1 DEF RefInv, Counted, Named, InOrder
<1> QED BY <1>1, <1>2, RefInitHolds, PTL DEF Spec

-----------------------------------------------------------------------------
(* The lifecycle.                                                          *)

\* What happens around the tasks starts one where there was none, or none.
LEMMA RefStepTask ==
  ASSUME TaskInv, RefStep
  PROVE  /\ TaskInv'
         /\ \A c \in Channels :
              \/ task'[c] = task[c]
              \/ task'[c] = "init" /\ task[c] \in {"none", "done"}
<1>1. ASSUME NEW c \in bound.channels, NEW u \in bound.users, Spawn(u, c)
      PROVE  /\ c \in Channels /\ status[c] = "Exited" /\ bound' = bound
             /\ task' = [task EXCEPT ![c] = "init"]
             /\ status' = [status EXCEPT ![c] = "Initializing"]
  BY <1>1, ReferencesAssumption DEF Spawn, TaskInv
<1>2. CASE \E c \in bound.channels, u \in bound.users : Spawn(u, c)
  BY <1>1, <1>2 DEF TaskInv, Alive, TaskStates, HasInbox, Running, Statuses
<1>3. CASE UNCHANGED <<task, status, bound>>
  BY <1>3 DEF TaskInv, Alive
<1>4. ASSUME RefStep, ~\E c \in bound.channels, u \in bound.users : Spawn(u, c)
      PROVE  UNCHANGED <<task, status, bound>>
  <2> USE DEF taskVars, counters
  <2>1. ASSUME NEW u, NEW c, Create(u, c) \/ SpawnRefused(u, c) \/ Clone(u, c)
        PROVE  UNCHANGED <<task, status, bound>>
    BY <2>1 DEF Create, SpawnRefused, Clone
  <2>2. ASSUME NEW u, Find(u) \/ UpgradeCheck(u) \/ UpgradeIncr(u) \/ Drop(u) \/ Remove(u)
        PROVE  UNCHANGED <<task, status, bound>>
    BY <2>2 DEF Find, UpgradeCheck, UpgradeIncr, Drop, Remove
  <2>3. ASSUME NEW c, HandleStep(c)
        PROVE  UNCHANGED <<task, status, bound>>
    BY <2>3 DEF HandleStep, SetAttached, IntoDyn, IntoHandle, AbortChild, IntoParts
  <2>4. ASSUME NEW c, NEW kind, Signal(c, kind)
        PROVE  UNCHANGED <<task, status, bound>>
    BY <2>4 DEF Signal
  <2>5. ASSUME NEW c, BeginShutdown(c) \/ GiveUp(c) \/ Join(c) \/ DropChild(c) \/ ChildRemove(c)
        PROVE  UNCHANGED <<task, status, bound>>
    BY <2>5 DEF BeginShutdown, GiveUp, Join, DropChild, ChildRemove
  <2> QED BY <1>4, <2>1, <2>2, <2>3, <2>4, <2>5 DEF RefStep
<1> QED BY <1>2, <1>3, <1>4

LEMMA RefStepLoop ==
  ASSUME TaskInv, LoopInv, RefStep, UNCHANGED loopVars
  PROVE  LoopInv'
<1>1. InPhase'
  BY RefStepTask DEF LoopInv, InPhase, loopVars
<1>2. \A c \in Channels : Queued(c)' = Queued(c)
  BY DEF Queued, loopVars
<1> QED BY <1>1, <1>2 DEF LoopInv, LoopType, OnePlace, Followed, NormalExitHandlesAll, loopVars

\* A message is sent.
LEMMA SendLoop ==
  ASSUME TaskInv, LoopInv, NEW c \in Channels, NEW m \in Msgs, Send(m, c)
  PROVE  LoopInv'
<1>1. /\ msg[m] = "unsent" /\ msg' = [msg EXCEPT ![m] = "queued"]
      /\ msgQueue' = [msgQueue EXCEPT ![c] = Append(@, m)]
      /\ UNCHANGED <<task, atExiting, doing, reason>>
  BY DEF Send, taskVars
<1>2. LoopType'
  BY <1>1 DEF LoopInv, LoopType
<1>3. \A d \in Channels : msgQueue[d] \in Seq(Msgs) /\ msgQueue'[d] \in Seq(Msgs)
  BY <1>2 DEF LoopInv, LoopType
<1>4. \A d \in Channels : \A i \in DOMAIN msgQueue'[d] :
        \/ i \in DOMAIN msgQueue[d] /\ msgQueue'[d][i] = msgQueue[d][i]
        \/ d = c /\ i = Len(msgQueue[c]) + 1 /\ msgQueue'[d][i] = m
  BY <1>1, <1>3 DEF LoopInv, LoopType
<1>5. \A d \in Channels : \A i \in DOMAIN msgQueue[d] :
        i \in DOMAIN msgQueue'[d] /\ msgQueue'[d][i] = msgQueue[d][i] /\ msgQueue[d][i] # m
  BY <1>1, <1>3 DEF LoopInv, LoopType, OnePlace
<1>6. OnePlace'
  BY <1>1, <1>3, <1>4, <1>5 DEF LoopInv, LoopType, OnePlace
<1>7. Followed'
  <2> SUFFICES ASSUME NEW d \in Channels, NEW n \in atExiting[d]
               PROVE  (n \in Queued(d) \/ n = doing[d] \/ msg[n] = "handled")'
    BY <1>1 DEF Followed
  <2>1. Queued(d) \subseteq Queued(d)'
    BY <1>5 DEF Queued
  <2> QED BY <1>1, <2>1 DEF LoopInv, LoopType, Followed
<1>8. InPhase' /\ NormalExitHandlesAll'
  BY <1>1 DEF LoopInv, LoopType, InPhase, NormalExitHandlesAll
<1> QED BY <1>2, <1>6, <1>7, <1>8 DEF LoopInv

\* A turn that leaves the messages where they are.
LEMMA ControlLoop ==
  ASSUME LoopInv, NEW c \in Channels, UNCHANGED <<msg, msgQueue>>,
         NEW x \in Hooks \cup {"scheduled", "nothing", doing[c]}, doing' = [doing EXCEPT ![c] = x],
         doing[c] \in Msgs => x = doing[c],
         NEW s \in {atExiting[c], Queued(c)}, atExiting' = [atExiting EXCEPT ![c] = s],
         NEW r \in {"None", "InitError", "InitCancelled", "HandlerError", "Normal"},
         reason' = [reason EXCEPT ![c] = r],
         r = "Normal" => \A m \in s : msg[m] = "handled",
         InPhase'
  PROVE  LoopInv'
<1>1. \A d \in Channels : Queued(d)' = Queued(d) /\ Queued(d) \subseteq Msgs
  BY DEF Queued, LoopInv, LoopType
<1>2. LoopType'
  BY <1>1 DEF LoopInv, LoopType
<1>3. x \in Msgs => x = doing[c]
  BY HandlerLoopAssumption
<1>4. OnePlace'
  BY <1>3 DEF LoopInv, LoopType, OnePlace
<1>5. Followed'
  <2> SUFFICES ASSUME NEW d \in Channels, NEW n \in atExiting'[d]
               PROVE  n \in Queued(d) \/ n = doing'[d] \/ msg[n] = "handled"
    BY <1>1 DEF Followed
  <2>1. n \in Queued(d) \/ (n \in atExiting[d] /\ n \in Msgs)
    BY <1>1 DEF LoopInv, LoopType
  <2> QED BY <2>1 DEF LoopInv, LoopType, Followed
<1>6. NormalExitHandlesAll'
  BY DEF LoopInv, LoopType, NormalExitHandlesAll
<1> QED BY <1>2, <1>4, <1>5, <1>6 DEF LoopInv

\* A turn, but for the two that move a message.
LEMMA TurnLoop ==
  ASSUME TaskInv, LoopInv, NEW c \in Channels,
         \/ AutoInit(c) \/ InitSignal(c) \/ ExitNormal(c) \/ TakeSignal(c)
         \/ \E brings \in {"event", "nothing", "error"} : TakeScheduled(c, brings)
         \/ \E ok \in BOOLEAN : InitReturns(c, ok) \/ HookReturns(c, ok) \/ ScheduledReturns(c, ok)
         \/ \E how \in {"Normal", "UnhandledError"} : ExitReturns(c, how)
         \/ Schedule(c) \/ Panic(c) \/ Aborted(c) \/ InboxRemove(c) \/ RegisterExited(c)
  PROVE  LoopInv'
<1>0. /\ doing = [doing EXCEPT ![c] = doing[c]] /\ reason = [reason EXCEPT ![c] = reason[c]]
      /\ atExiting = [atExiting EXCEPT ![c] = atExiting[c]]
      /\ reason[c] \in {"None", "InitError", "InitCancelled", "HandlerError", "Normal"}
      /\ reason[c] = "Normal" => \A m \in atExiting[c] : msg[m] = "handled"
      /\ task[c] \in {"init", "select"} => doing[c] = "nothing" /\ reason[c] = "None"
      /\ task[c] = "hook" => reason[c] = "None"
      /\ task[c] \notin {"hook", "over"} => doing[c] = "nothing"
      /\ "nothing" \notin Msgs /\ "scheduled" \notin Msgs /\ Hooks \cap Msgs = {}
  BY HandlerLoopAssumption DEF LoopInv, LoopType, InPhase, NormalExitHandlesAll
<1> USE DEF Goto, ExitWith
<1>1. CASE AutoInit(c) \/ Schedule(c)
  <2>1. UNCHANGED <<msg, msgQueue, doing, atExiting, reason, task>>
    BY <1>1 DEF AutoInit, Schedule, loopVars, taskVars
  <2>2. InPhase'
    BY <2>1 DEF LoopInv, InPhase
  <2> QED BY <1>0, <2>1, <2>2, ControlLoop
<1>2. CASE InitSignal(c)
  <2>1. PICK r \in {"InitCancelled", "None"} : reason' = [reason EXCEPT ![c] = r]
          /\ task' = [task EXCEPT ![c] = IF r = "None" THEN "init" ELSE "exit"]
    BY <1>0, <1>2 DEF InitSignal, TaskInv
  <2>2. PICK s \in {atExiting[c], Queued(c)} : atExiting' = [atExiting EXCEPT ![c] = s]
    BY <1>0, <1>2 DEF InitSignal, PopSignal
  <2>3. UNCHANGED <<msg, msgQueue, doing>> /\ doing[c] = "nothing"
    BY <1>0, <1>2 DEF InitSignal
  <2>4. InPhase'
    BY <2>1, <2>3 DEF LoopInv, LoopType, InPhase, TaskInv
  <2> QED BY <1>0, <2>1, <2>2, <2>3, <2>4, ControlLoop
<1>3. CASE ExitNormal(c)
  <2>1. /\ UNCHANGED <<msg, msgQueue, doing, atExiting>> /\ msgQueue[c] = <<>>
        /\ reason' = [reason EXCEPT ![c] = "Normal"] /\ task[c] = "select"
        /\ task' = [task EXCEPT ![c] = "exit"]
    BY <1>3 DEF ExitNormal, Receives, Ended
  <2>2. Queued(c) = {}
    BY <2>1 DEF Queued
  <2>3. ASSUME NEW m \in atExiting[c] PROVE msg[m] = "handled"
    <3>1. m \in Msgs
      BY DEF LoopInv, LoopType
    <3>2. m # doing[c] /\ m \notin Queued(c)
      BY <1>0, <2>1, <2>2, <3>1
    <3> QED BY <3>2 DEF LoopInv, Followed
  <2>4. InPhase'
    BY <1>0, <2>1 DEF LoopInv, LoopType, InPhase, TaskInv
  <2> QED BY <1>0, <2>1, <2>3, <2>4, ControlLoop
<1>4. CASE TakeSignal(c)
  <2>1. PICK s \in {atExiting[c], Queued(c)} : atExiting' = [atExiting EXCEPT ![c] = s]
    BY <1>0, <1>4 DEF TakeSignal, PopSignal
  <2>2. PICK x \in Hooks \cup {"nothing"} :
          /\ doing' = [doing EXCEPT ![c] = x]
          /\ task' = [task EXCEPT ![c] = IF x = "nothing" THEN "select" ELSE "hook"]
    <3>1. Hook(c) \in Hooks \cup {"nothing"}
      BY DEF Hook, Hooks
    <3> QED BY <1>4, <3>1 DEF TakeSignal, Receives, TaskInv
  <2>3. UNCHANGED <<msg, msgQueue, reason>> /\ task[c] = "select"
    BY <1>4 DEF TakeSignal, Receives
  <2>4. InPhase'
    BY <1>0, <2>2, <2>3 DEF LoopInv, LoopType, InPhase, TaskInv
  <2> QED BY <1>0, <2>1, <2>2, <2>3, <2>4, ControlLoop
<1>5. ASSUME NEW brings, TakeScheduled(c, brings) PROVE LoopInv'
  <2>1. PICK x \in {"scheduled", "nothing"}, r \in {"None", "HandlerError"},
             where \in {"select", "hook", "exit"} :
          /\ doing' = [doing EXCEPT ![c] = x] /\ reason' = [reason EXCEPT ![c] = r]
          /\ task' = [task EXCEPT ![c] = where]
          /\ (where # "hook" => x = "nothing") /\ (r # "None" => where = "exit")
    BY <1>0, <1>5 DEF TakeScheduled, TaskInv
  <2>2. UNCHANGED <<msg, msgQueue, atExiting>> /\ task[c] = "select"
    BY <1>5 DEF TakeScheduled
  <2>3. InPhase'
    BY <1>0, <2>1, <2>2 DEF LoopInv, LoopType, InPhase, TaskInv
  <2> QED BY <1>0, <2>1, <2>2, <2>3, ControlLoop
<1>6. ASSUME NEW ok, InitReturns(c, ok) PROVE LoopInv'
  <2>1. PICK r \in {"None", "InitError"} : reason' = [reason EXCEPT ![c] = r]
          /\ task' = [task EXCEPT ![c] = IF r = "None" THEN "select" ELSE "exit"]
    BY <1>0, <1>6 DEF InitReturns, TaskInv
  <2>2. UNCHANGED <<msg, msgQueue, atExiting, doing>> /\ task[c] = "init"
    BY <1>6 DEF InitReturns
  <2>3. InPhase'
    BY <1>0, <2>1, <2>2 DEF LoopInv, LoopType, InPhase, TaskInv
  <2> QED BY <1>0, <2>1, <2>2, <2>3, ControlLoop
<1>7. ASSUME NEW ok, HookReturns(c, ok) \/ ScheduledReturns(c, ok) PROVE LoopInv'
  <2>1. PICK r \in {"None", "HandlerError"} : reason' = [reason EXCEPT ![c] = r]
          /\ task' = [task EXCEPT ![c] = IF r = "None" THEN "select" ELSE "exit"]
    BY <1>0, <1>7 DEF HookReturns, ScheduledReturns, Returned, TaskInv
  <2>2. /\ UNCHANGED <<msg, msgQueue, atExiting>> /\ task[c] = "hook"
        /\ doing' = [doing EXCEPT ![c] = "nothing"] /\ doing[c] \notin Msgs
    BY <1>0, <1>7 DEF HookReturns, ScheduledReturns, Returned
  <2>3. InPhase'
    BY <1>0, <2>1, <2>2 DEF LoopInv, LoopType, InPhase, TaskInv
  <2> QED BY <1>0, <2>1, <2>2, <2>3, ControlLoop
<1>8. ASSUME NEW how, ExitReturns(c, how) \/ Panic(c) \/ Aborted(c) PROVE LoopInv'
  <2>1. UNCHANGED <<msg, msgQueue, doing, atExiting, reason>> /\ task' = [task EXCEPT ![c] = "over"]
    BY <1>8 DEF ExitReturns, Panic, Aborted, Ends, loopVars
  <2>2. InPhase'
    BY <2>1 DEF LoopInv, LoopType, InPhase, TaskInv
  <2> QED BY <1>0, <2>1, <2>2, ControlLoop
<1>9. CASE InboxRemove(c)
  <2>1. /\ UNCHANGED <<msg, msgQueue, doing, atExiting, reason>> /\ task[c] = "deregister"
        /\ task' = [task EXCEPT ![c] = "dropped"]
    BY <1>9 DEF InboxRemove, loopVars
  <2>2. InPhase'
    BY <1>0, <2>1 DEF LoopInv, LoopType, InPhase, TaskInv
  <2> QED BY <1>0, <2>1, <2>2, ControlLoop
<1>10. CASE RegisterExited(c)
  <2>1. /\ UNCHANGED <<msg, msgQueue, doing, atExiting>> /\ task[c] = "dropped"
        /\ task' = [task EXCEPT ![c] = "done"] /\ reason' = [reason EXCEPT ![c] = "None"]
    BY <1>10 DEF RegisterExited
  <2>2. InPhase'
    BY <1>0, <2>1 DEF LoopInv, LoopType, InPhase, TaskInv
  <2> QED BY <1>0, <2>1, <2>2, ControlLoop
<1>11. /\ (\E brings \in {"event", "nothing", "error"} : TakeScheduled(c, brings)) => LoopInv'
       /\ (\E ok \in BOOLEAN : InitReturns(c, ok) \/ HookReturns(c, ok) \/ ScheduledReturns(c, ok))
            => LoopInv'
       /\ (\E how \in {"Normal", "UnhandledError"} : ExitReturns(c, how)) => LoopInv'
       /\ (Panic(c) \/ Aborted(c)) => LoopInv'
  BY <1>5, <1>6, <1>7, <1>8
<1> QED BY <1>1, <1>2, <1>3, <1>4, <1>9, <1>10, <1>11

\* A message of the mailbox is taken,
LEMMA TakeMsgLoop ==
  ASSUME TaskInv, LoopInv, NEW c \in Channels, TakeMsg(c)
  PROVE  LoopInv'
<1> DEFINE m == Head(msgQueue[c])
<1>1. /\ msgQueue[c] \in Seq(Msgs) /\ msgQueue[c] # <<>>
      /\ msg' = [msg EXCEPT ![m] = "handling"]
      /\ msgQueue' = [msgQueue EXCEPT ![c] = Tail(@)]
      /\ doing' = [doing EXCEPT ![c] = m]
      /\ task[c] = "select" /\ task' = [task EXCEPT ![c] = "hook"]
      /\ UNCHANGED <<atExiting, reason>>
  BY DEF TakeMsg, Receives, Goto, LoopInv, LoopType
<1>2. m \in Msgs /\ 1 \in DOMAIN msgQueue[c] /\ m = msgQueue[c][1]
  BY <1>1
<1>3. doing[c] = "nothing" /\ doing[c] \notin Msgs /\ msg[m] = "queued"
  BY <1>1, <1>2, HandlerLoopAssumption DEF LoopInv, InPhase, OnePlace
<1> HIDE DEF m
<1>4. LoopType'
  BY <1>1, <1>2 DEF LoopInv, LoopType
<1>5. \A d \in Channels : \A i \in DOMAIN msgQueue'[d] :
        LET j == IF d = c THEN i + 1 ELSE i
        IN  /\ j \in DOMAIN msgQueue[d] /\ msgQueue[d][j] = msgQueue'[d][i]
            /\ i \in Nat /\ msgQueue[d][j] # m
  <2> SUFFICES ASSUME NEW d \in Channels, NEW i \in DOMAIN msgQueue'[d]
               PROVE  LET j == IF d = c THEN i + 1 ELSE i
                      IN  /\ j \in DOMAIN msgQueue[d] /\ msgQueue[d][j] = msgQueue'[d][i]
                          /\ i \in Nat /\ msgQueue[d][j] # m
    OBVIOUS
  <2>0. msgQueue[d] \in Seq(Msgs)
    BY DEF LoopInv, LoopType
  <2>1. CASE d = c
    <3>1. msgQueue'[d] = Tail(msgQueue[c])
      BY <1>1, <2>1 DEF LoopInv, LoopType
    <3>2. /\ i \in Nat /\ i > 0 /\ i + 1 \in DOMAIN msgQueue[c]
          /\ msgQueue[c][i + 1] = Tail(msgQueue[c])[i]
      <4>1. ASSUME NEW q \in Seq(Msgs), q # <<>>, NEW k \in DOMAIN Tail(q)
            PROVE  k \in Nat /\ k > 0 /\ k + 1 \in DOMAIN q /\ q[k + 1] = Tail(q)[k]
        BY <4>1
      <4>2. i \in DOMAIN Tail(msgQueue[c])
        BY <3>1
      <4> QED BY <1>1, <4>1, <4>2
    <3>3. msgQueue[c][i + 1] # m
      BY <1>2, <3>2 DEF LoopInv, OnePlace
    <3> QED BY <2>1, <3>1, <3>2, <3>3
  <2>2. CASE d # c
    <3>1. msgQueue'[d] = msgQueue[d]
      BY <1>1, <2>2 DEF LoopInv, LoopType
    <3>2. i \in DOMAIN msgQueue[d] /\ i \in Nat
      BY <2>0, <3>1
    <3>3. msgQueue[d][i] # m
      BY <1>2, <2>2, <3>2 DEF LoopInv, OnePlace
    <3> QED BY <2>2, <3>1, <3>2, <3>3
  <2> QED BY <2>1, <2>2
<1>6. OnePlace'
  <2>1. \A d \in Channels : \A i \in DOMAIN msgQueue'[d] : msg'[msgQueue'[d][i]] = "queued"
    BY <1>1, <1>5 DEF LoopInv, LoopType, OnePlace
  <2>2. \A d, e \in Channels : \A i \in DOMAIN msgQueue'[d], j \in DOMAIN msgQueue'[e] :
          msgQueue'[d][i] = msgQueue'[e][j] => d = e /\ i = j
    <3> SUFFICES ASSUME NEW d \in Channels, NEW e \in Channels,
                        NEW i \in DOMAIN msgQueue'[d], NEW j \in DOMAIN msgQueue'[e],
                        msgQueue'[d][i] = msgQueue'[e][j]
                 PROVE  d = e /\ i = j
      OBVIOUS
    <3> DEFINE ii == IF d = c THEN i + 1 ELSE i
               jj == IF e = c THEN j + 1 ELSE j
    <3>1. /\ ii \in DOMAIN msgQueue[d] /\ jj \in DOMAIN msgQueue[e] /\ i \in Nat /\ j \in Nat
          /\ msgQueue[d][ii] = msgQueue[e][jj]
      BY <1>5
    <3>2. d = e /\ ii = jj
      BY <3>1 DEF LoopInv, OnePlace
    <3> QED BY <3>1, <3>2
  <2>3. \A d \in Channels : doing'[d] \in Msgs => msg'[doing'[d]] = "handling"
    BY <1>1, <1>2, <1>3 DEF LoopInv, LoopType, OnePlace
  <2>4. \A d \in Channels : doing[d] # m
    BY <1>2, <1>3 DEF LoopInv, OnePlace
  <2>5. \A d, e \in Channels : doing'[d] \in Msgs /\ doing'[d] = doing'[e] => d = e
    BY <1>1, <2>4 DEF LoopInv, LoopType, OnePlace
  <2> QED BY <2>1, <2>2, <2>3, <2>5 DEF OnePlace
<1>7. Followed'
  <2> SUFFICES ASSUME NEW d \in Channels, NEW n \in atExiting[d]
               PROVE  (n \in Queued(d) \/ n = doing[d] \/ msg[n] = "handled")'
    BY <1>1 DEF Followed
  <2>0. n \in Msgs /\ (n \in Queued(d) \/ n = doing[d] \/ msg[n] = "handled")
    BY DEF LoopInv, LoopType, Followed
  <2>1. CASE msg[n] = "handled"
    BY <1>1, <1>3, <2>0, <2>1 DEF LoopInv, LoopType
  <2>2. CASE n = doing[d]
    BY <1>1, <1>3, <2>0, <2>2 DEF LoopInv, LoopType
  <2>3. CASE n \in Queued(d) /\ d # c
    BY <1>1, <2>3 DEF Queued, LoopInv, LoopType
  <2>4. CASE n \in Queued(d) /\ d = c
    <3>1. PICK i \in DOMAIN msgQueue[c] : n = msgQueue[c][i]
      BY <2>4 DEF Queued
    <3>2. CASE i = 1
      BY <1>1, <1>2, <2>4, <3>1, <3>2 DEF LoopInv, LoopType
    <3>3. CASE i # 1
      <4>1. i - 1 \in DOMAIN Tail(msgQueue[c]) /\ Tail(msgQueue[c])[i - 1] = n
        BY <1>1, <3>1, <3>3
      <4>2. msgQueue'[c] = Tail(msgQueue[c])
        BY <1>1 DEF LoopInv, LoopType
      <4> QED BY <2>4, <4>1, <4>2 DEF Queued
    <3> QED BY <3>2, <3>3
  <2> QED BY <2>0, <2>1, <2>2, <2>3, <2>4
<1>8. InPhase'
  BY <1>1 DEF LoopInv, LoopType, InPhase, TaskInv
<1>9. NormalExitHandlesAll'
  BY <1>1, <1>3 DEF LoopInv, LoopType, NormalExitHandlesAll
<1> QED BY <1>4, <1>6, <1>7, <1>8, <1>9 DEF LoopInv

\* and its handler returns.
LEMMA HandleLoop ==
  ASSUME TaskInv, LoopInv, NEW c \in Channels, NEW ok, HandleReturns(c, ok)
  PROVE  LoopInv'
<1> DEFINE m == doing[c]
<1>1. /\ m \in Msgs /\ msg' = [msg EXCEPT ![m] = "handled"] /\ task[c] = "hook"
      /\ doing' = [doing EXCEPT ![c] = "nothing"] /\ UNCHANGED <<msgQueue, atExiting>>
  BY DEF HandleReturns, Returned
<1>2. PICK r \in {"None", "HandlerError"} : reason' = [reason EXCEPT ![c] = r]
        /\ task' = [task EXCEPT ![c] = IF r = "None" THEN "select" ELSE "exit"]
  <2>1. reason[c] = "None" /\ reason = [reason EXCEPT ![c] = reason[c]]
    BY <1>1 DEF LoopInv, LoopType, InPhase
  <2> QED BY <2>1 DEF HandleReturns, Returned, Goto, ExitWith
<1>3. "nothing" \notin Msgs /\ msg[m] = "handling"
  BY <1>1, HandlerLoopAssumption DEF LoopInv, OnePlace
<1>4. LoopType'
  BY <1>1, <1>2 DEF LoopInv, LoopType
<1>5. OnePlace'
  <2>1. \A d \in Channels : \A i \in DOMAIN msgQueue[d] : msg'[msgQueue[d][i]] = "queued"
    BY <1>1, <1>3 DEF LoopInv, LoopType, OnePlace
  <2>2. \A d \in Channels : doing'[d] \in Msgs => doing'[d] = doing[d] /\ d # c
    BY <1>1, <1>3 DEF LoopInv, LoopType
  <2>3. \A d \in Channels : doing'[d] \in Msgs => msg'[doing'[d]] = "handling"
    BY <1>1, <2>2 DEF LoopInv, LoopType, OnePlace
  <2>4. \A d, e \in Channels : doing'[d] \in Msgs /\ doing'[d] = doing'[e] => d = e
    BY <2>2 DEF LoopInv, OnePlace
  <2> QED BY <1>1, <2>1, <2>3, <2>4 DEF LoopInv, OnePlace
<1>6. \A n \in Msgs : msg[n] = "handled" => msg'[n] = "handled"
  BY <1>1 DEF LoopInv, LoopType
<1>7. Followed'
  <2> SUFFICES ASSUME NEW d \in Channels, NEW n \in atExiting[d]
               PROVE  (n \in Queued(d) \/ n = doing[d] \/ msg[n] = "handled")'
    BY <1>1 DEF Followed
  <2>1. n \in Msgs /\ (n \in Queued(d) \/ n = doing[d] \/ msg[n] = "handled")
    BY DEF LoopInv, LoopType, Followed
  <2>2. Queued(d)' = Queued(d)
    BY <1>1 DEF Queued
  <2>3. n = doing[d] => n = doing'[d] \/ msg'[n] = "handled"
    BY <1>1, <2>1 DEF LoopInv, LoopType
  <2> QED BY <1>6, <2>1, <2>2, <2>3
<1>8. InPhase'
  BY <1>1, <1>2 DEF LoopInv, LoopType, InPhase, TaskInv
<1>9. NormalExitHandlesAll'
  BY <1>1, <1>2, <1>6 DEF LoopInv, LoopType, NormalExitHandlesAll
<1> QED BY <1>4, <1>5, <1>7, <1>8, <1>9 DEF LoopInv

\* The Inbox is dropped with what is left.
LEMMA InboxLoop ==
  ASSUME TaskInv, LoopInv, NEW c \in Channels, DropInbox(c)
  PROVE  LoopInv'
<1>1. /\ task[c] = "over"
      /\ msg' = [m \in Msgs |-> IF m \in Queued(c) \cup {doing[c]} THEN "dropped" ELSE msg[m]]
      /\ msgQueue' = [msgQueue EXCEPT ![c] = <<>>]
      /\ atExiting' = [atExiting EXCEPT ![c] = {}]
      /\ doing' = [doing EXCEPT ![c] = "nothing"]
      /\ reason' = reason
  BY DEF DropInbox
<1>2. \E where \in {"deregister", "dropped"} : task' = [task EXCEPT ![c] = where]
  BY DEF DropInbox, Goto
<1>3. "nothing" \notin Msgs
  BY HandlerLoopAssumption
<1>4. LoopType'
  BY <1>1 DEF LoopInv, LoopType
<1>5. \A n \in Msgs : n \in Queued(c) => msg[n] = "queued"
  BY DEF Queued, LoopInv, OnePlace
<1>6. \A n \in Msgs : n = doing[c] => msg[n] = "handling"
  BY DEF LoopInv, OnePlace
<1>7. \A n \in Msgs : msg[n] = "handled" => msg'[n] = "handled"
  BY <1>1, <1>5, <1>6
<1>8. \A d \in Channels : d # c => /\ msgQueue'[d] = msgQueue[d] /\ doing'[d] = doing[d]
                                   /\ atExiting'[d] = atExiting[d]
  BY <1>1 DEF LoopInv, LoopType
<1>9. msgQueue'[c] = <<>> /\ doing'[c] = "nothing" /\ atExiting'[c] = {}
  BY <1>1 DEF LoopInv, LoopType
<1>10. OnePlace'
  <2>1. ASSUME NEW d \in Channels, NEW i \in DOMAIN msgQueue'[d]
        PROVE  msg'[msgQueue'[d][i]] = "queued"
    <3>1. d # c /\ i \in DOMAIN msgQueue[d] /\ msgQueue'[d][i] = msgQueue[d][i]
      BY <1>8, <1>9
    <3>2. msgQueue[d] \in Seq(Msgs) /\ msgQueue[d][i] \in Msgs
      BY <3>1 DEF LoopInv, LoopType
    <3>3. msg[msgQueue[d][i]] = "queued" /\ msgQueue[d][i] \notin Queued(c)
      BY <3>1 DEF Queued, LoopInv, OnePlace
    <3> QED BY <1>1, <1>6, <3>1, <3>2, <3>3
  <2>2. \A d, e \in Channels : \A i \in DOMAIN msgQueue'[d], j \in DOMAIN msgQueue'[e] :
          msgQueue'[d][i] = msgQueue'[e][j] => d = e /\ i = j
    BY <1>8, <1>9 DEF LoopInv, OnePlace
  <2>3. \A d \in Channels : doing'[d] \in Msgs => d # c /\ doing'[d] = doing[d]
    BY <1>3, <1>8, <1>9
  <2>4. \A d, e \in Channels : doing'[d] \in Msgs /\ doing'[d] = doing'[e] => d = e
    BY <2>3 DEF LoopInv, OnePlace
  <2>5. ASSUME NEW d \in Channels, doing'[d] \in Msgs PROVE msg'[doing'[d]] = "handling"
    <3>1. doing'[d] = doing[d] /\ msg[doing[d]] = "handling" /\ doing[d] # doing[c]
      BY <2>3, <2>5 DEF LoopInv, OnePlace
    <3> QED BY <1>1, <1>5, <2>5, <3>1
  <2> QED BY <2>1, <2>2, <2>4, <2>5 DEF OnePlace
<1>11. Followed'
  <2> SUFFICES ASSUME NEW d \in Channels, NEW n \in atExiting'[d]
               PROVE  (n \in Queued(d) \/ n = doing[d] \/ msg[n] = "handled")'
    BY DEF Followed
  <2>1. d # c /\ n \in atExiting[d]
    BY <1>8, <1>9
  <2>2. n \in Msgs /\ (n \in Queued(d) \/ n = doing[d] \/ msg[n] = "handled")
    BY <2>1 DEF LoopInv, LoopType, Followed
  <2>3. Queued(d)' = Queued(d)
    BY <1>8, <2>1 DEF Queued
  <2> QED BY <1>7, <1>8, <2>1, <2>2, <2>3
<1>12. InPhase'
  BY <1>1, <1>2, <1>9 DEF LoopInv, LoopType, InPhase, TaskInv
<1>13. NormalExitHandlesAll'
  <2> SUFFICES ASSUME NEW d \in Channels, reason[d] = "Normal", NEW n \in atExiting'[d]
               PROVE  msg'[n] = "handled"
    BY <1>1 DEF NormalExitHandlesAll
  <2>1. d # c /\ n \in atExiting[d] /\ n \in Msgs
    BY <1>8, <1>9 DEF LoopInv, LoopType
  <2> QED BY <1>7, <2>1 DEF LoopInv, NormalExitHandlesAll
<1> QED BY <1>4, <1>10, <1>11, <1>12, <1>13 DEF LoopInv

LEMMA LoopInitHolds == Init => TaskInv /\ LoopInv
<1> SUFFICES ASSUME Init PROVE TaskInv /\ LoopInv
  OBVIOUS
<1>1. "nothing" \notin Msgs
  BY HandlerLoopAssumption
<1>2. TaskInv
  BY DEF Init, RefInit, TaskInv, Alive, TaskStates, Statuses
<1>3. LoopInv
  BY <1>1 DEF Init, RefInit, LoopInv, LoopType, OnePlace, Followed, InPhase, NormalExitHandlesAll
<1> QED BY <1>2, <1>3

LEMMA LoopInvStep ==
  ASSUME TaskInv, LoopInv, [Next]_vars
  PROVE  TaskInv' /\ LoopInv'
<1>0. bound.channels \subseteq Channels /\ bound.msgs \subseteq Msgs
  BY ReferencesAssumption, HandlerLoopAssumption DEF TaskInv
<1>1. CASE RefStep /\ UNCHANGED loopVars
  BY <1>1, RefStepTask, RefStepLoop
<1>2. ASSUME NEW c \in Channels, NEW m \in Msgs, Send(m, c) PROVE TaskInv' /\ LoopInv'
  <2>1. TaskInv'
    BY <1>2 DEF Send, taskVars, counters, TaskInv, Alive
  <2> QED BY <1>2, <2>1, SendLoop
<1>3. ASSUME NEW c \in Channels, LoopStep(c) \/ HandlerStep(c) \/ Aborted(c)
      PROVE  TaskInv' /\ LoopInv'
  <2>1. TaskInv'
    <3>1. Turn(c)
      BY <1>3, Turns
    <3>2. PICK st \in Statuses \ {"Exited"} : status' = [status EXCEPT ![c] = st]
      BY <3>1, TurnStatus
    <3> QED BY <3>1, <3>2 DEF Turn, TaskInv, Alive, TaskStates, HasInbox, Running
  <2>2. TakeMsg(c) => LoopInv'
    BY TakeMsgLoop
  <2>3. ASSUME NEW ok, HandleReturns(c, ok) PROVE LoopInv'
    BY <2>3, HandleLoop
  <2>4. LoopStep(c) => LoopInv'
    BY <2>2, TurnLoop DEF LoopStep
  <2>5. HandlerStep(c) => LoopInv'
    <3>1. ASSUME HandlerStep(c), ~\E ok \in BOOLEAN : HandleReturns(c, ok) PROVE LoopInv'
      BY <3>1, TurnLoop DEF HandlerStep
    <3> QED BY <2>3, <3>1
  <2>6. Aborted(c) => LoopInv'
    BY TurnLoop
  <2> QED BY <1>3, <2>1, <2>4, <2>5, <2>6
<1>4. ASSUME NEW c \in Channels, DropInbox(c) PROVE TaskInv' /\ LoopInv'
  <2>1. status[c] \in Statuses \ {"Exited"}
    BY <1>4 DEF DropInbox, TaskInv, Alive
  <2>2. AfterSignals(status[c], signals[c]) \in Statuses \ {"Exited"}
    BY <2>1, SignalsNeverExit
  <2>3. TaskInv'
    BY <1>4, <2>2 DEF DropInbox, Goto, counters, TaskInv, Alive, TaskStates
  <2> QED BY <1>4, <2>3, InboxLoop
<1>5. ASSUME NEW c \in Channels, InboxRemove(c) \/ RegisterExited(c)
      PROVE  TaskInv' /\ LoopInv'
  <2>1. TaskInv'
    BY <1>5 DEF InboxRemove, RegisterExited, Goto, counters, TaskInv, Alive, TaskStates, Statuses
  <2> QED BY <1>5, <2>1, TurnLoop
<1>6. CASE UNCHANGED vars
  <2>1. \A c \in Channels : Queued(c)' = Queued(c)
    BY <1>6 DEF vars, loopVars, Queued
  <2> QED BY <1>6, <2>1 DEF vars, loopVars, taskVars, counters, TaskInv, Alive, LoopInv,
       LoopType, OnePlace, Followed, InPhase, NormalExitHandlesAll
<1>7. ASSUME NEW c \in bound.channels,
             \/ TaskStep(c) \/ LoopStep(c) \/ HandlerStep(c)
             \/ \E m \in bound.msgs : Send(m, c)
      PROVE  TaskInv' /\ LoopInv'
  BY <1>0, <1>2, <1>3, <1>4, <1>5, <1>7 DEF TaskStep
<1> QED BY <1>1, <1>6, <1>7 DEF Next

\* A loop that ends normally has handled all that was queued when the actor began
\* to exit, for any channels, messages and signals, whatever is scheduled
\* and whatever callers do with their references.
THEOREM NormalExitIsComplete == Spec => []NormalExitHandlesAll
<1>1. LoopInv => NormalExitHandlesAll
  BY DEF LoopInv
<1>2. TaskInv /\ LoopInv /\ [Next]_vars => TaskInv' /\ LoopInv'
  BY LoopInvStep
<1> QED BY <1>1, <1>2, LoopInitHolds, PTL DEF Spec
==============================================================================
