--------------------------- MODULE RestForOneProofs ---------------------------
(***************************************************************************)
(* Proofs about the rest-for-one strategy, for any children, names,        *)
(* restart modes and budgets: its type invariant, that its cascade waits   *)
(* for what was told to stop, that a shutdown stops the children in        *)
(* reverse order, and that it is a SupervisedGroup until it panics, which  *)
(* it does only after a deregistration.                                    *)
(***************************************************************************)
EXTENDS RestForOne, SupervisorProofs

\* What the functions of a handler pass on to each other.
Points ==
  [child : [Names -> ChildStates], specs : SUBSET Names,
   initializing : SUBSET Names, childPermits : [Names -> 0..MaxChildRestarts]]

Cascades ==
  [phase : {"Idle", "Exiting", "Restarting", "ShuttingDown"},
   current : Names \cup {NoName},
   pending : Seq(Names), toRestart : Seq(Names), toDrop : SUBSET Names]

Busy == {"Initializing", "Running"}
Statuses == Busy \cup {"Exiting", "Exited", "Panicked"}

Distinct(seq) == \A i, j \in DOMAIN seq : seq[i] = seq[j] => i = j
At(ord, n) == CHOOSE i \in DOMAIN ord : ord[i] = n
Ascending(ord, seq) ==
  \A i, j \in DOMAIN seq : i < j => At(ord, seq[i]) < At(ord, seq[j])

Settled(ord, s) ==
  /\ s \in Points
  /\ s.specs \subseteq ToSet(ord) /\ s.initializing \subseteq s.specs
  /\ \A n \in Names \ s.specs : s.child[n] = "Dead"

\* The cascade waits for, or comes to, whatever was told to stop.
Tracks(s, c) ==
  /\ c.phase = "Idle" => c.current = NoName
  /\ c.phase \in {"Exiting", "ShuttingDown"} =>
       c.current \in Names /\ s.child[c.current] = "ShuttingDown"
  /\ c.phase = "Restarting" =>
       c.current \in Names /\ s.child[c.current] \in {"Starting", "Initializing"}
  /\ \A n \in Names : s.child[n] = "ShuttingDown" =>
       \/ n = c.current
       \/ c.phase \in {"Exiting", "ShuttingDown"} /\ n \in ToSet(c.pending)
  /\ c.phase = "Exiting" /\ Removable = {} => ToSet(c.pending) \subseteq s.specs

\* What the status says of the cascade: of a supervisor that is exiting, nobody
\* is up but those that its cascade has yet to stop, last first.
Phases(ord, s, c, st) ==
  /\ c.phase \in {"Exiting", "Restarting"} => st \in Busy
  /\ c.phase = "ShuttingDown" =>
       /\ st = "Exiting"
       /\ Ascending(ord, c.pending)
       /\ \A n \in s.specs \ ToSet(c.pending) : n = c.current \/ s.child[n] = "Dead"
  /\ c.phase = "Idle" /\ st \notin Busy => \A n \in Names : s.child[n] = "Dead"
  /\ st \in {"Exited", "Panicked"} => c.phase = "Idle"
  /\ Removable = {} => st # "Panicked"

Fits(ord, s, c, st) ==
  /\ st \in Statuses /\ c \in Cascades
  /\ Settled(ord, s) /\ Tracks(s, c) /\ Phases(ord, s, c, st)

RestInv ==
  /\ order \in Seq(Names) /\ Distinct(order)
  /\ exiting = {} /\ permits \in 0..MaxRestarts
  /\ Fits(order, Here, cascade, status)

-----------------------------------------------------------------------------
(* What a handler does, once it has left the supervisees as s.             *)

\* The status only goes on.
Forward(st) ==
  \/ st = status \/ (status = "Initializing" /\ st = "Running")
  \/ st \in {"Exiting", "Exited"}
  \/ st = "Panicked" /\ status \in Busy

\* A supervisor that is exiting starts nobody, and stops the last one first.
Lawful(s, st) ==
  st \notin Busy =>
    /\ \A n \in Names : s.child[n] # "Dead" => child[n] # "Dead"
    /\ \A n, m \in specs :
         (/\ Position(n) < Position(m)
          /\ child[n] # "ShuttingDown" /\ s.child[n] = "ShuttingDown")
           => s.child[m] = "Dead"

Around ==
  /\ order' = order /\ exiting' = exiting
  /\ permits' \in 0..MaxRestarts

\* What every step keeps, and what it is a step of.
Kept ==
  /\ RestInv'
  /\ Forward(status') /\ Lawful(Here', status')

LEMMA EndStep ==
  ASSUME RestInv, Around, NEW s, NEW c, NEW st, EndWith(s, c, st),
         Fits(order, s, c, st), Forward(st), Lawful(s, st)
  PROVE  Kept
<1>1. /\ child' = s.child /\ specs' = s.specs
      /\ initializing' = s.initializing /\ childPermits' = s.childPermits
      /\ cascade' = c /\ status' = st
  BY DEF EndWith
<1>2. s \in Points
  BY DEF Fits, Settled
<1>3. s = [child |-> s.child, specs |-> s.specs, initializing |-> s.initializing,
           childPermits |-> s.childPermits]
  BY <1>2 DEF Points
<1>4. Here' = s
  BY <1>1, <1>3 DEF Here
<1>5. RestInv'
  BY <1>1, <1>4 DEF RestInv, Around
<1>6. Forward(status') /\ Lawful(Here', status')
  BY <1>1, <1>4
<1> QED BY <1>5, <1>6 DEF Kept

\* The supervisees after a handler's first steps: none is new, and some of those
\* that were there are down.
From(s) ==
  /\ Settled(order, s) /\ s.specs \subseteq specs
  /\ \A n \in Names : s.child[n] \in {child[n], "Dead"}

LEMMA StopType ==
  ASSUME NEW s, Settled(order, s), NEW S \in SUBSET Names
  PROVE  /\ Settled(order, [s EXCEPT !.child = Stop(@, S)])
         /\ \A n \in Names : Stop(s.child, S)[n] = IF n \in S THEN StopState(s.child[n])
                                                   ELSE s.child[n]
         /\ \A n \in S : Stop(s.child, S)[n] \in {"Dead", "ShuttingDown"}
         /\ \A n \in S : Owes(s.child[n]) <=> Stop(s.child, S)[n] = "ShuttingDown"
<1>1. s \in Points /\ s.child \in [Names -> ChildStates]
  BY DEF Settled, Points
<1>2. \A n \in Names : /\ StopState(s.child[n]) \in {"Dead", "ShuttingDown"}
                       /\ Owes(s.child[n]) <=> StopState(s.child[n]) = "ShuttingDown"
  BY <1>1, StopStates
<1>3. \A n \in Names : Stop(s.child, S)[n] = IF n \in S THEN StopState(s.child[n])
                                             ELSE s.child[n]
  BY DEF Stop
<1>4. Stop(s.child, S) \in [Names -> ChildStates]
  BY <1>1, <1>2 DEF Stop, ChildStates
<1>5. [s EXCEPT !.child = Stop(@, S)] \in Points
  BY <1>1, <1>4 DEF Points
<1>6. \A n \in Names \ s.specs : Stop(s.child, S)[n] = "Dead"
  BY <1>3 DEF Settled, StopState
<1>7. Settled(order, [s EXCEPT !.child = Stop(@, S)])
  BY <1>1, <1>5, <1>6 DEF Settled, Points
<1> QED BY <1>2, <1>3, <1>7

\* remove_spec leaves no more than there was.
LEMMA WithoutType ==
  ASSUME NEW s, Settled(order, s), NEW S \in SUBSET Names
  PROVE  /\ Settled(order, Without(s, S))
         /\ Without(s, S).specs = s.specs \ S
         /\ Without(s, S).childPermits = s.childPermits
         /\ \A n \in Names : Without(s, S).child[n] = IF n \in S THEN "Dead" ELSE s.child[n]
<1>1. s \in Points /\ s.child \in [Names -> ChildStates]
  BY DEF Settled, Points
<1>2. /\ Without(s, S).specs = s.specs \ S
      /\ Without(s, S).initializing = s.initializing \ S
      /\ Without(s, S).childPermits = s.childPermits
      /\ Without(s, S).child = Drop(s.child, S)
  BY <1>1 DEF Without, Points
<1>3. /\ Drop(s.child, S) \in [Names -> ChildStates]
      /\ \A n \in Names : Drop(s.child, S)[n] = IF n \in S THEN "Dead" ELSE s.child[n]
  BY <1>1 DEF Drop, ChildStates
<1>4. Without(s, S) \in Points
  BY <1>1, <1>3 DEF Without, Points
<1>5. Settled(order, Without(s, S))
  BY <1>2, <1>3, <1>4 DEF Settled
<1> QED BY <1>2, <1>3, <1>5

-----------------------------------------------------------------------------
(* The functions of the cascade.                                           *)

LEMMA IdleType == Idle \in Cascades /\ Idle.phase = "Idle" /\ Idle.current = NoName
  BY DEF Idle, Cascade, Cascades

\* The part of a sequence before or after one of its places.
LEMMA Part ==
  ASSUME NEW T, NEW seq \in Seq(T), NEW i \in DOMAIN seq
  PROVE  /\ SubSeq(seq, 1, i - 1) \in Seq(T)
         /\ DOMAIN SubSeq(seq, 1, i - 1) = 1..(i - 1)
         /\ \A j \in 1..(i - 1) : j \in DOMAIN seq /\ SubSeq(seq, 1, i - 1)[j] = seq[j]
         /\ SubSeq(seq, i + 1, Len(seq)) \in Seq(T)
         /\ i \in Nat /\ DOMAIN seq \subseteq Nat
<1>1. Len(seq) \in Nat /\ DOMAIN seq = 1..Len(seq) /\ i \in 1..Len(seq)
  BY LenProperties
<1>2. /\ SubSeq(seq, 1, i - 1) \in Seq(T)
      /\ Len(SubSeq(seq, 1, i - 1)) = i - 1
      /\ \A j \in 1..(i - 1) : SubSeq(seq, 1, i - 1)[j] = seq[j]
  <2>1. 1 \in 1..(Len(seq) + 1) /\ i - 1 \in (1 - 1)..Len(seq)
    BY <1>1
  <2> QED BY <2>1, <1>1, SubSeqProperties
<1>3. SubSeq(seq, i + 1, Len(seq)) \in Seq(T)
  <2>1. i + 1 \in 1..(Len(seq) + 1) /\ Len(seq) \in ((i + 1) - 1)..Len(seq)
    BY <1>1
  <2> QED BY <2>1, SubSeqProperties
<1>4. DOMAIN SubSeq(seq, 1, i - 1) = 1..(i - 1)
  BY <1>2, LenProperties
<1>5. \A j \in 1..(i - 1) : j \in DOMAIN seq
  BY <1>1
<1> QED BY <1>1, <1>2, <1>3, <1>4, <1>5

\* advance_restart waits for the one that it starts.
LEMMA RestartStep ==
  ASSUME RestInv, Around, NEW s, Settled(order, s), NEW pending \in Seq(Names),
         NEW st \in Busy, Forward(st),
         \A n \in Names : s.child[n] # "ShuttingDown",
         AdvanceRestart(s, pending, st)
  PROVE  Kept
<1> DEFINE dead == {i \in DOMAIN pending : /\ pending[i] \in s.specs
                                           /\ s.child[pending[i]] = "Dead"}
<1>1. CASE dead = {} /\ EndWith(s, Idle, st)
  <2>1. Fits(order, s, Idle, st)
    BY <1>1, IdleType DEF Fits, Tracks, Phases, Statuses, Busy
  <2> QED BY <1>1, <2>1, EndStep DEF Lawful
<1>2. ASSUME NEW next \in dead,
             EndWith([s EXCEPT !.child = Start(@, {pending[next]})],
                     Cascade("Restarting", pending[next],
                             SubSeq(pending, next + 1, Len(pending)), <<>>, {}),
                     st)
      PROVE  Kept
  <2> DEFINE n == pending[next]
             r == [s EXCEPT !.child = Start(@, {n})]
             c == Cascade("Restarting", n, SubSeq(pending, next + 1, Len(pending)), <<>>, {})
  <2>2. next \in DOMAIN pending /\ n \in Names /\ n \in s.specs /\ s.child[n] = "Dead"
    <3>1. next \in DOMAIN pending /\ n \in s.specs /\ s.child[n] = "Dead"
      BY <1>2
    <3> QED BY <3>1, ElementOfSeq, LenProperties
  <2>3. /\ c \in Cascades /\ c.phase = "Restarting" /\ c.current = n
    <3>1. SubSeq(pending, next + 1, Len(pending)) \in Seq(Names)
      BY <2>2, Part
    <3>2. <<>> \in Seq(Names) /\ {} \in SUBSET Names
      OBVIOUS
    <3>3. n \in Names \cup {NoName}
      BY <2>2
    <3> HIDE DEF n
    <3> QED BY <3>1, <3>2, <3>3 DEF Cascade, Cascades
  <2>4. s \in Points /\ s.child \in [Names -> ChildStates]
    BY DEF Settled, Points
  <2>5. /\ r.child \in [Names -> ChildStates]
        /\ \A m \in Names : r.child[m] = IF m = n THEN "Starting" ELSE s.child[m]
        /\ r.specs = s.specs /\ r.initializing = s.initializing
        /\ r.childPermits = s.childPermits
    BY <2>2, <2>4 DEF Start, ChildStates, Points
  <2>6. r \in Points
    BY <2>4, <2>5 DEF Points
  <2>7. Settled(order, r)
    BY <2>2, <2>5, <2>6 DEF Settled
  <2> HIDE DEF r, c
  <2>8. Fits(order, r, c, st)
    BY <2>2, <2>3, <2>5, <2>7 DEF Fits, Tracks, Phases, Statuses, Busy
  <2>9. EndWith(r, c, st)
    BY <1>2 DEF r, c
  <2> QED BY <2>8, <2>9, EndStep DEF Lawful
<1> QED BY <1>1, <1>2 DEF AdvanceRestart

\* Every supervisee has its place in the map.
LEMMA Place ==
  ASSUME RestInv, NEW n \in specs
  PROVE  /\ n \in Names /\ Position(n) = At(order, n)
         /\ Position(n) \in DOMAIN order /\ Position(n) \in Nat /\ order[Position(n)] = n
<1>1. n \in Names /\ n \in ToSet(order)
  BY DEF RestInv, Fits, Settled, Points, Here
<1>2. PICK i \in DOMAIN order : order[i] = n
  BY <1>1 DEF ToSet
<1>3. Position(n) \in DOMAIN order /\ order[Position(n)] = n
  BY <1>2 DEF Position
<1>4. DOMAIN order \subseteq Nat
  BY LenProperties DEF RestInv
<1> QED BY <1>1, <1>3, <1>4 DEF Position, At

\* advance_shutdown waits for the last one that owes an exit; everyone after it
\* is down.
LEMMA ShuttingStep ==
  ASSUME RestInv, Around, NEW s, From(s), NEW pending \in Seq(Names),
         Ascending(order, pending),
         \A n \in s.specs \ ToSet(pending) : s.child[n] = "Dead",
         NEW onBreak \in {"Exiting", "Exited"},
         AdvanceShutdown(s, pending, onBreak)
  PROVE  Kept
<1> DEFINE owing == {i \in DOMAIN pending : /\ pending[i] \in s.specs
                                            /\ Owes(s.child[pending[i]])}
           next == IF owing = {} THEN 1 ELSE CHOOSE i \in owing : \A j \in owing : i >= j
           told == {pending[i] : i \in next..Len(pending)} \cap s.specs
           r == [s EXCEPT !.child = Stop(@, told)]
<1>1. /\ Len(pending) \in Nat /\ DOMAIN pending = 1..Len(pending)
      /\ s.specs \subseteq Names /\ s \in Points /\ s.child \in [Names -> ChildStates]
  BY LenProperties DEF From, Settled, Points
<1>2. told \in SUBSET Names
  BY <1>1
<1>3. \A i \in next..Len(pending) : pending[i] \in s.specs => pending[i] \in told
  OBVIOUS
<1>4. \A n \in told : \E i \in next..Len(pending) : n = pending[i] /\ n \in s.specs
  OBVIOUS
<1>5. CASE owing = {} /\ EndWith(r, Idle, onBreak)
  <2>1. next = 1
    BY <1>5
  <2> HIDE DEF next
  <2>2. /\ Settled(order, r) /\ r.specs = s.specs
        /\ \A n \in Names : r.child[n] = IF n \in told THEN StopState(s.child[n])
                                         ELSE s.child[n]
        /\ \A n \in told : r.child[n] \in {"Dead", "ShuttingDown"}
        /\ \A n \in told : Owes(s.child[n]) <=> r.child[n] = "ShuttingDown"
    <3> HIDE DEF told
    <3>1. r.child = Stop(s.child, told) /\ r.specs = s.specs
      BY <1>1 DEF Points
    <3>2. Settled(order, s)
      BY DEF From
    <3> QED BY <1>2, <3>1, <3>2, StopType
  <2> HIDE DEF told, r
  <2>3. ASSUME NEW n \in Names PROVE r.child[n] = "Dead"
    <3>1. CASE n \notin s.specs
      BY <2>2, <3>1 DEF Settled
    <3>2. CASE n \in s.specs \ ToSet(pending)
      BY <2>2, <3>2 DEF StopState
    <3>3. ASSUME n \in s.specs, NEW i \in DOMAIN pending, n = pending[i]
          PROVE  r.child[n] = "Dead"
      <4>1. n \in told /\ ~Owes(s.child[n])
        BY <1>1, <1>3, <1>5, <2>1, <3>3
      <4> QED BY <2>2, <4>1
    <3> QED BY <3>1, <3>2, <3>3 DEF ToSet
  <2>4. Fits(order, r, Idle, onBreak)
    BY <2>2, <2>3, IdleType DEF Fits, Tracks, Phases, Statuses, Busy
  <2>5. Lawful(r, onBreak) /\ Forward(onBreak)
    <3>1. specs \subseteq Names
      BY Place
    <3> QED BY <2>3, <3>1 DEF Lawful, Forward
  <2> QED BY <1>5, <2>4, <2>5, EndStep
<1>6. CASE /\ owing # {}
           /\ EndWith(r, Cascade("ShuttingDown", pending[next],
                                 SubSeq(pending, 1, next - 1), <<>>, {}), "Exiting")
  <2>1. next \in owing /\ \A j \in owing : next >= j
    <3>1. owing \in SUBSET (1..Len(pending))
      BY <1>1
    <3>2. \E i \in owing : \A j \in owing : i >= j
      <4> HIDE DEF owing
      <4> QED BY <1>1, <1>6, <3>1, Greatest
    <3> HIDE DEF owing
    <3> QED BY <1>6, <3>2
  <2> DEFINE cur == pending[next]
             rest == SubSeq(pending, 1, next - 1)
             c == Cascade("ShuttingDown", cur, rest, <<>>, {})
  <2>2. /\ next \in 1..Len(pending) /\ cur \in Names /\ cur \in s.specs /\ Owes(s.child[cur])
        /\ \A j \in DOMAIN pending : j > next /\ pending[j] \in s.specs => ~Owes(s.child[pending[j]])
    <3>1. next \in DOMAIN pending /\ cur \in s.specs /\ Owes(s.child[cur])
      BY <2>1
    <3>2. ASSUME NEW j \in DOMAIN pending, j > next, pending[j] \in s.specs
          PROVE  ~Owes(s.child[pending[j]])
      <4>1. j \notin owing
        <5> HIDE DEF owing, next
        <5> QED BY <1>1, <2>1, <3>1, <3>2
      <4> QED BY <3>2, <4>1
    <3> HIDE DEF next
    <3> QED BY <1>1, <3>1, <3>2
  <2> HIDE DEF next
  <2>3. /\ Settled(order, r) /\ r.specs = s.specs
        /\ \A n \in Names : r.child[n] = IF n \in told THEN StopState(s.child[n])
                                         ELSE s.child[n]
        /\ \A n \in told : r.child[n] \in {"Dead", "ShuttingDown"}
        /\ \A n \in told : Owes(s.child[n]) <=> r.child[n] = "ShuttingDown"
    <3> HIDE DEF told
    <3>1. r.child = Stop(s.child, told) /\ r.specs = s.specs
      BY <1>1 DEF Points
    <3>2. Settled(order, s)
      BY DEF From
    <3> QED BY <1>2, <3>1, <3>2, StopType
  <2>4. /\ rest \in Seq(Names) /\ DOMAIN rest = 1..(next - 1)
        /\ \A j \in 1..(next - 1) : j \in DOMAIN pending /\ rest[j] = pending[j]
        /\ next \in Nat
    BY <1>1, <2>2, Part
  <2>5. c \in Cascades /\ c.phase = "ShuttingDown" /\ c.current = cur /\ c.pending = rest
    <3> HIDE DEF cur, rest
    <3> QED BY <2>2, <2>4 DEF Cascade, Cascades
  <2>6. r.child[cur] = "ShuttingDown"
    BY <1>1, <1>3, <2>2, <2>3
  <2> HIDE DEF told, r, c, cur, rest
  <2>7. ASSUME NEW n \in told, n # cur PROVE r.child[n] = "Dead"
    <3>1. PICK i \in next..Len(pending) : n = pending[i] /\ n \in s.specs
      BY <1>4
    <3>2. i \in DOMAIN pending /\ i > next
      BY <1>1, <2>2, <2>7, <3>1 DEF cur
    <3>3. ~Owes(s.child[n])
      BY <2>2, <3>1, <3>2
    <3> QED BY <2>3, <3>3
  <2>8. ASSUME NEW n \in s.specs, r.child[n] # "Dead", n # cur
        PROVE  \E i \in 1..(next - 1) : n = pending[i]
    <3>1. n \notin told /\ s.child[n] # "Dead"
      BY <1>1, <2>3, <2>7, <2>8
    <3>2. PICK i \in DOMAIN pending : n = pending[i]
      BY <3>1 DEF ToSet
    <3>3. i < next
      BY <1>1, <1>3, <2>2, <3>1, <3>2
    <3> QED BY <1>1, <2>2, <3>2, <3>3
  <2>9. \A n \in s.specs : r.child[n] # "Dead" /\ n # cur => n \in ToSet(rest)
    BY <2>4, <2>8 DEF ToSet
  <2>10. Ascending(order, rest)
    BY <1>1, <2>2, <2>4 DEF Ascending
  <2>11. Fits(order, r, c, "Exiting")
    <3>1. Tracks(r, c)
      <4>1. \A n \in Names : r.child[n] = "ShuttingDown" => n \in s.specs
        BY <2>3 DEF Settled
      <4> QED BY <2>2, <2>5, <2>6, <2>9, <4>1 DEF Tracks
    <3>2. Phases(order, r, c, "Exiting")
      BY <2>3, <2>5, <2>9, <2>10 DEF Phases, Busy
    <3> QED BY <2>3, <2>5, <3>1, <3>2 DEF Fits, Statuses
  <2>12. \A n \in Names : r.child[n] # "Dead" => child[n] # "Dead"
    BY <2>3 DEF StopState, From
  <2>13. ASSUME NEW n \in specs, NEW m \in specs, Position(n) < Position(m),
                child[n] # "ShuttingDown", r.child[n] = "ShuttingDown"
         PROVE  r.child[m] = "Dead"
    <3>1. n \in Names /\ m \in Names /\ Position(n) \in Nat /\ Position(m) \in Nat
      BY Place
    <3>2. n = cur
      <4>1. n \in told
        BY <2>3, <2>13, <3>1 DEF From
      <4> QED BY <2>7, <2>13, <4>1
    <3>3. SUFFICES ASSUME r.child[m] # "Dead" PROVE FALSE
      OBVIOUS
    <3>4. m \in s.specs /\ m # cur
      BY <2>3, <2>13, <3>1, <3>2, <3>3 DEF Settled
    <3>5. PICK i \in 1..(next - 1) : m = pending[i]
      BY <2>8, <3>3, <3>4
    <3>6. At(order, m) < At(order, n)
      <4>1. i \in DOMAIN pending /\ next \in DOMAIN pending /\ i < next
        BY <1>1, <2>2, <2>4, <3>5
      <4> QED BY <3>2, <3>5, <4>1 DEF Ascending, cur
    <3> QED BY <2>13, <3>1, <3>6, Place
  <2>14. Lawful(r, "Exiting") /\ Forward("Exiting")
    BY <2>12, <2>13 DEF Lawful, Forward
  <2>15. EndWith(r, c, "Exiting")
    BY <1>6 DEF r, c, cur, rest, told
  <2> QED BY <2>11, <2>14, <2>15, EndStep
<1> QED BY <1>5, <1>6 DEF AdvanceShutdown

LEMMA OrderType ==
  ASSUME RestInv, NEW S \in SUBSET ToSet(order)
  PROVE  /\ InOrder(S) \in Seq(Names) /\ ToSet(InOrder(S)) = S
         /\ Ascending(order, InOrder(S))
<1> DEFINE seq == InOrder(S)
<1>1. /\ order \in Seq(Names) /\ Distinct(order)
      /\ Len(order) \in Nat /\ DOMAIN order = 1..Len(order)
  BY LenProperties DEF RestInv
<1>2. seq \in Seq(Names) /\ Selected(seq, order, S, Len(order))
  BY <1>1, OnlySelects DEF InOrder
<1> HIDE DEF seq
<1>3. \A n \in S : n \in ToSet(seq)
  <2> TAKE n \in S
  <2>1. PICK a \in DOMAIN order : order[a] = n
    BY DEF ToSet
  <2>2. \E i \in DOMAIN seq : seq[i] = order[a]
    BY <1>1, <1>2, <2>1 DEF Selected
  <2> QED BY <2>1, <2>2 DEF ToSet
<1>4. \A n \in ToSet(seq) : n \in S
  BY <1>2 DEF Selected, ToSet
<1>5. \A a \in DOMAIN order : At(order, order[a]) = a
  BY <1>1 DEF At, Distinct
<1>6. Ascending(order, seq)
  <2> SUFFICES ASSUME NEW i \in DOMAIN seq, NEW j \in DOMAIN seq, i < j
               PROVE  At(order, seq[i]) < At(order, seq[j])
    BY DEF Ascending
  <2>1. PICK a \in 1..Len(order), b \in 1..Len(order) :
          a < b /\ seq[i] = order[a] /\ seq[j] = order[b]
    BY <1>2 DEF Selected
  <2> QED BY <1>1, <1>5, <2>1
<1> QED BY <1>2, <1>3, <1>4, <1>6 DEF seq

LEMMA ShutdownStep ==
  ASSUME RestInv, Around, NEW s, From(s),
         cascade.phase = "ShuttingDown" => s.child[cascade.current] = "ShuttingDown",
         NEW onBreak \in {"Exiting", "Exited"},
         Shutdown(s, onBreak)
  PROVE  Kept
<1>1. CASE cascade.phase = "ShuttingDown" /\ EndWith(s, cascade, "Exiting")
  <2>1. /\ cascade \in Cascades /\ Tracks(Here, cascade)
        /\ Phases(order, Here, cascade, status)
        /\ Here.child = child /\ Here.specs = specs
    BY DEF RestInv, Fits, Here
  <2>2. Tracks(s, cascade)
    BY <1>1, <2>1 DEF Tracks, From
  <2>3. Phases(order, s, cascade, "Exiting")
    <3>1. \A n \in s.specs : n \in specs /\ n \in Names
      BY DEF From, Settled, Points
    <3> QED BY <1>1, <2>1, <3>1 DEF Phases, From, Busy
  <2>4. Lawful(s, "Exiting") /\ Forward("Exiting")
    <3>1. \A n \in specs : n \in Names
      BY Place
    <3> QED BY <3>1 DEF Lawful, Forward, From
  <2>5. Fits(order, s, cascade, "Exiting")
    BY <2>1, <2>2, <2>3 DEF Fits, From, Statuses
  <2> QED BY <1>1, <2>4, <2>5, EndStep
<1>2. CASE AdvanceShutdown(s, InOrder(s.specs), onBreak)
  <2>1. s.specs \in SUBSET ToSet(order)
    BY DEF From, Settled
  <2> QED BY <1>2, <2>1, OrderType, ShuttingStep
<1> QED BY <1>1, <1>2 DEF Shutdown

LEMMA OnlyType ==
  ASSUME NEW seq \in Seq(Names), NEW S
  PROVE  Only(seq, S) \in Seq(Names) /\ ToSet(Only(seq, S)) = ToSet(seq) \cap S
<1>1. /\ Only(seq, S) \in Seq(Names) /\ Selected(Only(seq, S), seq, S, Len(seq))
      /\ DOMAIN seq = 1..Len(seq)
  BY OnlySelects, LenProperties
<1>2. ASSUME NEW n \in ToSet(Only(seq, S)) PROVE n \in ToSet(seq) \cap S
  <2>1. PICK i \in DOMAIN Only(seq, S) : n = Only(seq, S)[i]
    BY DEF ToSet
  <2>2. PICK a \in DOMAIN seq : n = seq[a]
    BY <1>1, <2>1 DEF Selected
  <2> QED BY <1>1, <2>1, <2>2 DEF Selected, ToSet
<1>3. ASSUME NEW n \in ToSet(seq), n \in S PROVE n \in ToSet(Only(seq, S))
  <2>1. PICK a \in DOMAIN seq : n = seq[a]
    BY DEF ToSet
  <2>2. \E i \in DOMAIN Only(seq, S) : Only(seq, S)[i] = n
    BY <1>1, <1>3, <2>1 DEF Selected
  <2> QED BY <2>2 DEF ToSet
<1> QED BY <1>1, <1>2, <1>3

\* What AdvanceStop tells to stop.
LEMMA TailType ==
  ASSUME NEW pending \in Seq(Names), NEW from \in 1..(Len(pending) + 1), NEW S
  PROVE  LET told == Only(SubSeq(pending, from, Len(pending)), S)
         IN  /\ told \in Seq(Names)
             /\ \A n \in ToSet(told) : n \in S /\ \E i \in from..Len(pending) : n = pending[i]
             /\ \A i \in from..Len(pending) : pending[i] \in S => pending[i] \in ToSet(told)
<1> DEFINE tail == SubSeq(pending, from, Len(pending))
<1>1. Len(pending) \in Nat /\ Len(pending) \in (from - 1)..Len(pending)
  BY LenProperties
<1>2. /\ tail \in Seq(Names) /\ Len(tail) = Len(pending) - from + 1
      /\ \A i \in 1..(Len(pending) - from + 1) : tail[i] = pending[from + i - 1]
  BY <1>1, SubSeqProperties
<1> HIDE DEF tail
<1>3. DOMAIN tail = 1..(Len(pending) - from + 1)
  BY <1>2, LenProperties
<1>4. \A n \in ToSet(tail) : \E i \in from..Len(pending) : n = pending[i]
  <2> TAKE n \in ToSet(tail)
  <2>1. PICK j \in 1..(Len(pending) - from + 1) : n = pending[from + j - 1]
    BY <1>2, <1>3 DEF ToSet
  <2>2. from + j - 1 \in from..Len(pending)
    BY <1>1
  <2> QED BY <2>1, <2>2
<1>5. \A i \in from..Len(pending) : pending[i] \in ToSet(tail)
  <2> TAKE i \in from..Len(pending)
  <2>1. i - from + 1 \in 1..(Len(pending) - from + 1) /\ from + (i - from + 1) - 1 = i
    BY <1>1
  <2>2. tail[i - from + 1] = pending[i]
    BY <1>2, <2>1
  <2> QED BY <1>3, <2>1, <2>2 DEF ToSet
<1>6. Only(tail, S) \in Seq(Names) /\ ToSet(Only(tail, S)) = ToSet(tail) \cap S
  BY <1>2, OnlyType
<1> QED BY <1>4, <1>5, <1>6 DEF tail

LEMMA ReverseType ==
  ASSUME NEW seq \in Seq(Names)
  PROVE  Reverse(seq) \in Seq(Names)
  BY DEF Reverse

\* advance_stop: those from the one that it waits for on are told to stop, and
\* nobody that is waited for is forgotten.
LEMMA StoppingStep ==
  ASSUME RestInv, Around, NEW s, From(s), status \in Busy,
         cascade.phase # "ShuttingDown",
         NEW pending \in Seq(Names), NEW toRestart \in Seq(Names), NEW toDrop \in SUBSET Names,
         \A n \in Names : s.child[n] = "ShuttingDown" => n \in ToSet(pending),
         Removable = {} => ToSet(pending) \subseteq s.specs,
         NEW onBreak \in {"Exiting", "Exited"},
         AdvanceStop(s, pending, toRestart, toDrop, onBreak)
  PROVE  Kept
<1> DEFINE refused(n) == Mode[n] # "Never" /\ ~ChildAllows(s.childPermits, n)
           halting == {i \in DOMAIN pending :
                         /\ pending[i] \in s.specs
                         /\ refused(pending[i]) \/ Owes(s.child[pending[i]])}
           next == IF halting = {} THEN 0 ELSE CHOOSE i \in halting : \A j \in halting : i >= j
           refusal == next # 0 /\ refused(pending[next])
           from == IF next = 0 \/ refusal THEN next + 1 ELSE next
<1>1. /\ Len(pending) \in Nat /\ DOMAIN pending = 1..Len(pending)
      /\ Settled(order, s) /\ s \in Points /\ s.specs \subseteq Names
      /\ s.child \in [Names -> ChildStates]
      /\ s.childPermits \in [Names -> 0..MaxChildRestarts]
  <2>1. Settled(order, s) /\ s \in Points
    BY DEF From, Settled
  <2>2. /\ s.specs \subseteq Names /\ s.child \in [Names -> ChildStates]
        /\ s.childPermits \in [Names -> 0..MaxChildRestarts]
    BY <2>1, Zenon DEF Points
  <2> QED BY <2>1, <2>2, LenProperties
<1>2. /\ next \in 0..Len(pending)
      /\ next # 0 => next \in halting
      /\ \A i \in halting : i <= next
  <2>1. CASE halting = {}
    <3>1. next = 0 /\ \A i \in halting : FALSE
      BY <2>1
    <3> HIDE DEF next, halting
    <3> QED BY <1>1, <3>1
  <2>2. CASE halting # {}
    <3>1. halting \in SUBSET (1..Len(pending))
      BY <1>1
    <3>2. \E i \in halting : \A j \in halting : i >= j
      <4> HIDE DEF halting
      <4> QED BY <1>1, <2>2, <3>1, Greatest
    <3>3. next \in halting /\ \A j \in halting : next >= j
      <4> HIDE DEF halting
      <4> QED BY <2>2, <3>2
    <3> HIDE DEF next, halting
    <3> QED BY <1>1, <3>1, <3>3
  <2> QED BY <2>1, <2>2
<1>3. next # 0 => /\ next \in 1..Len(pending) /\ pending[next] \in s.specs
                  /\ refusal \/ Owes(s.child[pending[next]])
  <2> HIDE DEF next
  <2> QED BY <1>1, <1>2
<1>4. ASSUME NEW i \in 1..Len(pending), i > next, pending[i] \in s.specs
      PROVE  ~refused(pending[i]) /\ ~Owes(s.child[pending[i]])
  <2>1. i \notin halting
    <3> HIDE DEF halting, next
    <3> QED BY <1>2, <1>4
  <2> HIDE DEF next
  <2> QED BY <1>1, <1>4, <2>1
<1>5. /\ from \in 1..(Len(pending) + 1) /\ from \in {next, next + 1}
      /\ from = next <=> next # 0 /\ ~refusal
  <2>1. next \in 0..Len(pending) /\ (next # 0 => next \in 1..Len(pending))
    BY <1>2, <1>3
  <2>2. Len(pending) \in Nat
    BY <1>1
  <2> HIDE DEF next, refusal
  <2> QED BY <2>1, <2>2
<1> DEFINE all == Only(SubSeq(pending, from, Len(pending)), s.specs)
           Again(told) == Only(told, {n \in Names : Mode[n] # "Never"})
           Restart(told) == toRestart \o Reverse(Again(told))
           Dropped(told) == toDrop \cup (ToSet(told) \ ToSet(Again(told)))
           Stopped1(told) == [s EXCEPT !.child = Stop(@, ToSet(told)),
                                       !.childPermits = Charge(@, ToSet(Again(told)))]
<1>6. PICK told : /\ told = all
                  /\ \/ /\ next = 0
                        /\ AdvanceRestart(Without(Stopped1(told), Dropped(told)),
                                          Reverse(Restart(told)), status)
                     \/ refusal /\ Shutdown(Stopped1(told), onBreak)
                     \/ /\ next # 0 /\ ~refusal
                        /\ EndWith(Stopped1(told),
                                   Cascade("Exiting", pending[next], SubSeq(pending, 1, next - 1),
                                           Restart(told), Dropped(told)),
                                   status)
  BY Zenon DEF AdvanceStop

<1> DEFINE again == Again(told)
           restart == Restart(told)
           drop == Dropped(told)
           stopped == Stopped1(told)
<1> HIDE DEF next, refusal, from
<1>7. /\ told \in Seq(Names)
      /\ \A n \in ToSet(told) : n \in s.specs /\ \E i \in from..Len(pending) : n = pending[i]
      /\ \A i \in from..Len(pending) : pending[i] \in s.specs => pending[i] \in ToSet(told)
  BY <1>5, <1>6, TailType
<1>8. /\ again \in Seq(Names)
      /\ ToSet(again) = ToSet(told) \cap {n \in Names : Mode[n] # "Never"}
  BY <1>7, OnlyType
<1>9. ToSet(told) \in SUBSET Names /\ ToSet(again) \in SUBSET Names
  BY <1>1, <1>7, <1>8
<1>10. restart \in Seq(Names) /\ Reverse(restart) \in Seq(Names) /\ drop \in SUBSET Names
  <2>1. Reverse(again) \in Seq(Names)
    BY <1>8, ReverseType
  <2>2. restart \in Seq(Names)
    <3> HIDE DEF again
    <3>1. toRestart \o Reverse(again) \in Seq(Names)
      BY <2>1, ConcatProperties
    <3> QED BY <3>1 DEF again
  <2>3. Reverse(restart) \in Seq(Names)
    <3> HIDE DEF restart
    <3> QED BY <2>2, ReverseType
  <2> QED BY <1>9, <2>2, <2>3
<1> HIDE DEF restart, drop
<1>11. ASSUME NEW n \in ToSet(told)
       PROVE  /\ n \in ToSet(again) => ChildAllows(s.childPermits, n)
              /\ Owes(s.child[n]) => from = next /\ n = pending[next]
  <2>1. PICK i \in from..Len(pending) : n = pending[i]
    BY <1>7
  <2>2. n \in s.specs
    BY <1>7
  <2>3. CASE i > next
    <3>1. i \in 1..Len(pending)
      BY <1>1, <1>5
    <3>2. ~refused(n) /\ ~Owes(s.child[n])
      BY <1>4, <2>1, <2>2, <2>3, <3>1
    <3> QED BY <1>8, <3>2
  <2>4. CASE ~(i > next)
    <3>1. i = next /\ from = next
      BY <1>1, <1>2, <1>5, <2>1, <2>4
    <3>2. ~refused(pending[next])
      BY <1>5, <3>1 DEF refusal
    <3> QED BY <1>8, <2>1, <3>1, <3>2
  <2> QED BY <2>3, <2>4
<1>12. /\ Settled(order, stopped) /\ stopped.specs = s.specs
       /\ \A n \in Names : stopped.child[n] = IF n \in ToSet(told) THEN StopState(s.child[n])
                                              ELSE s.child[n]
       /\ \A n \in ToSet(told) : stopped.child[n] \in {"Dead", "ShuttingDown"}
       /\ \A n \in ToSet(told) : Owes(s.child[n]) <=> stopped.child[n] = "ShuttingDown"
  <2> DEFINE r == [s EXCEPT !.child = Stop(@, ToSet(told))]
             cp == Charge(s.childPermits, ToSet(again))
  <2>1. cp \in [Names -> 0..MaxChildRestarts]
    <3>1. \A n \in ToSet(again) : ChildAllows(s.childPermits, n)
      BY <1>8, <1>11
    <3> HIDE DEF again
    <3> QED BY <1>1, <1>9, <3>1, ChargeType
  <2>2. /\ Settled(order, r)
        /\ \A n \in Names : Stop(s.child, ToSet(told))[n] = IF n \in ToSet(told) THEN StopState(s.child[n])
                                              ELSE s.child[n]
        /\ \A n \in ToSet(told) : Stop(s.child, ToSet(told))[n] \in {"Dead", "ShuttingDown"}
        /\ \A n \in ToSet(told) : Owes(s.child[n]) <=> Stop(s.child, ToSet(told))[n] = "ShuttingDown"
    <3> DEFINE S == ToSet(told)
    <3>1. S \in SUBSET Names
      BY <1>9
    <3> HIDE DEF S
    <3>2. /\ Settled(order, [s EXCEPT !.child = Stop(@, S)])
          /\ \A n \in Names : Stop(s.child, S)[n] = IF n \in S THEN StopState(s.child[n])
                                                    ELSE s.child[n]
          /\ \A n \in S : Stop(s.child, S)[n] \in {"Dead", "ShuttingDown"}
          /\ \A n \in S : Owes(s.child[n]) <=> Stop(s.child, S)[n] = "ShuttingDown"
      BY <1>1, <3>1, StopType
    <3> QED BY <3>2 DEF S
  <2> HIDE DEF again, cp
  <2>3. /\ stopped = [s EXCEPT !.child = Stop(@, ToSet(told)), !.childPermits = cp]
        /\ stopped.child = Stop(s.child, ToSet(told))
        /\ stopped.child = r.child /\ stopped.specs = r.specs /\ stopped.specs = s.specs
        /\ stopped.initializing = r.initializing
        /\ stopped.childPermits = cp
    BY <1>1 DEF Points, again, cp
  <2>4. stopped \in Points
    <3>1. r.child \in [Names -> ChildStates]
      BY <2>2 DEF Settled, Points
    <3>2. Stop(s.child, ToSet(told)) \in [Names -> ChildStates]
      BY <2>3, <3>1
    <3> HIDE DEF stopped
    <3> QED BY <1>1, <2>1, <2>3, <3>2 DEF Points
  <2> HIDE DEF stopped
  <2>5. Settled(order, stopped)
    BY <2>2, <2>3, <2>4 DEF Settled
  <2> QED BY <2>2, <2>3, <2>5
<1> HIDE DEF stopped, again
<1>13. CASE next = 0 /\ AdvanceRestart(Without(stopped, drop), Reverse(restart), status)
  <2>1. /\ Settled(order, Without(stopped, drop))
        /\ \A n \in Names : Without(stopped, drop).child[n] = IF n \in drop THEN "Dead"
                                                              ELSE stopped.child[n]
    BY <1>10, <1>12, WithoutType
  <2>2. ASSUME NEW n \in Names PROVE stopped.child[n] # "ShuttingDown"
    <3>1. CASE n \in ToSet(told)
      BY <1>5, <1>11, <1>12, <1>13, <3>1
    <3>2. CASE n \notin ToSet(told) /\ s.child[n] = "ShuttingDown"
      <4>1. n \in s.specs
        BY <1>1, <3>2 DEF Settled
      <4>2. PICK i \in 1..Len(pending) : n = pending[i]
        BY <1>1, <3>2 DEF ToSet
      <4>3. from = 1
        BY <1>1, <1>5, <1>13
      <4> QED BY <1>7, <3>2, <4>1, <4>2, <4>3
    <3> QED BY <1>12, <3>1, <3>2
  <2>3. \A n \in Names : Without(stopped, drop).child[n] # "ShuttingDown"
    BY <2>1, <2>2
  <2> QED BY <1>10, <1>13, <2>1, <2>3, RestartStep DEF Forward
<1>14. CASE refusal /\ Shutdown(stopped, onBreak)
  <2>1. \A n \in ToSet(told) : stopped.child[n] = "Dead"
    BY <1>5, <1>11, <1>12, <1>14 DEF refusal
  <2>2. From(stopped)
    BY <1>12, <2>1 DEF From
  <2> QED BY <1>14, <2>2, ShutdownStep
<1>15. CASE /\ next # 0 /\ ~refusal
            /\ EndWith(stopped,
                       Cascade("Exiting", pending[next], SubSeq(pending, 1, next - 1),
                               restart, drop),
                       status)
  <2> DEFINE cur == pending[next]
             rest == SubSeq(pending, 1, next - 1)
             c == Cascade("Exiting", cur, rest, restart, drop)
  <2>1. /\ next \in 1..Len(pending) /\ from = next
        /\ cur \in s.specs /\ cur \in Names /\ Owes(s.child[cur])
    BY <1>1, <1>3, <1>5, <1>15
  <2>2. /\ rest \in Seq(Names) /\ DOMAIN rest = 1..(next - 1)
        /\ \A j \in 1..(next - 1) : j \in DOMAIN pending /\ rest[j] = pending[j]
    BY <1>1, <2>1, Part
  <2>3. /\ c \in Cascades /\ c.phase = "Exiting" /\ c.current = cur /\ c.pending = rest
    <3> HIDE DEF cur, rest
    <3> QED BY <1>10, <2>1, <2>2 DEF Cascade, Cascades
  <2>4. stopped.child[cur] = "ShuttingDown"
    <3>1. next \in from..Len(pending)
      BY <1>1, <2>1
    <3> QED BY <1>7, <1>12, <2>1, <3>1
  <2> HIDE DEF c, rest
  <2>5. ASSUME NEW n \in Names, stopped.child[n] = "ShuttingDown", n # cur
        PROVE  n \in ToSet(rest)
    <3>1. n \notin ToSet(told) /\ s.child[n] = "ShuttingDown"
      BY <1>11, <1>12, <2>5
    <3>2. PICK i \in 1..Len(pending) : n = pending[i]
      BY <1>1, <3>1 DEF ToSet
    <3>3. n \in s.specs
      BY <1>1, <3>1 DEF Settled
    <3>4. i < next
      BY <1>1, <1>7, <2>1, <3>1, <3>2, <3>3
    <3>5. i \in 1..(next - 1)
      BY <1>1, <2>1, <3>4
    <3> QED BY <2>2, <3>2, <3>5 DEF ToSet
  <2>6. Removable = {} => ToSet(rest) \subseteq stopped.specs
    <3>1. ToSet(rest) \subseteq ToSet(pending)
      BY <2>2 DEF ToSet
    <3> QED BY <1>12, <3>1
  <2>7. Fits(order, stopped, c, status)
    <3>1. Tracks(stopped, c)
      BY <2>1, <2>3, <2>4, <2>5, <2>6 DEF Tracks
    <3>2. Phases(order, stopped, c, status)
      BY <2>3 DEF Phases, Busy
    <3> QED BY <1>12, <2>3, <3>1, <3>2 DEF Fits, Statuses
  <2>8. EndWith(stopped, c, status)
    BY <1>15 DEF c, rest
  <2> QED BY <2>7, <2>8, EndStep DEF Lawful, Forward
<1> QED BY <1>6, <1>13, <1>14, <1>15 DEF stopped, restart, drop

LEMMA Quiet ==
  ASSUME RestInv, NEW s, From(s), NEW st
  PROVE  Lawful(s, st)
<1>1. \A n \in specs : n \in Names
  BY Place
<1> QED BY <1>1 DEF Lawful, From

LEMMA CascadeStep ==
  ASSUME RestInv, Around, NEW s, From(s), s.child[cascade.current] = "Dead",
         cascade.phase = "Exiting" /\ Removable = {} => ToSet(cascade.pending) \subseteq s.specs,
         NEW onBreak \in {"Exiting", "Exited"},
         AdvanceCascade(s, onBreak)
  PROVE  Kept
<1>1. /\ cascade \in Cascades /\ cascade.pending \in Seq(Names)
      /\ cascade.toRestart \in Seq(Names) /\ cascade.toDrop \in SUBSET Names
      /\ Tracks(Here, cascade) /\ Phases(order, Here, cascade, status)
      /\ Here.child = child /\ Here.specs = specs
  BY DEF RestInv, Fits, Here, Cascades
<1>2. ASSUME NEW n \in Names, s.child[n] = "ShuttingDown"
      PROVE  cascade.phase \in {"Exiting", "ShuttingDown"} /\ n \in ToSet(cascade.pending)
  BY <1>1, <1>2 DEF Tracks, From
<1>3. /\ Settled(order, s) /\ s.specs \subseteq specs /\ s.specs \subseteq Names
  BY DEF From, Settled, Points
<1>4. CASE /\ cascade.phase = "Exiting"
           /\ AdvanceStop(s, cascade.pending, cascade.toRestart, cascade.toDrop, onBreak)
  BY <1>1, <1>2, <1>4, StoppingStep DEF Phases
<1>5. CASE cascade.phase = "Restarting" /\ AdvanceRestart(s, cascade.pending, status)
  BY <1>1, <1>2, <1>3, <1>5, RestartStep DEF Phases, Forward
<1>6. CASE cascade.phase = "ShuttingDown" /\ AdvanceShutdown(s, cascade.pending, onBreak)
  <2>1. \A n \in s.specs \ ToSet(cascade.pending) : s.child[n] = "Dead"
    BY <1>1, <1>3, <1>6 DEF Phases, From
  <2> QED BY <1>1, <1>6, <2>1, ShuttingStep DEF Phases
<1> QED BY <1>4, <1>5, <1>6 DEF AdvanceCascade

-----------------------------------------------------------------------------
(* The handlers.                                                           *)

\* What a handler that is about the supervisee n alone begins with.
About(s, n) ==
  /\ From(s) /\ s.specs = specs /\ n \in specs
  /\ \A m \in Names \ {n} : s.child[m] = child[m]

LEMMA RemoveStep ==
  ASSUME RestInv, Around, NEW s, NEW n, About(s, n), RemoveSpec(s, n),
         cascade.phase = "Exiting" /\ Removable = {} =>
           n # cascade.current /\ n \notin ToSet(cascade.pending)
  PROVE  Kept
<1> DEFINE w == Without(s, {n})
<1>1. n \in Names /\ n \in specs /\ specs \subseteq Names
  BY Place DEF About
<1>2. /\ Settled(order, w) /\ w.specs = s.specs \ {n} /\ s.specs = specs
      /\ \A m \in Names : w.child[m] = IF m = n THEN "Dead" ELSE s.child[m]
  BY <1>1, WithoutType DEF About, From
<1>3. From(w)
  BY <1>2 DEF About, From
<1>4. /\ cascade \in Cascades /\ status \in Statuses
      /\ Tracks(Here, cascade) /\ Phases(order, Here, cascade, status)
      /\ Here.child = child /\ Here.specs = specs
  BY DEF RestInv, Fits, Here
<1> HIDE DEF w
<1>5. cascade.phase = "Exiting" /\ Removable = {} => ToSet(cascade.pending) \subseteq w.specs
  BY <1>2, <1>4 DEF Tracks
<1>6. CASE cascade.current = n /\ AdvanceCascade(w, "Exiting")
  BY <1>1, <1>2, <1>3, <1>5, <1>6, CascadeStep
<1>7. CASE cascade.current # n /\ EndWith(w, cascade, status)
  <2>1. \A m \in Names \ {n} : w.child[m] = child[m]
    BY <1>2 DEF About
  <2>2. Tracks(w, cascade)
    <3>1. cascade.current \in Names => w.child[cascade.current] = child[cascade.current]
      BY <1>7, <2>1
    <3>2. \A m \in Names : w.child[m] = "ShuttingDown" => child[m] = "ShuttingDown"
      BY <1>2, <2>1
    <3> QED BY <1>4, <1>5, <3>1, <3>2 DEF Tracks
  <2>3. Phases(order, w, cascade, status)
    <3>1. \A m \in Names : child[m] = "Dead" => w.child[m] = "Dead"
      BY <1>2, <2>1
    <3> QED BY <1>1, <1>2, <1>4, <3>1 DEF Phases
  <2>4. Fits(order, w, cascade, status)
    BY <1>2, <1>4, <2>2, <2>3 DEF Fits
  <2> QED BY <1>3, <1>7, <2>4, EndStep, Quiet DEF Forward
<1> QED BY <1>6, <1>7 DEF RemoveSpec, w

LEMMA PanicStep ==
  ASSUME RestInv, Around, NEW s, From(s), Removable # {}, status \in Busy, Panic(s)
  PROVE  Kept
<1> DEFINE r == [s EXCEPT !.child = Drop(@, s.specs)]
<1>1. /\ s \in Points /\ s.child \in [Names -> ChildStates] /\ s.specs \subseteq Names
      /\ Settled(order, s)
  BY DEF From, Settled, Points
<1>2. /\ Drop(s.child, s.specs) \in [Names -> ChildStates]
      /\ \A n \in Names : Drop(s.child, s.specs)[n] = "Dead"
  BY <1>1 DEF Drop, ChildStates, Settled
<1>3. /\ r \in Points /\ r.child = Drop(s.child, s.specs) /\ r.specs = s.specs
      /\ r.initializing = s.initializing
  BY <1>1, <1>2 DEF Points
<1> HIDE DEF r
<1>4. Settled(order, r)
  BY <1>1, <1>2, <1>3 DEF Settled
<1>5. Fits(order, r, Idle, "Panicked")
  BY <1>2, <1>3, <1>4, IdleType DEF Fits, Tracks, Phases, Statuses, Busy
<1>6. Lawful(r, "Panicked") /\ Forward("Panicked")
  <2>1. \A n \in specs : n \in Names
    BY Place
  <2> QED BY <1>2, <1>3, <2>1 DEF Lawful, Forward
<1>7. EndWith(r, Idle, "Panicked")
  BY DEF Panic, r
<1> QED BY <1>5, <1>6, <1>7, EndStep

\* merge_into_stopping: the cascade comes to those between the trigger and the
\* one that it waits for, and to those it came to before.
LEMMA MergeStep ==
  ASSUME RestInv, Around, NEW s, NEW n, About(s, n), s.child[n] = "Dead",
         cascade.phase = "Exiting", cascade.current # n,
         MergeIntoStopping(s, n)
  PROVE  Kept
<1> DEFINE all == InOrder(s.specs)
           at(m) == CHOOSE i \in DOMAIN all : all[i] = m
           i == at(n)
           j == at(cascade.current)
           settled == ToSet(cascade.toRestart) \cup cascade.toDrop
           mid == IF i < j THEN Between(all, i, j) ELSE Between(all, j, i)
           between == Only(mid, Names \ settled)
           queued == between \o cascade.pending
           next == IF Len(queued) < 2 THEN queued ELSE Only(all, ToSet(queued))
           c == [cascade EXCEPT !.pending = next, !.toRestart = Append(@, n)]
<1>1. /\ cascade \in Cascades /\ cascade.pending \in Seq(Names)
      /\ cascade.toRestart \in Seq(Names) /\ status \in Statuses
      /\ Tracks(Here, cascade) /\ Phases(order, Here, cascade, status)
      /\ Here.child = child /\ Here.specs = specs /\ Settled(order, Here)
  BY DEF RestInv, Fits, Here, Cascades
<1>2. /\ n \in Names /\ n \in specs /\ specs \subseteq Names /\ s.specs = specs
      /\ From(s) /\ Settled(order, s) /\ \A m \in Names \ {n} : s.child[m] = child[m]
  BY Place DEF About, From
<1>3. /\ cascade.current \in Names /\ child[cascade.current] = "ShuttingDown"
      /\ cascade.current \in specs
  BY <1>1 DEF Tracks, Settled
<1>4. /\ all \in Seq(Names) /\ ToSet(all) = specs
      /\ Len(all) \in Nat /\ DOMAIN all = 1..Len(all)
  <2>1. s.specs \in SUBSET ToSet(order)
    BY <1>2 DEF Settled
  <2> QED BY <1>2, <2>1, OrderType, LenProperties
<1> HIDE DEF all
<1>5. i \in 1..Len(all) /\ j \in 1..Len(all)
  <2>1. ASSUME NEW m \in specs PROVE at(m) \in DOMAIN all
    <3>1. \E k \in DOMAIN all : all[k] = m
      BY <1>4 DEF ToSet
    <3> QED BY <3>1
  <2> QED BY <1>2, <1>3, <1>4, <2>1
<1> HIDE DEF i, j
<1>6. mid \in Seq(Names) /\ ToSet(mid) \subseteq specs
  <2>1. ASSUME NEW a \in 1..Len(all), NEW b \in 1..Len(all)
        PROVE  Between(all, a, b) \in Seq(Names) /\ ToSet(Between(all, a, b)) \subseteq specs
    <3>1. a + 1 \in Int /\ b - 1 \in Int /\ \A k \in (a + 1)..(b - 1) : k \in 1..Len(all)
      BY <1>4
    <3>2. \A k \in 1..Len(all) : all[k] \in specs
      BY <1>4 DEF ToSet
    <3>3. Between(all, a, b) \in Seq(specs)
      BY <3>1, <3>2, SubSeqProperties DEF Between
    <3>4. \A k \in DOMAIN Between(all, a, b) : Between(all, a, b)[k] \in specs
      BY <3>3, ElementOfSeq, LenProperties
    <3> QED BY <1>2, <3>3, <3>4 DEF ToSet
  <2> QED BY <1>5, <2>1
<1> HIDE DEF mid, settled
<1>7. between \in Seq(Names) /\ ToSet(between) \subseteq specs
  BY <1>6, OnlyType
<1> HIDE DEF between
<1>8. /\ queued \in Seq(Names)
      /\ ToSet(queued) = ToSet(between) \cup ToSet(cascade.pending)
  <2>1. /\ queued \in Seq(Names)
        /\ Len(queued) = Len(between) + Len(cascade.pending)
        /\ \A k \in 1..(Len(between) + Len(cascade.pending)) :
             queued[k] = IF k <= Len(between) THEN between[k]
                         ELSE cascade.pending[k - Len(between)]
    BY <1>1, <1>7, ConcatProperties
  <2>2. /\ Len(between) \in Nat /\ DOMAIN between = 1..Len(between)
        /\ Len(cascade.pending) \in Nat /\ DOMAIN cascade.pending = 1..Len(cascade.pending)
        /\ DOMAIN queued = 1..Len(queued)
    BY <1>1, <1>7, <2>1, LenProperties
  <2> HIDE DEF queued
  <2>3. ASSUME NEW k \in DOMAIN between PROVE between[k] \in ToSet(queued)
    <3>1. k \in DOMAIN queued /\ queued[k] = between[k]
      BY <2>1, <2>2
    <3> QED BY <3>1 DEF ToSet
  <2>4. ASSUME NEW k \in DOMAIN cascade.pending PROVE cascade.pending[k] \in ToSet(queued)
    <3>1. Len(between) + k \in DOMAIN queued /\ queued[Len(between) + k] = cascade.pending[k]
      BY <2>1, <2>2
    <3> QED BY <3>1 DEF ToSet
  <2>5. ASSUME NEW k \in DOMAIN queued
        PROVE  queued[k] \in ToSet(between) \cup ToSet(cascade.pending)
    <3>1. CASE k <= Len(between)
      <4>1. k \in DOMAIN between /\ queued[k] = between[k]
        BY <2>1, <2>2, <3>1
      <4> QED BY <4>1 DEF ToSet
    <3>2. CASE ~(k <= Len(between))
      <4>1. /\ k - Len(between) \in DOMAIN cascade.pending
            /\ queued[k] = cascade.pending[k - Len(between)]
        BY <2>1, <2>2, <3>2
      <4> QED BY <4>1 DEF ToSet
    <3> QED BY <3>1, <3>2
  <2> QED BY <2>1, <2>3, <2>4, <2>5 DEF ToSet
<1> HIDE DEF queued
<1>9. CASE Len(queued) >= 2 /\ ~ToSet(queued) \subseteq s.specs /\ Panic(s)
  <2>1. Removable # {}
    BY <1>1, <1>2, <1>7, <1>8, <1>9 DEF Tracks
  <2>2. status \in Busy
    BY <1>1 DEF Phases
  <2> QED BY <1>2, <1>9, <2>1, <2>2, PanicStep
<1>10. CASE /\ Len(queued) < 2 \/ ToSet(queued) \subseteq s.specs
            /\ EndWith(s, c, status)
  <2>1. next \in Seq(Names) /\ ToSet(next) = ToSet(queued)
    <3>1. CASE Len(queued) < 2
      BY <1>8, <3>1
    <3>2. CASE ~(Len(queued) < 2)
      <4>1. ToSet(queued) \subseteq ToSet(all)
        BY <1>2, <1>4, <1>10, <3>2
      <4>2. /\ Only(all, ToSet(queued)) \in Seq(Names)
            /\ ToSet(Only(all, ToSet(queued))) = ToSet(all) \cap ToSet(queued)
        BY <1>4, OnlyType
      <4> QED BY <3>2, <4>1, <4>2
    <3> QED BY <3>1, <3>2
  <2> HIDE DEF next
  <2>2. Append(cascade.toRestart, n) \in Seq(Names)
    BY <1>1, <1>2, AppendProperties
  <2>3. /\ c \in Cascades /\ c.phase = "Exiting" /\ c.current = cascade.current
        /\ c.pending = next
    BY <1>1, <2>1, <2>2 DEF Cascades
  <2> HIDE DEF c
  <2>4. s.child[cascade.current] = "ShuttingDown"
    BY <1>2, <1>3
  <2>5. Tracks(s, c)
    <3>1. \A m \in Names : s.child[m] = "ShuttingDown" => child[m] = "ShuttingDown"
      BY <1>2
    <3>2. Removable = {} => ToSet(next) \subseteq s.specs
      BY <1>1, <1>2, <1>7, <1>8, <2>1 DEF Tracks
    <3> QED BY <1>1, <1>3, <1>8, <2>1, <2>3, <2>4, <3>1, <3>2 DEF Tracks
  <2>6. Phases(order, s, c, status)
    BY <1>1, <2>3 DEF Phases, Busy
  <2>7. Fits(order, s, c, status)
    BY <1>1, <1>2, <2>3, <2>5, <2>6 DEF Fits
  <2> QED BY <1>2, <1>10, <2>7, EndStep, Quiet DEF Forward
<1> QED BY <1>9, <1>10
        DEF MergeIntoStopping, c, next, queued, between, mid, settled, i, j, all

LEMMA StartStep ==
  ASSUME RestInv, Around, NEW s, NEW n, About(s, n), s.child[n] = "Dead",
         ~Stopped, child[n] # "Dead",
         cascade.phase \in {"Idle", "Restarting"}, cascade.current # n,
         StartCascade(s, n)
  PROVE  Kept
<1> DEFINE all == InOrder(s.specs)
           at == CHOOSE i \in DOMAIN all : all[i] = n
           pending == SubSeq(all, at + 1, Len(all))
<1>1. /\ cascade \in Cascades /\ status \in Statuses
      /\ Tracks(Here, cascade) /\ Phases(order, Here, cascade, status)
      /\ Here.child = child /\ Here.specs = specs
  BY DEF RestInv, Fits, Here
<1>2. /\ n \in Names /\ n \in specs /\ specs \subseteq Names /\ s.specs = specs
      /\ From(s) /\ Settled(order, s) /\ \A m \in Names \ {n} : s.child[m] = child[m]
  BY Place DEF About, From
<1>3. status \in Busy
  BY <1>1, <1>2 DEF Phases, Statuses, Busy, Stopped
<1>4. /\ all \in Seq(Names) /\ ToSet(all) = specs
      /\ Len(all) \in Nat /\ DOMAIN all = 1..Len(all)
  <2>1. s.specs \in SUBSET ToSet(order)
    BY <1>2 DEF Settled
  <2> QED BY <1>2, <2>1, OrderType, LenProperties
<1> HIDE DEF all
<1>5. at \in 1..Len(all)
  <2>1. \E k \in DOMAIN all : all[k] = n
    BY <1>2, <1>4 DEF ToSet
  <2> QED BY <1>4, <2>1
<1> HIDE DEF at
<1>6. pending \in Seq(Names) /\ ToSet(pending) \subseteq specs
  <2>1. at + 1 \in Int /\ Len(all) \in Int /\ \A k \in (at + 1)..Len(all) : k \in 1..Len(all)
    BY <1>4, <1>5
  <2>2. \A k \in 1..Len(all) : all[k] \in specs
    BY <1>4 DEF ToSet
  <2>3. pending \in Seq(specs)
    BY <2>1, <2>2, SubSeqProperties
  <2> HIDE DEF pending
  <2>4. \A k \in DOMAIN pending : pending[k] \in specs
    BY <2>3, ElementOfSeq, LenProperties
  <2> QED BY <1>2, <2>3, <2>4 DEF ToSet
<1>7. AdvanceStop(s, pending, <<n>>, {}, "Exited")
  BY DEF StartCascade, pending, at, all
<1> HIDE DEF pending
<1>8. \A m \in Names : s.child[m] # "ShuttingDown"
  <2> SUFFICES ASSUME NEW m \in Names, s.child[m] = "ShuttingDown" PROVE FALSE
    OBVIOUS
  <2>1. child[m] = "ShuttingDown"
    BY <1>2
  <2>2. m = cascade.current
    BY <1>1, <2>1 DEF Tracks
  <2> QED BY <1>1, <2>1, <2>2, RestForOneAssumption DEF Tracks
<1>9. <<n>> \in Seq(Names)
  BY <1>2
<1> QED BY <1>2, <1>3, <1>6, <1>7, <1>8, <1>9, StoppingStep

LEMMA CurrentStep ==
  ASSUME RestInv, Around, NEW s, NEW n, About(s, n), s.child[n] = "Dead",
         ~Stopped, cascade.current = n, NEW success, CurrentExit(s, n, success)
  PROVE  Kept
<1>1. /\ cascade \in Cascades /\ status \in Statuses
      /\ Tracks(Here, cascade) /\ Phases(order, Here, cascade, status)
      /\ Here.child = child /\ Here.specs = specs
  BY DEF RestInv, Fits, Here
<1>2. /\ n \in Names /\ n \in specs /\ specs \subseteq Names /\ s.specs = specs
      /\ From(s) /\ Settled(order, s) /\ \A m \in Names \ {n} : s.child[m] = child[m]
      /\ s \in Points /\ s.child \in [Names -> ChildStates]
      /\ s.childPermits \in [Names -> 0..MaxChildRestarts]
  BY Place DEF About, From, Settled, Points
<1>3. CASE cascade.phase # "Restarting" /\ AdvanceCascade(s, "Exited")
  <2>1. cascade.phase = "Exiting" /\ Removable = {} => ToSet(cascade.pending) \subseteq s.specs
    BY <1>1, <1>2 DEF Tracks
  <2> QED BY <1>2, <1>3, <2>1, CascadeStep
<1>4. CASE cascade.phase = "Restarting" /\ RemoveSpec(s, n)
  BY <1>4, RemoveStep
<1>5. CASE cascade.phase = "Restarting" /\ Shutdown(s, "Exited")
  BY <1>2, <1>5, ShutdownStep
<1>6. CASE /\ cascade.phase = "Restarting" /\ ChildAllows(s.childPermits, n)
           /\ EndWith([s EXCEPT !.child = Start(@, {n}),
                                !.childPermits = Charge(@, {n})],
                      cascade, status)
  <2> DEFINE r == [s EXCEPT !.child = Start(@, {n}), !.childPermits = Charge(@, {n})]
             cp == Charge(s.childPermits, {n})
             up == Start(s.child, {n})
  <2>1. cp \in [Names -> 0..MaxChildRestarts]
    BY <1>2, <1>6, ChargeType
  <2>2. /\ up \in [Names -> ChildStates]
        /\ \A m \in Names : up[m] = IF m = n THEN "Starting" ELSE s.child[m]
    BY <1>2 DEF Start, ChildStates
  <2> HIDE DEF cp, up
  <2>3. /\ r = [s EXCEPT !.child = up, !.childPermits = cp]
        /\ r.child = up /\ r.childPermits = cp /\ r.specs = s.specs
        /\ r.initializing = s.initializing
    BY <1>2 DEF Points, up, cp
  <2> HIDE DEF r
  <2>4. r \in Points
    BY <1>2, <2>1, <2>2, <2>3 DEF Points
  <2>5. Settled(order, r)
    BY <1>2, <2>2, <2>3, <2>4 DEF Settled
  <2>6. status \in Busy
    BY <1>1, <1>6 DEF Phases
  <2>7. Tracks(r, cascade)
    BY <1>1, <1>2, <1>6, <2>2, <2>3 DEF Tracks
  <2>8. Phases(order, r, cascade, status)
    BY <1>1, <1>6 DEF Phases
  <2>9. Fits(order, r, cascade, status)
    BY <1>1, <2>5, <2>7, <2>8 DEF Fits
  <2>10. EndWith(r, cascade, status)
    BY <1>6 DEF r
  <2> QED BY <2>6, <2>9, <2>10, EndStep DEF Lawful, Forward
<1> QED BY <1>3, <1>4, <1>5, <1>6 DEF CurrentExit

LEMMA TriggerStep ==
  ASSUME RestInv, Around, NEW s, NEW n, About(s, n), s.child[n] = "Dead",
         s.childPermits = childPermits,
         ~Stopped, child[n] # "Dead", cascade.current # n, ~Queued(n),
         NewTrigger(s, n)
  PROVE  Kept
<1> DEFINE charged == [s EXCEPT !.childPermits = Charge(@, {n})]
<1>1. /\ cascade \in Cascades /\ status \in Statuses
      /\ Tracks(Here, cascade) /\ Phases(order, Here, cascade, status)
      /\ Here.child = child /\ Here.specs = specs
  BY DEF RestInv, Fits, Here
<1>2. /\ n \in Names /\ n \in specs /\ specs \subseteq Names /\ s.specs = specs
      /\ From(s) /\ Settled(order, s) /\ \A m \in Names \ {n} : s.child[m] = child[m]
      /\ s \in Points
      /\ s.childPermits \in [Names -> 0..MaxChildRestarts]
  BY Place DEF About, From, Settled, Points
<1>3. CASE ~Allowed(n) /\ Shutdown(s, "Exited")
  <2>1. cascade.phase = "ShuttingDown" => s.child[cascade.current] = "ShuttingDown"
    BY <1>1, <1>2 DEF Tracks
  <2> QED BY <1>2, <1>3, <2>1, ShutdownStep
<1>4. ASSUME Allowed(n) PROVE About(charged, n) /\ charged.child = s.child
  <2> DEFINE cp == Charge(s.childPermits, {n})
  <2>1. cp \in [Names -> 0..MaxChildRestarts]
    BY <1>2, <1>4, ChargeType DEF Allowed
  <2> HIDE DEF cp
  <2>2. /\ charged = [s EXCEPT !.childPermits = cp]
        /\ charged.child = s.child /\ charged.specs = s.specs
        /\ charged.initializing = s.initializing
    BY <1>2 DEF Points, cp
  <2>3. [s EXCEPT !.childPermits = cp] \in Points
    BY <1>2, <2>1 DEF Points
  <2> HIDE DEF charged
  <2>4. From(charged)
    BY <1>2, <2>2, <2>3 DEF From, Settled
  <2> QED BY <1>2, <2>2, <2>4 DEF About
<1> HIDE DEF charged
<1>5. CASE Allowed(n) /\ cascade.phase \in {"Idle", "Restarting"} /\ StartCascade(charged, n)
  BY <1>4, <1>5, StartStep
<1>6. CASE Allowed(n) /\ cascade.phase = "Exiting" /\ MergeIntoStopping(charged, n)
  BY <1>4, <1>6, MergeStep
<1>7. cascade.phase # "ShuttingDown"
  <2>1. cascade.phase = "ShuttingDown" => n \in ToSet(cascade.pending)
    BY <1>1, <1>2 DEF Phases
  <2> QED BY <2>1 DEF Queued
<1> QED BY <1>3, <1>5, <1>6, <1>7 DEF NewTrigger, charged

\* Who has gone down leaves a supervisee that is dead.
LEMMA DropType ==
  ASSUME RestInv, NEW n \in specs
  PROVE  LET s == [Here EXCEPT !.child = Drop(@, {n})]
         IN  About(s, n) /\ s.child[n] = "Dead" /\ s.childPermits = childPermits
<1> DEFINE s == [Here EXCEPT !.child = Drop(@, {n})]
<1>1. /\ Settled(order, Here) /\ Here \in Points /\ child \in [Names -> ChildStates]
      /\ n \in Names
  BY Place DEF RestInv, Fits, Settled, Points, Here
<1>2. /\ Drop(child, {n}) \in [Names -> ChildStates]
      /\ \A m \in Names : Drop(child, {n})[m] = IF m = n THEN "Dead" ELSE child[m]
  BY <1>1 DEF Drop, ChildStates
<1>3. /\ s.child = Drop(child, {n}) /\ s.specs = specs /\ s.initializing = initializing
      /\ s.childPermits = childPermits
  BY DEF Here
<1>4. s \in Points
  BY <1>1, <1>2 DEF Here, Points
<1> HIDE DEF s
<1>5. From(s)
  BY <1>1, <1>2, <1>3, <1>4 DEF From, Settled, Here
<1> QED BY <1>1, <1>2, <1>3, <1>5 DEF About, s

LEMMA GoDownStep ==
  ASSUME RestInv, NEW n \in Names, NEW success \in BOOLEAN, GoDown(n, success)
  PROVE  Kept
<1> DEFINE s == [Here EXCEPT !.child = Drop(@, {n})]
<1>1. /\ ~Stopped /\ child[n] # "Dead" /\ HandleExit(n, success)
      /\ order' = order /\ exiting' = exiting
  BY DEF GoDown, GoesDown
<1>2. /\ cascade \in Cascades /\ status \in Statuses
      /\ Tracks(Here, cascade) /\ Phases(order, Here, cascade, status)
      /\ Here.child = child /\ Here.specs = specs
      /\ \A m \in Names \ specs : child[m] = "Dead"
  BY DEF RestInv, Fits, Here, Settled
<1>3. n \in specs
  BY <1>1, <1>2
<1>4. About(s, n) /\ s.child[n] = "Dead" /\ s.childPermits = childPermits
  BY <1>3, DropType
<1>5. Around
  <2>1. CASE permits' = permits
    BY <1>1, <2>1 DEF Around, RestInv
  <2>2. CASE TakeSupervisorPermit
    BY <1>1, <2>2, PermitType DEF Around, RestInv
  <2> QED BY <1>1, <2>1, <2>2 DEF HandleExit
<1> HIDE DEF s
<1>6. CASE cascade.current = n /\ CurrentExit(s, n, success)
  BY <1>1, <1>4, <1>5, <1>6, CurrentStep
<1>7. CASE cascade.current # n /\ Queued(n) /\ EndWith(s, cascade, status)
  <2>1. /\ From(s) /\ Settled(order, s) /\ s.specs = specs
        /\ \A m \in Names \ {n} : s.child[m] = child[m]
    BY <1>4 DEF About, From
  <2>2. Tracks(s, cascade)
    BY <1>2, <1>4, <1>7, <2>1 DEF Tracks
  <2>3. Phases(order, s, cascade, status)
    <3>1. \A m \in Names : child[m] = "Dead" => s.child[m] = "Dead"
      BY <1>4, <2>1
    <3>2. specs \subseteq Names
      BY Place
    <3> QED BY <1>2, <2>1, <3>1, <3>2 DEF Phases
  <2>4. Fits(order, s, cascade, status)
    BY <1>2, <2>1, <2>2, <2>3 DEF Fits
  <2> QED BY <1>5, <1>7, <2>1, <2>4, EndStep, Quiet DEF Forward
<1>8. CASE cascade.current # n /\ ~Queued(n) /\ RemoveSpec(s, n)
  BY <1>4, <1>5, <1>8, RemoveStep DEF Queued
<1>9. CASE cascade.current # n /\ ~Queued(n) /\ NewTrigger(s, n)
  BY <1>1, <1>4, <1>5, <1>9, TriggerStep
<1> QED BY <1>1, <1>6, <1>7, <1>8, <1>9 DEF HandleExit, s

\* The step of a supervisee's start, and what the cascade goes on to do once the
\* one that it started is initialized.
LEMMA RiseStep ==
  ASSUME RestInv, NEW n \in Names, (Started(n) /\ UNCHANGED cascade) \/ Initialized(n)
  PROVE  Kept
<1> DEFINE on == IF child[n] = "Starting" THEN "Initializing" ELSE "Alive"
           up == [child EXCEPT ![n] = on]
<1>1. /\ cascade \in Cascades /\ status \in Statuses
      /\ Tracks(Here, cascade) /\ Phases(order, Here, cascade, status)
      /\ Here.child = child /\ Here.specs = specs
      /\ Here.initializing = initializing /\ Here.childPermits = childPermits
      /\ Settled(order, Here) /\ Here \in Points
      /\ child \in [Names -> ChildStates] /\ permits \in 0..MaxRestarts
      /\ cascade.pending \in Seq(Names)
  BY DEF RestInv, Fits, Here, Settled, Points, Cascades
<1>2. child[n] \in {"Starting", "Initializing"} /\ n \in specs
  <2>1. child[n] \in {"Starting", "Initializing"}
    BY DEF Started, Initialized
  <2> QED BY <1>1, <2>1 DEF Settled
<1>3. Around
  BY <1>1 DEF Started, Initialized, Around
<1>4. /\ up \in [Names -> ChildStates] /\ on \notin {"Dead", "ShuttingDown"}
      /\ \A m \in Names : up[m] = IF m = n THEN on ELSE child[m]
  BY <1>1, <1>2 DEF ChildStates
<1>5. ASSUME NEW s, NEW st, s \in Points, s.child = up, s.specs = specs,
             s.initializing \subseteq initializing, s.childPermits = childPermits,
             EndWith(s, cascade, st), cascade.phase = "Restarting" /\ cascade.current = n =>
               on = "Initializing",
             st = StatusOnceInitialized(n) \/ st = status
      PROVE  Kept
  <2>1. Settled(order, s)
    BY <1>1, <1>2, <1>4, <1>5 DEF Settled
  <2>2. /\ Forward(st) /\ st \in Statuses /\ (status \in Busy <=> st \in Busy)
        /\ (status \notin Busy => st = status)
    BY <1>1, <1>5 DEF Forward, StatusOnceInitialized, Statuses, Busy
  <2>3. Tracks(s, cascade)
    BY <1>1, <1>2, <1>4, <1>5 DEF Tracks
  <2>4. Phases(order, s, cascade, st)
    <3>1. cascade.phase \in {"Exiting", "Restarting"} => st \in Busy
      BY <1>1, <2>2 DEF Phases
    <3>2. cascade.phase = "Idle" => status \in Busy
      BY <1>1, <1>2 DEF Phases
    <3>3. cascade.phase = "ShuttingDown" =>
            /\ st = "Exiting"
            /\ Ascending(order, cascade.pending)
            /\ \A m \in s.specs \ ToSet(cascade.pending) :
                  m = cascade.current \/ s.child[m] = "Dead"
      <4> SUFFICES ASSUME cascade.phase = "ShuttingDown"
                   PROVE  /\ st = "Exiting"
                          /\ Ascending(order, cascade.pending)
                          /\ \A m \in s.specs \ ToSet(cascade.pending) :
                               m = cascade.current \/ s.child[m] = "Dead"
        OBVIOUS
      <4>1. n \in ToSet(cascade.pending) \/ n = cascade.current
        BY <1>1, <1>2 DEF Phases
      <4>2. specs \subseteq Names
        BY Place
      <4> QED BY <1>1, <1>4, <1>5, <2>2, <4>1, <4>2 DEF Phases, Busy
    <3> QED BY <1>1, <2>2, <3>1, <3>2, <3>3 DEF Phases, Busy
  <2>5. Lawful(s, st)
    <3>1. specs \subseteq Names
      BY Place
    <3> QED BY <1>2, <1>4, <1>5, <3>1 DEF Lawful
  <2> QED BY <1>1, <1>3, <1>5, <2>1, <2>2, <2>3, <2>4, <2>5, EndStep DEF Fits
<1>6. CASE Started(n) /\ UNCHANGED cascade
  <2> DEFINE s == [Here EXCEPT !.child = up]
  <2>1. /\ s \in Points /\ s.child = up /\ s.specs = specs
        /\ s.initializing = initializing /\ s.childPermits = childPermits
    BY <1>1, <1>4 DEF Points
  <2>2. EndWith(s, cascade, status) /\ on = "Initializing"
    BY <1>6, <2>1 DEF Started, EndWith
  <2> HIDE DEF s, up, on
  <2> QED BY <1>5, <2>1, <2>2
<1>7. CASE Initialized(n)
  <2> DEFINE s == [Here EXCEPT !.child[n] = "Alive", !.initializing = @ \ {n}]
  <2>1. on = "Alive"
    BY <1>7 DEF Initialized
  <2>2. /\ s \in Points /\ s.child = up /\ s.specs = specs
        /\ s.initializing = initializing \ {n} /\ s.childPermits = childPermits
    BY <1>1, <1>4, <2>1 DEF Points, Here
  <2> HIDE DEF s, up, on
  <2>3. CASE cascade.current # n /\ EndWith(s, cascade, StatusOnceInitialized(n))
    BY <1>5, <2>2, <2>3
  <2>4. CASE /\ cascade.current = n
             /\ AdvanceRestart(s, cascade.pending, StatusOnceInitialized(n))
    <3>1. cascade.phase = "Restarting"
      BY <1>1, <1>2, <2>4, RestForOneAssumption DEF Tracks, Cascades
    <3>2. StatusOnceInitialized(n) \in Busy /\ Forward(StatusOnceInitialized(n))
      BY <1>1, <3>1 DEF Phases, StatusOnceInitialized, Busy, Forward
    <3>3. Settled(order, s)
      BY <1>1, <1>2, <1>4, <2>2 DEF Settled
    <3>4. \A m \in Names : s.child[m] # "ShuttingDown"
      BY <1>1, <1>4, <2>2, <2>4, <3>1 DEF Tracks
    <3> QED BY <1>1, <1>3, <2>4, <3>2, <3>3, <3>4, RestartStep
  <2> QED BY <1>7, <2>3, <2>4 DEF Initialized, s
<1> QED BY <1>6, <1>7

LEMMA TypeFromInv ==
  ASSUME RestInv
  PROVE  TypeOK
<1>1. /\ Settled(order, Here) /\ Here \in Points /\ status \in Statuses
      /\ child \in [Names -> ChildStates] /\ specs \subseteq ToSet(order)
      /\ initializing \subseteq specs /\ childPermits \in [Names -> 0..MaxChildRestarts]
      /\ \A n \in Names \ specs : child[n] = "Dead"
  BY DEF RestInv, Fits, Settled, Points, Here
<1> QED BY <1>1 DEF TypeOK, RestInv, ToSet, Statuses, Busy

LEMMA RegisterStep ==
  ASSUME RestInv, NEW n \in Names, Register(n), UNCHANGED cascade
  PROVE  Kept
<1>1. TypeOK
  BY TypeFromInv
<1>2. /\ TypeOK' /\ Working /\ n \notin specs /\ specs' = specs \cup {n}
      /\ \A m \in Names : child'[m] = IF m = n THEN "Starting" ELSE child[m]
      /\ UNCHANGED <<status, initializing, exiting>>
  BY <1>1, RegisterType
<1>3. /\ cascade \in Cascades /\ status \in Statuses
      /\ Tracks(Here, cascade) /\ Phases(order, Here, cascade, status)
      /\ Here.child = child /\ Here.specs = specs
      /\ \A m \in Names \ specs : child[m] = "Dead"
      /\ order \in Seq(Names) /\ Distinct(order)
      /\ specs \subseteq Names
  BY DEF RestInv, Fits, Here, Settled, Points
<1>4. Distinct(order')
  <2>1. CASE order' = order
    BY <1>3, <2>1
  <2>2. CASE order' = Append(order, n) /\ ~ \E i \in DOMAIN order : order[i] = n
    <3>1. /\ DOMAIN order = 1..Len(order) /\ DOMAIN order' = 1..(Len(order) + 1)
          /\ Len(order) \in Nat /\ order'[Len(order) + 1] = n
          /\ \A i \in 1..Len(order) : order'[i] = order[i]
      BY <1>3, <2>2, AppendProperties, LenProperties
    <3>2. \A i \in 1..(Len(order) + 1) : i \in 1..Len(order) \/ i = Len(order) + 1
      BY <3>1
    <3> QED BY <1>3, <2>2, <3>1, <3>2 DEF Distinct
  <2> QED BY <2>1, <2>2 DEF Register, KeepPlace
<1>5. status \in Busy
  BY <1>2 DEF Working, Busy
<1>6. Settled(order', Here') /\ Here'.child = child' /\ Here'.specs = specs'
  BY <1>2 DEF TypeOK, Settled, Here, Points, ToSet
<1>7. Tracks(Here', cascade')
  <2>1. \A m \in Names : child'[m] = "ShuttingDown" => child[m] = "ShuttingDown"
    BY <1>2
  <2>2. \A m \in Names : child[m] # "Dead" => child'[m] = child[m]
    BY <1>2, <1>3
  <2> QED BY <1>2, <1>3, <1>6, <2>1, <2>2 DEF Tracks
<1>8. Phases(order', Here', cascade', status')
  BY <1>2, <1>3, <1>5 DEF Phases, Busy
<1>9. RestInv'
  <2>1. exiting' = {} /\ permits' \in 0..MaxRestarts /\ order' \in Seq(Names)
        /\ status' \in Statuses /\ cascade' \in Cascades
    BY <1>2, <1>3 DEF TypeOK, RestInv
  <2> QED BY <1>4, <1>6, <1>7, <1>8, <2>1 DEF RestInv, Fits
<1>10. Forward(status') /\ Lawful(Here', status')
  BY <1>2, <1>5 DEF Forward, Lawful
<1> QED BY <1>9, <1>10 DEF Kept

LEMMA Step ==
  ASSUME RestInv, [Next]_vars
  PROVE  Kept
<1>1. TypeOK
  BY TypeFromInv
<1>2. /\ Settled(order, Here) /\ Here.child = child /\ Here.specs = specs
      /\ permits \in 0..MaxRestarts /\ specs \subseteq Names
      /\ Tracks(Here, cascade)
  BY DEF RestInv, Fits, Here, Settled, Points
<1>3. From(Here)
  BY <1>2 DEF From
<1>4. ASSUME UNCHANGED <<order, specs, child, status, initializing, exiting, cascade>>,
             permits' \in 0..MaxRestarts,
             childPermits' \in [Names -> 0..MaxChildRestarts]
      PROVE  Kept
  <2> DEFINE s == [Here EXCEPT !.childPermits = childPermits']
  <2>1. PICK cp \in [Names -> 0..MaxChildRestarts] : cp = childPermits'
    BY <1>4
  <2>2. /\ Here' = [Here EXCEPT !.childPermits = cp]
        /\ Here'.child = child /\ Here'.specs = specs /\ Here'.initializing = initializing
    BY <1>4, <2>1 DEF Here
  <2>3. Here' \in Points
    <3>1. Here \in Points
      BY <1>2 DEF Settled
    <3> QED BY <2>2, <3>1 DEF Points
  <2>4. Settled(order, Here')
    BY <1>2, <2>2, <2>3 DEF Settled, Here
  <2>5. Tracks(Here', cascade) /\ Phases(order, Here', cascade, status)
    <3>1. Tracks(Here, cascade) /\ Phases(order, Here, cascade, status)
      BY DEF RestInv, Fits
    <3> QED BY <1>2, <2>2, <3>1 DEF Tracks, Phases
  <2>6. RestInv'
    BY <1>4, <2>4, <2>5 DEF RestInv, Fits
  <2>7. Lawful(Here', status') /\ Forward(status')
    BY <2>2 , <1>4 DEF Lawful, Forward
  <2> QED BY <2>6, <2>7 DEF Kept
<1>5. CASE UNCHANGED vars
  BY <1>1, <1>4, <1>5 DEF vars, superVars, TypeOK
<1>6. CASE ShutdownSignal
  <2>1. cascade.phase = "ShuttingDown" => child[cascade.current] = "ShuttingDown"
    BY <1>2 DEF Tracks
  <2> QED BY <1>2, <1>3, <1>6, <2>1, ShutdownStep DEF ShutdownSignal, Around
<1>7. CASE WindowPasses /\ UNCHANGED cascade
  BY <1>1, <1>4, <1>7, WindowType
<1>8. ASSUME NEW n \in Names, Deregister(n)
      PROVE  Kept
  <2>1. /\ About(Here, n) /\ RemoveSpec(Here, n) /\ Removable # {}
    BY <1>2, <1>3, <1>8 DEF Deregister, About
  <2>2. Around
    BY <1>2, <1>8 DEF Deregister, Around
  <2> QED BY <2>1, <2>2, RemoveStep
<1> QED BY <1>5, <1>6, <1>7, <1>8, RegisterStep, RiseStep, GoDownStep DEF Next

LEMMA Initial ==
  ASSUME RestInit
  PROVE  RestInv
<1>1. TypeOK
  BY InitType DEF RestInit
<1>2. /\ order = Children /\ specs = {Children[i] : i \in DOMAIN Children}
      /\ child = [n \in Names |-> IF n \in specs THEN "Starting" ELSE "Dead"]
      /\ status = "Initializing" /\ exiting = {} /\ cascade = Idle
  BY DEF RestInit, Init
<1>3. Settled(order, Here) /\ Here.child = child
  BY <1>1 DEF TypeOK, Settled, Here, Points, ToSet
<1>4. order \in Seq(Names) /\ Distinct(order)
  BY <1>2, SupervisorAssumption DEF Distinct
<1>5. Fits(order, Here, cascade, status)
  BY <1>2, <1>3, IdleType DEF Fits, Tracks, Phases, Statuses, Busy
<1> QED BY <1>1, <1>2, <1>4, <1>5 DEF RestInv, TypeOK

-----------------------------------------------------------------------------
LEMMA Invariance == Spec => []RestInv
<1>1. RestInit => RestInv
  BY Initial
<1>2. RestInv /\ [Next]_vars => RestInv'
  BY Step DEF Kept
<1> QED BY <1>1, <1>2, PTL DEF Spec

\* Every variable keeps its type, and both budgets are never exceeded, also by
\* the restarts that advance_stop charges to the children alone.
THEOREM TypesOfCascade == Spec => []TypeOK
<1> QED BY TypeFromInv, Invariance, PTL

\* The cascade waits for an exit or an initialization that is to come, and waits
\* for or comes to everyone that was told to stop: the exit of none of them is
\* taken for a new failure by handle_exit.
THEOREM CascadeIsTracked == Spec => []CascadeTracksChildren
<1>1. ASSUME RestInv PROVE CascadeTracksChildren
  <2>1. Tracks(Here, cascade) /\ Here.child = child /\ specs \subseteq Names
    BY <1>1 DEF RestInv, Fits, Here, Settled, Points
  <2> QED BY <2>1 DEF Tracks, CascadeTracksChildren, Queued
<1> QED BY <1>1, Invariance, PTL

\* Once the supervisor is exiting, a child is only told to shut down when all
\* those after it in the map are gone.
THEOREM LastStopsFirst == Spec => StopsInReverseOrder
<1> DEFINE InOrderStep ==
      \A n, m \in specs :
        (/\ status' = "Exiting" /\ Position(n) < Position(m)
         /\ child[n] # "ShuttingDown" /\ child'[n] = "ShuttingDown")
           => child'[m] = "Dead"
<1>1. RestInv /\ [Next]_vars => [InOrderStep]_vars
  <2> SUFFICES ASSUME RestInv, [Next]_vars PROVE InOrderStep
    OBVIOUS
  <2>1. Lawful(Here', status') /\ Here'.child = child'
    BY Step DEF Kept, Here
  <2> QED BY <2>1 DEF Lawful, Busy
<1> QED BY <1>1, Invariance, PTL DEF Spec, StopsInReverseOrder

\* A step of the supervisor is one of the abstract group, unless it panics in
\* merge_into_stopping over a name that was deregistered.
LEMMA GroupStep ==
  ASSUME RestInv, [Next]_vars
  PROVE  \/ Removable # {} /\ PanicsAtWork
         \/ [Group!Next]_Group!groupVars
<1>1. RestInv' /\ Forward(status') /\ Lawful(Here', status')
  BY Step DEF Kept
<1>2. status \in Statuses /\ Phases(order, Here, cascade, status)
  BY DEF RestInv, Fits
<1>3. /\ Phases(order, Here, cascade, status)' /\ status' \in Statuses
      /\ Here'.child = child' /\ (status' = "Panicked" => Removable # {})
  BY <1>1 DEF RestInv, Fits, Phases, Here
<1>4. status' \notin Busy => Up' \subseteq Up
  BY <1>1, <1>3 DEF Lawful, Up
<1>5. status' \in {"Exited", "Panicked"} => Up' = {}
  BY <1>3 DEF Phases, Up, Here, Busy
<1>6. Up' \subseteq Names
  BY DEF Up
<1>7. CASE Stopped
  <2>1. UNCHANGED vars
    BY <1>7 DEF Next, Stopped, Working, ShutdownSignal, WindowPasses, Register,
                MayRegister, Deregister, Started, Initialized, GoDown, GoesDown
  <2> QED BY <2>1 DEF vars, superVars, Up, Group!groupVars
<1>8. CASE ~Stopped /\ status' = "Exited"
  BY <1>5, <1>8 DEF Stopped, Group!Next, Group!Exit
<1>9. CASE ~Stopped /\ status' \in Busy
  BY <1>1, <1>6, <1>9 DEF Forward, Busy, Group!Next, Group!Change, Group!Working
<1>10. CASE ~Stopped /\ status' = "Exiting"
  BY <1>2, <1>4, <1>10
     DEF Stopped, Statuses, Busy, Group!Next, Group!BeginExit, Group!Lose, Group!Working
<1>11. CASE ~Stopped /\ status' = "Panicked"
  BY <1>1, <1>3, <1>5, <1>11 DEF Forward, Busy, Stopped, Working, PanicsAtWork
<1> QED BY <1>3, <1>7, <1>8, <1>9, <1>10, <1>11 DEF Statuses

\* Whatever is registered and deregistered meanwhile, the rest-for-one supervisor
\* leaves the abstract group only by a panic, and only while it works: nobody is
\* started once it is exiting, and when it exits, or panics, nobody is up.
THEOREM OnlyAPanicLeavesTheGroup == Spec => IsGroupUntilPanic
<1>1. RestInit => Group!Init
  BY DEF RestInit, Init, Group!Init, Up
<1>2. RestInv /\ [Next]_vars => [Group!Next \/ PanicsAtWork]_Group!groupVars
  BY GroupStep
<1> QED BY <1>1, <1>2, Invariance, PTL DEF Spec, IsGroupUntilPanic

\* Without deregistration merge_into_stopping never panics, and the supervisor
\* implements the abstract group.
THEOREM CascadesAreOfAGroup ==
  ASSUME Removable = {}
  PROVE  Spec => IsSupervisedGroup
<1>1. RestInit => Group!Init
  BY DEF RestInit, Init, Group!Init, Up
<1>2. RestInv /\ [Next]_vars => [Group!Next]_Group!groupVars
  BY GroupStep
<1> QED BY <1>1, <1>2, Invariance, PTL DEF Spec, IsSupervisedGroup, Group!Spec
=============================================================================
