----------------------------- MODULE Membership -----------------------------
(***************************************************************************)
(* One node's view of the cluster: what its membership driver makes of the *)
(* notifications of foca, of the goodbyes of other nodes and of the        *)
(* reports of the links, and the events it publishes about it.  Foca       *)
(* itself is external: a peer's incarnations come up, go down and replace  *)
(* each other at its discretion, in the order it promises.                 *)
(***************************************************************************)
EXTENDS Naturals, FiniteSets

CONSTANTS
  Peers,        \* the other nodes
  Generations,  \* bound: the generations
  Clock,        \* what a peer's clock may read when it starts
  Stored,       \* the peers that have a generation_store
  Count         \* how many members wait_for_members waits for

ASSUME MembershipAssumption == Generations \in Nat /\ Clock \subseteq Nat /\ Stored \subseteq Peers

VARIABLES
  peer,     \* what each peer really is
  foca,     \* what foca takes each peer for
  view,     \* MemberList, the graces, and what a subscriber makes of the events
  goodbyes, \* the Departure messages on their way
  wait,     \* a task in wait_until
  status    \* NodeStatus

membershipVars == <<peer, foca, view, goodbyes, wait, status>>

Greater(x, y) == IF x > y THEN x ELSE y

\* gen: the incarnation; last and stored: what LAST and the store hold;
\* handed: the last generation that was handed out.
PeerInit == [gen |-> 0, up |-> FALSE, last |-> 0, stored |-> 0, handed |-> 0]

\* member: its generation, 0 for none; cut: it is in `unreachable`; key and
\* graces: the entries of pending_keys and pending_down; heard: the state of the
\* peer to one who only reads the events; news: an event was published.
ViewInit == [member |-> 0, cut |-> FALSE, key |-> 0, graces |-> {},
             heard |-> "out", news |-> FALSE]

MembershipInit ==
  /\ peer = [p \in Peers |-> PeerInit]
  /\ foca = [p \in Peers |-> [gen |-> 0, state |-> "unknown"]]
  /\ view = [p \in Peers |-> ViewInit]
  /\ goodbyes = {}
  /\ wait = [pc |-> "off", seen |-> [p \in Peers |-> 0], news |-> FALSE]
  /\ status = "Up"

-----------------------------------------------------------------------------
(* The member list.  A change and its event are one step, under the lock.  *)

\* ClusterEvent, as a subscriber reads it: Up after a Left or Failed or never,
\* Unreachable and Reachable by turns in between.
Publish(v, event) ==
  [v EXCEPT !.news = TRUE, !.heard =
     CASE event = "Up"          /\ v.heard = "out"           -> "in"
       [] event = "Unreachable" /\ v.heard = "in"            -> "cut"
       [] event = "Reachable"   /\ v.heard = "cut"           -> "in"
       [] event \in {"Left", "Failed"} /\ v.heard \in {"in", "cut"} -> "out"
       [] OTHER -> "confused"]

Remove(v) == [v EXCEPT !.member = 0, !.cut = FALSE]

\* Cluster::member_up.
MemberUp(v, g) ==
  IF v.member = g THEN v
  ELSE Publish([v EXCEPT !.member = g, !.cut = FALSE], "Up")

\* Mutation of MemberFailed: only an older incarnation fails.
FailedIfOlder(v, g) == IF v.member < g THEN Publish(Remove(v), "Failed") ELSE v
\* Cluster::member_left and member_failed.
MemberLeft(v, g)   == IF v.member = g /\ g # 0 THEN Publish(Remove(v), "Left") ELSE v
MemberFailed(v, g) == IF v.member = g THEN Publish(Remove(v), "Failed") ELSE v

\* Mutation of MemberRenamed: only the new incarnation is announced.
RenamedQuietly(v, before, after) ==
  IF v.member = before
  THEN Publish([v EXCEPT !.member = after, !.cut = FALSE], "Up") ELSE v
\* Cluster::member_renamed.
MemberRenamed(v, before, after) ==
  IF v.member = before
  THEN Publish(Publish([v EXCEPT !.member = after, !.cut = FALSE], "Failed"), "Up") ELSE v

-----------------------------------------------------------------------------
(* Driver::notify.                                                         *)

CancelPending(v) == [v EXCEPT !.key = 0, !.graces = @ \ {v.key}]

NotifyUp(v, g) == MemberUp(CancelPending(v), g)

\* The links forget the peer; a member gets a grace to say goodbye in.
NotifyDown(v, g) ==
  IF v.member = g
  THEN [v EXCEPT !.key = g, !.graces = (@ \ {v.key}) \cup {g}] ELSE v

NotifyRename(v, before, after) == MemberRenamed(CancelPending(v), before, after)

Runs == status \in {"Up", "Defunct"}

\* What the driver does to the view of p, and who hears of it.
Becomes(p, v) ==
  /\ view' = [view EXCEPT ![p] = [v EXCEPT !.news = FALSE]]
  /\ wait' = [wait EXCEPT !.news = @ \/ v.news]

-----------------------------------------------------------------------------
(* Foca, with the drain of its notifications.                              *)

\* It hears of an incarnation: one that replaces another is a Rename, and an Up
\* as well unless the other was active.
FocaUp(p, g) ==
  LET f == foca[p] IN
  /\ Runs /\ g \in 1..peer[p].gen /\ g > f.gen
  /\ foca' = [foca EXCEPT ![p] = [gen |-> g, state |-> "active"]]
  /\ Becomes(p, CASE f.state = "unknown" -> NotifyUp(view[p], g)
                  [] f.state = "active"  -> NotifyRename(view[p], f.gen, g)
                  [] f.state = "down"    -> NotifyUp(NotifyRename(view[p], f.gen, g), g))
  /\ UNCHANGED <<peer, goodbyes, status>>

\* It gives an incarnation up: it failed, left, or is suspected in error.
FocaDown(p) ==
  /\ Runs /\ foca[p].state = "active"
  /\ foca' = [foca EXCEPT ![p].state = "down"]
  /\ Becomes(p, NotifyDown(view[p], foca[p].gen))
  /\ UNCHANGED <<peer, goodbyes, status>>

-----------------------------------------------------------------------------
(* The rest of Driver::run.                                                *)

\* departure_grace is over.
Expire(p, g) ==
  /\ Runs /\ g \in view[p].graces
  /\ Becomes(p, MemberFailed([view[p] EXCEPT !.graces = @ \ {g}, !.key = 0], g))
  /\ UNCHANGED <<peer, foca, goodbyes, status>>

\* A Departure arrives, from the incarnation of its connection.
Departure(p, g) ==
  /\ Runs /\ <<p, g>> \in goodbyes /\ goodbyes' = goodbyes \ {<<p, g>>}
  /\ Becomes(p, IF view[p].member = g THEN CancelPending(MemberLeft(view[p], g)) ELSE view[p])
  /\ UNCHANGED <<peer, foca, status>>

LoseDeparture(p, g) ==
  /\ <<p, g>> \in goodbyes /\ goodbyes' = goodbyes \ {<<p, g>>}
  /\ UNCHANGED <<peer, foca, view, wait, status>>

\* Driver::on_peer_event: member_unreachable,
PeerUnreachable(p) ==
  /\ Runs /\ view[p].member # 0 /\ ~view[p].cut
  /\ Becomes(p, Publish([view[p] EXCEPT !.cut = TRUE], "Unreachable"))
  /\ UNCHANGED <<peer, foca, goodbyes, status>>

\* and member_reachable.
PeerReachable(p) ==
  /\ Runs /\ view[p].member # 0 /\ view[p].cut
  /\ Becomes(p, Publish([view[p] EXCEPT !.cut = FALSE], "Reachable"))
  /\ UNCHANGED <<peer, foca, goodbyes, status>>

\* Command::Leave, after which the driver returns; and Defunct.
SetStatus(s) ==
  /\ status \notin {"Leaving", s} /\ status' = s /\ s \in {"Leaving", "Defunct"}
  /\ status # "Defunct"
  /\ UNCHANGED <<peer, foca, view, goodbyes, wait>>

LeaveDefunct ==   \* the status stays, but the driver is gone
  /\ status = "Defunct" /\ status' = "Gone"
  /\ UNCHANGED <<peer, foca, view, goodbyes, wait>>

-----------------------------------------------------------------------------
(* The peers.                                                              *)

\* Mutation of Pick: the generation is the clock's.
PickClock(now, floor) == now
\* generation::pick; the largest u64, where it saturates, is out of reach.
Pick(now, floor) == Greater(now, floor + 1)

\* generation::next: a peer starts, in the same process or another one.
Start(p, now, afresh) ==
  LET q == peer[p]
      last == IF afresh THEN 0 ELSE q.last
      g == Pick(now, Greater(last, q.stored)) IN
  /\ ~q.up /\ now \in Clock /\ g <= Generations
  /\ q.gen = 0 \/ p \in Stored \/ ~afresh
  /\ peer' = [peer EXCEPT ![p] =
       [gen |-> g, up |-> TRUE, last |-> g, handed |-> g,
        stored |-> IF p \in Stored THEN g ELSE q.stored]]
  /\ UNCHANGED <<foca, view, goodbyes, wait, status>>

\* Member::renew, of a peer that finds out that it was declared down.
Renew(p) ==
  /\ peer[p].up /\ foca[p] = [gen |-> peer[p].gen, state |-> "down"] /\ peer[p].gen < Generations
  /\ peer' = [peer EXCEPT ![p].gen = @ + 1]
  /\ UNCHANGED <<foca, view, goodbyes, wait, status>>

\* Without a word, or with a Departure if it has this node for a member.  The
\* generation is that of its links, which they were started with: the Departure
\* of a peer that renewed itself is not one of the incarnation it is known by.
End(p) ==
  /\ peer[p].up /\ peer' = [peer EXCEPT ![p].up = FALSE]
  /\ goodbyes' \in {goodbyes, goodbyes \cup {<<p, peer[p].handed>>}}
  /\ UNCHANGED <<foca, view, wait, status>>

-----------------------------------------------------------------------------
(* Cluster::wait_until.                                                    *)

Members == [p \in Peers |-> view[p].member]
Enough(seen) == Cardinality({p \in Peers : seen[p] # 0}) = Count

\* The members and a subscription, under one lock.
StartWait ==
  /\ wait.pc = "off"
  /\ wait' = [pc |-> "check", seen |-> Members, news |-> FALSE]
  /\ UNCHANGED <<peer, foca, view, goodbyes, status>>

Check ==
  /\ wait.pc = "check"
  /\ wait' = [wait EXCEPT !.pc = IF Enough(wait.seen) THEN "off" ELSE "listen"]
  /\ UNCHANGED <<peer, foca, view, goodbyes, status>>

\* Some event, or that some were missed.
Hear ==
  /\ wait.pc = "listen" /\ wait.news
  /\ wait' = [wait EXCEPT !.pc = "heard", !.news = FALSE]
  /\ UNCHANGED <<peer, foca, view, goodbyes, status>>

\* Mutation of Reread: it goes on with the members it has.
Unread == /\ wait.pc = "heard" /\ wait' = [wait EXCEPT !.pc = "check"]
          /\ UNCHANGED <<peer, foca, view, goodbyes, status>>
Reread ==
  /\ wait.pc = "heard" /\ wait' = [wait EXCEPT !.pc = "check", !.seen = Members]
  /\ UNCHANGED <<peer, foca, view, goodbyes, status>>

WaitStep == StartWait \/ Check \/ Hear \/ Reread

-----------------------------------------------------------------------------
MembershipNext ==
  \/ \E p \in Peers :
       \/ FocaDown(p) \/ PeerUnreachable(p) \/ PeerReachable(p) \/ Renew(p) \/ End(p)
       \/ \E g \in 1..Generations :
            FocaUp(p, g) \/ Expire(p, g) \/ Departure(p, g) \/ LoseDeparture(p, g)
       \/ \E now \in Clock, afresh \in BOOLEAN : Start(p, now, afresh)
  \/ \E s \in {"Leaving", "Defunct"} : SetStatus(s)
  \/ LeaveDefunct \/ WaitStep

MembershipSpec == MembershipInit /\ [][MembershipNext]_membershipVars

\* The timers of the driver's queues run.
Graces == \E p \in Peers, g \in 1..Generations : Expire(p, g)
FairMembershipSpec == MembershipSpec /\ WF_membershipVars(Graces)

-----------------------------------------------------------------------------
(* Properties.                                                             *)

\* Who only reads the events knows of each peer what the member list says: they
\* come in an order that makes sense, and none is missing.
EventsTellAll ==
  \A p \in Peers : view[p].heard =
    IF view[p].member = 0 THEN "out" ELSE IF view[p].cut THEN "cut" ELSE "in"

\* Who waits for a change has seen all there were.
WaiterIsCurrent == wait.pc = "listen" /\ ~wait.news => wait.seen = Members

\* A restart is newer than what was handed out before.
RestartIsNewer ==
  [][\A p \in Peers : peer'[p].up /\ ~peer[p].up => peer'[p].gen > peer[p].handed]_membershipVars

\* A member that went down, with or without a goodbye, is told to have.
DownIsTold ==
  []<>(~Runs \/ \A p \in Peers : view[p].member # 0 => foca[p].state = "active")
=============================================================================
