--------------------------- MODULE MessagingProofs ---------------------------
(***************************************************************************)
(* Theorems about Messaging for any messages, queues and faults.           *)
(***************************************************************************)
EXTENDS Messaging, SequenceTheorems, WellFoundedInduction, TLAPS

States  == {"idle", "preparing", "refused", "sending", "waiting", "sent", "full",
            "unreachable", "answered", "timeout", "dropped"}
Told    == {"ok", "no reply", "no such actor", "overloaded", "exited", "disconnected", "timeout"}

\* Something arrives.
Arriving == \E n \in DOMAIN streams : Arrive(n)

\* What the table is right because of: nothing is answered before it is in the
\* table, and no answer says nothing.
CallInv ==
  /\ plan \in [Ids -> Kinds] /\ call \in [Ids -> States] /\ answer \in [Ids -> Told \cup {"none"}]
  /\ pending \subseteq Ids
  /\ \A c \in Ids : call[c] \in {"idle", "preparing"} => answer[c] = "none"
  /\ \A r \in replies : r.result \in Told
  /\ PendingIsAwaited

\* No answer says nothing, afterwards either.
Telling == \A r \in replies' : r.result \in Told

-----------------------------------------------------------------------------
\* Whatever is said to the caller, it is something.
LEMMA AnswerTells ==
  ASSUME CallInv, NEW c, NEW result \in Told
  PROVE  \A r \in Answer(c, result) : r.result \in Told
  BY DEF Answer, CallInv

\* A step that leaves the calls alone, whatever it answers.
LEMMA HostKeepsCalls ==
  ASSUME CallInv, UNCHANGED callerVars, Telling
  PROVE  CallInv'
<1>1. /\ plan' = plan /\ call' = call /\ answer' = answer /\ pending' = pending
      /\ \A c : Replies(c)' = Replies(c)
  BY DEF callerVars, Replies
<1>2. PendingIsAwaited'
  BY <1>1 DEF CallInv, PendingIsAwaited
<1> QED BY <1>1, <1>2 DEF CallInv, Telling

\* What the host answers tells something.
LEMMA HostTells ==
  ASSUME CallInv,
         \/ HostStep \/ Exit \/ Disconnect \/ LaneEnds \/ Crash \/ DropQuietly
         \/ \E i \in DOMAIN task : Expire(i)
  PROVE  Telling
<1>0. ASSUME replies' \subseteq replies PROVE Telling
  BY <1>0 DEF Telling, CallInv
<1>1. ASSUME NEW c, NEW result \in Told,
             replies' \in {replies, Answer(c, result)}
      PROVE  Telling
  BY <1>1, AnswerTells DEF Telling, CallInv
<1>2. ASSUME NEW n \in DOMAIN streams, Arrive(n) PROVE Telling
  <2>1. ASSUME NEW c, Route(c) PROVE replies' \in {replies, Answer(c, "overloaded")}
    BY <2>1 DEF Route, Refuse
  <2>2. replies' = replies \/ \E c : replies' \in {replies, Answer(c, "overloaded")}
    BY <1>2, <2>1 DEF Arrive
  <2> QED BY <1>0, <1>1, <2>2 DEF Told
<1>3. ASSUME NEW i \in DOMAIN task, Take(i) \/ CloseQueue(i) \/ Expire(i) PROVE Telling
  BY <1>0, <1>3 DEF Take, CloseQueue, Expire, netVars
<1>4. ASSUME NEW i \in DOMAIN task, Process(i) PROVE Telling
  <2>1. replies' \in {replies, Answer(task[i].work, "no such actor")}
    BY <1>4 DEF Process
  <2> QED BY <1>1, <2>1 DEF Told
<1>5. ASSUME NEW f \in spawned, RunOp(f) PROVE Telling
  <2>1. \/ replies' \in {replies, Answer(f.id, "no such actor")}
        \/ replies' \in {replies, Answer(f.id, "ok")}
    BY <1>5 DEF RunOp
  <2> QED BY <1>1, <2>1 DEF Told
<1>6. ASSUME NEW c \in held, MonitorEnds(c) PROVE Telling
  <2>1. \/ replies' \in {replies, Answer(c, "no reply")}
        \/ replies' \in {replies, Answer(c, "exited")}
    BY <1>6 DEF MonitorEnds
  <2> QED BY <1>1, <2>1 DEF Told
<1>7. CASE Handle
  <2>1. PICK result \in {"ok", "no reply"} : replies' = Answer(Head(mailbox), result)
    BY <1>7 DEF Handle
  <2> QED BY <1>1, <2>1 DEF Told
<1>8. CASE Exit
  <2>1. replies' = replies \cup UNION {Answer(mailbox[i], "no reply") : i \in DOMAIN mailbox}
    BY <1>8 DEF Exit
  <2>2. ASSUME NEW i \in DOMAIN mailbox
        PROVE  \A r \in Answer(mailbox[i], "no reply") : r.result \in Told
    BY AnswerTells DEF Told
  <2>3. ASSUME NEW r \in replies', r \notin replies PROVE r.result \in Told
    <3> DEFINE S == {Answer(mailbox[i], "no reply") : i \in DOMAIN mailbox}
    <3>0. r \in UNION S
      BY <2>1, <2>3
    <3>1. PICK i \in DOMAIN mailbox : r \in Answer(mailbox[i], "no reply")
      BY <3>0
    <3> QED BY <2>2, <3>1
  <2> QED BY <2>3 DEF Telling, CallInv
<1>9. CASE HostLost \/ Disconnect \/ LaneEnds \/ Crash \/ DropQuietly
  BY <1>0, <1>9 DEF HostLost, Disconnect, LaneEnds, Crash, DropQuietly
<1> QED BY <1>2, <1>3, <1>4, <1>5, <1>6, <1>7, <1>8, <1>9 DEF HostStep

\* The steps of the caller, one call at a time.
LEMMA CallKeeps ==
  ASSUME CallInv, NEW c \in Ids,
         \/ Cast(c) \/ CallOp(c) \/ Expect(c) \/ Send(c) \/ Wake(c) \/ TimeOut(c)
         \/ Cancel(c) \/ SendDemonitor(c)
  PROVE  CallInv'
<1>0. plan' = plan /\ replies' = replies /\ \A d : Replies(d)' = Replies(d)
  BY DEF Cast, CallOp, Prepare, Expect, Send, Wake, TimeOut, Cancel, SendDemonitor, netVars,
     Replies
<1>1. ASSUME NEW how \in States, answer' = answer,
             call' = [call EXCEPT ![c] = how], pending' \in SUBSET Ids,
             how \in {"idle", "preparing"} => call[c] = "idle",
             \A d \in Ids \ {c} : d \in pending' <=> d \in pending,
             c \in pending' <=> Replies(c) /\ how \in {"sending", "waiting"} /\ answer[c] = "none"
      PROVE  CallInv'
  <2>1. call' \in [Ids -> States] /\ call'[c] = how /\ \A d \in Ids \ {c} : call'[d] = call[d]
    BY <1>1 DEF CallInv
  <2>2. PendingIsAwaited'
    BY <1>0, <1>1, <2>1 DEF CallInv, PendingIsAwaited
  <2> QED BY <1>0, <1>1, <2>1, <2>2 DEF CallInv
<1>2. pending \subseteq Ids /\ pending \ {c} \subseteq Ids /\ pending \cup {c} \subseteq Ids
  BY DEF CallInv
<1>3. /\ c \in pending <=>
           Replies(c) /\ call[c] \in {"sending", "waiting"} /\ answer[c] = "none"
      /\ call[c] \in {"idle", "preparing"} => answer[c] = "none"
  BY DEF CallInv, PendingIsAwaited
<1>4. CASE Cast(c) \/ CallOp(c)
  <2> DEFINE how == IF running /\ known THEN "preparing" ELSE "refused"
  <2>1. /\ call[c] = "idle" /\ call' = [call EXCEPT ![c] = how] /\ pending' = pending
        /\ answer' = answer
    BY <1>4 DEF Cast, CallOp, Prepare
  <2> QED BY <1>1, <1>2, <1>3, <2>1 DEF States
<1>5. CASE Expect(c)
  <2>1. /\ call[c] = "preparing" /\ call' = [call EXCEPT ![c] = "sending"]
        /\ pending' = IF Replies(c) THEN pending \cup {c} ELSE pending
        /\ answer' = answer
    BY <1>5 DEF Expect
  <2> QED BY <1>1, <1>2, <1>3, <2>1 DEF States
<1>6. ASSUME NEW how \in States \ {"idle", "preparing", "sending", "waiting"}, EndWait(c, how),
             answer' = answer
      PROVE  CallInv'
  BY <1>1, <1>2, <1>6 DEF EndWait
<1>7. CASE Send(c)
  <2> DEFINE how == IF Replies(c) THEN "waiting" ELSE "sent"
  <2>0. answer' = answer
    BY <1>7 DEF Send
  <2>1. CASE EndWait(c, "full") \/ EndWait(c, "unreachable")
    BY <1>6, <2>0, <2>1 DEF States
  <2>2. CASE call' = [call EXCEPT ![c] = how] /\ pending' = pending
    <3>1. call[c] = "sending"
      BY <1>7 DEF Send
    <3> QED BY <1>1, <1>2, <1>3, <2>0, <2>2, <3>1 DEF States
  <2> QED BY <1>7, <2>1, <2>2 DEF Send
<1>8. CASE Wake(c) \/ (TimeOut(c) /\ call[c] # "sending") \/ Cancel(c)
  BY <1>6, <1>8 DEF Wake, TimeOut, Cancel, States
<1>10. CASE TimeOut(c) /\ call[c] = "sending"
  <2>1. /\ call' = call /\ pending' = pending \ {c} /\ answer' = [answer EXCEPT ![c] = "timeout"]
    BY <1>10 DEF TimeOut
  <2>2. /\ answer' \in [Ids -> Told \cup {"none"}] /\ answer'[c] = "timeout"
        /\ \A d \in Ids \ {c} : answer'[d] = answer[d]
    BY <2>1 DEF CallInv, Told
  <2>3. \A d \in Ids \ {c} : d \in pending' <=> d \in pending
    BY <2>1
  <2>4. PendingIsAwaited'
    BY <1>0, <2>1, <2>2, <2>3 DEF CallInv, PendingIsAwaited
  <2>5. \A d \in Ids : call[d] \in {"idle", "preparing"} => answer'[d] = "none"
    BY <1>10, <2>2 DEF CallInv
  <2> QED BY <1>0, <1>2, <2>1, <2>2, <2>4, <2>5 DEF CallInv
<1>9. CASE SendDemonitor(c)
  <2>1. call' = call /\ pending' = pending /\ answer' = answer
    BY <1>9 DEF SendDemonitor
  <2> QED BY <1>0, <2>1 DEF CallInv, PendingIsAwaited
<1> QED BY <1>4, <1>5, <1>7, <1>8, <1>9, <1>10

\* Answers and losses, for as many calls as they are for.
LEMMA ServeKeeps ==
  ASSUME CallInv, CallerLost \/ Stop \/ \E r \in replies : Complete(r)
  PROVE  CallInv'
<1>1. ASSUME FailAll, plan' = plan, call' = call, replies' = replies PROVE CallInv'
  <2>1. /\ pending' = {}
        /\ answer' = [c \in Ids |-> IF c \in pending THEN "disconnected" ELSE answer[c]]
    BY <1>1 DEF FailAll
  <2>2. /\ answer' \in [Ids -> Told \cup {"none"}]
        /\ \A c \in Ids : answer'[c] = IF c \in pending THEN "disconnected" ELSE answer[c]
    BY <2>1 DEF CallInv, Told
  <2>3. PendingIsAwaited'
    BY <1>1, <2>1, <2>2 DEF CallInv, PendingIsAwaited, Replies
  <2>4. \A c \in Ids : call[c] \in {"idle", "preparing"} => answer'[c] = "none"
    BY <2>2 DEF CallInv, PendingIsAwaited
  <2> QED BY <1>1, <2>1, <2>2, <2>3, <2>4 DEF CallInv
<1>2. CASE CallerLost \/ Stop
  BY <1>1, <1>2 DEF CallerLost, Stop
<1>3. ASSUME NEW r \in replies, Complete(r) PROVE CallInv'
  <2>1. plan' = plan /\ call' = call /\ replies' \subseteq replies
    BY <1>3 DEF Complete
  <2>2. CASE r.id \in pending
    <3>1. pending' = pending \ {r.id} /\ answer' = [answer EXCEPT ![r.id] = r.result]
      BY <1>3, <2>2 DEF Complete
    <3>2. r.result \in Told /\ r.id \in Ids
      BY <2>2 DEF CallInv
    <3>3. /\ answer' \in [Ids -> Told \cup {"none"}] /\ answer'[r.id] = r.result
          /\ \A c \in Ids \ {r.id} : answer'[c] = answer[c]
      BY <3>1, <3>2 DEF CallInv
    <3>4. PendingIsAwaited'
      <4>1. ASSUME NEW c \in Ids
            PROVE  c \in pending' <=>
                     /\ Replies(c)' /\ call'[c] \in {"sending", "waiting"}
                     /\ answer'[c] = "none"
        <5>1. Replies(c)' <=> Replies(c)
          BY <2>1 DEF Replies
        <5>2. CASE c = r.id
          BY <3>1, <3>2, <3>3, <5>2 DEF Told
        <5>3. CASE c # r.id
          BY <2>1, <3>1, <3>3, <5>1, <5>3 DEF CallInv, PendingIsAwaited
        <5> QED BY <5>2, <5>3
      <4> QED BY <4>1 DEF PendingIsAwaited
    <3>5. \A c \in Ids : call[c] \in {"idle", "preparing"} => answer'[c] = "none"
      BY <2>2, <3>2, <3>3 DEF CallInv, PendingIsAwaited
    <3> QED BY <2>1, <3>1, <3>3, <3>4, <3>5 DEF CallInv
  <2>3. CASE r.id \notin pending
    <3>1. pending' = pending /\ answer' = answer
      BY <1>3, <2>3 DEF Complete
    <3> QED BY <2>1, <3>1 DEF CallInv, PendingIsAwaited, Replies
  <2> QED BY <2>2, <2>3
<1> QED BY <1>2, <1>3

LEMMA CallStep == CallInv /\ [Next]_vars => CallInv'
<1> SUFFICES ASSUME CallInv, [Next]_vars PROVE CallInv'
  OBVIOUS
<1>1. ASSUME HostStep \/ Exit \/ Disconnect \/ LaneEnds \/ Crash \/ DropQuietly \/
             \E i \in DOMAIN task : Expire(i)
      PROVE  CallInv'
  <2>1. Telling
    BY <1>1, HostTells
  <2>2. UNCHANGED callerVars
    BY <1>1, Zenon
       DEF HostStep, Exit, Disconnect, LaneEnds, Crash, DropQuietly, Expire, Arrive, HostLost,
       Handle, Take, Process, CloseQueue, RunOp, MonitorEnds
  <2> QED BY <2>1, <2>2, HostKeepsCalls
<1>2. CASE MemberLost \/ MemberUp
  BY <1>2 DEF MemberLost, MemberUp, netVars, CallInv, PendingIsAwaited, Replies
<1>3. CASE UNCHANGED vars
  BY <1>3 DEF vars, callerVars, netVars, CallInv, PendingIsAwaited, Replies
<1>4. CASE CallerStep
  BY <1>4, CallKeeps, ServeKeeps DEF CallerStep
<1> QED BY <1>1, <1>2, <1>3, <1>4, CallKeeps, ServeKeeps DEF Next

\* The table of pending calls holds what is waited for without an answer, whatever
\* is sent, answered, called off, timed out or lost, and in whatever order.
THEOREM TableIsTrue == Spec => []PendingIsAwaited
<1>1. Init => CallInv
  <2> SUFFICES ASSUME Init PROVE CallInv
    OBVIOUS
  <2>1. plan \in [Ids -> Kinds]
    BY MessagingAssumption DEF Init
  <2> QED BY <2>1 DEF Init, CallInv, PendingIsAwaited, States, Told
<1>2. CallInv => PendingIsAwaited
  BY DEF CallInv
<1> QED BY <1>1, <1>2, CallStep, PTL DEF Spec

-----------------------------------------------------------------------------
\* An entry is made with the wait it is for, and goes before it or with it.
LEMMA MonitorStep == MonitorsAreHeld /\ [Next]_vars => MonitorsAreHeld'
<1> SUFFICES ASSUME MonitorsAreHeld, [Next]_vars PROVE MonitorsAreHeld'
  OBVIOUS
<1>1. ASSUME UNCHANGED <<live, held>> PROVE MonitorsAreHeld'
  BY <1>1 DEF MonitorsAreHeld
<1>2. CASE HostLost \/ Crash
  BY <1>2 DEF HostLost, Crash, MonitorsAreHeld
<1>3. ASSUME NEW f \in spawned, RunOp(f) PROVE MonitorsAreHeld'
  <2>1. CallOff(f.id) \/ Begin(f.id) \/ UNCHANGED <<live, held>>
    BY <1>3 DEF RunOp
  <2> QED BY <1>1, <2>1 DEF CallOff, Begin, MonitorsAreHeld
<1>4. ASSUME NEW c \in held, MonitorEnds(c) PROVE MonitorsAreHeld'
  BY <1>4 DEF MonitorEnds, MonitorsAreHeld
<1>5. CASE \/ Arriving \/ Handle \/ Exit \/ Disconnect \/ LaneEnds \/ DropQuietly
           \/ MemberLost \/ MemberUp \/ Stop
  BY <1>1, <1>5 DEF Arriving, Arrive, Handle, Exit, Disconnect, LaneEnds, DropQuietly, MemberLost,
     MemberUp, Stop, hostVars
<1>6. ASSUME NEW i \in DOMAIN task, Take(i) \/ Process(i) \/ CloseQueue(i) \/ Expire(i)
      PROVE  MonitorsAreHeld'
  BY <1>1, <1>6 DEF Take, Process, CloseQueue, Expire
<1>7. ASSUME NEW c \in Ids,
             \/ Cast(c) \/ CallOp(c) \/ Expect(c) \/ Send(c) \/ Wake(c) \/ TimeOut(c)
             \/ Cancel(c) \/ SendDemonitor(c)
      PROVE  MonitorsAreHeld'
  BY <1>1, <1>7 DEF Cast, CallOp, Prepare, Expect, Send, Wake, TimeOut, Cancel, SendDemonitor,
     hostVars
<1>8. ASSUME CallerLost \/ \E r \in replies : Complete(r) PROVE MonitorsAreHeld'
  BY <1>1, <1>8 DEF CallerLost, Complete, hostVars
<1>9. CASE UNCHANGED vars
  BY <1>1, <1>9 DEF vars, hostVars
<1> QED BY <1>2, <1>3, <1>4, <1>5, <1>6, <1>7, <1>8, <1>9
        DEF Next, CallerStep, HostStep, Arriving

\* A monitor that ended, was called off or was dropped with its node's connection
\* leaves no entry behind, in whatever order these happen.
THEOREM NoMonitorLeaks == Spec => []MonitorsAreHeld
<1>1. Init => MonitorsAreHeld
  BY DEF Init, MonitorsAreHeld
<1> QED BY <1>1, MonitorStep, PTL DEF Spec
-----------------------------------------------------------------------------
(* The lengths in a queue.                                                 *)

\* A set of numbers has a least one.
LEMMA Least ==
  ASSUME NEW T \in SUBSET Nat, T # {}
  PROVE  \E n \in T : \A m \in T : n <= m
<1> DEFINE R == OpToRel(<, Nat)
<1>1. \E n \in T : \A m \in T : <<m, n>> \notin R
  <2>1. IsWellFoundedOn(R, Nat)
    BY NatLessThanWellFounded
  <2> HIDE DEF R
  <2> QED BY <2>1, WFMin
<1>2. \A n, m \in Nat : <<m, n>> \in R <=> m < n
  BY DEF OpToRel
<1> HIDE DEF R
<1>3. PICK n \in T : \A m \in T : <<m, n>> \notin R
  BY <1>1
<1>4. ASSUME NEW m \in T PROVE n <= m
  <2>1. n \in Nat /\ m \in Nat /\ ~(m < n)
    BY <1>2, <1>3
  <2> QED BY <2>1
<1> QED BY <1>4

\* The sums of the lengths, up to each place of a queue.
Sums(f, q) ==
  /\ f \in [0..Len(q) -> Nat]
  /\ f[0] = 0
  /\ \A n \in 1..Len(q) : f[n] = f[n - 1] + Size[q[n]]

\* Total(q) is the last of the sums.
LEMMA SumsTotal ==
  ASSUME NEW q \in Seq(Ids), NEW f, Sums(f, q)
  PROVE  Total(q) = f[Len(q)]
<1> DEFINE total == CHOOSE g : g = [n \in 0..Len(q) |->
                                      IF n = 0 THEN 0 ELSE g[n - 1] + Size[q[n]]]
           D == {n \in 0..Len(q) : total[n] # f[n]}
<1>1. /\ Len(q) \in Nat
      /\ \A n \in 0..Len(q) : f[n] = IF n = 0 THEN 0 ELSE f[n - 1] + Size[q[n]]
  BY LenProperties DEF Sums
<1>2. total = [n \in 0..Len(q) |-> IF n = 0 THEN 0 ELSE total[n - 1] + Size[q[n]]]
  <2>1. f = [n \in 0..Len(q) |-> IF n = 0 THEN 0 ELSE f[n - 1] + Size[q[n]]]
    BY <1>1 DEF Sums
  <2> QED BY <2>1
<1>3. Total(q) = total[Len(q)]
  BY DEF Total
<1> HIDE DEF total
<1>4. D = {}
  <2> SUFFICES ASSUME D # {} PROVE FALSE
    OBVIOUS
  <2>1. D \in SUBSET Nat
    BY <1>1
  <2>2. PICK n \in D : \A m \in D : n <= m
    <3> HIDE DEF D
    <3> QED BY <2>1, Least
  <2>3. n \in 0..Len(q) /\ n # 0
    BY <1>1, <1>2
  <2>4. n - 1 \in 0..Len(q) /\ n - 1 < n
    BY <1>1, <2>3
  <2>5. n - 1 \notin D
    <3> HIDE DEF D
    <3> QED BY <1>1, <2>2, <2>3, <2>4
  <2> QED BY <1>1, <1>2, <2>3, <2>4, <2>5
<1> QED BY <1>1, <1>3, <1>4

\* The sums with one more length, at the end,
LEMMA SumsAppend ==
  ASSUME NEW q \in Seq(Ids), NEW f, Sums(f, q), NEW c \in Ids
  PROVE  /\ Total(Append(q, c)) = Total(q) + Size[c]
         /\ Sums([n \in 0..(Len(q) + 1) |->
                    IF n <= Len(q) THEN f[n] ELSE f[Len(q)] + Size[c]], Append(q, c))
<1> DEFINE g == [n \in 0..(Len(q) + 1) |->
                   IF n <= Len(q) THEN f[n] ELSE f[Len(q)] + Size[c]]
           r == Append(q, c)
<1>1. /\ r \in Seq(Ids) /\ Len(q) \in Nat /\ Len(r) = Len(q) + 1
      /\ r[Len(q) + 1] = c /\ \A n \in 1..Len(q) : r[n] = q[n]
  BY AppendProperties, LenProperties
<1>2. Size[c] \in Nat
  BY MessagingAssumption
<1>3. /\ g \in [0..Len(r) -> Nat] /\ g[Len(r)] = f[Len(q)] + Size[c]
      /\ \A n \in 0..Len(q) : g[n] = f[n]
  <2>1. \A n \in 0..Len(q) : f[n] \in Nat
    BY DEF Sums
  <2>2. Len(q) \in 0..Len(q) /\ ~(Len(q) + 1 <= Len(q)) /\ Len(q) + 1 \in 0..(Len(q) + 1)
        /\ \A n \in 0..Len(q) : n \in 0..(Len(q) + 1) /\ n <= Len(q)
    BY <1>1
  <2>3. f[Len(q)] + Size[c] \in Nat
    BY <1>2, <2>1, <2>2
  <2>4. g \in [0..(Len(q) + 1) -> Nat]
    BY <2>1, <2>3, <1>1
  <2> HIDE DEF r
  <2> QED BY <1>1, <2>2, <2>4
<1> HIDE DEF g, r
<1>4. ASSUME NEW n \in 1..Len(r) PROVE g[n] = g[n - 1] + Size[r[n]]
  <2>1. CASE n = Len(r)
    BY <1>1, <1>3, <2>1
  <2>2. CASE n \in 1..Len(q)
    <3>1. n - 1 \in 0..Len(q) /\ n \in 0..Len(q)
      BY <1>1, <2>2
    <3> QED BY <1>1, <1>3, <2>2, <3>1 DEF Sums
  <2> QED BY <1>1, <2>1, <2>2
<1>5. Sums(g, r)
  <2>1. g[0] = 0
    <3>1. 0 \in 0..Len(q) /\ f[0] = 0
      BY <1>1 DEF Sums
    <3> QED BY <1>3, <3>1
  <2> QED BY <1>3, <1>4, <2>1 DEF Sums
<1>6. Total(r) = Total(q) + Size[c]
  BY <1>1, <1>3, <1>5, SumsTotal
<1> QED BY <1>5, <1>6 DEF g, r

\* and at the beginning.
LEMMA SumsPrepend ==
  ASSUME NEW q \in Seq(Ids), q # <<>>, NEW f, Sums(f, Tail(q))
  PROVE  /\ Total(q) = Size[Head(q)] + Total(Tail(q))
         /\ Total(Tail(q)) \in Nat
<1> DEFINE g == [n \in 0..Len(q) |-> IF n = 0 THEN 0 ELSE Size[Head(q)] + f[n - 1]]
           r == Tail(q)
<1>1. /\ r \in Seq(Ids) /\ Head(q) \in Ids /\ Len(q) \in Nat \ {0} /\ Len(r) = Len(q) - 1
      /\ Head(q) = q[1] /\ \A n \in 1..(Len(q) - 1) : r[n] = q[n + 1]
  BY HeadTailProperties, LenProperties
<1>2. Size[Head(q)] \in Nat
  BY <1>1, MessagingAssumption
<1>3. /\ f \in [0..Len(r) -> Nat] /\ f[0] = 0
      /\ \A n \in 1..Len(r) : f[n] = f[n - 1] + Size[r[n]]
  BY DEF Sums
<1> HIDE DEF r
<1>4. /\ g \in [0..Len(q) -> Nat] /\ g[0] = 0
      /\ \A n \in 1..Len(q) : g[n] = Size[Head(q)] + f[n - 1]
  BY <1>1, <1>2, <1>3
<1> HIDE DEF g
<1>5. ASSUME NEW n \in 1..Len(q) PROVE g[n] = g[n - 1] + Size[q[n]]
  <2>1. CASE n = 1
    BY <1>1, <1>2, <1>3, <1>4, <2>1
  <2>2. CASE n # 1
    <3>1. n - 1 \in 1..Len(r) /\ n - 1 \in 1..Len(q) /\ (n - 1) - 1 \in 0..Len(r)
      BY <1>1, <2>2
    <3>2. f[n - 1] = f[(n - 1) - 1] + Size[r[n - 1]] /\ r[n - 1] = q[n]
      BY <1>1, <1>3, <3>1
    <3>3. q[n] \in Ids
      BY <1>1
    <3>4. Size[q[n]] \in Nat /\ f[(n - 1) - 1] \in Nat
      BY <1>3, <3>1, <3>3, MessagingAssumption
    <3>5. /\ g[n] = Size[Head(q)] + f[n - 1]
          /\ g[n - 1] = Size[Head(q)] + f[(n - 1) - 1]
      BY <1>4, <3>1
    <3> QED BY <1>2, <3>2, <3>4, <3>5
  <2> QED BY <2>1, <2>2
<1>6. Total(q) = g[Len(q)]
  BY <1>4, <1>5, SumsTotal DEF Sums
<1>7. Total(r) = f[Len(r)]
  BY <1>1, SumsTotal DEF r
<1>8. Len(q) \in 1..Len(q) /\ Len(r) \in 0..Len(r)
  BY <1>1
<1>9. Total(q) = Size[Head(q)] + Total(r) /\ Total(r) \in Nat
  BY <1>1, <1>3, <1>4, <1>6, <1>7, <1>8
<1> QED BY <1>9 DEF r

\* Every queue has its sums.
LEMMA SumsExist ==
  ASSUME NEW q \in Seq(Ids)
  PROVE  \E f : Sums(f, q)
<1> DEFINE D == {n \in 0..Len(q) : \A f : ~Sums(f, SubSeq(q, 1, n))}
<1>1. Len(q) \in Nat
  BY LenProperties
<1>2. D = {}
  <2> SUFFICES ASSUME D # {} PROVE FALSE
    OBVIOUS
  <2>1. D \in SUBSET Nat
    BY <1>1
  <2>2. PICK n \in D : \A m \in D : n <= m
    <3> HIDE DEF D
    <3> QED BY <2>1, Least
  <2>3. n # 0
    <3>1. SubSeq(q, 1, 0) = <<>>
      BY SubSeqEmpty
    <3>2. Sums([n0 \in 0..0 |-> 0], <<>>)
      BY DEF Sums
    <3>3. 0 \notin D
      BY <3>1, <3>2
    <3> QED BY <3>3
  <2>4. n - 1 \in 0..Len(q) /\ n - 1 < n /\ n \in 1..Len(q)
    BY <1>1, <2>3
  <2>5. n - 1 \notin D
    <3> HIDE DEF D
    <3> QED BY <2>1, <2>2, <2>4
  <2>6. PICK f : Sums(f, SubSeq(q, 1, n - 1))
    BY <2>4, <2>5
  <2>7. q[n] \in Ids /\ SubSeq(q, 1, n - 1) \in Seq(Ids)
    BY <1>1, <2>4, SubSeqProperties
  <2>8. SubSeq(q, 1, n) = Append(SubSeq(q, 1, n - 1), q[n])
    BY <1>1, <2>4, SubSeqProperties
  <2>9. \E g : Sums(g, SubSeq(q, 1, n))
    BY <2>6, <2>7, <2>8, SumsAppend
  <2> QED BY <2>9
<1>3. SubSeq(q, 1, Len(q)) = q
  BY SubSeqFull
<1>4. ~ \A f : ~Sums(f, SubSeq(q, 1, Len(q)))
  BY <1>1, <1>2
<1> QED BY <1>3, <1>4

\* What a queue holds when a message joins it,
LEMMA TotalAppend ==
  ASSUME NEW q \in Seq(Ids), NEW c \in Ids
  PROVE  Total(Append(q, c)) = Total(q) + Size[c] /\ Total(q) \in Nat
<1>1. PICK f : Sums(f, q)
  BY SumsExist
<1>2. Total(q) = f[Len(q)] /\ Len(q) \in 0..Len(q)
  BY <1>1, SumsTotal, LenProperties
<1>3. f[Len(q)] \in Nat
  BY <1>1, <1>2 DEF Sums
<1>4. Total(Append(q, c)) = Total(q) + Size[c]
  BY <1>1, SumsAppend
<1> QED BY <1>2, <1>3, <1>4

\* and when its first is taken.
LEMMA TotalTail ==
  ASSUME NEW q \in Seq(Ids), q # <<>>
  PROVE  Total(Tail(q)) = Total(q) - Size[Head(q)] /\ Total(Tail(q)) \in Nat
<1>1. Tail(q) \in Seq(Ids) /\ Head(q) \in Ids
  BY HeadTailProperties
<1>2. PICK f : Sums(f, Tail(q))
  BY <1>1, SumsExist
<1>3. Size[Head(q)] \in Nat
  BY <1>1, MessagingAssumption
<1> QED BY <1>2, <1>3, SumsPrepend

\* An empty queue holds nothing.
LEMMA TotalEmpty == Total(<<>>) = 0
<1>1. Sums([n \in 0..0 |-> 0], <<>>)
  BY DEF Sums
<1>2. <<>> \in Seq(Ids) /\ Len(<<>>) = 0
  OBVIOUS
<1> QED BY <1>1, <1>2, SumsTotal

-----------------------------------------------------------------------------
(* What waits for a task.                                                  *)

Frames == [id : Ids, what : {"message", "demonitor"}]
Tasks  == [queue : Seq(Ids), closed : BOOLEAN, pc : {"ready", "delivering", "expired"},
           work : Ids, queued : [messages : Nat, bytes : Nat]]

\* What makes the limits hold: Queued counts what the queue holds.
Counted(t) ==
  /\ t.queued.messages = Len(t.queue) /\ t.queued.bytes = Total(t.queue)
  /\ Len(t.queue) <= MaxMessages
  /\ Len(t.queue) > 1 => Total(t.queue) <= MaxBytes

\* The actor's task is the last one that was started, and the lane has a stream.
QueueInv ==
  /\ streams \in Seq(Seq(Frames)) /\ lane \in DOMAIN streams
  /\ task \in Seq(Tasks) /\ route = Len(task)
  /\ \A i \in DOMAIN task : Counted(task[i])

\* The tasks that Route and Take leave behind.
Queueing(t, c) == [t EXCEPT !.queue = Append(@, c), !.queued = Admitted(@, c)]
Taking(t)      == [t EXCEPT !.queue = Tail(@), !.queued = Released(@, Head(t.queue)),
                            !.pc = "delivering", !.work = Head(t.queue)]

LEMMA NewTaskCounts ==
  ASSUME NEW c \in Ids
  PROVE  NewTask(c) \in Tasks /\ Counted(NewTask(c))
<1>1. Append(<<>>, c) = <<c>> /\ <<>> \in Seq(Ids) /\ <<c>> \in Seq(Ids) /\ Len(<<c>>) = 1
  OBVIOUS
<1>2. Total(<<c>>) = Size[c] /\ Size[c] \in Nat
  <2>1. Total(Append(<<>>, c)) = Total(<<>>) + Size[c]
    BY <1>1, TotalAppend
  <2>2. Total(<<c>>) = 0 + Size[c]
    BY <1>1, <2>1, TotalEmpty
  <2> QED BY <2>2, MessagingAssumption
<1>3. NewTask(c).queued = [messages |-> 1, bytes |-> Size[c]]
  <2>1. NewTask(c).queued = [messages |-> 0 + 1, bytes |-> 0 + Size[c]]
    BY DEF NewTask, Admitted
  <2> QED BY <1>2, <2>1
<1> QED BY <1>1, <1>2, <1>3, MessagingAssumption DEF NewTask, Tasks, Counted

LEMMA QueueingCounts ==
  ASSUME NEW t \in Tasks, Counted(t), NEW c \in Ids, Admits(t.queued, c)
  PROVE  Queueing(t, c) \in Tasks /\ Counted(Queueing(t, c))
<1> DEFINE q == t.queue
           r == Append(t.queue, c)
<1>1. q \in Seq(Ids) /\ r \in Seq(Ids) /\ Len(q) \in Nat /\ Len(r) = Len(q) + 1
  BY AppendProperties, LenProperties DEF Tasks
<1>2. Total(r) = Total(q) + Size[c] /\ Total(q) \in Nat /\ Size[c] \in Nat
  BY <1>1, TotalAppend, MessagingAssumption
<1>3. /\ t.queued = [messages |-> Len(q), bytes |-> Total(q)]
      /\ t.queued.messages = Len(q) /\ t.queued.bytes = Total(q)
  BY DEF Counted, Tasks
<1>4. Queueing(t, c).queued = [messages |-> Len(r), bytes |-> Total(r)]
  BY <1>1, <1>2, <1>3 DEF Queueing, Admitted, Tasks
<1>5. Queueing(t, c).queue = r
  BY DEF Queueing, Tasks
<1>6. Queueing(t, c) \in Tasks
  <2>1. Queueing(t, c) = [t EXCEPT !.queue = r, !.queued = Queueing(t, c).queued]
    BY DEF Queueing, Tasks
  <2>2. Queueing(t, c).queued \in [messages : Nat, bytes : Nat]
    BY <1>1, <1>2, <1>4
  <2>3. ASSUME NEW x \in [messages : Nat, bytes : Nat]
        PROVE  [t EXCEPT !.queue = r, !.queued = x] \in Tasks
    BY <1>1 DEF Tasks
  <2> QED BY <2>1, <2>2, <2>3
<1>7. Len(r) <= MaxMessages /\ (Len(r) > 1 => Total(r) <= MaxBytes)
  BY <1>1, <1>2, <1>3, MessagingAssumption DEF Admits
<1> QED BY <1>4, <1>5, <1>6, <1>7 DEF Counted

LEMMA TakingCounts ==
  ASSUME NEW t \in Tasks, Counted(t), t.queue # <<>>
  PROVE  Taking(t) \in Tasks /\ Counted(Taking(t))
<1> DEFINE q == t.queue
           r == Tail(t.queue)
           c == Head(t.queue)
<1>1. /\ q \in Seq(Ids) /\ r \in Seq(Ids) /\ c \in Ids
      /\ Len(q) \in Nat /\ Len(r) = Len(q) - 1 /\ Len(r) \in Nat
  BY HeadTailProperties, LenProperties DEF Tasks
<1>2. /\ Total(r) = Total(q) - Size[c] /\ Total(r) \in Nat /\ Size[c] \in Nat
      /\ Total(q) \in Nat
  BY <1>1, TotalTail, TotalAppend, MessagingAssumption
<1>3. /\ t.queued = [messages |-> Len(q), bytes |-> Total(q)]
      /\ t.queued.messages = Len(q) /\ t.queued.bytes = Total(q)
  BY DEF Counted, Tasks
<1>4. Taking(t).queued = [messages |-> Len(r), bytes |-> Total(r)]
  <2>1. Taking(t).queued = Released(t.queued, c)
    BY DEF Taking, Tasks
  <2>2. Taking(t).queued = [messages |-> Len(q) - 1, bytes |-> Total(q) - Size[c]]
    BY <1>3, <2>1 DEF Released, Tasks
  <2> QED BY <1>1, <1>2, <2>2
<1>5. Taking(t).queue = r
  BY DEF Taking, Tasks
<1>6. Taking(t) \in Tasks
  <2>1. Taking(t) = [t EXCEPT !.queue = r, !.queued = Taking(t).queued, !.pc = "delivering",
                              !.work = c]
    BY DEF Taking, Tasks
  <2>2. Taking(t).queued \in [messages : Nat, bytes : Nat]
    BY <1>1, <1>2, <1>4
  <2>3. ASSUME NEW x \in [messages : Nat, bytes : Nat]
        PROVE  [t EXCEPT !.queue = r, !.queued = x, !.pc = "delivering", !.work = c] \in Tasks
    BY <1>1 DEF Tasks
  <2> QED BY <2>1, <2>2, <2>3
<1>7. Len(r) <= MaxMessages /\ (Len(r) > 1 => Total(r) <= MaxBytes)
  BY <1>1, <1>2, MessagingAssumption DEF Counted
<1> QED BY <1>4, <1>5, <1>6, <1>7 DEF Counted

\* What a step of a task leaves behind.
LEMMA TaskSteps ==
  ASSUME QueueInv, NEW i \in DOMAIN task,
         \/ Take(i) \/ Process(i) \/ Expire(i) \/ CloseQueue(i)
  PROVE  \E t \in Tasks : Counted(t) /\ task' = [task EXCEPT ![i] = t]
<1>1. task[i] \in Tasks /\ Counted(task[i])
  BY DEF QueueInv
<1>2. CASE Take(i)
  <2>1. task[i].queue # <<>> /\ task' = [task EXCEPT ![i] = Taking(task[i])]
    BY <1>1, <1>2 DEF Take, Taking, Tasks
  <2> QED BY <1>1, <2>1, TakingCounts
<1>3. CASE ~Take(i)
  <2>1. PICK pc \in {"ready", "expired"}, closed \in BOOLEAN :
          task' = [task EXCEPT ![i].pc = pc, ![i].closed = closed]
    <3>1. CASE CloseQueue(i)
      <4>1. task' = [task EXCEPT ![i].pc = "ready", ![i].closed = TRUE]
        BY <3>1 DEF CloseQueue
      <4> QED BY <4>1
    <3>2. CASE Process(i) \/ Expire(i)
      <4>1. PICK pc \in {"ready", "expired"} : task' = [task EXCEPT ![i].pc = pc]
        BY <3>2 DEF Process, Expire
      <4>2. task[i].closed \in BOOLEAN
        BY <1>1 DEF Tasks
      <4>3. [task[i] EXCEPT !.pc = pc] = [task[i] EXCEPT !.pc = pc, !.closed = task[i].closed]
        BY <1>1 DEF Tasks
      <4>4. task' = [task EXCEPT ![i] = [task[i] EXCEPT !.pc = pc, !.closed = task[i].closed]]
        BY <4>1, <4>3
      <4> QED BY <4>2, <4>4
    <3> QED BY <1>3, <3>1, <3>2
  <2> DEFINE t == [task[i] EXCEPT !.pc = pc, !.closed = closed]
  <2>2. task' = [task EXCEPT ![i] = t]
    BY <1>1, <2>1 DEF Tasks
  <2>3. t \in Tasks /\ t.queue = task[i].queue /\ t.queued = task[i].queued
    BY <1>1 DEF Tasks
  <2> QED BY <1>1, <2>2, <2>3 DEF Counted
<1> QED BY <1>2, <1>3

\* What a message does to the tasks.
LEMMA RouteSteps ==
  ASSUME QueueInv, NEW c \in Ids, Route(c)
  PROVE  \/ task' = task /\ route' = route
         \/ /\ route \in DOMAIN task /\ route' = route /\ ~task[route].closed
            /\ Admits(task[route].queued, c)
            /\ task' = [task EXCEPT ![route] = Queueing(task[route], c)]
         \/ /\ task # <<>> => task[Len(task)].closed
            /\ task' = Append(task, NewTask(c)) /\ route' = Len(task')
<1>1. task \in Seq(Tasks) /\ route = Len(task) /\ Len(task) \in Nat /\ DOMAIN task = 1..Len(task)
  BY LenProperties DEF QueueInv
<1>2. CASE /\ route # 0 /\ Admits(task[route].queued, c) /\ ~task[route].closed
           /\ task' = [task EXCEPT ![route].queue = Append(@, c),
                                   ![route].queued = Admitted(@, c)]
           /\ route' = route
  <2>1. route \in DOMAIN task /\ task[route] \in Tasks
    BY <1>1, <1>2
  <2> QED BY <1>1, <1>2, <2>1 DEF Queueing, Tasks
<1> QED BY <1>1, <1>2, EmptySeq DEF Route

\* A replaced task, and another one.
LEMMA ReplaceKeeps ==
  ASSUME QueueInv, NEW i \in DOMAIN task, NEW t \in Tasks, Counted(t),
         task' = [task EXCEPT ![i] = t], route' = route,
         streams' \in Seq(Seq(Frames)), lane' \in DOMAIN streams'
  PROVE  QueueInv'
<1>1. task' \in Seq(Tasks) /\ Len(task') = Len(task) /\ DOMAIN task' = DOMAIN task
  BY ExceptSeq, LenProperties DEF QueueInv
<1>2. \A j \in DOMAIN task' : task'[j] = IF j = i THEN t ELSE task[j]
  BY <1>1
<1>3. \A j \in DOMAIN task' : Counted(task'[j])
  BY <1>1, <1>2 DEF QueueInv
<1> QED BY <1>1, <1>3 DEF QueueInv

LEMMA AppendKeeps ==
  ASSUME QueueInv, NEW c \in Ids,
         task' = Append(task, NewTask(c)), route' = Len(task'),
         streams' \in Seq(Seq(Frames)), lane' \in DOMAIN streams'
  PROVE  QueueInv'
<1>1. NewTask(c) \in Tasks /\ Counted(NewTask(c))
  BY NewTaskCounts
<1>2. task \in Seq(Tasks) /\ Len(task) \in Nat /\ DOMAIN task = 1..Len(task)
  BY LenProperties DEF QueueInv
<1>3. /\ task' \in Seq(Tasks) /\ DOMAIN task' = 1..(Len(task) + 1)
      /\ task'[Len(task) + 1] = NewTask(c) /\ \A j \in 1..Len(task) : task'[j] = task[j]
  BY <1>1, <1>2, AppendProperties
<1>4. ASSUME NEW j \in DOMAIN task' PROVE Counted(task'[j])
  <2>1. j \in DOMAIN task \/ j = Len(task) + 1
    BY <1>2, <1>3
  <2> QED BY <1>1, <1>2, <1>3, <2>1 DEF QueueInv
<1> QED BY <1>3, <1>4 DEF QueueInv

\* A stream that is replaced, and another one.
LEMMA StreamReplaced ==
  ASSUME QueueInv, NEW n \in DOMAIN streams, NEW s \in Seq(Frames)
  PROVE  LET r == [streams EXCEPT ![n] = s] IN
         /\ r \in Seq(Seq(Frames)) /\ DOMAIN r = DOMAIN streams
         /\ \A m \in DOMAIN streams : r[m] = IF m = n THEN s ELSE streams[m]
  BY ExceptSeq, LenProperties DEF QueueInv

LEMMA StreamAppended ==
  ASSUME NEW r \in Seq(Seq(Frames)), NEW s \in Seq(Frames)
  PROVE  /\ Append(r, s) \in Seq(Seq(Frames)) /\ Len(r) \in Nat /\ DOMAIN r = 1..Len(r)
         /\ DOMAIN Append(r, s) = 1..(Len(r) + 1) /\ Len(Append(r, s)) = Len(r) + 1
         /\ Append(r, s)[Len(r) + 1] = s
         /\ \A m \in DOMAIN r : Append(r, s)[m] = r[m]
  BY AppendProperties, LenProperties

\* The first of a stream, and parts of it.
LEMMA StreamParts ==
  ASSUME NEW s \in Seq(Frames)
  PROVE  /\ s # <<>> => Tail(s) \in Seq(Frames) /\ Head(s) \in Frames
         /\ \A c \in Ids : /\ Append(s, Frame(c)) \in Seq(Frames)
                           /\ Append(s, Demonitor(c)) \in Seq(Frames)
         /\ \A j \in 0..Len(s), k \in 0..Len(s) :
              SubSeq(s, 1, j) \in Seq(Frames) /\ SubSeq(s, k + 1, Len(s)) \in Seq(Frames)
<1>1. \A c \in Ids : Frame(c) \in Frames /\ Demonitor(c) \in Frames
  BY DEF Frame, Demonitor, Frames
<1>2. Len(s) \in Nat
  BY LenProperties
<1>3. ASSUME NEW j \in 0..Len(s) PROVE SubSeq(s, 1, j) \in Seq(Frames)
  <2>1. /\ j \in Int /\ 1 \in Int
        /\ \A i \in 1..j : i \in 1..Len(s)
    BY <1>2
  <2> QED BY <1>2, <2>1, SubSeqProperties
<1>4. ASSUME NEW k \in 0..Len(s) PROVE SubSeq(s, k + 1, Len(s)) \in Seq(Frames)
  BY <1>2, SubSeqProperties
<1> QED BY <1>1, <1>3, <1>4, AppendProperties, HeadTailProperties

\* What happens to a message that arrives.
LEMMA RouteKeeps ==
  ASSUME QueueInv, NEW c \in Ids, Route(c),
         streams' \in Seq(Seq(Frames)), lane' \in DOMAIN streams'
  PROVE  QueueInv'
<1>1. CASE task' = task /\ route' = route
  BY <1>1 DEF QueueInv
<1>2. CASE /\ route \in DOMAIN task /\ route' = route
           /\ Admits(task[route].queued, c)
           /\ task' = [task EXCEPT ![route] = Queueing(task[route], c)]
  <2>1. task[route] \in Tasks /\ Counted(task[route])
    BY <1>2 DEF QueueInv
  <2>2. Queueing(task[route], c) \in Tasks /\ Counted(Queueing(task[route], c))
    BY <1>2, <2>1, QueueingCounts
  <2> QED BY <1>2, <2>2, ReplaceKeeps
<1>3. CASE task' = Append(task, NewTask(c)) /\ route' = Len(task')
  BY <1>3, AppendKeeps
<1> QED BY <1>1, <1>2, <1>3, RouteSteps

LEMMA QueueStep == QueueInv /\ [Next]_vars => QueueInv'
<1> SUFFICES ASSUME QueueInv, [Next]_vars PROVE QueueInv'
  OBVIOUS
<1>0. /\ streams \in Seq(Seq(Frames)) /\ lane \in DOMAIN streams
      /\ \A n \in DOMAIN streams : streams[n] \in Seq(Frames)
  BY DEF QueueInv
<1>1. ASSUME task' = task, route' = route, streams' \in Seq(Seq(Frames)), lane' \in DOMAIN streams'
      PROVE  QueueInv'
  BY <1>1 DEF QueueInv
<1>2. ASSUME NEW n \in DOMAIN streams, NEW s \in Seq(Frames),
             streams' = [streams EXCEPT ![n] = s], lane' = lane
      PROVE  streams' \in Seq(Seq(Frames)) /\ lane' \in DOMAIN streams'
  BY <1>0, <1>2, StreamReplaced
<1>3. ASSUME NEW n \in DOMAIN streams, Arrive(n) PROVE QueueInv'
  <2>1. /\ streams[n] # <<>> /\ streams' = [streams EXCEPT ![n] = Tail(@)] /\ lane' = lane
        /\ (task' = task /\ route' = route) \/ Route(Head(streams[n]).id)
    BY <1>3 DEF Arrive
  <2>2. Head(streams[n]).id \in Ids /\ Tail(streams[n]) \in Seq(Frames)
    BY <1>0, <2>1, StreamParts DEF Frames
  <2>3. streams' \in Seq(Seq(Frames)) /\ lane' \in DOMAIN streams'
    BY <1>2, <2>1, <2>2
  <2> QED BY <1>1, <2>1, <2>2, <2>3, RouteKeeps
<1>4. ASSUME NEW i \in DOMAIN task, Take(i) \/ Process(i) \/ Expire(i) \/ CloseQueue(i)
      PROVE  QueueInv'
  <2>1. streams' = streams /\ lane' = lane /\ route' = route
    BY <1>4 DEF Take, Process, Expire, CloseQueue, netVars, wire
  <2> QED BY <1>0, <1>4, <2>1, TaskSteps, ReplaceKeeps
<1>5. ASSUME HostLost \/ Handle \/ Exit \/ Stop \/ MemberLost \/ MemberUp \/ CallerLost
             \/ (\E r \in replies : Complete(r)) \/ (\E f \in spawned : RunOp(f))
             \/ (\E c \in held : MonitorEnds(c)) \/ UNCHANGED vars
      PROVE  QueueInv'
  BY <1>0, <1>1, <1>5 DEF HostLost, Handle, Exit, Stop, MemberLost, MemberUp, CallerLost, Complete,
     RunOp, MonitorEnds, hostVars, netVars, wire, vars
<1>6. ASSUME NEW c \in Ids,
             \/ Cast(c) \/ CallOp(c) \/ Expect(c) \/ Send(c) \/ Wake(c) \/ TimeOut(c)
             \/ Cancel(c) \/ SendDemonitor(c)
      PROVE  QueueInv'
  <2>1. /\ task' = task /\ route' = route /\ lane' = lane
        /\ streams' = streams \/ \E f \in {Frame(c), Demonitor(c)} : Put(f)
    BY <1>6 DEF Cast, CallOp, Prepare, Expect, Send, Wake, TimeOut, Cancel, SendDemonitor,
       hostVars, netVars, wire
  <2>2. ASSUME NEW f \in {Frame(c), Demonitor(c)}, Put(f) PROVE QueueInv'
    <3>1. streams' = [streams EXCEPT ![lane] = Append(streams[lane], f)]
      BY <2>2 DEF Put
    <3>2. Append(streams[lane], f) \in Seq(Frames)
      BY <1>0, StreamParts
    <3> QED BY <1>0, <1>1, <1>2, <2>1, <3>1, <3>2
  <2> QED BY <1>0, <1>1, <2>1, <2>2
<1>7. CASE Disconnect
  <2>0. PICK n \in DOMAIN streams : \E j \in 0..Len(streams[n]) : \E k \in j..Len(streams[n]) :
          /\ streams' = Append([streams EXCEPT ![n] = SubSeq(streams[n], 1, j)],
                               SubSeq(streams[n], k + 1, Len(streams[n])))
          /\ lane' = IF n = lane THEN Len(streams') ELSE lane
    BY <1>7 DEF Disconnect
  <2>1. PICK j \in 0..Len(streams[n]) : \E k \in j..Len(streams[n]) :
          /\ streams' = Append([streams EXCEPT ![n] = SubSeq(streams[n], 1, j)],
                               SubSeq(streams[n], k + 1, Len(streams[n])))
          /\ lane' = IF n = lane THEN Len(streams') ELSE lane
    BY <2>0
  <2>7. PICK k \in j..Len(streams[n]) :
          /\ streams' = Append([streams EXCEPT ![n] = SubSeq(streams[n], 1, j)],
                               SubSeq(streams[n], k + 1, Len(streams[n])))
          /\ lane' = IF n = lane THEN Len(streams') ELSE lane
    BY <2>1
  <2>2. k \in 0..Len(streams[n])
    OBVIOUS
  <2> DEFINE a == SubSeq(streams[n], 1, j)
             b == SubSeq(streams[n], k + 1, Len(streams[n]))
             r == [streams EXCEPT ![n] = a]
  <2>3. a \in Seq(Frames) /\ b \in Seq(Frames)
    BY <1>0, <2>2, StreamParts
  <2> HIDE DEF a, b
  <2>4. r \in Seq(Seq(Frames)) /\ DOMAIN r = DOMAIN streams
    BY <2>3, StreamReplaced
  <2>5. streams' = Append(r, b) /\ lane' = IF n = lane THEN Len(streams') ELSE lane
    BY <2>7 DEF a, b
  <2> HIDE DEF r
  <2>6. streams' \in Seq(Seq(Frames)) /\ lane' \in DOMAIN streams'
    BY <1>0, <2>3, <2>4, <2>5, StreamAppended
  <2> QED BY <1>1, <1>7, <2>6 DEF Disconnect, hostVars
<1>8. CASE LaneEnds
  <2>1. streams' = Append(streams, <<>>) /\ lane' = Len(streams') /\ <<>> \in Seq(Frames)
    BY <1>8 DEF LaneEnds
  <2>2. streams' \in Seq(Seq(Frames)) /\ lane' \in DOMAIN streams'
    BY <1>0, <2>1, StreamAppended
  <2> QED BY <1>1, <1>8, <2>2 DEF LaneEnds, hostVars
<1>9. CASE Crash
  <2>1. streams' = << <<>> >> /\ lane' = 1 /\ task' = <<>> /\ route' = 0
    BY <1>9 DEF Crash
  <2>2. << <<>> >> \in Seq(Seq(Frames)) /\ DOMAIN << <<>> >> = {1}
    OBVIOUS
  <2> QED BY <2>1, <2>2 DEF QueueInv
<1>10. CASE DropQuietly
  <2>1. /\ task' = task /\ route' = route /\ lane' = lane
        /\ \/ streams' = streams
           \/ \E n \in DOMAIN streams :
                streams[n] # <<>> /\ streams' = [streams EXCEPT ![n] = Tail(streams[n])]
    BY <1>10 DEF DropQuietly, hostVars
  <2> QED BY <1>0, <1>1, <1>2, <2>1, StreamParts
<1> QED BY <1>3, <1>4, <1>5, <1>6, <1>7, <1>8, <1>9, <1>10 DEF Next, CallerStep, HostStep

\* What waits for a task of an actor stays within the limits of messages and of
\* bytes, whatever their sizes, and however messages arrive and are taken: a
\* message too large for the limit waits alone.
THEOREM QueuesAreBounded == Spec => []AdmissionBound
<1>1. Init => QueueInv
  BY DEF Init, QueueInv
<1>2. QueueInv => AdmissionBound
  BY DEF QueueInv, Counted, AdmissionBound
<1> QED BY <1>1, <1>2, QueueStep, PTL DEF Spec

-----------------------------------------------------------------------------
(* The order of the messages.                                              *)

\* A message for the mailbox, and one that its sender is done with.
Mail(c)    == ~Bypasses(Frame(c))
Past(c)    == call[c] \notin {"idle", "preparing", "sending"}
Shipped(c) == c \in Ids /\ Mail(c) /\ Past(c)

\* The sender is done with a message before it begins with the next.
CastInv ==
  /\ \A c \in Ids : plan[c] = "none" => call[c] = "idle"
  /\ \A c, d \in Ids :
       d < c /\ Mail(c) /\ Mail(d) /\ plan[d] # "none" /\ call[c] # "idle" => Past(d)

\* Where a message is: on a stream, in a queue or in a mailbox.
On(s, c)      == \E i \in DOMAIN s : ~Bypasses(s[i]) /\ s[i].id = c
InQueue(t, c) == \E i \in DOMAIN t.queue : t.queue[i] = c
InHand(t, c)  == t.pc = "delivering" /\ t.work = c
Delivered(c)  == \E i \in DOMAIN delivered : delivered[i] = c
Hosted(c)     == Delivered(c) \/ \E i \in DOMAIN task : InQueue(task[i], c) \/ InHand(task[i], c)

\* The sender is done with all of it.
ShipInv ==
  /\ delivered \in Seq(Ids)
  /\ \A n \in DOMAIN streams, c \in Ids : On(streams[n], c) => Shipped(c)
  /\ \A c : Hosted(c) => Shipped(c)

MailRising(s) ==
  \A i, j \in DOMAIN s : i < j /\ ~Bypasses(s[i]) /\ ~Bypasses(s[j]) => s[i].id < s[j].id

\* Each stream holds its messages in their order, none that another holds or that the
\* host has, and only what is behind all that came on it.
WireInv ==
  /\ via \in [Ids -> Nat] /\ \A d \in Ids : Hosted(d) => via[d] \in DOMAIN streams
  /\ \A n \in DOMAIN streams : MailRising(streams[n])
  /\ \A n, m \in DOMAIN streams, c \in Ids : On(streams[n], c) /\ On(streams[m], c) => n = m
  /\ \A n \in DOMAIN streams, c \in Ids :
       On(streams[n], c) =>
         ~Hosted(c) /\ \A d \in Ids : Hosted(d) /\ via[d] = n => d < c

\* What the order demands of two messages, the one before the other, that came on
\* the streams v.
Before(v, d, c) == v[d] = v[c] => d < c
Rising(v, s)    == \A i, j \in DOMAIN s : i < j => Before(v, s[i], s[j])

\* While no task closed its queue there is one task, and each of the places a message
\* passes at the host holds what is behind all that is in the places after it.
LineInv ==
  /\ Rising(via, delivered)
  /\ \A i \in DOMAIN task :
       /\ i = 1 /\ Rising(via, task[i].queue)
       /\ \A c, d \in Ids : InQueue(task[i], c) /\ Delivered(d) => Before(via, d, c)
       /\ task[i].pc = "delivering" =>
            \A c \in Ids : /\ InQueue(task[i], c) => Before(via, task[i].work, c)
                           /\ Delivered(c) => Before(via, c, task[i].work)

NoneClosed == \A i \in DOMAIN task : ~task[i].closed
OrderInv   == CastInv /\ ShipInv /\ WireInv /\ (NoneClosed => LineInv)

\* A call moves on, and is begun in its turn.
Moves(c, how) ==
  /\ call' = [call EXCEPT ![c] = how]
  /\ Past(c) => how \notin {"preparing", "sending"}
  /\ call[c] = "idle" => plan[c] # "none"
  /\ call[c] = "idle" /\ Mail(c) =>
       \A d \in Ids : d < c /\ Mail(d) => Past(d) \/ plan[d] = "none"

LEMMA CallMoves ==
  ASSUME [Next]_vars
  PROVE  /\ plan' = plan
         /\ call' = call \/ \E c \in Ids, how \in States \ {"idle"} : Moves(c, how)
<1>1. ASSUME NEW c \in Ids, Cast(c) \/ CallOp(c)
      PROVE  plan' = plan /\ \E how \in States \ {"idle"} : Moves(c, how)
  <2>1. PICK how \in {"preparing", "refused"} : call' = [call EXCEPT ![c] = how]
    BY <1>1 DEF Cast, CallOp, Prepare
  <2>2. call[c] = "idle" /\ plan[c] # "none" /\ plan' = plan
    BY <1>1 DEF Cast, CallOp, Prepare
  <2>3. Mail(c) => \A d \in Ids : d < c /\ Mail(d) => Past(d) \/ plan[d] = "none"
    BY <1>1 DEF Cast, CallOp, Mail, Past
  <2> QED BY <2>1, <2>2, <2>3 DEF Moves, Past, States
<1>2. ASSUME NEW c \in Ids,
             \/ Expect(c) \/ Send(c) \/ Wake(c) \/ Cancel(c)
             \/ TimeOut(c) /\ call[c] = "waiting"
      PROVE  plan' = plan /\ \E how \in States \ {"idle"} : Moves(c, how)
  <2>1. PICK how \in States \ {"idle"} :
          /\ call' = [call EXCEPT ![c] = how]
          /\ call[c] # "idle" /\ (Past(c) => how \notin {"preparing", "sending"})
    BY <1>2 DEF Expect, Send, Wake, TimeOut, Cancel, EndWait, Past, States
  <2>2. plan' = plan
    BY <1>2 DEF Expect, Send, Wake, TimeOut, Cancel
  <2> QED BY <2>1, <2>2 DEF Moves
<1>3. ASSUME NEW c \in Ids, SendDemonitor(c) \/ (TimeOut(c) /\ call[c] # "waiting")
      PROVE  plan' = plan /\ call' = call
  BY <1>3, Zenon DEF SendDemonitor, TimeOut
<1>4. CASE HostStep \/ CallerLost \/ \E r \in replies : Complete(r)
  BY <1>4, Zenon DEF HostStep, Arrive, HostLost, Handle, Take, Process, CloseQueue, RunOp,
     MonitorEnds, CallerLost, Complete, callerVars
<1>5. CASE \/ Exit \/ Stop \/ Disconnect \/ LaneEnds \/ Crash \/ MemberLost \/ MemberUp
           \/ DropQuietly \/ UNCHANGED vars \/ \E i \in DOMAIN task : Expire(i)
  BY <1>5 DEF Exit, Stop, Disconnect, LaneEnds, Crash, MemberLost, MemberUp, DropQuietly, Expire, vars,
     callerVars
<1> QED BY <1>1, <1>2, <1>3, <1>4, <1>5 DEF Next, CallerStep

\* What is shipped stays so.
LEMMA CastStep ==
  ASSUME CallInv, CastInv, [Next]_vars
  PROVE  /\ CastInv' /\ plan' = plan /\ \A f : Bypasses(f)' = Bypasses(f)
         /\ \A c \in Ids : Shipped(c) => Shipped(c)'
<1>1. plan' = plan /\ (\A f : Bypasses(f)' = Bypasses(f)) /\ (\A c : Mail(c)' = Mail(c))
  BY CallMoves DEF Bypasses, Mail, Frame
<1>2. CASE call' = call
  BY <1>1, <1>2 DEF CastInv, Past, Shipped
<1>3. ASSUME NEW c \in Ids, NEW how \in States \ {"idle"}, Moves(c, how)
      PROVE  CastInv' /\ \A d \in Ids : Past(d) => Past(d)'
  <2>1. \A d \in Ids : call'[d] = IF d = c THEN how ELSE call[d]
    BY <1>3 DEF Moves, CallInv
  <2>2. \A d \in Ids : Past(d) => Past(d)'
    BY <1>3, <2>1 DEF Moves, Past
  <2>3. \A d \in Ids : plan'[d] = "none" => call'[d] = "idle"
    BY <1>1, <1>3, <2>1 DEF Moves, CastInv
  <2>4. ASSUME NEW a \in Ids, NEW d \in Ids,
               d < a, Mail(a), Mail(d), plan[d] # "none", call'[a] # "idle"
        PROVE  Past(d)'
    <3>1. Past(d)
      BY <1>3, <2>1, <2>4 DEF Moves, CastInv
    <3> QED BY <2>2, <3>1
  <2> QED BY <1>1, <2>2, <2>3, <2>4 DEF CastInv
<1>4. \A c \in Ids : Past(c) => Past(c)'
  BY <1>2, <1>3, CallMoves DEF Past
<1> QED BY <1>1, <1>2, <1>3, <1>4, CallMoves DEF Shipped

\* A message that is about to be sent is the last.
LEMMA ShippedIsBefore ==
  ASSUME CastInv, NEW c \in Ids, Mail(c), call[c] = "sending", NEW d \in Ids, Shipped(d)
  PROVE  d < c
<1>1. c \in Nat /\ d \in Nat /\ plan[c] # "none" /\ call[d] # "idle" /\ ~Past(c)
  BY MessagingAssumption DEF CastInv, Shipped, Past
<1>2. d # c /\ ~(c < d)
  BY <1>1 DEF CastInv, Shipped
<1> QED BY <1>1, <1>2

\* The two parts of a stream before and after what is lost of it.
LEMMA PartsOfStream ==
  ASSUME NEW s \in Seq(Frames), NEW j \in 0..Len(s), NEW k \in j..Len(s)
  PROVE  LET a == SubSeq(s, 1, j)
             b == SubSeq(s, k + 1, Len(s))
         IN  /\ \A c : On(a, c) \/ On(b, c) => On(s, c)
             /\ MailRising(s) => /\ MailRising(a) /\ MailRising(b)
                                 /\ \A c : ~(On(a, c) /\ On(b, c))
<1> DEFINE a == SubSeq(s, 1, j)
           b == SubSeq(s, k + 1, Len(s))
<1>1. Len(s) \in Nat /\ DOMAIN s = 1..Len(s) /\ j \in Nat /\ k \in Nat /\ j <= k /\ k <= Len(s)
  BY LenProperties
<1>2. DOMAIN a = 1..j /\ \A i \in 1..j : a[i] = s[i]
  <2>1. \A i \in 1..j : i \in 1..Len(s)
    BY <1>1
  <2>2. /\ a \in Seq(Frames) /\ Len(a) = IF 1 <= j THEN j - 1 + 1 ELSE 0
        /\ \A i \in 1..(j - 1 + 1) : a[i] = s[1 + i - 1]
    BY <1>1, <2>1, SubSeqProperties
  <2>3. Len(a) = j /\ DOMAIN a = 1..Len(a)
    BY <1>1, <2>2, LenProperties
  <2>4. ASSUME NEW i \in 1..j PROVE a[i] = s[i]
    <3>1. i \in 1..(j - 1 + 1) /\ 1 + i - 1 = i
      BY <1>1
    <3> QED BY <2>2, <3>1
  <2> QED BY <2>3, <2>4
<1>3. DOMAIN b = 1..(Len(s) - k) /\ \A i \in 1..(Len(s) - k) : b[i] = s[i + k]
  <2>1. /\ b \in Seq(Frames)
        /\ Len(b) = IF k + 1 <= Len(s) THEN Len(s) - (k + 1) + 1 ELSE 0
        /\ \A i \in 1..(Len(s) - (k + 1) + 1) : b[i] = s[(k + 1) + i - 1]
    BY <1>1, SubSeqProperties
  <2>2. Len(b) = Len(s) - k /\ DOMAIN b = 1..Len(b)
    BY <1>1, <2>1, LenProperties
  <2>3. ASSUME NEW i \in 1..(Len(s) - k) PROVE b[i] = s[i + k]
    <3>1. i \in 1..(Len(s) - (k + 1) + 1) /\ (k + 1) + i - 1 = i + k
      BY <1>1
    <3> QED BY <2>1, <3>1
  <2> QED BY <2>2, <2>3
<1> HIDE DEF a, b
<1>4. ASSUME NEW i \in DOMAIN a PROVE i \in DOMAIN s /\ a[i] = s[i] /\ i <= k
  BY <1>1, <1>2
<1>5. ASSUME NEW i \in DOMAIN b PROVE i + k \in DOMAIN s /\ b[i] = s[i + k] /\ k < i + k
  <2>1. i \in 1..(Len(s) - k)
    BY <1>3
  <2>2. i + k \in 1..Len(s) /\ k < i + k
    BY <1>1, <2>1
  <2> QED BY <1>1, <1>3, <2>1, <2>2
<1>6. \A c : On(a, c) \/ On(b, c) => On(s, c)
  BY <1>4, <1>5 DEF On
<1>7. MailRising(s) => MailRising(a)
  BY <1>4 DEF MailRising
<1>8. ASSUME MailRising(s), NEW i \in DOMAIN b, NEW l \in DOMAIN b, i < l,
             ~Bypasses(b[i]), ~Bypasses(b[l])
      PROVE  b[i].id < b[l].id
  <2>1. i + k < l + k
    BY <1>1, <1>3, <1>8
  <2> QED BY <1>5, <1>8, <2>1 DEF MailRising
<1>9. ASSUME MailRising(s), NEW c, On(a, c), On(b, c) PROVE FALSE
  <2>1. PICK i \in DOMAIN a : ~Bypasses(a[i]) /\ a[i].id = c
    BY <1>9 DEF On
  <2>2. PICK l \in DOMAIN b : ~Bypasses(b[l]) /\ b[l].id = c
    BY <1>9 DEF On
  <2>3. i < l + k
    <3>1. i \in Nat /\ l \in Nat /\ i <= k /\ k < l + k
      BY <1>2, <1>3, <1>4, <1>5
    <3> QED BY <1>1, <3>1
  <2>4. c < c
    BY <1>4, <1>5, <1>9, <2>1, <2>2, <2>3 DEF MailRising
  <2>5. s[i] \in Frames /\ c \in Nat
    <3>1. s[i] \in Frames /\ s[i].id = c
      BY <1>4, <2>1
    <3> QED BY <3>1, MessagingAssumption DEF Frames
  <2> QED BY <2>4, <2>5
<1> QED BY <1>6, <1>7, <1>8, <1>9 DEF MailRising, a, b

\* The first of a stream, and what is left of it.
LEMMA TailOfStream ==
  ASSUME NEW s \in Seq(Frames), s # <<>>
  PROVE  /\ \A c : On(Tail(s), c) => On(s, c)
         /\ MailRising(s) => MailRising(Tail(s))
         /\ ~Bypasses(Head(s)) =>
              /\ On(s, Head(s).id)
              /\ MailRising(s) => \A c : On(Tail(s), c) => Head(s).id < c
<1>1. /\ Len(s) \in Nat \ {0} /\ DOMAIN s = 1..Len(s) /\ Head(s) = s[1] /\ 1 \in DOMAIN s
      /\ DOMAIN Tail(s) = 1..(Len(s) - 1) /\ \A i \in 1..(Len(s) - 1) : Tail(s)[i] = s[i + 1]
  BY HeadTailProperties, LenProperties, EmptySeq
<1> DEFINE r == Tail(s)
<1>2. DOMAIN r = 1..(Len(s) - 1) /\ \A i \in 1..(Len(s) - 1) : r[i] = s[i + 1]
  BY <1>1
<1> HIDE DEF r
<1>3. ASSUME NEW i \in DOMAIN r
      PROVE  i \in Nat /\ i + 1 \in DOMAIN s /\ r[i] = s[i + 1] /\ 1 < i + 1
  <2>1. i \in 1..(Len(s) - 1)
    BY <1>2
  <2>2. i \in Nat /\ i + 1 \in 1..Len(s) /\ 1 < i + 1
    BY <1>1, <2>1
  <2> QED BY <1>1, <1>2, <2>1, <2>2
<1>4. \A c : On(r, c) => On(s, c)
  BY <1>3 DEF On
<1>5. ASSUME MailRising(s), NEW i \in DOMAIN r, NEW l \in DOMAIN r, i < l,
             ~Bypasses(r[i]), ~Bypasses(r[l])
      PROVE  r[i].id < r[l].id
  <2>1. i + 1 < l + 1
    BY <1>3, <1>5
  <2> QED BY <1>3, <1>5, <2>1 DEF MailRising
<1>6. ~Bypasses(Head(s)) => On(s, Head(s).id)
  BY <1>1 DEF On
<1>7. ASSUME ~Bypasses(Head(s)), MailRising(s), NEW c, On(r, c) PROVE Head(s).id < c
  <2>1. PICK i \in DOMAIN r : ~Bypasses(r[i]) /\ r[i].id = c
    BY <1>7 DEF On
  <2> QED BY <1>1, <1>3, <1>7, <2>1 DEF MailRising
<1> QED BY <1>4, <1>5, <1>6, <1>7 DEF MailRising, r

\* A stream with one more at the end.
LEMMA AppendToStream ==
  ASSUME NEW s \in Seq(Frames), NEW f \in Frames
  PROVE  /\ \A c : On(Append(s, f), c) => On(s, c) \/ (~Bypasses(f) /\ c = f.id)
         /\ MailRising(s) /\ (\A c \in Ids : ~Bypasses(f) /\ On(s, c) => c < f.id) =>
              MailRising(Append(s, f))
<1> DEFINE r == Append(s, f)
<1>1. /\ Len(s) \in Nat /\ DOMAIN s = 1..Len(s) /\ DOMAIN r = 1..(Len(s) + 1)
      /\ r[Len(s) + 1] = f /\ \A j \in 1..Len(s) : r[j] = s[j]
  BY AppendProperties, LenProperties
<1> HIDE DEF r
<1>2. ASSUME NEW j \in DOMAIN r
      PROVE  (j \in DOMAIN s /\ r[j] = s[j]) \/ (j = Len(s) + 1 /\ r[j] = f)
  BY <1>1
<1>3. \A c : On(r, c) => On(s, c) \/ (~Bypasses(f) /\ c = f.id)
  BY <1>2 DEF On
<1>4. ASSUME MailRising(s), \A c \in Ids : ~Bypasses(f) /\ On(s, c) => c < f.id,
             NEW i \in DOMAIN r, NEW j \in DOMAIN r, i < j, ~Bypasses(r[i]), ~Bypasses(r[j])
      PROVE  r[i].id < r[j].id
  <2>1. i \in DOMAIN s /\ r[i] = s[i]
    BY <1>1, <1>4
  <2>2. CASE j \in DOMAIN s /\ r[j] = s[j]
    BY <1>4, <2>1, <2>2 DEF MailRising
  <2>3. CASE r[j] = f
    <3>1. s[i] \in Frames
      BY <2>1
    <3>2. s[i].id \in Ids /\ On(s, s[i].id)
      BY <1>4, <2>1, <3>1 DEF On, Frames
    <3> QED BY <1>4, <2>1, <2>3, <3>2
  <2> QED BY <1>2, <2>2, <2>3
<1> QED BY <1>3, <1>4 DEF MailRising, r

\* What a step may do to what is on the way: something of it is lost, or goes on on
\* another stream,
Rest == UNCHANGED <<task, delivered, via>>
Shrinks ==
  /\ Rest /\ DOMAIN streams \subseteq DOMAIN streams'
  /\ \A n \in DOMAIN streams' : MailRising(streams'[n])
  /\ \A n \in DOMAIN streams', c \in Ids :
       On(streams'[n], c) => IF n \in DOMAIN streams THEN On(streams[n], c)
                             ELSE \E m \in DOMAIN streams : On(streams[m], c)
  /\ \A n, m \in DOMAIN streams', c \in Ids :
       On(streams'[n], c) /\ On(streams'[m], c) => n = m
\* the lane takes a message,
Sending(c, f) ==
  /\ Rest /\ streams' = [streams EXCEPT ![lane] = Append(@, f)]
  /\ f \in {Frame(c), Demonitor(c)} /\ (f = Frame(c) => call[c] = "sending" /\ Past(c)')
\* one arrives, or a task of the actor goes on.
Incoming(n) ==
  /\ streams[n] # <<>> /\ ~Bypasses(Head(streams[n]))
  /\ streams' = [streams EXCEPT ![n] = Tail(@)] /\ via' = [via EXCEPT ![Head(streams[n]).id] = n]
  /\ Route(Head(streams[n]).id) /\ UNCHANGED delivered
Working(i) == (Take(i) \/ Process(i) \/ Expire(i) \/ CloseQueue(i)) /\ UNCHANGED <<streams, via>>

\* A stream that only loses something.
LEMMA OneShrinks ==
  ASSUME QueueInv, WireInv, Rest, NEW n \in DOMAIN streams, NEW s \in Seq(Frames),
         streams' = [streams EXCEPT ![n] = s],
         MailRising(s), \A c : On(s, c) => On(streams[n], c)
  PROVE  Shrinks
<1>1. /\ DOMAIN streams' = DOMAIN streams
      /\ \A m \in DOMAIN streams : streams'[m] = IF m = n THEN s ELSE streams[m]
  BY StreamReplaced
<1>2. \A m \in DOMAIN streams : MailRising(streams'[m])
  BY <1>1 DEF WireInv
<1>3. \A m \in DOMAIN streams : \A c : On(streams'[m], c) => On(streams[m], c)
  BY <1>1
<1> QED BY <1>1, <1>2, <1>3 DEF Shrinks, WireInv

\* A stream that goes on as another.
LEMMA CutShrinks ==
  ASSUME QueueInv, WireInv, Rest,
         NEW n \in DOMAIN streams, NEW j \in 0..Len(streams[n]), NEW k \in j..Len(streams[n]),
         streams' = Append([streams EXCEPT ![n] = SubSeq(streams[n], 1, j)],
                           SubSeq(streams[n], k + 1, Len(streams[n])))
  PROVE  Shrinks
<1> DEFINE s == streams[n]
           a == SubSeq(s, 1, j)
           b == SubSeq(s, k + 1, Len(s))
           r == [streams EXCEPT ![n] = a]
<1>1. s \in Seq(Frames) /\ MailRising(s) /\ k \in 0..Len(s)
  BY DEF QueueInv, WireInv
<1>2. a \in Seq(Frames) /\ b \in Seq(Frames)
  BY <1>1, StreamParts
<1>3. /\ \A c : On(a, c) \/ On(b, c) => On(s, c)
      /\ MailRising(a) /\ MailRising(b) /\ \A c : ~(On(a, c) /\ On(b, c))
  <2>1. j \in 0..Len(s) /\ k \in j..Len(s)
    OBVIOUS
  <2> HIDE DEF s
  <2> QED BY <1>1, <2>1, PartsOfStream
<1> HIDE DEF a, b
<1>4. /\ r \in Seq(Seq(Frames)) /\ DOMAIN r = DOMAIN streams
      /\ \A m \in DOMAIN streams : r[m] = IF m = n THEN a ELSE streams[m]
  BY <1>2, StreamReplaced
<1>5. streams' = Append(r, b)
  BY DEF a, b
<1> HIDE DEF r
<1>6. PICK l : /\ DOMAIN streams' = DOMAIN streams \cup {l} /\ l \notin DOMAIN streams
               /\ streams'[l] = b /\ \A m \in DOMAIN streams : streams'[m] = r[m]
  <2>1. /\ Len(r) \in Nat /\ DOMAIN r = 1..Len(r)
        /\ DOMAIN streams' = 1..(Len(r) + 1) /\ streams'[Len(r) + 1] = b
        /\ \A m \in DOMAIN r : streams'[m] = r[m]
    <3>1. /\ Len(r) \in Nat /\ DOMAIN r = 1..Len(r)
          /\ DOMAIN Append(r, b) = 1..(Len(r) + 1) /\ Append(r, b)[Len(r) + 1] = b
          /\ \A m \in DOMAIN r : Append(r, b)[m] = r[m]
      BY <1>2, <1>4, StreamAppended
    <3> QED BY <1>5, <3>1
  <2>2. 1..(Len(r) + 1) = (1..Len(r)) \cup {Len(r) + 1} /\ Len(r) + 1 \notin 1..Len(r)
    BY <2>1
  <2> QED BY <1>4, <2>1, <2>2
<1> HIDE DEF s
<1>7. /\ \A m \in DOMAIN streams : \A c : On(streams'[m], c) => On(streams[m], c)
      /\ \A c : On(streams'[l], c) => On(streams[n], c) /\ ~On(streams'[n], c)
  BY <1>3, <1>4, <1>6 DEF s
<1>8. ASSUME NEW m \in DOMAIN streams' PROVE MailRising(streams'[m])
  <2>1. m = l \/ m = n \/ (streams'[m] = streams[m] /\ m \in DOMAIN streams)
    BY <1>4, <1>6
  <2> QED BY <1>3, <1>4, <1>6, <2>1 DEF WireInv
<1>9. ASSUME NEW m \in DOMAIN streams', NEW p \in DOMAIN streams', NEW c \in Ids,
             On(streams'[m], c), On(streams'[p], c)
      PROVE  m = p
  <2>1. CASE m # l /\ p # l
    BY <1>6, <1>7, <1>9, <2>1 DEF WireInv
  <2>2. ASSUME NEW q \in DOMAIN streams, On(streams'[q], c), On(streams'[l], c) PROVE FALSE
    <3>1. q = n
      BY <1>7, <2>2 DEF WireInv
    <3> QED BY <1>7, <2>2, <3>1
  <2> QED BY <1>6, <1>9, <2>1, <2>2
<1> QED BY <1>6, <1>7, <1>8, <1>9 DEF Shrinks

\* Another stream, that holds nothing yet.
LEMMA NewShrinks ==
  ASSUME QueueInv, WireInv, Rest, streams' = Append(streams, <<>>)
  PROVE  Shrinks
<1>1. PICK l : /\ DOMAIN streams' = DOMAIN streams \cup {l} /\ l \notin DOMAIN streams
               /\ streams'[l] = <<>> /\ \A m \in DOMAIN streams : streams'[m] = streams[m]
  <2>1. /\ Len(streams) \in Nat /\ DOMAIN streams = 1..Len(streams)
        /\ DOMAIN streams' = 1..(Len(streams) + 1) /\ streams'[Len(streams) + 1] = <<>>
        /\ \A m \in DOMAIN streams : streams'[m] = streams[m]
    <3>1. <<>> \in Seq(Frames) /\ streams \in Seq(Seq(Frames))
      BY DEF QueueInv
    <3> QED BY <3>1, StreamAppended
  <2>2. /\ 1..(Len(streams) + 1) = (1..Len(streams)) \cup {Len(streams) + 1}
        /\ Len(streams) + 1 \notin 1..Len(streams)
    BY <2>1
  <2> QED BY <2>1, <2>2
<1>2. MailRising(<<>>) /\ \A c : ~On(<<>>, c)
  BY DEF MailRising, On
<1>3. \A m \in DOMAIN streams' : MailRising(streams'[m])
  BY <1>1, <1>2 DEF WireInv
<1>4. \A m \in DOMAIN streams', c \in Ids :
        On(streams'[m], c) => m \in DOMAIN streams /\ On(streams[m], c)
  BY <1>1, <1>2
<1> QED BY <1>1, <1>3, <1>4 DEF Shrinks, WireInv

LEMMA StepKinds ==
  ASSUME QueueInv, CallInv, WireInv, [Next]_vars
  PROVE  \/ Shrinks
         \/ \E c \in Ids, f \in Frames : Sending(c, f)
         \/ \E n \in DOMAIN streams : Incoming(n)
         \/ \E i \in DOMAIN task : Working(i)
         \/ Crash
<1>0. /\ lane \in DOMAIN streams
      /\ \A n \in DOMAIN streams : streams[n] \in Seq(Frames) /\ MailRising(streams[n])
  BY DEF QueueInv, WireInv
<1>1. ASSUME Rest, streams' = streams PROVE Shrinks
  BY <1>1 DEF Shrinks, WireInv
<1>2. ASSUME Rest, NEW n \in DOMAIN streams, streams[n] # <<>>,
             streams' = [streams EXCEPT ![n] = Tail(@)]
      PROVE  Shrinks
  <2> DEFINE s == Tail(streams[n])
  <2>1. s \in Seq(Frames)
    BY <1>0, <1>2, StreamParts
  <2>2. MailRising(s) /\ \A c : On(s, c) => On(streams[n], c)
    BY <1>0, <1>2, TailOfStream
  <2>3. streams' = [streams EXCEPT ![n] = s]
    BY <1>2
  <2> HIDE DEF s
  <2> QED BY <1>2, <2>1, <2>2, <2>3, OneShrinks
<1>3. ASSUME NEW n \in DOMAIN streams, Arrive(n) PROVE Shrinks \/ Incoming(n)
  BY <1>2, <1>3 DEF Arrive, Incoming, Rest
<1>4. ASSUME NEW i \in DOMAIN task, Take(i) \/ Process(i) \/ Expire(i) \/ CloseQueue(i)
      PROVE  Working(i)
  BY <1>4 DEF Take, Process, Expire, CloseQueue, Working, netVars, wire
<1>5. CASE \/ HostLost \/ Handle \/ Exit \/ Stop \/ MemberLost \/ MemberUp \/ CallerLost
           \/ (\E r \in replies : Complete(r)) \/ (\E f \in spawned : RunOp(f))
           \/ (\E c \in held : MonitorEnds(c)) \/ UNCHANGED vars
  BY <1>1, <1>5 DEF Rest, HostLost, Handle, Exit, Stop, MemberLost, MemberUp, CallerLost, Complete,
     RunOp, MonitorEnds, hostVars, netVars, wire, vars
<1>6. ASSUME NEW c \in Ids, Cast(c) \/ CallOp(c) \/ Expect(c) \/ Wake(c) \/ TimeOut(c) \/ Cancel(c)
      PROVE  Shrinks
  BY <1>1, <1>6 DEF Rest, Cast, CallOp, Prepare, Expect, Wake, TimeOut, Cancel, hostVars, netVars,
     wire
<1>7. ASSUME NEW c \in Ids, Send(c) PROVE Shrinks \/ Sending(c, Frame(c))
  <2>1. Rest /\ call[c] = "sending"
    BY <1>7 DEF Send, Rest, hostVars
  <2>2. \/ streams' = streams
        \/ Put(Frame(c)) /\ call'[c] \in {"waiting", "sent"}
    BY <1>7 DEF Send, CallInv
  <2> QED BY <1>1, <2>1, <2>2 DEF Sending, Past, Put
<1>8. ASSUME NEW c \in Ids, SendDemonitor(c) PROVE Shrinks \/ Sending(c, Demonitor(c))
  <2>1. Rest /\ (streams' = streams \/ Put(Demonitor(c)))
    BY <1>8 DEF SendDemonitor, Rest, hostVars
  <2>2. Demonitor(c) # Frame(c)
    BY DEF Demonitor, Frame
  <2> QED BY <1>1, <2>1, <2>2 DEF Sending, Put
<1>9. ASSUME NEW c \in Ids PROVE Frame(c) \in Frames /\ Demonitor(c) \in Frames
  BY DEF Frame, Demonitor, Frames
<1>10. CASE Disconnect
  <2>1. Rest
    BY <1>10 DEF Disconnect, Rest, hostVars
  <2>2. \E n \in DOMAIN streams : \E j \in 0..Len(streams[n]) : \E k \in j..Len(streams[n]) :
          streams' = Append([streams EXCEPT ![n] = SubSeq(streams[n], 1, j)],
                            SubSeq(streams[n], k + 1, Len(streams[n])))
    BY <1>10 DEF Disconnect
  <2> QED BY <2>1, <2>2, CutShrinks
<1>11. CASE LaneEnds
  BY <1>11, NewShrinks DEF LaneEnds, Rest, hostVars
<1>12. CASE DropQuietly
  BY <1>1, <1>2, <1>12 DEF DropQuietly, Rest, hostVars
<1> QED BY <1>1, <1>3, <1>4, <1>5, <1>6, <1>7, <1>8, <1>9, <1>10, <1>11, <1>12
        DEF Next, CallerStep, HostStep

\* What the host has while it rests.
LEMMA RestKeeps ==
  ASSUME Rest
  PROVE  /\ \A c : Hosted(c)' <=> Hosted(c)
         /\ LineInv => LineInv'
         /\ NoneClosed' <=> NoneClosed
<1>1. task' = task /\ delivered' = delivered /\ via' = via
  BY DEF Rest
<1>2. \A c : Hosted(c)' <=> Hosted(c)
  BY <1>1 DEF Hosted, Delivered, InQueue, InHand
<1>3. LineInv => LineInv'
  BY <1>1 DEF LineInv, Rising, Before, InQueue, Delivered
<1> QED BY <1>1, <1>2, <1>3 DEF NoneClosed

\* Where what is on the way is after each of them: on streams that lose something,
LEMMA ShrinkKeeps ==
  ASSUME ShipInv, WireInv, Shrinks,
         \A g : Bypasses(g)' = Bypasses(g), \A d \in Ids : Shipped(d) => Shipped(d)'
  PROVE  ShipInv' /\ WireInv'
<1>1. /\ Rest /\ delivered' = delivered /\ via' = via /\ \A c : Hosted(c)' <=> Hosted(c)
  BY RestKeeps DEF Shrinks, Rest
<1>2. /\ \A n \in DOMAIN streams' : \A c : On(streams[n], c)' <=> On(streams'[n], c)
      /\ \A n \in DOMAIN streams' : MailRising(streams[n])' <=> MailRising(streams'[n])
  BY DEF On, MailRising
<1>3. ASSUME NEW n \in DOMAIN streams', NEW c \in Ids, On(streams'[n], c)
      PROVE  /\ Shipped(c)' /\ ~Hosted(c)
             /\ \A d \in Ids : Hosted(d) /\ via[d] = n => d < c
  <2>1. PICK m \in DOMAIN streams :
          On(streams[m], c) /\ (n \in DOMAIN streams => m = n)
    BY <1>3 DEF Shrinks
  <2>2. Shipped(c)' /\ ~Hosted(c)
    BY <2>1 DEF ShipInv, WireInv
  <2>3. ASSUME NEW d \in Ids, Hosted(d), via[d] = n PROVE d < c
    <3>1. n \in DOMAIN streams
      BY <2>3 DEF WireInv
    <3> QED BY <2>1, <2>3, <3>1 DEF WireInv
  <2> QED BY <2>2, <2>3
<1>4. ShipInv'
  <2>1. \A c : Hosted(c)' => Shipped(c)'
    <3> SUFFICES ASSUME NEW c, Hosted(c) PROVE Shipped(c)'
      BY <1>1
    <3>1. Shipped(c) /\ c \in Ids
      BY DEF ShipInv, Shipped
    <3> QED BY <3>1
  <2> QED BY <1>1, <1>2, <1>3, <2>1 DEF ShipInv
<1>5. \A d \in Ids : Hosted(d) => via[d] \in DOMAIN streams'
  BY DEF WireInv, Shrinks
<1> QED BY <1>1, <1>2, <1>3, <1>4, <1>5 DEF WireInv, Shrinks

\* or on one that takes another,
LEMMA SendingKeeps ==
  ASSUME QueueInv, CastInv, ShipInv, WireInv, NEW c \in Ids, NEW f \in Frames, Sending(c, f),
         \A g : Bypasses(g)' = Bypasses(g), plan' = plan,
         \A d \in Ids : Shipped(d) => Shipped(d)'
  PROVE  ShipInv' /\ WireInv'
<1> DEFINE s == streams[lane]
           r == Append(s, f)
<1>0. Rest /\ delivered' = delivered /\ via' = via /\ \A d : Hosted(d)' <=> Hosted(d)
  BY RestKeeps DEF Sending, Rest
<1>1. /\ lane \in DOMAIN streams /\ s \in Seq(Frames) /\ r \in Seq(Frames)
      /\ MailRising(s)
  BY AppendProperties DEF QueueInv, WireInv
<1>2. ~Bypasses(f) => /\ f.id = c /\ Mail(c) /\ call[c] = "sending" /\ Shipped(c)'
                      /\ ~Shipped(c)
  <2>1. f = Demonitor(c) => Bypasses(f)
    BY DEF Demonitor, Bypasses
  <2>2. f = Frame(c) => f.id = c /\ (~Bypasses(f) => Mail(c) /\ Mail(c)')
    BY DEF Frame, Mail
  <2> QED BY <2>1, <2>2 DEF Sending, Shipped, Past
<1>3. ASSUME ~Bypasses(f), NEW d \in Ids, Shipped(d) PROVE d < c
  BY <1>2, <1>3, ShippedIsBefore
<1>4. /\ \A d : On(r, d) => On(s, d) \/ (~Bypasses(f) /\ d = f.id)
      /\ MailRising(s) /\ (\A d \in Ids : ~Bypasses(f) /\ On(s, d) => d < f.id) => MailRising(r)
  BY <1>1, AppendToStream
<1>5. MailRising(r)
  BY <1>1, <1>2, <1>3, <1>4 DEF ShipInv
<1>6. /\ DOMAIN streams' = DOMAIN streams
      /\ \A m \in DOMAIN streams : streams'[m] = IF m = lane THEN r ELSE streams[m]
  <2>1. streams' = [streams EXCEPT ![lane] = r]
    BY DEF Sending
  <2> HIDE DEF r
  <2> QED BY <1>1, <2>1, StreamReplaced
<1> HIDE DEF r, s
<1>7. /\ \A m \in DOMAIN streams' : \A d : On(streams[m], d)' <=> On(streams'[m], d)
      /\ \A m \in DOMAIN streams' : MailRising(streams[m])' <=> MailRising(streams'[m])
  BY DEF On, MailRising
<1>8. \A m \in DOMAIN streams : \A d :
        On(streams'[m], d) => On(streams[m], d) \/ (~Bypasses(f) /\ d = c /\ m = lane)
  BY <1>2, <1>4, <1>6 DEF s
<1>9. ShipInv'
  <2>1. \A d : Hosted(d)' => Shipped(d)'
    <3> SUFFICES ASSUME NEW d, Hosted(d) PROVE Shipped(d)'
      BY <1>0
    <3>1. Shipped(d) /\ d \in Ids
      BY DEF ShipInv, Shipped
    <3> QED BY <3>1
  <2>2. \A m \in DOMAIN streams, d \in Ids : On(streams'[m], d) => Shipped(d)'
    BY <1>2, <1>8 DEF ShipInv
  <2> QED BY <1>0, <1>6, <1>7, <2>1, <2>2 DEF ShipInv
<1>10. \A m \in DOMAIN streams : MailRising(streams'[m])
  BY <1>5, <1>6 DEF WireInv
<1>11. ASSUME NEW m \in DOMAIN streams, NEW d \in Ids, On(streams'[m], d)
       PROVE  /\ ~Hosted(d) /\ \A e \in Ids : Hosted(e) /\ via[e] = m => e < d
              /\ \A n \in DOMAIN streams : On(streams'[n], d) => n = m
  <2>1. CASE On(streams[m], d)
    <3>1. Shipped(d)
      BY <2>1 DEF ShipInv
    <3>2. \A n \in DOMAIN streams : On(streams'[n], d) => On(streams[n], d)
      BY <1>2, <1>8, <3>1
    <3> QED BY <2>1, <3>2 DEF WireInv
  <2>2. CASE ~Bypasses(f) /\ d = c /\ m = lane
    <3>1. /\ ~Hosted(c) /\ \A n \in DOMAIN streams : ~On(streams[n], c)
          /\ \A e \in Ids : Hosted(e) => e < c
      BY <1>2, <1>3, <2>2 DEF ShipInv
    <3> QED BY <1>8, <2>2, <3>1
  <2> QED BY <1>8, <1>11, <2>1, <2>2
<1> QED BY <1>0, <1>6, <1>7, <1>9, <1>10, <1>11 DEF WireInv

\* The first of a queue, and what is left of it.
LEMMA TailOfRising ==
  ASSUME NEW q \in Seq(Ids), q # <<>>, NEW v
  PROVE  /\ Head(q) \in Ids /\ \E j \in DOMAIN q : q[j] = Head(q)
         /\ \A c : (\E j \in DOMAIN Tail(q) : Tail(q)[j] = c) => \E j \in DOMAIN q : q[j] = c
         /\ Rising(v, q) => /\ Rising(v, Tail(q))
                            /\ \A j \in DOMAIN Tail(q) : Before(v, Head(q), Tail(q)[j])
<1>1. /\ Head(q) \in Ids /\ Head(q) = q[1] /\ 1 \in DOMAIN q /\ Len(q) \in Nat
      /\ DOMAIN q = 1..Len(q) /\ DOMAIN Tail(q) = 1..(Len(q) - 1)
      /\ \A j \in 1..(Len(q) - 1) : Tail(q)[j] = q[j + 1]
  BY HeadTailProperties, LenProperties, EmptySeq
<1> DEFINE r == Tail(q)
<1> HIDE DEF r
<1>2. DOMAIN r = 1..(Len(q) - 1) /\ Len(q) \in Nat
  BY <1>1 DEF r
<1>3. ASSUME NEW j \in DOMAIN r
      PROVE  j + 1 \in DOMAIN q /\ r[j] = q[j + 1] /\ 1 < j + 1
  <2>1. j + 1 \in 1..Len(q) /\ 1 < j + 1
    BY <1>2
  <2> QED BY <1>1, <1>2, <2>1 DEF r
<1>4. ASSUME Rising(v, q) PROVE Rising(v, r) /\ \A j \in DOMAIN r : Before(v, Head(q), r[j])
  <2>1. ASSUME NEW j \in DOMAIN r, NEW k \in DOMAIN r, j < k PROVE Before(v, r[j], r[k])
    <3>1. j + 1 < k + 1
      BY <1>2, <2>1
    <3> QED BY <1>3, <1>4, <3>1 DEF Rising
  <2>2. ASSUME NEW j \in DOMAIN r PROVE Before(v, Head(q), r[j])
    BY <1>1, <1>3, <1>4 DEF Rising
  <2> QED BY <2>1, <2>2 DEF Rising
<1> QED BY <1>1, <1>3, <1>4 DEF r

\* A sequence with one more at the end.
LEMMA AppendToRising ==
  ASSUME NEW s \in Seq(Ids), NEW c \in Ids, NEW v
  PROVE  /\ Append(s, c) \in Seq(Ids)
         /\ \A d : (\E j \in DOMAIN Append(s, c) : Append(s, c)[j] = d) =>
                     (\E j \in DOMAIN s : s[j] = d) \/ d = c
         /\ Rising(v, s) /\ (\A j \in DOMAIN s : Before(v, s[j], c)) => Rising(v, Append(s, c))
<1> DEFINE r == Append(s, c)
<1>1. /\ r \in Seq(Ids) /\ Len(s) \in Nat /\ DOMAIN s = 1..Len(s) /\ DOMAIN r = 1..(Len(s) + 1)
      /\ r[Len(s) + 1] = c /\ \A j \in 1..Len(s) : r[j] = s[j]
  BY AppendProperties, LenProperties
<1> HIDE DEF r
<1>2. ASSUME NEW j \in DOMAIN r
      PROVE  (j \in DOMAIN s /\ r[j] = s[j]) \/ (j = Len(s) + 1 /\ r[j] = c)
  BY <1>1
<1>3. ASSUME Rising(v, s), \A j \in DOMAIN s : Before(v, s[j], c),
             NEW j \in DOMAIN r, NEW k \in DOMAIN r, j < k
      PROVE  Before(v, r[j], r[k])
  <2>1. j \in DOMAIN s /\ r[j] = s[j]
    BY <1>1, <1>3
  <2> QED BY <1>2, <1>3, <2>1 DEF Rising
<1> QED BY <1>1, <1>2, <1>3 DEF r, Rising

\* a task that takes a message, puts it into the mailbox, or ends,
LEMMA WorkingKeeps ==
  ASSUME QueueInv, ShipInv, WireInv, NEW i \in DOMAIN task, Working(i),
         \A g : Bypasses(g)' = Bypasses(g), \A d \in Ids : Shipped(d) => Shipped(d)'
  PROVE  /\ ShipInv' /\ WireInv'
         /\ NoneClosed' /\ LineInv => LineInv'
         /\ NoneClosed' => NoneClosed
<1> DEFINE t == task[i]
           u == task'[i]
<1>1. /\ t \in Tasks /\ t.queue \in Seq(Ids)
      /\ DOMAIN task' = DOMAIN task /\ \A j \in DOMAIN task : j # i => task'[j] = task[j]
  <2>1. PICK n \in Tasks : task' = [task EXCEPT ![i] = n]
    BY TaskSteps DEF Working
  <2>2. t \in Tasks
    BY DEF QueueInv
  <2> QED BY <2>1, <2>2 DEF Tasks
<1>2. streams' = streams /\ via' = via
  BY DEF Working
<1>3. \/ /\ t.pc = "ready" /\ t.queue # <<>> /\ delivered' = delivered
         /\ u.queue = Tail(t.queue) /\ u.work = Head(t.queue) /\ u.closed = t.closed
      \/ /\ t.pc = "delivering" /\ u.pc = "ready" /\ u.queue = t.queue /\ u.closed = t.closed
         /\ delivered' \in {delivered, Append(delivered, t.work)}
      \/ /\ delivered' = delivered /\ u.queue = t.queue /\ u.pc # "delivering"
         /\ u.closed \in {t.closed, TRUE}
  <2>1. CASE Take(i)
    <3>1. u = Taking(t) /\ t.pc = "ready" /\ t.queue # <<>> /\ delivered' = delivered
      BY <1>1, <2>1 DEF Take, Taking, Tasks
    <3> QED BY <1>1, <3>1 DEF Taking, Tasks
  <2>2. CASE Process(i)
    <3>1. u = [t EXCEPT !.pc = "ready"] /\ t.pc = "delivering"
      BY <2>2 DEF Process
    <3>2. delivered' \in {delivered, Append(delivered, t.work)}
      BY <2>2 DEF Process
    <3> QED BY <1>1, <3>1, <3>2 DEF Tasks
  <2>3. CASE Expire(i)
    BY <1>1, <2>3 DEF Expire, Tasks
  <2>4. CASE CloseQueue(i)
    BY <1>1, <2>4 DEF CloseQueue, Tasks
  <2> QED BY <2>1, <2>2, <2>3, <2>4 DEF Working
<1>4. NoneClosed' => NoneClosed
  BY <1>1, <1>3 DEF NoneClosed, Tasks
<1>5. /\ \A c : InQueue(u, c) => InQueue(t, c)
      /\ u.pc = "delivering" => InQueue(t, u.work) /\ t.pc # "delivering"
      /\ Rising(via, t.queue) =>
           /\ Rising(via, u.queue)
           /\ u.pc = "delivering" => \A c : InQueue(u, c) => Before(via, u.work, c)
  <2>1. CASE /\ t.pc = "ready" /\ t.queue # <<>>
             /\ u.queue = Tail(t.queue) /\ u.work = Head(t.queue)
    <3> DEFINE q == t.queue
    <3>1. q \in Seq(Ids) /\ q # <<>>
      BY <1>1, <2>1
    <3> HIDE DEF q
    <3>2. /\ Head(q) \in Ids /\ \E j \in DOMAIN q : q[j] = Head(q)
          /\ \A c : (\E j \in DOMAIN Tail(q) : Tail(q)[j] = c) => \E j \in DOMAIN q : q[j] = c
          /\ Rising(via, q) => /\ Rising(via, Tail(q))
                               /\ \A j \in DOMAIN Tail(q) : Before(via, Head(q), Tail(q)[j])
      BY <3>1, TailOfRising
    <3> QED BY <2>1, <3>2 DEF InQueue, q
  <2>2. CASE u.pc # "delivering" /\ u.queue = t.queue
    BY <2>2 DEF InQueue
  <2> QED BY <1>3, <2>1, <2>2
<1>6. /\ delivered' \in Seq(Ids)
      /\ \A d : Delivered(d)' => Delivered(d) \/ (t.pc = "delivering" /\ d = t.work)
      /\ u.pc = "delivering" => \A d : Delivered(d)' => Delivered(d)
  <2>1. t.pc = "delivering" => t.work \in Ids
    BY DEF ShipInv, Shipped, Hosted, InHand
  <2>2. delivered \in Seq(Ids)
    BY DEF ShipInv
  <2>3. CASE delivered' = delivered
    BY <2>2, <2>3 DEF Delivered
  <2>4. CASE /\ t.pc = "delivering" /\ u.pc = "ready"
             /\ delivered' = Append(delivered, t.work)
    <3>1. /\ Append(delivered, t.work) \in Seq(Ids)
          /\ \A d : (\E j \in DOMAIN Append(delivered, t.work) :
                       Append(delivered, t.work)[j] = d) =>
                      (\E j \in DOMAIN delivered : delivered[j] = d) \/ d = t.work
      BY <2>1, <2>2, <2>4, AppendToRising
    <3> QED BY <2>4, <3>1 DEF Delivered
  <2> QED BY <1>3, <2>3, <2>4
<1>7. ASSUME NEW c, Hosted(c)' PROVE Hosted(c)
  <2>1. CASE Delivered(c)'
    BY <1>6, <2>1 DEF Hosted, InHand
  <2>2. ASSUME NEW j \in DOMAIN task', InQueue(task'[j], c) \/ InHand(task'[j], c)
        PROVE  Hosted(c)
    <3>1. j \in DOMAIN task
      BY <1>1
    <3>2. CASE j # i
      BY <1>1, <2>2, <3>1, <3>2 DEF Hosted
    <3>3. CASE j = i
      BY <1>5, <2>2, <3>1, <3>3 DEF Hosted, InHand
    <3> QED BY <3>2, <3>3
  <2>3. Delivered(c)' \/ \E j \in DOMAIN task' : InQueue(task'[j], c) \/ InHand(task'[j], c)
    BY <1>7 DEF Hosted, InQueue, InHand
  <2> QED BY <2>1, <2>2, <2>3
<1>8. /\ \A n \in DOMAIN streams : \A c : On(streams[n], c)' <=> On(streams[n], c)
      /\ \A n \in DOMAIN streams : MailRising(streams[n])' <=> MailRising(streams[n])
  BY <1>2 DEF On, MailRising
<1>9. ShipInv' /\ WireInv'
  <2>1. \A c : Hosted(c)' => Shipped(c)'
    <3> SUFFICES ASSUME NEW c, Hosted(c)' PROVE Shipped(c)'
      OBVIOUS
    <3>1. Shipped(c) /\ c \in Ids
      BY <1>7 DEF ShipInv, Shipped
    <3> QED BY <3>1
  <2>2. ShipInv'
    BY <1>2, <1>6, <1>8, <2>1 DEF ShipInv
  <2>3. WireInv'
    BY <1>2, <1>7, <1>8 DEF WireInv
  <2> QED BY <2>2, <2>3
<1>10. ASSUME NoneClosed', LineInv PROVE LineInv'
  <2>0. /\ \A c, d \in Ids : InQueue(t, c) /\ Delivered(d) => Before(via, d, c)
        /\ Rising(via, t.queue) /\ Rising(via, delivered)
        /\ t.pc = "delivering" =>
            \A c \in Ids : /\ InQueue(t, c) => Before(via, t.work, c)
                           /\ Delivered(c) => Before(via, c, t.work)
    BY <1>10 DEF LineInv
  <2>1. Rising(via, delivered')
    <3>1. CASE t.pc = "delivering" /\ delivered' = Append(delivered, t.work)
      <4>1. t.work \in Ids /\ delivered \in Seq(Ids)
        BY <3>1 DEF ShipInv, Shipped, Hosted, InHand
      <4>2. \A j \in DOMAIN delivered : delivered[j] \in Ids /\ Delivered(delivered[j])
        BY <4>1 DEF Delivered
      <4>3. \A j \in DOMAIN delivered : Before(via, delivered[j], t.work)
        BY <2>0, <3>1, <4>2
      <4> QED BY <2>0, <3>1, <4>1, <4>3, AppendToRising
    <3> QED BY <1>3, <2>0, <3>1
  <2>2. \A c \in Ids : t.pc = "delivering" => t.work \in Ids
    BY DEF ShipInv, Shipped, Hosted, InHand
  <2>3. u.pc = "delivering" => u.work \in Ids
    BY <1>5, <1>1 DEF InQueue
  <2>4. ASSUME NEW j \in DOMAIN task'
        PROVE  /\ j = 1 /\ Rising(via, task'[j].queue)
               /\ \A c, d \in Ids : InQueue(task'[j], c) /\ Delivered(d)' => Before(via, d, c)
               /\ task'[j].pc = "delivering" =>
                    \A c \in Ids : /\ InQueue(task'[j], c) => Before(via, task'[j].work, c)
                                   /\ Delivered(c)' => Before(via, c, task'[j].work)
    <3>1. j = 1 /\ j = i
      BY <1>1, <1>10 DEF LineInv
    <3>2. \A c, d \in Ids : InQueue(u, c) /\ Delivered(d)' => Before(via, d, c)
      BY <1>5, <1>6, <2>0
    <3>3. ASSUME u.pc = "delivering", NEW c \in Ids
          PROVE  /\ InQueue(u, c) => Before(via, u.work, c)
                 /\ Delivered(c)' => Before(via, c, u.work)
      BY <1>5, <1>6, <2>0, <2>3, <3>3
    <3> QED BY <1>5, <2>0, <3>1, <3>2, <3>3
  <2> QED BY <1>2, <2>1, <2>4 DEF LineInv, InQueue, Rising, Before
<1> QED BY <1>4, <1>9, <1>10

\* What a message does to the tasks of the host when it arrives.
LEMMA RoutedTo ==
  ASSUME QueueInv, NEW c \in Ids, Route(c)
  PROVE  \/ task' = task
         \/ /\ route \in DOMAIN task /\ DOMAIN task' = DOMAIN task
            /\ \A j \in DOMAIN task : j # route => task'[j] = task[j]
            /\ task[route].queue \in Seq(Ids)
            /\ task'[route].queue = Append(task[route].queue, c)
            /\ task'[route].pc = task[route].pc /\ task'[route].work = task[route].work
            /\ task'[route].closed = task[route].closed
         \/ \E l : /\ l \notin DOMAIN task /\ DOMAIN task' = DOMAIN task \cup {l}
                   /\ task'[l] = NewTask(c) /\ \A j \in DOMAIN task : task'[j] = task[j]
                   /\ task # <<>> => ~NoneClosed'
                   /\ task = <<>> => l = 1
<1>1. task \in Seq(Tasks) /\ Len(task) \in Nat /\ DOMAIN task = 1..Len(task)
  BY LenProperties DEF QueueInv
<1>2. CASE /\ route \in DOMAIN task /\ task' = [task EXCEPT ![route] = Queueing(task[route], c)]
  <2>1. task[route] \in Tasks
    BY <1>1, <1>2
  <2>2. /\ DOMAIN task' = DOMAIN task /\ task'[route] = Queueing(task[route], c)
        /\ \A j \in DOMAIN task : j # route => task'[j] = task[j]
    BY <1>2
  <2> QED BY <1>2, <2>1, <2>2 DEF Queueing, Tasks
<1>3. CASE /\ task # <<>> => task[Len(task)].closed
           /\ task' = Append(task, NewTask(c))
  <2> DEFINE u == NewTask(c)
  <2>1. u \in Tasks
    BY NewTaskCounts
  <2> HIDE DEF u
  <2>2. /\ DOMAIN task' = 1..(Len(task) + 1) /\ task'[Len(task) + 1] = u
        /\ \A j \in 1..Len(task) : task'[j] = task[j]
    BY <1>1, <1>3, <2>1, AppendProperties, LenProperties DEF u
  <2>3. 1..(Len(task) + 1) = (1..Len(task)) \cup {Len(task) + 1} /\ Len(task) + 1 \notin 1..Len(task)
    BY <1>1
  <2>4. task # <<>> => ~NoneClosed'
    <3> SUFFICES ASSUME task # <<>> PROVE ~NoneClosed'
      OBVIOUS
    <3>1. Len(task) \in DOMAIN task
      BY <1>1, EmptySeq
    <3> QED BY <1>1, <1>3, <2>2, <2>3, <3>1 DEF NoneClosed
  <2>5. task = <<>> => Len(task) + 1 = 1
    BY <1>1, EmptySeq
  <2> QED BY <1>1, <2>2, <2>3, <2>4, <2>5 DEF u
<1> QED BY <1>2, <1>3, RouteSteps

\* a message that arrives,
LEMMA IncomingKeeps ==
  ASSUME QueueInv, ShipInv, WireInv, NEW n \in DOMAIN streams, Incoming(n),
         \A g : Bypasses(g)' = Bypasses(g), \A d \in Ids : Shipped(d) => Shipped(d)'
  PROVE  /\ ShipInv' /\ WireInv'
         /\ NoneClosed' /\ LineInv => LineInv'
         /\ NoneClosed' => NoneClosed
<1> DEFINE s == streams[n]
<1>1. s \in Seq(Frames) /\ s # <<>> /\ MailRising(s) /\ Tail(s) \in Seq(Frames) /\ Head(s) \in Frames
  BY StreamParts DEF QueueInv, WireInv, Incoming
<1>2. PICK c \in Ids : c = Head(s).id
  BY <1>1 DEF Frames
<1>3. /\ On(s, c) /\ \A d : On(Tail(s), d) => On(s, d) /\ c < d
      /\ MailRising(Tail(s))
  BY <1>1, <1>2, TailOfStream DEF Incoming
<1>4. /\ DOMAIN streams' = DOMAIN streams
      /\ \A m \in DOMAIN streams : streams'[m] = IF m = n THEN Tail(s) ELSE streams[m]
  <2> DEFINE r == Tail(s)
  <2>1. r \in Seq(Frames) /\ streams' = [streams EXCEPT ![n] = r]
    BY <1>1 DEF Incoming
  <2> HIDE DEF r
  <2>2. /\ DOMAIN streams' = DOMAIN streams
        /\ \A m \in DOMAIN streams : streams'[m] = IF m = n THEN r ELSE streams[m]
    BY <2>1, StreamReplaced
  <2> QED BY <2>2 DEF r
<1>5. /\ Shipped(c) /\ Shipped(c)' /\ ~Hosted(c)
      /\ \A d \in Ids : Hosted(d) /\ via[d] = n => d < c
  BY <1>3 DEF ShipInv, WireInv
<1>6. /\ via' \in [Ids -> Nat] /\ via'[c] = n /\ \A d \in Ids : d # c => via'[d] = via[d]
  <2>1. n \in Nat
    BY LenProperties DEF QueueInv
  <2> QED BY <1>2, <2>1 DEF WireInv, Incoming
<1>7. Route(c) /\ delivered' = delivered
  BY <1>2 DEF Incoming
<1> HIDE DEF s
<1>8. \A d : Delivered(d)' <=> Delivered(d)
  BY <1>7 DEF Delivered
<1>9. c \in Nat /\ ~(c < c) /\ n \in DOMAIN streams
  BY MessagingAssumption
<1>10. \A d, e \in Ids : Hosted(d) /\ Hosted(e) /\ Before(via, d, e) => Before(via', d, e)
  BY <1>5, <1>6 DEF Before
<1>11. \A d \in Ids : Hosted(d) => Before(via', d, c)
  BY <1>5, <1>6 DEF Before
\* The host has it and what it had.
<1>12. ASSUME NEW d, Hosted(d)' PROVE Hosted(d) \/ d = c
  <2>1. Delivered(d) \/ \E j \in DOMAIN task' : InQueue(task'[j], d) \/ InHand(task'[j], d)
    BY <1>8, <1>12 DEF Hosted, InQueue, InHand
  <2>2. ASSUME NEW j \in DOMAIN task', InQueue(task'[j], d) \/ InHand(task'[j], d)
        PROVE  Hosted(d) \/ d = c
    <3>1. CASE j \in DOMAIN task /\ task'[j] = task[j]
      BY <2>2, <3>1 DEF Hosted
    <3>2. CASE task'[j] = NewTask(c)
      BY <2>2, <3>2 DEF NewTask, InQueue, InHand
    <3>3. CASE /\ j \in DOMAIN task /\ task[j].queue \in Seq(Ids)
               /\ task'[j].queue = Append(task[j].queue, c)
               /\ task'[j].pc = task[j].pc /\ task'[j].work = task[j].work
      <4>1. InQueue(task'[j], d) => InQueue(task[j], d) \/ d = c
        <5> DEFINE q == task[j].queue
        <5>1. q \in Seq(Ids) /\ task'[j].queue = Append(q, c)
          BY <3>3
        <5> HIDE DEF q
        <5>2. (\E k \in DOMAIN Append(q, c) : Append(q, c)[k] = d) =>
                (\E k \in DOMAIN q : q[k] = d) \/ d = c
          BY <5>1, AppendToRising
        <5> QED BY <5>1, <5>2 DEF InQueue, q
      <4> QED BY <2>2, <3>3, <4>1 DEF Hosted, InHand
    <3>4. \/ j \in DOMAIN task /\ task'[j] = task[j]
          \/ task'[j] = NewTask(c)
          \/ /\ j \in DOMAIN task /\ task[j].queue \in Seq(Ids)
             /\ task'[j].queue = Append(task[j].queue, c)
             /\ task'[j].pc = task[j].pc /\ task'[j].work = task[j].work
      BY <1>7, <2>2, RoutedTo
    <3> QED BY <3>1, <3>2, <3>3, <3>4
  <2>3. Delivered(d) => Hosted(d)
    BY DEF Hosted
  <2> QED BY <2>1, <2>2, <2>3
<1>13. /\ \A m \in DOMAIN streams' : \A d : On(streams[m], d)' <=> On(streams'[m], d)
       /\ \A m \in DOMAIN streams' : MailRising(streams[m])' <=> MailRising(streams'[m])
  BY DEF On, MailRising
<1>14. ASSUME NEW m \in DOMAIN streams, NEW d \in Ids, On(streams'[m], d)
       PROVE  On(streams[m], d) /\ d # c /\ (m = n => c < d)
  <2>1. CASE m = n
    BY <1>3, <1>4, <1>9, <1>14, <2>1 DEF s
  <2>2. CASE m # n
    <3>1. On(streams[m], d)
      BY <1>4, <1>14, <2>2
    <3>2. d # c
      BY <1>3, <2>2, <3>1 DEF WireInv, s
    <3> QED BY <2>2, <3>1, <3>2
  <2> QED BY <2>1, <2>2
<1>15. ShipInv'
  <2>1. \A d : Hosted(d)' => Shipped(d)'
    <3> SUFFICES ASSUME NEW d, Hosted(d)' PROVE Shipped(d)'
      OBVIOUS
    <3>1. CASE d = c
      BY <1>5, <3>1
    <3>2. CASE Hosted(d)
      <4>1. Shipped(d) /\ d \in Ids
        BY <3>2 DEF ShipInv, Shipped
      <4> QED BY <4>1
    <3> QED BY <1>12, <3>1, <3>2
  <2> QED BY <1>4, <1>7, <1>13, <1>14, <2>1 DEF ShipInv
<1>16. WireInv'
  <2>1. \A d \in Ids : Hosted(d)' => via'[d] \in DOMAIN streams'
    BY <1>4, <1>6, <1>12 DEF WireInv
  <2>2. \A m \in DOMAIN streams' : MailRising(streams'[m])
    BY <1>3, <1>4 DEF WireInv
  <2>3. \A m, p \in DOMAIN streams', d \in Ids :
          On(streams'[m], d) /\ On(streams'[p], d) => m = p
    BY <1>4, <1>14 DEF WireInv
  <2>4. ASSUME NEW m \in DOMAIN streams', NEW d \in Ids, On(streams'[m], d)
        PROVE  ~Hosted(d)' /\ \A e \in Ids : Hosted(e)' /\ via'[e] = m => e < d
    <3>1. m \in DOMAIN streams /\ On(streams[m], d) /\ d # c /\ (m = n => c < d)
      BY <1>4, <1>14, <2>4
    <3>2. ~Hosted(d) /\ \A e \in Ids : Hosted(e) /\ via[e] = m => e < d
      BY <3>1 DEF WireInv
    <3> QED BY <1>6, <1>12, <3>1, <3>2
  <2> QED BY <1>6, <1>13, <2>1, <2>2, <2>3, <2>4 DEF WireInv
<1>17. NoneClosed' => NoneClosed
  <2>1. \A j \in DOMAIN task : j \in DOMAIN task' /\ task'[j].closed = task[j].closed
    BY <1>7, RoutedTo
  <2> QED BY <2>1 DEF NoneClosed
<1>18. ASSUME NoneClosed', LineInv PROVE LineInv'
  <2>1. /\ \A d : Delivered(d) => Hosted(d) /\ d \in Ids
        /\ \A j \in DOMAIN task :
             /\ \A d : InQueue(task[j], d) => Hosted(d) /\ d \in Ids
             /\ task[j].pc = "delivering" => Hosted(task[j].work) /\ task[j].work \in Ids
    BY DEF Hosted, InHand, ShipInv, Shipped
  <2>2. ASSUME NEW q, Rising(via, q), \A k \in DOMAIN q : Hosted(q[k]) /\ q[k] \in Ids
        PROVE  Rising(via', q)
    BY <1>10, <2>2 DEF Rising
  <2>3. Rising(via', delivered)
    BY <1>18, <2>1, <2>2 DEF LineInv, Delivered
  <2>4. ASSUME NEW j \in DOMAIN task
        PROVE  /\ j = 1 /\ Rising(via', task[j].queue)
               /\ \A a, d \in Ids : InQueue(task[j], a) /\ Delivered(d) => Before(via', d, a)
               /\ task[j].pc = "delivering" =>
                    \A a \in Ids : /\ InQueue(task[j], a) => Before(via', task[j].work, a)
                                   /\ Delivered(a) => Before(via', a, task[j].work)
    <3>1. Rising(via', task[j].queue)
      BY <1>18, <2>1, <2>2 DEF LineInv, InQueue
    <3> QED BY <1>10, <1>18, <2>1, <3>1 DEF LineInv
  <2>5. ASSUME NEW j \in DOMAIN task'
        PROVE  /\ j = 1 /\ Rising(via', task'[j].queue)
               /\ \A a, d \in Ids : InQueue(task'[j], a) /\ Delivered(d) => Before(via', d, a)
               /\ task'[j].pc = "delivering" =>
                    \A a \in Ids : /\ InQueue(task'[j], a) => Before(via', task'[j].work, a)
                                   /\ Delivered(a) => Before(via', a, task'[j].work)
    <3>1. CASE j \in DOMAIN task /\ task'[j] = task[j]
      BY <2>4, <3>1
    <3>2. CASE task'[j] = NewTask(c) /\ task = <<>> /\ j = 1
      <4>1. Rising(via', <<c>>)
        BY DEF Rising
      <4>2. \A d : InQueue(NewTask(c), d) => d = c
        BY DEF NewTask, InQueue
      <4>3. NewTask(c).queue = <<c>> /\ NewTask(c).pc = "ready"
        BY DEF NewTask
      <4> QED BY <1>11, <2>1, <3>2, <4>1, <4>2, <4>3
    <3>3. CASE /\ j \in DOMAIN task /\ task[j].queue \in Seq(Ids)
               /\ task'[j].queue = Append(task[j].queue, c)
               /\ task'[j].pc = task[j].pc /\ task'[j].work = task[j].work
      <4> DEFINE q == task[j].queue
      <4>1. q \in Seq(Ids) /\ task'[j].queue = Append(q, c) /\ Rising(via', q)
        BY <2>4, <3>3
      <4>2. \A k \in DOMAIN q : q[k] \in Ids /\ Hosted(q[k])
        BY <2>1, <3>3 DEF InQueue
      <4> HIDE DEF q
      <4>3. \A k \in DOMAIN q : Before(via', q[k], c)
        BY <1>11, <4>2
      <4>4. /\ \A d : (\E k \in DOMAIN Append(q, c) : Append(q, c)[k] = d) =>
                         (\E k \in DOMAIN q : q[k] = d) \/ d = c
            /\ Rising(via', Append(q, c))
        BY <4>1, <4>3, AppendToRising
      <4>5. \A d : InQueue(task'[j], d) => InQueue(task[j], d) \/ d = c
        BY <4>1, <4>4 DEF InQueue, q
      <4> QED BY <1>11, <2>1, <2>4, <3>3, <4>1, <4>4, <4>5
    <3>4. \/ j \in DOMAIN task /\ task'[j] = task[j]
          \/ task'[j] = NewTask(c) /\ task = <<>> /\ j = 1
          \/ /\ j \in DOMAIN task /\ task[j].queue \in Seq(Ids)
             /\ task'[j].queue = Append(task[j].queue, c)
             /\ task'[j].pc = task[j].pc /\ task'[j].work = task[j].work
      <4>1. CASE task' = task
        BY <2>5, <4>1
      <4>2. CASE /\ route \in DOMAIN task /\ DOMAIN task' = DOMAIN task
                 /\ \A i \in DOMAIN task : i # route => task'[i] = task[i]
                 /\ task[route].queue \in Seq(Ids)
                 /\ task'[route].queue = Append(task[route].queue, c)
                 /\ task'[route].pc = task[route].pc /\ task'[route].work = task[route].work
        BY <2>5, <4>2
      <4>3. ASSUME NEW l, DOMAIN task' = DOMAIN task \cup {l}, task'[l] = NewTask(c),
                   \A i \in DOMAIN task : task'[i] = task[i],
                   task # <<>> => ~NoneClosed', task = <<>> => l = 1
            PROVE  \/ j \in DOMAIN task /\ task'[j] = task[j]
                   \/ task'[j] = NewTask(c) /\ task = <<>> /\ j = 1
        BY <1>18, <2>5, <4>3
      <4> QED BY <1>7, <4>1, <4>2, <4>3, RoutedTo
    <3> QED BY <3>1, <3>2, <3>3, <3>4
  <2> QED BY <1>7, <1>8, <2>3, <2>5 DEF LineInv, InQueue, Rising, Before
<1> QED BY <1>15, <1>16, <1>17, <1>18

LEMMA OrderStep == QueueInv /\ CallInv /\ OrderInv /\ [Next]_vars => OrderInv'
<1> SUFFICES ASSUME QueueInv, CallInv, OrderInv, [Next]_vars PROVE OrderInv'
  OBVIOUS
<1>1. /\ CastInv' /\ plan' = plan /\ \A f : Bypasses(f)' = Bypasses(f)
      /\ \A c \in Ids : Shipped(c) => Shipped(c)'
  BY CastStep DEF OrderInv
<1>2. CASE Shrinks
  BY <1>1, <1>2, ShrinkKeeps, RestKeeps DEF OrderInv, Shrinks
<1>3. CASE \E c \in Ids, f \in Frames : Sending(c, f)
  BY <1>1, <1>3, SendingKeeps, RestKeeps DEF OrderInv, Sending
<1>4. CASE \E n \in DOMAIN streams : Incoming(n)
  BY <1>1, <1>4, IncomingKeeps DEF OrderInv
<1>5. CASE \E i \in DOMAIN task : Working(i)
  BY <1>1, <1>5, WorkingKeeps DEF OrderInv
<1>6. CASE Crash
  <2>1. /\ streams' = << <<>> >> /\ task' = <<>> /\ delivered' = <<>>
        /\ via' \in [Ids -> Nat]
    BY <1>6 DEF Crash
  <2>2. /\ DOMAIN streams' = {1} /\ streams'[1] = <<>>
        /\ DOMAIN task' = {} /\ DOMAIN delivered' = {} /\ DOMAIN <<>> = {}
    BY <2>1
  <2>3. \A c : ~Hosted(c)'
    BY <2>2 DEF Hosted, Delivered
  <2>4. \A n \in DOMAIN streams' : \A c : ~On(streams[n], c)' /\ MailRising(streams[n])'
    BY <2>2 DEF On, MailRising
  <2>5. LineInv'
    BY <2>2 DEF LineInv, Rising
  <2> QED BY <1>1, <2>1, <2>2, <2>3, <2>4, <2>5 DEF OrderInv, ShipInv, WireInv
<1> QED BY <1>2, <1>3, <1>4, <1>5, <1>6, StepKinds DEF OrderInv

\* While no task of an actor closed its queue for being idle, messages that came on one
\* stream get into the mailbox in the order they were sent and at most once, whatever is
\* lost, refused, called off or late on the way, and whatever comes on another stream.
THEOREM OrderIsKept == Spec => []OrderOnStream
<1>1. Init => QueueInv /\ CallInv /\ OrderInv
  <2> SUFFICES ASSUME Init PROVE QueueInv /\ CallInv /\ OrderInv
    OBVIOUS
  <2>1. plan \in [Ids -> Kinds]
    BY MessagingAssumption DEF Init
  <2>2. CallInv
    BY <2>1 DEF Init, CallInv, PendingIsAwaited, States, Told
  <2>3. /\ streams = << <<>> >> /\ DOMAIN streams = {1} /\ streams[1] = <<>> /\ DOMAIN <<>> = {}
        /\ delivered = <<>> /\ task = <<>>
    BY DEF Init
  <2>4. QueueInv
    <3>1. << <<>> >> \in Seq(Seq(Frames))
      OBVIOUS
    <3> QED BY <2>3, <3>1 DEF Init, QueueInv
  <2>5. /\ \A c : ~Hosted(c)
        /\ \A n \in DOMAIN streams : \A c : ~On(streams[n], c) /\ MailRising(streams[n])
    BY <2>3 DEF Hosted, Delivered, On, MailRising
  <2>6. ShipInv /\ WireInv /\ LineInv
    <3>1. via \in [Ids -> Nat]
      BY DEF Init
    <3> QED BY <2>3, <2>5, <3>1 DEF ShipInv, WireInv, LineInv, Rising
  <2>7. OrderInv
    BY <2>6 DEF Init, OrderInv, CastInv, Past
  <2> QED BY <2>2, <2>4, <2>7
<1>2. OrderInv => OrderOnStream
  BY DEF OrderInv, NoneClosed, LineInv, Rising, Before, OrderOnStream
<1> QED BY <1>1, <1>2, QueueStep, CallStep, OrderStep, PTL DEF Spec
=============================================================================
