---------------------------- MODULE ChannelProofs ----------------------------
(***************************************************************************)
(* Theorems about Channel for any number of runs, messages and signals,    *)
(* and about Monitor for any waits.                                        *)
(***************************************************************************)
EXTENDS Monitor, SequenceTheorems, FiniteSetTheorems, TLAPS

-----------------------------------------------------------------------------
(* Type correctness.                                                       *)

\* Push keeps a history a sequence with at most one entry more than Keep.  The entry
\* comes last, after what was there, or all of it but the first.
LEMMA PushProperties ==
  ASSUME NEW S, NEW history \in Seq(S), Len(history) <= Keep + 1, NEW x \in S
  PROVE  /\ Push(history, x) \in Seq(S)
         /\ Len(history) \in Nat /\ Len(Push(history, x)) \in Nat
         /\ Len(Push(history, x)) = IF Len(history) > Keep THEN Keep + 1 ELSE Len(history) + 1
         /\ Push(history, x)[Len(Push(history, x))] = x
         /\ \A i \in 1..(Len(Push(history, x)) - 1) :
              Push(history, x)[i] = history[i + Len(history) + 1 - Len(Push(history, x))]
<1>0. Keep \in Nat /\ Len(history) \in Nat
  BY ChannelAssumption, LenProperties
<1>1. CASE Len(history) > Keep
  <2>1. history # <<>>
    BY <1>0, <1>1, EmptySeq
  <2>2. /\ Tail(history) \in Seq(S) /\ Len(Tail(history)) = Len(history) - 1
        /\ \A i \in 1..(Len(history) - 1) : Tail(history)[i] = history[i + 1]
    BY <2>1, HeadTailProperties
  <2>3. Push(history, x) = Append(Tail(history), x) /\ Len(history) = Keep + 1
    BY <1>0, <1>1 DEF Push
  <2>4. /\ Append(Tail(history), x) \in Seq(S) /\ Len(Append(Tail(history), x)) = Keep + 1
        /\ Append(Tail(history), x)[Keep + 1] = x
        /\ \A i \in 1..Keep : Append(Tail(history), x)[i] = Tail(history)[i]
    BY <1>0, <2>2, <2>3, AppendProperties
  <2> QED BY <1>0, <1>1, <2>2, <2>3, <2>4
<1>2. CASE ~(Len(history) > Keep)
  <2>1. Push(history, x) = Append(history, x)
    BY <1>2 DEF Push
  <2>2. /\ Append(history, x) \in Seq(S) /\ Len(Append(history, x)) = Len(history) + 1
        /\ Append(history, x)[Len(history) + 1] = x
        /\ \A i \in 1..Len(history) : Append(history, x)[i] = history[i]
    BY AppendProperties
  <2> QED BY <1>0, <1>2, <2>1, <2>2
<1> QED BY <1>1, <1>2

\* PopSignal, on a queue that is not empty, keeps the types of what it changes.
LEMMA PopSignalType ==
  ASSUME TypeOK, signalQueue # <<>>, PopSignal
  PROVE  /\ status' \in Statuses /\ spawns' \in Seq(Runs)
         /\ exits' \in Seq(ExitStatuses) /\ atExiting' \subseteq Msgs
         /\ signalQueue' \in Seq(Sigs)
<1>1. signalQueue' \in Seq(Sigs)
  BY HeadTailProperties DEF TypeOK, PopSignal
<1>2. status' \in Statuses
  BY DEF TypeOK, PopSignal, AfterSignal, Statuses
<1>3. {msgQueue[i] : i \in DOMAIN msgQueue} \subseteq Msgs
  BY DEF TypeOK
<1>4. QED
  BY <1>1, <1>2, <1>3 DEF TypeOK, PopSignal


\* A run has an outcome exactly from the moment its future has ended, and only
\* a run that was spawned gets as far as registering it.
Unended == Open \cup {"unspawned", "refused", "checked", "spawning"}

OutcomeOK ==
  \A r \in Runs :
    /\ outcome[r] = "None" <=> phase[r] \in Unended
    /\ phase[r] \in {"dropped", "recording", "done"} => outcome[r] # "SpawnPanicked"

\* A history is never longer than it may be.
HistoryOK == Len(spawns) <= Keep + 1 /\ Len(exits) <= Keep + 1

TypeInv == TypeOK /\ OutcomeOK /\ HistoryOK

\* A run goes on with its handler,
LEMMA StaysOpen ==
  ASSUME TypeInv, NEW r \in Runs, NEW p \in Open, phase[r] \in Open, Goto(r, p),
         UNCHANGED outcome
  PROVE  phase' \in [Runs -> Phases] /\ OutcomeOK'
<1>1. /\ Open \cap {"dropped", "recording", "done"} = {} /\ p \in Unended
      /\ p \in Phases /\ phase[r] \in Unended
  BY DEF Open, Receiving, PollingSignal, Parked, Phases, Unended
<1>2. /\ phase' \in [Runs -> Phases] /\ phase'[r] = p
      /\ \A q \in Runs \ {r} : phase'[q] = phase[q]
  BY <1>1 DEF TypeInv, TypeOK, Goto
<1> QED BY <1>1, <1>2 DEF TypeInv, OutcomeOK

\* or with its end.
LEMMA StaysEnding ==
  ASSUME TypeInv, NEW r \in Runs, NEW p \in Phases \ Unended, phase[r] \notin Unended,
         p \in {"dropped", "recording", "done"} => outcome[r] # "SpawnPanicked",
         Goto(r, p), UNCHANGED outcome
  PROVE  phase' \in [Runs -> Phases] /\ OutcomeOK'
<1>1. /\ phase' \in [Runs -> Phases] /\ phase'[r] = p
      /\ \A q \in Runs \ {r} : phase'[q] = phase[q]
  BY DEF TypeInv, TypeOK, Goto
<1>2. outcome[r] # "None"
  BY DEF TypeInv, OutcomeOK
<1> QED BY <1>1, <1>2 DEF TypeInv, OutcomeOK

\* The phases of a run that has ended are not those of one that has not.
LEMMA EndedPhases ==
  /\ {"drainMsgs", "drainSignals", "dropped", "recording", "bombing", "unwinding", "done",
      "crashed"} \subseteq Phases \ Unended
  /\ \A r \in Runs : Registered(r) \in {"unwinding", "drainMsgs", "done"}
  BY DEF Open, Receiving, PollingSignal, Parked, Phases, Unended, Over, Closing, Recording,
     Registered

\* The exit of a run is registered, or recorded.
LEMMA RegisterType ==
  ASSUME TypeInv, NEW r \in Runs,
         \/ phase[r] = "dropped" /\ RegisterExited(r, "recording")
         \/ phase[r] = "unwinding" /\ RegisterExited(r, "bombing")
         \/ RecordExit(r)
  PROVE  phase' \in [Runs -> Phases] /\ OutcomeOK'
<1>1. PICK p \in {"recording", "bombing", Registered(r)} :
        /\ Goto(r, p)
        /\ p = "recording" => phase[r] = "dropped"
  <2>1. Registered(r) # "recording"
    BY DEF Registered
  <2> QED BY <2>1 DEF RegisterExited, RecordExit
<1>2. /\ phase[r] \in {"dropped", "unwinding", "recording", "bombing"} /\ UNCHANGED outcome
  BY DEF RegisterExited, RecordExit, Recording
<1>3. p = "recording" => outcome[r] # "SpawnPanicked"
  BY <1>1 DEF TypeInv, OutcomeOK
<1>4. p \notin {"dropped"} /\ (p = "done" => outcome[r] # "SpawnPanicked")
  BY <1>1 DEF Registered, TypeInv, OutcomeOK
<1>5. p \in Phases \ Unended /\ phase[r] \notin Unended
  BY <1>1, <1>2, EndedPhases
<1> QED BY <1>1, <1>2, <1>3, <1>4, <1>5, StaysEnding

\* Every variable keeps its type in every step of Channel.
LEMMA TypeStep == TypeInv /\ [Next]_vars => TypeInv'
<1> SUFFICES ASSUME TypeInv, [Next]_vars PROVE TypeInv'
  OBVIOUS
<1> USE ChannelAssumption DEF TypeInv, Goto, Phases, Open, Receiving,
        PollingSignal, Parked, Closing, Over, Recording, Unended, HistoryOK,
        chanVars, queueVars, procVars, sendVars, fateVars
<1>1. ASSUME NEW r \in Runs, TrySpawn(r) PROVE TypeInv'
  BY <1>1 DEF TypeOK, OutcomeOK, TrySpawn
<1>2. ASSUME NEW r \in Runs, RegisterSpawned(r) PROVE TypeInv'
  BY <1>2 DEF TypeOK, OutcomeOK, RegisterSpawned, Statuses
<1>21. ASSUME NEW r \in Runs, RecordSpawn(r) PROVE TypeInv'
  <2>1. spawns' \in Seq(Runs) /\ Len(spawns') <= Keep + 1
    BY <1>21, PushProperties DEF TypeOK, RecordSpawn
  <2>2. TypeOK'
    BY <1>21, <2>1 DEF TypeOK, RecordSpawn
  <2>3. OutcomeOK'
    BY <1>21 DEF TypeOK, OutcomeOK, RecordSpawn
  <2> QED BY <1>21, <2>1, <2>2, <2>3 DEF RecordSpawn
<1>3. ASSUME NEW r \in Runs, SpawnPanics(r) PROVE TypeInv'
  BY <1>3 DEF TypeOK, OutcomeOK, SpawnPanics
<1>4. ASSUME NEW r \in Runs, Recv(r) PROVE TypeInv'
  <2>1. /\ phase[r] = "idle"
        /\ \E p \in {"closed", "signalOnly", "signalFirst"} :
             phase' = [phase EXCEPT ![r] = p]
    BY <1>4 DEF Recv
  <2>2. phase' \in [Runs -> Phases] /\ OutcomeOK'
    BY <1>4, <2>1 DEF TypeOK, OutcomeOK, Recv
  <2>3. /\ status' \in Statuses /\ closed' \subseteq Runs
        /\ init' \in [Runs -> {"Auto", "Manual", "Completed"}]
    BY <1>4 DEF TypeOK, Recv, Statuses
  <2> QED BY <1>4, <2>2, <2>3 DEF TypeOK, Recv
<1>5. ASSUME NEW r \in Runs, RegisterInitialized(r) PROVE TypeInv'
  BY <1>5 DEF TypeOK, OutcomeOK, RegisterInitialized, Statuses
<1>6. ASSUME NEW r \in Runs, RegisterExiting(r) PROVE TypeInv'
  BY <1>6 DEF TypeOK, OutcomeOK, RegisterExiting, Statuses
<1>7. ASSUME NEW r \in Runs, TakeSignal(r) PROVE TypeInv'
  <2>1. /\ status' \in Statuses /\ spawns' \in Seq(Runs)
        /\ exits' \in Seq(ExitStatuses) /\ atExiting' \subseteq Msgs
        /\ signalQueue' \in Seq(Sigs) /\ UNCHANGED <<spawns, exits>>
    <3>1. PopSignal /\ signalQueue # <<>>
      BY <1>7 DEF TakeSignal
    <3>2. UNCHANGED <<spawns, exits>>
      BY <3>1 DEF PopSignal
    <3> QED BY <3>1, <3>2, PopSignalType
  <2>0. /\ phase[r] \in PollingSignal
        /\ \E p \in {phase[r], "idle"} : phase' = [phase EXCEPT ![r] = p]
        /\ UNCHANGED outcome
    BY <1>7 DEF TakeSignal, TypeOK
  <2>2. phase' \in [Runs -> Phases] /\ OutcomeOK'
    BY <2>0 DEF TypeOK, OutcomeOK
  <2> QED BY <1>7, <2>1, <2>2 DEF TypeOK, TakeSignal
<1>8. ASSUME NEW r \in Runs, NoSignal(r) PROVE TypeInv'
  <2>1. phase[r] \in Open /\ \E p \in {"parkedSignal", "pollMsg", "parked"} : Goto(r, p)
    BY <1>8 DEF NoSignal
  <2>2. phase' \in [Runs -> Phases] /\ OutcomeOK'
    BY <1>8, <2>1, StaysOpen DEF NoSignal
  <2> QED BY <1>8, <2>2 DEF TypeOK, NoSignal
<1>9. ASSUME NEW r \in Runs, TakeMsg(r) PROVE TypeInv'
  <2>1. msgQueue' \in Seq(Msgs) /\ Head(msgQueue) \in Msgs
    BY <1>9, HeadTailProperties DEF TypeOK, TakeMsg
  <2>2. phase' \in [Runs -> Phases] /\ OutcomeOK'
    BY <1>9, StaysOpen DEF TakeMsg
  <2> QED BY <1>9, <2>1, <2>2 DEF TypeOK, TakeMsg
<1>10. ASSUME NEW r \in Runs, NoMsg(r) PROVE TypeInv'
  <2>1. phase' \in [Runs -> Phases] /\ OutcomeOK'
    BY <1>10, StaysOpen DEF NoMsg
  <2> QED BY <1>10, <2>1 DEF TypeOK, NoMsg
<1>11. ASSUME NEW r \in Runs, Wake(r) PROVE TypeInv'
  <2>1. /\ phase[r] \in Parked
        /\ \E p \in {"signalOnly", "signalWoken", "pollMsg"} :
             phase' = [phase EXCEPT ![r] = p]
    BY <1>11 DEF Wake
  <2>2. phase' \in [Runs -> Phases] /\ OutcomeOK'
    BY <1>11, <2>1 DEF TypeOK, OutcomeOK, Wake
  <2> QED BY <1>11, <2>2 DEF TypeOK, Wake
<1>12. ASSUME NEW r \in Runs, Abort(r) PROVE TypeInv'
  BY <1>12 DEF TypeOK, OutcomeOK, Abort, ExitStatuses
<1>13. ASSUME NEW r \in Runs,
              NEW how \in {"Normal", "UnhandledError", "Panicked"},
              Finish(r, how)
       PROVE  TypeInv'
  BY <1>13 DEF TypeOK, OutcomeOK, Finish, ExitStatuses
<1>14. ASSUME NEW r \in Runs, DrainMsg(r) PROVE TypeInv'
  <2>1. phase' \in [Runs -> Phases] /\ OutcomeOK'
    <3>1. CASE UNCHANGED phase
      BY <1>14, <3>1 DEF TypeOK, OutcomeOK, DrainMsg
    <3>2. CASE Goto(r, "drainSignals")
      BY <1>14, <3>2, StaysEnding DEF DrainMsg
    <3> QED BY <1>14, <3>1, <3>2 DEF DrainMsg
  <2>2. msgQueue' \in Seq(Msgs) /\ droppedBy' \in [Msgs -> Runs \cup {NoRun}]
    <3>1. CASE msgQueue = <<>>
      BY <1>14, <3>1 DEF TypeOK, DrainMsg
    <3>2. CASE msgQueue # <<>>
      <4>1. Head(msgQueue) \in Msgs /\ Tail(msgQueue) \in Seq(Msgs)
        BY <3>2, HeadTailProperties DEF TypeOK
      <4>2. /\ msgQueue' = Tail(msgQueue)
            /\ droppedBy' = [droppedBy EXCEPT ![Head(msgQueue)] = r]
        BY <1>14, <3>2 DEF DrainMsg
      <4> QED BY <4>1, <4>2 DEF TypeOK
    <3> QED BY <3>1, <3>2
  <2> QED BY <1>14, <2>1, <2>2 DEF TypeOK, DrainMsg
<1>15. ASSUME NEW r \in Runs, DrainSignal(r) PROVE TypeInv'
  <2>1. CASE signalQueue = <<>>
    <3>1. \E p \in {"crashed", "dropped"} :
            Goto(r, p) /\ (p = "dropped" => outcome[r] # "SpawnPanicked")
      BY <1>15, <2>1 DEF DrainSignal
    <3>2. phase[r] \notin Unended /\ UNCHANGED outcome
      BY <1>15 DEF DrainSignal
    <3>3. phase' \in [Runs -> Phases] /\ OutcomeOK'
      BY <3>1, <3>2, StaysEnding, EndedPhases
    <3> QED BY <1>15, <2>1, <3>3 DEF TypeOK, DrainSignal
  <2>2. CASE signalQueue # <<>>
    <3>1. /\ status' \in Statuses /\ spawns' \in Seq(Runs)
          /\ exits' \in Seq(ExitStatuses) /\ atExiting' \subseteq Msgs
          /\ signalQueue' \in Seq(Sigs) /\ UNCHANGED <<spawns, exits>>
      BY <1>15, <2>2, PopSignalType DEF DrainSignal, PopSignal
    <3> QED BY <1>15, <2>2, <3>1 DEF TypeOK, OutcomeOK, DrainSignal
  <2> QED BY <2>1, <2>2
<1>16. ASSUME NEW r \in Runs, RegisterExit(r) \/ BombDrop(r) PROVE TypeInv'
  <2>1. phase' \in [Runs -> Phases] /\ OutcomeOK'
    BY <1>16, RegisterType DEF RegisterExit, BombDrop
  <2> QED BY <1>16, <2>1 DEF TypeOK, RegisterExit, BombDrop, RegisterExited, Statuses
<1>17. ASSUME NEW r \in Runs, RecordExit(r) PROVE TypeInv'
  <2>1. phase' \in [Runs -> Phases] /\ OutcomeOK'
    BY <1>17, RegisterType
  <2>2. phase[r] \in {"recording", "bombing"}
    BY <1>17 DEF RecordExit
  <2>3. phase[r] = "recording" => outcome[r] \in ExitStatuses
    BY <2>2 DEF TypeOK, OutcomeOK
  <2>4. \E e \in ExitStatuses : exits' = Push(exits, e)
    BY <1>17, <2>2, <2>3 DEF RecordExit, ExitStatuses
  <2>5. exits' \in Seq(ExitStatuses) /\ Len(exits') <= Keep + 1
    BY <2>4, PushProperties DEF TypeOK
  <2>6. TypeOK'
    BY <1>17, <2>1, <2>5 DEF TypeOK, RecordExit
  <2> QED BY <1>17, <2>1, <2>5, <2>6 DEF RecordExit
<1>18. ASSUME NEW m \in Msgs, SendStep(m) PROVE TypeInv'
  <2>1. msgQueue' \in Seq(Msgs) /\ msgNotified' \in BOOLEAN
    <3>1. Append(msgQueue, m) \in Seq(Msgs)
      BY AppendProperties DEF TypeOK
    <3> QED BY <1>18, <3>1 DEF TypeOK, SendStep, CheckMsg, PushMsg, NotifyMsg
  <2>2. \E to \in {"checked", "closed", "pushed", "sent"} :
          sender' = [sender EXCEPT ![m] = to]
    BY <1>18 DEF SendStep, CheckMsg, PushMsg, NotifyMsg
  <2>3. UNCHANGED <<chanVars, signalQueue, signalNotified, procVars, sigSender,
                    fateVars>>
    BY <1>18 DEF SendStep, CheckMsg, PushMsg, NotifyMsg
  <2>4. OutcomeOK' /\ HistoryOK'
    BY <2>3 DEF OutcomeOK
  <2> QED BY <2>1, <2>2, <2>3, <2>4 DEF TypeOK
<1>19. ASSUME NEW s \in Sigs, SignalStep(s) PROVE TypeInv'
  <2>1. signalQueue' \in Seq(Sigs) /\ signalNotified' \in BOOLEAN
    <3>1. Append(signalQueue, s) \in Seq(Sigs)
      BY AppendProperties DEF TypeOK
    <3> QED BY <1>19, <3>1
            DEF TypeOK, SignalStep, CheckSignal, PushSignal, NotifySignal
  <2>2. \E to \in {"checked", "closed", "pushed", "sent"} :
          sigSender' = [sigSender EXCEPT ![s] = to]
    BY <1>19 DEF SignalStep, CheckSignal, PushSignal, NotifySignal
  <2>3. UNCHANGED <<chanVars, msgQueue, msgNotified, procVars, sender, fateVars>>
    BY <1>19 DEF SignalStep, CheckSignal, PushSignal, NotifySignal
  <2>4. OutcomeOK' /\ HistoryOK'
    BY <2>3 DEF OutcomeOK
  <2> QED BY <2>1, <2>2, <2>3, <2>4 DEF TypeOK
<1>20. CASE UNCHANGED vars
  BY <1>20 DEF TypeOK, OutcomeOK, vars
<1> QED
  BY <1>1, <1>2, <1>3, <1>4, <1>5, <1>6, <1>7, <1>8, <1>9, <1>10, <1>11,
     <1>12, <1>13, <1>14, <1>15, <1>16, <1>17, <1>18, <1>19, <1>20, <1>21
     DEF Next, RunStep, HandlerStep

\* The initial state is typed.
LEMMA TypeInit == Init => TypeInv
<1> SUFFICES ASSUME Init PROVE TypeInv
  OBVIOUS
<1>1. "unspawned" \in Phases
  BY DEF Phases, Over
<1>2. OutcomeOK
  BY DEF Init, OutcomeOK, Unended
<1>3. init \in [Runs -> {"Auto", "Manual", "Completed"}]
  BY DEF Init
<1>4. \A S : <<>> \in Seq(S)
  OBVIOUS
<1>5. TypeOK
  BY <1>1, <1>3, <1>4 DEF Init, TypeOK, Statuses
<1>6. HistoryOK
  BY ChannelAssumption DEF Init, HistoryOK
<1> QED BY <1>2, <1>5, <1>6 DEF TypeInv

\* Channel is type-correct, whatever discipline its owner follows.
THEOREM TypeCorrect == Spec => []TypeOK
<1>1. TypeInv => TypeOK
  BY DEF TypeInv
<1> QED BY <1>1, TypeInit, TypeStep, PTL DEF Spec

-----------------------------------------------------------------------------
(* One process at a time.                                                  *)

\* When the owner joins a run before it spawns the next one, at most one run
\* is on its way or unwinding, and the status tells which it is.
SlotInv ==
  /\ \A q, r \in Runs : phase[q] \notin Over /\ phase[r] \notin Over => q = r
  /\ \A r \in Runs : phase[r] \in Present => status # "Exited"
  /\ \A r \in Runs : phase[r] \in {"checked", "unwinding", "recording"} => status = "Exited"
  /\ \A r \in Runs : phase[r] # "bombing"
  /\ (\A r \in Runs : phase[r] \in Over) => status = "Exited"
  /\ \A r \in Runs : outcome[r] # "SpawnPanicked"

\* The phases overlap only as they should.
LEMMA PhasesDisjoint ==
  /\ Present \cap (Over \cup {"checked", "unwinding", "recording", "bombing"}) = {}
  /\ "checked" \notin Over /\ "unwinding" \notin Over /\ "recording" \notin Over
  /\ Phases = Present \cup Over \cup {"checked", "unwinding", "recording", "bombing"}
  BY DEF Phases, Present, Open, Receiving, PollingSignal, Parked, Closing, Over, Recording

\* Under the invariant the processes are the runs in an open or closing phase.
LEMMA SlotProcesses ==
  ASSUME SlotInv
  PROVE  Processes = {r \in Runs : phase[r] \in Present}
  BY DEF SlotInv, Processes, Occupies

\* A step of the run in the slot that neither starts nor ends its process.
LEMMA InSlot ==
  ASSUME TypeOK, SlotInv,
         NEW r \in Runs, phase[r] \in Present,
         NEW p \in Present, phase' = [phase EXCEPT ![r] = p],
         NEW o, o # "SpawnPanicked", outcome' = [outcome EXCEPT ![r] = o],
         status' # "Exited"
  PROVE  SlotInv' /\ Processes' = Processes /\ Processes # {}
<1> USE DEF TypeOK
<1>1. \A q \in Runs : q # r => phase[q] \in Over /\ phase'[q] = phase[q]
  BY PhasesDisjoint DEF SlotInv
<1>2. phase'[r] = p /\ outcome'[r] = o
  OBVIOUS
<1>3. \A q \in Runs : outcome'[q] # "SpawnPanicked"
  BY DEF SlotInv
<1>4. SlotInv'
  BY <1>1, <1>2, <1>3, PhasesDisjoint DEF SlotInv
<1>5. {q \in Runs : phase'[q] \in Present}
        = {q \in Runs : phase[q] \in Present}
  BY <1>1, <1>2
<1>6. Processes' = {q \in Runs : phase'[q] \in Present}
  BY <1>4 DEF SlotInv, Processes, Occupies
<1> QED BY <1>4, <1>5, <1>6, SlotProcesses

\* A step that changes no phase, no outcome and no status.
LEMMA OutsideSlot ==
  ASSUME SlotInv, UNCHANGED <<phase, outcome, status>>
  PROVE  SlotInv' /\ Processes' = Processes
  BY DEF SlotInv, Processes, Occupies

\* Handling a signal inside the slot is a step of the lifecycle.
LEMMA SignalInSlot ==
  ASSUME TypeOK, SlotInv, PopSignal,
         NEW r \in Runs, phase[r] \in Present,
         \E p \in Present : phase' = [phase EXCEPT ![r] = p],
         outcome' = [outcome EXCEPT ![r] = outcome[r]]
  PROVE  SlotInv' /\ [Slot!Next]_(Slot!slotVars)
<1>1. \/ status' = status
      \/ /\ status \in {"Initializing", "Running", "Suspended"}
         /\ status' = "Exiting"
      \/ status = "Running" /\ status' = "Suspended"
      \/ status = "Suspended" /\ status' = "Running"
  BY DEF PopSignal, AfterSignal
<1>2. status # "Exited" /\ status' # "Exited"
  BY <1>1 DEF SlotInv
<1>3. SlotInv' /\ Processes' = Processes /\ Processes # {}
  BY <1>2, InSlot DEF SlotInv
<1> QED BY <1>1, <1>3
        DEF Slot!Next, Slot!BeginExit, Slot!Suspend, Slot!Resume, Slot!Move,
            Slot!slotVars

\* The slot invariant is inductive, and every step is one of ProcessSlot.
LEMMA SlotStep ==
  ASSUME Respawn = "joined", TypeInv, TypeInv', SlotInv, [Next]_vars
  PROVE  SlotInv' /\ [Slot!Next]_(Slot!slotVars)
<1> DEFINE Abstract == [Slot!Next]_(Slot!slotVars)
<1> USE DEF TypeInv, Goto, chanVars, queueVars, procVars, sendVars, fateVars
<1>1. ASSUME NEW r \in Runs, TrySpawn(r) PROVE SlotInv' /\ Abstract
  <2>1. (\A q \in Runs : phase[q] \in Over) /\ status = "Exited"
    BY <1>1 DEF TrySpawn, MaySpawn, SlotInv
  <2>2. /\ phase' = [phase EXCEPT ![r] = "checked"]
        /\ UNCHANGED <<status, outcome>>
    BY <1>1, <2>1 DEF TrySpawn
  <2>3. SlotInv'
    BY <2>1, <2>2, PhasesDisjoint DEF SlotInv, TypeOK
  <2>4. Processes = {} /\ Processes' = {}
    BY <2>1, <2>2, PhasesDisjoint DEF Processes, Occupies, TypeOK
  <2> QED BY <2>2, <2>3, <2>4 DEF Slot!slotVars
<1>2. ASSUME NEW r \in Runs, RegisterSpawned(r) PROVE SlotInv' /\ Abstract
  <2>1. \A q \in Runs : q # r => phase[q] \in Over
    BY <1>2, PhasesDisjoint DEF RegisterSpawned, SlotInv
  <2>2. /\ phase[r] = "checked" /\ phase' = [phase EXCEPT ![r] = "spawning"]
        /\ status = "Exited" /\ status' = "Initializing"
        /\ UNCHANGED outcome
    BY <1>2 DEF RegisterSpawned
  <2>3. "spawning" \in Present
    BY DEF Present
  <2>4. SlotInv'
    BY <2>1, <2>2, <2>3, PhasesDisjoint DEF SlotInv, TypeOK
  <2>5. Processes = {}
    BY <2>1, <2>2, PhasesDisjoint DEF Processes, Occupies
  <2>6. Processes' = {r}
    BY <2>1, <2>2, <2>3, PhasesDisjoint DEF Processes, Occupies, TypeOK, SlotInv
  <2>7. Slot!Spawn(r)
    BY <2>2, <2>5, <2>6 DEF Slot!Spawn
  <2> QED BY <2>4, <2>7 DEF Slot!Next
<1>21. ASSUME NEW r \in Runs, RecordSpawn(r) PROVE SlotInv' /\ Abstract
  <2>1. /\ phase[r] \in Present /\ UNCHANGED status
        /\ \E p \in Present : phase' = [phase EXCEPT ![r] = p]
        /\ outcome' = [outcome EXCEPT ![r] = outcome[r]]
    BY <1>21 DEF RecordSpawn, TypeOK, Present, Open
  <2>2. SlotInv' /\ Processes' = Processes
    BY <2>1, InSlot DEF SlotInv
  <2> QED BY <2>1, <2>2 DEF Slot!slotVars
<1>3. ASSUME NEW r \in Runs, SpawnPanics(r) PROVE SlotInv' /\ Abstract
  BY <1>3 DEF SpawnPanics, SlotInv
<1>4. ASSUME NEW r \in Runs, Recv(r) PROVE SlotInv' /\ Abstract
  <2>1. /\ phase[r] \in Present
        /\ \E p \in Present : phase' = [phase EXCEPT ![r] = p]
    BY <1>4 DEF Recv, Present, Open, Receiving, PollingSignal
  <2>2. outcome' = [outcome EXCEPT ![r] = outcome[r]]
    BY <1>4 DEF Recv, TypeOK
  <2>3. status # "Exited"
    BY <2>1 DEF SlotInv
  <2>4. status' = status \/ (status = "Initializing" /\ status' = "Running")
    BY <1>4 DEF Recv
  <2>5. SlotInv' /\ Processes' = Processes /\ Processes # {}
    BY <2>1, <2>2, <2>3, <2>4, InSlot DEF SlotInv
  <2>6. CASE status' = status
    BY <2>5, <2>6 DEF Slot!slotVars
  <2>7. CASE status = "Initializing" /\ status' = "Running"
    BY <2>5, <2>7 DEF Slot!Next, Slot!Initialize, Slot!Move
  <2> QED BY <2>4, <2>5, <2>6, <2>7
<1>5. ASSUME NEW r \in Runs, RegisterInitialized(r) PROVE SlotInv' /\ Abstract
  <2>1. /\ phase[r] \in Present /\ phase' = [phase EXCEPT ![r] = phase[r]]
        /\ outcome' = [outcome EXCEPT ![r] = outcome[r]]
    BY <1>5 DEF RegisterInitialized, TypeOK, Present, Open
  <2>2. status' = status \/ (status = "Initializing" /\ status' = "Running")
    BY <1>5 DEF RegisterInitialized
  <2>3. SlotInv' /\ Processes' = Processes /\ Processes # {}
    BY <2>1, <2>2, InSlot DEF SlotInv
  <2> QED BY <2>2, <2>3
          DEF Slot!Next, Slot!Initialize, Slot!Move, Slot!slotVars
<1>6. ASSUME NEW r \in Runs, RegisterExiting(r) PROVE SlotInv' /\ Abstract
  <2>1. /\ phase[r] \in Present /\ phase' = [phase EXCEPT ![r] = phase[r]]
        /\ outcome' = [outcome EXCEPT ![r] = outcome[r]]
    BY <1>6 DEF RegisterExiting, TypeOK, Present, Open
  <2>2. /\ status \in {"Initializing", "Running", "Suspended"}
        /\ status' = "Exiting"
    BY <1>6 DEF RegisterExiting
  <2>3. SlotInv' /\ Processes' = Processes /\ Processes # {}
    BY <2>1, <2>2, InSlot DEF SlotInv
  <2> QED BY <2>2, <2>3 DEF Slot!Next, Slot!BeginExit, Slot!Move
<1>7. ASSUME NEW r \in Runs, TakeSignal(r) PROVE SlotInv' /\ Abstract
  <2>1. /\ phase[r] \in Present
        /\ \E p \in Present : phase' = [phase EXCEPT ![r] = p]
        /\ outcome' = [outcome EXCEPT ![r] = outcome[r]]
    <3>1. /\ phase[r] \in PollingSignal
          /\ phase' = [phase EXCEPT ![r] = "idle"] \/ phase' = phase
          /\ outcome' = outcome
      BY <1>7 DEF TakeSignal, Goto
    <3>2. /\ phase = [phase EXCEPT ![r] = phase[r]]
          /\ outcome = [outcome EXCEPT ![r] = outcome[r]]
      BY DEF TypeInv, TypeOK
    <3>3. phase[r] \in Present /\ "idle" \in Present
      BY <3>1 DEF Present, Open, Receiving
    <3> QED BY <3>1, <3>2, <3>3
  <2> QED BY <1>7, <2>1, SignalInSlot DEF TakeSignal
<1>8. ASSUME NEW r \in Runs, NoSignal(r) PROVE SlotInv' /\ Abstract
  <2>1. /\ phase[r] \in Present /\ UNCHANGED status
        /\ \E p \in Present : phase' = [phase EXCEPT ![r] = p]
        /\ outcome' = [outcome EXCEPT ![r] = outcome[r]]
    BY <1>8 DEF NoSignal, TypeOK, Present, Open, Receiving, PollingSignal, Parked
  <2>2. SlotInv' /\ Processes' = Processes
    BY <2>1, InSlot DEF SlotInv
  <2> QED BY <2>1, <2>2 DEF Slot!slotVars
<1>9. ASSUME NEW r \in Runs, TakeMsg(r) \/ NoMsg(r) \/ Wake(r)
      PROVE  SlotInv' /\ Abstract
  <2>1. /\ phase[r] \in Present /\ UNCHANGED status
        /\ \E p \in Present : phase' = [phase EXCEPT ![r] = p]
        /\ outcome' = [outcome EXCEPT ![r] = outcome[r]]
    BY <1>9 DEF TakeMsg, NoMsg, Wake, TypeOK, Present, Open, Receiving, PollingSignal,
                Parked
  <2>2. SlotInv' /\ Processes' = Processes
    BY <2>1, InSlot DEF SlotInv
  <2> QED BY <2>1, <2>2 DEF Slot!slotVars
<1>10. ASSUME NEW r \in Runs,
              \/ \E how \in {"Normal", "UnhandledError", "Panicked"} :
                   Finish(r, how)
              \/ Abort(r)
       PROVE  SlotInv' /\ Abstract
  <2>1. /\ phase[r] \in Present /\ UNCHANGED status
        /\ phase' = [phase EXCEPT ![r] = "drainMsgs"]
        /\ \E o \in ExitStatuses : outcome' = [outcome EXCEPT ![r] = o]
    BY <1>10 DEF Finish, Abort, Present, Open, Receiving, Parked, ExitStatuses
  <2>2. "drainMsgs" \in Present /\ \A o \in ExitStatuses : o # "SpawnPanicked"
    BY DEF Present, Closing, ExitStatuses
  <2>3. SlotInv' /\ Processes' = Processes
    BY <2>1, <2>2, InSlot DEF SlotInv
  <2> QED BY <2>1, <2>3 DEF Slot!slotVars
<1>11. ASSUME NEW r \in Runs, DrainMsg(r) PROVE SlotInv' /\ Abstract
  <2>1. /\ phase[r] \in Present /\ UNCHANGED status
        /\ \E p \in Present : phase' = [phase EXCEPT ![r] = p]
        /\ outcome' = [outcome EXCEPT ![r] = outcome[r]]
    BY <1>11 DEF DrainMsg, TypeOK, Present, Closing
  <2>2. SlotInv' /\ Processes' = Processes
    BY <2>1, InSlot DEF SlotInv
  <2> QED BY <2>1, <2>2 DEF Slot!slotVars
<1>12. ASSUME NEW r \in Runs, DrainSignal(r) PROVE SlotInv' /\ Abstract
  <2>1. /\ phase[r] \in Present
        /\ \E p \in Present : phase' = [phase EXCEPT ![r] = p]
        /\ outcome' = [outcome EXCEPT ![r] = outcome[r]]
    BY <1>12 DEF DrainSignal, TypeOK, Present, Closing, SlotInv
  <2>2. CASE signalQueue # <<>>
    BY <1>12, <2>1, <2>2, SignalInSlot DEF DrainSignal
  <2>3. CASE signalQueue = <<>>
    <3>1. UNCHANGED status
      BY <1>12, <2>3 DEF DrainSignal
    <3>2. SlotInv' /\ Processes' = Processes
      BY <2>1, <3>1, InSlot DEF SlotInv
    <3> QED BY <3>1, <3>2 DEF Slot!slotVars
  <2> QED BY <2>2, <2>3
<1>13. ASSUME NEW r \in Runs, RegisterExit(r) PROVE SlotInv' /\ Abstract
  <2>0. phase[r] = "dropped" /\ "dropped" \in Present
    BY <1>13 DEF RegisterExit, Present, Closing
  <2>1. status # "Exited" /\ \A q \in Runs : q # r => phase[q] \in Over
    BY <2>0, PhasesDisjoint DEF SlotInv
  <2>2. /\ status' = "Exited" /\ UNCHANGED outcome
        /\ phase' = [phase EXCEPT ![r] = "recording"]
    BY <1>13, <2>1 DEF RegisterExit, RegisterExited
  <2>3. SlotInv'
    BY <2>1, <2>2, PhasesDisjoint DEF SlotInv, TypeOK
  <2>4. r \in Processes
    BY <2>0, SlotProcesses
  <2>5. Processes' = {}
    BY <2>1, <2>2, PhasesDisjoint DEF Processes, Occupies, TypeOK
  <2>6. Slot!Exit
    BY <2>1, <2>2, <2>4, <2>5 DEF Slot!Exit
  <2> QED BY <2>3, <2>6 DEF Slot!Next
<1>14. ASSUME NEW r \in Runs, BombDrop(r) \/ RecordExit(r) PROVE SlotInv' /\ Abstract
  <2>0. phase[r] \in {"unwinding", "recording"} /\ outcome[r] # "SpawnPanicked"
    BY <1>14 DEF BombDrop, RecordExit, Recording, SlotInv
  <2>1. /\ \E p \in {"unwinding", "done"} : phase' = [phase EXCEPT ![r] = p]
        /\ status = "Exited" /\ status' = "Exited" /\ UNCHANGED outcome
    BY <1>14, <2>0 DEF BombDrop, RecordExit, RegisterExited, Registered, SlotInv
  <2>2. "done" \in Over /\ \A q \in Runs : q # r => phase[q] \in Over
    BY <2>0, PhasesDisjoint DEF SlotInv, Over
  <2>3. SlotInv'
    BY <2>0, <2>1, <2>2, PhasesDisjoint DEF SlotInv, TypeOK
  <2>4. Processes = {} /\ Processes' = {}
    BY <2>0, <2>1, <2>2, PhasesDisjoint DEF Processes, Occupies, TypeOK
  <2> QED BY <2>1, <2>3, <2>4 DEF Slot!slotVars
<1>15. ASSUME NEW m \in Msgs, SendStep(m) PROVE SlotInv' /\ Abstract
  <2>1. UNCHANGED <<phase, outcome, status>>
    BY <1>15 DEF SendStep, CheckMsg, PushMsg, NotifyMsg
  <2> QED BY <2>1, OutsideSlot DEF Slot!slotVars
<1>16. ASSUME NEW s \in Sigs, SignalStep(s) PROVE SlotInv' /\ Abstract
  <2>1. UNCHANGED <<phase, outcome, status>>
    BY <1>16 DEF SignalStep, CheckSignal, PushSignal, NotifySignal
  <2> QED BY <2>1, OutsideSlot DEF Slot!slotVars
<1>17. CASE UNCHANGED vars
  <2>1. UNCHANGED <<phase, outcome, status>>
    BY <1>17 DEF vars
  <2> QED BY <2>1, OutsideSlot DEF Slot!slotVars
<1> QED
  BY <1>1, <1>2, <1>3, <1>4, <1>5, <1>6, <1>7, <1>8, <1>9, <1>10, <1>11,
     <1>12, <1>13, <1>14, <1>15, <1>16, <1>17, <1>21
     DEF Next, RunStep, HandlerStep

\* The initial state is that of an empty slot.
LEMMA SlotInit == Init => SlotInv /\ Slot!Init
  BY DEF Init, SlotInv, Slot!Init, Processes, Occupies, Over, Present, Open, Receiving,
     PollingSignal, Parked, Closing

\* With an owner that joins each run before it spawns the next, Channel
\* implements ProcessSlot: whatever the senders, the handlers and the aborts
\* do, an observer of the status sees one process at a time go through the
\* lifecycle.
THEOREM ChannelIsProcessSlot ==
  ASSUME Respawn = "joined"
  PROVE  Spec => IsProcessSlot
<1>1. TypeInv /\ TypeInv' /\ SlotInv /\ [Next]_vars
        => SlotInv' /\ [Slot!Next]_(Slot!slotVars)
  BY SlotStep
<1> QED BY <1>1, SlotInit, TypeInit, TypeStep, PTL
        DEF Spec, IsProcessSlot, Slot!Spec

\* No two runs ever have their process on the channel at once.
THEOREM OneProcessAtATime ==
  ASSUME Respawn = "joined"
  PROVE  Spec => []AtMostOneProcess
<1>1. TypeInv /\ TypeInv' /\ SlotInv /\ [Next]_vars => SlotInv'
  BY SlotStep
<1>2. SlotInv => AtMostOneProcess
  BY PhasesDisjoint DEF SlotInv, AtMostOneProcess, Occupies
<1> QED BY <1>1, <1>2, SlotInit, TypeInit, TypeStep, PTL DEF Spec

\* The status says Exited exactly while no process is on the channel.
THEOREM DeadMeansNoProcess ==
  ASSUME Respawn = "joined"
  PROVE  Spec => []DeadIffNoProcess
<1>1. TypeInv /\ TypeInv' /\ SlotInv /\ [Next]_vars => SlotInv'
  BY SlotStep
<1>2. TypeInv /\ SlotInv => DeadIffNoProcess
  BY SlotProcesses, PhasesDisjoint DEF TypeInv, TypeOK, SlotInv, DeadIffNoProcess
<1> QED BY <1>1, <1>2, SlotInit, TypeInit, TypeStep, PTL DEF Spec
-----------------------------------------------------------------------------
(* The histories.                                                          *)

Spawning   == {r \in Runs : phase[r] = "spawning"}
RecordingRuns == {r \in Runs : phase[r] \in Recording}

\* A step lets a spawn in, on a dead channel, or records one, registers an exit, on
\* a channel that is not dead, or records one, or leaves the histories, the runs
\* that have something to record and the life of the channel alone.
HistoryMoves ==
  \/ UNCHANGED <<spawns, exits, Spawning, RecordingRuns>> /\ (status' = "Exited" <=> status = "Exited")
  \/ /\ status = "Exited" /\ status' # "Exited" /\ UNCHANGED <<spawns, exits, RecordingRuns>>
     /\ \E r \in Runs \ Spawning : Spawning' = Spawning \cup {r}
  \/ /\ status' = status /\ UNCHANGED <<exits, RecordingRuns>>
     /\ \E r \in Spawning : spawns' = Push(spawns, r) /\ Spawning' = Spawning \ {r}
  \/ /\ status # "Exited" /\ status' = "Exited" /\ UNCHANGED <<spawns, exits, Spawning>>
     /\ \E r \in Runs \ RecordingRuns : RecordingRuns' = RecordingRuns \cup {r}
  \/ /\ status' = status /\ UNCHANGED <<spawns, Spawning>>
     /\ \E r \in RecordingRuns, e \in ExitStatuses :
          exits' = Push(exits, e) /\ RecordingRuns' = RecordingRuns \ {r}

\* The phase of one run changes between two that have nothing to record.
LEMMA NothingToRecord ==
  ASSUME TypeOK, NEW r \in Runs, NEW p, Goto(r, p),
         phase[r] \notin {"spawning", "recording", "bombing"},
         p \notin {"spawning", "recording", "bombing"}
  PROVE  UNCHANGED <<Spawning, RecordingRuns>>
  BY DEF TypeOK, Goto, Spawning, RecordingRuns, Recording

LEMMA HistoryStep ==
  ASSUME TypeInv, [Next]_vars
  PROVE  HistoryMoves
<1> DEFINE Quiet == /\ UNCHANGED <<spawns, exits>>
                    /\ status' = "Exited" <=> status = "Exited"
<1> USE DEF chanVars, queueVars, procVars, sendVars, fateVars
<1>0. TypeOK /\ phase \in [Runs -> Phases]
  BY DEF TypeInv, TypeOK
<1>1. ASSUME UNCHANGED phase PROVE UNCHANGED <<Spawning, RecordingRuns>>
  BY <1>1 DEF Spawning, RecordingRuns
<1>2. ASSUME PopSignal PROVE Quiet
  BY <1>2 DEF PopSignal, AfterSignal
<1>3. ASSUME NEW r \in Runs,
             \/ TrySpawn(r) \/ SpawnPanics(r) \/ NoSignal(r) \/ TakeMsg(r) \/ NoMsg(r) \/ Wake(r)
             \/ DrainMsg(r) \/ Abort(r) \/ Recv(r)
             \/ \E how \in {"Normal", "UnhandledError", "Panicked"} : Finish(r, how)
      PROVE  HistoryMoves
  <2>1. Quiet
    BY <1>3 DEF TrySpawn, SpawnPanics, NoSignal, TakeMsg, NoMsg, Wake, DrainMsg, Abort, Finish, Recv
  <2>2. /\ phase[r] \notin {"spawning", "recording", "bombing"}
        /\ \E p : p \notin {"spawning", "recording", "bombing"} /\ (Goto(r, p) \/ UNCHANGED phase)
    BY <1>3 DEF TrySpawn, SpawnPanics, NoSignal, TakeMsg, NoMsg, Wake, DrainMsg, Abort, Finish,
       Recv, PollingSignal, Parked
  <2> QED BY <1>0, <1>1, <2>1, <2>2, NothingToRecord DEF HistoryMoves
<1>4. ASSUME NEW r \in Runs, RegisterSpawned(r) PROVE HistoryMoves
  <2>1. /\ phase[r] = "checked" /\ phase' = [phase EXCEPT ![r] = "spawning"]
        /\ status = "Exited" /\ status' = "Initializing" /\ UNCHANGED <<spawns, exits>>
    BY <1>4 DEF RegisterSpawned, Goto
  <2>2. r \notin Spawning /\ Spawning' = Spawning \cup {r} /\ UNCHANGED RecordingRuns
    BY <1>0, <2>1 DEF Spawning, RecordingRuns, Recording
  <2> QED BY <2>1, <2>2 DEF HistoryMoves
<1>5. ASSUME NEW r \in Runs, RecordSpawn(r) PROVE HistoryMoves
  <2>1. /\ phase[r] = "spawning" /\ phase' = [phase EXCEPT ![r] = "idle"]
        /\ spawns' = Push(spawns, r) /\ UNCHANGED <<status, exits>>
    BY <1>5 DEF RecordSpawn, Goto
  <2>2. r \in Spawning /\ Spawning' = Spawning \ {r} /\ UNCHANGED RecordingRuns
    BY <1>0, <2>1 DEF Spawning, RecordingRuns, Recording
  <2> QED BY <2>1, <2>2 DEF HistoryMoves
<1>6. ASSUME NEW r \in Runs, RegisterExit(r) \/ BombDrop(r) PROVE HistoryMoves
  <2>1. /\ phase[r] \in {"dropped", "unwinding"} /\ UNCHANGED <<spawns, exits>>
        /\ status' = "Exited"
        /\ \/ status = "Exited" /\ Goto(r, Registered(r))
           \/ /\ status # "Exited"
              /\ \E p \in Recording : phase' = [phase EXCEPT ![r] = p]
    BY <1>6 DEF RegisterExit, BombDrop, RegisterExited, Goto, Recording
  <2>2. CASE status = "Exited" /\ Goto(r, Registered(r))
    <3>1. UNCHANGED <<Spawning, RecordingRuns>>
      BY <1>0, <2>1, <2>2, NothingToRecord, EndedPhases DEF Registered
    <3> QED BY <2>1, <2>2, <3>1 DEF HistoryMoves
  <2>3. ASSUME status # "Exited", NEW p \in Recording, phase' = [phase EXCEPT ![r] = p]
        PROVE  HistoryMoves
    <3>1. r \notin RecordingRuns /\ RecordingRuns' = RecordingRuns \cup {r} /\ UNCHANGED Spawning
      BY <1>0, <2>1, <2>3 DEF Spawning, RecordingRuns, Recording
    <3> QED BY <2>1, <2>3, <3>1 DEF HistoryMoves
  <2> QED BY <2>1, <2>2, <2>3
<1>7. ASSUME NEW r \in Runs, RecordExit(r) PROVE HistoryMoves
  <2>1. /\ phase[r] \in Recording /\ UNCHANGED <<spawns, status>>
        /\ \E p \in {"unwinding", "drainMsgs", "done"} : phase' = [phase EXCEPT ![r] = p]
        /\ exits' = Push(exits, IF phase[r] = "recording" THEN outcome[r] ELSE "Aborted")
    BY <1>7, EndedPhases DEF RecordExit, Goto
  <2>2. r \in RecordingRuns /\ RecordingRuns' = RecordingRuns \ {r} /\ UNCHANGED Spawning
    BY <1>0, <2>1 DEF Spawning, RecordingRuns, Recording
  <2>3. phase[r] = "recording" => outcome[r] \in ExitStatuses
    BY EndedPhases DEF TypeInv, TypeOK, OutcomeOK
  <2>4. \E e \in ExitStatuses : exits' = Push(exits, e)
    BY <2>1, <2>3 DEF ExitStatuses
  <2> QED BY <2>1, <2>2, <2>4 DEF HistoryMoves
<1>8. ASSUME NEW r \in Runs, RegisterInitialized(r) \/ RegisterExiting(r)
      PROVE  HistoryMoves
  BY <1>1, <1>8 DEF RegisterInitialized, RegisterExiting, HistoryMoves
<1>9. ASSUME NEW r \in Runs, TakeSignal(r) \/ DrainSignal(r) PROVE HistoryMoves
  <2>1. Quiet
    BY <1>2, <1>9 DEF TakeSignal, DrainSignal
  <2>2. /\ phase[r] \notin {"spawning", "recording", "bombing"}
        /\ \E p : p \notin {"spawning", "recording", "bombing"} /\ (Goto(r, p) \/ UNCHANGED phase)
    BY <1>9 DEF TakeSignal, DrainSignal, PollingSignal
  <2> QED BY <1>0, <1>1, <2>1, <2>2, NothingToRecord DEF HistoryMoves
<1>10. ASSUME NEW m \in Msgs, SendStep(m) PROVE HistoryMoves
  BY <1>1, <1>10 DEF SendStep, CheckMsg, PushMsg, NotifyMsg, HistoryMoves
<1>11. ASSUME NEW s \in Sigs, SignalStep(s) PROVE HistoryMoves
  BY <1>1, <1>11 DEF SignalStep, CheckSignal, PushSignal, NotifySignal, HistoryMoves
<1>12. CASE UNCHANGED vars
  BY <1>1, <1>12 DEF vars, HistoryMoves
<1> QED BY <1>3, <1>4, <1>5, <1>6, <1>7, <1>8, <1>9, <1>10, <1>11, <1>12
        DEF Next, RunStep, HandlerStep

\* Only finitely many runs have something to record at a time.
TallyInv == IsFiniteSet(Spawning) /\ IsFiniteSet(RecordingRuns) /\ HistoriesTally

LEMMA TallyStep ==
  ASSUME TypeInv, TypeInv', TallyInv, [Next]_vars
  PROVE  TallyInv'
<1> DEFINE S == Cardinality(Spawning)
           E == Cardinality(RecordingRuns)
           Busy == IF status = "Exited" THEN 0 ELSE 1
           Tally == /\ Len(spawns) <= Keep => Len(exits) + E + Busy <= Len(spawns) + S
                    /\ Len(exits) <= Keep => Len(spawns) + S <= Len(exits) + E + Busy
<1>1. /\ HistoriesTally <=> Tally
      /\ HistoriesTally' <=> Tally'
  BY DEF HistoriesTally, Spawning, RecordingRuns
<1>2. /\ IsFiniteSet(Spawning) /\ IsFiniteSet(RecordingRuns) /\ Tally
      /\ S \in Nat /\ E \in Nat /\ Keep \in Nat
      /\ spawns \in Seq(Runs) /\ exits \in Seq(ExitStatuses)
      /\ Len(spawns) \in Nat /\ Len(exits) \in Nat
      /\ Len(spawns) <= Keep + 1 /\ Len(exits) <= Keep + 1
  <2>1. spawns \in Seq(Runs) /\ exits \in Seq(ExitStatuses)
    BY DEF TypeInv, TypeOK
  <2> QED BY <1>1, <2>1, ChannelAssumption, FS_CardinalityType, LenProperties
          DEF TallyInv, TypeInv, HistoryOK
<1>3. CASE /\ UNCHANGED <<spawns, exits, Spawning, RecordingRuns>>
           /\ status' = "Exited" <=> status = "Exited"
  BY <1>1, <1>2, <1>3 DEF TallyInv
<1>4. ASSUME status = "Exited", status' # "Exited", UNCHANGED <<spawns, exits, RecordingRuns>>,
             NEW r \in Runs \ Spawning, Spawning' = Spawning \cup {r}
      PROVE  TallyInv'
  <2>1. IsFiniteSet(Spawning') /\ S' = S + 1
    BY <1>2, <1>4, FS_AddElement
  <2>2. E' = E /\ Busy' = Busy + 1 /\ IsFiniteSet(RecordingRuns')
    BY <1>2, <1>4
  <2>3. Tally'
    BY <1>2, <1>4, <2>1, <2>2
  <2> QED BY <1>1, <2>1, <2>2, <2>3 DEF TallyInv
<1>5. ASSUME status' = status, UNCHANGED <<exits, RecordingRuns>>,
             NEW r \in Spawning, spawns' = Push(spawns, r), Spawning' = Spawning \ {r}
      PROVE  TallyInv'
  <2>1. IsFiniteSet(Spawning') /\ S' = S - 1 /\ S' \in Nat
    BY <1>2, <1>5, FS_RemoveElement, FS_CardinalityType
  <2>2. E' = E /\ Busy' = Busy /\ IsFiniteSet(RecordingRuns')
    BY <1>2, <1>5
  <2>3. Len(spawns') = IF Len(spawns) > Keep THEN Keep + 1 ELSE Len(spawns) + 1
    <3>1. r \in Runs
      BY DEF Spawning
    <3> QED BY <1>2, <1>5, <3>1, PushProperties
  <2>4. Tally'
    BY <1>2, <1>5, <2>1, <2>2, <2>3
  <2> QED BY <1>1, <2>1, <2>2, <2>4 DEF TallyInv
<1>6. ASSUME status # "Exited", status' = "Exited", UNCHANGED <<spawns, exits, Spawning>>,
             NEW r \in Runs \ RecordingRuns, RecordingRuns' = RecordingRuns \cup {r}
      PROVE  TallyInv'
  <2>1. IsFiniteSet(RecordingRuns') /\ E' = E + 1
    BY <1>2, <1>6, FS_AddElement
  <2>2. S' = S /\ Busy = 1 /\ Busy' = 0 /\ IsFiniteSet(Spawning')
    BY <1>2, <1>6
  <2>3. Tally'
    BY <1>2, <1>6, <2>1, <2>2
  <2> QED BY <1>1, <2>1, <2>2, <2>3 DEF TallyInv
<1>7. ASSUME status' = status, UNCHANGED <<spawns, Spawning>>,
             NEW r \in RecordingRuns, NEW e \in ExitStatuses, exits' = Push(exits, e),
             RecordingRuns' = RecordingRuns \ {r}
      PROVE  TallyInv'
  <2>1. IsFiniteSet(RecordingRuns') /\ E' = E - 1 /\ E' \in Nat
    BY <1>2, <1>7, FS_RemoveElement, FS_CardinalityType
  <2>2. S' = S /\ Busy' = Busy /\ IsFiniteSet(Spawning')
    BY <1>2, <1>7
  <2>3. Len(exits') = IF Len(exits) > Keep THEN Keep + 1 ELSE Len(exits) + 1
    BY <1>2, <1>7, PushProperties
  <2>4. Tally'
    BY <1>2, <1>7, <2>1, <2>2, <2>3
  <2> QED BY <1>1, <2>1, <2>2, <2>4 DEF TallyInv
<1> QED BY <1>3, <1>4, <1>5, <1>6, <1>7, HistoryStep DEF HistoryMoves

\* However careless the owner is, every spawn that was let in and every exit is
\* recorded once, and until the histories are cut there are as many of the one as of
\* the other, less the one whose process is on the channel and those still to be
\* recorded: it is the status, changed under one lock, that keeps the account.
THEOREM HistoriesInStep == Spec => []HistoriesTally
<1>1. Init => TallyInv
  <2> SUFFICES ASSUME Init PROVE TallyInv
    OBVIOUS
  <2>1. Spawning = {} /\ RecordingRuns = {}
    BY DEF Init, Spawning, RecordingRuns, Recording
  <2>2. Cardinality({}) = 0 /\ IsFiniteSet({})
    BY FS_EmptySet
  <2>3. /\ Cardinality(Spawning) = 0 /\ Cardinality(RecordingRuns) = 0
        /\ Len(spawns) = 0 /\ Len(exits) = 0 /\ status = "Exited"
    BY <2>1, <2>2 DEF Init
  <2>4. HistoriesTally
    BY <2>3 DEF HistoriesTally, Spawning, RecordingRuns
  <2> QED BY <2>1, <2>2, <2>4 DEF TallyInv
<1>2. TypeInv /\ TypeInv' /\ TallyInv /\ [Next]_vars => TallyInv'
  BY TallyStep
<1>3. TallyInv => HistoriesTally
  BY DEF TallyInv
<1> QED BY <1>1, <1>2, <1>3, TypeInit, TypeStep, PTL DEF Spec

\* What the exit history is right because of: the spawns but the last are of runs
\* that have recorded their exit, and the last is of the run that has not.
EndedSpawns == Len(spawns) - (IF Unrecorded = {} THEN 0 ELSE 1)

HistoryInv ==
  /\ Len(exits) = IF Len(exits) > Keep THEN Len(spawns) ELSE EndedSpawns
  /\ \A i \in 1..Len(exits), j \in 1..EndedSpawns :
       j = i + EndedSpawns - Len(exits) => exits[i] = outcome[spawns[j]]
  /\ \A j \in 1..EndedSpawns : phase[spawns[j]] \in {"unwinding", "done"}
  /\ \A r \in Unrecorded : spawns # <<>> /\ spawns[Len(spawns)] = r

\* Apart from the two that write the history, no step changes who has an exit to
\* record or disturbs a run that has not.
LEMMA HistoryQuiet ==
  ASSUME TypeInv, SlotInv, [Next]_vars,
         ~\E r \in Runs : RecordSpawn(r) \/ RecordExit(r)
  PROVE  /\ UNCHANGED <<spawns, exits, Unrecorded>>
         /\ \A q \in Runs :
              phase[q] \in {"unwinding", "done"} =>
                phase'[q] \in {"unwinding", "done"} /\ outcome'[q] = outcome[q]
<1> DEFINE Holding == Open \cup Closing \cup {"recording"}
           Conclusion ==
         /\ UNCHANGED <<spawns, exits, Unrecorded>>
         /\ \A q \in Runs :
              phase[q] \in {"unwinding", "done"} =>
                phase'[q] \in {"unwinding", "done"} /\ outcome'[q] = outcome[q]
<1> USE DEF Goto, chanVars, queueVars, procVars, sendVars, fateVars
<1>0. /\ phase \in [Runs -> Phases]
      /\ outcome \in [Runs -> ExitStatuses \cup {"None", "SpawnPanicked"}]
      /\ Holding \cap {"unwinding", "done", "checked", "unspawned", "refused", "spawning"} = {}
  BY DEF TypeInv, TypeOK, Open, Receiving, PollingSignal, Parked, Closing
<1>1. ASSUME NEW r \in Runs, phase[r] \in Holding,
             \E p \in Holding : phase' = [phase EXCEPT ![r] = p],
             \A q \in Runs : q # r => outcome'[q] = outcome[q],
             UNCHANGED <<spawns, exits>>
      PROVE  Conclusion
  <2>1. \A q \in Runs : q # r => phase'[q] = phase[q]
    BY <1>0, <1>1
  <2>2. phase'[r] \in Holding
    BY <1>0, <1>1
  <2>3. Unrecorded' = Unrecorded
    BY <1>1, <2>1, <2>2 DEF Unrecorded
  <2>4. \A q \in Runs : phase[q] \in {"unwinding", "done"} => q # r
    BY <1>0, <1>1
  <2> QED BY <1>1, <2>1, <2>3, <2>4
<1>2. ASSUME PopSignal PROVE UNCHANGED <<spawns, exits>>
  BY <1>2 DEF PopSignal
<1>3. ASSUME NEW r \in Runs, TrySpawn(r) \/ RegisterSpawned(r) \/ BombDrop(r) PROVE Conclusion
  <2>1. /\ UNCHANGED <<spawns, exits, outcome>>
        /\ \/ /\ phase[r] \in {"unspawned", "checked"}
              /\ \E p \in {"checked", "refused", "spawning"} : phase' = [phase EXCEPT ![r] = p]
           \/ phase[r] = "unwinding" /\ phase' = [phase EXCEPT ![r] = "done"]
    BY <1>3 DEF TrySpawn, RegisterSpawned, BombDrop, RegisterExited, Registered, SlotInv
  <2>2. Unrecorded' = Unrecorded
    BY <1>0, <2>1 DEF Unrecorded
  <2> QED BY <1>0, <2>1, <2>2
<1>4. ASSUME NEW r \in Runs, SpawnPanics(r) PROVE FALSE
  BY <1>4 DEF SpawnPanics, SlotInv
<1>5. ASSUME NEW r \in Runs,
             \/ Recv(r) \/ RegisterInitialized(r) \/ RegisterExiting(r)
             \/ NoSignal(r) \/ TakeMsg(r) \/ NoMsg(r) \/ Wake(r) \/ DrainMsg(r) \/ Abort(r)
             \/ \E how \in {"Normal", "UnhandledError", "Panicked"} : Finish(r, how)
      PROVE  Conclusion
  <2>1. /\ phase[r] \in Holding
        /\ \E p \in Holding : phase' = [phase EXCEPT ![r] = p]
    BY <1>0, <1>5 DEF Recv, RegisterInitialized, RegisterExiting, NoSignal, TakeMsg, NoMsg,
       Wake, DrainMsg, Abort, Finish, Open, Receiving, PollingSignal, Parked, Closing
  <2>2. \A q \in Runs : q # r => outcome'[q] = outcome[q]
    BY <1>0, <1>5 DEF Recv, RegisterInitialized, RegisterExiting, NoSignal, TakeMsg, NoMsg,
       Wake, DrainMsg, Abort, Finish
  <2>3. UNCHANGED <<spawns, exits>>
    BY <1>5 DEF Recv, RegisterInitialized, RegisterExiting, NoSignal, TakeMsg, NoMsg,
       Wake, DrainMsg, Abort, Finish
  <2> QED BY <1>1, <2>1, <2>2, <2>3
<1>6. ASSUME NEW r \in Runs, TakeSignal(r) \/ DrainSignal(r) PROVE Conclusion
  <2>1. UNCHANGED <<spawns, exits>>
    <3>1. PopSignal \/ UNCHANGED chanVars
      BY <1>6 DEF TakeSignal, DrainSignal
    <3> QED BY <1>2, <3>1
  <2>2. /\ phase[r] \in Holding
        /\ \E p \in Holding : phase' = [phase EXCEPT ![r] = p]
        /\ UNCHANGED outcome
    BY <1>0, <1>6 DEF TakeSignal, DrainSignal, Open, Receiving, PollingSignal, Closing, SlotInv
  <2> QED BY <1>1, <2>1, <2>2
<1>7. ASSUME NEW r \in Runs, RegisterExit(r) PROVE Conclusion
  <2>1. phase[r] = "dropped" /\ "dropped" \in Present
    BY <1>7 DEF RegisterExit, Present, Closing
  <2>2. /\ phase' = [phase EXCEPT ![r] = "recording"]
        /\ UNCHANGED <<spawns, exits, outcome>>
    BY <1>7, <2>1 DEF RegisterExit, RegisterExited, SlotInv
  <2>3. phase[r] \in Holding /\ "recording" \in Holding
    BY <2>1 DEF Closing
  <2> QED BY <1>1, <2>2, <2>3
<1>8. ASSUME UNCHANGED <<chanVars, phase, outcome>> PROVE Conclusion
  BY <1>8 DEF Unrecorded
<1>9. ASSUME NEW m \in Msgs, SendStep(m) PROVE Conclusion
  BY <1>8, <1>9 DEF SendStep, CheckMsg, PushMsg, NotifyMsg
<1>10. ASSUME NEW s \in Sigs, SignalStep(s) PROVE Conclusion
  BY <1>8, <1>10 DEF SignalStep, CheckSignal, PushSignal, NotifySignal
<1>11. CASE UNCHANGED vars
  BY <1>8, <1>11 DEF vars
<1> QED BY <1>3, <1>4, <1>5, <1>6, <1>7, <1>9, <1>10, <1>11
        DEF Next, RunStep, HandlerStep

LEMMA HistoryInvStep ==
  ASSUME TypeInv, SlotInv, HistoryInv, [Next]_vars
  PROVE  HistoryInv'
<1> USE DEF Goto, chanVars, queueVars, procVars, sendVars, fateVars
<1>0. /\ phase \in [Runs -> Phases] /\ Keep \in Nat
      /\ spawns \in Seq(Runs) /\ exits \in Seq(ExitStatuses)
      /\ Len(exits) \in Nat /\ Len(spawns) \in Nat
      /\ Len(spawns) <= Keep + 1 /\ Len(exits) <= Keep + 1
      /\ \A j \in 1..Len(spawns) : spawns[j] \in Runs
  <2>1. phase \in [Runs -> Phases] /\ spawns \in Seq(Runs) /\ exits \in Seq(ExitStatuses)
    BY DEF TypeInv, TypeOK
  <2> QED BY <2>1, LenProperties, ElementOfSeq, ChannelAssumption DEF TypeInv, HistoryOK
<1>1. CASE ~\E r \in Runs : RecordSpawn(r) \/ RecordExit(r)
  <2>1. /\ UNCHANGED <<spawns, exits, Unrecorded>>
        /\ \A q \in Runs :
             phase[q] \in {"unwinding", "done"} =>
               phase'[q] \in {"unwinding", "done"} /\ outcome'[q] = outcome[q]
    BY <1>1, HistoryQuiet
  <2>2. EndedSpawns' = EndedSpawns /\ EndedSpawns \in Int /\ EndedSpawns <= Len(spawns)
    BY <1>0, <2>1 DEF EndedSpawns
  <2>3. \A j \in 1..EndedSpawns :
          /\ phase'[spawns[j]] \in {"unwinding", "done"}
          /\ outcome'[spawns[j]] = outcome[spawns[j]]
    BY <1>0, <2>1, <2>2 DEF HistoryInv
  <2> QED BY <2>1, <2>2, <2>3 DEF HistoryInv
<1>2. ASSUME NEW r \in Runs, RecordSpawn(r) PROVE HistoryInv'
  <2>1. /\ phase[r] = "spawning" /\ phase' = [phase EXCEPT ![r] = "idle"]
        /\ spawns' = Push(spawns, r) /\ UNCHANGED <<exits, outcome>>
    BY <1>2 DEF RecordSpawn
  <2>2. Unrecorded = {} /\ Unrecorded' = {r}
    <3>1. \A q \in Runs : q # r => phase[q] \in Over /\ phase'[q] = phase[q]
      BY <1>0, <2>1 DEF SlotInv, Over
    <3>2. Over \cap (Open \cup Closing \cup {"recording"}) = {}
      BY PhasesDisjoint DEF Present
    <3>3. /\ "spawning" \notin Open \cup Closing \cup {"recording"} /\ phase'[r] = "idle"
          /\ "idle" \in Open
      BY <1>0, <2>1 DEF Open, Receiving, PollingSignal, Parked, Closing
    <3> QED BY <2>1, <3>1, <3>2, <3>3 DEF Unrecorded
  <2>3. EndedSpawns = Len(spawns) /\ EndedSpawns' = Len(spawns') - 1
    BY <1>0, <2>2 DEF EndedSpawns
  <2>4. /\ Len(spawns') = IF Len(spawns) > Keep THEN Keep + 1 ELSE Len(spawns) + 1
        /\ Len(spawns') \in Nat /\ spawns'[Len(spawns')] = r
        /\ \A j \in 1..(Len(spawns') - 1) :
             spawns'[j] = spawns[j + Len(spawns) + 1 - Len(spawns')]
    BY <1>0, <2>1, PushProperties
  <2>5. \A j \in 1..EndedSpawns' :
          /\ j + Len(spawns) + 1 - Len(spawns') \in 1..EndedSpawns
          /\ spawns'[j] = spawns[j + Len(spawns) + 1 - Len(spawns')]
    <3> SUFFICES ASSUME NEW j \in 1..(Len(spawns') - 1)
                 PROVE  j + Len(spawns) + 1 - Len(spawns') \in 1..Len(spawns)
      BY <2>3, <2>4
    <3>1. CASE Len(spawns) > Keep
      <4>1. Len(spawns) = Keep + 1 /\ Len(spawns') = Keep + 1
        BY <1>0, <2>4, <3>1
      <4> QED BY <1>0, <4>1
    <3>2. CASE ~(Len(spawns) > Keep)
      <4>1. Len(spawns') = Len(spawns) + 1
        BY <2>4, <3>2
      <4> QED BY <1>0, <4>1
    <3> QED BY <3>1, <3>2
  <2>6. \A j \in 1..EndedSpawns' : phase'[spawns'[j]] \in {"unwinding", "done"}
    <3> SUFFICES ASSUME NEW j \in 1..EndedSpawns'
                 PROVE  phase'[spawns'[j]] \in {"unwinding", "done"}
      OBVIOUS
    <3>1. phase[spawns'[j]] \in {"unwinding", "done"} /\ spawns'[j] \in Runs
      BY <1>0, <2>3, <2>5 DEF HistoryInv
    <3>2. spawns'[j] # r
      BY <2>1, <3>1
    <3> QED BY <1>0, <2>1, <3>1, <3>2
  <2>7. Len(exits') = IF Len(exits') > Keep THEN Len(spawns') ELSE EndedSpawns'
    BY <1>0, <2>1, <2>3, <2>4 DEF HistoryInv
  <2>8. \A i \in 1..Len(exits'), j \in 1..EndedSpawns' :
          j = i + EndedSpawns' - Len(exits') => exits'[i] = outcome'[spawns'[j]]
    <3> SUFFICES ASSUME NEW i \in 1..Len(exits), NEW j \in 1..EndedSpawns',
                        j = i + EndedSpawns' - Len(exits)
                 PROVE  exits[i] = outcome[spawns'[j]]
      BY <2>1
    <3> DEFINE k == j + Len(spawns) + 1 - Len(spawns')
    <3>1. k \in 1..EndedSpawns /\ spawns'[j] = spawns[k]
      BY <2>5
    <3>2. k = i + EndedSpawns - Len(exits)
      <4>1. /\ j = i + (Len(spawns') - 1) - Len(exits) /\ EndedSpawns = Len(spawns)
            /\ i \in Nat /\ Len(spawns) \in Nat /\ Len(spawns') \in Nat /\ Len(exits) \in Nat
        BY <1>0, <2>3, <2>4
      <4>2. \A a, b, c, d \in Nat : (a + b - 1 - d) + c + 1 - b = a + c - d
        OBVIOUS
      <4>3. (i + Len(spawns') - 1 - Len(exits)) + Len(spawns) + 1 - Len(spawns')
              = i + Len(spawns) - Len(exits)
        BY <4>1, <4>2
      <4> QED BY <4>1, <4>3
    <3> QED BY <3>1, <3>2 DEF HistoryInv
  <2>9. \A q \in Unrecorded' : spawns' # <<>> /\ spawns'[Len(spawns')] = q
    <3>1. Len(spawns') # 0
      BY <1>0, <2>4
    <3> QED BY <2>2, <2>4, <3>1
  <2> QED BY <2>6, <2>7, <2>8, <2>9 DEF HistoryInv
<1>3. ASSUME NEW r \in Runs, RecordExit(r) PROVE HistoryInv'
  <2>1. /\ phase[r] = "recording" /\ exits' = Push(exits, outcome[r])
        /\ \E p \in {"unwinding", "done"} : phase' = [phase EXCEPT ![r] = p]
        /\ UNCHANGED <<spawns, outcome>>
    BY <1>3 DEF RecordExit, Recording, Registered, SlotInv
  <2>2. Unrecorded = {r} /\ Unrecorded' = {}
    <3>1. \A q \in Runs : q # r => phase[q] \in Over /\ phase'[q] = phase[q]
      BY <1>0, <2>1, PhasesDisjoint DEF SlotInv
    <3>2. (Over \cup {"unwinding", "done"}) \cap (Open \cup Closing \cup {"recording"}) = {}
      BY PhasesDisjoint DEF Present, Over
    <3>3. phase'[r] \in {"unwinding", "done"}
      BY <1>0, <2>1
    <3> QED BY <2>1, <3>1, <3>2, <3>3 DEF Unrecorded
  <2>3. /\ EndedSpawns = Len(spawns) - 1 /\ EndedSpawns' = Len(spawns)
        /\ spawns[Len(spawns)] = r /\ Len(spawns) > 0
    <3>1. spawns # <<>> /\ spawns[Len(spawns)] = r
      BY <2>2 DEF HistoryInv
    <3>2. Len(spawns) > 0
      BY <1>0, <3>1, EmptySeq
    <3> QED BY <1>0, <2>1, <2>2, <3>1, <3>2 DEF EndedSpawns
  <2>4. outcome[r] \in ExitStatuses
    BY <2>1, EndedPhases DEF TypeInv, TypeOK, OutcomeOK
  <2>5. /\ Len(exits') = IF Len(exits) > Keep THEN Keep + 1 ELSE Len(exits) + 1
        /\ Len(exits') \in Nat /\ exits'[Len(exits')] = outcome[r]
        /\ \A i \in 1..(Len(exits') - 1) : exits'[i] = exits[i + Len(exits) + 1 - Len(exits')]
    BY <1>0, <2>1, <2>4, PushProperties
  <2>6. \A j \in 1..EndedSpawns' : phase'[spawns'[j]] \in {"unwinding", "done"}
    <3> SUFFICES ASSUME NEW j \in 1..Len(spawns)
                 PROVE  phase'[spawns[j]] \in {"unwinding", "done"}
      BY <2>1, <2>3
    <3>1. CASE j = Len(spawns)
      BY <1>0, <2>1, <2>3, <3>1
    <3>2. CASE j # Len(spawns)
      <4>1. j \in 1..EndedSpawns /\ spawns[j] \in Runs
        BY <1>0, <2>3, <3>2
      <4>2. phase[spawns[j]] \in {"unwinding", "done"}
        BY <4>1 DEF HistoryInv
      <4> QED BY <1>0, <2>1, <4>1, <4>2
    <3> QED BY <3>1, <3>2
  <2>7. Len(exits') = IF Len(exits') > Keep THEN Len(spawns') ELSE EndedSpawns'
    BY <1>0, <2>1, <2>3, <2>5 DEF HistoryInv
  <2>8. \A i \in 1..Len(exits'), j \in 1..EndedSpawns' :
          j = i + EndedSpawns' - Len(exits') => exits'[i] = outcome'[spawns'[j]]
    <3> SUFFICES ASSUME NEW i \in 1..Len(exits'), NEW j \in 1..Len(spawns),
                        j = i + Len(spawns) - Len(exits')
                 PROVE  exits'[i] = outcome[spawns[j]]
      BY <2>1, <2>3
    <3>1. CASE i = Len(exits')
      BY <1>0, <2>3, <2>5, <3>1
    <3>2. CASE i # Len(exits')
      <4> DEFINE k == i + Len(exits) + 1 - Len(exits')
      <4>0. i \in 1..(Len(exits') - 1)
        BY <2>5, <3>2
      <4>1. exits'[i] = exits[k] /\ k \in 1..Len(exits)
        <5>1. CASE Len(exits) > Keep
          <6>1. Len(exits) = Keep + 1 /\ Len(exits') = Keep + 1
            BY <1>0, <2>5, <5>1
          <6>2. k = i + 1 /\ k \in 1..Len(exits)
            BY <1>0, <4>0, <6>1
          <6>3. exits'[i] = exits[k]
            BY <2>5, <4>0
          <6> QED BY <6>2, <6>3
        <5>2. CASE ~(Len(exits) > Keep)
          <6>1. Len(exits') = Len(exits) + 1
            BY <2>5, <5>2
          <6>2. k = i /\ k \in 1..Len(exits)
            BY <1>0, <4>0, <6>1
          <6>3. exits'[i] = exits[k]
            BY <2>5, <4>0
          <6> QED BY <6>2, <6>3
        <5> QED BY <5>1, <5>2
      <4>2. j \in 1..EndedSpawns /\ j = k + EndedSpawns - Len(exits)
        BY <1>0, <2>3, <2>5, <3>2
      <4> QED BY <4>1, <4>2 DEF HistoryInv
    <3> QED BY <3>1, <3>2
  <2> QED BY <2>2, <2>6, <2>7, <2>8 DEF HistoryInv
<1> QED BY <1>1, <1>2, <1>3

\* With an owner that joins each run before it spawns the next, the exit history
\* has one entry per run, in order, with that run's own reason, as far back as the
\* histories are kept: no AbortBomb adds or replaces one, and the two halves of a
\* registration are never taken apart.
THEOREM ExitHistoryIsTrue ==
  ASSUME Respawn = "joined"
  PROVE  Spec => []ExitHistoryMatchesRuns
<1>1. TypeInv /\ TypeInv' /\ SlotInv /\ [Next]_vars => SlotInv'
  BY SlotStep
<1>2. Init => HistoryInv
  BY ChannelAssumption DEF Init, HistoryInv, EndedSpawns, Unrecorded, Open, Receiving,
     PollingSignal, Parked, Closing
<1>3. TypeInv /\ SlotInv /\ HistoryInv /\ [Next]_vars => HistoryInv'
  BY HistoryInvStep
<1>4. TypeInv /\ HistoryInv => ExitHistoryMatchesRuns
  <2> SUFFICES ASSUME TypeInv, HistoryInv PROVE ExitHistoryMatchesRuns
    OBVIOUS
  <2>1. Len(exits) \in Nat /\ Len(spawns) \in Nat /\ EndedSpawns \in Int
    BY LenProperties DEF TypeInv, TypeOK, EndedSpawns
  <2>2. ASSUME NEW i \in 1..Len(exits), i + EndedSpawns - Len(exits) > 0
        PROVE  exits[i] = outcome[spawns[i + EndedSpawns - Len(exits)]]
    <3>1. i + EndedSpawns - Len(exits) \in 1..EndedSpawns
      BY <2>1, <2>2
    <3> QED BY <2>2, <3>1 DEF HistoryInv
  <2> QED BY <2>2 DEF HistoryInv, ExitHistoryMatchesRuns, EndedSpawns
<1> QED BY <1>1, <1>2, <1>3, <1>4, SlotInit, TypeInit, TypeStep, PTL DEF Spec

-----------------------------------------------------------------------------
(* What is received and what is dropped.                                   *)

Gone == Closing \cup Recording \cup {"unwinding", "done", "crashed"}

\* A message is in the queue once, after it was pushed and before it is dropped;
\* only a run whose handler has ended has dropped any.
FateInv ==
  /\ \A i, j \in DOMAIN msgQueue : msgQueue[i] = msgQueue[j] => i = j
  /\ \A i \in DOMAIN msgQueue :
       sender[msgQueue[i]] \in {"pushed", "sent"} /\ droppedBy[msgQueue[i]] = NoRun
  /\ \A m \in Msgs : sender[m] \notin {"pushed", "sent"} =>
       droppedBy[m] = NoRun /\ m \notin atExiting
  /\ \A m \in Msgs : droppedBy[m] # NoRun => phase[droppedBy[m]] \in Gone

\* A run that was told None has found the queue empty, is exiting until it has
\* drained, and what came into the queue since was not there at the shutdown.
ClosedInv ==
  /\ \A r \in closed : phase[r] \in {"closed"} \cup Gone
  /\ \A r \in closed : phase[r] \in {"closed", "drainMsgs"} =>
       /\ status = "Exiting"
       /\ \A i \in DOMAIN msgQueue : msgQueue[i] \notin atExiting
  /\ ShutdownKeepsQueued

\* A run whose handler has ended does not come back, and only the drain of such a
\* run drops anything.
LEMMA GoneStays ==
  ASSUME TypeInv, [Next]_vars, NEW q \in Runs, phase[q] \in Gone
  PROVE  phase'[q] \in Gone
<1> USE DEF Goto, chanVars, queueVars, procVars, sendVars, fateVars, Gone, Closing
<1>0. phase \in [Runs -> Phases]
  BY DEF TypeInv, TypeOK
<1>1. ASSUME NEW r \in Runs, RunStep(r) PROVE phase'[q] \in Gone
  BY <1>0, <1>1 DEF RunStep, RegisterSpawned, RecordSpawn, SpawnPanics, TakeSignal, NoSignal, TakeMsg, NoMsg,
     Wake, DrainMsg, DrainSignal, RegisterExit, BombDrop, RegisterExited, RecordExit, Registered, Recording, PollingSignal
<1>2. ASSUME NEW r \in Runs, HandlerStep(r) PROVE phase'[q] \in Gone
  BY <1>0, <1>2 DEF HandlerStep, TrySpawn, Recv, RegisterInitialized, RegisterExiting, Finish,
     Abort, Parked, Recording
<1>3. ASSUME NEW m \in Msgs, SendStep(m) PROVE phase'[q] \in Gone
  BY <1>3 DEF SendStep, CheckMsg, PushMsg, NotifyMsg
<1>4. ASSUME NEW s \in Sigs, SignalStep(s) PROVE phase'[q] \in Gone
  BY <1>4 DEF SignalStep, CheckSignal, PushSignal, NotifySignal
<1> QED BY <1>1, <1>2, <1>3, <1>4 DEF Next, vars

\* The first message of the queue is in it once.
LEMMA QueueLoses ==
  ASSUME TypeInv, FateInv, msgQueue # <<>>, msgQueue' = Tail(msgQueue)
  PROVE  /\ Head(msgQueue) = msgQueue[1] /\ 1 \in DOMAIN msgQueue /\ Head(msgQueue) \in Msgs
         /\ \A i \in DOMAIN msgQueue' :
              /\ i + 1 \in DOMAIN msgQueue /\ msgQueue'[i] = msgQueue[i + 1]
              /\ msgQueue'[i] # Head(msgQueue) /\ msgQueue'[i] \in Msgs
         /\ \A i, j \in DOMAIN msgQueue' : msgQueue'[i] = msgQueue'[j] => i = j
<1>1. msgQueue \in Seq(Msgs)
  BY DEF TypeInv, TypeOK
<1>2. /\ Head(msgQueue) = msgQueue[1] /\ Head(msgQueue) \in Msgs /\ Len(msgQueue) >= 1
      /\ Len(msgQueue) \in Nat /\ DOMAIN msgQueue = 1..Len(msgQueue)
      /\ DOMAIN msgQueue' = 1..(Len(msgQueue) - 1)
      /\ \A i \in 1..(Len(msgQueue) - 1) : msgQueue'[i] = msgQueue[i + 1]
      /\ \A i \in 1..Len(msgQueue) : msgQueue[i] \in Msgs
  BY <1>1, HeadTailProperties, EmptySeq, LenProperties, ElementOfSeq
<1>3. \A i \in DOMAIN msgQueue' : i + 1 \in DOMAIN msgQueue /\ i + 1 # 1
  BY <1>2
<1>4. 1 \in DOMAIN msgQueue
  BY <1>2
<1> QED BY <1>2, <1>3, <1>4 DEF FateInv

\* A message is pushed once.
LEMMA QueueGains ==
  ASSUME TypeInv, FateInv, NEW m \in Msgs, sender[m] = "checked",
         msgQueue' = Append(msgQueue, m)
  PROVE  /\ \A i \in DOMAIN msgQueue' :
              msgQueue'[i] = m \/ (i \in DOMAIN msgQueue /\ msgQueue'[i] = msgQueue[i])
         /\ \A i, j \in DOMAIN msgQueue' : msgQueue'[i] = msgQueue'[j] => i = j
<1>1. msgQueue \in Seq(Msgs)
  BY DEF TypeInv, TypeOK
<1>2. /\ Len(msgQueue) \in Nat /\ DOMAIN msgQueue = 1..Len(msgQueue)
      /\ DOMAIN msgQueue' = 1..(Len(msgQueue) + 1) /\ msgQueue'[Len(msgQueue) + 1] = m
      /\ \A i \in 1..Len(msgQueue) : msgQueue'[i] = msgQueue[i]
  BY <1>1, AppendProperties, LenProperties
<1>3. \A i \in DOMAIN msgQueue : msgQueue[i] # m
  BY DEF FateInv
<1>4. \A i \in DOMAIN msgQueue' :
        i = Len(msgQueue) + 1 \/ (i \in DOMAIN msgQueue /\ msgQueue'[i] = msgQueue[i])
  <2>1. \A i \in 1..(Len(msgQueue) + 1) : i = Len(msgQueue) + 1 \/ i \in 1..Len(msgQueue)
    BY <1>2
  <2> QED BY <1>2, <2>1
<1> QED BY <1>2, <1>3, <1>4 DEF FateInv

\* What a step may do to the queue and to what is remembered about messages.
Waiting == {msgQueue[i] : i \in DOMAIN msgQueue}

LEMMA FateMoves ==
  ASSUME TypeInv, [Next]_vars
  PROVE  /\ atExiting' \subseteq atExiting \cup Waiting
         /\ \A m \in Msgs : sender[m] \in {"pushed", "sent"} => sender'[m] \in {"pushed", "sent"}
         /\ \/ UNCHANGED <<msgQueue, droppedBy>>
            \/ \E m \in Msgs : PushMsg(m)
            \/ \E r \in Runs : TakeMsg(r)
            \/ \E r \in Runs : DrainMsg(r) /\ msgQueue # <<>>
<1> DEFINE Moves ==
         \/ UNCHANGED <<msgQueue, droppedBy>>
         \/ \E m \in Msgs : PushMsg(m)
         \/ \E r \in Runs : TakeMsg(r)
         \/ \E r \in Runs : DrainMsg(r) /\ msgQueue # <<>>
<1> USE DEF Goto, chanVars, queueVars, procVars, sendVars, fateVars
<1>0. sender \in [Msgs -> {"unsent", "checked", "pushed", "sent", "closed"}]
  BY DEF TypeInv, TypeOK
<1>1. ASSUME NEW r \in Runs, RunStep(r)
      PROVE  Moves /\ UNCHANGED sender /\ atExiting' \subseteq atExiting \cup Waiting
  <2>1. atExiting' \subseteq atExiting \cup Waiting
    BY <1>1 DEF RunStep, RegisterSpawned, RecordSpawn, SpawnPanics, TakeSignal, PopSignal,
       NoSignal, TakeMsg, NoMsg, Wake, DrainMsg, DrainSignal, RegisterExit, BombDrop, RegisterExited, RecordExit, Registered, Recording, Waiting
  <2>2. Moves /\ UNCHANGED sender
    BY <1>1 DEF RunStep, RegisterSpawned, RecordSpawn, SpawnPanics, TakeSignal, NoSignal, TakeMsg, NoMsg,
       Wake, DrainMsg, DrainSignal, RegisterExit, BombDrop, RegisterExited, RecordExit, Registered, Recording
  <2> QED BY <2>1, <2>2
<1>2. ASSUME NEW r \in Runs, HandlerStep(r)
      PROVE  Moves /\ UNCHANGED sender /\ atExiting' \subseteq atExiting \cup Waiting
  BY <1>2 DEF HandlerStep, TrySpawn, Recv, RegisterInitialized, RegisterExiting, Finish, Abort,
     Waiting
<1>3. ASSUME NEW m \in Msgs, SendStep(m)
      PROVE  /\ Moves /\ UNCHANGED atExiting
             /\ \A n \in Msgs : sender[n] \in {"pushed", "sent"} => sender'[n] \in {"pushed", "sent"}
  BY <1>0, <1>3 DEF SendStep, CheckMsg, PushMsg, NotifyMsg
<1>4. ASSUME NEW s \in Sigs, SignalStep(s) PROVE Moves /\ UNCHANGED <<sender, atExiting>>
  BY <1>4 DEF SignalStep, CheckSignal, PushSignal, NotifySignal
<1> QED BY <1>1, <1>2, <1>3, <1>4 DEF Next, vars

LEMMA FateStep ==
  ASSUME TypeInv, FateInv, [Next]_vars
  PROVE  FateInv'
<1> USE DEF TypeInv, TypeOK
<1>1. /\ \A m \in Msgs : sender'[m] \notin {"pushed", "sent"} =>
           droppedBy[m] = NoRun /\ m \notin atExiting'
      /\ \A m \in Msgs : droppedBy[m] # NoRun => phase'[droppedBy[m]] \in Gone
  <2>1. \A m \in Msgs : m \in Waiting => sender[m] \in {"pushed", "sent"}
    BY DEF FateInv, Waiting
  <2>2. \A m \in Msgs : droppedBy[m] # NoRun => droppedBy[m] \in Runs
    OBVIOUS
  <2> QED BY <2>1, <2>2, FateMoves, GoneStays DEF FateInv
<1>2. CASE UNCHANGED <<msgQueue, droppedBy>>
  <2>1. \A i \in DOMAIN msgQueue : msgQueue[i] \in Msgs
    OBVIOUS
  <2> QED BY <1>1, <1>2, <2>1, FateMoves DEF FateInv
<1>3. ASSUME NEW m \in Msgs, PushMsg(m) PROVE FateInv'
  <2>1. /\ sender[m] = "checked" /\ sender' = [sender EXCEPT ![m] = "pushed"]
        /\ msgQueue' = Append(msgQueue, m) /\ UNCHANGED droppedBy
    BY <1>3 DEF PushMsg, fateVars
  <2>2. /\ \A i \in DOMAIN msgQueue' :
             msgQueue'[i] = m \/ (i \in DOMAIN msgQueue /\ msgQueue'[i] = msgQueue[i])
        /\ \A i, j \in DOMAIN msgQueue' : msgQueue'[i] = msgQueue'[j] => i = j
    BY <2>1, QueueGains
  <2>3. \A i \in DOMAIN msgQueue' :
          sender'[msgQueue'[i]] \in {"pushed", "sent"} /\ droppedBy[msgQueue'[i]] = NoRun
    BY <2>1, <2>2 DEF FateInv
  <2> QED BY <1>1, <2>1, <2>2, <2>3 DEF FateInv
<1>4. ASSUME NEW r \in Runs, TakeMsg(r) PROVE FateInv'
  <2>1. /\ msgQueue # <<>> /\ msgQueue' = Tail(msgQueue) /\ UNCHANGED <<sender, droppedBy>>
    BY <1>4 DEF TakeMsg, sendVars
  <2>2. /\ \A i \in DOMAIN msgQueue' : i + 1 \in DOMAIN msgQueue /\ msgQueue'[i] = msgQueue[i + 1]
        /\ \A i, j \in DOMAIN msgQueue' : msgQueue'[i] = msgQueue'[j] => i = j
    BY <2>1, QueueLoses
  <2> QED BY <1>1, <2>1, <2>2 DEF FateInv
<1>5. ASSUME NEW r \in Runs, DrainMsg(r), msgQueue # <<>> PROVE FateInv'
  <2>1. /\ phase[r] = "drainMsgs" /\ msgQueue' = Tail(msgQueue)
        /\ droppedBy' = [droppedBy EXCEPT ![Head(msgQueue)] = r] /\ UNCHANGED <<sender, phase>>
    BY <1>5 DEF DrainMsg, sendVars
  <2>2. /\ Head(msgQueue) = msgQueue[1] /\ 1 \in DOMAIN msgQueue /\ Head(msgQueue) \in Msgs
        /\ \A i \in DOMAIN msgQueue' :
             /\ i + 1 \in DOMAIN msgQueue /\ msgQueue'[i] = msgQueue[i + 1]
             /\ msgQueue'[i] # Head(msgQueue) /\ msgQueue'[i] \in Msgs
        /\ \A i, j \in DOMAIN msgQueue' : msgQueue'[i] = msgQueue'[j] => i = j
    BY <1>5, <2>1, QueueLoses
  <2>3. \A m \in Msgs : droppedBy'[m] = IF m = Head(msgQueue) THEN r ELSE droppedBy[m]
    BY <2>1, <2>2
  <2>4. sender[Head(msgQueue)] \in {"pushed", "sent"}
    BY <2>2 DEF FateInv
  <2>5. \A i \in DOMAIN msgQueue' :
          sender[msgQueue'[i]] \in {"pushed", "sent"} /\ droppedBy'[msgQueue'[i]] = NoRun
    BY <2>2, <2>3 DEF FateInv
  <2>6. phase'[r] \in Gone
    BY <2>1 DEF Gone, Closing
  <2> QED BY <1>1, <2>1, <2>2, <2>3, <2>4, <2>5, <2>6 DEF FateInv
<1> QED BY <1>2, <1>3, <1>4, <1>5, FateMoves

\* While a run is in the slot, no other one moves.
LEMMA AloneInSlot ==
  ASSUME Respawn = "joined", TypeInv, SlotInv, NEW r \in Runs, phase[r] \notin Over,
         NEW q \in Runs, RunStep(q) \/ HandlerStep(q)
  PROVE  q = r
<1>1. phase[q] \notin Over
  BY DEF RunStep, HandlerStep, RegisterSpawned, RecordSpawn, SpawnPanics, TakeSignal, NoSignal, TakeMsg, NoMsg,
     Wake, DrainMsg, DrainSignal, RegisterExit, BombDrop, RegisterExited, RecordExit, Registered, Recording, TrySpawn, MaySpawn, Recv,
     RegisterInitialized, RegisterExiting, Finish, Abort, Over, PollingSignal, Parked
<1> QED BY <1>1 DEF SlotInv

\* While a run leaves an exiting channel, the channel goes on exiting.
LEMMA LeavingQuiet ==
  ASSUME Respawn = "joined", TypeInv, SlotInv, [Next]_vars, NEW r \in Runs,
         phase[r] \in {"closed", "drainMsgs"}, phase'[r] \in {"closed", "drainMsgs"},
         status = "Exiting"
  PROVE  status' = "Exiting" /\ UNCHANGED atExiting
<1> USE DEF Goto, chanVars, queueVars, procVars, sendVars, fateVars
<1>0. phase[r] \notin Over
  BY DEF Over
<1>1. CASE RunStep(r)
  BY <1>1 DEF RunStep, RegisterSpawned, RecordSpawn, SpawnPanics, TakeSignal, NoSignal, TakeMsg, NoMsg,
     Wake, DrainMsg, DrainSignal, RegisterExit, BombDrop, RegisterExited, RecordExit, Registered, Recording, PollingSignal
<1>2. CASE HandlerStep(r)
  BY <1>2 DEF HandlerStep, TrySpawn, Recv, RegisterInitialized, RegisterExiting, Finish, Abort
<1>3. ASSUME NEW m \in Msgs, SendStep(m) PROVE UNCHANGED chanVars
  BY <1>3 DEF SendStep, CheckMsg, PushMsg, NotifyMsg
<1>4. ASSUME NEW s \in Sigs, SignalStep(s) PROVE UNCHANGED chanVars
  BY <1>4 DEF SignalStep, CheckSignal, PushSignal, NotifySignal
<1> QED BY <1>0, <1>1, <1>2, <1>3, <1>4, AloneInSlot DEF Next, vars

\* None is returned to a run that is in a receive method, with nothing queued.
LEMMA ClosedMoves ==
  ASSUME TypeInv, SlotInv, [Next]_vars
  PROVE  \/ UNCHANGED closed
         \/ \E r \in Runs :
              /\ closed' = closed \cup {r} /\ phase[r] = "idle" /\ phase'[r] = "closed"
              /\ msgQueue' = <<>> /\ status' = "Exiting" /\ UNCHANGED <<droppedBy, atExiting>>
              /\ \A q \in Runs : q # r => phase'[q] = phase[q]
<1> DEFINE Conclusion ==
         \/ UNCHANGED closed
         \/ \E r \in Runs :
              /\ closed' = closed \cup {r} /\ phase[r] = "idle" /\ phase'[r] = "closed"
              /\ msgQueue' = <<>> /\ status' = "Exiting" /\ UNCHANGED <<droppedBy, atExiting>>
              /\ \A q \in Runs : q # r => phase'[q] = phase[q]
<1> USE DEF Goto, chanVars, queueVars, procVars, sendVars, fateVars
<1>0. phase \in [Runs -> Phases]
  BY DEF TypeInv, TypeOK
<1>1. ASSUME NEW r \in Runs, RunStep(r) PROVE Conclusion
  BY <1>1 DEF RunStep, RegisterSpawned, RecordSpawn, SpawnPanics, TakeSignal, NoSignal, TakeMsg, NoMsg,
     Wake, DrainMsg, DrainSignal, RegisterExit, BombDrop, RegisterExited, RecordExit, Registered, Recording
<1>2. ASSUME NEW r \in Runs, Recv(r) PROVE Conclusion
  <2>1. status # "Exited" /\ phase[r] = "idle"
    BY <1>2 DEF Recv, SlotInv, Present, Open
  <2> QED BY <1>0, <1>2, <2>1 DEF Recv, Ended
<1>3. ASSUME NEW r \in Runs, HandlerStep(r), ~Recv(r) PROVE Conclusion
  BY <1>3 DEF HandlerStep, TrySpawn, RegisterInitialized, RegisterExiting, Finish, Abort
<1>4. ASSUME NEW m \in Msgs, SendStep(m) PROVE Conclusion
  BY <1>4 DEF SendStep, CheckMsg, PushMsg, NotifyMsg
<1>5. ASSUME NEW s \in Sigs, SignalStep(s) PROVE Conclusion
  BY <1>5 DEF SignalStep, CheckSignal, PushSignal, NotifySignal
<1> QED BY <1>1, <1>2, <1>3, <1>4, <1>5 DEF Next, vars

LEMMA ClosedStep ==
  ASSUME Respawn = "joined", TypeInv, SlotInv, FateInv, ClosedInv, [Next]_vars
  PROVE  ClosedInv'
<1> DEFINE Leaving == {"closed", "drainMsgs"}
<1>0. /\ phase \in [Runs -> Phases] /\ closed \subseteq Runs /\ NoRun \notin Runs
      /\ droppedBy \in [Msgs -> Runs \cup {NoRun}] /\ atExiting \subseteq Msgs
      /\ msgQueue \in Seq(Msgs)
  BY ChannelAssumption DEF TypeInv, TypeOK
\* A run that is told None now, and one that was told before.
<1>1. ASSUME NEW r \in closed' PROVE
        \/ /\ r \in Runs /\ phase[r] = "idle" /\ phase'[r] = "closed"
           /\ msgQueue' = <<>> /\ status' = "Exiting" /\ UNCHANGED <<droppedBy, atExiting>>
        \/ r \in closed
  BY <1>1, ClosedMoves
<1>2. ASSUME NEW r \in closed
      PROVE  /\ phase'[r] \in {"closed"} \cup Gone
             /\ phase'[r] \in Leaving => phase[r] \in Leaving
  <2> USE DEF Goto, chanVars, queueVars, procVars, sendVars, fateVars
  <2>1. r \in Runs /\ phase[r] \in {"closed"} \cup Gone
    BY <1>0 DEF ClosedInv
  <2>2. ASSUME NEW q \in Runs, RunStep(q)
        PROVE  /\ phase[r] = "closed" => phase'[r] = "closed"
               /\ phase'[r] \in Leaving /\ phase[r] \in Gone => phase[r] \in Leaving
    BY <1>0, <2>2 DEF RunStep, RegisterSpawned, RecordSpawn, SpawnPanics, TakeSignal, NoSignal, TakeMsg,
       NoMsg, Wake, DrainMsg, DrainSignal, RegisterExit, BombDrop, RegisterExited, RecordExit, Registered, Recording, Gone, Closing, PollingSignal,
       SlotInv
  <2>3. ASSUME NEW q \in Runs, HandlerStep(q)
        PROVE  /\ phase[r] = "closed" => phase'[r] \in Leaving
               /\ phase'[r] \in Leaving /\ phase[r] \in Gone => phase[r] \in Leaving
    BY <1>0, <2>3 DEF HandlerStep, TrySpawn, Recv, RegisterInitialized, RegisterExiting, Finish,
       Abort, Gone, Closing, Recording, Parked
  <2>4. ASSUME NEW m \in Msgs, SendStep(m) PROVE UNCHANGED phase
    BY <2>4 DEF SendStep, CheckMsg, PushMsg, NotifyMsg
  <2>5. ASSUME NEW s \in Sigs, SignalStep(s) PROVE UNCHANGED phase
    BY <2>5 DEF SignalStep, CheckSignal, PushSignal, NotifySignal
  <2>6. "drainMsgs" \in Gone
    BY DEF Gone, Closing
  <2> QED BY <2>1, <2>2, <2>3, <2>4, <2>5, <2>6, GoneStays DEF Next, vars
<1>3. \A r \in closed' : phase'[r] \in {"closed"} \cup Gone
  BY <1>1, <1>2
<1>4. ASSUME NEW r \in closed', phase'[r] \in Leaving
      PROVE  /\ status' = "Exiting" /\ UNCHANGED atExiting
             /\ \A i \in DOMAIN msgQueue' : msgQueue'[i] \notin atExiting
  <2>1. CASE msgQueue' = <<>> /\ status' = "Exiting" /\ UNCHANGED atExiting
    BY <2>1
  <2>2. CASE r \in closed
    <3>1. /\ r \in Runs /\ phase[r] \in Leaving /\ status = "Exiting"
          /\ \A i \in DOMAIN msgQueue : msgQueue[i] \notin atExiting
      BY <1>0, <1>2, <1>4, <2>2 DEF ClosedInv
    <3>2. status' = "Exiting" /\ UNCHANGED atExiting
      BY <1>4, <3>1, LeavingQuiet
    <3>3. ASSUME NEW m \in Msgs, PushMsg(m)
          PROVE  \A i \in DOMAIN msgQueue' : msgQueue'[i] \notin atExiting
      <4>1. sender[m] = "checked" /\ msgQueue' = Append(msgQueue, m)
        BY <3>3 DEF PushMsg
      <4>2. m \notin atExiting
        BY <4>1 DEF FateInv
      <4>3. \A i \in DOMAIN msgQueue' :
              msgQueue'[i] = m \/ (i \in DOMAIN msgQueue /\ msgQueue'[i] = msgQueue[i])
        BY <4>1, QueueGains
      <4> QED BY <3>1, <4>2, <4>3
    <3>4. ASSUME NEW q \in Runs, TakeMsg(q) \/ (DrainMsg(q) /\ msgQueue # <<>>)
          PROVE  \A i \in DOMAIN msgQueue' : msgQueue'[i] \notin atExiting
      <4>1. msgQueue # <<>> /\ msgQueue' = Tail(msgQueue)
        BY <3>4 DEF TakeMsg, DrainMsg
      <4>2. \A i \in DOMAIN msgQueue' :
              i + 1 \in DOMAIN msgQueue /\ msgQueue'[i] = msgQueue[i + 1]
        BY <4>1, QueueLoses
      <4> QED BY <3>1, <4>2
    <3> QED BY <3>1, <3>2, <3>3, <3>4, FateMoves
  <2> QED BY <1>1, <2>1, <2>2
<1>5. ASSUME NEW m \in atExiting', droppedBy'[m] \in closed' PROVE FALSE
  <2>1. m \in Msgs /\ (m \in atExiting \/ m \in Waiting)
    BY <1>0, <1>5, FateMoves DEF Waiting
  <2>2. CASE droppedBy'[m] = droppedBy[m]
    <3>1. CASE phase[droppedBy[m]] = "idle"
      BY <1>0, <1>5, <2>1, <2>2, <3>1, ClosedMoves DEF FateInv, Gone, Closing, Recording
    <3>2. CASE droppedBy[m] \in closed
      <4>1. m \notin atExiting
        BY <3>2 DEF ClosedInv, ShutdownKeepsQueued
      <4>2. droppedBy[m] = NoRun
        BY <2>1, <4>1 DEF Waiting, FateInv
      <4> QED BY <1>0, <3>2, <4>2
    <3> QED BY <1>1, <1>5, <2>2, <3>1, <3>2
  <2>3. ASSUME NEW r \in Runs, DrainMsg(r), msgQueue # <<>>, droppedBy'[m] # droppedBy[m]
        PROVE  FALSE
    <3>1. /\ phase[r] = "drainMsgs" /\ UNCHANGED <<phase, closed, atExiting>>
          /\ droppedBy' = [droppedBy EXCEPT ![Head(msgQueue)] = r] /\ msgQueue' = Tail(msgQueue)
      BY <2>3 DEF DrainMsg, chanVars
    <3>2. m = Head(msgQueue) /\ droppedBy'[m] = r
      BY <1>0, <2>1, <2>3, <3>1
    <3>3. m = msgQueue[1] /\ 1 \in DOMAIN msgQueue
      BY <2>3, <3>1, <3>2, QueueLoses
    <3> QED BY <1>5, <3>1, <3>2, <3>3 DEF ClosedInv
  <2>4. ASSUME NEW n \in Msgs, PushMsg(n) PROVE UNCHANGED droppedBy
    BY <2>4 DEF PushMsg, fateVars
  <2>5. ASSUME NEW r \in Runs, TakeMsg(r) PROVE UNCHANGED droppedBy
    BY <2>5 DEF TakeMsg
  <2> QED BY <2>2, <2>3, <2>4, <2>5, FateMoves
<1> QED BY <1>3, <1>4, <1>5 DEF ClosedInv, ShutdownKeepsQueued

\* With an owner that joins each run, a run whose receive method returned None has
\* received every message that was queued when the shutdown was accepted, however
\* senders, the drain and later runs interleave.
THEOREM ShutdownReceivesAll ==
  ASSUME Respawn = "joined"
  PROVE  Spec => []ShutdownKeepsQueued
<1>1. TypeInv /\ TypeInv' /\ SlotInv /\ [Next]_vars => SlotInv'
  BY SlotStep
<1>2. Init => FateInv /\ ClosedInv
  BY DEF Init, FateInv, ClosedInv, ShutdownKeepsQueued
<1>3. TypeInv /\ FateInv /\ [Next]_vars => FateInv'
  BY FateStep
<1>4. TypeInv /\ SlotInv /\ FateInv /\ ClosedInv /\ [Next]_vars => ClosedInv'
  BY ClosedStep
<1>5. ClosedInv => ShutdownKeepsQueued
  BY DEF ClosedInv
<1> QED BY <1>1, <1>2, <1>3, <1>4, <1>5, SlotInit, TypeInit, TypeStep, PTL DEF Spec

-----------------------------------------------------------------------------
(* A suspended actor.                                                      *)

\* A run that may come to a message has seen every suspension there was.
AwakeInv ==
  \A r \in Runs : phase[r] \in {"signalFirst", "signalWoken", "parked", "pollMsg"} =>
    status # "Suspended"

LEMMA AwakeStep ==
  ASSUME Respawn = "joined", TypeInv, SlotInv, AwakeInv, [Next]_vars
  PROVE  AwakeInv'
<1> DEFINE Awake == {"signalFirst", "signalWoken", "parked", "pollMsg"}
<1> SUFFICES ASSUME NEW r \in Runs, phase'[r] \in Awake PROVE status' # "Suspended"
  BY DEF AwakeInv
<1> USE DEF Goto, chanVars, queueVars, procVars, sendVars, fateVars
<1>0. phase \in [Runs -> Phases]
  BY DEF TypeInv, TypeOK
<1>1. ASSUME NEW m \in Msgs, SendStep(m) PROVE UNCHANGED <<status, phase>>
  BY <1>1 DEF SendStep, CheckMsg, PushMsg, NotifyMsg
<1>2. ASSUME NEW s \in Sigs, SignalStep(s) PROVE UNCHANGED <<status, phase>>
  BY <1>2 DEF SignalStep, CheckSignal, PushSignal, NotifySignal
<1>3. CASE UNCHANGED <<status, phase>>
  BY <1>3 DEF AwakeInv
<1>4. ASSUME NEW q \in Runs, RunStep(q) \/ HandlerStep(q) PROVE q = r
  <2>1. q # r => phase'[r] = phase[r]
    BY <1>0, <1>4 DEF RunStep, HandlerStep, RegisterSpawned, RecordSpawn, SpawnPanics, TakeSignal, NoSignal,
       TakeMsg, NoMsg, Wake, DrainMsg, DrainSignal, RegisterExit, BombDrop, RegisterExited, RecordExit, Registered, Recording, TrySpawn, Recv,
       RegisterInitialized, RegisterExiting, Finish, Abort
  <2> QED BY <1>4, <2>1, AloneInSlot DEF Over
<1>5. CASE TakeSignal(r)
  <2>1. phase[r] \in Awake /\ ~Yields(Kind[Head(signalQueue)])
    BY <1>0, <1>5 DEF TakeSignal
  <2>2. status # "Suspended"
    BY <2>1 DEF AwakeInv
  <2> QED BY <1>5, <2>1, <2>2 DEF TakeSignal, PopSignal, AfterSignal, Yields
<1>6. CASE RunStep(r) /\ ~TakeSignal(r)
  <2>1. phase'[r] = phase[r] \/ NoSignal(r) \/ NoMsg(r) \/ Wake(r)
    BY <1>0, <1>6 DEF RunStep, RegisterSpawned, RecordSpawn, SpawnPanics, TakeMsg, DrainMsg, DrainSignal,
       RegisterExit, BombDrop, RegisterExited, RecordExit, Registered, Recording
  <2>2. CASE NoSignal(r) \/ NoMsg(r) \/ Wake(r)
    BY <1>0, <2>2 DEF NoSignal, NoMsg, Wake, PollingSignal, AwakeInv
  <2>3. CASE phase'[r] = phase[r]
    <3>1. UNCHANGED status
      BY <1>6, <2>3 DEF RunStep, RegisterSpawned, RecordSpawn, SpawnPanics, NoSignal, TakeMsg, NoMsg, Wake,
         DrainMsg, DrainSignal, RegisterExit, BombDrop, RegisterExited, RecordExit, Registered, Recording
    <3> QED BY <2>3, <3>1 DEF AwakeInv
  <2> QED BY <2>1, <2>2, <2>3
<1>7. CASE HandlerStep(r)
  BY <1>0, <1>7 DEF HandlerStep, TrySpawn, Recv, SignalsOnly, RegisterInitialized,
     RegisterExiting, Finish, Abort, AwakeInv
<1> QED BY <1>1, <1>2, <1>3, <1>4, <1>5, <1>6, <1>7 DEF Next, vars

\* With an owner that joins each run, no message is taken out of the queue of a
\* suspended channel, though the receiver reads the status long before it pops.
THEOREM NoneTakenWhileSuspended ==
  ASSUME Respawn = "joined"
  PROVE  Spec => SuspendedTakesNoMessage
<1> DEFINE Quiet == \A m \in Msgs : receivedBy'[m] # receivedBy[m] => status # "Suspended"
<1>1. TypeInv /\ TypeInv' /\ SlotInv /\ [Next]_vars => SlotInv'
  BY SlotStep
<1>2. Init => AwakeInv
  BY DEF Init, AwakeInv
<1>3. TypeInv /\ SlotInv /\ AwakeInv /\ [Next]_vars => AwakeInv'
  BY AwakeStep
<1>4. AwakeInv /\ [Next]_vars => [Quiet]_vars
  <2> SUFFICES ASSUME AwakeInv, Next PROVE UNCHANGED receivedBy \/ status # "Suspended"
    OBVIOUS
  <2> USE DEF fateVars
  <2>1. ASSUME NEW r \in Runs, RunStep(r) \/ HandlerStep(r), ~TakeMsg(r) PROVE UNCHANGED receivedBy
    BY <2>1 DEF RunStep, HandlerStep, RegisterSpawned, RecordSpawn, SpawnPanics, TakeSignal, NoSignal,
       NoMsg, Wake, DrainMsg, DrainSignal, RegisterExit, BombDrop, RegisterExited, RecordExit, Registered, Recording, TrySpawn, Recv,
       RegisterInitialized, RegisterExiting, Finish, Abort
  <2>2. ASSUME NEW r \in Runs, TakeMsg(r) PROVE status # "Suspended"
    BY <2>2 DEF TakeMsg, AwakeInv
  <2>3. ASSUME NEW m \in Msgs, SendStep(m) PROVE UNCHANGED receivedBy
    BY <2>3 DEF SendStep, CheckMsg, PushMsg, NotifyMsg
  <2>4. ASSUME NEW s \in Sigs, SignalStep(s) PROVE UNCHANGED receivedBy
    BY <2>4 DEF SignalStep, CheckSignal, PushSignal, NotifySignal
  <2> QED BY <2>1, <2>2, <2>3, <2>4 DEF Next
<1> QED BY <1>1, <1>2, <1>3, <1>4, SlotInit, TypeInit, TypeStep, PTL
        DEF Spec, SuspendedTakesNoMessage

-----------------------------------------------------------------------------
(* A watcher.                                                              *)

\* Whether an exit ends a wait for the initialization is decided by the history,
\* which is written after the status: only an owner that joins each run keeps it
\* from being written while the channel is dead.
WaitsAreSound == "init" \in Waits => Respawn = "joined"

WatchInv ==
  /\ TypeInv /\ (Respawn = "joined" => SlotInv)
  /\ WatchTypeOK /\ (watch.at # "off" => watch.wait \in Waits)
  /\ SleepsOnNoMatch

\* A step that leaves the status alone leaves alone what waits are decided by.
LEMMA ResolvesKeeps ==
  ASSUME WaitsAreSound, TypeInv, Respawn = "joined" => SlotInv, [Next]_vars, status' = status,
         NEW wait \in Waits
  PROVE  Resolves(wait)' => Resolves(wait)
<1>1. CASE wait # "init"
  BY <1>1, MonitorAssumption DEF Resolves, AcceptsMessages
<1>2. CASE wait = "init"
  <2>1. SlotInv
    BY <1>2 DEF WaitsAreSound
  <2>2. status = "Exited" => spawns' = spawns
    <3>1. ASSUME NEW r \in Spawning PROVE status # "Exited"
      BY <2>1, <3>1 DEF SlotInv, Spawning, Present
    <3>2. HistoryMoves
      BY HistoryStep
    <3> QED BY <3>1, <3>2 DEF HistoryMoves
  <2> QED BY <1>2, <2>2 DEF Resolves
<1> QED BY <1>1, <1>2

\* The channel is a Channel, watched or not.
LEMMA WatchedStep == [MonitorNext]_watchedVars => [Next]_vars
  BY DEF MonitorNext, watchedVars, Subscribe, ReadStatus, Hear

LEMMA WatchStep ==
  ASSUME WaitsAreSound
  PROVE  WatchInv /\ [MonitorNext]_watchedVars => WatchInv'
<1> SUFFICES ASSUME WatchInv, [MonitorNext]_watchedVars PROVE WatchInv'
  OBVIOUS
<1>1. TypeInv' /\ [Next]_vars /\ (Respawn = "joined" => SlotInv')
  <2>1. TypeInv' /\ [Next]_vars
    BY WatchedStep, TypeStep DEF WatchInv
  <2> QED BY <2>1, SlotStep DEF WatchInv
<1>2. CASE Next /\ Tell
  <2>1. /\ watch' = [watch EXCEPT !.news = watch.at # "off" /\ (@ \/ status' # status)]
        /\ watch \in [at : {"off", "reading", "awaiting"}, wait : Waits \cup {"none"},
                      news : BOOLEAN]
    BY <1>2 DEF Tell, WatchInv, WatchTypeOK
  <2>2. /\ watch'.at = watch.at /\ watch'.wait = watch.wait
        /\ watch'.news <=> watch.at # "off" /\ (watch.news \/ status' # status)
        /\ WatchTypeOK'
    BY <2>1 DEF WatchTypeOK
  <2>3. SleepsOnNoMatch'
    <3> SUFFICES ASSUME watch.at = "awaiting", ~watch.news, status' = status
                 PROVE  ~Resolves(watch.wait)'
      BY <2>2 DEF SleepsOnNoMatch
    <3>1. ~Resolves(watch.wait)
      BY DEF WatchInv, SleepsOnNoMatch
    <3>2. watch.wait \in Waits
      BY DEF WatchInv
    <3>3. Resolves(watch.wait)' => Resolves(watch.wait)
      <4>1. \A wait \in Waits : Resolves(wait)' => Resolves(wait)
        BY <1>1, ResolvesKeeps DEF WatchInv
      <4> QED BY <2>2, <3>2, <4>1 DEF Resolves
    <3> QED BY <3>1, <3>3
  <2> QED BY <1>1, <2>2, <2>3 DEF WatchInv
<1>3. ASSUME NEW wait \in Waits, Subscribe(wait) PROVE WatchInv'
  BY <1>1, <1>3 DEF Subscribe, WatchInv, WatchTypeOK, SleepsOnNoMatch
<1>4. CASE ReadStatus \/ Hear
  <2>1. status' = status /\ spawns' = spawns
    BY <1>4 DEF ReadStatus, Hear, vars, chanVars
  <2>2. \/ watch' = NotWatching
        \/ ~Resolves(watch.wait) /\ watch' = [watch EXCEPT !.at = "awaiting"]
        \/ watch' = [watch EXCEPT !.at = "reading", !.news = FALSE]
    BY <1>4 DEF ReadStatus, Hear
  <2>3. /\ watch \in [at : {"off", "reading", "awaiting"}, wait : Waits \cup {"none"},
                     news : BOOLEAN]
        /\ watch.at # "off"
    BY <1>4 DEF WatchInv, WatchTypeOK, ReadStatus, Hear
  <2>4. /\ WatchTypeOK'
        /\ \/ watch'.at # "awaiting"
           \/ ~Resolves(watch.wait) /\ watch'.wait = watch.wait
        /\ watch'.at # "off" => watch'.wait = watch.wait /\ watch.at # "off"
    <3>1. CASE watch' = NotWatching
      BY <3>1 DEF NotWatching, WatchTypeOK
    <3>2. CASE ~Resolves(watch.wait) /\ watch' = [watch EXCEPT !.at = "awaiting"]
      <4>1. watch' \in [at : {"off", "reading", "awaiting"}, wait : Waits \cup {"none"},
                       news : BOOLEAN] /\ watch'.wait = watch.wait
        BY <2>3, <3>2
      <4> QED BY <2>3, <3>2, <4>1 DEF WatchTypeOK
    <3>3. CASE watch' = [watch EXCEPT !.at = "reading", !.news = FALSE]
      BY <2>3, <3>3 DEF WatchTypeOK
    <3> QED BY <2>2, <3>1, <3>2, <3>3
  <2>5. SleepsOnNoMatch'
    BY <2>1, <2>4 DEF SleepsOnNoMatch, Resolves
  <2> QED BY <1>1, <2>4, <2>5 DEF WatchInv
<1>5. CASE UNCHANGED watchedVars
  <2>1. status' = status /\ spawns' = spawns /\ watch' = watch
    BY <1>5 DEF watchedVars, vars, chanVars
  <2>2. SleepsOnNoMatch'
    BY <2>1 DEF WatchInv, SleepsOnNoMatch, Resolves
  <2> QED BY <1>1, <2>1, <2>2 DEF WatchInv, WatchTypeOK
<1> QED BY <1>2, <1>3, <1>4, <1>5 DEF MonitorNext

\* A watcher never sleeps through the status it waits for, whatever changes between
\* its subscription, its reads and its awaits: monitor subscribes before it reads.  A
\* wait for the initialization, which looks at the history of spawns as well, needs
\* an owner that joins each run.
THEOREM NoMatchIsSleptThrough ==
  ASSUME "init" \in Waits => Respawn = "joined"
  PROVE  MonitorSpec => []SleepsOnNoMatch
<1>0. WaitsAreSound
  BY DEF WaitsAreSound
<1>1. MonitorInit => WatchInv
  <2> SUFFICES ASSUME MonitorInit PROVE WatchInv
    OBVIOUS
  <2>1. TypeInv /\ SlotInv
    BY TypeInit, SlotInit DEF MonitorInit
  <2> QED BY <2>1 DEF MonitorInit, NotWatching, WatchInv, WatchTypeOK, SleepsOnNoMatch
<1>2. WatchInv => SleepsOnNoMatch
  BY DEF WatchInv
<1>3. WatchInv /\ [MonitorNext]_watchedVars => WatchInv'
  BY <1>0, WatchStep
<1> QED BY <1>1, <1>2, <1>3, PTL DEF MonitorSpec
=============================================================================
