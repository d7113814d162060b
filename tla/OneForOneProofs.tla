--------------------------- MODULE OneForOneProofs ---------------------------
(***************************************************************************)
(* Proofs about the one-for-one strategy, for any children, names, restart *)
(* modes and budgets: its type invariant, that what it waits for while it  *)
(* exits never drifts from what is still up, that it leaves no supervisee  *)
(* down while it works, and that it is a SupervisedGroup.                  *)
(***************************************************************************)
EXTENDS OneForOne, SupervisorProofs

Inv == TypeOK /\ ExitingTracksChildren /\ NoneLeftDead

-----------------------------------------------------------------------------
(* The two ways of a handler that change everything at once.  c is what    *)
(* the supervisees are when the handler comes to it.                       *)

\* What a handler finds: one supervisee is down already, and what is waited for
\* is all that is up.
Ready(c) ==
  /\ c \in [Names -> ChildStates]
  /\ \A n \in Names \ specs : c[n] = "Dead"
  /\ exiting = IF status = "Exiting"
               THEN {n \in specs : c[n] # "Dead"} ELSE {}
  /\ \A n \in exiting : c[n] = "ShuttingDown"

\* ShutdownAll leaves everyone dead or waited for, and starts nobody.
LEMMA ShutdownStep ==
  ASSUME TypeOK, NEW c, Ready(c), ~Stopped, ShutdownAll(c),
         permits' \in 0..MaxRestarts,
         childPermits' \in [Names -> 0..MaxChildRestarts]
  PROVE  /\ Inv'
         /\ status' \in {"Exiting", "Exited"}
         /\ \A n \in Names : child'[n] # "Dead" => c[n] # "Dead"
         /\ status' = "Exited" => \A n \in Names : child'[n] = "Dead"
<1> DEFINE owing == exiting \cup {n \in specs : Owes(c[n])}
<1>1. /\ child' = Stop(c, specs) /\ exiting' = owing
      /\ status' = IF owing = {} THEN "Exited" ELSE "Exiting"
      /\ order' = order /\ specs' = specs /\ initializing' = initializing
  BY DEF ShutdownAll
<1>2. specs \subseteq Names /\ c \in [Names -> ChildStates]
      /\ \A n \in Names \ specs : c[n] = "Dead"
  BY DEF TypeOK, Ready
<1>3. \A n \in Names :
        child'[n] = IF n \in specs THEN StopState(c[n]) ELSE c[n]
  BY <1>1 DEF Stop
<1>4. child' \in [Names -> ChildStates]
  <2>1. \A n \in Names : StopState(c[n]) \in ChildStates
    BY <1>2, StopStates DEF ChildStates
  <2> QED BY <1>1, <1>2, <2>1 DEF Stop
<1>5. \A n \in specs : /\ child'[n] \in {"Dead", "ShuttingDown"}
                       /\ Owes(c[n]) <=> child'[n] = "ShuttingDown"
  BY <1>2, <1>3, StopStates
<1>6. \A n \in exiting : n \in specs /\ Owes(c[n])
  BY DEF Ready, Owes, StopState
<1>7. owing = {n \in specs : child'[n] # "Dead"}
  BY <1>5, <1>6
<1>8. TypeOK'
  BY <1>1, <1>2, <1>3, <1>4, <1>7 DEF TypeOK
<1>9. ExitingTracksChildren' /\ NoneLeftDead'
  BY <1>1, <1>5, <1>7 DEF ExitingTracksChildren, NoneLeftDead, Working
<1>10. \A n \in Names : child'[n] # "Dead" => c[n] # "Dead"
  BY <1>2, <1>3 DEF StopState
<1>11. status' = "Exited" => \A n \in Names : child'[n] = "Dead"
  BY <1>1, <1>2, <1>3, <1>7
<1> QED BY <1>1, <1>8, <1>9, <1>10, <1>11 DEF Inv

\* RemoveSpec takes one supervisee away from both what is up and what is waited
\* for.
LEMMA RemoveStep ==
  ASSUME TypeOK, NEW c, Ready(c), NEW n \in specs, RemoveSpec(c, n),
         Working => \A m \in specs \ {n} : c[m] # "Dead",
         permits' = permits, childPermits' = childPermits
  PROVE  /\ Inv'
         /\ status' = status
         /\ \A m \in Names : child'[m] # "Dead" => c[m] # "Dead"
<1>1. /\ specs' = specs \ {n} /\ child' = Drop(c, {n})
      /\ initializing' = initializing \ {n} /\ exiting' = exiting \ {n}
      /\ order' = order /\ status' = status
  BY DEF RemoveSpec
<1>2. /\ child' \in [Names -> ChildStates]
      /\ \A m \in Names : child'[m] = IF m = n THEN "Dead" ELSE c[m]
  BY <1>1 DEF Ready, Drop, ChildStates
<1>3. TypeOK'
  <2>1. order' \in Seq(Names) /\ specs' \subseteq {order'[i] : i \in DOMAIN order'}
    BY <1>1 DEF TypeOK
  <2>2. \A m \in Names \ specs' : child'[m] = "Dead"
    BY <1>1, <1>2 DEF Ready
  <2>3. initializing' \subseteq specs' /\ exiting' \subseteq specs'
    BY <1>1 DEF TypeOK
  <2> QED BY <1>1, <1>2, <2>1, <2>2, <2>3 DEF TypeOK
<1>4. ExitingTracksChildren'
  <2>1. specs \subseteq Names
    BY DEF TypeOK
  <2>2. \A m \in specs' : child'[m] = c[m]
    BY <1>1, <1>2, <2>1
  <2>3. \A m \in exiting' : child'[m] = "ShuttingDown"
    BY <1>1, <2>2 DEF Ready
  <2>4. exiting' = IF status' = "Exiting"
                   THEN {m \in specs' : child'[m] # "Dead"} ELSE {}
    BY <1>1, <2>2 DEF Ready
  <2> QED BY <2>3, <2>4 DEF ExitingTracksChildren
<1>5. NoneLeftDead'
  <2>1. specs \subseteq Names
    BY DEF TypeOK
  <2>2. Working' => \A m \in specs' : child'[m] # "Dead"
    BY <1>1, <1>2, <2>1 DEF Working
  <2> QED BY <2>2 DEF NoneLeftDead
<1> QED BY <1>1, <1>2, <1>3, <1>4, <1>5 DEF Inv

-----------------------------------------------------------------------------
(* Every step keeps the invariant, and is a step of the abstract group.    *)

Abstract == [Group!Next]_Group!groupVars

LEMMA GoDownStep ==
  ASSUME Inv, NEW n \in Names, NEW success \in BOOLEAN, GoDown(n, success)
  PROVE  Inv' /\ Abstract
<1> DEFINE c == [child EXCEPT ![n] = "Dead"]
<1>1. ~Stopped /\ child[n] # "Dead" /\ HandleExit(n, success)
  BY DEF GoDown, GoesDown
<1>2. n \in specs
  BY <1>1 DEF Inv, TypeOK
<1>3. /\ c \in [Names -> ChildStates]
      /\ \A m \in Names : c[m] = IF m = n THEN "Dead" ELSE child[m]
  BY DEF Inv, TypeOK, ChildStates
<1>4. ASSUME n \in exiting, exiting' = exiting \ {n},
             status' = IF exiting' = {} THEN "Exited" ELSE status,
             child' = c,
             UNCHANGED <<order, specs, initializing, permits, childPermits>>
      PROVE  Inv' /\ Abstract
  <2>1. status = "Exiting" /\ exiting = {m \in specs : child[m] # "Dead"}
    BY <1>4 DEF Inv, ExitingTracksChildren
  <2>2. TypeOK'
    BY <1>3, <1>4, <2>1 DEF Inv, TypeOK
  <2>3. ExitingTracksChildren' /\ NoneLeftDead'
    BY <1>3, <1>4, <2>1
       DEF Inv, TypeOK, ExitingTracksChildren, NoneLeftDead, Working
  <2>4. Up' \subseteq Up
    BY <1>3, <1>4 DEF Up
  <2>5. exiting' = {} => Up' = {}
    BY <1>3, <1>4, <2>1 DEF Inv, TypeOK, Up
  <2>6. Group!Next
    BY <1>4, <2>1, <2>4, <2>5 DEF Group!Next, Group!Lose, Group!Exit
  <2> QED BY <2>2, <2>3, <2>6 DEF Inv, Abstract
<1>5. ASSUME n \notin exiting
      PROVE  Ready(c) /\ Working
  <2>1. status # "Exiting"
    BY <1>1, <1>2, <1>5 DEF Inv, ExitingTracksChildren
  <2> QED BY <1>1, <1>3, <2>1
          DEF Inv, TypeOK, ExitingTracksChildren, Ready, Stopped, Working
<1>6. ASSUME n \notin exiting, RemoveSpec(c, n),
             UNCHANGED <<permits, childPermits>>
      PROVE  Inv' /\ Abstract
  <2>1. \A m \in specs \ {n} : c[m] # "Dead"
    BY <1>3, <1>5, <1>6 DEF Inv, TypeOK, NoneLeftDead
  <2>2. Inv' /\ status' = status
    BY <1>2, <1>5, <1>6, <2>1, RemoveStep DEF Inv
  <2> QED BY <1>5, <1>6, <2>2
          DEF Working, Up, Abstract, Group!Next, Group!Change, Group!Working
<1>7. ASSUME n \notin exiting, TakeSupervisorPermit, Allowed(n),
             child' = Start(c, {n}),
             childPermits' = Charge(childPermits, {n}),
             UNCHANGED <<order, specs, status, initializing, exiting>>
      PROVE  Inv' /\ Abstract
  <2>1. permits' \in 0..MaxRestarts
    BY <1>7, PermitType DEF Inv, TypeOK
  <2>2. childPermits' \in [Names -> 0..MaxChildRestarts]
    BY <1>7, ChargeType DEF Inv, TypeOK, Allowed
  <2>3. /\ child' \in [Names -> ChildStates]
        /\ \A m \in Names : child'[m] = IF m = n THEN "Starting" ELSE child[m]
    BY <1>3, <1>7 DEF Start, ChildStates
  <2>4. TypeOK'
    <3>1. TypeOK
      BY DEF Inv
    <3>2. \A m \in Names \ specs' : child'[m] = "Dead"
      BY <1>2, <1>7, <2>3, <3>1 DEF TypeOK
    <3>3. UNCHANGED <<order, specs, status, initializing, exiting>>
      BY <1>7
    <3> QED BY <2>1, <2>2, <2>3, <3>1, <3>2, <3>3 DEF TypeOK
  <2>5. ExitingTracksChildren'
    BY <1>5, <1>7 DEF Inv, ExitingTracksChildren, Working
  <2>6. NoneLeftDead'
    <3>1. \A m \in specs : m \in Names /\ child[m] # "Dead"
      BY <1>5, <1>7 DEF Inv, TypeOK, NoneLeftDead
    <3> QED BY <1>7, <2>3, <3>1 DEF NoneLeftDead
  <2> QED BY <1>5, <1>7, <2>4, <2>5, <2>6
          DEF Inv, Working, Up, Abstract, Group!Next, Group!Change, Group!Working
<1>8. ASSUME n \notin exiting, TakeSupervisorPermit, ShutdownAll(c),
             UNCHANGED childPermits
      PROVE  Inv' /\ Abstract
  <2>1. permits' \in 0..MaxRestarts
    BY <1>8, PermitType DEF Inv, TypeOK
  <2>2. childPermits' \in [Names -> 0..MaxChildRestarts]
    BY <1>8 DEF Inv, TypeOK
  <2>3. /\ Inv' /\ status' \in {"Exiting", "Exited"}
        /\ \A m \in Names : child'[m] # "Dead" => c[m] # "Dead"
        /\ status' = "Exited" => \A m \in Names : child'[m] = "Dead"
    BY <1>1, <1>5, <1>8, <2>1, <2>2, ShutdownStep DEF Inv
  <2>4. Up' \subseteq Up /\ (status' = "Exited" => Up' = {})
    BY <1>3, <2>3 DEF Up
  <2> QED BY <1>5, <1>8, <2>3, <2>4
          DEF Working, Abstract, Group!Next, Group!BeginExit, Group!Exit, Group!Working
<1> QED BY <1>1, <1>4, <1>6, <1>7, <1>8 DEF HandleExit

LEMMA Step ==
  ASSUME Inv, [Next]_vars
  PROVE  Inv' /\ Abstract
<1> USE DEF vars, superVars
<1>1. CASE UNCHANGED vars
  BY <1>1 DEF Inv, TypeOK, ExitingTracksChildren, NoneLeftDead, Working, Up,
              Abstract, Group!groupVars
<1>2. CASE ShutdownSignal
  <2>1. Ready(child)
    BY DEF Inv, TypeOK, ExitingTracksChildren, Ready
  <2>2. /\ Inv' /\ status' \in {"Exiting", "Exited"}
        /\ \A m \in Names : child'[m] # "Dead" => child[m] # "Dead"
        /\ status' = "Exited" => \A m \in Names : child'[m] = "Dead"
    BY <1>2, <2>1, ShutdownStep DEF Inv, TypeOK, ShutdownSignal
  <2>3. Up' \subseteq Up /\ (status' = "Exited" => Up' = {})
    BY <2>2 DEF Up
  <2>4. Working \/ status = "Exiting"
    BY <1>2 DEF ShutdownSignal, Inv, TypeOK, Stopped, Working
  <2> QED BY <2>2, <2>3, <2>4
          DEF Working, Abstract, Group!Next, Group!BeginExit, Group!Exit, Group!Lose,
              Group!Working
<1>3. CASE WindowPasses
  <2>1. /\ permits' \in 0..MaxRestarts
        /\ childPermits' \in [Names -> 0..MaxChildRestarts]
        /\ UNCHANGED <<order, specs, child, status, initializing, exiting>>
    BY <1>3, WindowType DEF Inv
  <2> QED BY <2>1 DEF Inv, TypeOK, ExitingTracksChildren, NoneLeftDead,
                      Working, Up, Abstract, Group!groupVars
<1>4. ASSUME NEW n \in Names, Register(n) PROVE Inv' /\ Abstract
  <2>1. /\ TypeOK' /\ Working /\ n \notin specs /\ specs' = specs \cup {n}
        /\ \A m \in Names : child'[m] = IF m = n THEN "Starting" ELSE child[m]
        /\ UNCHANGED <<status, initializing, exiting>>
    BY <1>4, RegisterType DEF Inv
  <2>2. ExitingTracksChildren' /\ NoneLeftDead'
    BY <2>1 DEF Inv, TypeOK, ExitingTracksChildren, NoneLeftDead, Working
  <2> QED BY <2>1, <2>2
          DEF Inv, Working, Up, Abstract, Group!Next, Group!Change, Group!Working
<1>5. ASSUME NEW n \in Names, Deregister(n) PROVE Inv' /\ Abstract
  <2>1. /\ n \in specs /\ ~Stopped /\ RemoveSpec(child, n)
        /\ permits' = permits /\ childPermits' = childPermits
    BY <1>5 DEF Deregister
  <2>2. Ready(child)
    BY DEF Inv, TypeOK, ExitingTracksChildren, Ready
  <2>3. /\ Inv' /\ status' = status
        /\ \A m \in Names : child'[m] # "Dead" => child[m] # "Dead"
    BY <2>1, <2>2, RemoveStep DEF Inv, NoneLeftDead
  <2>4. Up' \subseteq Up
    BY <2>3 DEF Up
  <2>5. Working \/ status = "Exiting"
    BY <2>1 DEF Inv, TypeOK, Stopped, Working
  <2> QED BY <2>3, <2>4, <2>5
          DEF Working, Up, Abstract, Group!Next, Group!Change, Group!Lose, Group!Working
<1>6. ASSUME NEW n \in Names, Started(n) \/ Initialized(n)
      PROVE  Inv' /\ Abstract
  <2>1. /\ child[n] \in {"Starting", "Initializing"} /\ n \in specs
        /\ UNCHANGED <<order, specs, exiting, permits, childPermits>>
        /\ initializing' \subseteq initializing
        /\ \E s \in {"Initializing", "Alive"} : child' = [child EXCEPT ![n] = s]
    BY <1>6 DEF Started, Initialized, HandleInitialized, Inv, TypeOK
  <2>2. status' = status \/ (status = "Initializing" /\ status' = "Running")
    BY <1>6 DEF Started, Initialized, HandleInitialized, StatusOnceInitialized
  <2>3. /\ child' \in [Names -> ChildStates]
        /\ \A m \in Names : child'[m] # "Dead" <=> child[m] # "Dead"
        /\ \A m \in Names : m # n => child'[m] = child[m]
    BY <2>1 DEF Inv, TypeOK, ChildStates
  <2>4. n \notin exiting
    BY <2>1 DEF Inv, ExitingTracksChildren
  <2>5. TypeOK'
    BY <2>1, <2>2, <2>3 DEF Inv, TypeOK
  <2>6. ExitingTracksChildren' /\ NoneLeftDead'
    BY <2>1, <2>2, <2>3, <2>4
       DEF Inv, TypeOK, ExitingTracksChildren, NoneLeftDead, Working
  <2>7. Up' = Up
    BY <2>3 DEF Up
  <2> QED BY <2>2, <2>5, <2>6, <2>7
          DEF Inv, Up, Abstract, Group!Next, Group!Change, Group!Working, Group!groupVars
<1> QED BY <1>1, <1>2, <1>3, <1>4, <1>5, <1>6, GoDownStep DEF Next

LEMMA Initial ==
  ASSUME Init
  PROVE  Inv /\ Group!Init
<1>1. TypeOK /\ specs \subseteq Names
  BY InitType DEF TypeOK
<1> QED BY <1>1
        DEF Init, Inv, ExitingTracksChildren, NoneLeftDead, Working, Up, Group!Init

-----------------------------------------------------------------------------
LEMMA Invariance == Spec => []Inv
<1>1. Init => Inv
  BY Initial
<1>2. Inv /\ [Next]_vars => Inv'
  BY Step
<1> QED BY <1>1, <1>2, PTL DEF Spec

\* Every variable keeps its type, and both budgets are never exceeded.
THEOREM TypeCorrect == Spec => []TypeOK
<1>1. Inv => TypeOK
  BY DEF Inv
<1> QED BY <1>1, Invariance, PTL

\* What the shutdown of SupervisorInner waits for is exactly what is still up,
\* all of it told to stop, whatever exits or is deregistered meanwhile.
THEOREM ShutdownWaitsForAll == Spec => []ExitingTracksChildren
<1>1. Inv => ExitingTracksChildren
  BY DEF Inv
<1> QED BY <1>1, Invariance, PTL

\* handle_exit never leaves a supervisee down in a supervisor that works.
THEOREM NobodyLeftDead == Spec => []NoneLeftDead
<1>1. Inv => NoneLeftDead
  BY DEF Inv
<1> QED BY <1>1, Invariance, PTL

\* The one-for-one supervisor implements the abstract group: it starts nobody
\* once it is exiting, and when it exits nobody is up.
THEOREM ImplementsGroup == Spec => IsSupervisedGroup
<1>1. Init => Group!Init
  BY Initial
<1>2. Inv /\ [Next]_vars => [Group!Next]_Group!groupVars
  BY Step DEF Abstract
<1> QED BY <1>1, <1>2, Invariance, PTL DEF Spec, IsSupervisedGroup, Group!Spec
=============================================================================
