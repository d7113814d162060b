--------------------------- MODULE OneForAllProofs ---------------------------
(***************************************************************************)
(* Proofs about the one-for-all strategy, for any children, names, restart *)
(* modes and budgets: what its cascade waits for is what was told to stop, *)
(* and the group is restarted together and whole.                          *)
(***************************************************************************)
EXTENDS OneForAll, SupervisorProofs

Members == cascadeRestart \cup cascadeDrop

Types == TypeOK /\ restarting \subseteq specs /\ Members \subseteq specs

\* Of a working supervisor, the members of the cascade are those who are down or
\* told to stop; it waits for the latter, and has none when it waits for nobody.
Cascade ==
  Working =>
    /\ exiting = {}
    /\ restarting = {n \in specs : child[n] = "ShuttingDown"}
    /\ Members = {n \in specs : child[n] \in {"Dead", "ShuttingDown"}}
    /\ restarting = {} => Members = {}

Inv == Types /\ Cascade

\* What AllExitBeforeAnyRestart says of a step.
Together ==
  (Working /\ \E n \in specs \cap specs' : child[n] # "Starting" /\ child'[n] = "Starting")
    => \A m \in specs' : child'[m] # "ShuttingDown"

\* The supervisees, as a handler finds them.
Ready(c) == c \in [Names -> ChildStates] /\ \A n \in Names \ specs : c[n] = "Dead"

Budgets ==
  permits' \in 0..MaxRestarts /\ childPermits' \in [Names -> 0..MaxChildRestarts]

-----------------------------------------------------------------------------
(* The ways of a handler that change everything at once.                   *)

\* finish_cascade starts everyone it does not drop, when nobody owes an exit.
LEMMA FinishStep ==
  ASSUME Types, Budgets, NEW c, Ready(c), NEW gone, NEW drop, NEW restart,
         FinishCascade(c, gone, drop, restart),
         Working => /\ exiting = {}
                    /\ \A n \in specs \ gone :
                         /\ c[n] # "ShuttingDown"
                         /\ c[n] = "Dead" => n \in drop \cup restart
  PROVE  Inv' /\ Together
<1>1. /\ specs' = specs \ (gone \cup drop)
      /\ initializing' = initializing \ (gone \cup drop)
      /\ exiting' = exiting \ (gone \cup drop)
      /\ child' = Start(Drop(c, gone \cup drop), restart \cap specs')
      /\ restarting' = {} /\ cascadeRestart' = {} /\ cascadeDrop' = {}
      /\ order' = order /\ status' = status
  BY DEF FinishCascade
<1>2. specs \subseteq Names
  BY DEF Types, TypeOK
<1>3. \A n \in Names : child'[n] =
        IF n \in gone \cup drop THEN "Dead"
        ELSE IF n \in restart \cap specs' /\ c[n] = "Dead" THEN "Starting" ELSE c[n]
  BY <1>1, <1>2 DEF Start, Drop
<1>4. child' \in [Names -> ChildStates]
  <2>1. \A n \in Names : child'[n] \in ChildStates
    BY <1>3 DEF Ready, ChildStates
  <2> QED BY <1>1, <2>1 DEF Start
<1>5. \A n \in Names \ specs' : child'[n] = "Dead"
  BY <1>1, <1>3 DEF Ready
<1>6. TypeOK'
  BY <1>1, <1>4, <1>5 DEF Types, TypeOK, Budgets
<1>7. Working => \A n \in specs' : child'[n] \notin {"Dead", "ShuttingDown"}
  BY <1>1, <1>2, <1>3
<1>8. Cascade' /\ Together
  BY <1>1, <1>7 DEF Cascade, Members, Working, Together
<1> QED BY <1>1, <1>6, <1>8 DEF Inv, Types, Members

\* ShutdownAll ends the work, whatever the cascade was about.
LEMMA ShutdownStep ==
  ASSUME Types, Budgets, NEW c, Ready(c), ShutdownAll(c),
         restarting' \subseteq specs, Members' \subseteq specs
  PROVE  Inv' /\ Together
<1> DEFINE owing == exiting \cup {n \in specs : Owes(c[n])}
<1>1. /\ child' = Stop(c, specs) /\ exiting' = owing
      /\ status' = IF owing = {} THEN "Exited" ELSE "Exiting"
      /\ order' = order /\ specs' = specs /\ initializing' = initializing
  BY DEF ShutdownAll
<1>2. \A n \in Names : child'[n] = IF n \in specs THEN StopState(c[n]) ELSE c[n]
  BY <1>1 DEF Stop
<1>3. \A n \in Names : child'[n] \in ChildStates /\ (child'[n] # "Starting" \/ n \notin specs)
  BY <1>2, StopStates DEF Ready, ChildStates
<1>4. child' \in [Names -> ChildStates]
  <2>1. \A n \in Names : child'[n] \in ChildStates
    BY <1>2, <1>3 DEF Ready
  <2> QED BY <1>1, <2>1 DEF Stop
<1>5. TypeOK'
  BY <1>1, <1>2, <1>4 DEF Types, TypeOK, Budgets, Ready
<1>6. ~Working'
  BY <1>1 DEF Working
<1>7. Together
  BY <1>1, <1>3 DEF Together, Types, TypeOK
<1> QED BY <1>1, <1>5, <1>6, <1>7 DEF Inv, Types, Cascade

\* remove_spec, of one that is down, not waited for and not in the cascade, or of
\* any one that is deregistered.
LEMMA RemoveStep ==
  ASSUME Types, Budgets, NEW c, Ready(c), NEW n \in specs, RemoveSpec(c, n),
         \A m \in Names \ {n} : c[m] = child[m], Cascade
  PROVE  Inv' /\ Together
<1>1. specs \subseteq Names
  BY DEF Types, TypeOK
<1>2. CASE restarting = {n} /\ FinishCascade(c, {n}, cascadeDrop, cascadeRestart)
  <2>1. Working => /\ exiting = {}
                   /\ \A m \in specs \ {n} :
                        /\ c[m] # "ShuttingDown"
                        /\ c[m] = "Dead" => m \in cascadeDrop \cup cascadeRestart
    BY <1>1, <1>2 DEF Cascade, Members
  <2> QED BY <1>2, <2>1, FinishStep
<1>3. CASE restarting # {n} /\ Forget(c, n)
  <2>1. /\ specs' = specs \ {n} /\ child' = Drop(c, {n})
        /\ initializing' = initializing \ {n} /\ exiting' = exiting \ {n}
        /\ restarting' = restarting \ {n}
        /\ cascadeRestart' = cascadeRestart \ {n} /\ cascadeDrop' = cascadeDrop \ {n}
        /\ order' = order /\ status' = status
    BY <1>3 DEF Forget
  <2>2. /\ child' \in [Names -> ChildStates]
        /\ \A m \in Names : child'[m] = IF m = n THEN "Dead" ELSE c[m]
    BY <2>1 DEF Drop, Ready, ChildStates
  <2>3. TypeOK'
    <3>1. \A m \in Names \ specs' : child'[m] = "Dead"
      BY <2>1, <2>2 DEF Ready
    <3>2. initializing' \subseteq specs' /\ exiting' \subseteq specs'
      BY <2>1 DEF Types, TypeOK
    <3>3. order' \in Seq(Names) /\ specs' \subseteq {order'[i] : i \in DOMAIN order'}
      BY <2>1 DEF Types, TypeOK
    <3>4. status' \in {"Initializing", "Running", "Exiting", "Exited", "Panicked"}
      BY <2>1 DEF Types, TypeOK
    <3> QED BY <2>2, <3>1, <3>2, <3>3, <3>4 DEF TypeOK, Budgets
  <2>4. \A m \in specs' : m \in Names /\ child'[m] = child[m] /\ m \in specs
    BY <1>1, <2>1, <2>2
  <2>5. Cascade'
    <3> SUFFICES ASSUME Working'
                 PROVE  /\ exiting' = {}
                        /\ restarting' = {m \in specs' : child'[m] = "ShuttingDown"}
                        /\ Members' = {m \in specs' : child'[m] \in {"Dead", "ShuttingDown"}}
                        /\ restarting' = {} => Members' = {}
      BY DEF Cascade
    <3>1. /\ exiting = {}
          /\ restarting = {m \in specs : child[m] = "ShuttingDown"}
          /\ Members = {m \in specs : child[m] \in {"Dead", "ShuttingDown"}}
          /\ restarting = {} => Members = {}
      BY <2>1 DEF Cascade, Working
    <3>2. Members' = Members \ {n}
      BY <2>1 DEF Members
    <3>3. restarting' = {} => restarting = {}
      BY <1>3, <2>1
    <3> QED BY <2>1, <2>4, <3>1, <3>2, <3>3
  <2>6. Together
    BY <2>4 DEF Together
  <2>7. restarting' \subseteq specs' /\ Members' \subseteq specs'
    BY <2>1 DEF Types, Members
  <2> QED BY <2>3, <2>5, <2>6, <2>7 DEF Inv, Types
<1> QED BY <1>2, <1>3 DEF RemoveSpec

\* start_cascade takes in everyone who is not in it, or ends the work.
LEMMA StartStep ==
  ASSUME Inv, NEW n \in specs, Working => child[n] \notin {"Dead", "ShuttingDown"},
         NEW c, c = [child EXCEPT ![n] = "Dead"],
         permits' \in 0..MaxRestarts, ChildAllows(childPermits, n), StartCascade(c, n)
  PROVE  Inv' /\ Together
<1> DEFINE cp == Charge(childPermits, {n})
           siblings == (specs \ {n}) \ (cascadeRestart \cup cascadeDrop)
           refusing == {m \in siblings : Mode[m] # "Never" /\ ~ChildAllows(cp, m)}
           folded == {m \in siblings : \A k \in refusing : Position(m) < Position(k)}
           dropped == {m \in folded : Mode[m] = "Never"}
           waiting == restarting \cup {m \in folded : Owes(c[m])}
           restart == cascadeRestart \cup {n} \cup (folded \ dropped)
           s == Stop(c, folded)
<1>1. /\ childPermits' = Charge(cp, folded \ dropped)
      /\ \/ /\ refusing = {} /\ waiting = {}
            /\ FinishCascade(s, {}, cascadeDrop \cup dropped, restart)
         \/ /\ refusing = {} /\ waiting # {}
            /\ child' = s
            /\ restarting' = waiting /\ cascadeRestart' = restart
            /\ cascadeDrop' = cascadeDrop \cup dropped
            /\ UNCHANGED <<order, specs, status, initializing, exiting>>
         \/ /\ refusing # {}
            /\ ShutdownAll(s)
            /\ restarting' = waiting /\ cascadeRestart' = restart
            /\ cascadeDrop' = cascadeDrop \cup dropped
  BY DEF StartCascade
<1>2. /\ specs \subseteq Names /\ n \in Names
      /\ child \in [Names -> ChildStates] /\ \A m \in Names \ specs : child[m] = "Dead"
      /\ Working => /\ exiting = {}
                    /\ restarting = {m \in specs : child[m] = "ShuttingDown"}
                    /\ Members = {m \in specs : child[m] \in {"Dead", "ShuttingDown"}}
                    /\ restarting = {} => Members = {}
  BY DEF Inv, Types, TypeOK, Cascade
<1>3. /\ c \in [Names -> ChildStates]
      /\ \A m \in Names : c[m] = IF m = n THEN "Dead" ELSE child[m]
  BY <1>2 DEF ChildStates
<1>4. /\ siblings \subseteq specs
      /\ Working => siblings = {m \in specs \ {n} : c[m] \notin {"Dead", "ShuttingDown"}}
  BY <1>2, <1>3 DEF Members
<1>5. folded \subseteq siblings /\ dropped \subseteq folded /\ (refusing = {} => folded = siblings)
  OBVIOUS
<1> HIDE DEF siblings, folded, dropped, waiting, restart
<1>6. /\ s \in [Names -> ChildStates]
      /\ \A m \in Names : s[m] = IF m \in folded THEN StopState(c[m]) ELSE c[m]
      /\ \A m \in folded : /\ s[m] \in {"Dead", "ShuttingDown"}
                           /\ Owes(c[m]) <=> s[m] = "ShuttingDown"
  <2>1. \A m \in folded : m \in Names
    BY <1>2, <1>4, <1>5
  <2> QED BY <1>3, <2>1, StopStates DEF Stop, ChildStates
<1>7. Ready(s)
  <2>1. \A m \in Names \ specs : m \notin folded /\ c[m] = "Dead"
    BY <1>2, <1>3, <1>4, <1>5
  <2> QED BY <1>6, <2>1 DEF Ready
<1>8. Budgets
  <2>1. childPermits \in [Names -> 0..MaxChildRestarts]
    BY DEF Inv, Types, TypeOK
  <2>2. cp \in [Names -> 0..MaxChildRestarts]
    BY <1>2, <2>1, ChargeType
  <2>3. folded \ dropped \in SUBSET Names /\ \A m \in folded \ dropped : ChildAllows(cp, m)
    <3>1. refusing \subseteq specs
      BY <1>2 DEF siblings
    <3>2. ASSUME NEW m \in folded \ dropped PROVE ChildAllows(cp, m)
      <4>1. m \in siblings /\ Mode[m] # "Never" /\ m \notin refusing
        <5>1. m \in siblings /\ Mode[m] # "Never" /\ \A k \in refusing : Position(m) < Position(k)
          BY <3>2 DEF folded, dropped
        <5>2. ASSUME m \in refusing PROVE FALSE
          <6>1. Position(m) < Position(m)
            BY <5>1, <5>2
          <6>2. m \in specs
            BY <3>1, <5>2
          <6>3. \E i \in DOMAIN order : order[i] = m
            BY <6>2 DEF Inv, Types, TypeOK
          <6>4. Position(m) \in DOMAIN order
            BY <6>3 DEF Position
          <6>5. DOMAIN order \subseteq Nat
            BY LenProperties DEF Inv, Types, TypeOK
          <6> QED BY <6>1, <6>4, <6>5
        <5> QED BY <5>1, <5>2
      <4> QED BY <4>1
    <3>3. folded \ dropped \subseteq Names
      BY <1>2, <1>4, <1>5
    <3> QED BY <3>2, <3>3
  <2> QED BY <1>1, <2>2, <2>3, ChargeType DEF Budgets
<1>9. Types
  BY DEF Inv
<1> HIDE DEF s, refusing, cp
<1>10. CASE /\ refusing = {} /\ waiting = {}
            /\ FinishCascade(s, {}, cascadeDrop \cup dropped, restart)
  <2>1. restarting = {} /\ (Working => Members = {}) /\ \A m \in folded : ~Owes(c[m])
    BY <1>2, <1>10 DEF waiting
  <2>2. Working => \A m \in specs : s[m] # "ShuttingDown"
    BY <1>2, <1>3, <1>4, <1>6, <2>1
  <2>3. Working => \A m \in specs : m \in dropped \cup restart
    BY <1>2, <1>5, <1>10, <2>1 DEF restart, Members, siblings
  <2> QED BY <1>2, <1>7, <1>8, <1>9, <1>10, <2>2, <2>3, FinishStep
<1>11. restarting \cup waiting \subseteq specs /\ Members \cup restart \cup dropped \subseteq specs
  BY <1>4, <1>5, <1>9 DEF waiting, restart, Types, Members
<1>12. CASE /\ refusing = {} /\ waiting # {}
            /\ child' = s
            /\ restarting' = waiting /\ cascadeRestart' = restart
            /\ cascadeDrop' = cascadeDrop \cup dropped
            /\ UNCHANGED <<order, specs, status, initializing, exiting>>
  <2>1. TypeOK'
    BY <1>6, <1>7, <1>8, <1>9, <1>12 DEF Types, TypeOK, Budgets, Ready
  <2>2. Working => \A m \in specs : /\ s[m] = "ShuttingDown" <=> m \in waiting
                                    /\ s[m] \in {"Dead", "ShuttingDown"}
    BY <1>2, <1>3, <1>4, <1>5, <1>6, <1>12 DEF waiting
  <2>3. Working => restarting' = {m \in specs' : child'[m] = "ShuttingDown"}
    BY <1>11, <1>12, <2>2
  <2>4. Members' = specs
    <3>1. specs \subseteq {n} \cup siblings \cup cascadeRestart \cup cascadeDrop
      BY DEF siblings
    <3>2. Members' = restart \cup cascadeDrop \cup dropped
      BY <1>12 DEF Members
    <3> QED BY <1>5, <1>11, <1>12, <3>1, <3>2 DEF restart, Members
  <2>5. Working => Members' = {m \in specs' : child'[m] \in {"Dead", "ShuttingDown"}}
    BY <1>12, <2>2, <2>4
  <2>6. Cascade'
    BY <1>2, <1>12, <2>3, <2>5 DEF Cascade, Working
  <2>7. Together
    BY <1>12, <2>2 DEF Together
  <2> QED BY <1>11, <1>12, <2>1, <2>4, <2>6, <2>7 DEF Inv, Types
<1>13. CASE /\ ShutdownAll(s)
            /\ restarting' = waiting /\ cascadeRestart' = restart
            /\ cascadeDrop' = cascadeDrop \cup dropped
  <2>1. restarting' \subseteq specs /\ Members' \subseteq specs
    BY <1>11, <1>13 DEF Members
  <2> QED BY <1>7, <1>8, <1>9, <1>13, <2>1, ShutdownStep
<1> QED BY <1>1, <1>10, <1>12, <1>13

-----------------------------------------------------------------------------
LEMMA GoDownStep ==
  ASSUME Inv, NEW n \in Names, NEW success \in BOOLEAN, GoDown(n, success)
  PROVE  Inv' /\ Together
<1> DEFINE c == [child EXCEPT ![n] = "Dead"]
<1>1. child[n] # "Dead" /\ HandleExit(n, success)
  BY DEF GoDown, GoesDown
<1>2. n \in specs /\ Types /\ Cascade
  BY <1>1 DEF Inv, Types, TypeOK
<1>3. /\ c \in [Names -> ChildStates]
      /\ \A m \in Names : c[m] = IF m = n THEN "Dead" ELSE child[m]
  BY <1>2 DEF Types, TypeOK, ChildStates
<1>4. Ready(c)
  BY <1>2, <1>3 DEF Ready, Types, TypeOK
<1>5. ASSUME UNCHANGED <<permits, childPermits>> PROVE Budgets
  BY <1>2, <1>5 DEF Budgets, Types, TypeOK
<1>6. ASSUME n \in exiting, exiting' = exiting \ {n},
             status' = IF exiting' = {} THEN "Exited" ELSE status, child' = c,
             UNCHANGED <<order, specs, initializing, permits, childPermits, cascadeVars>>
      PROVE  Inv' /\ Together
  <2>1. ~Working /\ ~Working'
    BY <1>2, <1>6 DEF Cascade, Working
  <2>2. TypeOK'
    BY <1>2, <1>3, <1>4, <1>6 DEF Types, TypeOK, Ready
  <2> QED BY <1>2, <1>6, <2>1, <2>2 DEF Inv, Types, Cascade, Together, Members, cascadeVars
<1>7. ASSUME restarting = {n}, UNCHANGED <<permits, childPermits>>,
             FinishCascade(c, {}, cascadeDrop, cascadeRestart)
      PROVE  Inv' /\ Together
  <2>1. specs \subseteq Names
    BY <1>2 DEF Types, TypeOK
  <2>2. Working => /\ exiting = {}
                   /\ \A m \in specs \ {} :
                        /\ c[m] # "ShuttingDown"
                        /\ c[m] = "Dead" => m \in cascadeDrop \cup cascadeRestart
    BY <1>2, <1>3, <1>7, <2>1 DEF Cascade, Members
  <2> QED BY <1>2, <1>4, <1>5, <1>7, <2>2, FinishStep
<1>8. ASSUME n \in restarting, restarting # {n}, restarting' = restarting \ {n}, child' = c,
             UNCHANGED <<order, specs, status, initializing, exiting, cascadeRestart,
                         cascadeDrop, permits, childPermits>>
      PROVE  Inv' /\ Together
  <2>1. TypeOK'
    BY <1>2, <1>3, <1>4, <1>8 DEF Types, TypeOK, Ready
  <2>2. specs \subseteq Names
    BY <1>2 DEF Types, TypeOK
  <2>3. Members' = Members
    BY <1>8 DEF Members
  <2>4. Cascade'
    <3> SUFFICES ASSUME Working
                 PROVE  /\ exiting = {}
                        /\ restarting' = {m \in specs : c[m] = "ShuttingDown"}
                        /\ Members = {m \in specs : c[m] \in {"Dead", "ShuttingDown"}}
                        /\ restarting' # {}
      BY <1>8, <2>3 DEF Cascade, Working
    <3>1. /\ exiting = {}
          /\ restarting = {m \in specs : child[m] = "ShuttingDown"}
          /\ Members = {m \in specs : child[m] \in {"Dead", "ShuttingDown"}}
      BY <1>2 DEF Cascade
    <3>2. restarting' # {}
      BY <1>8
    <3> QED BY <1>3, <1>8, <2>2, <3>1, <3>2
  <2>5. Together
    BY <1>3, <1>8, <2>2 DEF Together
  <2> QED BY <1>2, <1>8, <2>1, <2>3, <2>4, <2>5 DEF Inv, Types
<1>9. ASSUME RemoveSpec(c, n), UNCHANGED <<permits, childPermits>> PROVE Inv' /\ Together
  BY <1>2, <1>3, <1>4, <1>5, <1>9, RemoveStep
<1>10. ASSUME n \notin exiting \cup restarting, TakeSupervisorPermit, Allowed(n),
              StartCascade(c, n)
       PROVE  Inv' /\ Together
  <2>1. permits' \in 0..MaxRestarts
    BY <1>2, <1>10, PermitType DEF Types, TypeOK
  <2>2. Working => child[n] \notin {"Dead", "ShuttingDown"}
    BY <1>1, <1>2, <1>10 DEF Cascade
  <2> QED BY <1>2, <1>10, <2>1, <2>2, StartStep DEF Allowed
<1>11. ASSUME TakeSupervisorPermit, ShutdownAll(c), UNCHANGED <<childPermits, cascadeVars>>
       PROVE  Inv' /\ Together
  <2>1. Budgets
    BY <1>2, <1>11, PermitType DEF Types, TypeOK, Budgets
  <2>2. restarting' \subseteq specs /\ Members' \subseteq specs
    BY <1>2, <1>11 DEF Types, Members, cascadeVars
  <2> QED BY <1>2, <1>4, <1>11, <2>1, <2>2, ShutdownStep
<1> QED BY <1>1, <1>6, <1>7, <1>8, <1>9, <1>10, <1>11 DEF HandleExit

LEMMA Step ==
  ASSUME Inv, [Next]_vars
  PROVE  Inv' /\ Together
<1> USE DEF vars, superVars, cascadeVars
<1>0. TypeOK /\ Types /\ Cascade /\ specs \subseteq Names
  BY DEF Inv, Types, TypeOK
<1>1. ASSUME UNCHANGED <<specs, status, exiting, child, cascadeVars>>, TypeOK'
      PROVE  Inv' /\ Together
  BY <1>0, <1>1 DEF Inv, Types, Cascade, Members, Working, Together
<1>2. CASE UNCHANGED vars
  BY <1>0, <1>1, <1>2 DEF TypeOK
<1>3. CASE WindowPasses /\ UNCHANGED cascadeVars
  <2>1. /\ permits' \in 0..MaxRestarts
        /\ childPermits' \in [Names -> 0..MaxChildRestarts]
        /\ UNCHANGED <<order, specs, child, status, initializing, exiting>>
    BY <1>0, <1>3, WindowType
  <2> QED BY <1>0, <1>1, <1>3, <2>1 DEF TypeOK
<1>4. ASSUME UNCHANGED <<permits, childPermits>> PROVE Ready(child) /\ Budgets
  BY <1>0, <1>4 DEF TypeOK, Ready, Budgets
<1>5. CASE ShutdownSignal
  <2>1. restarting' \subseteq specs /\ Members' \subseteq specs
    BY <1>0, <1>5 DEF ShutdownSignal, Types, Members
  <2> QED BY <1>0, <1>4, <1>5, <2>1, ShutdownStep DEF ShutdownSignal
<1>6. ASSUME NEW n \in Names, Deregister(n) PROVE Inv' /\ Together
  BY <1>0, <1>4, <1>6, RemoveStep DEF Deregister
<1>7. ASSUME NEW n \in Names, Register(n), UNCHANGED cascadeVars PROVE Inv' /\ Together
  <2>1. /\ TypeOK' /\ Working /\ n \notin specs /\ specs' = specs \cup {n}
        /\ \A m \in Names : child'[m] = IF m = n THEN "Starting" ELSE child[m]
        /\ UNCHANGED <<status, initializing, exiting>>
    BY <1>0, <1>7, RegisterType
  <2>2. Members' = Members /\ restarting' = restarting
    BY <1>7 DEF Members
  <2>3. \A m \in specs : child'[m] = child[m] /\ m # n
    BY <1>0, <2>1
  <2>4. child'[n] = "Starting"
    BY <2>1
  <2>5. /\ {m \in specs' : child'[m] = "ShuttingDown"} = {m \in specs : child[m] = "ShuttingDown"}
        /\ {m \in specs' : child'[m] \in {"Dead", "ShuttingDown"}} =
             {m \in specs : child[m] \in {"Dead", "ShuttingDown"}}
    BY <2>1, <2>3, <2>4
  <2>6. Cascade'
    BY <1>0, <2>1, <2>2, <2>5 DEF Cascade, Working
  <2>7. Together
    BY <2>3 DEF Together
  <2> QED BY <1>0, <2>1, <2>2, <2>6, <2>7 DEF Inv, Types
<1>8. ASSUME NEW n \in Names, (Started(n) /\ UNCHANGED cascadeVars) \/ Initialized(n)
      PROVE  Inv' /\ Together
  <2>1. /\ child[n] \in {"Starting", "Initializing"}
        /\ UNCHANGED <<order, specs, exiting, permits, childPermits, cascadeVars>>
        /\ initializing' \subseteq initializing
        /\ \E s \in {"Initializing", "Alive"} : child' = [child EXCEPT ![n] = s]
    BY <1>8 DEF Started, Initialized, HandleInitialized
  <2>2. status' = status \/ (status = "Initializing" /\ status' = "Running")
    BY <1>8 DEF Started, Initialized, HandleInitialized, StatusOnceInitialized
  <2>3. /\ child' \in [Names -> ChildStates]
        /\ child'[n] \in {"Initializing", "Alive"}
        /\ \A m \in Names : m # n => child'[m] = child[m]
    BY <1>0, <2>1 DEF TypeOK, ChildStates
  <2>4. TypeOK'
    BY <1>0, <2>1, <2>2, <2>3 DEF TypeOK
  <2>5. /\ {m \in specs' : child'[m] = "ShuttingDown"} = {m \in specs : child[m] = "ShuttingDown"}
        /\ {m \in specs' : child'[m] \in {"Dead", "ShuttingDown"}} =
             {m \in specs : child[m] \in {"Dead", "ShuttingDown"}}
    BY <1>0, <2>1, <2>3
  <2>6. Working' => Working
    BY <2>2 DEF Working
  <2>7. Cascade'
    BY <1>0, <2>1, <2>5, <2>6 DEF Cascade, Members
  <2>8. Together
    BY <1>0, <2>1, <2>3 DEF Together
  <2> QED BY <1>0, <2>1, <2>4, <2>7, <2>8 DEF Inv, Types, Members
<1> QED BY <1>2, <1>3, <1>5, <1>6, <1>7, <1>8, GoDownStep DEF Next

LEMMA Invariance == Spec => []Inv
<1>1. AllInit => Inv
  <2> SUFFICES ASSUME AllInit PROVE Inv
    OBVIOUS
  <2>1. TypeOK
    BY InitType DEF AllInit
  <2>2. \A n \in specs : child[n] = "Starting"
    BY <2>1 DEF AllInit, Init, TypeOK
  <2> QED BY <2>1, <2>2 DEF AllInit, Init, Inv, Types, Cascade, Members, Working
<1>2. Inv /\ [Next]_vars => Inv'
  BY Step
<1> QED BY <1>1, <1>2, PTL DEF Spec

-----------------------------------------------------------------------------
(* The refinement.  A member that is deregistered while the supervisor is  *)
(* exiting may be the last one a cascade waited for, whose others are then *)
(* started: the rest of the proof is about a supervisor without that.      *)

\* Of a supervisor that is exiting, whoever is up was told to stop and is waited
\* for, and nobody is up when it has exited.
Leaving ==
  /\ status = "Exiting" => \A n \in specs : child[n] # "Dead" =>
                             n \in exiting /\ child[n] = "ShuttingDown"
  /\ status = "Exited" => \A n \in specs : child[n] = "Dead"
  /\ status # "Panicked"

Abstract == [Group!Next]_Group!groupVars

\* ShutdownAll waits for everyone who is still up, and starts nobody.
LEMMA ShutdownLeaves ==
  ASSUME Types, ~Stopped, status # "Panicked", NEW c, Ready(c), ShutdownAll(c),
         \A n \in Names : c[n] # "Dead" => child[n] # "Dead"
  PROVE  Leaving' /\ Abstract
<1> DEFINE owing == exiting \cup {n \in specs : Owes(c[n])}
<1>1. /\ child' = Stop(c, specs) /\ exiting' = owing /\ specs' = specs
      /\ status' = IF owing = {} THEN "Exited" ELSE "Exiting"
  BY DEF ShutdownAll
<1>2. /\ specs \subseteq Names
      /\ \A n \in Names : child'[n] = IF n \in specs THEN StopState(c[n]) ELSE c[n]
  BY <1>1 DEF Types, TypeOK, Stop
<1>3. \A n \in specs : /\ child'[n] \in {"Dead", "ShuttingDown"}
                       /\ child'[n] = "ShuttingDown" => n \in owing
  BY <1>2, StopStates DEF Ready
<1>4. \A n \in Names \ specs : child'[n] = "Dead"
  BY <1>2 DEF Ready
<1>5. Up' \subseteq Up
  BY <1>2 DEF Ready, Up, StopState
<1>6. Leaving' /\ (status' = "Exited" => Up' = {})
  BY <1>1, <1>3, <1>4 DEF Leaving, Up
<1>7. status \in {"Initializing", "Running", "Exiting"}
  BY DEF Types, TypeOK, Stopped
<1> QED BY <1>1, <1>5, <1>6, <1>7
        DEF Abstract, Group!Next, Group!BeginExit, Group!Lose, Group!Exit, Group!Working

\* A handler that leaves the status alone belongs to a supervisor that works.
LEMMA WorkingChanges ==
  ASSUME Working, \/ status' = status
                  \/ status = "Initializing" /\ status' = "Running"
  PROVE  Leaving' /\ Abstract
  BY DEF Working, Leaving, Up, Abstract, Group!Next, Group!Change, Group!Working

LEMMA LeavingStep ==
  ASSUME Removable = {}, Inv, Leaving, [Next]_vars
  PROVE  Leaving' /\ Abstract
<1>1. /\ Types /\ specs \subseteq Names /\ child \in [Names -> ChildStates]
      /\ \A n \in Names \ specs : child[n] = "Dead"
      /\ status \in {"Initializing", "Running", "Exiting", "Exited", "Panicked"}
  BY DEF Inv, Types, TypeOK
<1>2. ASSUME UNCHANGED <<specs, child, status, exiting>> PROVE Leaving' /\ Abstract
  BY <1>2 DEF Leaving, Up, Abstract, Group!groupVars
<1>3. CASE ShutdownSignal
  <2>1. Ready(child)
    BY <1>1 DEF Ready
  <2> QED BY <1>1, <1>3, <2>1, ShutdownLeaves DEF ShutdownSignal, Leaving
<1>4. ASSUME NEW n \in Names, Register(n) PROVE Leaving' /\ Abstract
  BY <1>4, WorkingChanges DEF Register, MayRegister
<1>5. ASSUME NEW n \in Names, Started(n) \/ Initialized(n) PROVE Leaving' /\ Abstract
  <2>1. ~Stopped /\ child[n] \in {"Starting", "Initializing"} /\ n \in specs
    BY <1>1, <1>5 DEF Started, Initialized
  <2>2. Working
    BY <1>1, <2>1 DEF Leaving, Stopped, Working
  <2>3. status' = status \/ (status = "Initializing" /\ status' = "Running")
    BY <1>5 DEF Started, Initialized, HandleInitialized, StatusOnceInitialized
  <2> QED BY <2>2, <2>3, WorkingChanges
<1>6. ASSUME NEW n \in Names, NEW success \in BOOLEAN, GoDown(n, success)
      PROVE  Leaving' /\ Abstract
  <2> DEFINE c == [child EXCEPT ![n] = "Dead"]
  <2>1. ~Stopped /\ child[n] # "Dead" /\ HandleExit(n, success) /\ n \in specs
    BY <1>1, <1>6 DEF GoDown, GoesDown
  <2>2. /\ c \in [Names -> ChildStates]
        /\ \A m \in Names : c[m] = IF m = n THEN "Dead" ELSE child[m]
    BY <1>1 DEF ChildStates
  <2>3. Ready(c)
    BY <1>1, <2>2 DEF Ready
  <2> HIDE DEF c
  <2>4. CASE /\ n \in exiting /\ exiting' = exiting \ {n} /\ child' = c
             /\ status' = IF exiting' = {} THEN "Exited" ELSE status
             /\ UNCHANGED specs
    <3>1. status = "Exiting"
      BY <1>1, <2>1, <2>4 DEF Inv, Cascade, Stopped, Working
    <3>2. Up' \subseteq Up
      BY <2>2, <2>4 DEF Up
    <3>3. Leaving'
      BY <1>1, <2>2, <2>4, <3>1 DEF Leaving
    <3>4. status' = "Exited" => Up' = {}
      BY <1>1, <2>3, <2>4, <3>3 DEF Leaving, Ready, Up
    <3> QED BY <2>4, <3>1, <3>2, <3>3, <3>4 DEF Abstract, Group!Next, Group!Lose, Group!Exit
  <2>5. n \notin exiting => Working
    BY <1>1, <2>1 DEF Leaving, Stopped, Working
  <2>6. CASE n \notin exiting /\ status' = status
    BY <2>5, <2>6, WorkingChanges
  <2>7. CASE ShutdownAll(c)
    BY <1>1, <2>1, <2>2, <2>3, <2>7, ShutdownLeaves DEF Leaving
  <2>8. ASSUME NEW folded \in SUBSET specs, ShutdownAll(Stop(c, folded))
        PROVE  Leaving' /\ Abstract
    <3>1. \A m \in Names : Stop(c, folded)[m] = IF m \in folded THEN StopState(c[m]) ELSE c[m]
      BY DEF Stop
    <3>2. Stop(c, folded) \in [Names -> ChildStates]
      <4>1. \A m \in Names : StopState(c[m]) \in ChildStates
        BY <2>2, StopStates DEF ChildStates
      <4> QED BY <2>2, <4>1 DEF Stop
    <3>3. Ready(Stop(c, folded))
      BY <1>1, <2>3, <3>1, <3>2 DEF Ready
    <3>4. \A m \in Names : Stop(c, folded)[m] # "Dead" => child[m] # "Dead"
      BY <2>2, <3>1 DEF StopState
    <3> QED BY <1>1, <2>1, <2>8, <3>3, <3>4, ShutdownLeaves DEF Leaving
  <2>9. CASE n \notin exiting /\ StartCascade(c, n)
    <3> DEFINE cp == Charge(childPermits, {n})
               siblings == (specs \ {n}) \ (cascadeRestart \cup cascadeDrop)
               refusing == {m \in siblings : Mode[m] # "Never" /\ ~ChildAllows(cp, m)}
               folded == {m \in siblings : \A k \in refusing : Position(m) < Position(k)}
    <3>1. status' = status \/ ShutdownAll(Stop(c, folded))
      BY <2>9 DEF StartCascade, FinishCascade
    <3>2. folded \in SUBSET specs
      OBVIOUS
    <3> HIDE DEF folded
    <3> QED BY <2>6, <2>8, <2>9, <3>1, <3>2
  <2>10. CASE n \notin exiting /\ RemoveSpec(c, n)
    BY <2>6, <2>10 DEF RemoveSpec, FinishCascade, Forget
  <2>11. CASE n \notin exiting /\ FinishCascade(c, {}, cascadeDrop, cascadeRestart)
    BY <2>6, <2>11 DEF FinishCascade
  <2> QED BY <2>1, <2>4, <2>6, <2>7, <2>9, <2>10, <2>11 DEF HandleExit, c
<1>7. \A n \in Names : ~Deregister(n)
  BY DEF Deregister
<1> QED BY <1>2, <1>3, <1>4, <1>5, <1>6, <1>7
        DEF Next, WindowPasses, vars, superVars

-----------------------------------------------------------------------------
\* Every variable keeps its type, and both budgets are never exceeded.
THEOREM TypeCorrect == Spec => []TypeOK
<1>1. Inv => TypeOK
  BY DEF Inv, Types
<1> QED BY <1>1, Invariance, PTL

\* start_cascade, handle_exit and remove_spec keep what a cascade waits for in
\* step with who was told to stop.
THEOREM CascadeWaitsForTheStopped == Spec => []WaitsForTheStopped
<1>1. Inv => WaitsForTheStopped
  BY DEF Inv, Cascade, WaitsForTheStopped
<1> QED BY <1>1, Invariance, PTL

\* finish_cascade leaves nobody down, however often a cascade was joined, cut short
\* or widened on its way.
THEOREM CascadeLeavesNoneDead == Spec => []NoneLeftDead
<1>1. Inv => NoneLeftDead
  BY DEF Inv, Cascade, NoneLeftDead
<1> QED BY <1>1, Invariance, PTL

\* finish_cascade starts nobody next to one who has still to exit.
THEOREM GroupRestartsTogether == Spec => AllExitBeforeAnyRestart
<1>1. Inv /\ [Next]_vars => [Together]_vars
  BY Step
<1> QED BY <1>1, Invariance, PTL DEF Spec, AllExitBeforeAnyRestart, Together

\* Without deregistration the one-for-all supervisor implements the abstract
\* group: whatever a cascade was about when the shutdown began, nobody is
\* started once the supervisor is exiting, and when it exits nobody is up.
THEOREM CascadesStayWithinTheGroup ==
  ASSUME Removable = {}
  PROVE  Spec => IsSupervisedGroup
<1>1. AllInit => Group!Init /\ Leaving
  BY DEF AllInit, Init, Group!Init, Up, Leaving
<1>2. Inv /\ Leaving /\ [Next]_vars => Leaving' /\ [Group!Next]_Group!groupVars
  BY LeavingStep DEF Abstract
<1>3. Spec => []Leaving
  BY <1>1, <1>2, Invariance, PTL DEF Spec
<1> QED BY <1>1, <1>2, <1>3, Invariance, PTL DEF Spec, IsSupervisedGroup, Group!Spec
=============================================================================
