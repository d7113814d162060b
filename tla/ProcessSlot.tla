----------------------------- MODULE ProcessSlot -----------------------------
(***************************************************************************)
(* What a channel promises to those who watch it: there is one slot, a     *)
(* process is put into it only while it is empty, the status changes only  *)
(* along the lifecycle while the process is in it, and it says Exited      *)
(* exactly while the slot is empty.                                        *)
(***************************************************************************)
CONSTANT Runs

VARIABLES status, processes

slotVars == <<status, processes>>

Init == status = "Exited" /\ processes = {}

\* A process is spawned into the empty slot.
Spawn(r) ==
  /\ status = "Exited" /\ processes = {}
  /\ status' = "Initializing" /\ processes' = {r}

\* The process in the slot moves on.
Move(from, to) ==
  /\ processes # {} /\ status = from
  /\ status' = to
  /\ UNCHANGED processes

Initialize == Move("Initializing", "Running")
Suspend    == Move("Running", "Suspended")
Resume     == Move("Suspended", "Running")
BeginExit  == \E from \in {"Initializing", "Running", "Suspended"} :
                Move(from, "Exiting")

\* The process leaves, whatever it was doing.
Exit ==
  /\ processes # {} /\ status # "Exited"
  /\ status' = "Exited" /\ processes' = {}

Next ==
  \/ \E r \in Runs : Spawn(r)
  \/ Initialize \/ Suspend \/ Resume \/ BeginExit \/ Exit

Spec == Init /\ [][Next]_slotVars
==============================================================================
