--------------------------- MODULE SupervisedGroup ---------------------------
(***************************************************************************)
(* What every supervision strategy promises to the supervisor's own parent *)
(* and children: children come and go while the supervisor works; once it  *)
(* is exiting they only go; and it exits when the last of them is gone, so *)
(* that none is killed by its Child being dropped.                         *)
(***************************************************************************)
CONSTANT Names

VARIABLES status, up   \* the names with a process, or one being started

groupVars == <<status, up>>

Init == status = "Initializing" /\ up \subseteq Names

Working == status \in {"Initializing", "Running"}

\* Children exit, are restarted, registered and deregistered.
Change ==
  /\ Working
  /\ \/ UNCHANGED status
     \/ status = "Initializing" /\ status' = "Running"
  /\ up' \subseteq Names

\* The supervisor is told to shut down, or ran out of its restart budget.
BeginExit ==
  /\ Working /\ status' = "Exiting"
  /\ up' \subseteq up

Lose ==
  /\ status = "Exiting" /\ UNCHANGED status
  /\ up' \subseteq up

Exit ==
  /\ status # "Exited" /\ status' = "Exited"
  /\ up' = {}

Next == Change \/ BeginExit \/ Lose \/ Exit

Spec == Init /\ [][Next]_groupVars
==============================================================================
