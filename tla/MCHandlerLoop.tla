---------------------------- MODULE MCHandlerLoop ----------------------------
(* Three families of behaviours: references, handles and names come and go  *)
(* around a handler that is left alone; one handler is kept busy with       *)
(* messages, signals and scheduled futures; a channel is spawned on twice.  *)
EXTENDS HandlerLoop

CONSTANTS c1, c2, u1, u2, m1, m2

Families ==
  { [users |-> {u1, u2}, channels |-> {c1, c2}, spawns |-> 1, signals |-> 0,
     msgs |-> {}, scheduled |-> 0, handles |-> TRUE],
    [users |-> {u1}, channels |-> {c1}, spawns |-> 1, signals |-> 2,
     msgs |-> {m1, m2}, scheduled |-> 1, handles |-> FALSE],
    [users |-> {u1}, channels |-> {c1}, spawns |-> 2, signals |-> 1,
     msgs |-> {m1}, scheduled |-> 0, handles |-> FALSE] }
==============================================================================
