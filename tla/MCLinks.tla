------------------------------ MODULE MCLinks ------------------------------
(***************************************************************************)
(* Small instances of Links, of two nodes.                                 *)
(***************************************************************************)
EXTENDS Links

\* Two lanes from one node, which share the health of the peer and the dialing
\* of it, and one of them back.
ThreeLanes == {<<1, 2, "actors", 1>>, <<1, 2, "gossip", 1>>, <<2, 1, "actors", 1>>}
ActorLanes == {l \in Lanes : l[3] = "actors"}

Budget(there, gossip, back) ==
  [k \in Keys |-> IF k[1] = 2 THEN back ELSE IF k[3] = "actors" THEN there ELSE gossip]

\* Both nodes dial, two lanes dial, or one lane reports a change.
Budgets == {Budget(1, 0, 1), Budget(1, 1, 0), Budget(0, 0, 3)}
=============================================================================
