---------------------------- MODULE MCRestForOne ----------------------------
(***************************************************************************)
(* Small instances of RestForOne.                                          *)
(***************************************************************************)
EXTENDS RestForOne, TLC

CONSTANTS k1, k2, k3, k4

FourChildren == <<k1, k2, k3, k4>>

\* Children of each restart mode; the first of them may come again.
Mixed == (k1 :> "Always") @@ (k2 :> "Never") @@ (k3 :> "OnError") @@ (k4 :> "Never")

\* Bound: a trigger that is deregistered, registered and down again may join a
\* cascade any number of times, while the cascade waits.
Gathered == Len(cascade.toRestart) <= 4
=============================================================================
