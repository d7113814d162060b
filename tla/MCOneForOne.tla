---------------------------- MODULE MCOneForOne ----------------------------
(***************************************************************************)
(* Small instances of OneForOne.                                           *)
(***************************************************************************)
EXTENDS OneForOne, TLC

CONSTANTS k1, k2, k3

TwoChildren   == <<k1, k2>>
ThreeChildren == <<k1, k2, k3>>

\* One child of each restart mode.
Mixed   == (k1 :> "Always") @@ (k2 :> "OnError") @@ (k3 :> "Never")
OnErrorMode == [n \in Names |-> "OnError"]
=============================================================================
