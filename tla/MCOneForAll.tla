---------------------------- MODULE MCOneForAll ----------------------------
(***************************************************************************)
(* Small instances of OneForAll.                                           *)
(***************************************************************************)
EXTENDS OneForAll, TLC

CONSTANTS k1, k2, k3

ThreeChildren == <<k1, k2, k3>>

\* One child of each restart mode.
Mixed == (k1 :> "Always") @@ (k2 :> "OnError") @@ (k3 :> "Never")
=============================================================================
