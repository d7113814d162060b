------------------------------- MODULE MCNode -------------------------------
(* Three specs, one of which the blueprint has as well.                    *)
EXTENDS Node
=============================================================================
