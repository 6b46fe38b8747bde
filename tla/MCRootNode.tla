----------------------------- MODULE MCRootNode ------------------------------
(* Two controllers; each works on a node of its own. *)
EXTENDS RootNode, TLC

CONSTANTS n1, n2, ui, script

MCOwner == n1 :> ui @@ n2 :> script
==============================================================================
