----------------------------- MODULE MCPeering -----------------------------
(***************************************************************************)
(* Instances of Peering for TLC.                                           *)
(***************************************************************************)
EXTENDS Peering, TLC

\* Nothing tells one installation, or one worker, from another.
Symmetry == Permutations(Nodes) \cup Permutations(Workers)
=============================================================================
