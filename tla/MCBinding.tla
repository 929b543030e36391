----------------------------- MODULE MCBinding -----------------------------
(***************************************************************************)
(* Instances of Binding for TLC.                                           *)
(***************************************************************************)
EXTENDS Binding, TLC

CONSTANTS c1, c2

TwoConsumers == {c1, c2}
Symmetry == Permutations(TwoConsumers) \cup Permutations(Ids)
=============================================================================
