---------------------------- MODULE VersionVector ----------------------------
(***************************************************************************)
(* The version vectors of internal/vector/vector.go: one counter per       *)
(* installation, a missing counter read as zero.  A Go map with missing    *)
(* keys and a TLA+ function that is total on Peers hold the same           *)
(* information under that reading, so a vector is a function here.         *)
(***************************************************************************)
EXTENDS Naturals

CONSTANT Peers          \* installation fingerprints

Version == [Peers -> Nat]

ZeroVersion == [p \in Peers |-> 0]

\* v counts a change of some installation that w does not count.
AheadSomewhere(v, w) == \E p \in Peers : v[p] > w[p]

Compare(v, w) ==
  CASE ~AheadSomewhere(v, w) /\ ~AheadSomewhere(w, v) -> "equal"
    [] AheadSomewhere(v, w)  /\ ~AheadSomewhere(w, v) -> "greater"
    [] ~AheadSomewhere(v, w) /\ AheadSomewhere(w, v)  -> "lesser"
    [] OTHER                                          -> "concurrent"

\* Everything v counts, w counts too.
Leq(v, w) == \A p \in Peers : v[p] <= w[p]

\* Slip: the second vector alone.
MergeKeepsSecond(v, w) == [p \in Peers |-> w[p]]

Merge(v, w) == [p \in Peers |-> IF w[p] > v[p] THEN w[p] ELSE v[p]]

Increment(v, p) == [v EXCEPT ![p] = @ + 1]
==============================================================================
