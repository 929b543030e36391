-------------------------------- MODULE Engine --------------------------------
(***************************************************************************)
(* The planner of internal/engine/engine.go: what has to happen to one     *)
(* path, given both installations' entries for it, and the safety limit    *)
(* on the number of deletions in a plan (internal/guard/guard.go).         *)
(*                                                                         *)
(* "left" is always the cycle's initiator, which by localInitiatesCycle is *)
(* the installation with the smaller fingerprint, so resolveConflict       *)
(* always declares it the winner and the responder the loser.              *)
(***************************************************************************)
EXTENDS FolderIndex, FiniteSets

CONSTANTS Initiator,        \* the installation with the smaller fingerprint
          Responder,        \* its peer for this folder
          NoPeer,           \* the empty Source of a merge and of a conflict
          DeleteFloor,      \* deletions any plan may hold (10 in the code)
          DeletePercent     \* and the share of the folder's paths (20)

ASSUME EngineAssumption ==
  /\ Initiator # Responder /\ Peers = {Initiator, Responder}
  /\ NoPeer \notin Peers
  /\ DeleteFloor \in Nat /\ DeletePercent \in Nat

Kinds == {"none", "push", "pull", "delete", "resurrect", "merge", "conflict"}
Action == [kind : Kinds, source : Peers \cup {NoPeer}, vector : Version]

Planned(kind, source, v) == [kind |-> kind, source |-> source, vector |-> v]

OneSidedAction(source, entry, contentKind) ==
  Planned(IF entry.deleted THEN "delete" ELSE contentKind, source, entry.version)

\* Slip: a deletion concurrent with a modification is merged like two of a kind.
ConcurrentMergesAll(left, right) ==
  Planned(IF ~left.deleted /\ ~right.deleted /\ left.hash # right.hash
          THEN "conflict" ELSE "merge", NoPeer, Merge(left.version, right.version))

ConcurrentAction(left, right) ==
  LET merged == Merge(left.version, right.version) IN
  CASE left.deleted /\ right.deleted   -> Planned("merge", NoPeer, merged)
    [] left.deleted /\ ~right.deleted  -> Planned("resurrect", Responder, merged)
    [] ~left.deleted /\ right.deleted  -> Planned("resurrect", Initiator, merged)
    [] ~left.deleted /\ ~right.deleted /\ left.hash = right.hash
                                       -> Planned("merge", NoPeer, merged)
    [] OTHER                           -> Planned("conflict", NoPeer, merged)

Decide(left, right) ==
  CASE Compare(left.version, right.version) = "equal"
         -> Planned("none", NoPeer, left.version)
    [] Compare(left.version, right.version) = "greater"
         -> OneSidedAction(Initiator, left, "push")
    [] Compare(left.version, right.version) = "lesser"
         -> OneSidedAction(Responder, right, "pull")
    [] OTHER -> ConcurrentAction(left, right)

\* DeleteThreshold: the ceiling of the share, but never less than the floor.
DeleteLimit(total) ==
  LET share == (DeletePercent * total + 99) \div 100
  IN  IF share > DeleteFloor THEN share ELSE DeleteFloor

\* Slip: halts one deletion late.
HaltedLate(left, right) ==
  LET known   == {x \in Paths : left[x] # Absent \/ right[x] # Absent}
      deletes == {x \in Paths : Decide(left[x], right[x]).kind = "delete"}
  IN  Cardinality(deletes) > DeleteLimit(Cardinality(known)) + 1

Halted(left, right) ==
  LET known   == {x \in Paths : left[x] # Absent \/ right[x] # Absent}
      deletes == {x \in Paths : Decide(left[x], right[x]).kind = "delete"}
  IN  Cardinality(deletes) > DeleteLimit(Cardinality(known))
==============================================================================
