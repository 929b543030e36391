--------------------------- MODULE FolderSyncProofs ---------------------------
(***************************************************************************)
(* Theorems about FolderSync that hold for any number of paths, contents,  *)
(* edits, faults and cycles.  TypeOK is not inductive alone: a conflict's  *)
(* copies are well typed because the plan that led to them was a conflict  *)
(* of two files, and PlanKept says that it still is.                       *)
(***************************************************************************)
EXTENDS FolderSync, FolderIndexProofs

-------------------------------------------------------------------------------
(* The planner, for all entries. *)

\* The planner's answer to two entries: a vector that counts all that either
\* counts; a file to send, or a winner and a loser, only where there is one; a
\* merge only of entries that both exist.
THEOREM DecideSound ==
  ASSUME NEW left \in Entry, NEW right \in Entry
  PROVE  LET a == Decide(left, right) IN
         /\ a \in Action
         /\ Leq(left.version, a.vector) /\ Leq(right.version, a.vector)
         /\ a.kind \in {"push", "resurrect"} /\ a.source = Initiator => IsLive(left)
         /\ a.kind \in {"pull", "resurrect"} /\ a.source = Responder => IsLive(right)
         /\ a.kind = "conflict" => IsLive(left) /\ IsLive(right)
         /\ a.kind = "merge" => left # Absent /\ right # Absent
<1>. DEFINE v == left.version
            w == right.version
            merged == Merge(v, w)
<1>1. /\ v \in Version /\ w \in Version
      /\ left.deleted \in BOOLEAN /\ right.deleted \in BOOLEAN
  BY EntryFields
<1>2. Leq(v, v) /\ Leq(w, w)
  BY <1>1, LeqReflexive
<1>3. /\ merged \in Version
      /\ Leq(v, merged) /\ Leq(w, merged)
  BY <1>1, MergeIsLeastUpperBound
<1>4. Absent.version = ZeroVersion
  BY DEF Absent
<1>5. /\ IsLive(left) \/ left.deleted \/ left = Absent
      /\ IsLive(right) \/ right.deleted \/ right = Absent
  BY EntryFields
<1>6. Initiator \in Peers /\ Responder \in Peers /\ Initiator # Responder
      /\ Initiator # NoPeer /\ Responder # NoPeer
  BY EngineAssumption
<1>7. CASE Compare(v, w) = "equal"
  <2>1. v = w
    BY <1>1, <1>7, CompareDecidesOrder
  <2>2. Decide(left, right) = Planned("none", NoPeer, v)
    BY <1>7 DEF Decide
  <2>. QED BY <1>1, <1>2, <2>1, <2>2 DEF Planned, Action, Kinds
<1>8. CASE Compare(v, w) = "greater"
  <2>1. Leq(w, v) /\ v # w
    BY <1>1, <1>8, CompareDecidesOrder
  <2>2. left # Absent
    <3>1. SUFFICES ASSUME left = Absent PROVE FALSE
      OBVIOUS
    <3>2. v = ZeroVersion
      BY <1>4, <3>1
    <3>3. Compare(v, w) # "greater"
      <4>1. Leq(v, w)
        BY <1>1, <3>2, ZeroIsLeast
      <4>2. v = w
        <5>1. Compare(v, w) = "equal" \/ Compare(v, w) = "lesser"
          BY <1>1, <4>1, CompareDecidesOrder
        <5>. QED BY <5>1, <1>8
      <4>. QED BY <4>2, <2>1
    <3>. QED BY <3>3, <1>8
  <2>3. Decide(left, right) = Planned(IF left.deleted THEN "delete" ELSE "push", Initiator, v)
    BY <1>8 DEF Decide, OneSidedAction
  <2>. QED BY <1>1, <1>2, <1>5, <1>6, <2>1, <2>2, <2>3 DEF Planned, Action, Kinds
<1>9. CASE Compare(v, w) = "lesser"
  <2>1. Leq(v, w) /\ v # w
    BY <1>1, <1>9, CompareDecidesOrder
  <2>2. right # Absent
    <3>1. SUFFICES ASSUME right = Absent PROVE FALSE
      OBVIOUS
    <3>2. Leq(w, v)
      BY <1>1, <1>4, <3>1, ZeroIsLeast
    <3>3. Compare(v, w) = "greater"
      BY <1>1, <2>1, <3>2, CompareDecidesOrder
    <3>. QED BY <3>3, <1>9
  <2>3. Decide(left, right) = Planned(IF right.deleted THEN "delete" ELSE "pull", Responder, w)
    BY <1>9 DEF Decide, OneSidedAction
  <2>. QED BY <1>1, <1>2, <1>5, <1>6, <2>1, <2>2, <2>3 DEF Planned, Action, Kinds
<1>10. CASE Compare(v, w) = "concurrent"
  <2>1. ~Leq(v, w) /\ ~Leq(w, v)
    BY <1>1, <1>10, CompareDecidesOrder
  <2>2. left # Absent /\ right # Absent
    BY <1>1, <1>4, <2>1, ZeroIsLeast
  <2>3. Decide(left, right) = ConcurrentAction(left, right)
    BY <1>10 DEF Decide
  <2>4. CASE left.deleted /\ right.deleted
    <3>1. ConcurrentAction(left, right) = Planned("merge", NoPeer, merged)
      BY <2>4 DEF ConcurrentAction
    <3>. QED BY <1>3, <2>2, <2>3, <3>1 DEF Planned, Action, Kinds
  <2>5. CASE left.deleted /\ ~right.deleted
    <3>1. ConcurrentAction(left, right) = Planned("resurrect", Responder, merged)
      BY <2>5 DEF ConcurrentAction
    <3>. QED BY <1>3, <1>5, <1>6, <2>2, <2>3, <2>5, <3>1 DEF Planned, Action, Kinds
  <2>6. CASE ~left.deleted /\ right.deleted
    <3>1. ConcurrentAction(left, right) = Planned("resurrect", Initiator, merged)
      BY <2>6 DEF ConcurrentAction
    <3>. QED BY <1>3, <1>5, <1>6, <2>2, <2>3, <2>6, <3>1 DEF Planned, Action, Kinds
  <2>7. CASE ~left.deleted /\ ~right.deleted
    <3>1. ConcurrentAction(left, right) =
            Planned(IF left.hash = right.hash THEN "merge" ELSE "conflict", NoPeer, merged)
      BY <2>7 DEF ConcurrentAction
    <3>. QED BY <1>3, <1>5, <2>2, <2>3, <2>7, <3>1 DEF Planned, Action, Kinds
  <2>. QED BY <1>1, <2>4, <2>5, <2>6, <2>7
<1>11. Compare(v, w) \in {"equal", "greater", "lesser", "concurrent"}
  BY DEF Compare
<1>. QED BY <1>7, <1>8, <1>9, <1>10, <1>11

\* A vector that counts all that another does is their merge.
LEMMA MergeWithLesser ==
  ASSUME NEW v \in Version, NEW w \in Version
  PROVE  /\ Leq(w, v) => Merge(v, w) = v
         /\ Leq(v, w) => Merge(v, w) = w
<1>1. ASSUME Leq(w, v) PROVE Merge(v, w) = v
  <2>1. ASSUME NEW p \in Peers PROVE Merge(v, w)[p] = v[p]
    BY <1>1 DEF Merge, Leq, Version
  <2>. QED BY <2>1 DEF Merge, Version
<1>2. ASSUME Leq(v, w) PROVE Merge(v, w) = w
  <2>1. ASSUME NEW p \in Peers PROVE Merge(v, w)[p] = w[p]
    BY <1>2 DEF Merge, Leq, Version
  <2>. QED BY <2>1 DEF Merge, Version
<1>. QED BY <1>1, <1>2

\* Every action takes its path to the merge of the two versions; and for each kind
\* of action, what the two entries were that called for it.
LEMMA DecideReasons ==
  ASSUME NEW left \in Entry, NEW right \in Entry
  PROVE  LET a == Decide(left, right) IN
         /\ a.vector = Merge(left.version, right.version)
         /\ a.kind = "none" => left.version = right.version
         /\ a.kind = "push" => a.source = Initiator /\ ~left.deleted
         /\ a.kind = "pull" => a.source = Responder /\ ~right.deleted
         /\ a.kind = "delete" =>
              \/ a.source = Initiator /\ left.deleted /\ a.vector = left.version
              \/ a.source = Responder /\ right.deleted /\ a.vector = right.version
         /\ a.kind = "resurrect" => \/ a.source = Initiator /\ ~left.deleted
                                    \/ a.source = Responder /\ ~right.deleted
         /\ a.kind = "merge" => left.deleted = right.deleted /\ left.hash = right.hash
         /\ a.kind = "conflict" =>
              ~left.deleted /\ ~right.deleted /\ ~Leq(left.version, right.version)
<1>. DEFINE v == left.version
            w == right.version
            merged == Merge(v, w)
<1>1. /\ v \in Version /\ w \in Version
      /\ left.deleted \in BOOLEAN /\ right.deleted \in BOOLEAN
  BY EntryFields
<1>2. CASE Compare(v, w) = "equal"
  <2>1. v = w
    BY <1>1, <1>2, CompareDecidesOrder
  <2>2. merged = v
    BY <1>1, <2>1, LeqReflexive, MergeWithLesser
  <2>3. Decide(left, right) = Planned("none", NoPeer, v)
    BY <1>2 DEF Decide
  <2>. QED BY <2>1, <2>2, <2>3 DEF Planned
<1>3. CASE Compare(v, w) = "greater"
  <2>1. Leq(w, v)
    BY <1>1, <1>3, CompareDecidesOrder
  <2>2. merged = v
    BY <1>1, <2>1, MergeWithLesser
  <2>3. Decide(left, right) = Planned(IF left.deleted THEN "delete" ELSE "push", Initiator, v)
    BY <1>3 DEF Decide, OneSidedAction
  <2>. QED BY <1>1, <2>2, <2>3 DEF Planned
<1>4. CASE Compare(v, w) = "lesser"
  <2>1. Leq(v, w)
    BY <1>1, <1>4, CompareDecidesOrder
  <2>2. merged = w
    BY <1>1, <2>1, MergeWithLesser
  <2>3. Decide(left, right) = Planned(IF right.deleted THEN "delete" ELSE "pull", Responder, w)
    BY <1>4 DEF Decide, OneSidedAction
  <2>. QED BY <1>1, <2>2, <2>3 DEF Planned
<1>5. CASE Compare(v, w) = "concurrent"
  <2>1. Decide(left, right) = ConcurrentAction(left, right)
    BY <1>5 DEF Decide
  <2>6. ~Leq(v, w)
    BY <1>1, <1>5, CompareDecidesOrder
  <2>2. CASE left.deleted /\ right.deleted
    <3>1. ConcurrentAction(left, right) = Planned("merge", NoPeer, merged)
      BY <2>2 DEF ConcurrentAction
    <3>2. left.hash = right.hash
      BY <2>2, EntryFields DEF IsLive
    <3>. QED BY <2>1, <2>2, <3>1, <3>2 DEF Planned
  <2>3. CASE left.deleted /\ ~right.deleted
    <3>1. ConcurrentAction(left, right) = Planned("resurrect", Responder, merged)
      BY <2>3 DEF ConcurrentAction
    <3>. QED BY <2>1, <2>3, <3>1 DEF Planned
  <2>4. CASE ~left.deleted /\ right.deleted
    <3>1. ConcurrentAction(left, right) = Planned("resurrect", Initiator, merged)
      BY <2>4 DEF ConcurrentAction
    <3>. QED BY <2>1, <2>4, <3>1 DEF Planned
  <2>5. CASE ~left.deleted /\ ~right.deleted
    <3>1. ConcurrentAction(left, right) =
            Planned(IF left.hash = right.hash THEN "merge" ELSE "conflict", NoPeer, merged)
      BY <2>5 DEF ConcurrentAction
    <3>. QED BY <1>1, <2>1, <2>5, <2>6, <3>1 DEF Planned
  <2>. QED BY <1>1, <2>2, <2>3, <2>4, <2>5
<1>6. Compare(v, w) \in {"equal", "greater", "lesser", "concurrent"}
  BY DEF Compare
<1>. QED BY <1>2, <1>3, <1>4, <1>5, <1>6

-------------------------------------------------------------------------------
(* Types. *)

\* In the middle of a merge or of a conflict the plan is still to do that.
PlanKept ==
  \A c \in Cycles :
    /\ cycle[c].step \in {"merge", "preserve", "conflict"} =>
         cycle[c].at \in Paths \ cycle[c].reused
    /\ cycle[c].step = "merge" => Plan(c).kind = "merge"
    /\ cycle[c].step \in {"preserve", "conflict"} => Plan(c).kind = "conflict"

TypeInv == TypeOK /\ PlanKept

-------------------------------------------------------------------------------
(* What a well-typed state says of one cycle. *)

LEMMA PeersAreTwo ==
  /\ Initiator \in Peers /\ Responder \in Peers
  /\ Initiator # Responder
  /\ \A p \in Peers : p = Initiator \/ p = Responder
BY EngineAssumption

LEMMA IdleIsCycle == IdleCycle \in Cycle
<1>1. NoEntries \in [Paths -> Entry]
  BY AbsentIsEntry DEF NoEntries
<1>2. 1 \in 1 .. NumPaths + 1
  BY NumPathsAssumption
<1>. QED BY <1>1, <1>2 DEF IdleCycle, Cycle, Steps

LEMMA CycleTyped ==
  ASSUME TypeOK, NEW c \in Cycles
  PROVE  /\ cycle[c].step \in Steps /\ cycle[c].at \in 1 .. NumPaths + 1
         /\ cycle[c].local \in [Paths -> Entry] /\ cycle[c].remote \in [Paths -> Entry]
         /\ cycle[c].reused \in SUBSET Paths
         /\ cycle[c].data \in Contents \cup {NoContent}
BY DEF TypeOK, Cycle

LEMMA PathTyped ==
  ASSUME TypeOK, NEW c \in Cycles, cycle[c].at \in Paths
  PROVE  /\ LocalEntry(c) \in Entry /\ RemoteEntry(c) \in Entry
         /\ Plan(c).vector \in Version
         /\ Leq(LocalEntry(c).version, Plan(c).vector)
         /\ Leq(RemoteEntry(c).version, Plan(c).vector)
         /\ IsPush(c) => FileOf(LocalEntry(c)) \in File
         /\ IsPull(c) => FileOf(RemoteEntry(c)) \in File
         /\ Plan(c).kind = "conflict" =>
              /\ FileOf(LocalEntry(c)) \in File /\ FileOf(RemoteEntry(c)) \in File
              /\ RemoteEntry(c).hash \in Contents
         /\ Plan(c).kind = "merge" => LocalEntry(c) # Absent
<1>1. LocalEntry(c) \in Entry /\ RemoteEntry(c) \in Entry
  BY CycleTyped DEF LocalEntry, RemoteEntry
<1>2. /\ Plan(c) \in Action
      /\ Leq(LocalEntry(c).version, Plan(c).vector)
      /\ Leq(RemoteEntry(c).version, Plan(c).vector)
      /\ IsPush(c) => IsLive(LocalEntry(c))
      /\ IsPull(c) => IsLive(RemoteEntry(c))
      /\ Plan(c).kind = "conflict" => IsLive(LocalEntry(c)) /\ IsLive(RemoteEntry(c))
      /\ Plan(c).kind = "merge" => LocalEntry(c) # Absent
  BY <1>1, DecideSound DEF Plan, IsPush, IsPull
<1>3. Plan(c).vector \in Version
  BY <1>2 DEF Action
<1>4. /\ IsLive(LocalEntry(c)) => FileOf(LocalEntry(c)) \in File
      /\ IsLive(RemoteEntry(c)) => FileOf(RemoteEntry(c)) \in File
      /\ IsLive(RemoteEntry(c)) => RemoteEntry(c).hash \in Contents
  BY <1>1, EntryFields DEF IsLive
<1>. QED BY <1>1, <1>2, <1>3, <1>4

LEMMA NextPathTyped ==
  ASSUME TypeOK, NEW c \in Cycles, cycle[c].at \in Paths
  PROVE  /\ NextPath(c) \in Cycle /\ NextPathReused(c) \in Cycle
         /\ NextPath(c).step \in {"reuse", "apply"}
         /\ NextPathReused(c).step \in {"reuse", "apply"}
<1>1. cycle[c].at + 1 \in 1 .. NumPaths + 1
  BY NumPathsAssumption DEF Paths
<1>2. cycle[c] \in Cycle
  BY DEF TypeOK
<1>. QED BY <1>1, <1>2 DEF NextPath, NextPathReused, Cycle, Steps

-------------------------------------------------------------------------------
(* What the helpers do to well-typed variables. *)

LEMMA CycleUpdated ==
  ASSUME TypeOK, NEW c \in Cycles, NEW next \in Cycle, cycle' = [cycle EXCEPT ![c] = next]
  PROVE  cycle' \in [Cycles -> Cycle]
BY DEF TypeOK

LEMMA ProceedTyped ==
  ASSUME TypeOK, NEW c \in Cycles, NEW outcome, NEW next \in Cycle,
         Proceed(c, outcome, next)
  PROVE  cycle' \in [Cycles -> Cycle] /\ faults' \in 0 .. MaxFaults
<1>1. faults' \in 0 .. MaxFaults
  BY FolderSyncAssumption DEF TypeOK, Proceed
<1>2. PICK state \in Cycle : cycle' = [cycle EXCEPT ![c] = state]
  BY IdleIsCycle DEF Proceed
<1>. QED BY <1>1, <1>2, CycleUpdated

LEMMA CommitTyped ==
  ASSUME TypeOK, NEW p \in Peers, NEW x \in Paths, NEW entry \in Entry, NEW outcome,
         Commit(p, x, entry, outcome)
  PROVE  index' \in [Peers -> [Paths -> Entry]]
BY DEF TypeOK, Commit

LEMMA DiskUpdated ==
  ASSUME TypeOK, NEW p \in Peers, NEW x \in Paths, NEW file \in File \cup {NoFile},
         disk' = [disk EXCEPT ![p][x] = file]
  PROVE  disk' \in [Peers -> [Paths -> File \cup {NoFile}]]
BY DEF TypeOK

LEMMA TrashedTyped ==
  ASSUME NEW file \in File \cup {NoFile}
  PROVE  Trashed(file) \in SUBSET Contents
BY DEF Trashed, File, NoFile

LEMMA InstallTyped ==
  ASSUME TypeOK, NEW p \in Peers, NEW x \in Paths, NEW file \in File, NEW v \in Version,
         NEW outcome, Install(p, x, file, v, outcome)
  PROVE  /\ disk' \in [Peers -> [Paths -> File \cup {NoFile}]]
         /\ trash' \in [Peers -> SUBSET Contents]
         /\ index' \in [Peers -> [Paths -> Entry]]
         /\ copies' = copies /\ edits' = edits
<1>1. PICK f \in File \cup {NoFile} : disk' = [disk EXCEPT ![p][x] = f]
  BY DEF Install
<1>2. disk[p][x] \in File \cup {NoFile}
  BY DEF TypeOK
<1>3. trash' \in [Peers -> SUBSET Contents]
  BY <1>2, TrashedTyped DEF Install, TypeOK
<1>4. index' \in [Peers -> [Paths -> Entry]]
  BY CommitTyped, LiveEntryIsEntry DEF Install
<1>. QED BY <1>1, <1>3, <1>4, DiskUpdated DEF Install

LEMMA RemoveTyped ==
  ASSUME TypeOK, NEW p \in Peers, NEW x \in Paths, NEW v \in Version,
         NEW outcome, Remove(p, x, v, outcome)
  PROVE  /\ disk' \in [Peers -> [Paths -> File \cup {NoFile}]]
         /\ trash' \in [Peers -> SUBSET Contents]
         /\ index' \in [Peers -> [Paths -> Entry]]
         /\ copies' = copies /\ edits' = edits
<1>1. disk' = [disk EXCEPT ![p][x] = NoFile]
  BY DEF Remove
<1>2. disk[p][x] \in File \cup {NoFile}
  BY DEF TypeOK
<1>3. trash' \in [Peers -> SUBSET Contents]
  BY <1>2, TrashedTyped DEF Remove, TypeOK
<1>4. index' \in [Peers -> [Paths -> Entry]]
  BY CommitTyped, TombstoneIsEntry DEF Remove
<1>. QED BY <1>1, <1>3, <1>4, DiskUpdated DEF Remove

-------------------------------------------------------------------------------
(* PlanKept, seen from the one cycle a step changes. *)

LEMMA PlanForgotten ==
  ASSUME TypeOK, PlanKept, NEW c \in Cycles, NEW next,
         cycle' = [cycle EXCEPT ![c] = next],
         next.step \notin {"merge", "preserve", "conflict"}
  PROVE  PlanKept'
<1>. SUFFICES ASSUME NEW d \in Cycles
              PROVE  /\ cycle'[d].step \in {"merge", "preserve", "conflict"} =>
                          cycle'[d].at \in Paths \ cycle'[d].reused
                     /\ cycle'[d].step = "merge" => Plan(d)'.kind = "merge"
                     /\ cycle'[d].step \in {"preserve", "conflict"} => Plan(d)'.kind = "conflict"
  BY DEF PlanKept
<1>1. CASE d = c
  BY <1>1 DEF TypeOK
<1>2. CASE d # c
  <2>1. cycle'[d] = cycle[d]
    BY <1>2 DEF TypeOK
  <2>2. Plan(d)' = Plan(d)
    BY <2>1 DEF Plan, LocalEntry, RemoteEntry
  <2>. QED BY <2>1, <2>2 DEF PlanKept
<1>. QED BY <1>1, <1>2

LEMMA PlanCarriedOn ==
  ASSUME TypeOK, PlanKept, NEW c \in Cycles, NEW next,
         cycle' = [cycle EXCEPT ![c] = next],
         next.at = cycle[c].at, next.local = cycle[c].local,
         next.remote = cycle[c].remote, next.reused = cycle[c].reused,
         cycle[c].at \in Paths \ cycle[c].reused,
         \/ next.step = "merge" /\ Plan(c).kind = "merge"
         \/ next.step \in {"preserve", "conflict"} /\ Plan(c).kind = "conflict"
  PROVE  PlanKept'
<1>. SUFFICES ASSUME NEW d \in Cycles
              PROVE  /\ cycle'[d].step \in {"merge", "preserve", "conflict"} =>
                          cycle'[d].at \in Paths \ cycle'[d].reused
                     /\ cycle'[d].step = "merge" => Plan(d)'.kind = "merge"
                     /\ cycle'[d].step \in {"preserve", "conflict"} => Plan(d)'.kind = "conflict"
  BY DEF PlanKept
<1>1. /\ cycle'[d].at = cycle[d].at /\ cycle'[d].local = cycle[d].local
      /\ cycle'[d].remote = cycle[d].remote /\ cycle'[d].reused = cycle[d].reused
  BY DEF TypeOK
<1>2. Plan(d)' = Plan(d)
  BY <1>1 DEF Plan, LocalEntry, RemoteEntry
<1>3. CASE d = c
  BY <1>1, <1>2, <1>3 DEF TypeOK
<1>4. CASE d # c
  <2>1. cycle'[d] = cycle[d]
    BY <1>4 DEF TypeOK
  <2>. QED BY <2>1, <1>2 DEF PlanKept
<1>. QED BY <1>3, <1>4

LEMMA ProceedForgets ==
  ASSUME TypeInv, NEW c \in Cycles, NEW outcome, NEW next,
         Proceed(c, outcome, next),
         next.step \notin {"merge", "preserve", "conflict"}
  PROVE  PlanKept'
<1>1. PICK state : /\ cycle' = [cycle EXCEPT ![c] = state]
                   /\ state.step \notin {"merge", "preserve", "conflict"}
  <2>1. cycle' = [cycle EXCEPT ![c] = IF outcome = "done" THEN next ELSE IdleCycle]
    BY DEF Proceed
  <2>2. IdleCycle.step = "idle"
    BY DEF IdleCycle
  <2>. QED BY <2>1, <2>2
<1>. QED BY <1>1, PlanForgotten DEF TypeInv

-------------------------------------------------------------------------------
(* Type correctness. *)

LEMMA UsersTyped ==
  ASSUME TypeInv, NEW p \in Peers, NEW x \in Paths,
         UserDelete(p, x) \/ \E h \in Contents : UserWrite(p, x, h)
  PROVE  TypeInv'
<1>1. PICK file \in File \cup {NoFile} : disk' = [disk EXCEPT ![p][x] = file]
  <2>1. edits \in Nat
    BY FolderSyncAssumption DEF TypeInv, TypeOK
  <2>. QED BY <2>1 DEF UserWrite, UserDelete, File
<1>2. disk' \in [Peers -> [Paths -> File \cup {NoFile}]]
  BY <1>1, DiskUpdated DEF TypeInv
<1>3. edits' \in 0 .. MaxEdits
  <2>1. edits < MaxEdits /\ edits' = edits + 1
    BY DEF UserWrite, UserDelete
  <2>. QED BY <2>1, FolderSyncAssumption DEF TypeInv, TypeOK
<1>4. UNCHANGED <<trash, copies, index, cycle, faults>>
  BY DEF UserWrite, UserDelete
<1>5. PlanKept'
  BY <1>4 DEF TypeInv, PlanKept, Plan, LocalEntry, RemoteEntry
<1>. QED BY <1>2, <1>3, <1>4, <1>5 DEF TypeInv, TypeOK

LEMMA SnapshotStepsTyped ==
  ASSUME TypeInv, NEW c \in Cycles, NEW outcome,
         \/ ProbeResponder(c) \/ Begin(c) \/ ScanLocal(c) \/ List(c, outcome)
         \/ NoReuse(c) \/ ReuseDone(c) \/ Skip(c)
         \/ Fail(c) \/ Abort(c) \/ ApplyDone(c) \/ AckLocal(c) \/ AckPeer(c, outcome)
  PROVE  TypeInv'
<1>. USE DEF TypeInv
<1>1. Initiator \in Peers /\ Responder \in Peers
  BY PeersAreTwo
<1>2. /\ Scan(Responder, index[Responder], disk[Responder]) \in [Paths -> Entry]
      /\ Scan(Initiator, cycle[c].local, disk[Initiator]) \in [Paths -> Entry]
  BY <1>1, CycleTyped, ScanAdvances DEF TypeOK
<1>3. cycle[c] \in Cycle
  BY DEF TypeOK
<1>4. CASE ProbeResponder(c)
  <2>1. index' \in [Peers -> [Paths -> Entry]]
    BY <1>2, <1>4 DEF ProbeResponder, TypeOK
  <2>2. UNCHANGED <<disk, trash, copies, cycle, edits, faults>>
    BY <1>4 DEF ProbeResponder
  <2>3. PlanKept'
    BY <2>2 DEF PlanKept, Plan, LocalEntry, RemoteEntry
  <2>. QED BY <2>1, <2>2, <2>3 DEF TypeOK
<1>5. CASE Begin(c)
  <2>. DEFINE next == [cycle[c] EXCEPT !.step = "scan", !.local = index[Initiator]]
  <2>1. next \in Cycle /\ next.step = "scan"
    BY <1>1, <1>3 DEF Cycle, Steps, TypeOK
  <2>2. cycle' = [cycle EXCEPT ![c] = next]
    BY <1>5 DEF Begin, TypeOK
  <2>. HIDE DEF next
  <2>3. PlanKept'
    BY <2>1, <2>2, PlanForgotten
  <2>. QED BY <1>5, <2>1, <2>2, <2>3, CycleUpdated DEF Begin, TypeOK
<1>6. CASE ScanLocal(c)
  <2>. DEFINE scanned == Scan(Initiator, cycle[c].local, disk[Initiator])
              next == [cycle[c] EXCEPT !.step = "list", !.local = scanned]
  <2>1. next \in Cycle /\ next.step = "list"
    BY <1>2, <1>3 DEF Cycle, Steps
  <2>2. cycle' = [cycle EXCEPT ![c] = next]
    BY <1>6 DEF ScanLocal, TypeOK
  <2>3. index' \in [Peers -> [Paths -> Entry]]
    BY <1>2, <1>6 DEF ScanLocal, TypeOK
  <2>. HIDE DEF next
  <2>4. PlanKept'
    BY <2>1, <2>2, PlanForgotten
  <2>. QED BY <1>6, <2>1, <2>2, <2>3, <2>4, CycleUpdated DEF ScanLocal, TypeOK
<1>7. CASE List(c, outcome)
  <2>. DEFINE scanned == Scan(Responder, index[Responder], disk[Responder])
              next == IF Halted(cycle[c].local, scanned) THEN IdleCycle
                      ELSE [cycle[c] EXCEPT !.step = "reuse", !.remote = scanned]
  <2>1. next \in Cycle /\ next.step \in {"idle", "reuse"}
    <3>1. [cycle[c] EXCEPT !.step = "reuse", !.remote = scanned] \in Cycle
      BY <1>2, <1>3 DEF Cycle, Steps
    <3>2. [cycle[c] EXCEPT !.step = "reuse", !.remote = scanned].step = "reuse"
      BY <1>3 DEF Cycle
    <3>. QED BY <3>1, <3>2, IdleIsCycle DEF IdleCycle
  <2>2. Proceed(c, outcome, next)
    BY <1>7 DEF List
  <2>3. index' \in [Peers -> [Paths -> Entry]]
    BY <1>2, <1>7 DEF List, TypeOK
  <2>. HIDE DEF next
  <2>4. PlanKept'
    BY <2>1, <2>2, ProceedForgets
  <2>5. cycle' \in [Cycles -> Cycle] /\ faults' \in 0 .. MaxFaults
    BY <2>1, <2>2, ProceedTyped
  <2>. QED BY <1>7, <2>3, <2>4, <2>5 DEF List, TypeOK
<1>8. CASE NoReuse(c) \/ Skip(c)
  <2>1. cycle[c].at \in Paths /\ cycle' = [cycle EXCEPT ![c] = NextPath(c)]
    BY <1>8 DEF NoReuse, Skip, AtPath
  <2>2. PlanKept'
    BY <2>1, NextPathTyped, PlanForgotten
  <2>3. UNCHANGED <<disk, trash, copies, index, edits, faults>>
    BY <1>8 DEF NoReuse, Skip
  <2>4. cycle' \in [Cycles -> Cycle]
    BY <2>1, NextPathTyped, CycleUpdated
  <2>. QED BY <2>2, <2>3, <2>4 DEF TypeOK
<1>9. CASE ReuseDone(c) \/ ApplyDone(c)
  <2>1. PICK next \in Cycle : /\ next.step \in {"apply", "ack"}
                              /\ cycle' = [cycle EXCEPT ![c] = next]
    <3>1. CASE ReuseDone(c)
      <4>. DEFINE next == [cycle[c] EXCEPT !.step = "apply", !.at = 1]
      <4>1. next \in Cycle /\ next.step = "apply"
        <5>1. 1 \in 1 .. NumPaths + 1
          BY NumPathsAssumption
        <5>. QED BY <1>3, <5>1 DEF Cycle, Steps
      <4>2. cycle' = [cycle EXCEPT ![c] = next]
        BY <3>1 DEF ReuseDone, TypeOK
      <4>. QED BY <4>1, <4>2
    <3>2. CASE ApplyDone(c)
      <4>. DEFINE next == [cycle[c] EXCEPT !.step = "ack"]
      <4>1. next \in Cycle /\ next.step = "ack"
        BY <1>3 DEF Cycle, Steps
      <4>2. cycle' = [cycle EXCEPT ![c] = next]
        BY <3>2 DEF ApplyDone, TypeOK
      <4>. QED BY <4>1, <4>2
    <3>. QED BY <1>9, <3>1, <3>2
  <2>2. PlanKept'
    BY <2>1, PlanForgotten
  <2>3. UNCHANGED <<disk, trash, copies, index, edits, faults>>
    BY <1>9 DEF ReuseDone, ApplyDone
  <2>. QED BY <2>1, <2>2, <2>3, CycleUpdated DEF TypeOK
<1>10. CASE Fail(c) \/ Abort(c)
  <2>1. cycle' = [cycle EXCEPT ![c] = IdleCycle]
    BY <1>10 DEF Fail, Abort
  <2>2. PlanKept'
    BY <2>1, PlanForgotten DEF IdleCycle
  <2>3. UNCHANGED <<disk, trash, copies, index, edits>>
    BY <1>10 DEF Fail, Abort
  <2>4. faults' \in 0 .. MaxFaults
    BY <1>10, FolderSyncAssumption DEF Fail, Abort, TypeOK
  <2>. QED BY <2>1, <2>2, <2>3, <2>4, IdleIsCycle, CycleUpdated DEF TypeOK
<1>11. CASE AckLocal(c)
  <2>. DEFINE next == [cycle[c] EXCEPT !.step = "ackPeer", !.local = index[Initiator]]
  <2>1. next \in Cycle /\ next.step = "ackPeer"
    BY <1>1, <1>3 DEF Cycle, Steps, TypeOK
  <2>2. cycle' = [cycle EXCEPT ![c] = next]
    BY <1>11 DEF AckLocal, TypeOK
  <2>3. index' \in [Peers -> [Paths -> Entry]]
    BY <1>1, <1>11, PruneKeepsOrDrops DEF AckLocal, TypeOK
  <2>. HIDE DEF next
  <2>4. PlanKept'
    BY <2>1, <2>2, PlanForgotten
  <2>. QED BY <1>11, <2>1, <2>2, <2>3, <2>4, CycleUpdated DEF AckLocal, TypeOK
<1>12. CASE AckPeer(c, outcome)
  <2>1. Proceed(c, outcome, IdleCycle)
    BY <1>12 DEF AckPeer
  <2>2. index' \in [Peers -> [Paths -> Entry]]
    BY <1>1, <1>12, PruneKeepsOrDrops DEF AckPeer, TypeOK
  <2>3. PlanKept'
    BY <2>1, ProceedForgets DEF IdleCycle
  <2>4. cycle' \in [Cycles -> Cycle] /\ faults' \in 0 .. MaxFaults
    BY <2>1, ProceedTyped, IdleIsCycle
  <2>. QED BY <1>12, <2>2, <2>3, <2>4 DEF AckPeer, TypeOK
<1>. QED BY <1>4, <1>5, <1>6, <1>7, <1>8, <1>9, <1>10, <1>11, <1>12

LEMMA TransfersTyped ==
  ASSUME TypeInv, NEW c \in Cycles, NEW outcome,
         \/ ReuseOnPeer(c, outcome) \/ ReuseLocal(c, outcome)
         \/ Push(c, outcome) \/ Pull(c, outcome) \/ Delete(c, outcome)
  PROVE  TypeInv'
<1>. USE DEF TypeInv
<1>1. cycle[c].at \in Paths
  BY DEF ReuseOnPeer, ReuseLocal, Push, Pull, Delete, Applying, AtPath
<1>2. PICK p \in Peers :
        \/ \E file \in File : Install(p, cycle[c].at, file, Plan(c).vector, outcome)
        \/ Remove(p, cycle[c].at, Plan(c).vector, outcome)
  <2>1. CASE ReuseOnPeer(c, outcome)
    BY <1>1, <2>1, PathTyped, PeersAreTwo DEF ReuseOnPeer
  <2>2. CASE ReuseLocal(c, outcome)
    <3>1. IsLive(LocalEntry(c))
      BY <2>2 DEF ReuseLocal, Sources, IsLive
    <3>2. FileOf(LocalEntry(c)) \in File
      BY <1>1, <3>1, PathTyped, EntryFields
    <3>. QED BY <2>2, <3>2, PeersAreTwo DEF ReuseLocal
  <2>3. CASE Push(c, outcome)
    BY <1>1, <2>3, PathTyped, PeersAreTwo DEF Push
  <2>4. CASE Pull(c, outcome)
    BY <1>1, <2>4, PathTyped, PeersAreTwo DEF Pull
  <2>5. CASE Delete(c, outcome)
    BY <2>5, PeersAreTwo DEF Delete, DeleteAt
  <2>. QED BY <2>1, <2>2, <2>3, <2>4, <2>5
<1>3. /\ disk' \in [Peers -> [Paths -> File \cup {NoFile}]]
      /\ trash' \in [Peers -> SUBSET Contents]
      /\ index' \in [Peers -> [Paths -> Entry]]
      /\ copies' = copies /\ edits' = edits
  <2>1. Plan(c).vector \in Version
    BY <1>1, PathTyped
  <2>. QED BY <1>1, <1>2, <2>1, InstallTyped, RemoveTyped
<1>4. PICK next \in {NextPath(c), NextPathReused(c)} : Proceed(c, outcome, next)
  BY DEF ReuseOnPeer, ReuseLocal, Push, Pull, Delete
<1>5. next \in Cycle /\ next.step \in {"reuse", "apply"}
  BY <1>1, NextPathTyped
<1>6. cycle' \in [Cycles -> Cycle] /\ faults' \in 0 .. MaxFaults
  BY <1>4, <1>5, ProceedTyped
<1>7. PlanKept'
  BY <1>4, <1>5, ProceedForgets
<1>. QED BY <1>3, <1>6, <1>7 DEF TypeOK

LEMMA MergesTyped ==
  ASSUME TypeInv, NEW c \in Cycles, NEW outcome,
         MergeLocal(c) \/ MergePeer(c, outcome)
  PROVE  TypeInv'
<1>. USE DEF TypeInv
<1>1. cycle[c].at \in Paths /\ cycle[c] \in Cycle
  BY DEF MergeLocal, MergePeer, Applying, AtPath, TypeOK
<1>2. Plan(c).vector \in Version
  BY <1>1, PathTyped
<1>3. ASSUME NEW e \in Entry, e # Absent
      PROVE  [e EXCEPT !.version = Plan(c).vector] \in Entry
  <2>1. \/ IsLive(e) /\ ~e.deleted
        \/ ~IsLive(e) /\ e.deleted /\ e.mtime = 0
    BY <1>3, EntryFields
  <2>. QED BY <1>2, <2>1 DEF Entry, IsLive
<1>4. CASE MergeLocal(c)
  <2>. DEFINE next == [cycle[c] EXCEPT !.step = "merge"]
              entry == [LocalEntry(c) EXCEPT !.version = Plan(c).vector]
  <2>1. entry \in Entry
    BY <1>1, <1>3, <1>4, PathTyped DEF MergeLocal
  <2>2. index' = [index EXCEPT ![Initiator][cycle[c].at] = entry]
    BY <1>4 DEF MergeLocal
  <2>. HIDE DEF entry
  <2>3. index' \in [Peers -> [Paths -> Entry]]
    BY <2>1, <2>2 DEF TypeOK
  <2>4. next \in Cycle /\ next.step = "merge"
    BY <1>1 DEF Cycle, Steps
  <2>5. /\ next.at = cycle[c].at /\ next.local = cycle[c].local
        /\ next.remote = cycle[c].remote /\ next.reused = cycle[c].reused
    BY <1>1 DEF Cycle
  <2>6. cycle' = [cycle EXCEPT ![c] = next]
    BY <1>4 DEF MergeLocal, TypeOK
  <2>. HIDE DEF next
  <2>7. PlanKept'
    BY <1>4, <2>4, <2>5, <2>6, PlanCarriedOn DEF MergeLocal, Applying, AtPath
  <2>8. cycle' \in [Cycles -> Cycle]
    BY <2>4, <2>6, CycleUpdated
  <2>. QED BY <1>4, <2>3, <2>7, <2>8 DEF MergeLocal, TypeOK
<1>5. CASE MergePeer(c, outcome)
  <2>. DEFINE entry == [index[Responder][cycle[c].at] EXCEPT !.version = Plan(c).vector]
  <2>1. entry \in Entry
    BY <1>1, <1>3, <1>5, PeersAreTwo DEF MergePeer, CanMergePeer, TypeOK
  <2>2. index' = [index EXCEPT ![Responder][cycle[c].at] = entry]
    BY <1>1, <1>5, PeersAreTwo DEF MergePeer, TypeOK
  <2>. HIDE DEF entry
  <2>3. index' \in [Peers -> [Paths -> Entry]]
    BY <2>1, <2>2 DEF TypeOK
  <2>4. Proceed(c, outcome, NextPath(c))
    BY <1>5 DEF MergePeer
  <2>5. PlanKept'
    BY <1>1, <2>4, NextPathTyped, ProceedForgets
  <2>6. cycle' \in [Cycles -> Cycle] /\ faults' \in 0 .. MaxFaults
    BY <1>1, <2>4, NextPathTyped, ProceedTyped
  <2>. QED BY <1>5, <2>3, <2>5, <2>6 DEF MergePeer, TypeOK
<1>. QED BY <1>4, <1>5

LEMMA ConflictsTyped ==
  ASSUME TypeInv, NEW c \in Cycles, NEW outcome,
         ConflictCheck(c) \/ ConflictPreserve(c, outcome) \/ ConflictPush(c, outcome)
  PROVE  TypeInv'
<1>. USE DEF TypeInv
<1>. DEFINE x == cycle[c].at
<1>1. x \in Paths \ cycle[c].reused /\ cycle[c] \in Cycle /\ Plan(c).kind = "conflict"
  BY DEF ConflictCheck, ConflictPreserve, ConflictPush, Applying, AtPath, TypeOK, PlanKept
<1>2. /\ LocalEntry(c) \in Entry /\ RemoteEntry(c) \in Entry
      /\ FileOf(LocalEntry(c)) \in File /\ RemoteEntry(c).hash \in Contents
      /\ Plan(c).vector \in Version
  BY <1>1, PathTyped
<1>3. Initiator \in Peers /\ Responder \in Peers
  BY PeersAreTwo
<1>4. ASSUME NEW h \in Contents PROVE CopyOf(c, h) \in Copy
  <2>1. Stamp(c) \in Nat
    <3>1. LocalEntry(c).mtime \in Nat /\ RemoteEntry(c).mtime \in Nat
      BY <1>2, EntryFields
    <3>2. EditsPerSecond \in Nat /\ EditsPerSecond > 0
      BY FolderSyncAssumption
    <3>3. \A n \in Nat : n \div EditsPerSecond \in Nat
      BY <3>2
    <3>. QED BY <3>1, <3>3 DEF Stamp
  <2>. QED BY <1>1, <2>1 DEF CopyOf, Copy
<1>5. LiveEntry(Plan(c).vector, FileOf(LocalEntry(c))) \in Entry
  BY <1>2, LiveEntryIsEntry
<1>6. CASE ConflictCheck(c)
  <2>. DEFINE next == [cycle[c] EXCEPT !.step = "preserve", !.data = disk[Initiator][x].hash]
  <2>1. disk[Initiator][x].hash \in Contents \cup {NoContent}
    BY <1>1, <1>3 DEF TypeOK, File, NoFile
  <2>2. next \in Cycle /\ next.step = "preserve"
    BY <1>1, <2>1 DEF Cycle, Steps
  <2>3. /\ next.at = cycle[c].at /\ next.local = cycle[c].local
        /\ next.remote = cycle[c].remote /\ next.reused = cycle[c].reused
    BY <1>1 DEF Cycle
  <2>4. cycle' = [cycle EXCEPT ![c] = next]
    BY <1>6 DEF ConflictCheck, TypeOK
  <2>. HIDE DEF next
  <2>5. PlanKept'
    BY <1>1, <2>2, <2>3, <2>4, PlanCarriedOn
  <2>6. cycle' \in [Cycles -> Cycle]
    BY <2>2, <2>4, CycleUpdated
  <2>. QED BY <1>6, <2>5, <2>6 DEF ConflictCheck, TypeOK
<1>7. CASE ConflictPreserve(c, outcome)
  <2>. DEFINE next == [cycle[c] EXCEPT !.step = "conflict"]
  <2>1. next \in Cycle /\ next.step = "conflict"
    BY <1>1 DEF Cycle, Steps
  <2>2. /\ next.at = cycle[c].at /\ next.local = cycle[c].local
        /\ next.remote = cycle[c].remote /\ next.reused = cycle[c].reused
    BY <1>1 DEF Cycle
  <2>3. Proceed(c, outcome, next)
    BY <1>7 DEF ConflictPreserve
  <2>. HIDE DEF next
  <2>4. PlanKept'
    <3>1. CASE outcome = "done"
      <4>1. cycle' = [cycle EXCEPT ![c] = next]
        BY <2>3, <3>1 DEF Proceed
      <4>. QED BY <1>1, <2>1, <2>2, <4>1, PlanCarriedOn
    <3>2. CASE outcome # "done"
      <4>1. cycle' = [cycle EXCEPT ![c] = IdleCycle] /\ IdleCycle.step = "idle"
        BY <2>3, <3>2 DEF Proceed, IdleCycle
      <4>. QED BY <4>1, PlanForgotten
    <3>. QED BY <3>1, <3>2
  <2>5. cycle' \in [Cycles -> Cycle] /\ faults' \in 0 .. MaxFaults
    BY <2>1, <2>3, ProceedTyped
  <2>6. copies' \in [Peers -> SUBSET Copy]
    BY <1>2, <1>3, <1>4, <1>7 DEF ConflictPreserve, TypeOK
  <2>7. index' \in [Peers -> [Paths -> Entry]]
    BY <1>1, <1>3, <1>5, <1>7, CommitTyped DEF ConflictPreserve
  <2>. QED BY <1>7, <2>4, <2>5, <2>6, <2>7 DEF ConflictPreserve, TypeOK
<1>8. CASE ConflictPush(c, outcome)
  <2>. DEFINE next == [NextPath(c) EXCEPT !.data = NoContent]
              lost == disk[Responder][x]
  <2>1. next \in Cycle /\ next.step \in {"reuse", "apply"}
    BY <1>1, NextPathTyped DEF Cycle
  <2>2. Proceed(c, outcome, next)
    BY <1>8 DEF ConflictPush
  <2>. HIDE DEF next
  <2>3. PlanKept'
    BY <2>1, <2>2, ProceedForgets
  <2>4. cycle' \in [Cycles -> Cycle] /\ faults' \in 0 .. MaxFaults
    BY <2>1, <2>2, ProceedTyped
  <2>5. lost = NoFile \/ lost.hash \in Contents
    BY <1>1, <1>3 DEF TypeOK, File
  <2>6. copies' \in [Peers -> SUBSET Copy]
    BY <1>3, <1>4, <1>8, <2>5 DEF ConflictPush, TypeOK
  <2>7. PICK f \in File \cup {NoFile} : disk' = [disk EXCEPT ![Responder][x] = f]
    BY <1>2, <1>8 DEF ConflictPush
  <2>8. disk' \in [Peers -> [Paths -> File \cup {NoFile}]]
    BY <1>1, <1>3, <2>7, DiskUpdated
  <2>9. index' \in [Peers -> [Paths -> Entry]]
    BY <1>1, <1>3, <1>5, <1>8, CommitTyped DEF ConflictPush
  <2>. QED BY <1>8, <2>3, <2>4, <2>6, <2>8, <2>9 DEF ConflictPush, TypeOK
<1>. QED BY <1>6, <1>7, <1>8

LEMMA InitTyped == Init => TypeInv
<1>. SUFFICES ASSUME Init PROVE TypeInv
  OBVIOUS
<1>1. NoEntries \in [Paths -> Entry]
  BY AbsentIsEntry DEF NoEntries
<1>2. 0 \in 0 .. MaxEdits /\ 0 \in 0 .. MaxFaults
  BY FolderSyncAssumption
<1>3. TypeOK
  BY <1>1, <1>2, IdleIsCycle DEF Init, TypeOK
<1>4. PlanKept
  BY DEF Init, PlanKept, IdleCycle
<1>. QED BY <1>3, <1>4 DEF TypeInv

\* The actions, as the proofs below take them.
LEMMA NextCases ==
  ASSUME Next
  PROVE  \/ \E p \in Peers, x \in Paths :
              UserDelete(p, x) \/ \E h \in Contents : UserWrite(p, x, h)
         \/ \E c \in Cycles, outcome \in Outcomes \cup {"done"} :
              \/ ProbeResponder(c) \/ Begin(c) \/ ScanLocal(c) \/ List(c, outcome)
              \/ NoReuse(c) \/ ReuseDone(c) \/ Skip(c)
              \/ Fail(c) \/ Abort(c) \/ ApplyDone(c) \/ AckLocal(c) \/ AckPeer(c, outcome)
         \/ \E c \in Cycles, outcome \in Outcomes :
              \/ ReuseOnPeer(c, outcome) \/ ReuseLocal(c, outcome)
              \/ Push(c, outcome) \/ Pull(c, outcome) \/ Delete(c, outcome)
         \/ \E c \in Cycles, outcome \in Outcomes :
              MergeLocal(c) \/ MergePeer(c, outcome)
         \/ \E c \in Cycles, outcome \in Outcomes :
              ConflictCheck(c) \/ ConflictPreserve(c, outcome) \/ ConflictPush(c, outcome)
<1>1. CASE \E c \in Cycles : ProbeResponder(c) \/ Abort(c)
  BY <1>1
<1>2. CASE \E c \in Cycles, outcome \in Outcomes : CycleStep(c, outcome)
  BY <1>2 DEF CycleStep
<1>. QED BY <1>1, <1>2 DEF Next

LEMMA TypeInvStutters ==
  ASSUME TypeInv, UNCHANGED vars
  PROVE  TypeInv'
BY DEF vars, TypeInv, TypeOK, PlanKept, Plan, LocalEntry, RemoteEntry

LEMMA TypeInvInvariant == Spec => []TypeInv
<1>1. TypeInv /\ [Next]_vars => TypeInv'
  <2>. SUFFICES ASSUME TypeInv, [Next]_vars PROVE TypeInv'
    OBVIOUS
  <2>1. CASE UNCHANGED vars
    BY <2>1, TypeInvStutters
  <2>2. CASE Next
    BY <2>2, NextCases, UsersTyped, SnapshotStepsTyped, TransfersTyped, MergesTyped,
       ConflictsTyped
  <2>. QED BY <2>1, <2>2
<1>. QED BY <1>1, InitTyped, PTL DEF Spec

\* Whatever users, faults and concurrent cycles do, disks, trashes, conflict
\* copies, indexes and cycles stay well formed; in particular no entry is ever
\* committed that is neither a file, nor a tombstone, nor absent.
THEOREM TypeCorrect == Spec => []TypeOK
BY TypeInvInvariant, PTL DEF TypeInv

-------------------------------------------------------------------------------
(* Synchronisation never destroys bytes. *)

\* It is enough that a path that changes has its bytes in trash or a copy.
LEMMA BytesKept ==
  ASSUME NEW p \in Peers,
         \A x \in Paths : \/ disk'[p][x] = disk[p][x]
                          \/ disk[p][x].hash \in {NoContent} \cup trash'[p]
                          \/ \E k \in copies'[p] : k.hash = disk[p][x].hash,
         trash[p] \subseteq trash'[p], copies[p] \subseteq copies'[p]
  PROVE  Stored(p) \ {NoContent} \subseteq Stored(p)'
<1>. SUFFICES ASSUME NEW h \in Stored(p), h # NoContent PROVE h \in Stored(p)'
  OBVIOUS
<1>1. CASE \E x \in Paths : h = disk[p][x].hash
  <2>1. PICK x \in Paths : h = disk[p][x].hash
    BY <1>1
  <2>2. \/ disk'[p][x].hash = h
        \/ h \in trash'[p]
        \/ \E k \in copies'[p] : k.hash = h
    BY <2>1
  <2>. QED BY <2>2 DEF Stored
<1>2. CASE h \in trash[p]
  BY <1>2 DEF Stored
<1>3. CASE \E k \in copies[p] : k.hash = h
  BY <1>3 DEF Stored
<1>. QED BY <1>1, <1>2, <1>3 DEF Stored

LEMMA ReplacedKept ==
  ASSUME TypeOK, NEW q \in Peers, NEW x \in Paths, NEW file, NEW p \in Peers,
         disk' = [disk EXCEPT ![q][x] = file],
         trash' = [trash EXCEPT ![q] = @ \cup Trashed(disk[q][x])],
         copies' = copies
  PROVE  Stored(p) \ {NoContent} \subseteq Stored(p)'
<1>1. trash[p] \subseteq trash'[p] /\ copies[p] \subseteq copies'[p]
  BY DEF TypeOK
<1>2. ASSUME NEW y \in Paths
      PROVE  disk'[p][y] = disk[p][y] \/ disk[p][y].hash \in {NoContent} \cup trash'[p]
  <2>1. CASE p = q /\ y = x
    <3>1. disk[q][x] = NoFile => disk[q][x].hash = NoContent
      BY DEF NoFile
    <3>. QED BY <2>1, <3>1 DEF Trashed, TypeOK
  <2>2. CASE p # q \/ y # x
    BY <2>2 DEF TypeOK
  <2>. QED BY <2>1, <2>2
<1>. QED BY <1>1, <1>2, BytesKept

LEMMA UntouchedKept ==
  ASSUME NEW p \in Peers, disk' = disk, trash' = trash, copies[p] \subseteq copies'[p]
  PROVE  Stored(p) \ {NoContent} \subseteq Stored(p)'
BY BytesKept

LEMMA ConflictsKeep ==
  ASSUME TypeInv, NEW c \in Cycles, NEW outcome, NEW p \in Peers,
         ConflictCheck(c) \/ ConflictPreserve(c, outcome) \/ ConflictPush(c, outcome)
  PROVE  /\ Stored(p) \ {NoContent} \subseteq Stored(p)'
         /\ copies[p] \subseteq copies'[p]
<1>1. CASE ConflictCheck(c) \/ ConflictPreserve(c, outcome)
  <2>1. disk' = disk /\ trash' = trash
    BY <1>1 DEF ConflictCheck, ConflictPreserve
  <2>2. copies[p] \subseteq copies'[p]
    BY <1>1 DEF ConflictCheck, ConflictPreserve, TypeInv, TypeOK
  <2>. QED BY <2>1, <2>2, UntouchedKept
<1>2. CASE ConflictPush(c, outcome)
  <2>. DEFINE x == cycle[c].at
              lost == disk[Responder][x]
              added == IF lost = NoFile THEN {} ELSE {CopyOf(c, lost.hash)}
  <2>1. /\ x \in Paths
        /\ copies' = [copies EXCEPT ![Responder] = @ \cup added]
    BY <1>2 DEF ConflictPush, AtPath
  <2>2. copies[p] \subseteq copies'[p] /\ trash' = trash
    BY <1>2, <2>1 DEF ConflictPush, TypeInv, TypeOK
  <2>3. PICK f : disk' = [disk EXCEPT ![Responder][x] = f]
    BY <1>2 DEF ConflictPush
  <2>4. ASSUME NEW y \in Paths
        PROVE  \/ disk'[p][y] = disk[p][y]
               \/ disk[p][y].hash \in {NoContent} \cup trash'[p]
               \/ \E k \in copies'[p] : k.hash = disk[p][y].hash
    <3>1. CASE p # Responder \/ y # x
      BY <2>3, <3>1 DEF TypeInv, TypeOK
    <3>2. CASE p = Responder /\ y = x /\ lost = NoFile
      BY <3>2 DEF NoFile
    <3>3. CASE p = Responder /\ y = x /\ lost # NoFile
      <4>1. CopyOf(c, lost.hash) \in copies'[p]
        BY <2>1, <3>3 DEF TypeInv, TypeOK
      <4>2. CopyOf(c, lost.hash).hash = disk[p][y].hash
        BY <3>3 DEF CopyOf
      <4>. QED BY <4>1, <4>2
    <3>. QED BY <3>1, <3>2, <3>3
  <2>. QED BY <2>2, <2>4, BytesKept
<1>. QED BY <1>1, <1>2

LEMMA TransfersKeep ==
  ASSUME TypeInv, NEW c \in Cycles, NEW outcome, NEW p \in Peers,
         \/ ReuseOnPeer(c, outcome) \/ ReuseLocal(c, outcome)
         \/ Push(c, outcome) \/ Pull(c, outcome) \/ Delete(c, outcome)
  PROVE  Stored(p) \ {NoContent} \subseteq Stored(p)' /\ copies' = copies
<1>1. cycle[c].at \in Paths
  BY DEF ReuseOnPeer, ReuseLocal, Push, Pull, Delete, Applying, AtPath
<1>2. PICK q, file :
        /\ q \in Peers
        /\ disk' = [disk EXCEPT ![q][cycle[c].at] = file]
        /\ trash' = [trash EXCEPT ![q] = @ \cup Trashed(disk[q][cycle[c].at])]
        /\ copies' = copies
  <2>1. CASE ReuseOnPeer(c, outcome) \/ Push(c, outcome)
    BY <2>1, PeersAreTwo DEF ReuseOnPeer, Push, Install
  <2>2. CASE ReuseLocal(c, outcome) \/ Pull(c, outcome)
    BY <2>2, PeersAreTwo DEF ReuseLocal, Pull, Install
  <2>3. CASE Delete(c, outcome)
    <3>1. DeleteAt(c) \in Peers
      BY PeersAreTwo DEF DeleteAt
    <3>. QED BY <2>3, <3>1 DEF Delete, Remove
  <2>. QED BY <2>1, <2>2, <2>3
<1>. QED BY <1>1, <1>2, ReplacedKept DEF TypeInv

LEMMA IndexStepsKeep ==
  ASSUME NEW c \in Cycles, NEW outcome,
         \/ ProbeResponder(c) \/ Begin(c) \/ ScanLocal(c) \/ List(c, outcome)
         \/ NoReuse(c) \/ ReuseDone(c) \/ Skip(c)
         \/ Fail(c) \/ Abort(c) \/ ApplyDone(c) \/ AckLocal(c) \/ AckPeer(c, outcome)
         \/ MergeLocal(c) \/ MergePeer(c, outcome)
  PROVE  disk' = disk /\ trash' = trash /\ copies' = copies
BY DEF ProbeResponder, Begin, ScanLocal, List, NoReuse, ReuseDone, Skip, Fail, Abort,
       ApplyDone, AckLocal, AckPeer, MergeLocal, MergePeer

\* No write, delete, conflict or reuse, however far it gets and however many
\* cycles and users run beside it, loses the bytes it replaces: they are in the
\* replica's trash or in a conflict copy (apply.writeWithConflictSuffix,
\* apply.Delete, apply.PreserveConflictWithSuffix).
THEOREM BytesNeverDestroyed == Spec => NothingDestroyed
<1>1. TypeInv /\ [Next]_vars =>
        [edits' = edits =>
           \A p \in Peers : Stored(p) \ {NoContent} \subseteq Stored(p)']_vars
  <2>. SUFFICES ASSUME TypeInv, Next, edits' = edits, NEW p \in Peers
                PROVE  Stored(p) \ {NoContent} \subseteq Stored(p)'
    OBVIOUS
  <2>1. ASSUME NEW q \in Peers, NEW x \in Paths,
               UserDelete(q, x) \/ \E h \in Contents : UserWrite(q, x, h)
        PROVE  FALSE
    <3>1. edits' = edits + 1
      BY <2>1 DEF UserDelete, UserWrite
    <3>2. edits \in Nat
      BY FolderSyncAssumption DEF TypeInv, TypeOK
    <3>. QED BY <3>1, <3>2
  <2>2. ASSUME disk' = disk, trash' = trash, copies' = copies
        PROVE  Stored(p) \ {NoContent} \subseteq Stored(p)'
    BY <2>2, UntouchedKept
  <2>. QED BY <2>1, <2>2, NextCases, IndexStepsKeep, TransfersKeep, ConflictsKeep
<1>. QED BY <1>1, TypeInvInvariant, PTL DEF Spec, NothingDestroyed

-------------------------------------------------------------------------------
(* A conflict's loser is preserved before its place is taken. *)

LEMMA LoserStillPreserved ==
  ASSUME TypeOK, LoserPreservedFirst, NEW c \in Cycles, NEW next,
         cycle' = [cycle EXCEPT ![c] = next], next.step # "conflict",
         copies[Initiator] \subseteq copies'[Initiator]
  PROVE  LoserPreservedFirst'
<1>. SUFFICES ASSUME NEW d \in Cycles, cycle'[d].step = "conflict"
              PROVE  CopyOf(d, RemoteEntry(d).hash)' \in copies'[Initiator]
  BY DEF LoserPreservedFirst
<1>1. d # c
  BY DEF TypeOK
<1>2. cycle'[d] = cycle[d]
  BY <1>1 DEF TypeOK
<1>3. CopyOf(d, RemoteEntry(d).hash)' = CopyOf(d, RemoteEntry(d).hash)
  BY <1>2 DEF CopyOf, Stamp, LocalEntry, RemoteEntry
<1>. QED BY <1>2, <1>3 DEF LoserPreservedFirst

\* Every step but the one that preserves a loser leaves its cycle elsewhere.
LEMMA CycleMovesOn ==
  ASSUME TypeInv, NEW c \in Cycles, NEW outcome,
         \/ Begin(c) \/ ScanLocal(c) \/ List(c, outcome)
         \/ NoReuse(c) \/ ReuseDone(c) \/ Skip(c)
         \/ Fail(c) \/ Abort(c) \/ ApplyDone(c) \/ AckLocal(c) \/ AckPeer(c, outcome)
         \/ ReuseOnPeer(c, outcome) \/ ReuseLocal(c, outcome)
         \/ Push(c, outcome) \/ Pull(c, outcome) \/ Delete(c, outcome)
         \/ MergeLocal(c) \/ MergePeer(c, outcome)
         \/ ConflictCheck(c) \/ ConflictPush(c, outcome)
  PROVE  \E next : cycle' = [cycle EXCEPT ![c] = next] /\ next.step # "conflict"
<1>. USE DEF TypeInv
<1>1. cycle[c] \in Cycle /\ IdleCycle.step = "idle"
  BY DEF TypeOK, IdleCycle
<1>2. ASSUME NEW next, Proceed(c, outcome, next), next.step # "conflict"
      PROVE  \E state : cycle' = [cycle EXCEPT ![c] = state] /\ state.step # "conflict"
  <2>1. cycle' = [cycle EXCEPT ![c] = IF outcome = "done" THEN next ELSE IdleCycle]
    BY <1>2 DEF Proceed
  <2>. QED BY <1>1, <1>2, <2>1
<1>3. CASE Fail(c) \/ Abort(c)
  BY <1>1, <1>3 DEF Fail, Abort
<1>4. CASE AckPeer(c, outcome)
  BY <1>1, <1>2, <1>4 DEF AckPeer
<1>5. CASE List(c, outcome)
  <2>. DEFINE scanned == Scan(Responder, index[Responder], disk[Responder])
              next == IF Halted(cycle[c].local, scanned) THEN IdleCycle
                      ELSE [cycle[c] EXCEPT !.step = "reuse", !.remote = scanned]
  <2>1. next.step \in {"idle", "reuse"}
    BY <1>1 DEF Cycle
  <2>2. Proceed(c, outcome, next)
    BY <1>5 DEF List
  <2>. HIDE DEF next
  <2>. QED BY <1>2, <2>1, <2>2
<1>6. CASE \/ ReuseOnPeer(c, outcome) \/ ReuseLocal(c, outcome) \/ NoReuse(c) \/ Skip(c)
           \/ Push(c, outcome) \/ Pull(c, outcome) \/ Delete(c, outcome)
           \/ MergePeer(c, outcome)
  <2>1. cycle[c].at \in Paths
    BY <1>6 DEF ReuseOnPeer, ReuseLocal, NoReuse, Skip, Push, Pull, Delete, MergePeer,
                Applying, AtPath
  <2>2. \/ \E next \in {NextPath(c), NextPathReused(c)} : Proceed(c, outcome, next)
        \/ cycle' = [cycle EXCEPT ![c] = NextPath(c)]
    BY <1>6 DEF ReuseOnPeer, ReuseLocal, NoReuse, Skip, Push, Pull, Delete, MergePeer
  <2>3. NextPath(c).step # "conflict" /\ NextPathReused(c).step # "conflict"
    BY <2>1, NextPathTyped
  <2>. QED BY <1>2, <2>2, <2>3
<1>7. CASE ConflictPush(c, outcome)
  <2>1. cycle[c].at \in Paths /\ Proceed(c, outcome, [NextPath(c) EXCEPT !.data = NoContent])
    BY <1>7 DEF ConflictPush, AtPath
  <2>2. [NextPath(c) EXCEPT !.data = NoContent].step # "conflict"
    BY <2>1, NextPathTyped DEF Cycle
  <2>. QED BY <1>2, <2>1, <2>2
<1>8. CASE \/ Begin(c) \/ ScanLocal(c) \/ ReuseDone(c) \/ ApplyDone(c) \/ AckLocal(c)
           \/ MergeLocal(c) \/ ConflictCheck(c)
  <2>1. PICK next : /\ cycle' = [cycle EXCEPT ![c] = next]
                    /\ next \in {[cycle[c] EXCEPT !.step = "scan", !.local = index[Initiator]],
                                 [cycle[c] EXCEPT !.step = "list", !.local =
                                    Scan(Initiator, cycle[c].local, disk[Initiator])],
                                 [cycle[c] EXCEPT !.step = "apply", !.at = 1],
                                 [cycle[c] EXCEPT !.step = "ack"],
                                 [cycle[c] EXCEPT !.step = "ackPeer", !.local = index[Initiator]],
                                 [cycle[c] EXCEPT !.step = "merge"],
                                 [cycle[c] EXCEPT !.step = "preserve",
                                                  !.data = disk[Initiator][cycle[c].at].hash]}
    <3>1. CASE Begin(c)
      BY <3>1 DEF Begin, TypeOK
    <3>2. CASE ScanLocal(c)
      BY <3>2 DEF ScanLocal, TypeOK
    <3>3. CASE ReuseDone(c)
      BY <3>3 DEF ReuseDone, TypeOK
    <3>4. CASE ApplyDone(c)
      BY <3>4 DEF ApplyDone, TypeOK
    <3>5. CASE AckLocal(c)
      BY <3>5 DEF AckLocal, TypeOK
    <3>6. CASE MergeLocal(c)
      BY <3>6 DEF MergeLocal, TypeOK
    <3>7. CASE ConflictCheck(c)
      BY <3>7 DEF ConflictCheck, TypeOK
    <3>. QED BY <1>8, <3>1, <3>2, <3>3, <3>4, <3>5, <3>6, <3>7
  <2>2. next.step # "conflict"
    BY <1>1, <2>1 DEF Cycle
  <2>. QED BY <2>1, <2>2
<1>. QED BY <1>3, <1>4, <1>5, <1>6, <1>7, <1>8

\* applyConflict writes the loser's copy locally and only then sends the winner:
\* in no interleaving of cycles, users and faults does a cycle come to overwrite
\* the loser without that copy.
THEOREM LoserAlwaysPreserved == Spec => []LoserPreservedFirst
<1>1. Init => LoserPreservedFirst
  BY DEF Init, LoserPreservedFirst, IdleCycle
<1>2. TypeInv /\ LoserPreservedFirst /\ [Next]_vars => LoserPreservedFirst'
  <2>. SUFFICES ASSUME TypeInv, LoserPreservedFirst, [Next]_vars
                PROVE  LoserPreservedFirst'
    OBVIOUS
  <2>1. ASSUME cycle' = cycle, copies' = copies PROVE LoserPreservedFirst'
    BY <2>1 DEF LoserPreservedFirst, CopyOf, Stamp, LocalEntry, RemoteEntry
  <2>2. ASSUME NEW c \in Cycles, NEW outcome,
               \/ Begin(c) \/ ScanLocal(c) \/ List(c, outcome)
               \/ NoReuse(c) \/ ReuseDone(c) \/ Skip(c)
               \/ Fail(c) \/ Abort(c) \/ ApplyDone(c) \/ AckLocal(c) \/ AckPeer(c, outcome)
               \/ ReuseOnPeer(c, outcome) \/ ReuseLocal(c, outcome)
               \/ Push(c, outcome) \/ Pull(c, outcome) \/ Delete(c, outcome)
               \/ MergeLocal(c) \/ MergePeer(c, outcome)
               \/ ConflictCheck(c) \/ ConflictPush(c, outcome)
        PROVE  LoserPreservedFirst'
    <3>1. copies[Initiator] \subseteq copies'[Initiator]
      BY <2>2, IndexStepsKeep, TransfersKeep, ConflictsKeep, PeersAreTwo
    <3>. QED BY <2>2, <3>1, CycleMovesOn, LoserStillPreserved DEF TypeInv
  <2>3. ASSUME NEW c \in Cycles, NEW outcome, ConflictPreserve(c, outcome)
        PROVE  LoserPreservedFirst'
    <3>1. copies[Initiator] \subseteq copies'[Initiator]
      BY <2>3, ConflictsKeep, PeersAreTwo
    <3>2. CASE outcome # "done"
      <4>1. cycle' = [cycle EXCEPT ![c] = IdleCycle] /\ IdleCycle.step # "conflict"
        BY <2>3, <3>2 DEF ConflictPreserve, Proceed, IdleCycle
      <4>. QED BY <3>1, <4>1, LoserStillPreserved DEF TypeInv
    <3>3. CASE outcome = "done"
      <4>1. cycle' = [cycle EXCEPT ![c] = [cycle[c] EXCEPT !.step = "conflict"]]
        BY <2>3, <3>3 DEF ConflictPreserve, Proceed
      <4>2. ASSUME NEW d \in Cycles
            PROVE  CopyOf(d, RemoteEntry(d).hash)' = CopyOf(d, RemoteEntry(d).hash)
        <5>1. /\ cycle'[d].at = cycle[d].at /\ cycle'[d].local = cycle[d].local
              /\ cycle'[d].remote = cycle[d].remote
          BY <4>1 DEF TypeInv, TypeOK, Cycle
        <5>. QED BY <5>1 DEF CopyOf, Stamp, LocalEntry, RemoteEntry
      <4>3. CopyOf(c, RemoteEntry(c).hash) \in copies'[Initiator]
        BY <2>3, PeersAreTwo DEF ConflictPreserve, TypeInv, TypeOK
      <4>4. ASSUME NEW d \in Cycles, d # c, cycle'[d].step = "conflict"
            PROVE  CopyOf(d, RemoteEntry(d).hash) \in copies'[Initiator]
        BY <3>1, <4>1, <4>4 DEF LoserPreservedFirst, TypeInv, TypeOK
      <4>. QED BY <4>2, <4>3, <4>4 DEF LoserPreservedFirst
    <3>. QED BY <3>2, <3>3
  <2>4. CASE UNCHANGED vars
    BY <2>1, <2>4 DEF vars
  <2>5. CASE \E p \in Peers, x \in Paths :
               UserDelete(p, x) \/ \E h \in Contents : UserWrite(p, x, h)
    BY <2>1, <2>5 DEF UserDelete, UserWrite
  <2>6. CASE \E c \in Cycles : ProbeResponder(c)
    BY <2>1, <2>6 DEF ProbeResponder
  <2>. QED BY <2>2, <2>3, <2>4, <2>5, <2>6, NextCases
<1>. QED BY <1>1, <1>2, TypeInvInvariant, PTL DEF Spec

-------------------------------------------------------------------------------
(* While one cycle is under way at a time, it acts on current entries only:  *)
(* users, faults and the responder's own commits never get in between.  The *)
(* lemmas say so of a single step; AgreementProofs says when they apply.     *)

\* Paths on which a cycle has yet to act.
Pending(c) ==
  CASE cycle[c].step = "reuse" ->
         {x \in Paths : x >= cycle[c].at \/ x \notin cycle[c].reused}
    [] cycle[c].step \in {"apply", "preserve"} ->
         {x \in Paths \ cycle[c].reused : x >= cycle[c].at}
    [] cycle[c].step \in {"merge", "conflict"} ->
         {x \in Paths \ cycle[c].reused : x > cycle[c].at}
    [] OTHER -> {}

\* The index it scans from is still the initiator's, and on every path it has yet
\* to act on, both indexes still hold the entries it planned from.
SnapshotCurrent(c) ==
  /\ cycle[c].step \in {"scan", "list"} => cycle[c].local = index[Initiator]
  /\ \A x \in Pending(c) : /\ index[Initiator][x] = cycle[c].local[x]
                          /\ index[Responder][x] = cycle[c].remote[x]
  /\ cycle[c].step \in {"merge", "conflict"} => index[Responder][cycle[c].at] = RemoteEntry(c)
SnapshotsCurrent == \A c \in Cycles : SnapshotCurrent(c)

AllIdle == \A c \in Cycles : cycle[c].step = "idle"

OneActive ==
  \A c, d \in Cycles : c # d => cycle[c].step = "idle" \/ cycle[d].step = "idle"

SnapInv == TypeInv /\ OneActive /\ SnapshotsCurrent

\* A step of the one active cycle concerns no other.
LEMMA OneActiveStep ==
  ASSUME SnapInv, NEW c \in Cycles, NEW next, cycle' = [cycle EXCEPT ![c] = next],
         cycle[c].step # "idle" \/ AllIdle,
         SnapshotCurrent(c)'
  PROVE  OneActive' /\ SnapshotsCurrent'
<1>. USE DEF SnapInv, TypeInv
<1>1. ASSUME NEW d \in Cycles, d # c
      PROVE  cycle'[d] = cycle[d] /\ cycle'[d].step = "idle"
  BY <1>1 DEF TypeOK, OneActive, AllIdle
<1>2. OneActive'
  BY <1>1 DEF OneActive
<1>3. ASSUME NEW d \in Cycles, d # c PROVE SnapshotCurrent(d)'
  BY <1>1, <1>3 DEF SnapshotCurrent, Pending
<1>. QED BY <1>2, <1>3 DEF SnapshotsCurrent

\* A cycle that is not past its scan has nothing pending.
LEMMA NothingPending ==
  ASSUME NEW c \in Cycles, cycle'[c].step \in {"idle", "ack", "ackPeer"}
  PROVE  SnapshotCurrent(c)'
BY DEF SnapshotCurrent, Pending

LEMMA ProceedCurrent ==
  ASSUME SnapInv, NEW c \in Cycles, NEW outcome, NEW next,
         Proceed(c, outcome, next), cycle[c].step # "idle",
         cycle' = [cycle EXCEPT ![c] = next] => SnapshotCurrent(c)'
  PROVE  OneActive' /\ SnapshotsCurrent'
<1>1. CASE outcome = "done"
  <2>1. cycle' = [cycle EXCEPT ![c] = next]
    BY <1>1 DEF Proceed
  <2>. QED BY <2>1, OneActiveStep
<1>2. CASE outcome # "done"
  <2>1. cycle' = [cycle EXCEPT ![c] = IdleCycle]
    BY <1>2 DEF Proceed
  <2>2. cycle'[c].step = "idle"
    BY <2>1 DEF SnapInv, TypeInv, TypeOK, IdleCycle
  <2>. QED BY <2>1, <2>2, NothingPending, OneActiveStep
<1>. QED BY <1>1, <1>2

\* A cycle that has dealt with its path has the others still before it.
LEMMA NextPathCurrent ==
  ASSUME SnapInv, NEW c \in Cycles, NEW next, cycle' = [cycle EXCEPT ![c] = next],
         cycle[c].at \in Paths,
         cycle[c].step \in {"reuse", "apply", "merge", "conflict"},
         next.at = cycle[c].at + 1,
         next.local = cycle[c].local, next.remote = cycle[c].remote,
         \/ /\ next.reused = cycle[c].reused \cup {cycle[c].at}
            /\ next.step \in {"reuse", "apply"}
            /\ next.step = "reuse" => cycle[c].step = "reuse"
            /\ next.step = "apply" => cycle[c].step # "reuse"
         \/ /\ next.reused = cycle[c].reused
            /\ cycle[c].step # "reuse" /\ next.step = "apply"
         \/ /\ next.reused = cycle[c].reused
            /\ cycle[c].step = "reuse" /\ next.step = "reuse"
            /\ index' = index,
         \A p \in Peers, x \in Paths : x # cycle[c].at => index'[p][x] = index[p][x]
  PROVE  SnapshotCurrent(c)'
<1>. USE DEF SnapInv, TypeInv
<1>1. cycle'[c] = next
  BY DEF TypeOK
<1>2. /\ cycle[c].at \in Nat /\ \A x \in Paths : x \in Nat
      /\ Initiator \in Peers /\ Responder \in Peers
  BY PeersAreTwo DEF Paths
<1>3. ASSUME NEW x \in Pending(c)'
      PROVE  /\ index'[Initiator][x] = cycle[c].local[x]
             /\ index'[Responder][x] = cycle[c].remote[x]
  <2>1. x \in Pending(c)
    BY <1>1, <1>2, <1>3 DEF Pending
  <2>2. /\ index[Initiator][x] = cycle[c].local[x]
        /\ index[Responder][x] = cycle[c].remote[x]
    BY <2>1 DEF SnapshotsCurrent, SnapshotCurrent
  <2>3. x \in Paths /\ (x # cycle[c].at \/ index' = index)
    BY <1>1, <1>2, <1>3 DEF Pending
  <2>. QED BY <1>2, <2>2, <2>3
<1>4. next.step \in {"reuse", "apply"}
  OBVIOUS
<1>. QED BY <1>1, <1>3, <1>4 DEF SnapshotCurrent

LEMMA NextPathFields ==
  ASSUME TypeOK, NEW c \in Cycles
  PROVE  /\ NextPath(c).at = cycle[c].at + 1
         /\ NextPath(c).local = cycle[c].local /\ NextPath(c).remote = cycle[c].remote
         /\ NextPath(c).reused = cycle[c].reused
         /\ NextPath(c).step = IF cycle[c].step = "reuse" THEN "reuse" ELSE "apply"
         /\ NextPathReused(c).at = cycle[c].at + 1
         /\ NextPathReused(c).local = cycle[c].local
         /\ NextPathReused(c).remote = cycle[c].remote
         /\ NextPathReused(c).reused = cycle[c].reused \cup {cycle[c].at}
         /\ NextPathReused(c).step = IF cycle[c].step = "reuse" THEN "reuse" ELSE "apply"
<1>1. cycle[c] \in Cycle
  BY DEF TypeOK
<1>. QED BY <1>1 DEF NextPath, NextPathReused, Cycle

\* Transfers touch the index at the cycle's path and nowhere else.
LEMMA CommitElsewhere ==
  ASSUME TypeOK, NEW q \in Peers, NEW y \in Paths, NEW entry, NEW outcome,
         Commit(q, y, entry, outcome)
  PROVE  \A p \in Peers, x \in Paths : x # y => index'[p][x] = index[p][x]
BY DEF Commit, TypeOK

LEMMA TransfersCurrent ==
  ASSUME SnapInv, NEW c \in Cycles, NEW outcome,
         \/ ReuseOnPeer(c, outcome) \/ ReuseLocal(c, outcome)
         \/ Push(c, outcome) \/ Pull(c, outcome) \/ Delete(c, outcome)
  PROVE  OneActive' /\ SnapshotsCurrent'
<1>. USE DEF SnapInv, TypeInv
<1>1. cycle[c].at \in Paths /\ cycle[c].step \in {"reuse", "apply"}
  BY DEF ReuseOnPeer, ReuseLocal, Push, Pull, Delete, Applying, AtPath
<1>2. \A p \in Peers, x \in Paths : x # cycle[c].at => index'[p][x] = index[p][x]
  <2>1. PICK q, entry : q \in Peers /\ Commit(q, cycle[c].at, entry, outcome)
    <3>1. CASE ReuseOnPeer(c, outcome) \/ Push(c, outcome)
      BY <3>1, PeersAreTwo DEF ReuseOnPeer, Push, Install
    <3>2. CASE ReuseLocal(c, outcome) \/ Pull(c, outcome)
      BY <3>2, PeersAreTwo DEF ReuseLocal, Pull, Install
    <3>3. CASE Delete(c, outcome)
      <4>1. DeleteAt(c) \in Peers
        BY PeersAreTwo DEF DeleteAt
      <4>. QED BY <3>3, <4>1 DEF Delete, Remove
    <3>. QED BY <3>1, <3>2, <3>3
  <2>. QED BY <1>1, <2>1, CommitElsewhere
<1>3. PICK next : /\ Proceed(c, outcome, next)
                  /\ \/ cycle[c].step = "reuse" /\ next = NextPathReused(c)
                     \/ cycle[c].step = "apply" /\ next = NextPath(c)
  BY DEF ReuseOnPeer, ReuseLocal, Push, Pull, Delete, Applying, AtPath
<1>4. ASSUME cycle' = [cycle EXCEPT ![c] = next] PROVE SnapshotCurrent(c)'
  BY <1>1, <1>2, <1>3, <1>4, NextPathFields, NextPathCurrent
<1>. QED BY <1>1, <1>3, <1>4, ProceedCurrent

LEMMA MergesCurrent ==
  ASSUME SnapInv, NEW c \in Cycles, NEW outcome,
         MergeLocal(c) \/ MergePeer(c, outcome)
  PROVE  OneActive' /\ SnapshotsCurrent'
<1>. USE DEF SnapInv, TypeInv
<1>1. CASE MergeLocal(c)
  <2>. DEFINE next == [cycle[c] EXCEPT !.step = "merge"]
  <2>1. cycle[c].at \in Paths \ cycle[c].reused /\ cycle[c].step = "apply"
    BY <1>1 DEF MergeLocal, Applying, AtPath
  <2>2. cycle' = [cycle EXCEPT ![c] = next]
    BY <1>1 DEF MergeLocal, TypeOK
  <2>3. /\ cycle'[c].step = "merge" /\ cycle'[c].at = cycle[c].at
        /\ cycle'[c].local = cycle[c].local /\ cycle'[c].remote = cycle[c].remote
        /\ cycle'[c].reused = cycle[c].reused
    BY <2>2 DEF TypeOK, Cycle
  <2>4. /\ index'[Responder] = index[Responder]
        /\ \A x \in Paths : x # cycle[c].at => index'[Initiator][x] = index[Initiator][x]
    BY <1>1, PeersAreTwo DEF MergeLocal, TypeOK
  <2>5. ASSUME NEW x \in Pending(c)'
        PROVE  x \in Pending(c) /\ x # cycle[c].at
    BY <2>1, <2>3 DEF Pending, Paths
  <2>6. cycle[c].at \in Pending(c)
    BY <2>1 DEF Pending, Paths
  <2>7. index[Responder][cycle[c].at] = RemoteEntry(c)
    BY <2>6 DEF SnapshotsCurrent, SnapshotCurrent, RemoteEntry
  <2>8. SnapshotCurrent(c)'
    <3>1. ASSUME NEW x \in Pending(c)'
          PROVE  /\ index'[Initiator][x] = cycle'[c].local[x]
                 /\ index'[Responder][x] = cycle'[c].remote[x]
      BY <2>3, <2>4, <2>5 DEF SnapshotsCurrent, SnapshotCurrent, Pending
    <3>2. index'[Responder][cycle'[c].at] = RemoteEntry(c)'
      BY <2>3, <2>4, <2>7 DEF RemoteEntry
    <3>. QED BY <2>3, <3>1, <3>2 DEF SnapshotCurrent
  <2>. QED BY <2>1, <2>2, <2>8, OneActiveStep
<1>2. CASE MergePeer(c, outcome)
  <2>1. cycle[c].at \in Paths /\ cycle[c].step = "merge"
    BY <1>2 DEF MergePeer, AtPath
  <2>2. \A p \in Peers, x \in Paths : x # cycle[c].at => index'[p][x] = index[p][x]
    BY <1>2, PeersAreTwo DEF MergePeer, TypeOK
  <2>3. Proceed(c, outcome, NextPath(c))
    BY <1>2 DEF MergePeer
  <2>4. ASSUME cycle' = [cycle EXCEPT ![c] = NextPath(c)] PROVE SnapshotCurrent(c)'
    BY <2>1, <2>2, <2>4, NextPathFields, NextPathCurrent
  <2>. QED BY <2>1, <2>3, <2>4, ProceedCurrent
<1>. QED BY <1>1, <1>2

LEMMA ConflictsCurrent ==
  ASSUME SnapInv, NEW c \in Cycles, NEW outcome,
         ConflictCheck(c) \/ ConflictPreserve(c, outcome) \/ ConflictPush(c, outcome)
  PROVE  OneActive' /\ SnapshotsCurrent'
<1>. USE DEF SnapInv, TypeInv
<1>. DEFINE x == cycle[c].at
<1>1. x \in Paths \ cycle[c].reused /\ cycle[c] \in Cycle
  BY DEF ConflictCheck, ConflictPreserve, ConflictPush, Applying, AtPath, TypeOK, PlanKept
<1>2. CASE ConflictCheck(c)
  <2>. DEFINE next == [cycle[c] EXCEPT !.step = "preserve", !.data = disk[Initiator][x].hash]
  <2>1. cycle' = [cycle EXCEPT ![c] = next] /\ cycle[c].step = "apply" /\ index' = index
    BY <1>2 DEF ConflictCheck, Applying, AtPath, TypeOK
  <2>2. /\ cycle'[c].step = "preserve" /\ cycle'[c].at = cycle[c].at
        /\ cycle'[c].local = cycle[c].local /\ cycle'[c].remote = cycle[c].remote
        /\ cycle'[c].reused = cycle[c].reused
    BY <2>1 DEF TypeOK, Cycle
  <2>3. Pending(c)' = Pending(c)
    BY <2>1, <2>2 DEF Pending
  <2>4. SnapshotCurrent(c)'
    BY <2>1, <2>2, <2>3 DEF SnapshotsCurrent, SnapshotCurrent
  <2>. QED BY <2>1, <2>4, OneActiveStep
<1>3. CASE ConflictPreserve(c, outcome)
  <2>. DEFINE next == [cycle[c] EXCEPT !.step = "conflict"]
  <2>1. Proceed(c, outcome, next) /\ cycle[c].step = "preserve"
    BY <1>3 DEF ConflictPreserve, AtPath
  <2>2. /\ index'[Responder] = index[Responder]
        /\ \A y \in Paths : y # x => index'[Initiator][y] = index[Initiator][y]
    BY <1>3, PeersAreTwo DEF ConflictPreserve, Commit, TypeOK
  <2>3. x \in Pending(c)
    BY <1>1, <2>1 DEF Pending, Paths
  <2>4. index[Responder][x] = RemoteEntry(c)
    BY <2>3 DEF SnapshotsCurrent, SnapshotCurrent, RemoteEntry
  <2>5. ASSUME cycle' = [cycle EXCEPT ![c] = next] PROVE SnapshotCurrent(c)'
    <3>1. /\ cycle'[c].step = "conflict" /\ cycle'[c].at = cycle[c].at
          /\ cycle'[c].local = cycle[c].local /\ cycle'[c].remote = cycle[c].remote
          /\ cycle'[c].reused = cycle[c].reused
      BY <2>5 DEF TypeOK, Cycle
    <3>2. ASSUME NEW y \in Pending(c)' PROVE y \in Pending(c) /\ y # x
      BY <1>1, <2>1, <3>1 DEF Pending, Paths
    <3>3. ASSUME NEW y \in Pending(c)'
          PROVE  /\ index'[Initiator][y] = cycle'[c].local[y]
                 /\ index'[Responder][y] = cycle'[c].remote[y]
      BY <2>2, <3>1, <3>2 DEF SnapshotsCurrent, SnapshotCurrent, Pending
    <3>4. index'[Responder][cycle'[c].at] = RemoteEntry(c)'
      BY <2>2, <2>4, <3>1 DEF RemoteEntry
    <3>. QED BY <3>1, <3>3, <3>4 DEF SnapshotCurrent
  <2>. HIDE DEF next
  <2>. QED BY <2>1, <2>5, ProceedCurrent
<1>4. CASE ConflictPush(c, outcome)
  <2>. DEFINE next == [NextPath(c) EXCEPT !.data = NoContent]
  <2>1. Proceed(c, outcome, next) /\ cycle[c].step = "conflict"
    BY <1>4 DEF ConflictPush, AtPath
  <2>2. \A p \in Peers, y \in Paths : y # x => index'[p][y] = index[p][y]
    BY <1>1, <1>4, PeersAreTwo, CommitElsewhere DEF ConflictPush
  <2>3. /\ next.at = cycle[c].at + 1 /\ next.step = "apply"
        /\ next.local = cycle[c].local /\ next.remote = cycle[c].remote
        /\ next.reused = cycle[c].reused
    BY <1>1, <2>1, NextPathFields, NextPathTyped DEF Cycle
  <2>. HIDE DEF next
  <2>4. ASSUME cycle' = [cycle EXCEPT ![c] = next] PROVE SnapshotCurrent(c)'
    BY <1>1, <2>1, <2>2, <2>3, <2>4, NextPathCurrent
  <2>. QED BY <2>1, <2>4, ProceedCurrent
<1>. QED BY <1>2, <1>3, <1>4

\* Here a cycle begins, or a folder's peer is found, with no other cycle under way.
LEMMA SnapshotStepsCurrent ==
  ASSUME SnapInv, NEW c \in Cycles, NEW outcome,
         ProbeResponder(c) \/ Begin(c) => AllIdle,
         \/ ProbeResponder(c) \/ Begin(c) \/ ScanLocal(c) \/ List(c, outcome)
         \/ NoReuse(c) \/ ReuseDone(c) \/ Skip(c)
         \/ Fail(c) \/ Abort(c) \/ ApplyDone(c) \/ AckLocal(c) \/ AckPeer(c, outcome)
  PROVE  OneActive' /\ SnapshotsCurrent'
<1>. USE DEF SnapInv, TypeInv
<1>1. cycle[c] \in Cycle
  BY DEF TypeOK
<1>2. SnapshotCurrent(c)
  BY DEF SnapshotsCurrent
<1>3. CASE ProbeResponder(c)
  <2>1. cycle' = cycle /\ AllIdle
    BY <1>3 DEF ProbeResponder
  <2>. QED BY <2>1, NothingPending DEF OneActive, SnapshotsCurrent, AllIdle
<1>4. CASE Begin(c)
  <2>1. AllIdle
    BY <1>4
  <2>. DEFINE next == [cycle[c] EXCEPT !.step = "scan", !.local = index[Initiator]]
  <2>2. cycle' = [cycle EXCEPT ![c] = next] /\ index' = index
    BY <1>4 DEF Begin, TypeOK
  <2>3. cycle'[c].step = "scan" /\ cycle'[c].local = index'[Initiator]
    BY <1>1, <2>2 DEF TypeOK, Cycle
  <2>4. SnapshotCurrent(c)'
    BY <2>3 DEF SnapshotCurrent, Pending
  <2>. QED BY <2>1, <2>2, <2>4, OneActiveStep
<1>5. CASE ScanLocal(c)
  <2>. DEFINE scanned == Scan(Initiator, cycle[c].local, disk[Initiator])
              next == [cycle[c] EXCEPT !.step = "list", !.local = scanned]
  <2>1. cycle' = [cycle EXCEPT ![c] = next] /\ cycle[c].step = "scan"
    BY <1>5 DEF ScanLocal, TypeOK
  <2>2. index'[Initiator] = scanned
    BY <1>5, PeersAreTwo DEF ScanLocal, TypeOK
  <2>3. cycle'[c].step = "list" /\ cycle'[c].local = index'[Initiator]
    BY <1>1, <2>1, <2>2 DEF TypeOK, Cycle
  <2>4. SnapshotCurrent(c)'
    BY <2>3 DEF SnapshotCurrent, Pending
  <2>. QED BY <2>1, <2>4, OneActiveStep
<1>6. CASE List(c, outcome)
  <2>. DEFINE scanned == Scan(Responder, index[Responder], disk[Responder])
              next == IF Halted(cycle[c].local, scanned) THEN IdleCycle
                      ELSE [cycle[c] EXCEPT !.step = "reuse", !.remote = scanned]
  <2>1. Proceed(c, outcome, next) /\ cycle[c].step = "list"
    BY <1>6 DEF List
  <2>2. index'[Responder] = scanned /\ index'[Initiator] = index[Initiator]
    BY <1>6, PeersAreTwo DEF List, TypeOK
  <2>3. index[Initiator] = cycle[c].local
    BY <1>2, <2>1 DEF SnapshotCurrent
  <2>4. ASSUME cycle' = [cycle EXCEPT ![c] = next] PROVE SnapshotCurrent(c)'
    <3>1. CASE Halted(cycle[c].local, scanned)
      <4>1. cycle'[c].step = "idle"
        BY <2>4, <3>1 DEF TypeOK, IdleCycle
      <4>. QED BY <4>1, NothingPending
    <3>2. CASE ~Halted(cycle[c].local, scanned)
      <4>1. /\ cycle'[c].step = "reuse" /\ cycle'[c].local = cycle[c].local
            /\ cycle'[c].remote = scanned
        BY <1>1, <2>4, <3>2 DEF TypeOK, Cycle
      <4>. QED BY <2>2, <2>3, <4>1 DEF SnapshotCurrent, Pending
    <3>. QED BY <3>1, <3>2
  <2>. HIDE DEF next
  <2>. QED BY <2>1, <2>4, ProceedCurrent
<1>7. CASE NoReuse(c)
  <2>1. /\ cycle[c].at \in Paths /\ cycle[c].step = "reuse"
        /\ cycle' = [cycle EXCEPT ![c] = NextPath(c)] /\ index' = index
    BY <1>7 DEF NoReuse, AtPath
  <2>. QED BY <2>1, NextPathFields, NextPathCurrent, OneActiveStep
<1>8. CASE Skip(c)
  <2>1. /\ cycle[c].at \in Paths /\ cycle[c].step = "apply"
        /\ cycle' = [cycle EXCEPT ![c] = NextPath(c)] /\ index' = index
    BY <1>8 DEF Skip, AtPath
  <2>. QED BY <2>1, NextPathFields, NextPathCurrent, OneActiveStep
<1>9. CASE ReuseDone(c)
  <2>. DEFINE next == [cycle[c] EXCEPT !.step = "apply", !.at = 1]
  <2>1. cycle' = [cycle EXCEPT ![c] = next] /\ index' = index /\ cycle[c].step = "reuse"
    BY <1>9 DEF ReuseDone, TypeOK
  <2>2. /\ cycle'[c].step = "apply" /\ cycle'[c].local = cycle[c].local
        /\ cycle'[c].remote = cycle[c].remote /\ cycle'[c].reused = cycle[c].reused
    BY <1>1, <2>1 DEF TypeOK, Cycle
  <2>3. Pending(c)' \subseteq Pending(c)
    BY <2>1, <2>2 DEF Pending
  <2>4. SnapshotCurrent(c)'
    BY <1>2, <2>1, <2>2, <2>3 DEF SnapshotCurrent
  <2>. QED BY <2>1, <2>4, OneActiveStep
<1>10. CASE Fail(c)
  <2>1. cycle' = [cycle EXCEPT ![c] = IdleCycle] /\ cycle[c].step # "idle"
    BY <1>10 DEF Fail, Blocked, Applying, AtPath
  <2>2. cycle'[c].step = "idle"
    BY <2>1 DEF TypeOK, IdleCycle
  <2>. QED BY <2>1, <2>2, NothingPending, OneActiveStep
<1>11. CASE Abort(c)
  <2>1. cycle' = [cycle EXCEPT ![c] = IdleCycle] /\ cycle[c].step # "idle"
    BY <1>11 DEF Abort
  <2>2. cycle'[c].step = "idle"
    BY <2>1 DEF TypeOK, IdleCycle
  <2>. QED BY <2>1, <2>2, NothingPending, OneActiveStep
<1>12. CASE ApplyDone(c)
  <2>1. /\ cycle' = [cycle EXCEPT ![c] = [cycle[c] EXCEPT !.step = "ack"]]
        /\ cycle[c].step = "apply"
    BY <1>12 DEF ApplyDone, TypeOK
  <2>2. cycle'[c].step = "ack"
    BY <1>1, <2>1 DEF TypeOK, Cycle
  <2>. QED BY <2>1, <2>2, NothingPending, OneActiveStep
<1>13. CASE AckLocal(c)
  <2>1. /\ cycle' = [cycle EXCEPT ![c] =
                       [cycle[c] EXCEPT !.step = "ackPeer", !.local = index[Initiator]]]
        /\ cycle[c].step = "ack"
    BY <1>13 DEF AckLocal, TypeOK
  <2>2. cycle'[c].step = "ackPeer"
    BY <1>1, <2>1 DEF TypeOK, Cycle
  <2>. QED BY <2>1, <2>2, NothingPending, OneActiveStep
<1>14. CASE AckPeer(c, outcome)
  <2>1. Proceed(c, outcome, IdleCycle) /\ cycle[c].step = "ackPeer"
    BY <1>14 DEF AckPeer
  <2>2. ASSUME cycle' = [cycle EXCEPT ![c] = IdleCycle] PROVE SnapshotCurrent(c)'
    <3>1. cycle'[c].step = "idle"
      BY <2>2 DEF TypeOK, IdleCycle
    <3>. QED BY <3>1, NothingPending
  <2>. QED BY <2>1, <2>2, ProceedCurrent
<1>. QED BY <1>3, <1>4, <1>5, <1>6, <1>7, <1>8, <1>9, <1>10, <1>11, <1>12, <1>13, <1>14

LEMMA SnapInvInit == Init => SnapInv
<1>. SUFFICES ASSUME Init PROVE SnapInv
  OBVIOUS
<1>1. \A c \in Cycles : cycle[c].step = "idle"
  BY DEF Init, IdleCycle
<1>. QED BY <1>1, InitTyped
       DEF SnapInv, OneActive, SnapshotsCurrent, SnapshotCurrent, Pending

-------------------------------------------------------------------------------
(* Versions only grow, but by the step of a cycle that acts on an entry    *)
(* which has been replaced since the cycle read it.  Any number of         *)
(* processes may have cycles under way.                                    *)

LEMMA CommitAdvances ==
  ASSUME TypeOK, NEW q \in Peers, NEW y \in Paths, NEW entry, NEW outcome,
         Commit(q, y, entry, outcome), NEW p \in Peers, NEW x \in Paths,
         p = q /\ x = y => Leq(index[q][y].version, entry.version)
  PROVE  Leq(index[p][x].version, index'[p][x].version)
<1>1. index'[p][x] = index[p][x] \/ (p = q /\ x = y /\ index'[p][x] = entry)
  BY DEF Commit, TypeOK
<1>2. Leq(index[p][x].version, index[p][x].version)
  BY EntryFields, LeqReflexive DEF TypeOK
<1>. QED BY <1>1, <1>2

\* What a cycle plans for its path counts all that p's index counts there, if that
\* is still the entry the cycle has read.
LEMMA PlanAhead ==
  ASSUME TypeInv, NEW c \in Cycles, cycle[c].at \in Paths, NEW p \in Peers,
         ~Outdated(c, p, cycle[c].at),
         \/ cycle[c].step \in {"reuse", "apply", "preserve"}
         \/ cycle[c].step \in {"merge", "conflict"} /\ p = Responder
  PROVE  Leq(index[p][cycle[c].at].version, Plan(c).vector)
<1>1. /\ Leq(LocalEntry(c).version, Plan(c).vector)
      /\ Leq(RemoteEntry(c).version, Plan(c).vector)
  BY PathTyped DEF TypeInv
<1>2. index[p][cycle[c].at] = IF p = Initiator THEN LocalEntry(c) ELSE RemoteEntry(c)
  BY DEF Outdated, LocalEntry, RemoteEntry
<1>. QED BY <1>1, <1>2

\* The step of a cycle that commits something takes the cycle on.
LEMMA ProceedMoves ==
  ASSUME TypeOK, NEW c \in Cycles, NEW outcome, NEW next, Proceed(c, outcome, next),
         cycle[c].step # "idle", next.at # cycle[c].at \/ next.step # cycle[c].step
  PROVE  cycle'[c] # cycle[c]
<1>1. CASE outcome = "done"
  BY <1>1 DEF Proceed, TypeOK
<1>2. CASE outcome # "done"
  BY <1>2 DEF Proceed, TypeOK, IdleCycle
<1>. QED BY <1>1, <1>2

\* If the version of p's entry for x is taken back, then by a cycle's step from
\* another entry of p for x.
Advances(c, p, x) ==
  \/ Leq(index[p][x].version, index'[p][x].version)
  \/ cycle'[c] # cycle[c] /\ Outdated(c, p, x)

LEMMA TransfersAdvance ==
  ASSUME TypeInv, NEW c \in Cycles, NEW outcome,
         \/ ReuseOnPeer(c, outcome) \/ ReuseLocal(c, outcome)
         \/ Push(c, outcome) \/ Pull(c, outcome) \/ Delete(c, outcome),
         NEW p \in Peers, NEW x \in Paths
  PROVE  Advances(c, p, x)
<1>. USE DEF TypeInv
<1>1. cycle[c].at \in Paths /\ cycle[c].step \in {"reuse", "apply"}
  BY DEF ReuseOnPeer, ReuseLocal, Push, Pull, Delete, Applying, AtPath
<1>2. PICK q, entry : /\ q \in Peers
                      /\ Commit(q, cycle[c].at, entry, outcome)
                      /\ entry.version = Plan(c).vector
  <2>1. ASSUME NEW file PROVE LiveEntry(Plan(c).vector, file).version = Plan(c).vector
    BY DEF LiveEntry
  <2>2. Tombstone(Plan(c).vector).version = Plan(c).vector
    BY DEF Tombstone
  <2>3. CASE ReuseOnPeer(c, outcome) \/ Push(c, outcome)
    BY <2>1, <2>3, PeersAreTwo DEF ReuseOnPeer, Push, Install
  <2>4. CASE ReuseLocal(c, outcome) \/ Pull(c, outcome)
    BY <2>1, <2>4, PeersAreTwo DEF ReuseLocal, Pull, Install
  <2>5. CASE Delete(c, outcome)
    <3>1. DeleteAt(c) \in Peers
      BY PeersAreTwo DEF DeleteAt
    <3>. QED BY <2>2, <2>5, <3>1 DEF Delete, Remove
  <2>. QED BY <2>3, <2>4, <2>5
<1>3. cycle'[c] # cycle[c]
  <2>1. PICK next \in {NextPath(c), NextPathReused(c)} : Proceed(c, outcome, next)
    BY DEF ReuseOnPeer, ReuseLocal, Push, Pull, Delete
  <2>2. next.at # cycle[c].at
    BY <1>1, <2>1, NextPathFields DEF Paths
  <2>. QED BY <1>1, <2>1, <2>2, ProceedMoves
<1>4. ASSUME ~Outdated(c, p, x), p = q /\ x = cycle[c].at
      PROVE  Leq(index[q][cycle[c].at].version, entry.version)
  BY <1>1, <1>2, <1>4, PlanAhead
<1>. QED BY <1>1, <1>2, <1>3, <1>4, CommitAdvances DEF Advances

LEMMA MergesAdvance ==
  ASSUME TypeInv, NEW c \in Cycles, NEW outcome,
         MergeLocal(c) \/ MergePeer(c, outcome),
         NEW p \in Peers, NEW x \in Paths
  PROVE  Advances(c, p, x)
<1>. USE DEF TypeInv
<1>1. Leq(index[p][x].version, index[p][x].version)
  BY EntryFields, LeqReflexive DEF TypeOK
<1>2. CASE MergeLocal(c)
  <2>1. cycle[c].at \in Paths /\ cycle[c].step = "apply"
    BY <1>2 DEF MergeLocal, Applying, AtPath
  <2>2. LocalEntry(c) \in Entry
    BY <2>1, PathTyped
  <2>3. \/ index'[p][x] = index[p][x]
        \/ /\ p = Initiator /\ x = cycle[c].at
           /\ index'[p][x].version = Plan(c).vector
    BY <1>2, <2>1, <2>2, PeersAreTwo DEF MergeLocal, TypeOK, Entry
  <2>4. cycle'[c] # cycle[c]
    BY <1>2, <2>1 DEF MergeLocal, TypeOK, Cycle
  <2>. QED BY <1>1, <2>1, <2>3, <2>4, PlanAhead DEF Advances
<1>3. CASE MergePeer(c, outcome)
  <2>1. cycle[c].at \in Paths /\ cycle[c].step = "merge"
    BY <1>3 DEF MergePeer, AtPath
  <2>2. \/ index'[p][x] = index[p][x]
        \/ /\ p = Responder /\ x = cycle[c].at
           /\ index'[p][x].version = Plan(c).vector
    BY <1>3, <2>1, PeersAreTwo DEF MergePeer, TypeOK, Entry
  <2>3. cycle'[c] # cycle[c]
    BY <1>3, <2>1, NextPathFields, ProceedMoves DEF MergePeer, Paths
  <2>. QED BY <1>1, <2>1, <2>2, <2>3, PlanAhead DEF Advances
<1>. QED BY <1>2, <1>3

LEMMA ConflictsAdvance ==
  ASSUME TypeInv, NEW c \in Cycles, NEW outcome,
         ConflictCheck(c) \/ ConflictPreserve(c, outcome) \/ ConflictPush(c, outcome),
         NEW p \in Peers, NEW x \in Paths
  PROVE  Advances(c, p, x)
<1>. USE DEF TypeInv
<1>1. cycle[c].at \in Paths \ cycle[c].reused
  BY DEF ConflictCheck, ConflictPreserve, ConflictPush, Applying, AtPath, PlanKept
<1>2. LiveEntry(Plan(c).vector, FileOf(LocalEntry(c))).version = Plan(c).vector
  BY DEF LiveEntry
<1>3. CASE ConflictCheck(c)
  BY <1>3, EntryFields, LeqReflexive DEF ConflictCheck, TypeOK, Advances
<1>4. CASE ConflictPreserve(c, outcome)
  <2>. DEFINE next == [cycle[c] EXCEPT !.step = "conflict"]
  <2>1. cycle[c].step = "preserve" /\ Proceed(c, outcome, next)
    BY <1>4 DEF ConflictPreserve, AtPath
  <2>2. next.step # cycle[c].step
    BY <2>1 DEF TypeOK, Cycle
  <2>3. cycle'[c] # cycle[c]
    <3>. HIDE DEF next
    <3>. QED BY <2>1, <2>2, ProceedMoves
  <2>. QED BY <1>1, <1>2, <1>4, <2>1, <2>3, PlanAhead, CommitAdvances, PeersAreTwo
           DEF ConflictPreserve, Advances
<1>5. CASE ConflictPush(c, outcome)
  <2>. DEFINE next == [NextPath(c) EXCEPT !.data = NoContent]
  <2>1. cycle[c].step = "conflict" /\ Proceed(c, outcome, next)
    BY <1>5 DEF ConflictPush, AtPath
  <2>2. next.at # cycle[c].at
    BY <1>1, NextPathFields, NextPathTyped DEF Cycle, Paths
  <2>3. cycle'[c] # cycle[c]
    <3>. HIDE DEF next
    <3>. QED BY <2>1, <2>2, ProceedMoves
  <2>. QED BY <1>1, <1>2, <1>5, <2>1, <2>3, PlanAhead, CommitAdvances, PeersAreTwo
           DEF ConflictPush, Advances
<1>. QED BY <1>3, <1>4, <1>5

LEMMA SnapshotStepsAdvance ==
  ASSUME TypeInv, NEW c \in Cycles, NEW outcome,
         \/ ProbeResponder(c) \/ Begin(c) \/ ScanLocal(c) \/ List(c, outcome)
         \/ NoReuse(c) \/ ReuseDone(c) \/ Skip(c)
         \/ Fail(c) \/ Abort(c) \/ ApplyDone(c) \/ AckLocal(c) \/ AckPeer(c, outcome),
         NEW p \in Peers, NEW x \in Paths, index'[p][x] # Absent
  PROVE  Advances(c, p, x)
<1>. USE DEF TypeInv
<1>1. Leq(index[p][x].version, index[p][x].version)
  BY EntryFields, LeqReflexive DEF TypeOK
<1>2. CASE ProbeResponder(c) \/ List(c, outcome)
  <2>1. index' = [index EXCEPT ![Responder] = Scan(Responder, @, disk[Responder])]
    BY <1>2, PeersAreTwo DEF ProbeResponder, List, TypeOK
  <2>2. Leq(index[Responder][x].version,
            Scan(Responder, index[Responder], disk[Responder])[x].version)
    BY PeersAreTwo, ScanAdvances DEF TypeOK
  <2>. QED BY <1>1, <2>1, <2>2, PeersAreTwo DEF TypeOK, Advances
<1>3. CASE ScanLocal(c)
  <2>1. /\ cycle[c].local \in [Paths -> Entry] /\ cycle[c].step = "scan"
        /\ disk[Initiator] \in [Paths -> File \cup {NoFile}]
    BY <1>3, CycleTyped, PeersAreTwo DEF ScanLocal, TypeOK
  <2>2. Leq(cycle[c].local[x].version,
            Scan(Initiator, cycle[c].local, disk[Initiator])[x].version)
    BY <2>1, PeersAreTwo, ScanAdvances
  <2>3. CASE p = Initiator
    <3>1. index'[p][x] = Scan(Initiator, cycle[c].local, disk[Initiator])[x]
      BY <1>3, <2>3, PeersAreTwo DEF ScanLocal, TypeOK
    <3>2. cycle'[c] # cycle[c]
      BY <1>3, <2>1 DEF ScanLocal, TypeOK, Cycle
    <3>3. ~Outdated(c, p, x) => cycle[c].local[x] = index[p][x]
      BY <2>1, <2>3 DEF Outdated
    <3>. QED BY <2>2, <3>1, <3>2, <3>3 DEF Advances
  <2>4. CASE p # Initiator
    BY <1>1, <1>3, <2>4 DEF ScanLocal, TypeOK, Advances
  <2>. QED BY <2>3, <2>4
<1>4. CASE AckLocal(c) \/ AckPeer(c, outcome)
  <2>1. PICK q, acked : q \in Peers /\ index' = [index EXCEPT ![q] = Prune(@, acked)]
    BY <1>4, PeersAreTwo DEF AckLocal, AckPeer
  <2>2. index'[p][x] = index[p][x]
    BY <2>1, PruneKeepsOrDrops DEF TypeOK
  <2>. QED BY <1>1, <2>2 DEF Advances
<1>5. CASE \/ Begin(c) \/ NoReuse(c) \/ ReuseDone(c) \/ Skip(c)
           \/ Fail(c) \/ Abort(c) \/ ApplyDone(c)
  <2>1. index' = index
    BY <1>5 DEF Begin, NoReuse, ReuseDone, Skip, Fail, Abort, ApplyDone
  <2>. QED BY <1>1, <2>1 DEF Advances
<1>. QED BY <1>2, <1>3, <1>4, <1>5

\* However many processes have cycles under way, and whatever users and faults do, a
\* scan, transfer, merge or conflict makes an index forget a change it counted only
\* where the cycle acts on an entry that another process has replaced since.
THEOREM VersionsOnlyGrow == Spec => VersionsNeverRegress
<1>1. TypeInv /\ [Next]_vars =>
        [\A p \in Peers, x \in Paths :
           index'[p][x] # Absent /\ ~Leq(index[p][x].version, index'[p][x].version)
           => \E c \in Cycles : cycle'[c] # cycle[c] /\ Outdated(c, p, x)]_vars
  <2>. SUFFICES ASSUME TypeInv, Next, NEW p \in Peers, NEW x \in Paths,
                       index'[p][x] # Absent
                PROVE  \/ Leq(index[p][x].version, index'[p][x].version)
                       \/ \E c \in Cycles : cycle'[c] # cycle[c] /\ Outdated(c, p, x)
    OBVIOUS
  <2>1. ASSUME NEW q \in Peers, NEW y \in Paths,
               UserDelete(q, y) \/ \E h \in Contents : UserWrite(q, y, h)
        PROVE  Leq(index[p][x].version, index'[p][x].version)
    <3>1. index' = index
      BY <2>1 DEF UserDelete, UserWrite
    <3>. QED BY <3>1, EntryFields, LeqReflexive DEF TypeInv, TypeOK
  <2>2. \/ Leq(index[p][x].version, index'[p][x].version)
        \/ \E c \in Cycles : Advances(c, p, x)
    BY <2>1, NextCases, SnapshotStepsAdvance, TransfersAdvance, MergesAdvance,
       ConflictsAdvance
  <2>. QED BY <2>2 DEF Advances
<1>. QED BY <1>1, TypeInvInvariant, PTL DEF Spec, VersionsNeverRegress
===============================================================================
