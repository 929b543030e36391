------------------------------ MODULE Directories ------------------------------
(***************************************************************************)
(* Reconciling directories.  They have no version: a cycle compares both   *)
(* sides with the manifests the initiator's index held before its scan     *)
(* (engine.planDirectories), deletes bottom up, then restores manifests    *)
(* bottom up, at the initiator and at the responder in turn.               *)
(*                                                                         *)
(* A manifest contains the modification time, which every change of the    *)
(* directory's children renews, also those of a cycle itself.  Manifests   *)
(* are only compared for equality and only for one path, so a new one is   *)
(* the least number no manifest of that path has anywhere.                 *)
(*                                                                         *)
(* Files appear by what they do to directories: an out-of-set child keeps  *)
(* its directory, a transferred file renews the one it is put into.        *)
(***************************************************************************)
EXTENDS Naturals, FiniteSets

CONSTANTS
  Initiator, Responder,
  Dirs,
  Above,         \* Above[d]: the directories that d is in
  NoDir,         \* a directory that is not there
  Nowhere,       \* no directory
  MaxEdits,      \* bound: user operations in a behaviour
  MaxTransfers,  \* bound: transferred files in a behaviour
  MaxFailures    \* bound: cycles that fail by a fault

Peers == {Initiator, Responder}

\* As many as one path can have in the two folders, the two indexes and the
\* three sets of manifests that a cycle compares, and a new one.
Manifests == 0 .. 7

ASSUME DirectoriesAssumption ==
  /\ Initiator # Responder
  /\ Above \in [Dirs -> SUBSET Dirs]
  /\ \A d \in Dirs : d \notin Above[d]
  /\ \A d \in Dirs : \A a \in Above[d] : Above[a] \subseteq Above[d]
  /\ NoDir \notin Manifests /\ Nowhere \notin Dirs
  /\ MaxEdits \in Nat /\ MaxTransfers \in Nat /\ MaxFailures \in Nat

VARIABLES
  disk,       \* disk[p][d]: the manifest of directory d at p, or NoDir
  strays,     \* strays[p]: the directories with a child outside the synced set
  index,      \* index[p]: the manifests saved in p's index
  cycle,      \* the initiator's cycle
  removed,    \* history: removed[p], what p's user removed and has not got back
  settled,    \* history: the last cycle that ended did all it had planned
  edits, transfers, failures

vars == <<disk, strays, index, cycle, removed, settled, edits, transfers, failures>>

Tree == [Dirs -> Manifests \cup {NoDir}]
NoDirs == [d \in Dirs |-> NoDir]

IdleCycle == [step     |-> "idle",
              previous |-> NoDirs,    \* the initiator's index before the scan
              local    |-> NoDirs,
              remote   |-> NoDirs,
              deletes  |-> {},        \* deletions to do
              restores |-> {},        \* manifests to restore
              at       |-> Nowhere,   \* the directory at work
              gone     |-> [p \in Peers |-> {}],  \* history: removed, as planned from
              kept     |-> {},        \* history: strays, and
              seen     |-> {}]        \* directories, when one was inspected

Cycle == [step : {"idle", "list", "files", "apply", "move", "send"},
          previous : Tree, local : Tree, remote : Tree,
          deletes : SUBSET Dirs, restores : SUBSET Dirs, at : Dirs \cup {Nowhere},
          gone : [Peers -> SUBSET Dirs], kept : SUBSET Dirs, seen : SUBSET Dirs]

TypeOK ==
  /\ disk    \in [Peers -> Tree]
  /\ \A p \in Peers, d \in Dirs : disk[p][d] # NoDir => \A a \in Above[d] : disk[p][a] # NoDir
  /\ strays  \in [Peers -> SUBSET Dirs]
  /\ index   \in [Peers -> Tree]
  /\ cycle   \in Cycle
  /\ removed \in [Peers -> SUBSET Dirs]
  /\ settled \in BOOLEAN
  /\ edits \in 0 .. MaxEdits /\ transfers \in 0 .. MaxTransfers /\ failures \in 0 .. MaxFailures

Init ==
  /\ disk    = [p \in Peers |-> NoDirs]
  /\ strays  = [p \in Peers |-> {}]
  /\ index   = [p \in Peers |-> NoDirs]
  /\ cycle   = IdleCycle
  /\ removed = [p \in Peers |-> {}]
  /\ settled = TRUE
  /\ edits = 0 /\ transfers = 0 /\ failures = 0

-------------------------------------------------------------------------------
(* The directory tree. *)

Other(p) == IF p = Initiator THEN Responder ELSE Initiator
Below(d) == {e \in Dirs : d \in Above[e]}
There(p, d) == disk[p][d] # NoDir
Depth(d) == Cardinality(Above[d])
Parents(d) == {a \in Above[d] : Depth(a) + 1 = Depth(d)}

\* A manifest of d that nothing else has: that of a directory just changed.
New(d) ==
  LET inUse == {disk[p][d] : p \in Peers} \cup {index[p][d] : p \in Peers}
                 \cup {cycle.previous[d], cycle.local[d], cycle.remote[d]}
  IN CHOOSE m \in Manifests \ inUse : \A k \in Manifests \ inUse : m <= k

\* Slip: only children that are synced keep a directory.
EmptyOfSynced(p, d) == \A e \in Below(d) : ~There(p, e)

Empty(p, d) == d \notin strays[p] /\ \A e \in Below(d) : ~There(p, e)

\* p's tree when the directories ds have new manifests.
Renewed(p, ds) == [e \in Dirs |-> IF e \in ds THEN New(e) ELSE disk[p][e]]

\* Slip: parents are not created.
MissingIgnored(p, d) == {}

\* What misses above d at p, and would be created with it.
Missing(p, d) == {a \in Above[d] : ~There(p, a)}

-------------------------------------------------------------------------------
(* The users. *)

UserMake(p, d) ==
  /\ edits < MaxEdits
  /\ ~There(p, d) /\ \A a \in Above[d] : There(p, a)
  /\ disk' = [disk EXCEPT ![p] = Renewed(p, {d} \cup Parents(d))]
  /\ removed' = [removed EXCEPT ![p] = @ \ {d}]
  /\ edits' = edits + 1
  /\ UNCHANGED <<strays, index, cycle, settled, transfers, failures>>

\* Changing d's mode, or the names in it.
UserChange(p, d) ==
  /\ edits < MaxEdits
  /\ There(p, d)
  /\ disk' = [disk EXCEPT ![p] = Renewed(p, {d})]
  /\ edits' = edits + 1
  /\ UNCHANGED <<strays, index, cycle, removed, settled, transfers, failures>>

\* Putting something into d that is ignored, or neither file nor directory.
UserStray(p, d) ==
  /\ edits < MaxEdits
  /\ There(p, d) /\ d \notin strays[p]
  /\ disk' = [disk EXCEPT ![p] = Renewed(p, {d})]
  /\ strays' = [strays EXCEPT ![p] = @ \cup {d}]
  /\ edits' = edits + 1
  /\ UNCHANGED <<index, cycle, removed, settled, transfers, failures>>

\* p's tree without d and what is below it.
Without(p, d) == [e \in Dirs |-> IF e \in {d} \cup Below(d) THEN NoDir
                                 ELSE Renewed(p, Parents(d))[e]]

UserRemove(p, d) ==
  /\ edits < MaxEdits
  /\ There(p, d)
  /\ disk' = [disk EXCEPT ![p] = Without(p, d)]
  /\ strays' = [strays EXCEPT ![p] = @ \ ({d} \cup Below(d))]
  /\ removed' = [removed EXCEPT ![p] = @ \cup {e \in {d} \cup Below(d) : There(p, e)}]
  /\ edits' = edits + 1
  /\ UNCHANGED <<index, cycle, settled, transfers, failures>>

-------------------------------------------------------------------------------
(* The plan. *)

\* Slip: the manifests to compare with are loaded after the scan is saved.
RememberedScan == disk[Initiator]
Remembered     == index[Initiator]

\* scanShare, and the index saved before any call.
Scan ==
  /\ cycle.step = "idle"
  /\ cycle' = [IdleCycle EXCEPT !.step = "list",
                                !.previous = Remembered,
                                !.local = disk[Initiator],
                                !.gone[Initiator] = removed[Initiator]]
  /\ index' = [index EXCEPT ![Initiator] = disk[Initiator]]
  /\ UNCHANGED <<disk, strays, removed, settled, edits, transfers, failures>>

Actions(previous, left, right) ==
  LET LeftChanged(d)  == left[d] # previous[d]
      RightChanged(d) == right[d] # previous[d]
      Converged(d)    == LeftChanged(d) /\ RightChanged(d) /\ left[d] = right[d]
  IN {d \in Dirs : (LeftChanged(d) \/ RightChanged(d)) /\ ~Converged(d)}

\* The side whose manifest, or whose missing directory, counts: the one that
\* changed; of two, one that still has the directory, and first the initiator.
Source(d, previous, left, right) ==
  IF \/ right[d] = previous[d]
     \/ left[d] # previous[d] /\ left[d] # NoDir
  THEN Initiator ELSE Responder

IsDelete(d, previous, left, right) ==
  \/ left[d] = NoDir /\ right[d] = previous[d]
  \/ right[d] = NoDir /\ left[d] = previous[d]

Planned(d) == Source(d, cycle.previous, cycle.local, cycle.remote)

\* fileLister, and planDirectories on its answer.
List ==
  LET remote == disk[Responder]
      actions == Actions(cycle.previous, cycle.local, remote)
      deletes == {d \in actions : IsDelete(d, cycle.previous, cycle.local, remote)}
  IN
  /\ cycle.step = "list"
  /\ cycle' = [cycle EXCEPT !.step = "files", !.remote = remote,
                            !.gone[Responder] = removed[Responder],
                            !.deletes = deletes, !.restores = actions \ deletes]
  /\ index' = [index EXCEPT ![Responder] = remote]
  /\ UNCHANGED <<disk, strays, removed, settled, edits, transfers, failures>>

\* A file action in d, which renews d where the file arrives; the directories
\* above every file acted on are restored with the others.
TransferFile(p, d) ==
  /\ cycle.step = "files"
  /\ transfers < MaxTransfers
  /\ cycle.local[d] # NoDir /\ cycle.remote[d] # NoDir /\ There(p, d)
  /\ disk' = [disk EXCEPT ![p] = Renewed(p, {d})]
  /\ cycle' = [cycle EXCEPT !.restores = @ \cup (({d} \cup Above[d]) \ cycle.deletes)]
  /\ transfers' = transfers + 1
  /\ UNCHANGED <<strays, index, removed, settled, edits, failures>>
-------------------------------------------------------------------------------
(* Carrying out the plan: children before their parents. *)

Working == cycle.step \in {"files", "apply"}

\* sortByDepthDescending
Deepest(d, ds) == d \in ds /\ \A e \in ds : Depth(e) <= Depth(d)

CycleFails ==
  /\ cycle' = IdleCycle
  /\ settled' = FALSE

\* Where a deletion takes place: not where the directory is missing.
DeletedAt(d) == Other(Planned(d))

Deleted(d) == [cycle EXCEPT !.step = "apply", !.deletes = @ \ {d}, !.at = Nowhere,
                            !.kept = {}, !.seen = {}]

\* DeleteDirectory finds no child and goes on to the trash.
InspectEmpty(d) ==
  /\ Working /\ Deepest(d, cycle.deletes)
  /\ There(DeletedAt(d), d) /\ Empty(DeletedAt(d), d)
  /\ cycle' = [cycle EXCEPT !.step = "move", !.at = d, !.kept = strays[DeletedAt(d)],
                            !.seen = {e \in Dirs : There(DeletedAt(d), e)}]
  /\ UNCHANGED <<disk, strays, index, removed, settled, edits, transfers, failures>>

\* It retains a directory with children.  The responder then keeps its entry,
\* the initiator drops it all the same.
Retain(d) ==
  /\ Working /\ Deepest(d, cycle.deletes)
  /\ There(DeletedAt(d), d) /\ ~Empty(DeletedAt(d), d)
  /\ index' = IF DeletedAt(d) = Initiator THEN [index EXCEPT ![Initiator][d] = NoDir] ELSE index
  /\ cycle' = Deleted(d)
  /\ UNCHANGED <<disk, strays, removed, settled, edits, transfers, failures>>

\* trash.Move takes the directory with all that is in it by now.
Trash(d) ==
  LET p == DeletedAt(d) IN
  /\ There(p, d)
  /\ disk' = [disk EXCEPT ![p] = Without(p, d)]
  /\ strays' = [strays EXCEPT ![p] = @ \ ({d} \cup Below(d))]

Move(d) ==
  /\ cycle.step = "move" /\ cycle.at = d
  /\ Trash(d)
  /\ index' = [index EXCEPT ![DeletedAt(d)][d] = NoDir]
  /\ cycle' = Deleted(d)
  /\ UNCHANGED <<removed, settled, edits, transfers, failures>>

\* The directory is in the trash and its entry still in the index.
MoveUncommitted(d) ==
  /\ cycle.step = "move" /\ cycle.at = d
  /\ failures < MaxFailures /\ failures' = failures + 1
  /\ Trash(d)
  /\ CycleFails
  /\ UNCHANGED <<index, removed, edits, transfers>>

\* Deleting a directory that is no longer there is an error.
DeleteMissing(d) ==
  /\ \/ Working /\ Deepest(d, cycle.deletes)
     \/ cycle.step = "move" /\ cycle.at = d
  /\ ~There(DeletedAt(d), d)
  /\ CycleFails
  /\ UNCHANGED <<disk, strays, index, removed, edits, transfers, failures>>

\* Slip: only the initiator's manifests are restored.
RestoredLocal(d) == cycle.local[d]
Restored(d) == IF Planned(d) = Responder \/ cycle.local[d] = NoDir THEN cycle.remote[d]
               ELSE cycle.local[d]

\* Directories whose manifest is known on neither side are passed over.
ToRestore == {d \in cycle.restores : Restored(d) # NoDir}

\* ApplyDirectory at p: what misses above d is created, and d's parent is renewed
\* in any case, by the directory that probes whether the manifest can be applied.
Apply(p, d, manifest) ==
  LET made == Missing(p, d)
      renewed == made \cup {a \in UNION {Parents(e) : e \in made \cup {d}} : There(p, a)}
  IN
  /\ disk' = [disk EXCEPT ![p] = [Renewed(p, renewed) EXCEPT ![d] = manifest]]
  /\ removed' = [removed EXCEPT ![p] = @ \ ({d} \cup made)]

Restore(d) ==
  /\ Working /\ cycle.deletes = {} /\ Deepest(d, ToRestore)
  /\ Apply(Initiator, d, Restored(d))
  /\ index' = [index EXCEPT ![Initiator][d] = Restored(d)]
  /\ cycle' = [cycle EXCEPT !.step = "send", !.at = d]
  /\ UNCHANGED <<strays, settled, edits, transfers, failures>>

Sent(d) == [cycle EXCEPT !.step = "apply", !.restores = @ \ {d}, !.at = Nowhere]

\* directoryWriter
Send(d) ==
  /\ cycle.step = "send" /\ cycle.at = d
  /\ Apply(Responder, d, Restored(d))
  /\ index' = [index EXCEPT ![Responder][d] = Restored(d)]
  /\ cycle' = Sent(d)
  /\ UNCHANGED <<strays, settled, edits, transfers, failures>>

\* Either application stops before its commit, with the manifest or before it.
ApplyUncommitted(d) ==
  /\ \/ Working /\ cycle.deletes = {} /\ Deepest(d, ToRestore)
     \/ cycle.step = "send" /\ cycle.at = d
  /\ failures < MaxFailures /\ failures' = failures + 1
  /\ \E manifest \in {Restored(d), New(d)} :
       Apply(IF cycle.step = "send" THEN Responder ELSE Initiator, d, manifest)
  /\ CycleFails
  /\ UNCHANGED <<strays, index, edits, transfers>>

\* A call fails, before its handler ran or with its reply lost, or the initiator
\* stops.
Abort ==
  /\ cycle.step # "idle"
  /\ failures < MaxFailures /\ failures' = failures + 1
  /\ CycleFails
  /\ UNCHANGED <<disk, strays, index, removed, edits, transfers>>

Done ==
  /\ Working /\ cycle.deletes = {} /\ ToRestore = {}
  /\ cycle' = IdleCycle
  /\ settled' = TRUE
  /\ UNCHANGED <<disk, strays, index, removed, edits, transfers, failures>>

CycleStep ==
  \/ Scan \/ List \/ Done
  \/ \E d \in Dirs :
       InspectEmpty(d) \/ Retain(d) \/ Move(d) \/ DeleteMissing(d) \/ Restore(d) \/ Send(d)

Next ==
  \/ \E p \in Peers, d \in Dirs :
       UserMake(p, d) \/ UserChange(p, d) \/ UserStray(p, d) \/ UserRemove(p, d)
  \/ \E p \in Peers, d \in Dirs : TransferFile(p, d)
  \/ CycleStep
  \/ \E d \in Dirs : MoveUncommitted(d) \/ ApplyUncommitted(d)
  \/ Abort

Spec == Init /\ [][Next]_vars

\* A cycle that can go on does, and another one always starts; nothing makes users
\* or faults act.
FairSpec == Spec /\ WF_vars(CycleStep)

-------------------------------------------------------------------------------
(* Properties. *)

\* A directory that the user put into one already found empty goes along with it.
Deletion(p, d) ==
  edits' = edits /\ There(p, d) /\ disk'[p][d] = NoDir /\ (cycle.at = d \/ d \in cycle.seen)

\* An absent directory is a deletion only if it was there before: after a cycle
\* that did all it had planned, the next one deletes a directory on one side only
\* if the other side's user had removed it there.
OnlyRemovedDeleted ==
  [][settled => \A p \in Peers, d \in Dirs : Deletion(p, d) => d \in cycle.gone[Other(p)]]_vars

\* "the manifests last committed locally, exactly the role the old agreed-snapshot
\* baseline played" (engine.go): the same, whatever became of the cycle before.
CommittedIsAgreed ==
  [][\A p \in Peers, d \in Dirs : Deletion(p, d) => d \in cycle.gone[Other(p)]]_vars

\* "Non-empty directories are retained so ignored or otherwise out-of-set children
\* are never removed" (apply.go): a cycle takes away an out-of-set child only if
\* the user put it there after the directory had been found empty.
StraysRetained ==
  [][\A p \in Peers, d \in Dirs :
       edits' = edits /\ d \in strays[p] \ strays'[p] => cycle.step = "move" /\ d \notin cycle.kept]_vars

\* Once users and faults stop, retried cycles bring both trees to the same
\* directories with the same manifests, though their own work renews manifests.
Convergence == <>[](disk[Initiator] = disk[Responder])
==============================================================================
