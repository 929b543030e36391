------------------------------ MODULE FolderSync ------------------------------
(***************************************************************************)
(* One folder kept in sync between two installations: the initiator's      *)
(* cycle (planFolder, applyAction and what they call in                    *)
(* internal/commands/now.go), the forced-command handlers that serve it on *)
(* the responder (internal/commands/serve.go), the user editing both       *)
(* copies at any moment, and calls and processes that fail half way.       *)
(*                                                                         *)
(* Grain of atomicity.  A handler runs under the responder's folder lock,  *)
(* and the initiator's write and commit under its own; each is one step    *)
(* whose outcome says how far it got.  A call is one step too: what it     *)
(* reads at the initiator before, and what happens there after the         *)
(* handler, commute with everything the responder does.                    *)
(*                                                                         *)
(* Not modelled here: directory manifests, ignored paths, metadata other   *)
(* than the modification time, and the binding and lock that a cycle       *)
(* checks first.                                                           *)
(***************************************************************************)
EXTENDS Engine

CONSTANTS
  Cycles,          \* initiator processes' cycles that may be under way at once
  Process,         \* the operating-system process each of them runs in
  Writers,         \* installations whose user creates and modifies files
  Deleters,        \* installations whose user deletes files
  MaxEdits,        \* bound: user operations in a behaviour
  EditsPerSecond,  \* how many user operations fall in a second
  FaultKinds,      \* the faults this environment has
  MaxFaults,       \* bound: faults in a behaviour
  MaxEvents        \* bound: user operations and faults together

ASSUME FolderSyncAssumption ==
  /\ Writers \subseteq Peers /\ Deleters \subseteq Peers
  /\ MaxEdits \in Nat /\ MaxFaults \in Nat /\ MaxEvents \in Nat
  /\ EditsPerSecond \in Nat \ {0}
  /\ FaultKinds \subseteq {"abort", "replyLost", "uncommitted", "torn", "ackLost"}
  /\ DOMAIN Process = Cycles

VARIABLES
  disk,     \* disk[p][x]: the file at path x of p's copy, or NoFile
  trash,    \* trash[p]: contents in p's recoverable trash
  copies,   \* copies[p]: p's conflict copies, [path, stamp, hash]
  index,    \* index[p][x]: p's committed entry for x
  cycle,    \* cycle[c]: the state of cycle c of the initiator
  edits,    \* user operations so far; the wall clock
  faults    \* faults so far

vars == <<disk, trash, copies, index, cycle, edits, faults>>

Outcomes == {"done"} \cup (FaultKinds \cap {"replyLost", "uncommitted", "torn"})

Steps == {"idle", "scan", "list", "reuse", "apply", "merge",
          "preserve", "conflict", "ack", "ackPeer"}

NoEntries == [x \in Paths |-> Absent]
IdleCycle == [step   |-> "idle", at |-> 1,
              local  |-> NoEntries,     \* the initiator's index it works from
              remote |-> NoEntries,     \* the responder's listing it works from
              reused |-> {},            \* paths prepareContentReuse has settled
              data   |-> NoContent]     \* the winning bytes of a conflict

Cycle == [step : Steps, at : 1 .. NumPaths + 1,
          local : [Paths -> Entry], remote : [Paths -> Entry],
          reused : SUBSET Paths, data : Contents \cup {NoContent}]

Copy == [path : Paths, stamp : Nat, hash : Contents]

TypeOK ==
  /\ disk   \in [Peers -> [Paths -> File \cup {NoFile}]]
  /\ trash  \in [Peers -> SUBSET Contents]
  /\ copies \in [Peers -> SUBSET Copy]
  /\ index  \in [Peers -> [Paths -> Entry]]
  /\ cycle  \in [Cycles -> Cycle]
  /\ edits  \in 0 .. MaxEdits
  /\ faults \in 0 .. MaxFaults

Init ==
  /\ disk   = [p \in Peers |-> [x \in Paths |-> NoFile]]
  /\ trash  = [p \in Peers |-> {}]
  /\ copies = [p \in Peers |-> {}]
  /\ index  = [p \in Peers |-> NoEntries]
  /\ cycle  = [c \in Cycles |-> IdleCycle]
  /\ edits  = 0
  /\ faults = 0

-------------------------------------------------------------------------------
(* The users. *)

UserWrite(p, x, h) ==
  /\ edits < MaxEdits /\ edits + faults < MaxEvents
  /\ p \in Writers
  /\ disk' = [disk EXCEPT ![p][x] = [hash |-> h, mtime |-> edits]]
  /\ edits' = edits + 1
  /\ UNCHANGED <<trash, copies, index, cycle, faults>>

UserDelete(p, x) ==
  /\ edits < MaxEdits /\ edits + faults < MaxEvents
  /\ p \in Deleters
  /\ disk[p][x] # NoFile
  /\ disk' = [disk EXCEPT ![p][x] = NoFile]
  /\ edits' = edits + 1
  /\ UNCHANGED <<trash, copies, index, cycle, faults>>

-------------------------------------------------------------------------------
(* How far a step gets.  "done": all of it.  "replyLost": the handler did  *)
(* all of it and the initiator does not learn so.  "uncommitted": the file *)
(* operation happened and the index commit did not.  "torn": the old file  *)
(* is out of the way and the new one not yet in place.  After anything but *)
(* "done" the cycle has failed.                                            *)

Proceed(c, outcome, next) ==
  /\ outcome # "done" => faults < MaxFaults /\ edits + faults < MaxEvents
  /\ faults' = IF outcome = "done" THEN faults ELSE faults + 1
  /\ cycle' = [cycle EXCEPT ![c] = IF outcome = "done" THEN next ELSE IdleCycle]

Commit(p, x, entry, outcome) ==
  index' = IF outcome \in {"done", "replyLost"}
           THEN [index EXCEPT ![p][x] = entry] ELSE index

\* Slips: nothing is moved to the trash; an absent file is moved there too.
TrashedNothing(file) == {}
TrashedAlways(file)  == {file.hash}

\* The bytes a write or delete moves to the trash before it touches the path.
Trashed(file) == IF file = NoFile THEN {} ELSE {file.hash}

\* apply.WriteWithMetadata and the commit after it.
Install(p, x, file, v, outcome) ==
  /\ outcome = "torn" => disk[p][x] # NoFile
  /\ disk' = [disk EXCEPT ![p][x] = IF outcome = "torn" THEN NoFile ELSE file]
  /\ trash' = [trash EXCEPT ![p] = @ \cup Trashed(disk[p][x])]
  /\ Commit(p, x, LiveEntry(v, file), outcome)
  /\ UNCHANGED <<copies, edits>>

\* apply.Delete and the commit after it; a missing file is an error.
CanRemove(p, x) == disk[p][x] # NoFile
Remove(p, x, v, outcome) ==
  /\ CanRemove(p, x)
  /\ outcome # "torn"
  /\ disk' = [disk EXCEPT ![p][x] = NoFile]
  /\ trash' = [trash EXCEPT ![p] = @ \cup Trashed(disk[p][x])]
  /\ Commit(p, x, Tombstone(v), outcome)
  /\ UNCHANGED <<copies, edits>>

-------------------------------------------------------------------------------
(* A cycle's scan, listing and plan. *)

\* lockFolderCycle: one cycle at a time in each process.
ProcessFree(c) ==
  \A d \in Cycles : Process[d] = Process[c] => cycle[d].step = "idle"

\* findPeerForShared: the responder lists, hence scans and saves, before the
\* initiator has looked at its own copy.  The listing itself is not used.
ProbeResponder(c) ==
  /\ ProcessFree(c)
  /\ index' = [index EXCEPT ![Responder] = Scan(Responder, @, disk[Responder])]
  /\ UNCHANGED <<disk, trash, copies, cycle, edits, faults>>

\* loadIndex: the entries the scan will be compared with.
Begin(c) ==
  /\ ProcessFree(c)
  /\ cycle' = [cycle EXCEPT ![c].step = "scan", ![c].local = index[Initiator]]
  /\ UNCHANGED <<disk, trash, copies, index, edits, faults>>

\* scanShare and index.Save, outside the folder lock.
ScanLocal(c) ==
  LET scanned == Scan(Initiator, cycle[c].local, disk[Initiator]) IN
  /\ cycle[c].step = "scan"
  /\ index' = [index EXCEPT ![Initiator] = scanned]
  /\ cycle' = [cycle EXCEPT ![c].step = "list", ![c].local = scanned]
  /\ UNCHANGED <<disk, trash, copies, edits, faults>>

\* The responder scans, saves and lists under its folder lock; the initiator
\* plans from the two indexes, or stops there if the plan deletes too much.
List(c, outcome) ==
  LET scanned == Scan(Responder, index[Responder], disk[Responder]) IN
  /\ cycle[c].step = "list"
  /\ outcome \in {"done", "replyLost"}
  /\ index' = [index EXCEPT ![Responder] = scanned]
  /\ Proceed(c, outcome,
             IF Halted(cycle[c].local, scanned) THEN IdleCycle
             ELSE [cycle[c] EXCEPT !.step = "reuse", !.remote = scanned])
  /\ UNCHANGED <<disk, trash, copies, edits>>

-------------------------------------------------------------------------------
(* The path a cycle has come to, what its snapshots say of it, and what    *)
(* the plan is to do.                                                      *)

LocalEntry(c)  == cycle[c].local[cycle[c].at]
RemoteEntry(c) == cycle[c].remote[cycle[c].at]
Plan(c)        == Decide(LocalEntry(c), RemoteEntry(c))

\* A resurrection moves the live side's file in the direction of its source.
IsPush(c) == Plan(c).kind \in {"push", "resurrect"} /\ Plan(c).source = Initiator
IsPull(c) == Plan(c).kind \in {"pull", "resurrect"} /\ Plan(c).source = Responder

AtPath(c, step) == cycle[c].step = step /\ cycle[c].at \in Paths

\* cycle c, done with its path, at the next one.
NextPath(c) == [cycle[c] EXCEPT !.step = IF @ = "reuse" THEN "reuse" ELSE "apply",
                                !.at = @ + 1]

NextPathReused(c) == [NextPath(c) EXCEPT !.reused = @ \cup {cycle[c].at}]

(* prepareContentReuse: for every path to be sent in either direction, look *)
(* for a file at the destination that already has the bytes.                *)

\* Files at p that entries says have the content h and that really have it.
Sources(p, entries, h) ==
  {s \in Paths : IsLive(entries[s]) /\ entries[s].hash = h /\ disk[p][s].hash = h}

\* fileReuser in serve.go, called for a push.
ReuseOnPeer(c, outcome) ==
  /\ AtPath(c, "reuse")
  /\ IsPush(c)
  /\ Sources(Responder, index[Responder], LocalEntry(c).hash) # {}
  /\ Install(Responder, cycle[c].at, FileOf(LocalEntry(c)), Plan(c).vector, outcome)
  /\ Proceed(c, outcome, NextPathReused(c))

\* reuseLocal, called for a pull: the content it looks for, and commits under
\* the responder's vector, is that of the initiator's own entry.
ReuseLocal(c, outcome) ==
  /\ AtPath(c, "reuse")
  /\ IsPull(c)
  /\ Sources(Initiator, cycle[c].local, LocalEntry(c).hash) # {}
  /\ outcome # "replyLost"
  /\ Install(Initiator, cycle[c].at, FileOf(LocalEntry(c)), Plan(c).vector, outcome)
  /\ Proceed(c, outcome, NextPathReused(c))

\* Nothing to send, or nothing to reuse.
NoReuse(c) ==
  /\ AtPath(c, "reuse")
  /\ IsPush(c) => Sources(Responder, index[Responder], LocalEntry(c).hash) = {}
  /\ IsPull(c) => Sources(Initiator, cycle[c].local, LocalEntry(c).hash) = {}
  /\ cycle' = [cycle EXCEPT ![c] = NextPath(c)]
  /\ UNCHANGED <<disk, trash, copies, index, edits, faults>>

ReuseDone(c) ==
  /\ cycle[c].step = "reuse" /\ cycle[c].at = NumPaths + 1
  /\ cycle' = [cycle EXCEPT ![c].step = "apply", ![c].at = 1]
  /\ UNCHANGED <<disk, trash, copies, index, edits, faults>>

-------------------------------------------------------------------------------
(* planFolder's loop over the actions: one applyAction per path. *)

Applying(c) == AtPath(c, "apply") /\ cycle[c].at \notin cycle[c].reused

Skip(c) ==
  /\ AtPath(c, "apply")
  /\ cycle[c].at \in cycle[c].reused \/ Plan(c).kind = "none"
  /\ cycle' = [cycle EXCEPT ![c] = NextPath(c)]
  /\ UNCHANGED <<disk, trash, copies, index, edits, faults>>

\* pushFile: the bytes sent are the file's now, and must hash to the entry.
CanPush(c) == disk[Initiator][cycle[c].at].hash = LocalEntry(c).hash
Push(c, outcome) ==
  /\ Applying(c) /\ IsPush(c) /\ CanPush(c)
  /\ Install(Responder, cycle[c].at, FileOf(LocalEntry(c)), Plan(c).vector, outcome)
  /\ Proceed(c, outcome, NextPath(c))

\* pullFile: the bytes read must hash to what was listed.
CanPull(c) == disk[Responder][cycle[c].at].hash = RemoteEntry(c).hash
Pull(c, outcome) ==
  /\ Applying(c) /\ IsPull(c) /\ CanPull(c)
  /\ outcome # "replyLost"
  /\ Install(Initiator, cycle[c].at, FileOf(RemoteEntry(c)), Plan(c).vector, outcome)
  /\ Proceed(c, outcome, NextPath(c))

\* applyLocalDelete and the fileDeleter handler.
DeleteAt(c) == IF Plan(c).source = Responder THEN Initiator ELSE Responder
Delete(c, outcome) ==
  /\ Applying(c) /\ Plan(c).kind = "delete"
  /\ DeleteAt(c) = Initiator => outcome # "replyLost"
  /\ Remove(DeleteAt(c), cycle[c].at, Plan(c).vector, outcome)
  /\ Proceed(c, outcome, NextPath(c))

\* Merge: the initiator commits its snapshot's entry under the merged vector,
MergeLocal(c) ==
  /\ Applying(c) /\ Plan(c).kind = "merge"
  /\ index' = [index EXCEPT ![Initiator][cycle[c].at] =
                              [LocalEntry(c) EXCEPT !.version = Plan(c).vector]]
  /\ cycle' = [cycle EXCEPT ![c].step = "merge"]
  /\ UNCHANGED <<disk, trash, copies, edits, faults>>

\* then the responder puts that vector on whatever entry it has.
CanMergePeer(c) == index[Responder][cycle[c].at] # Absent
MergePeer(c, outcome) ==
  /\ AtPath(c, "merge") /\ CanMergePeer(c)
  /\ outcome \in {"done", "replyLost"}
  /\ index' = [index EXCEPT ![Responder][cycle[c].at].version = Plan(c).vector]
  /\ Proceed(c, outcome, NextPath(c))
  /\ UNCHANGED <<disk, trash, copies, edits>>

-------------------------------------------------------------------------------
(* applyConflict.  The responder always loses, so its name in the suffix   *)
(* is constant and the suffix comes down to the second of the later        *)
(* modification time.                                                      *)

Stamp(c) ==
  LET latest == IF RemoteEntry(c).mtime > LocalEntry(c).mtime
                THEN RemoteEntry(c).mtime ELSE LocalEntry(c).mtime
  IN  latest \div EditsPerSecond
CopyOf(c, h) == [path |-> cycle[c].at, stamp |-> Stamp(c), hash |-> h]

CopyExists(p, c) ==
  \E k \in copies[p] : k.path = cycle[c].at /\ k.stamp = Stamp(c)

\* Neither side has the copy's name, the winner is there, the loser unchanged.
CanConflict(c) ==
  /\ ~CopyExists(Initiator, c) /\ ~CopyExists(Responder, c)
  /\ disk[Initiator][cycle[c].at] # NoFile
  /\ disk[Responder][cycle[c].at].hash = RemoteEntry(c).hash

\* Slip: the winner is sent before the loser is preserved.
ConflictCheckUnpreserved(c) ==
  /\ Applying(c) /\ Plan(c).kind = "conflict" /\ CanConflict(c)
  /\ cycle' = [cycle EXCEPT ![c].step = "conflict",
                            ![c].data = disk[Initiator][cycle[c].at].hash]
  /\ UNCHANGED <<disk, trash, copies, index, edits, faults>>

ConflictCheck(c) ==
  /\ Applying(c) /\ Plan(c).kind = "conflict" /\ CanConflict(c)
  /\ cycle' = [cycle EXCEPT ![c].step = "preserve",
                            ![c].data = disk[Initiator][cycle[c].at].hash]
  /\ UNCHANGED <<disk, trash, copies, index, edits, faults>>

\* The loser's bytes beside the initiator's file, then the merged vector.
CanPreserve(c) == ~CopyExists(Initiator, c)
ConflictPreserve(c, outcome) ==
  /\ AtPath(c, "preserve") /\ CanPreserve(c)
  /\ outcome \in {"done", "uncommitted"}
  /\ copies' = [copies EXCEPT ![Initiator] = @ \cup {CopyOf(c, RemoteEntry(c).hash)}]
  /\ Commit(Initiator, cycle[c].at,
            LiveEntry(Plan(c).vector, FileOf(LocalEntry(c))), outcome)
  /\ Proceed(c, outcome, [cycle[c] EXCEPT !.step = "conflict"])
  /\ UNCHANGED <<disk, trash, edits>>

\* conflictWriter: the responder renames its file to the conflict copy and
\* installs the winner.
CanConflictPush(c) ==
  /\ cycle[c].data = LocalEntry(c).hash
  /\ disk[Responder][cycle[c].at] # NoFile => ~CopyExists(Responder, c)
ConflictPush(c, outcome) ==
  LET x    == cycle[c].at
      lost == disk[Responder][x]
  IN
  /\ AtPath(c, "conflict") /\ CanConflictPush(c)
  /\ outcome = "torn" => lost # NoFile
  /\ copies' = [copies EXCEPT ![Responder] =
                  IF lost = NoFile THEN @ ELSE @ \cup {CopyOf(c, lost.hash)}]
  /\ disk' = [disk EXCEPT ![Responder][x] =
                IF outcome = "torn" THEN NoFile ELSE FileOf(LocalEntry(c))]
  /\ Commit(Responder, x, LiveEntry(Plan(c).vector, FileOf(LocalEntry(c))), outcome)
  /\ Proceed(c, outcome, [NextPath(c) EXCEPT !.data = NoContent])
  /\ UNCHANGED <<trash, edits>>

-------------------------------------------------------------------------------
(* A step whose own checks fail ends the cycle with an error: no later     *)
(* path is looked at and nothing is acknowledged.                          *)

Blocked(c) ==
  \/ Applying(c) /\ IsPush(c) /\ ~CanPush(c)
  \/ Applying(c) /\ IsPull(c) /\ ~CanPull(c)
  \/ Applying(c) /\ Plan(c).kind = "delete" /\ ~CanRemove(DeleteAt(c), cycle[c].at)
  \/ Applying(c) /\ Plan(c).kind = "conflict" /\ ~CanConflict(c)
  \/ AtPath(c, "merge") /\ ~CanMergePeer(c)
  \/ AtPath(c, "preserve") /\ ~CanPreserve(c)
  \/ AtPath(c, "conflict") /\ ~CanConflictPush(c)

\* Slip: a cycle that failed still acknowledges.
FailAcknowledging(c) ==
  /\ Blocked(c)
  /\ cycle' = [cycle EXCEPT ![c].step = "ack"]
  /\ UNCHANGED <<disk, trash, copies, index, edits, faults>>

Fail(c) ==
  /\ Blocked(c)
  /\ cycle' = [cycle EXCEPT ![c] = IdleCycle]
  /\ UNCHANGED <<disk, trash, copies, index, edits, faults>>

\* The process dies, or a call does not reach the peer.  That the last call of
\* a cycle, its acknowledgement, does not is a kind of its own.
Abort(c) ==
  /\ faults < MaxFaults /\ edits + faults < MaxEvents
  /\ cycle[c].step # "idle"
  /\ IF cycle[c].step = "ackPeer" THEN "ackLost" \in FaultKinds ELSE "abort" \in FaultKinds
  /\ cycle' = [cycle EXCEPT ![c] = IdleCycle]
  /\ faults' = faults + 1
  /\ UNCHANGED <<disk, trash, copies, index, edits>>

-------------------------------------------------------------------------------
(* acknowledgeCycle. *)

ApplyDone(c) ==
  /\ cycle[c].step = "apply" /\ cycle[c].at = NumPaths + 1
  /\ cycle' = [cycle EXCEPT ![c].step = "ack"]
  /\ UNCHANGED <<disk, trash, copies, index, edits, faults>>

\* The index acknowledged is kept in local, for its GlobalVector to be sent.
AckLocal(c) ==
  /\ cycle[c].step = "ack"
  /\ index' = [index EXCEPT ![Initiator] = Prune(@, GlobalVector(@))]
  /\ cycle' = [cycle EXCEPT ![c].step = "ackPeer", ![c].local = index[Initiator]]
  /\ UNCHANGED <<disk, trash, copies, edits, faults>>

\* Slip: the peer is not told.
AckPeerUntold(c, outcome) ==
  /\ cycle[c].step = "ackPeer"
  /\ outcome = "done"
  /\ Proceed(c, outcome, IdleCycle)
  /\ UNCHANGED <<disk, trash, copies, index, edits>>

\* A failed acknowledgement does not fail the cycle: either way it is over.
AckPeer(c, outcome) ==
  /\ cycle[c].step = "ackPeer"
  /\ outcome \in {"done", "replyLost"}
  /\ index' = [index EXCEPT ![Responder] = Prune(@, GlobalVector(cycle[c].local))]
  /\ Proceed(c, outcome, IdleCycle)
  /\ UNCHANGED <<disk, trash, copies, edits>>

-------------------------------------------------------------------------------
CycleStep(c, outcome) ==
  \/ Begin(c) \/ ScanLocal(c) \/ List(c, outcome)
  \/ ReuseOnPeer(c, outcome) \/ ReuseLocal(c, outcome) \/ NoReuse(c) \/ ReuseDone(c)
  \/ Skip(c) \/ Push(c, outcome) \/ Pull(c, outcome) \/ Delete(c, outcome)
  \/ MergeLocal(c) \/ MergePeer(c, outcome)
  \/ ConflictCheck(c) \/ ConflictPreserve(c, outcome) \/ ConflictPush(c, outcome)
  \/ Fail(c) \/ ApplyDone(c) \/ AckLocal(c) \/ AckPeer(c, outcome)

Next ==
  \/ \E p \in Peers, x \in Paths, h \in Contents : UserWrite(p, x, h)
  \/ \E p \in Peers, x \in Paths : UserDelete(p, x)
  \/ \E c \in Cycles : ProbeResponder(c)
  \/ \E c \in Cycles, outcome \in Outcomes : CycleStep(c, outcome)
  \/ \E c \in Cycles : Abort(c)

Spec == Init /\ [][Next]_vars

\* The daemon starts cycles forever (start-up, debounce, retry and periodic
\* timers) and a started cycle runs to its end; users and faults owe nothing.
Fairness == \A c \in Cycles : WF_vars(CycleStep(c, "done"))
FairSpec == Spec /\ Fairness

-------------------------------------------------------------------------------
(* Properties. *)

Other(p) == IF p = Initiator THEN Responder ELSE Initiator

\* engine.Action: "Vector is the version vector both replicas must hold for
\* Path once this action lands".  So when every action of a cycle has landed,
\* both indexes hold the same version of every path.
AckedVersionsAgree ==
  \A c \in Cycles : cycle[c].step = "ack" =>
    \A x \in Paths : index[Initiator][x].version = index[Responder][x].version

\* A tombstone is pruned only once the peer is not left with a file that the
\* deletion had superseded: its entry is a tombstone too, or pruned as well.
PrunedShared(x) ==
  \A p \in Peers :
    index[p][x].deleted /\ index'[p][x] = Absent => ~IsLive(index[Other(p)][x])

PrunedWhenShared == [][\A x \in Paths : PrunedShared(x)]_vars

\* Cycle c is about to act on p's entry for x as it was when the cycle read it,
\* and p has another entry by now.
Outdated(c, p, x) ==
  LET snapshot == IF p = Initiator THEN cycle[c].local ELSE cycle[c].remote IN
  /\ snapshot[x] # index[p][x]
  /\ \/ cycle[c].step = "scan" /\ p = Initiator
     \/ cycle[c].step \in {"reuse", "apply", "preserve"} /\ x = cycle[c].at
     \/ cycle[c].step \in {"merge", "conflict"} /\ p = Responder /\ x = cycle[c].at

\* No scan, commit or merge takes an entry to a version that forgets a change
\* the entry counted; only pruning does, and a cycle that acts on an entry
\* which another process has replaced since the cycle read it: planFolder saves
\* its scan, and commits, over whatever the index holds by then (now.go:398).
VersionsNeverRegress ==
  [][\A p \in Peers, x \in Paths :
       index'[p][x] # Absent /\ ~Leq(index[p][x].version, index'[p][x].version)
       => \E c \in Cycles : cycle'[c] # cycle[c] /\ Outdated(c, p, x)]_vars

\* Bytes p holds under the path, in its trash or as a conflict copy.
Stored(p) == {disk[p][x].hash : x \in Paths} \cup trash[p] \cup {k.hash : k \in copies[p]}

\* Synchronisation never destroys bytes: whatever a cycle or a handler does,
\* and however far it gets, a content leaves a replica only by the user's hand.
NothingDestroyed ==
  [][edits' = edits => \A p \in Peers : Stored(p) \ {NoContent} \subseteq Stored(p)']_vars

\* A conflict's winner is sent to the responder, where it takes the loser's
\* place, only once the loser's bytes are safe beside the initiator's file.
LoserPreservedFirst ==
  \A c \in Cycles : cycle[c].step = "conflict" =>
    CopyOf(c, RemoteEntry(c).hash) \in copies[Initiator]

\* WriteConflictWinnerWithSuffix "uses a precomputed suffix so both replicas
\* preserve the losing version under exactly the same name" (apply.go): copies
\* of one name are of the same bytes.
ConflictCopiesAgree ==
  \A k \in copies[Initiator], m \in copies[Responder] :
    k.path = m.path /\ k.stamp = m.stamp => k.hash = m.hash

\* "A path one side has never heard of ... is always a creation, never inferred
\* as a deletion" (engine.go): no cycle comes to delete a file at an
\* installation whose index does not know the path.
UnknownNeverDeleted ==
  \A c \in Cycles : Applying(c) /\ Plan(c).kind = "delete" =>
    index[DeleteAt(c)][cycle[c].at] # Absent

\* A change a scan finds is news to the peer: the version it mints is never one
\* the peer's entry already counts, which would make the peer drop the change.
FreshNotDominated(x) ==
  \A p \in Peers :
    /\ index'[p][x] = ScanEntry(p, index[p][x], disk[p][x])
    /\ index'[p][x].version[p] > index[p][x].version[p]
    => ~Leq(index'[p][x].version, index[Other(p)][x].version)

FreshChangeNotDominated == [][\A x \in Paths : FreshNotDominated(x)]_vars

\* "Equal means both vectors record exactly the same knowledge" (vector.go):
\* entries with equal versions are of the same content.
SameContent(x) ==
  index[Initiator][x].version = index[Responder][x].version =>
    index[Initiator][x].hash = index[Responder][x].hash

EqualVersionsSameContent == \A x \in Paths : SameContent(x)

Converged == \A x \in Paths : disk[Initiator][x].hash = disk[Responder][x].hash
Convergence == <>[]Converged

==============================================================================
