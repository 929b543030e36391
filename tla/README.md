# l2syncd: a TLA+ model of two-way folder synchronisation

l2syncd keeps folders in sync between two installations over SSH. Each side
keeps an index of version vectors per file. One side, the *initiator* of a
folder (the installation with the smaller fingerprint), scans its copy, asks
the peer (the *responder*) to scan and list its own, plans one action per path
from the two indexes, and carries the plan out, calling a forced command on the
responder for everything that happens there. A daemon decides when. Which
folders are paired, and who may call whom, is arranged by commands that change
the configurations and the authorized keys of both ends. There is no central
server and no transaction across the two machines. Paths below are relative to
`src/internal/`.

The project models these parts, under users who act at any moment and under
failures. It checks the models with TLC on small instances, and proves their safety
with TLAPS for all instances: every invariant and every action property that the
runs below find to hold is also a theorem (section 5).

## 1. The system

| component | code | state it keeps | operations | modelled in |
|---|---|---|---|---|
| version vectors | `vector/` | none | compare, merge, increment | `VersionVector` |
| folder index | `index/index.go`, `commands/status.go`, `index_prune.go` | per path: vector, deleted, hash, metadata; directory manifests; acknowledged vectors | load, save, commit, acknowledge, prune, remove | `FolderIndex`, `IndexStore`, `FolderLock`, `Directories`, `Binding` |
| scan | `scan/` | none (reads disk and index) | reconcile disk and index | `FolderIndex`, `FolderLock`, `Directories` |
| planner, deletion guard | `engine/`, `guard/guard.go` | none | decide a path, plan a folder and its directories, halt on too many deletions | `Engine`, `Directories` |
| initiator cycle | `commands/now.go` | snapshots of both indexes during a cycle; per-process cycle locks | scan, list, reuse, apply, directories, acknowledge | `FolderSync`, `Directories` |
| served handlers | `commands/serve.go` | none between calls | list, read, write, delete, reuse, merge, conflict, acknowledge, directories, bind, unbind, return route | `FolderSync`, `Directories`, `Binding`, `Peering` |
| applying content | `apply/`, `trash/` | the folder and the trash | write, verify, reuse, delete, preserve a conflict's loser, directories | `FolderSync`, `FolderLock`, `Directories` |
| locks | `lock/` | flock'd files | folder, config, join, daemon locks | `FolderLock` |
| ignore rules | `commands/ignore.go`, `guard/marker.go` | the marker file | edit rules, read them in a scan | `FolderLock` |
| daemon | `commands/run.go`, `backoff.go`, `index/watch.go` | timers, backoff per peer, watches, reachability | debounce, retry, full scan, poll, probe | `Daemon` |
| folder binding | `commands/attach.go`, `detach.go`, `share.go`, `unshare.go` | both configurations, markers, indexes | attach, detach, share, unshare, remove a peer | `Binding` |
| configuration | `config/`, `commands/config*.go`, `preflight/` | one file | locked transaction, optimistic edit, validation of bindings | `Binding`, `Peering` |
| peers and grants | `commands/connection.go`, `peer.go`, `returnroute.go`, `connection/` | configurations, `authorized_keys` | first contact, acceptance, return route, removal | `Peering` |
| transport | `transport/` | none (one ssh process per call) | one request, one reply; keys exchanged before, a grant after | in every module, as the ways a call ends |
| the rest | paths, names, logging, command line, packaging | none or I/O only | | not modelled |

**How they interact.** Cycles start from the daemon's timers and file events, or
from the responder asking for one (`RequestCycle`), which runs in a process of
its own at the initiator. A cycle reads its index without a lock, and takes the
folder's file lock only around each local mutation. Every handler at the
responder takes the responder's folder lock for its whole body, so handlers
exclude each other but not the user. A cycle never holds a lock across a call.
Attach, detach, unshare and peer removal hold the join lock of their machine
from beginning to end, calls included; each change of a configuration is a
transaction of its own under the configuration lock; `share`, the bind and unbind
handlers, cycles and an open editor do without the join lock. Every call that is
answered ends by adding the peer's grant, under no lock of the configuration.

**What is hard here.** (1) A plan is older than the state it is applied to.
(2) Each of a write's effects (old file to the trash, new file in place, entry
committed) can be the last one that happens. (3) A call may fail before, during
or after the handler. (4) Two initiator processes may work on one folder.
(5) Tombstones must outlive the peer's last stale copy and yet go away; a
directory has none. (6) A conflict has to touch both sides without losing either
version. (7) A failure may only delay synchronisation. (8) A command that changes
both ends is a sequence of calls and transactions, and has to be undone when it
fails while others act beside it. `PROJECT.json` lists these as hazards at their
lines.

**What makes each component correct.** Vectors: the order is a partial order and
merge is its join. Index: a version never forgets a change, a tombstone goes only
when the peer has it, and an update is atomic. Scan: every change gets a version
the peer has not counted. Planner: its vector dominates both sides, it never sends
what is not there, it deletes only what a user deleted, it stops before deleting
too much. Cycle: an acknowledgement is given only when it is true, what a plan was
made from and another process has replaced costs no bytes, both copies converge. Locks:
mutual exclusion, no waiting for ever. Daemon: every change is tried in time.
Binding: who registers a folder has its binding, failures leave none behind.
Peers: success means both directions work, failure leaves nothing, no access
without a peer. Configuration: no update is lost, what is saved is valid.

## 2. Modules

| module | what it holds |
|---|---|
| `VersionVector` | vectors as total functions on `Peers` (a missing key is zero); `Compare`, `Leq`, `Merge`, `Increment` |
| `FolderIndex` | entries, `ScanEntry`/`Scan`, `GlobalVector`, `Prune` |
| `Engine` | `Decide` for one path, `Halted` for a plan |
| `FolderSync` | files: users, cycles, handlers, faults |
| `FolderSyncHistory` | the same steps with a record of what has happened, and the properties that need it |
| `IndexStore` | abstract: an index that each request changes whole, or not at all |
| `FolderLock` | the processes at work on one folder, step by step; implements `IndexStore` |
| `Directories` | directories: users, cycles, faults |
| `Daemon` | the loop that starts cycles, its timers, backoff and probes |
| `Binding` | attach, detach, share, unshare, peer removal, edits, index removal |
| `Peering` | first contact, grants, return routes, removal |
| `MC...` | constants for TLC |
| `FolderIndexProofs` | theorems about `VersionVector` and `FolderIndex` |
| `FolderSyncProofs` | theorems about `Engine` and `FolderSync` |
| `AgreementProofs` | theorems about `FolderSyncHistory`, which relate the two indexes |
| other `...Proofs` | theorems about the module of that name |

`VersionVector`, `FolderIndex`, `Engine`, `FolderSync`, `FolderSyncHistory` extend each
other in this order; `IndexStore` and `FolderLock` extend `FolderIndex`, and `FolderLock` has an
`INSTANCE` of `IndexStore` under its refinement mapping. The other modules stand
alone and assume of each other only what is said here: `FolderSync` assumes of
`FolderLock` that a mutation with its commit is atomic but for a crash, and of
`Daemon` that cycles go on being started; `Daemon` abstracts a cycle to its
outcome; `Binding` takes from `Peering` whether two nodes are connected. The
operators commented as slips are plausible bugs: each replaces one definition to
show that a property notices.

### State and actions of `FolderSync`

`disk`, `trash`, `copies` and `index` are what the two machines keep. `cycle[c]`
is the local state of an initiator process: its step, the position in the path
loop, the snapshots `local` and `remote` it plans from (Go's variables of those
names in `planFolder`), the `reused` map, and the winner's bytes it has read.
`edits` counts user operations and is the clock behind modification times.

| action | code |
|---|---|
| `UserWrite`, `UserDelete` | the users (external) |
| `ProbeResponder` | `findPeerForShared` lists once before the cycle proper |
| `Begin`, `ScanLocal`, `List` | `planFolder` up to the plan; the `fileLister` handler |
| `ReuseOnPeer`, `ReuseLocal`, `NoReuse`, `ReuseDone` | `prepareContentReuse`, `fileReuser`, `reuseLocal` |
| `Skip`, `Push`, `Pull`, `Delete` | `applyAction` for a transfer or a deletion, with the handler it calls; a resurrection is a push or a pull |
| `MergeLocal`, `MergePeer` | the two halves of a merge |
| `ConflictCheck`, `ConflictPreserve`, `ConflictPush` | `applyConflict` and `conflictWriter` |
| `Fail` | a check of a step fails: `planFolder` returns the error |
| `Abort` | the process dies, or a call does not reach the peer |
| `ApplyDone`, `AckLocal`, `AckPeer` | `acknowledgeCycle` and the `AcknowledgeVector` handler |

A step carries an *outcome*. `done`: all of it happened. `replyLost`: the
handler did all of it and the initiator sees an error. `uncommitted`: the file
operation happened and the index commit did not (`errUncommitted` in the code).
`torn`: the old file was moved away and the new one not renamed into place.

**Grain.** A handler is one step because it holds the responder's folder lock,
and a local mutation because it holds the initiator's. What the user can do in
between is before or after the step; the gap between the two renames of one
write is the one place where this hides an interleaving: `FolderLock` takes it
apart.

**Abstractions.** A file is a content (its SHA-256) and a modification time. The
time stands for the whole metadata manifest. A conflict copy is kept in `copies`
and no later cycle synchronises it, as in the code, where scans ignore such names
(`guard/guard.go:80`) although a comment at `commands/serve.go:286` speaks of the
next scan. `Index.Acknowledged` is not kept: `Acknowledge`
overwrites the only peer's vector just before `Prune`, its only reader.
Directories are in `Directories`, ignored paths in `FolderLock`, bindings in
`Binding`.
A responder that wins a conflict cannot exist, since the initiator has the
smaller fingerprint, which is also what decides the winner; so that branch of
`applyConflict` is dead code and is not modelled.

### The record of `FolderSyncHistory`

The protocol keeps its promises up to three things, each of which the code lets
happen. `overlapped`: a cycle has begun beside another one. `unacked`: paths whose
tombstone the initiator pruned in an acknowledgement that the responder was not sent.
`misreused`: paths where `reuseLocal` has committed other bytes than were listed.
These variables and `removed[c]`, the files that a cycle has deleted at either side,
are history: `HNext` takes every action of `Next` as it is and adds to the record. So
a property can hold with all faults, both writers and two processes, and still say
what breaks it and where.

### `FolderLock` and `IndexStore`

A *job* is a process at work on the folder: a served write or deletion, a served
listing, an acknowledgement, an `ignore` edit, or one that takes no lock (`Unlocked`),
as the scan of a cycle and `index commit` do. Each of its steps is an action, and the user acts between any two:
`Acquire`/`Timeout`/`Release` (`lock.go`), `Clear`, `Install`, `Verify`, `Fail`
(`apply.go`: old file to the trash, rename over the path, read back), `ReadRules`,
`WriteRules` (the marker), `LoadIndex`, `ScanDisk`, `SaveIndex`, and `Die` in any
of them. A request brings the version of a change that the peer made on what it
had last listed. The refinement maps what a job still wants, which is its request
until the index is saved, to `IndexStore`'s `request`, and the index to itself: a
save is the abstract `Serve`, and giving up or dying before it `Withdraw`.

### `Directories`

Directories carry no version. `disk` and `index` hold manifests, `cycle` the three
sets of manifests that `planDirectories` compares, and what is left to do.
`Scan` saves the scan before any call; `List` takes the responder's answer and
plans; then deletions, deepest first (`InspectEmpty` and `Move`, between which the
user may act; `Retain`, `DeleteMissing`), and manifests, deepest first (`Restore`
at the initiator, `Send` to the responder). The faults are `Abort` and the two
missing commits. A manifest holds the modification time, so every change of a
directory's children, a cycle's own included, makes a new one; manifests are only
compared, and numbers that no other manifest of the path has stand for them.
Of files only this much is left: one that is out of the synchronised set
(`strays`) keeps its directory, and a transfer renews it and has the directories
above restored.

### `Daemon`

One action for each channel of `Run`'s `select`: `ConfigEvent`, `FileEvent`,
`DebounceDue`, `FullScanDue`, `WatchRetryDue`, `RetryDue`, `PollDue`, `Probed`.
`StartCycle` and `FinishCycle` are `executeCycle`, which runs inside the loop, so
no channel is read between them; `Answer` is the probe, which runs beside it.
`Start` and `Stop` are the process. The environment changes files, loses and
restores peers, binds and unbinds folders, loses watches. Time passes in ticks,
only when the loop has nothing to read or a cycle waits for peers.

### `Binding`

`cfg[n]` is a node's configuration (its offer and whom it is bound to, its
registration, its peers), `granted` whom the provider's keys let in, `marker`,
`index` and the commands' progress (`job`, one per node: the join lock). Attach is
`AttachNew` or `AttachAgain`, `BindOffer`, `ListOffer`, `Register` or `Validate`,
with `Undo` for its compensation; detach is `UnbindOffer`, `Unregister`, `Prune`;
`Withdraw` is unshare; `Revoke` and `Forget` are `connection rm`; `EditOpen` and
`EditInstall` are `l2sync config`; `CycleStart` and `CycleSave` the one thing of a
cycle that matters here, which is that it writes an index. Each is one call or one
transaction; a call's handler is part of it, and its reply may be lost.

### `Peering`

`peers[n][m]` says whether n's entry for m has a key and an address (an entry with
neither is refused by validation and stands for none), `grant[n]` whom n lets in.
A worker runs a command or a call by the daemon. A dial goes through `Probe`,
`Pend`, `Theirs`, `TheirGrant` (the remote `connection add --key` over the user's
own login), `Hello`, `Pin`, `Grant` (first contact), `Route`, `Back`, `Regrant`,
`Last` (the return route), and on failure through `Unroute`, `Unpin`, `Ungrant`,
`Withdraw`, `Unpend`. `Call` activates a pending peer in the same way; `Accept`
and `Remove` are the other two commands. History: a job is `alone` if no command
about the same two has run beside it, `failed` names the steps at which it has lost a
reply or failed to clean up, and `loose` has the pairs whose key was lost to a command
that overtook another about the same two on its way to granting access, or before a
clean-up that failed.

## 3. Properties

Each is stated with the behaviour it is about in its module. One type invariant per
module, and:

- `FolderSync`, with any number of processes. `VersionsNeverRegress` (a version goes
  back only where a cycle acts on an entry that another process has replaced since);
  `NothingDestroyed` (only users take bytes out of a replica); `LoserPreservedFirst` (a
  conflict's winner is sent once its loser is safe). Liveness: `Convergence`.
- `FolderSyncHistory`. On undisturbed paths, which are those of no lost acknowledgement
  as long as no cycles overlap: `AckedEntriesAgree` (when a cycle acknowledges,
  versions are ordered and tombstones equal on both sides); `PruningsShared` (a
  tombstone is pruned only when the peer does not still have the file it superseded);
  `FreshChangesNew` (a new change gets a version the peer has not counted);
  `OneVersionOneContent` (equal versions name equal bytes, but where reuse took the
  wrong ones). On all paths: `DeletesLimited` (the guard bounds what a whole cycle
  deletes).
- `FolderLock`. `ImplementsStore`, the refinement; `IgnoredEntriesKept` (a scan that
  holds the lock goes by the rules of the marker until it is saved, whatever a cycle's
  own scan does beside it); `OnlyIntrudersLost` (bytes are lost only if a user put them
  into the gap of a write under way); `LockComesFree`, liveness.
- `Directories`. `OnlyRemovedDeleted` (after a cycle that did what it had planned, a
  directory is deleted only if the other side's user removed it);
  `StraysRetained` (a child outside the synchronised set keeps its directory);
  `Convergence`, liveness.
- `Daemon`. `BackoffCovered` (the retry timer is due before any backoff ends);
  `TriedInTime` (a change whose peer answers is tried within a full scan after the
  longest backoff, and the cycles that delay both); `ChangesArrive`, liveness.
- `Binding`. `RegisteredIsBound` (a registration has the offer's binding, unless a
  command or an edit ended it); `FailedAttachUndone` (a binding without registration
  is the trace of a lost reply, a death, a removal, an edit, or an undoing that was not
  carried out); `RegisteredIndexKept` (an
  index is deleted only once the folder is not registered).
- `Peering`. `SuccessIsMutual` (after a dial that succeeds alone each end can call the
  other); `FailedDialUndone` (after one that fails alone, this side is as it was
  unless a grant could not be cut, and the other side too unless a reply or a removal
  that `LeftThere` names was lost there); `GrantsArePeers` (who is let in is a peer whose
  key is held or is about to be shut out, but for loose pairs).

## 4. Runs

| run | instance | result |
|---|---|---|
| `faults` | `FolderSyncHistory`: 2 paths, 1 process, deletion floor 0, up to 4 user operations on both sides and 2 faults of any kind, 4 events in all | 1,094,936 states; 8 properties hold |
| `two_processes` | `FolderSyncHistory`: 1 path, 2 processes, 2 user operations on both sides, a missing commit | 890,416 states; 3 properties hold |
| `mirror` | `FolderSyncHistory`: 2 paths, writes at the initiator, deletes at the responder, 2 aborts or lost replies, 5 events in all, fairness | 210,353 states; `Convergence` holds |
| `jobs` | `FolderLock`: 2 paths, a job of each kind, 2 user operations, 2 requests, 1 death, fairness | 277,865 states; 5 properties hold |
| `dir_cycles` | `Directories`: a directory in a directory, 3 user operations, 1 transfer, 2 failures, fairness | 495,971 states; 4 properties hold |
| `daemon_loop` | `Daemon`: 2 folders of 2 peers, one of them pending, 1 change, 1 fault, fairness | 872,734 states; 4 properties hold |
| `binding` | `Binding`: a provider, 2 consumers, 2 identities, 5 commands, 1 fault | 505,511 states; 4 properties hold |
| `peering` | `Peering`: 2 installations, 2 workers, 3 commands, 1 fault | 1,480,969 states; 4 properties hold |
| `reuse` | `FolderSync`, no faults | violates `EqualVersionsSameContent` |
| `ack_lost` | `FolderSync`, one lost acknowledgement | violates `FreshChangeNotDominated` |
| `dir_failed` | `Directories`, 1 operation, 1 failure | violates `CommittedIsAgreed` |
| `binding_removed` | `Binding`, 4 commands | violates `BindingsKnown` |

Deadlock is checked in `FolderSync`, `Directories` and `Daemon`, where a cycle can
always begin. In `FolderLock`, `Binding` and `Peering` all work is started by
bounded requests and commands, so those instances do end.

**What they show together.** Aborts, lost replies, missing commits and torn writes
never break the safety of the file protocol; the scan repairs all of them. A lost
*acknowledgement* does, on the paths that the initiator has already pruned and on no
other. A second process costs no bytes, but can undo a deletion. A failed cycle
does break the directory protocol, because the manifests it saved count as agreed.
Under the folder lock, index updates are atomic whatever dies. The daemon's full
scan is what makes every change be tried; the retry timer alone does not. The
compensations of attach are right in every order of another command's steps, those of
dialling when no command about the same two runs beside them; both with the exceptions
that the properties spell out.

**The findings.**

- `reuse`: `reuseLocal` (`commands/now.go:741`) looks for the hash of the initiator's
  own entry and not of the file to be pulled. A modified file therefore "reuses" its
  own old bytes, which are committed under the responder's version; the two copies
  differ for ever and no cycle notices.
- `ack_lost`: `acknowledgeCycle` prunes at the initiator before it tells the
  responder. If the call is lost and the file is created again at the initiator, the
  new file starts from an empty vector, which the responder's tombstone dominates;
  the next cycle deletes the new file.
- `dir_failed`: `planFolder` saves its scan, manifests included, before it calls the
  peer. If the call fails, the next cycle finds a directory that was new as
  unchanged here and gone there: it deletes the user's new (empty) directory. In the
  same way it undoes a directory's removal.
- `binding_removed`: `connection rm` looks up the folders bound to the peer, asks the
  user, cuts the grant, and then unbinds those folders. A folder that the peer binds
  in between stays bound to a peer that no longer exists; validation refuses such a
  configuration, so every command and every call fails until `l2sync config`
  repairs it.

**Further counterexamples.** These configurations belong to no run of the list above.
TLC refutes the property in each, which shows the limit of a property that does hold
in the runs:

| configuration | refutes | because |
|---|---|---|
| `FolderSync_overlap` | `PrunedWhenShared` | the lock on `folderCycleLocks` (`commands/now.go:274`) is local to a process, and a cycle requested over SSH runs beside the daemon's: one prunes a tombstone after the other put the file back |
| `FolderSync_unknown` | `UnknownNeverDeleted` | a file created, scanned and deleted before its first transfer is planned as a deletion at a side that never had it; `apply.Delete` fails there, every time |
| `FolderSync_resurrect` | `AckedVersionsAgree` | the side a resurrected file comes from keeps its old vector, so the next cycle sends the file back |
| `FolderSync_copies` | `ConflictCopiesAgree` | the responder preserves the file it has when the winner arrives, not the one the initiator preserved |
| `FolderLock_commit` | `ImplementsStore` | `index commit` (`commands/status.go:65`) holds the configuration lock and not the folder's: it overwrites an entry that a handler committed meanwhile |
| `FolderLock_cycle_scan` | `EveryScanFollowsRules` | an `ignore` edit takes the folder lock, which "keeps this from racing a running cycle's own marker-adjacent scan" (`commands/ignore.go:71`); but `planFolder` reads the marker, scans and saves without that lock (`commands/now.go:375-398`), so it saves an index made by rules that the marker no longer has |
| `Daemon_failed` | `FailedIsRetried` | a folder that succeeds resets the backoff of its peer, and with it the retry of another folder of that peer that failed in the same cycle; it waits for the full scan |
| `Binding_index` | `IndexedWhilePaired` | a cycle that scans while the folder is detached saves the index again after it was pruned; a later attach takes it up |
| `Peering_install_lost` | `FailedRunRemovesAll` | "A failed run removes what it created locally and remotely" (`commands/connection.go:193`), but if the reply of the remote install is lost (`connection.go:250-253`), `remoteCreated` is not set and the other machine keeps the entry and the grant |
| `Peering_removed` | `RemovedIsCut` | a call that was answered before the removal adds its grant (`transport/protocol.go:1092`) after the grant was cut, and the peer's key stays accepted |

**Seen, and contradicted by no comment.** A crash between a conflict copy and its
commit, or two conflicts of a path within one second, leaves a copy whose name
`ConflictCopyExists` refuses in every later cycle: that path, and those after it, no
longer synchronise until a user removes the copy. If a detach fails after the
provider was unbound ("retry detach to finish") and another consumer binds the offer
meanwhile, every retry is refused. A resumed attach checks neither the listing nor
the folder's identity. A dial that fails against a machine that already had an entry
for this one leaves the key and the grant it added there; an activation that loses the
reply to its dial-back leaves the way back that the peer has stored. `deactivatePeer` that fails
between its two steps leaves the grant, and `Pin` recreates an entry that was removed
since the call began.

**Bounds.** In `FolderSync` paths meet only in the reuse pass, the deletion threshold,
the global vector and the loop's early exit: two paths are one that is disturbed and
one that must not be. Two contents tell a change from no change, and same-content
merges from conflicts. Four user operations reach create, modify, delete and create
again, alone or on both sides, with cycles anywhere between, and a second fault can
strike while the first is being repaired; `MaxEvents = 4` counts operations and faults
together. `EditsPerSecond = 2` puts two operations in one second: their modification
times differ, and the suffixes of their conflict copies collide. `DeleteFloor = 0` in
`faults` makes the threshold one path of two; in the other runs it is the code's.
`two_processes` has one path because what a second process replaces is the entry of the
path a cycle is at; its two operations make a conflict, or a change and its deletion.
`mirror` has one writer because `Convergence` does not hold otherwise (`reuse`, and
the conflict described above).

In `FolderLock` two requests are two processes, the least that can interleave, of any
two of the five kinds; one of them may die, and two edits fit into one gap.
In `Directories` one directory in another has a parent, a child, and depths to sort;
three operations make, remove and make again. `Manifests` has as many numbers as one
path can have manifests at a time. In `Daemon` the periods are the code's in order and
not in ratio (debounce < poll < full scan; a backoff that doubles once and is
capped, with jitter at the cap so that two peers that failed together are not due together);
two folders are what the code's loop over folders and its minimum over peers need. In
`Binding` five commands are an attach, a competing attach, a detach or a removal, an
edit opened before them and a cycle. In `Peering` two commands at a time are every
pair, on one machine or on both; a third finds what the two left.
Contents, cycles, consumers, identities, installations and workers are symmetry sets,
except where liveness is checked.

**Fairness.** `FolderSync`: weak fairness on `CycleStep(c, "done")` for each process:
the daemon starts cycles for ever (`Daemon`), and a cycle that has started goes on.
`FolderLock`: each process that has not died runs (`JobStep`); nobody
has to ask. `Directories`: `CycleStep` as in `FolderSync`. `Daemon`: the loop runs and
time passes; the channel that Go's `select` takes need not be a fair choice, since the
property only needs that each tick waits until the loop has nothing left to read.
Nothing is assumed of users or of faults, which stop because they are bounded.

## 5. Proofs

`tlapm` proves every obligation with the installed SMT solver, Zenon and LS4.
Assumptions are those named in the modules: there is a path, the empty hash is no
content, the two peers are distinct and the only ones, bounds are natural numbers,
each job has one kind of request, directories in a directory's parent are in it too.
One theorem has one more: `FolderLockImplementsStore` assumes `Unlocked = {}`, that every
job takes the folder lock. TLC refutes the refinement without it (`FolderLock_commit`).

### Vectors and the planner

- `CompareDecidesOrder`, `MergeIsLeastUpperBound`, `IncrementIsAhead`: the vectors
  form the lattice that the planner takes them for.
- `DecideSound`: what every action of the planner guarantees for any two well-formed
  entries.

### `FolderSync`

- `TypeCorrect`, from `TypeInv`: `TypeOK` with `PlanKept`, which says
  that a cycle in the middle of a merge or a conflict is still at a path and that its
  snapshots still plan that action. Without it a step of a merge could not be shown
  to write a well-formed entry.
- `BytesNeverDestroyed` (`NothingDestroyed`): every step that takes a file from
  its path puts it into the trash or under a conflict name first.
- `LoserAlwaysPreserved` (`LoserPreservedFirst`): once written, a copy stays,
  and only the preserving step leads to the sending one; it holds with any number of
  processes.
- `VersionsOnlyGrow` (`VersionsNeverRegress`), from `TypeInv` and `DecideSound`: a commit
  replaces an entry by one whose vector is above the one that was planned from, and if
  that is not the entry it replaces, the cycle is `Outdated`. It holds with any number
  of processes.
- `AcknowledgedTruly` (`AckedEntriesAgree`), `FreshChangesAreNews` (`FreshChangesNew`) and
  `PruningIsShared` (`PruningsShared`), from `AgreedUnlessOverlapped`: until two cycles
  overlap, `AgreeInv` holds. It rests on `SnapInv`: at most one cycle is active, and on
  every path it has yet to act on both indexes hold what it planned from. The heart of
  `AgreeInv` is `Ordered`: each side counts all of its own changes that the other
  counts, and one version has one fate. Hence a change that a scan finds is news. Only
  an acknowledgement breaks the order, between the two prunings, and there
  `HalfPruned` says what each index is; if it gets lost, the paths it pruned are
  `unacked` and drop out. In a merge or a conflict `HalfCommitted` says which half is
  done; `SettledAgree` says that the paths behind the loop need no further action, so
  that at the acknowledgement all do.
- `VersionsNameContents` (`OneVersionOneContent`), from `AgreeInv` and `ContentsMatch`:
  every way of coming to a common version copies the bytes with it, a merge has equal
  hashes, and the one that does not copy what was listed, `reuseLocal`, puts the path
  on record.
- `ThresholdHolds` (`DeletesLimited`), from `PlanInv`: what is gone since the snapshots,
  the plan was to delete, and the plan was not halted. The count of what is gone is
  then bounded by the count that the guard looked at.

### `FolderLock`

- `TypeCorrect`, from `TypeInv`: `TypeOK` with `Asked`, which says
  at which steps a job of each kind can be.
- `LossesAreIntruders` (`OnlyIntrudersLost`): only `Install` replaces bytes that are not
  in the trash, and a file at its path then is younger than the clearing of the path.
- `FolderLockImplementsStore` (`ImplementsStore`): the job that is past waiting is the
  holder of the lock (`Held`), so the index it loaded, with its own change, is still
  that of the file when it saves (`Fresh`); with both, every step is an abstract one
  or a stutter.
- `ScansFollowRules` (`IgnoredEntriesKept`), from `Held` and `RulesCurrent`: the rules that
  a scan under the lock has read are those of the marker until it saves, because an edit
  of the rules needs the lock too. Jobs without the lock may run beside it, since they
  edit no rules.

### `Directories`

All three from `DirectoriesInv`, which follows a cycle from scan to end.

- `TypeCorrect` (`TypeOK`, in which directories are inside directories that are there):
  the eight manifests of a path are always enough for a new one, which takes
  counting; a manifest that is applied is never that of a missing directory
  (`Sending`), or else children would be left without parents.
- `StraysAreRetained` (`StraysRetained`): `Moving` says that nothing inspected was in the
  directory on its way to the trash, and a stray is always in a directory that is there.
- `OnlyRemovedAreDeleted` (`OnlyRemovedDeleted`): `Progress` says for each directory what
  the cycle has done about it: deleted directories have left the initiator's index,
  the others are on both sides, or their user has removed them since (`Accounted`).
  A cycle that has done all it planned has therefore an index that was true of both
  sides (`Settled`), and what is missing from the next one's lists was removed by a user.
  A directory below one that is being deleted is in no manifest of the side that it
  is deleted for, so the plan counts on nothing that goes along with a move.

### `Daemon`

- `TypeCorrect` (`TypeOK`). The delay of each peer after a cycle is folded over the
  folders, and its type takes an induction over them. The theorems of the library on
  induction have an operator as a parameter, which the provers cannot instantiate;
  `SetInduction` states induction for a set of numbers instead, from the
  well-foundedness of their order, and `FoldStaysIn` uses it.
- `RetryCoversBackoff` (`BackoffCovered`): arming the timer takes the minimum of the
  delays, and both count down with the same ticks.
- `ChangesTriedInTime` (`TriedInTime`), from `AgeBounded`: the age of a change, plus
  what its peer's backoff and the full scan can still add to it, is within the bound,
  separately for the loop (`AgeInLoop`) and for a cycle (`AgeInCycle`), where either the folder
  is tried or its peer was backing off when the cycle began. A folder that is not bound has no
  change to try.

### `Binding`

From `BindingInv`: `TypeInv`, `ClaimsHeld`, `BindingsAccounted` and
`PrunesUnregistered`.

- `TypeCorrect` (`TypeOK`).
- `RegistrationsAreBound` (`RegisteredIsBound`), from `ClaimsHeld`: a consumer that is about
  to register holds the offer already, or was told that it lost it; and an edit that
  was opened before is installed only on the configuration it was opened on.
- `FailuresAreUndone` (`FailedAttachUndone`), from `BindingsAccounted`: a binding without
  registration is in the hands of a command that will register it or undo it, or
  it is known to be left behind.
- `RegisteredIndexes` (`RegisteredIndexKept`), from `PrunesUnregistered`: the join lock keeps a
  registration from coming back between its end and the pruning.

### `Peering`

From `PeeringInv`, for any number of installations and commands.

- `PeeringTypes` (`TypeOK`).
- `NoStrayGrants` (`GrantsArePeers`), with `KeysHeld`: between a command's look at a key
  and the grant it makes for it, the key is held, or its loss is on record (`loose`).
- `SuccessLinks` (`SuccessIsMutual`), from `LinkSoFar`: what each step of a command that
  is `alone` has proved so far of the two directions.
- `FailuresRestore` (`FailedDialUndone`), from `Here` and `There`: at each step
  of a dial, by how much either end differs from what it was, and that every way
  out leads through the steps that take the difference back. Lost replies and failed
  clean-ups do not exempt a dial: `failed` says which, and only those that the property
  names leave something behind.

**Model-checked only.** The liveness properties (`Convergence` in `FolderSync` and
in `Directories`, `LockComesFree`, `ChangesArrive`) are beyond this prover, and so is
`ENABLED`. No module uses a `RECURSIVE` operator. The properties that a violation run
or a further counterexample refutes have no theorem.

## 6. Plan

1. A handler that outlives its caller (`commands/serve.go:501`) beside the next cycle, as
   an action of `FolderSync`.
2. Pinned host keys in `Peering` (`connection/hostkeys.go`), with two peers that claim
   one endpoint.

## 7. Not modelled, and why

Durability across power failure beyond what the commit points say, and the atomic
replacement of the JSON and configuration files, which a step takes for granted. Modes,
ACLs and extended attributes, which behave like modification times. Symlinks, and files
that change while they are hashed, which a scan reports as errors. In `Directories`, an
entry that the user puts into a directory between its inspection and its move goes to
the trash with it, and only the two properties that name this case say so. Three-sided
arrangements the format would allow: the program binds exactly one peer to a folder.
In `Binding`, more than one folder name: transactions on different names do not touch
each other. In `Peering`, pinned host keys and duplicate keys or endpoints, which are
checked before the steps that are modelled. The wire format, SSH and key files,
parsing, path safety, pattern matching: validation and I/O. Logging, command line,
listing and packaging: no state that synchronisation depends on.
