---------------------------- MODULE AgreementProofs ----------------------------
(***************************************************************************)
(* How far the two indexes agree, for any number of initiator processes    *)
(* and whatever fails.  What FolderSyncHistory records of a behaviour is   *)
(* the only limit: until a cycle has started beside another one, and on    *)
(* every path whose tombstone was not pruned in an acknowledgement that    *)
(* got lost, what an installation counts of its own changes is never less  *)
(* than what the other has heard of them.  So every new change is news, a  *)
(* cycle that comes to its acknowledgement leaves the indexes ordered with *)
(* the same deletions, and entries of one version are of one content       *)
(* unless reuseLocal has committed the wrong bytes.                        *)
(*                                                                         *)
(* The last section, about the deletion threshold, has no such limit.      *)
(***************************************************************************)
EXTENDS FolderSyncProofs, FolderSyncHistory, FiniteSetTheorems

\* The entries of one path at the initiator and at the responder: each side counts
\* all of its own changes that the other counts, and one version has one fate.
Ordered(mine, theirs) ==
  /\ theirs.version[Initiator] <= mine.version[Initiator]
  /\ mine.version[Responder] <= theirs.version[Responder]
  /\ mine.version = theirs.version => mine.deleted = theirs.deleted

\* They are settled: nothing is left to decide, and a deletion is shared.
Agree(mine, theirs) ==
  /\ Compare(mine.version, theirs.version) # "concurrent"
  /\ mine.deleted = theirs.deleted
  /\ mine.deleted => mine.version = theirs.version

Acking(c) == cycle[c].step = "ackPeer"

\* The indexes are ordered, but while an acknowledgement is on its way.
IndexesOrdered ==
  (\A c \in Cycles : ~Acking(c)) =>
    \A x \in Paths \ unacked : Ordered(index[Initiator][x], index[Responder][x])

\* Between the two commits of a merge or a conflict, the first has been made.
HalfCommitted(c) ==
  /\ cycle[c].step = "merge" =>
       index[Initiator][cycle[c].at] = [LocalEntry(c) EXCEPT !.version = Plan(c).vector]
  /\ cycle[c].step = "conflict" =>
       index[Initiator][cycle[c].at] = LiveEntry(Plan(c).vector, FileOf(LocalEntry(c)))

\* Paths that a cycle has dealt with.
Settled(c) ==
  CASE cycle[c].step = "reuse" -> cycle[c].reused
    [] cycle[c].step \in {"apply", "merge", "preserve", "conflict"} ->
         {x \in Paths : x \in cycle[c].reused \/ x < cycle[c].at}
    [] cycle[c].step = "ack" -> Paths
    [] OTHER -> {}

SettledAgree(c) ==
  \A x \in Settled(c) \ unacked : Agree(index[Initiator][x], index[Responder][x])

\* An acknowledgement on its way: the initiator has pruned what it had agreed on
\* with the responder, which has not yet.
HalfPruned(c) ==
  Acking(c) =>
    /\ index[Initiator] = Prune(cycle[c].local, GlobalVector(cycle[c].local))
    /\ \A x \in Paths \ unacked : /\ Ordered(cycle[c].local[x], index[Responder][x])
                                  /\ Agree(cycle[c].local[x], index[Responder][x])

\* A cycle that has not planned yet has nothing behind it.
Fresh(c) == cycle[c].step \in {"idle", "scan", "list"} => cycle[c].reused = {}

CycleAgrees(c) == Fresh(c) /\ HalfCommitted(c) /\ SettledAgree(c) /\ HalfPruned(c)

AgreeInv == SnapInv /\ IndexesOrdered /\ \A c \in Cycles : CycleAgrees(c)

-------------------------------------------------------------------------------
(* Pairs of entries. *)

LEMMA PairTyped ==
  ASSUME NEW mine \in Entry, NEW theirs \in Entry
  PROVE  /\ mine.version \in Version /\ theirs.version \in Version
         /\ mine.version[Initiator] \in Nat /\ mine.version[Responder] \in Nat
         /\ theirs.version[Initiator] \in Nat /\ theirs.version[Responder] \in Nat
         /\ mine.deleted \in BOOLEAN /\ theirs.deleted \in BOOLEAN
BY EntryFields, PeersAreTwo DEF Version

\* Two versions that were merged from ordered ones, or are the same, are settled.
LEMMA SameVersion ==
  ASSUME NEW mine \in Entry, NEW theirs \in Entry,
         mine.version = theirs.version, mine.deleted = theirs.deleted
  PROVE  Ordered(mine, theirs) /\ Agree(mine, theirs)
<1>1. Compare(mine.version, theirs.version) = "equal"
  BY PairTyped, CompareDecidesOrder
<1>. QED BY <1>1, PairTyped DEF Ordered, Agree

\* A commit at the initiator under the planned vector.
LEMMA CommitMine ==
  ASSUME NEW mine \in Entry, NEW theirs \in Entry, Ordered(mine, theirs),
         NEW e \in Entry, e.version = Merge(mine.version, theirs.version),
         e.deleted = theirs.deleted
  PROVE  /\ Ordered(e, theirs)
         /\ Compare(e.version, theirs.version) # "concurrent"
         /\ ~e.deleted => Agree(e, theirs)
<1>1. /\ e.version[Initiator] = mine.version[Initiator]
      /\ e.version[Responder] = theirs.version[Responder]
  BY PairTyped, PeersAreTwo DEF Ordered, Merge, Version
<1>2. Leq(theirs.version, e.version)
  BY PairTyped, MergeIsLeastUpperBound
<1>3. Compare(e.version, theirs.version) # "concurrent"
  BY <1>2, PairTyped, CompareDecidesOrder
<1>. QED BY <1>1, <1>3, PairTyped DEF Ordered, Agree

\* A commit at the responder under the planned vector.
LEMMA CommitTheirs ==
  ASSUME NEW mine \in Entry, NEW theirs \in Entry, Ordered(mine, theirs),
         NEW e \in Entry, e.version = Merge(mine.version, theirs.version),
         e.deleted = mine.deleted
  PROVE  /\ Ordered(mine, e)
         /\ ~e.deleted => Agree(mine, e)
<1>1. /\ e.version[Initiator] = mine.version[Initiator]
      /\ e.version[Responder] = theirs.version[Responder]
  BY PairTyped, PeersAreTwo DEF Ordered, Merge, Version
<1>2. Leq(mine.version, e.version)
  BY PairTyped, MergeIsLeastUpperBound
<1>3. Compare(mine.version, e.version) # "concurrent"
  BY <1>2, PairTyped, CompareDecidesOrder
<1>. QED BY <1>1, <1>3, PairTyped DEF Ordered, Agree

\* A scan by either side keeps the pair ordered, and what it changes is news.
LEMMA ScanOrdered ==
  ASSUME NEW mine \in Entry, NEW theirs \in Entry, Ordered(mine, theirs),
         NEW file \in File \cup {NoFile}
  PROVE  /\ Ordered(ScanEntry(Initiator, mine, file), theirs)
         /\ Ordered(mine, ScanEntry(Responder, theirs, file))
<1>1. ASSUME NEW p \in Peers, NEW e \in Entry
      PROVE  \/ ScanEntry(p, e, file) = e
             \/ ScanEntry(p, e, file).version = Increment(e.version, p)
  BY DEF ScanEntry, LiveEntry, Tombstone
<1>2. Ordered(ScanEntry(Initiator, mine, file), theirs)
  <2>1. CASE ScanEntry(Initiator, mine, file) = mine
    BY <2>1
  <2>2. CASE ScanEntry(Initiator, mine, file).version = Increment(mine.version, Initiator)
    <3>1. /\ Increment(mine.version, Initiator)[Initiator] = mine.version[Initiator] + 1
          /\ Increment(mine.version, Initiator)[Responder] = mine.version[Responder]
      BY PairTyped, PeersAreTwo DEF Increment, Version
    <3>. QED BY <2>2, <3>1, PairTyped DEF Ordered
  <2>. QED BY <1>1, <2>1, <2>2, PeersAreTwo
<1>3. Ordered(mine, ScanEntry(Responder, theirs, file))
  <2>1. CASE ScanEntry(Responder, theirs, file) = theirs
    BY <2>1
  <2>2. CASE ScanEntry(Responder, theirs, file).version = Increment(theirs.version, Responder)
    <3>1. /\ Increment(theirs.version, Responder)[Responder] = theirs.version[Responder] + 1
          /\ Increment(theirs.version, Responder)[Initiator] = theirs.version[Initiator]
      BY PairTyped, PeersAreTwo DEF Increment, Version
    <3>. QED BY <2>2, <3>1, PairTyped DEF Ordered
  <2>. QED BY <1>1, <2>1, <2>2, PeersAreTwo
<1>. QED BY <1>2, <1>3

-------------------------------------------------------------------------------
(* Steps, seen from the path and the cycle they concern. *)

LEMMA NotAcking ==
  ASSUME SnapInv, NEW c \in Cycles, cycle[c].step \notin {"idle", "ackPeer"}
  PROVE  \A d \in Cycles : ~Acking(d)
BY DEF SnapInv, OneActive, Acking

\* What a cycle knows of a path that it has yet to act on.
LEMMA PendingPath ==
  ASSUME AgreeInv, NEW c \in Cycles, cycle[c].at \in Paths, cycle[c].at \in Pending(c)
  PROVE  /\ index[Initiator][cycle[c].at] = LocalEntry(c)
         /\ index[Responder][cycle[c].at] = RemoteEntry(c)
         /\ LocalEntry(c) \in Entry /\ RemoteEntry(c) \in Entry
         /\ cycle[c].at \notin unacked => Ordered(LocalEntry(c), RemoteEntry(c))
<1>1. /\ index[Initiator][cycle[c].at] = LocalEntry(c)
      /\ index[Responder][cycle[c].at] = RemoteEntry(c)
  BY DEF AgreeInv, SnapInv, SnapshotsCurrent, SnapshotCurrent, LocalEntry, RemoteEntry
<1>2. LocalEntry(c) \in Entry /\ RemoteEntry(c) \in Entry
  BY PathTyped DEF AgreeInv, SnapInv, TypeInv
<1>3. cycle[c].step \notin {"idle", "ackPeer"}
  BY DEF Pending
<1>4. \A d \in Cycles : ~Acking(d)
  BY <1>3, NotAcking DEF AgreeInv
<1>. QED BY <1>1, <1>2, <1>4 DEF AgreeInv, IndexesOrdered

\* The one active cycle's agreement is that of all.
LEMMA OthersAgree ==
  ASSUME AgreeInv, NEW c \in Cycles, NEW next, cycle' = [cycle EXCEPT ![c] = next],
         cycle[c].step # "idle" \/ AllIdle,
         CycleAgrees(c)'
  PROVE  \A d \in Cycles : CycleAgrees(d)'
<1>. USE DEF AgreeInv, SnapInv, TypeInv
<1>1. ASSUME NEW d \in Cycles, d # c PROVE cycle'[d].step = "idle" /\ cycle'[d].reused = {}
  <2>1. cycle'[d] = cycle[d] /\ cycle[d].step = "idle"
    BY <1>1 DEF TypeOK, OneActive, AllIdle
  <2>. QED BY <2>1 DEF CycleAgrees, Fresh
<1>2. ASSUME NEW d \in Cycles, d # c PROVE CycleAgrees(d)'
  BY <1>1, <1>2 DEF CycleAgrees, Fresh, HalfCommitted, SettledAgree, Settled, HalfPruned, Acking
<1>. QED BY <1>2

\* Entries of other paths stay, and those of this one are ordered.
IndexKeptBut(x) ==
  /\ \A y \in Paths : y # x => /\ index'[Initiator][y] = index[Initiator][y]
                               /\ index'[Responder][y] = index[Responder][y]
  /\ x \notin unacked => Ordered(index'[Initiator][x], index'[Responder][x])

LEMMA StillOrdered ==
  ASSUME AgreeInv, unacked' = unacked, NEW c \in Cycles, cycle[c].step \notin {"idle", "ackPeer"},
         NEW x \in Paths, IndexKeptBut(x)
  PROVE  IndexesOrdered'
<1>1. \A d \in Cycles : ~Acking(d)
  BY NotAcking DEF AgreeInv
<1>2. \A y \in Paths \ unacked : Ordered(index[Initiator][y], index[Responder][y])
  BY <1>1 DEF AgreeInv, IndexesOrdered
<1>3. ASSUME NEW y \in Paths \ unacked PROVE Ordered(index'[Initiator][y], index'[Responder][y])
  BY <1>2 DEF IndexKeptBut
<1>4. \A y \in Paths \ unacked' : Ordered(index[Initiator][y], index[Responder][y])'
  BY <1>3 DEF Ordered
<1>. QED BY <1>4 DEF IndexesOrdered

LEMMA PathFailed ==
  ASSUME AgreeInv, unacked' = unacked, NEW c \in Cycles, cycle[c].step \notin {"idle", "ackPeer"},
         NEW x \in Paths, IndexKeptBut(x), cycle' = [cycle EXCEPT ![c] = IdleCycle]
  PROVE  IndexesOrdered' /\ \A d \in Cycles : CycleAgrees(d)'
<1>1. cycle'[c].step = "idle" /\ cycle'[c].reused = {}
  BY DEF AgreeInv, SnapInv, TypeInv, TypeOK, IdleCycle
<1>2. CycleAgrees(c)'
  BY <1>1 DEF CycleAgrees, Fresh, HalfCommitted, SettledAgree, Settled, HalfPruned, Acking
<1>. QED BY <1>2, StillOrdered, OthersAgree

\* next follows the cycle's state when it is done with its path.
Follows(next, c) ==
  /\ next.at = cycle[c].at + 1
  /\ \/ /\ cycle[c].step = "reuse" /\ next.step = "reuse"
        /\ next.reused \in {cycle[c].reused, cycle[c].reused \cup {cycle[c].at}}
     \/ /\ cycle[c].step \in {"apply", "merge", "conflict"} /\ next.step = "apply"
        /\ next.reused = cycle[c].reused

LEMMA PathDone ==
  ASSUME AgreeInv, unacked' = unacked, NEW c \in Cycles, NEW next, cycle' = [cycle EXCEPT ![c] = next],
         cycle[c].at \in Paths, Follows(next, c), IndexKeptBut(cycle[c].at),
         cycle[c].at \in Settled(c)' \ unacked =>
           Agree(index'[Initiator][cycle[c].at], index'[Responder][cycle[c].at])
  PROVE  IndexesOrdered' /\ \A d \in Cycles : CycleAgrees(d)'
<1>. DEFINE x == cycle[c].at
<1>1. /\ cycle'[c] = next
      /\ cycle[c].step \in {"reuse", "apply", "merge", "conflict"}
      /\ next.step \in {"reuse", "apply"}
  BY DEF AgreeInv, SnapInv, TypeInv, TypeOK, Follows
<1>2. ASSUME NEW y \in Settled(c)', y # x PROVE y \in Settled(c) /\ y \in Paths
  <2>1. CASE cycle[c].step = "reuse"
    <3>1. y \in cycle[c].reused
      BY <1>1, <1>2, <2>1 DEF Settled, Follows
    <3>2. cycle[c].reused \subseteq Paths
      BY CycleTyped DEF AgreeInv, SnapInv, TypeInv
    <3>. QED BY <2>1, <3>1, <3>2 DEF Settled
  <2>2. CASE cycle[c].step \in {"apply", "merge", "conflict"}
    <3>1. next.step = "apply" /\ next.reused = cycle[c].reused /\ next.at = x + 1
      BY <2>2 DEF Follows
    <3>2. y \in Paths /\ (y \in cycle[c].reused \/ y < x + 1)
      BY <1>1, <1>2, <3>1 DEF Settled
    <3>3. x \in Nat /\ y \in Nat
      BY <3>2 DEF Paths
    <3>4. y \in cycle[c].reused \/ y < x
      BY <1>2, <3>2, <3>3
    <3>. QED BY <2>2, <3>2, <3>4 DEF Settled
  <2>. QED BY <1>1, <2>1, <2>2
<1>3. ASSUME NEW y \in Settled(c)' \ unacked
      PROVE  Agree(index'[Initiator][y], index'[Responder][y])
  <2>1. CASE y = x
    BY <1>3, <2>1
  <2>2. CASE y # x
    <3>1. Agree(index[Initiator][y], index[Responder][y])
      BY <1>2, <1>3, <2>2 DEF AgreeInv, CycleAgrees, SettledAgree
    <3>2. /\ index'[Initiator][y] = index[Initiator][y]
          /\ index'[Responder][y] = index[Responder][y]
      BY <1>2, <1>3, <2>2 DEF IndexKeptBut
    <3>. QED BY <3>1, <3>2
  <2>. QED BY <2>1, <2>2
<1>4. SettledAgree(c)'
  BY <1>3 DEF SettledAgree, Agree
<1>5. Fresh(c)' /\ HalfCommitted(c)' /\ HalfPruned(c)'
  BY <1>1 DEF Fresh, HalfCommitted, HalfPruned, Acking
<1>6. IndexesOrdered'
  BY <1>1, StillOrdered
<1>. QED BY <1>1, <1>4, <1>5, <1>6, OthersAgree DEF CycleAgrees

LEMMA PathProceeds ==
  ASSUME AgreeInv, unacked' = unacked, NEW c \in Cycles, NEW outcome, NEW next, Proceed(c, outcome, next),
         cycle[c].at \in Paths, Follows(next, c), IndexKeptBut(cycle[c].at),
         outcome = "done" /\ cycle[c].at \notin unacked =>
           Agree(index'[Initiator][cycle[c].at], index'[Responder][cycle[c].at])
  PROVE  IndexesOrdered' /\ \A d \in Cycles : CycleAgrees(d)'
<1>1. CASE outcome = "done"
  <2>1. cycle' = [cycle EXCEPT ![c] = next]
    BY <1>1 DEF Proceed
  <2>. QED BY <1>1, <2>1, PathDone
<1>2. CASE outcome # "done"
  <2>1. cycle' = [cycle EXCEPT ![c] = IdleCycle]
    BY <1>2 DEF Proceed
  <2>2. cycle[c].step \notin {"idle", "ackPeer"}
    BY DEF Follows
  <2>. QED BY <2>1, <2>2, PathFailed
<1>. QED BY <1>1, <1>2

LEMMA NextPathFollows ==
  ASSUME TypeOK, NEW c \in Cycles
  PROVE  /\ cycle[c].step \in {"reuse", "apply", "merge", "conflict"} => Follows(NextPath(c), c)
         /\ cycle[c].step = "reuse" => Follows(NextPathReused(c), c)
BY NextPathFields DEF Follows

-------------------------------------------------------------------------------
(* Transfers and deletions: one commit settles the path. *)

\* A commit at one side, of the other side's fate, under the planned vector.
Settles(q, entry, c) ==
  /\ entry \in Entry /\ entry.version = Plan(c).vector
  /\ \/ /\ q = Responder /\ entry.deleted = LocalEntry(c).deleted
        /\ entry.deleted => Plan(c).vector = LocalEntry(c).version
     \/ /\ q = Initiator /\ entry.deleted = RemoteEntry(c).deleted
        /\ entry.deleted => Plan(c).vector = RemoteEntry(c).version

LEMMA CommitSettles ==
  ASSUME AgreeInv, NEW c \in Cycles, cycle[c].at \in Paths, cycle[c].at \in Pending(c),
         NEW q, NEW entry, NEW outcome, Settles(q, entry, c),
         Commit(q, cycle[c].at, entry, outcome)
  PROVE  /\ IndexKeptBut(cycle[c].at)
         /\ outcome = "done" /\ cycle[c].at \notin unacked =>
              Agree(index'[Initiator][cycle[c].at], index'[Responder][cycle[c].at])
<1>. DEFINE x == cycle[c].at
            mine == LocalEntry(c)
            theirs == RemoteEntry(c)
<1>. USE DEF AgreeInv, SnapInv, TypeInv
<1>1. /\ index[Initiator][x] = mine /\ index[Responder][x] = theirs
      /\ mine \in Entry /\ theirs \in Entry
      /\ x \notin unacked => Ordered(mine, theirs)
  BY PendingPath
<1>2. Plan(c).vector = Merge(mine.version, theirs.version)
  BY <1>1, DecideReasons DEF Plan
<1>3. Initiator \in Peers /\ Responder \in Peers /\ Initiator # Responder
  BY PeersAreTwo
<1>4. ASSUME index' = index PROVE IndexKeptBut(x)
  BY <1>1, <1>4 DEF IndexKeptBut
<1>5. ASSUME index' = [index EXCEPT ![q][x] = entry]
      PROVE  /\ IndexKeptBut(x)
             /\ x \notin unacked => Agree(index'[Initiator][x], index'[Responder][x])
  <2>1. q \in Peers
    BY <1>3 DEF Settles
  <2>2. \A y \in Paths : y # x => /\ index'[Initiator][y] = index[Initiator][y]
                                  /\ index'[Responder][y] = index[Responder][y]
    BY <1>3, <1>5, <2>1 DEF TypeOK
  <2>3. CASE q = Responder
    <3>1. index'[Initiator][x] = mine /\ index'[Responder][x] = entry
      BY <1>1, <1>3, <1>5, <2>3 DEF TypeOK
    <3>2. entry \in Entry /\ entry.version = Plan(c).vector /\ entry.deleted = mine.deleted
          /\ (entry.deleted => Plan(c).vector = mine.version)
      BY <1>3, <2>3 DEF Settles
    <3>3. /\ x \notin unacked => Ordered(mine, entry)
          /\ x \notin unacked /\ ~entry.deleted => Agree(mine, entry)
      BY <1>1, <1>2, <3>2, CommitTheirs
    <3>4. entry.deleted => Agree(mine, entry)
      BY <1>1, <3>2, SameVersion
    <3>. QED BY <2>2, <3>1, <3>3, <3>4 DEF IndexKeptBut
  <2>4. CASE q = Initiator
    <3>1. index'[Initiator][x] = entry /\ index'[Responder][x] = theirs
      BY <1>1, <1>3, <1>5, <2>4 DEF TypeOK
    <3>2. entry \in Entry /\ entry.version = Plan(c).vector /\ entry.deleted = theirs.deleted
          /\ (entry.deleted => Plan(c).vector = theirs.version)
      BY <1>3, <2>4 DEF Settles
    <3>3. /\ x \notin unacked => Ordered(entry, theirs)
          /\ x \notin unacked /\ ~entry.deleted => Agree(entry, theirs)
      BY <1>1, <1>2, <3>2, CommitMine
    <3>4. entry.deleted => Agree(entry, theirs)
      BY <1>1, <3>2, SameVersion
    <3>. QED BY <2>2, <3>1, <3>3, <3>4 DEF IndexKeptBut
  <2>. QED BY <2>3, <2>4 DEF Settles
<1>6. \/ index' = [index EXCEPT ![q][x] = entry]
      \/ index' = index /\ outcome # "done"
  BY DEF Commit
<1>. QED BY <1>4, <1>5, <1>6

LEMMA TransfersAgree ==
  ASSUME AgreeInv, unacked' = unacked, NEW c \in Cycles, NEW outcome,
         \/ ReuseOnPeer(c, outcome) \/ ReuseLocal(c, outcome)
         \/ Push(c, outcome) \/ Pull(c, outcome) \/ Delete(c, outcome)
  PROVE  IndexesOrdered' /\ \A d \in Cycles : CycleAgrees(d)'
<1>. USE DEF AgreeInv, SnapInv, TypeInv
<1>1. /\ cycle[c].at \in Paths /\ cycle[c].at \in Pending(c)
      /\ cycle[c].step \in {"reuse", "apply"}
  BY DEF ReuseOnPeer, ReuseLocal, Push, Pull, Delete, Applying, AtPath, Pending, Paths
<1>2. LocalEntry(c) \in Entry /\ RemoteEntry(c) \in Entry
  BY <1>1, PendingPath
<1>3. PICK q, entry : Settles(q, entry, c) /\ Commit(q, cycle[c].at, entry, outcome)
  <2>. DEFINE v == Plan(c).vector
  <2>1. ASSUME NEW file \in File
        PROVE  /\ LiveEntry(v, file) \in Entry /\ LiveEntry(v, file).version = v
               /\ ~LiveEntry(v, file).deleted
    BY <1>1, PathTyped, LiveEntryIsEntry DEF LiveEntry
  <2>2. Tombstone(v) \in Entry /\ Tombstone(v).version = v /\ Tombstone(v).deleted
    BY <1>1, PathTyped, TombstoneIsEntry DEF Tombstone
  <2>3. CASE ReuseOnPeer(c, outcome) \/ Push(c, outcome)
    <3>1. /\ IsPush(c)
          /\ Commit(Responder, cycle[c].at, LiveEntry(v, FileOf(LocalEntry(c))), outcome)
      BY <2>3 DEF ReuseOnPeer, Push, Install
    <3>2. ~LocalEntry(c).deleted
      BY <1>2, <3>1, DecideReasons, PeersAreTwo DEF IsPush, Plan
    <3>3. FileOf(LocalEntry(c)) \in File
      BY <1>1, <3>1, PathTyped
    <3>4. Settles(Responder, LiveEntry(v, FileOf(LocalEntry(c))), c)
      BY <1>2, <2>1, <3>2, <3>3, EntryFields DEF Settles, LiveEntry
    <3>. QED BY <3>1, <3>4
  <2>4. CASE ReuseLocal(c, outcome) \/ Pull(c, outcome)
    <3>1. /\ IsPull(c)
          /\ \E file \in File : Commit(Initiator, cycle[c].at, LiveEntry(v, file), outcome)
      <4>1. CASE Pull(c, outcome)
        <5>1. IsPull(c) /\ Commit(Initiator, cycle[c].at, LiveEntry(v, FileOf(RemoteEntry(c))), outcome)
          BY <4>1 DEF Pull, Install
        <5>. QED BY <1>1, <5>1, PathTyped
      <4>2. CASE ReuseLocal(c, outcome)
        <5>1. /\ IsPull(c)
              /\ Commit(Initiator, cycle[c].at, LiveEntry(v, FileOf(LocalEntry(c))), outcome)
              /\ \E s \in Paths : IsLive(cycle[c].local[s]) /\ cycle[c].local[s].hash = LocalEntry(c).hash
          BY <4>2 DEF ReuseLocal, Install, Sources
        <5>2. IsLive(LocalEntry(c))
          BY <5>1 DEF IsLive
        <5>. QED BY <1>2, <5>1, <5>2, EntryFields
      <4>. QED BY <2>4, <4>1, <4>2
    <3>2. ~RemoteEntry(c).deleted
      BY <1>2, <3>1, DecideReasons, PeersAreTwo DEF IsPull, Plan
    <3>3. PICK file \in File : Commit(Initiator, cycle[c].at, LiveEntry(v, file), outcome)
      BY <3>1
    <3>4. Settles(Initiator, LiveEntry(v, file), c)
      BY <1>2, <2>1, <3>2, EntryFields DEF Settles, LiveEntry
    <3>. QED BY <3>3, <3>4
  <2>5. CASE Delete(c, outcome)
    <3>1. /\ Plan(c).kind = "delete"
          /\ Commit(DeleteAt(c), cycle[c].at, Tombstone(v), outcome)
      BY <2>5 DEF Delete, Remove
    <3>2. \/ /\ Plan(c).source = Initiator /\ LocalEntry(c).deleted
             /\ v = LocalEntry(c).version
          \/ /\ Plan(c).source = Responder /\ RemoteEntry(c).deleted
             /\ v = RemoteEntry(c).version
      BY <1>2, <3>1, DecideReasons DEF Plan
    <3>3. Settles(DeleteAt(c), Tombstone(v), c)
      <4>1. CASE Plan(c).source = Initiator /\ LocalEntry(c).deleted /\ v = LocalEntry(c).version
        <5>1. DeleteAt(c) = Responder
          BY <4>1, PeersAreTwo DEF DeleteAt
        <5>. QED BY <2>2, <4>1, <5>1 DEF Settles
      <4>2. CASE Plan(c).source = Responder /\ RemoteEntry(c).deleted /\ v = RemoteEntry(c).version
        <5>1. DeleteAt(c) = Initiator
          BY <4>2 DEF DeleteAt
        <5>. QED BY <2>2, <4>2, <5>1 DEF Settles
      <4>. QED BY <3>2, <4>1, <4>2
    <3>. QED BY <3>1, <3>3
  <2>. QED BY <2>3, <2>4, <2>5
<1>4. /\ IndexKeptBut(cycle[c].at)
      /\ outcome = "done" /\ cycle[c].at \notin unacked =>
           Agree(index'[Initiator][cycle[c].at], index'[Responder][cycle[c].at])
  BY <1>1, <1>3, CommitSettles
<1>5. PICK next : Proceed(c, outcome, next) /\ Follows(next, c)
  <2>1. CASE ReuseOnPeer(c, outcome) \/ ReuseLocal(c, outcome)
    BY <2>1, NextPathFollows DEF ReuseOnPeer, ReuseLocal, AtPath
  <2>2. CASE Push(c, outcome) \/ Pull(c, outcome) \/ Delete(c, outcome)
    BY <2>2, NextPathFollows DEF Push, Pull, Delete, Applying, AtPath
  <2>. QED BY <2>1, <2>2
<1>. QED BY <1>1, <1>4, <1>5, PathProceeds

-------------------------------------------------------------------------------
(* Merges and conflicts: two commits, the initiator's first. *)

LEMMA MergedIsEntry ==
  ASSUME NEW e \in Entry, e # Absent, NEW v \in Version
  PROVE  /\ [e EXCEPT !.version = v] \in Entry
         /\ [e EXCEPT !.version = v].version = v
         /\ [e EXCEPT !.version = v].deleted = e.deleted
<1>1. \/ IsLive(e) /\ ~e.deleted
      \/ ~IsLive(e) /\ e.deleted /\ e.mtime = 0
  BY EntryFields
<1>. QED BY <1>1 DEF Entry, IsLive

LEMMA MergesAgree ==
  ASSUME AgreeInv, unacked' = unacked, NEW c \in Cycles, NEW outcome,
         MergeLocal(c) \/ MergePeer(c, outcome)
  PROVE  IndexesOrdered' /\ \A d \in Cycles : CycleAgrees(d)'
<1>. USE DEF AgreeInv, SnapInv, TypeInv
<1>. DEFINE x == cycle[c].at
<1>1. /\ x \in Paths /\ Plan(c).kind = "merge"
      /\ cycle[c].step \in {"apply", "merge"}
  BY DEF MergeLocal, MergePeer, Applying, AtPath, PlanKept
<1>2. LocalEntry(c) \in Entry /\ RemoteEntry(c) \in Entry
  BY <1>1, PathTyped
<1>3. /\ Plan(c).vector = Merge(LocalEntry(c).version, RemoteEntry(c).version)
      /\ LocalEntry(c).deleted = RemoteEntry(c).deleted
  BY <1>1, <1>2, DecideReasons DEF Plan
<1>. DEFINE merged == [LocalEntry(c) EXCEPT !.version = Plan(c).vector]
<1>4. /\ merged \in Entry /\ merged.version = Plan(c).vector
      /\ merged.deleted = LocalEntry(c).deleted
  BY <1>1, <1>2, MergedIsEntry, PathTyped
<1>5. CASE MergeLocal(c)
  <2>. DEFINE next == [cycle[c] EXCEPT !.step = "merge"]
  <2>1. x \in Pending(c) /\ cycle[c].step = "apply"
    BY <1>5 DEF MergeLocal, Applying, AtPath, Pending, Paths
  <2>2. /\ index[Responder][x] = RemoteEntry(c)
        /\ x \notin unacked => Ordered(LocalEntry(c), RemoteEntry(c))
    BY <1>1, <2>1, PendingPath
  <2>3. x \notin unacked => Ordered(merged, RemoteEntry(c))
    BY <1>2, <1>3, <1>4, <2>2, CommitMine
  <2>4. index' = [index EXCEPT ![Initiator][x] = merged]
    BY <1>5 DEF MergeLocal
  <2>5. /\ index'[Initiator][x] = merged /\ index'[Responder] = index[Responder]
        /\ \A y \in Paths : y # x => index'[Initiator][y] = index[Initiator][y]
    BY <1>1, <2>4, PeersAreTwo DEF TypeOK
  <2>6. IndexKeptBut(x)
    BY <2>2, <2>3, <2>5 DEF IndexKeptBut
  <2>7. cycle' = [cycle EXCEPT ![c] = next]
    BY <1>5 DEF MergeLocal, TypeOK
  <2>8. /\ cycle'[c].step = "merge" /\ cycle'[c].at = x
        /\ cycle'[c].local = cycle[c].local /\ cycle'[c].remote = cycle[c].remote
        /\ cycle'[c].reused = cycle[c].reused
    BY <2>7 DEF TypeOK, Cycle
  <2>9. HalfCommitted(c)'
    <3>1. LocalEntry(c)' = LocalEntry(c) /\ Plan(c)' = Plan(c)
      BY <2>8 DEF Plan, LocalEntry, RemoteEntry
    <3>. QED BY <2>5, <2>8, <3>1 DEF HalfCommitted
  <2>10. ASSUME NEW y \in Settled(c)' \ unacked
         PROVE  Agree(index'[Initiator][y], index'[Responder][y])
    <3>1. y \in Settled(c) /\ y \in Paths /\ y # x
      BY <1>5, <2>1, <2>8, <2>10 DEF Settled, MergeLocal, Applying, Paths
    <3>. QED BY <2>5, <3>1 DEF CycleAgrees, SettledAgree
  <2>11. Fresh(c)' /\ SettledAgree(c)' /\ HalfPruned(c)'
    BY <2>8, <2>10 DEF Fresh, SettledAgree, HalfPruned, Acking, Agree
  <2>. QED BY <2>1, <2>6, <2>7, <2>9, <2>11, <1>1, StillOrdered, OthersAgree DEF CycleAgrees
<1>6. CASE MergePeer(c, outcome)
  <2>1. cycle[c].step = "merge" /\ Proceed(c, outcome, NextPath(c))
    BY <1>6 DEF MergePeer, AtPath
  <2>2. index[Initiator][x] = merged /\ index[Responder][x] = RemoteEntry(c)
    BY <2>1 DEF CycleAgrees, HalfCommitted, SnapshotsCurrent, SnapshotCurrent
  <2>. DEFINE entry == [RemoteEntry(c) EXCEPT !.version = Plan(c).vector]
  <2>3. index' = [index EXCEPT ![Responder][x].version = Plan(c).vector]
    BY <1>6 DEF MergePeer
  <2>4. /\ index'[Responder][x] = entry /\ index'[Initiator] = index[Initiator]
        /\ \A y \in Paths : y # x => index'[Responder][y] = index[Responder][y]
    BY <1>1, <2>2, <2>3, PeersAreTwo DEF TypeOK
  <2>5. RemoteEntry(c) # Absent
    BY <1>6, <2>2 DEF MergePeer, CanMergePeer
  <2>6. /\ entry \in Entry /\ entry.version = Plan(c).vector
        /\ entry.deleted = RemoteEntry(c).deleted
    BY <1>1, <1>2, <2>5, PathTyped, MergedIsEntry
  <2>7. Ordered(merged, entry) /\ Agree(merged, entry)
    BY <1>3, <1>4, <2>6, SameVersion
  <2>8. IndexKeptBut(x) /\ Agree(index'[Initiator][x], index'[Responder][x])
    BY <2>2, <2>4, <2>7 DEF IndexKeptBut
  <2>9. Follows(NextPath(c), c)
    BY <2>1, NextPathFollows
  <2>. QED BY <1>1, <2>1, <2>8, <2>9, PathProceeds
<1>. QED BY <1>5, <1>6

LEMMA ConflictsAgree ==
  ASSUME AgreeInv, unacked' = unacked, NEW c \in Cycles, NEW outcome,
         ConflictCheck(c) \/ ConflictPreserve(c, outcome) \/ ConflictPush(c, outcome)
  PROVE  IndexesOrdered' /\ \A d \in Cycles : CycleAgrees(d)'
<1>. USE DEF AgreeInv, SnapInv, TypeInv
<1>. DEFINE x == cycle[c].at
            winner == LiveEntry(Plan(c).vector, FileOf(LocalEntry(c)))
<1>1. /\ x \in Paths /\ x \notin cycle[c].reused /\ Plan(c).kind = "conflict"
      /\ cycle[c].step \in {"apply", "preserve", "conflict"}
  BY DEF ConflictCheck, ConflictPreserve, ConflictPush, Applying, AtPath, PlanKept
<1>2. LocalEntry(c) \in Entry /\ RemoteEntry(c) \in Entry
  BY <1>1, PathTyped
<1>3. /\ Plan(c).vector = Merge(LocalEntry(c).version, RemoteEntry(c).version)
      /\ ~LocalEntry(c).deleted /\ ~RemoteEntry(c).deleted
  BY <1>1, <1>2, DecideReasons DEF Plan
<1>4. /\ winner \in Entry /\ winner.version = Plan(c).vector /\ ~winner.deleted
  BY <1>1, PathTyped, LiveEntryIsEntry DEF LiveEntry
<1>5. CASE ConflictCheck(c)
  <2>. DEFINE next == [cycle[c] EXCEPT !.step = "preserve", !.data = disk[Initiator][x].hash]
  <2>1. cycle' = [cycle EXCEPT ![c] = next] /\ cycle[c].step = "apply" /\ index' = index
    BY <1>5 DEF ConflictCheck, Applying, AtPath, TypeOK
  <2>2. /\ cycle'[c].step = "preserve" /\ cycle'[c].at = x
        /\ cycle'[c].reused = cycle[c].reused
    BY <2>1 DEF TypeOK, Cycle
  <2>3. Settled(c)' = Settled(c)
    BY <2>1, <2>2 DEF Settled
  <2>4. CycleAgrees(c)'
    BY <2>1, <2>2, <2>3 DEF CycleAgrees, Fresh, HalfCommitted, SettledAgree, HalfPruned, Acking
  <2>5. \A d \in Cycles : ~Acking(d)
    BY <2>1, NotAcking
  <2>6. IndexesOrdered'
    BY <2>1, <2>5 DEF IndexesOrdered
  <2>. QED BY <2>1, <2>4, <2>6, OthersAgree
<1>6. CASE ConflictPreserve(c, outcome)
  <2>. DEFINE next == [cycle[c] EXCEPT !.step = "conflict"]
  <2>1. /\ Proceed(c, outcome, next) /\ cycle[c].step = "preserve"
        /\ Commit(Initiator, x, winner, outcome)
    BY <1>6 DEF ConflictPreserve, AtPath
  <2>2. x \in Pending(c)
    BY <1>1, <2>1 DEF Pending, Paths
  <2>3. /\ index[Initiator][x] = LocalEntry(c) /\ index[Responder][x] = RemoteEntry(c)
        /\ x \notin unacked => Ordered(LocalEntry(c), RemoteEntry(c))
    BY <1>1, <2>2, PendingPath
  <2>4. x \notin unacked => Ordered(winner, RemoteEntry(c))
    <3>. HIDE DEF winner
    <3>1. winner.deleted = RemoteEntry(c).deleted
      BY <1>2, <1>3, <1>4, EntryFields
    <3>. QED BY <1>2, <1>3, <1>4, <2>3, <3>1, CommitMine
  <2>5. /\ index'[Responder] = index[Responder]
        /\ \A y \in Paths : y # x => index'[Initiator][y] = index[Initiator][y]
        /\ \/ outcome # "done" /\ index'[Initiator][x] = LocalEntry(c)
           \/ index'[Initiator][x] = winner
    BY <1>1, <2>1, <2>3, PeersAreTwo DEF Commit, TypeOK
  <2>6. IndexKeptBut(x)
    BY <2>3, <2>4, <2>5 DEF IndexKeptBut
  <2>7. CASE outcome # "done"
    <3>1. cycle' = [cycle EXCEPT ![c] = IdleCycle]
      BY <2>1, <2>7 DEF Proceed
    <3>. QED BY <1>1, <2>1, <2>6, <3>1, PathFailed
  <2>8. CASE outcome = "done"
    <3>1. cycle' = [cycle EXCEPT ![c] = next]
      BY <2>1, <2>8 DEF Proceed
    <3>2. /\ cycle'[c].step = "conflict" /\ cycle'[c].at = x
          /\ cycle'[c].local = cycle[c].local /\ cycle'[c].remote = cycle[c].remote
          /\ cycle'[c].reused = cycle[c].reused
      BY <3>1 DEF TypeOK, Cycle
    <3>3. HalfCommitted(c)'
      <4>1. LocalEntry(c)' = LocalEntry(c) /\ Plan(c)' = Plan(c)
        BY <3>2 DEF Plan, LocalEntry, RemoteEntry
      <4>. QED BY <2>5, <2>8, <3>2, <4>1 DEF HalfCommitted
    <3>4. ASSUME NEW y \in Settled(c)' \ unacked
          PROVE  Agree(index'[Initiator][y], index'[Responder][y])
      <4>1. y \in Settled(c) /\ y \in Paths /\ y # x
        BY <1>1, <2>1, <3>2, <3>4 DEF Settled, Paths
      <4>. QED BY <2>5, <4>1 DEF CycleAgrees, SettledAgree
    <3>5. Fresh(c)' /\ SettledAgree(c)' /\ HalfPruned(c)'
      BY <3>2, <3>4 DEF Fresh, SettledAgree, HalfPruned, Acking, Agree
    <3>. QED BY <1>1, <2>1, <2>6, <3>1, <3>3, <3>5, StillOrdered, OthersAgree DEF CycleAgrees
  <2>. QED BY <2>7, <2>8
<1>7. CASE ConflictPush(c, outcome)
  <2>. DEFINE next == [NextPath(c) EXCEPT !.data = NoContent]
  <2>1. /\ Proceed(c, outcome, next) /\ cycle[c].step = "conflict"
        /\ Commit(Responder, x, winner, outcome)
    BY <1>7 DEF ConflictPush, AtPath
  <2>2. index[Initiator][x] = winner /\ index[Responder][x] = RemoteEntry(c)
    BY <2>1 DEF CycleAgrees, HalfCommitted, SnapshotsCurrent, SnapshotCurrent
  <2>3. Ordered(winner, winner) /\ Agree(winner, winner)
    <3>. HIDE DEF winner
    <3>. QED BY <1>4, SameVersion
  <2>4. x \notin unacked => Ordered(winner, RemoteEntry(c))
    BY <1>1, <2>1, <2>2, NotAcking DEF IndexesOrdered
  <2>5. /\ index'[Initiator] = index[Initiator]
        /\ \A y \in Paths : y # x => index'[Responder][y] = index[Responder][y]
        /\ \/ outcome # "done" /\ index'[Responder][x] = RemoteEntry(c)
           \/ index'[Responder][x] = winner
    BY <1>1, <2>1, <2>2, PeersAreTwo DEF Commit, TypeOK
  <2>6. /\ IndexKeptBut(x)
        /\ outcome = "done" => Agree(index'[Initiator][x], index'[Responder][x])
    BY <2>2, <2>3, <2>4, <2>5 DEF IndexKeptBut
  <2>7. Follows(next, c)
    BY <1>1, <2>1, NextPathFields, NextPathTyped DEF Follows, Cycle
  <2>. HIDE DEF next
  <2>. QED BY <1>1, <2>1, <2>6, <2>7, PathProceeds
<1>. QED BY <1>5, <1>6, <1>7

-------------------------------------------------------------------------------
(* The steps around the actions. *)

LEMMA NothingSettled ==
  ASSUME NEW c \in Cycles, cycle'[c].step \in {"idle", "scan", "list"},
         cycle'[c].reused = {}
  PROVE  CycleAgrees(c)'
BY DEF CycleAgrees, Fresh, HalfCommitted, SettledAgree, Settled, HalfPruned, Acking

LEMMA IndexStays ==
  ASSUME AgreeInv, unacked' = unacked, index' = index, \A d \in Cycles : ~Acking(d)
  PROVE  IndexesOrdered'
BY DEF AgreeInv, IndexesOrdered

\* A scan by either side, while no acknowledgement is on its way.
LEMMA IndexScanned ==
  ASSUME AgreeInv, unacked' = unacked, \A d \in Cycles : ~Acking(d),
         \/ index' = [index EXCEPT ![Initiator] = Scan(Initiator, @, disk[Initiator])]
         \/ index' = [index EXCEPT ![Responder] = Scan(Responder, @, disk[Responder])]
  PROVE  IndexesOrdered'
<1>. USE DEF AgreeInv, SnapInv, TypeInv
<1>1. ASSUME NEW x \in Paths \ unacked
      PROVE  Ordered(index'[Initiator][x], index'[Responder][x])
  <2>1. /\ Ordered(index[Initiator][x], index[Responder][x])
        /\ index[Initiator][x] \in Entry /\ index[Responder][x] \in Entry
        /\ disk[Initiator][x] \in File \cup {NoFile}
        /\ disk[Responder][x] \in File \cup {NoFile}
    BY PeersAreTwo DEF IndexesOrdered, TypeOK
  <2>2. \/ /\ index'[Responder][x] = index[Responder][x]
           /\ index'[Initiator][x] = ScanEntry(Initiator, index[Initiator][x], disk[Initiator][x])
        \/ /\ index'[Initiator][x] = index[Initiator][x]
           /\ index'[Responder][x] = ScanEntry(Responder, index[Responder][x], disk[Responder][x])
    BY PeersAreTwo DEF TypeOK, Scan
  <2>. QED BY <2>1, <2>2, ScanOrdered
<1>2. \A x \in Paths \ unacked' : Ordered(index[Initiator][x], index[Responder][x])'
  BY <1>1 DEF Ordered
<1>. QED BY <1>2 DEF IndexesOrdered

LEMMA SkipsAgree ==
  ASSUME AgreeInv, unacked' = unacked, NEW c \in Cycles, NoReuse(c) \/ Skip(c)
  PROVE  IndexesOrdered' /\ \A d \in Cycles : CycleAgrees(d)'
<1>. USE DEF AgreeInv, SnapInv, TypeInv
<1>. DEFINE x == cycle[c].at
<1>1. /\ x \in Paths /\ cycle[c].step \in {"reuse", "apply"} /\ index' = index
      /\ cycle' = [cycle EXCEPT ![c] = NextPath(c)]
  BY DEF NoReuse, Skip, AtPath
<1>2. Follows(NextPath(c), c)
  BY <1>1, NextPathFollows
<1>3. x \notin unacked => Ordered(index[Initiator][x], index[Responder][x])
  BY <1>1, NotAcking DEF IndexesOrdered
<1>4. IndexKeptBut(x)
  BY <1>1, <1>3 DEF IndexKeptBut
<1>5. x \in Settled(c) \ unacked => Agree(index'[Initiator][x], index'[Responder][x])
  BY <1>1 DEF CycleAgrees, SettledAgree
<1>6. CASE x \in cycle[c].reused
  <2>1. x \in Settled(c)
    BY <1>1, <1>6 DEF Settled
  <2>. QED BY <1>1, <1>2, <1>4, <1>5, <2>1, PathDone
<1>7. CASE NoReuse(c) /\ x \notin cycle[c].reused
  <2>1. cycle[c].step = "reuse"
    BY <1>7 DEF NoReuse, AtPath
  <2>2. cycle'[c].step = "reuse" /\ cycle'[c].reused = cycle[c].reused
    BY <1>1, <2>1, NextPathFields DEF TypeOK
  <2>3. x \notin Settled(c)'
    BY <1>7, <2>2 DEF Settled
  <2>. QED BY <1>1, <1>2, <1>4, <2>3, PathDone
<1>8. CASE Skip(c) /\ x \notin cycle[c].reused
  <2>1. Plan(c).kind = "none" /\ x \in Pending(c)
    BY <1>8 DEF Skip, AtPath, Pending, Paths
  <2>2. /\ index[Initiator][x] = LocalEntry(c) /\ index[Responder][x] = RemoteEntry(c)
        /\ LocalEntry(c) \in Entry /\ RemoteEntry(c) \in Entry
        /\ x \notin unacked => Ordered(LocalEntry(c), RemoteEntry(c))
    BY <1>1, <2>1, PendingPath
  <2>3. LocalEntry(c).version = RemoteEntry(c).version
    BY <2>1, <2>2, DecideReasons DEF Plan
  <2>4. x \notin unacked => LocalEntry(c).deleted = RemoteEntry(c).deleted
    BY <2>2, <2>3 DEF Ordered
  <2>5. x \notin unacked => Agree(index'[Initiator][x], index'[Responder][x])
    BY <1>1, <2>2, <2>3, <2>4, SameVersion
  <2>. QED BY <1>1, <1>2, <1>4, <2>5, PathDone
<1>. QED BY <1>6, <1>7, <1>8

\* What was agreed on is pruned alike.
LEMMA PruneAlike ==
  ASSUME NEW mine \in [Paths -> Entry], NEW theirs \in [Paths -> Entry], NEW acked,
         NEW x \in Paths, Ordered(mine[x], theirs[x]), Agree(mine[x], theirs[x])
  PROVE  Ordered(Prune(mine, acked)[x], Prune(theirs, acked)[x])
<1>1. CASE mine[x].deleted /\ Leq(mine[x].version, acked)
  <2>1. Prune(mine, acked)[x] = Absent /\ Prune(theirs, acked)[x] = Absent
    BY <1>1 DEF Prune, Agree
  <2>. QED BY <2>1, AbsentIsEntry, SameVersion
<1>2. CASE ~(mine[x].deleted /\ Leq(mine[x].version, acked))
  <2>1. Prune(mine, acked)[x] = mine[x] /\ Prune(theirs, acked)[x] = theirs[x]
    BY <1>2 DEF Prune, Agree
  <2>. QED BY <2>1
<1>. QED BY <1>1, <1>2

LEMMA AcksAgree ==
  ASSUME AgreeInv, unacked' = unacked, NEW c \in Cycles, NEW outcome,
         ApplyDone(c) \/ AckLocal(c) \/ AckPeer(c, outcome)
  PROVE  IndexesOrdered' /\ \A d \in Cycles : CycleAgrees(d)'
<1>. USE DEF AgreeInv, SnapInv, TypeInv
<1>1. cycle[c] \in Cycle /\ Initiator \in Peers /\ Responder \in Peers /\ Initiator # Responder
  BY PeersAreTwo DEF TypeOK
<1>2. CASE ApplyDone(c)
  <2>1. /\ cycle[c].step = "apply" /\ cycle[c].at = NumPaths + 1 /\ index' = index
        /\ cycle' = [cycle EXCEPT ![c] = [cycle[c] EXCEPT !.step = "ack"]]
    BY <1>2 DEF ApplyDone, TypeOK
  <2>2. cycle'[c].step = "ack"
    BY <1>1, <2>1 DEF TypeOK, Cycle
  <2>3. Settled(c) = Paths /\ Settled(c)' = Paths
    BY <2>1, <2>2, NumPathsAssumption DEF Settled, Paths
  <2>4. CycleAgrees(c)'
    BY <2>1, <2>2, <2>3 DEF CycleAgrees, Fresh, HalfCommitted, SettledAgree, HalfPruned, Acking
  <2>5. IndexesOrdered'
    BY <2>1, NotAcking, IndexStays
  <2>. QED BY <2>1, <2>4, <2>5, OthersAgree
<1>3. CASE AckLocal(c)
  <2>. DEFINE next == [cycle[c] EXCEPT !.step = "ackPeer", !.local = index[Initiator]]
  <2>1. /\ cycle[c].step = "ack" /\ cycle' = [cycle EXCEPT ![c] = next]
        /\ index' = [index EXCEPT ![Initiator] =
                       Prune(index[Initiator], GlobalVector(index[Initiator]))]
    BY <1>1, <1>3 DEF AckLocal, TypeOK
  <2>2. cycle'[c].step = "ackPeer" /\ cycle'[c].local = index[Initiator]
    BY <1>1, <2>1 DEF TypeOK, Cycle
  <2>3. /\ index'[Initiator] = Prune(index[Initiator], GlobalVector(index[Initiator]))
        /\ index'[Responder] = index[Responder]
    BY <1>1, <2>1 DEF TypeOK
  <2>4. \A x \in Paths \ unacked : Ordered(index[Initiator][x], index[Responder][x])
    BY <2>1, NotAcking DEF IndexesOrdered
  <2>5. \A x \in Paths \ unacked : Agree(index[Initiator][x], index[Responder][x])
    BY <2>1 DEF CycleAgrees, SettledAgree, Settled
  <2>6. CycleAgrees(c)'
    <3>1. HalfPruned(c)'
      BY <2>2, <2>3, <2>4, <2>5 DEF HalfPruned, Ordered, Agree
    <3>. QED BY <2>2, <3>1 DEF CycleAgrees, Fresh, HalfCommitted, SettledAgree, Settled
  <2>7. Acking(c)'
    BY <2>2 DEF Acking
  <2>8. IndexesOrdered'
    BY <2>7 DEF IndexesOrdered
  <2>. HIDE DEF next
  <2>. QED BY <2>1, <2>6, <2>8, OthersAgree
<1>4. CASE AckPeer(c, outcome)
  <2>1. /\ cycle[c].step = "ackPeer" /\ Proceed(c, outcome, IdleCycle)
        /\ index' = [index EXCEPT ![Responder] =
                       Prune(index[Responder], GlobalVector(cycle[c].local))]
    BY <1>1, <1>4 DEF AckPeer, TypeOK
  <2>2. cycle' = [cycle EXCEPT ![c] = IdleCycle]
    BY <2>1 DEF Proceed
  <2>3. /\ index'[Initiator] = Prune(cycle[c].local, GlobalVector(cycle[c].local))
        /\ index'[Responder] = Prune(index[Responder], GlobalVector(cycle[c].local))
        /\ \A x \in Paths \ unacked : /\ Ordered(cycle[c].local[x], index[Responder][x])
                                      /\ Agree(cycle[c].local[x], index[Responder][x])
    BY <1>1, <2>1 DEF TypeOK, CycleAgrees, HalfPruned, Acking
  <2>4. cycle[c].local \in [Paths -> Entry] /\ index[Responder] \in [Paths -> Entry]
    BY <1>1, CycleTyped DEF TypeOK
  <2>5. \A x \in Paths \ unacked : Ordered(index'[Initiator][x], index'[Responder][x])
    BY <2>3, <2>4, PruneAlike
  <2>6. \A x \in Paths \ unacked' : Ordered(index[Initiator][x], index[Responder][x])'
    BY <2>5 DEF Ordered
  <2>7. CycleAgrees(c)'
    <3>1. cycle'[c].step = "idle" /\ cycle'[c].reused = {}
      BY <2>2 DEF IdleCycle, TypeOK
    <3>. QED BY <3>1, NothingSettled
  <2>. QED BY <2>1, <2>2, <2>6, <2>7, OthersAgree DEF IndexesOrdered
<1>. QED BY <1>2, <1>3, <1>4

LEMMA SnapshotStepsAgree ==
  ASSUME AgreeInv, unacked' = unacked, NEW c \in Cycles, NEW outcome,
         \/ (ProbeResponder(c) \/ Begin(c)) /\ AllIdle
         \/ ScanLocal(c) \/ List(c, outcome)
         \/ NoReuse(c) \/ ReuseDone(c) \/ Skip(c)
         \/ Fail(c) \/ (Abort(c) /\ ~Acking(c)) \/ ApplyDone(c) \/ AckLocal(c) \/ AckPeer(c, outcome)
  PROVE  IndexesOrdered' /\ \A d \in Cycles : CycleAgrees(d)'
<1>. USE DEF AgreeInv, SnapInv, TypeInv
<1>1. cycle[c] \in Cycle /\ IdleCycle.step = "idle" /\ IdleCycle.reused = {}
  BY DEF TypeOK, IdleCycle
<1>0. cycle[c].step \in {"idle", "scan", "list"} => cycle[c].reused = {}
  BY DEF CycleAgrees, Fresh
<1>2. AllIdle => \A d \in Cycles : ~Acking(d)
  BY DEF AllIdle, Acking
<1>3. CASE ProbeResponder(c) /\ AllIdle
  <2>1. /\ cycle' = cycle
        /\ index' = [index EXCEPT ![Responder] = Scan(Responder, @, disk[Responder])]
    BY <1>3 DEF ProbeResponder
  <2>2. \A d \in Cycles : cycle'[d].step = "idle" /\ cycle'[d].reused = {}
    BY <1>2, <1>3, <2>1 DEF CycleAgrees, Fresh, AllIdle
  <2>3. \A d \in Cycles : CycleAgrees(d)'
    BY <2>2, NothingSettled
  <2>. QED BY <1>2, <1>3, <2>1, <2>3, IndexScanned
<1>4. CASE Begin(c) /\ AllIdle
  <2>. DEFINE next == [cycle[c] EXCEPT !.step = "scan", !.local = index[Initiator]]
  <2>1. index' = index /\ cycle' = [cycle EXCEPT ![c] = next]
    BY <1>4 DEF Begin, TypeOK
  <2>2. cycle'[c].step = "scan" /\ cycle'[c].reused = {}
    BY <1>1, <1>0, <1>2, <1>4, <2>1 DEF TypeOK, Cycle, AllIdle
  <2>. HIDE DEF next
  <2>. QED BY <1>2, <1>4, <2>1, <2>2, NothingSettled, IndexStays, OthersAgree
<1>5. CASE ScanLocal(c)
  <2>. DEFINE next == [cycle[c] EXCEPT !.step = "list",
                         !.local = Scan(Initiator, cycle[c].local, disk[Initiator])]
  <2>1. /\ cycle[c].step = "scan" /\ cycle' = [cycle EXCEPT ![c] = next]
        /\ cycle[c].local = index[Initiator]
    BY <1>5 DEF ScanLocal, SnapshotsCurrent, SnapshotCurrent, TypeOK
  <2>2. index' = [index EXCEPT ![Initiator] = Scan(Initiator, @, disk[Initiator])]
    BY <1>5, <2>1, PeersAreTwo DEF ScanLocal, TypeOK
  <2>3. cycle'[c].step = "list" /\ cycle'[c].reused = {}
    BY <1>1, <1>0, <2>1 DEF TypeOK, Cycle
  <2>. HIDE DEF next
  <2>. QED BY <2>1, <2>2, <2>3, NotAcking, NothingSettled, IndexScanned, OthersAgree
<1>6. CASE List(c, outcome)
  <2>. DEFINE scanned == Scan(Responder, index[Responder], disk[Responder])
              listed == [cycle[c] EXCEPT !.step = "reuse", !.remote = scanned]
              next == IF Halted(cycle[c].local, scanned) THEN IdleCycle ELSE listed
  <2>1. cycle[c].step = "list" /\ Proceed(c, outcome, next)
    BY <1>6 DEF List
  <2>2. index' = [index EXCEPT ![Responder] = Scan(Responder, @, disk[Responder])]
    BY <1>6, PeersAreTwo DEF List, TypeOK
  <2>3. PICK state \in {IdleCycle, listed} : cycle' = [cycle EXCEPT ![c] = state]
    BY <2>1 DEF Proceed
  <2>4. cycle'[c].step \in {"idle", "reuse"} /\ cycle'[c].reused = {}
    BY <1>1, <1>0, <2>1, <2>3 DEF TypeOK, Cycle
  <2>5. CycleAgrees(c)'
    <3>1. CASE cycle'[c].step = "idle"
      BY <2>4, <3>1, NothingSettled
    <3>2. CASE cycle'[c].step = "reuse"
      BY <2>4, <3>2
         DEF CycleAgrees, Fresh, HalfCommitted, SettledAgree, Settled, HalfPruned, Acking
    <3>. QED BY <2>4, <3>1, <3>2
  <2>. HIDE DEF next
  <2>. QED BY <2>1, <2>2, <2>3, <2>5, NotAcking, IndexScanned, OthersAgree
<1>7. CASE ReuseDone(c)
  <2>. DEFINE next == [cycle[c] EXCEPT !.step = "apply", !.at = 1]
  <2>1. cycle' = [cycle EXCEPT ![c] = next] /\ index' = index /\ cycle[c].step = "reuse"
    BY <1>7 DEF ReuseDone, TypeOK
  <2>2. /\ cycle'[c].step = "apply" /\ cycle'[c].at = 1
        /\ cycle'[c].reused = cycle[c].reused
    BY <1>1, <2>1 DEF TypeOK, Cycle
  <2>3. Settled(c)' \subseteq Settled(c)
    BY <2>1, <2>2 DEF Settled, Paths
  <2>4. CycleAgrees(c)'
    BY <2>1, <2>2, <2>3 DEF CycleAgrees, Fresh, HalfCommitted, SettledAgree, HalfPruned, Acking
  <2>. HIDE DEF next
  <2>. QED BY <2>1, <2>4, NotAcking, IndexStays, OthersAgree
<1>8. CASE Fail(c) \/ (Abort(c) /\ ~Acking(c))
  <2>1. /\ cycle' = [cycle EXCEPT ![c] = IdleCycle] /\ index' = index
        /\ cycle[c].step \notin {"idle", "ackPeer"}
    BY <1>8 DEF Fail, Blocked, Abort, Applying, AtPath, Acking
  <2>2. cycle'[c].step = "idle" /\ cycle'[c].reused = {}
    BY <1>1, <2>1 DEF TypeOK
  <2>. QED BY <2>1, <2>2, NotAcking, NothingSettled, IndexStays, OthersAgree
<1>9. CASE NoReuse(c) \/ Skip(c)
  BY <1>9, SkipsAgree
<1>10. CASE ApplyDone(c) \/ AckLocal(c) \/ AckPeer(c, outcome)
  BY <1>10, AcksAgree
<1>. QED BY <1>3, <1>4, <1>5, <1>6, <1>7, <1>8, <1>9, <1>10

\* The last call of a cycle is lost: what the initiator pruned no longer counts.
LEMMA LostAckAgrees ==
  ASSUME AgreeInv, NEW c \in Cycles, Acking(c), Abort(c), RecordAbort(c)
  PROVE  IndexesOrdered' /\ \A d \in Cycles : CycleAgrees(d)'
<1>. USE DEF AgreeInv, SnapInv, TypeInv
<1>1. /\ cycle' = [cycle EXCEPT ![c] = IdleCycle] /\ index' = index
      /\ cycle[c].step = "ackPeer"
      /\ unacked' = unacked \cup {x \in Paths : cycle[c].local[x].deleted}
  BY DEF Abort, RecordAbort, Acking
<1>2. cycle'[c].step = "idle" /\ cycle'[c].reused = {}
  BY <1>1 DEF TypeOK, IdleCycle
<1>3. ASSUME NEW x \in Paths \ unacked'
      PROVE  Ordered(index'[Initiator][x], index'[Responder][x])
  <2>1. x \notin unacked /\ ~cycle[c].local[x].deleted
    BY <1>1
  <2>2. /\ index[Initiator] = Prune(cycle[c].local, GlobalVector(cycle[c].local))
        /\ Ordered(cycle[c].local[x], index[Responder][x])
    BY <2>1 DEF CycleAgrees, HalfPruned
  <2>3. index[Initiator][x] = cycle[c].local[x]
    BY <2>1, <2>2 DEF Prune
  <2>. QED BY <1>1, <2>2, <2>3
<1>4. \A x \in Paths \ unacked' : Ordered(index[Initiator][x], index[Responder][x])'
  BY <1>3 DEF Ordered
<1>. QED BY <1>1, <1>2, <1>4, NothingSettled, OthersAgree DEF IndexesOrdered

-------------------------------------------------------------------------------
(* The steps with what they add to the record. *)

StartStep(c) == (ProbeResponder(c) \/ Begin(c)) /\ RecordStart(c)

\* The steps around the actions that leave the record alone.
FrameStep(c, outcome) ==
  /\ \/ ScanLocal(c) \/ List(c, outcome) \/ NoReuse(c) \/ ReuseDone(c) \/ Skip(c)
     \/ Fail(c) \/ ApplyDone(c) \/ AckLocal(c) \/ AckPeer(c, outcome)
  /\ UNCHANGED history

TransferStep(c, outcome) ==
  \/ (ReuseOnPeer(c, outcome) \/ Push(c, outcome) \/ Pull(c, outcome)) /\ UNCHANGED history
  \/ ReuseLocal(c, outcome) /\ RecordReuse(c, outcome)
  \/ Delete(c, outcome) /\ RecordDelete(c)

MergeStep(c, outcome) == (MergeLocal(c) \/ MergePeer(c, outcome)) /\ UNCHANGED history

ConflictStep(c, outcome) ==
  /\ ConflictCheck(c) \/ ConflictPreserve(c, outcome) \/ ConflictPush(c, outcome)
  /\ UNCHANGED history

LEMMA HNextCases ==
  ASSUME HNext
  PROVE  \/ \E p \in Peers, x \in Paths :
              /\ UserDelete(p, x) \/ \E h \in Contents : UserWrite(p, x, h)
              /\ UNCHANGED history
         \/ \E c \in Cycles : StartStep(c)
         \/ \E c \in Cycles, outcome \in Outcomes \cup {"done"} : FrameStep(c, outcome)
         \/ \E c \in Cycles : Abort(c) /\ RecordAbort(c)
         \/ \E c \in Cycles, outcome \in Outcomes : TransferStep(c, outcome)
         \/ \E c \in Cycles, outcome \in Outcomes \cup {"done"} : MergeStep(c, outcome)
         \/ \E c \in Cycles, outcome \in Outcomes \cup {"done"} : ConflictStep(c, outcome)
BY Zenon DEF HNext, StartStep, FrameStep, TransferStep, MergeStep, ConflictStep

LEMMA HNextIsNext == HNext => Next
<1>1. "done" \in Outcomes
  BY DEF Outcomes
<1>. QED BY <1>1, Zenon DEF HNext, Next, CycleStep

\* The record constrains nothing.
LEMMA HSpecIsSpec == HSpec => Spec
<1>1. HInit => Init
  BY DEF HInit
<1>2. [HNext]_hvars => [Next]_vars
  BY HNextIsNext DEF hvars, vars
<1>. QED BY <1>1, <1>2, PTL DEF HSpec, Spec

\* Until cycles overlap, a cycle begins with none beside it.
LEMMA NoneBeside ==
  ASSUME NEW c \in Cycles, RecordStart(c), ~overlapped'
  PROVE  ~overlapped /\ AllIdle
BY DEF RecordStart, AllIdle

\* Cycles that have overlapped remain so.
LEMMA OverlapLasts ==
  ASSUME HNext, ~overlapped'
  PROVE  ~overlapped
<1>1. ASSUME NEW c \in Cycles, RecordStart(c) PROVE ~overlapped
  BY <1>1, NoneBeside
<1>2. ASSUME UNCHANGED history PROVE ~overlapped
  BY <1>2 DEF history
<1>3. ASSUME NEW c \in Cycles, NEW outcome,
             RecordReuse(c, outcome) \/ RecordDelete(c) \/ RecordAbort(c)
      PROVE  ~overlapped
  BY <1>3 DEF RecordReuse, RecordDelete, RecordAbort
<1>. QED BY <1>1, <1>2, <1>3, HNextCases
         DEF StartStep, FrameStep, TransferStep, MergeStep, ConflictStep

-------------------------------------------------------------------------------
(* The invariant, and what follows from it. *)

\* A step that touches neither a cycle nor an index.
LEMMA AgreeStays ==
  ASSUME AgreeInv, TypeInv', cycle' = cycle, index' = index, unacked' = unacked
  PROVE  AgreeInv'
<1>1. OneActive' /\ SnapshotsCurrent'
  BY DEF AgreeInv, SnapInv, OneActive, SnapshotsCurrent, SnapshotCurrent, Pending, RemoteEntry
<1>2. ASSUME NEW c \in Cycles PROVE CycleAgrees(c)'
  <2>1. /\ Settled(c)' = Settled(c) /\ Plan(c)' = Plan(c)
        /\ LocalEntry(c)' = LocalEntry(c) /\ RemoteEntry(c)' = RemoteEntry(c)
    BY DEF Settled, Plan, LocalEntry, RemoteEntry
  <2>. QED BY <2>1 DEF AgreeInv, CycleAgrees, Fresh, HalfCommitted, SettledAgree,
                       HalfPruned, Acking
<1>3. IndexesOrdered'
  BY DEF AgreeInv, IndexesOrdered, Acking
<1>. QED BY <1>1, <1>2, <1>3 DEF AgreeInv, SnapInv

LEMMA AgreeInvStep ==
  ASSUME AgreeInv, TypeInv', HNext, ~overlapped'
  PROVE  AgreeInv'
<1>1. ASSUME OneActive', SnapshotsCurrent', IndexesOrdered', \A c \in Cycles : CycleAgrees(c)'
      PROVE  AgreeInv'
  BY <1>1 DEF AgreeInv, SnapInv
<1>2. SnapInv
  BY DEF AgreeInv
<1>3. ASSUME NEW p \in Peers, NEW x \in Paths, UNCHANGED history,
             UserDelete(p, x) \/ \E h \in Contents : UserWrite(p, x, h)
      PROVE  AgreeInv'
  BY <1>3, AgreeStays DEF UserDelete, UserWrite, history
<1>4. ASSUME NEW c \in Cycles, StartStep(c) PROVE AgreeInv'
  <2>1. AllIdle /\ unacked' = unacked
    BY <1>4, NoneBeside DEF StartStep, RecordStart
  <2>2. OneActive' /\ SnapshotsCurrent'
    BY <1>2, <1>4, <2>1, SnapshotStepsCurrent DEF StartStep
  <2>3. IndexesOrdered' /\ \A d \in Cycles : CycleAgrees(d)'
    BY <1>4, <2>1, SnapshotStepsAgree DEF StartStep
  <2>. QED BY <1>1, <2>2, <2>3
<1>5. ASSUME NEW c \in Cycles, NEW outcome, FrameStep(c, outcome) PROVE AgreeInv'
  <2>1. unacked' = unacked
    BY <1>5 DEF FrameStep, history
  <2>2. cycle[c].step # "idle"
    BY <1>5 DEF FrameStep, ScanLocal, List, NoReuse, ReuseDone, Skip, Fail, Blocked, Applying,
                ApplyDone, AckLocal, AckPeer, AtPath
  <2>3. ~ProbeResponder(c) /\ ~Begin(c)
    BY <2>2 DEF ProbeResponder, Begin, ProcessFree
  <2>4. OneActive' /\ SnapshotsCurrent'
    BY <1>2, <1>5, <2>3, SnapshotStepsCurrent DEF FrameStep
  <2>5. IndexesOrdered' /\ \A d \in Cycles : CycleAgrees(d)'
    <3>1. \/ ScanLocal(c) \/ List(c, outcome) \/ NoReuse(c) \/ ReuseDone(c) \/ Skip(c)
          \/ Fail(c) \/ (Abort(c) /\ ~Acking(c))
          \/ ApplyDone(c) \/ AckLocal(c) \/ AckPeer(c, outcome)
      BY <1>5 DEF FrameStep
    <3>. QED BY <2>1, <3>1, SnapshotStepsAgree
  <2>. QED BY <1>1, <2>4, <2>5
<1>6. ASSUME NEW c \in Cycles, Abort(c), RecordAbort(c) PROVE AgreeInv'
  <2>1. cycle[c].step # "idle"
    BY <1>6 DEF Abort
  <2>2. OneActive' /\ SnapshotsCurrent'
    <3>1. ~ProbeResponder(c) /\ ~Begin(c)
      BY <2>1 DEF ProbeResponder, Begin, ProcessFree
    <3>. QED BY <1>2, <1>6, <3>1, SnapshotStepsCurrent
  <2>3. IndexesOrdered' /\ \A d \in Cycles : CycleAgrees(d)'
    <3>1. CASE Acking(c)
      BY <1>6, <3>1, LostAckAgrees
    <3>2. CASE ~Acking(c)
      <4>1. unacked' = unacked
        BY <1>6, <3>2 DEF RecordAbort, Acking
      <4>. QED BY <1>6, <3>2, <4>1, SnapshotStepsAgree
    <3>. QED BY <3>1, <3>2
  <2>. QED BY <1>1, <2>2, <2>3
<1>7. ASSUME NEW c \in Cycles, NEW outcome, TransferStep(c, outcome) PROVE AgreeInv'
  <2>1. unacked' = unacked
    BY <1>7 DEF TransferStep, RecordReuse, RecordDelete, history
  <2>. QED BY <1>1, <1>2, <1>7, <2>1, TransfersCurrent, TransfersAgree DEF TransferStep
<1>8. ASSUME NEW c \in Cycles, NEW outcome, MergeStep(c, outcome) PROVE AgreeInv'
  <2>1. unacked' = unacked
    BY <1>8 DEF MergeStep, history
  <2>. QED BY <1>1, <1>2, <1>8, <2>1, MergesCurrent, MergesAgree DEF MergeStep
<1>9. ASSUME NEW c \in Cycles, NEW outcome, ConflictStep(c, outcome) PROVE AgreeInv'
  <2>1. unacked' = unacked
    BY <1>9 DEF ConflictStep, history
  <2>. QED BY <1>1, <1>2, <1>9, <2>1, ConflictsCurrent, ConflictsAgree DEF ConflictStep
<1>. QED BY <1>3, <1>4, <1>5, <1>6, <1>7, <1>8, <1>9, HNextCases

LEMMA AgreeInvInit == HInit => AgreeInv
<1>. SUFFICES ASSUME HInit, SnapInv PROVE AgreeInv
  BY SnapInvInit DEF HInit
<1>1. \A x \in Paths : Ordered(index[Initiator][x], index[Responder][x])
  <2>1. \A x \in Paths : index[Initiator][x] = Absent /\ index[Responder][x] = Absent
    BY PeersAreTwo DEF HInit, Init, NoEntries
  <2>. QED BY <2>1, AbsentIsEntry, SameVersion
<1>2. \A c \in Cycles : cycle[c].step = "idle" /\ cycle[c].reused = {}
  BY DEF HInit, Init, IdleCycle
<1>. QED BY <1>1, <1>2 DEF AgreeInv, IndexesOrdered, CycleAgrees, Fresh, HalfCommitted,
                           SettledAgree, Settled, HalfPruned, Acking

\* What holds of every state: the indexes agree unless cycles have overlapped.
AgreedUnlessOverlapped == ~overlapped => AgreeInv

LEMMA AgreedInvariant == HSpec => []AgreedUnlessOverlapped
<1>1. HInit => AgreedUnlessOverlapped
  BY AgreeInvInit DEF AgreedUnlessOverlapped
<1>2. AgreedUnlessOverlapped /\ TypeInv' /\ [HNext]_hvars => AgreedUnlessOverlapped'
  <2>. SUFFICES ASSUME AgreedUnlessOverlapped, TypeInv', [HNext]_hvars, ~overlapped'
                PROVE  AgreeInv'
    BY DEF AgreedUnlessOverlapped
  <2>1. CASE HNext
    BY <2>1, OverlapLasts, AgreeInvStep DEF AgreedUnlessOverlapped
  <2>2. CASE UNCHANGED hvars
    <3>1. AgreeInv
      BY <2>2 DEF AgreedUnlessOverlapped, hvars
    <3>. QED BY <2>2, <3>1, AgreeStays DEF hvars
  <2>. QED BY <2>1, <2>2
<1>. QED BY <1>1, <1>2, HSpecIsSpec, TypeInvInvariant, PTL DEF HSpec

\* A cycle that comes to acknowledge may tell its peer what it holds (acknowledgeCycle):
\* the indexes are causally ordered and deletions are shared at one version, with any
\* number of processes and whatever fails, on every path that no lost acknowledgement
\* concerns, until two cycles have overlapped.
THEOREM AcknowledgedTruly == HSpec => []AckedEntriesAgree
<1>1. AgreedUnlessOverlapped => AckedEntriesAgree
  <2>. SUFFICES ASSUME AgreedUnlessOverlapped, NEW c \in Cycles, cycle[c].step = "ack",
                       NEW x \in Undisturbed
                PROVE  Agree(index[Initiator][x], index[Responder][x])
    BY DEF AckedEntriesAgree, Agree
  <2>1. AgreeInv /\ x \in Paths \ unacked
    BY DEF AgreedUnlessOverlapped, Undisturbed
  <2>. QED BY <2>1 DEF AgreeInv, CycleAgrees, SettledAgree, Settled
<1>. QED BY <1>1, AgreedInvariant, PTL

\* Paths leave the record's care, and never return to it.
LEMMA UnackedGrows ==
  ASSUME HNext
  PROVE  unacked \subseteq unacked' /\ misreused \subseteq misreused'
<1>1. ASSUME NEW c \in Cycles, RecordStart(c)
      PROVE  unacked \subseteq unacked' /\ misreused \subseteq misreused'
  BY <1>1 DEF RecordStart
<1>2. ASSUME UNCHANGED history
      PROVE  unacked \subseteq unacked' /\ misreused \subseteq misreused'
  BY <1>2 DEF history
<1>3. ASSUME NEW c \in Cycles, NEW outcome,
             RecordReuse(c, outcome) \/ RecordDelete(c) \/ RecordAbort(c)
      PROVE  unacked \subseteq unacked' /\ misreused \subseteq misreused'
  BY <1>3 DEF RecordReuse, RecordDelete, RecordAbort
<1>. QED BY <1>1, <1>2, <1>3, HNextCases
         DEF StartStep, FrameStep, TransferStep, MergeStep, ConflictStep

\* While an acknowledgement is on its way, only its arrival changes an index.
LEMMA OnlyAcknowledged ==
  ASSUME AgreeInv, HNext, ~overlapped', NEW c \in Cycles, Acking(c)
  PROVE  index' = index \/ \E outcome : AckPeer(c, outcome)
<1>. USE DEF AgreeInv, SnapInv
<1>1. \A d \in Cycles : d # c => cycle[d].step = "idle"
  BY DEF OneActive, Acking
<1>2. \A d \in Cycles : ~StartStep(d)
  BY NoneBeside DEF StartStep, AllIdle, Acking
<1>3. ASSUME NEW p \in Peers, NEW x \in Paths,
             UserDelete(p, x) \/ \E h \in Contents : UserWrite(p, x, h)
      PROVE  index' = index
  BY <1>3 DEF UserDelete, UserWrite
<1>4. ASSUME NEW d \in Cycles, NEW outcome,
             FrameStep(d, outcome) \/ (Abort(d) /\ RecordAbort(d))
      PROVE  index' = index \/ \E o : AckPeer(c, o)
  BY <1>1, <1>4
     DEF FrameStep, ScanLocal, List, NoReuse, ReuseDone, Skip, Fail, Abort,
         ApplyDone, AckLocal, AckPeer, Acking, AtPath
<1>5. ASSUME NEW d \in Cycles, NEW outcome
      PROVE  /\ ~TransferStep(d, outcome) /\ ~MergeStep(d, outcome)
             /\ ~ConflictStep(d, outcome)
  BY <1>1 DEF TransferStep, MergeStep, ConflictStep, ReuseOnPeer, ReuseLocal, Push, Pull,
              Delete, MergeLocal, MergePeer, ConflictCheck, ConflictPreserve, ConflictPush,
              Applying, AtPath, Acking
<1>. QED BY <1>2, <1>3, <1>4, <1>5, HNextCases

\* A change that a scan mints is one that the peer's index cannot count yet, so the
\* peer never takes it for something it already has and drops it: on every path but
\* those of a lost acknowledgement, until two cycles have overlapped.
THEOREM FreshChangesAreNews == HSpec => FreshChangesNew
<1>1. AgreedUnlessOverlapped /\ TypeInv' /\ [HNext]_hvars =>
        [\A x \in Undisturbed' : FreshNotDominated(x)]_hvars
  <2>. SUFFICES ASSUME AgreedUnlessOverlapped, TypeInv', HNext, NEW x \in Undisturbed',
                       NEW p \in Peers,
                       index'[p][x].version[p] > index[p][x].version[p]
                PROVE  ~Leq(index'[p][x].version, index[Other(p)][x].version)
    BY DEF FreshNotDominated
  <2>0. ~overlapped' /\ AgreeInv /\ x \in Paths \ unacked
    BY OverlapLasts, UnackedGrows DEF Undisturbed, AgreedUnlessOverlapped
  <2>1. /\ Other(p) \in Peers
        /\ index[p][x] \in Entry /\ index'[p][x] \in Entry /\ index[Other(p)][x] \in Entry
    BY <2>0, PeersAreTwo DEF Other, AgreeInv, SnapInv, TypeInv, TypeOK
  <2>2. /\ index[p][x].version[p] \in Nat /\ index'[p][x].version[p] \in Nat
        /\ index[Other(p)][x].version[p] \in Nat
    BY <2>1, EntryFields DEF Version
  <2>3. \A c \in Cycles : ~Acking(c)
    <3>. SUFFICES ASSUME NEW c \in Cycles, Acking(c) PROVE FALSE
      OBVIOUS
    <3>1. index'[p][x] # index[p][x]
      BY <2>2
    <3>2. PICK outcome : AckPeer(c, outcome)
      BY <2>0, <3>1, OnlyAcknowledged
    <3>3. index'[p][x] \in {index[p][x], Absent}
      BY <2>0, <3>2, PeersAreTwo, PruneKeepsOrDrops
         DEF AckPeer, AgreeInv, SnapInv, TypeInv, TypeOK
    <3>4. Absent.version[p] = 0
      BY DEF Absent, ZeroVersion
    <3>. QED BY <2>2, <3>1, <3>3, <3>4
  <2>4. Ordered(index[Initiator][x], index[Responder][x])
    BY <2>0, <2>3 DEF AgreeInv, IndexesOrdered
  <2>5. index[Other(p)][x].version[p] <= index[p][x].version[p]
    BY <2>4, PeersAreTwo DEF Ordered, Other
  <2>6. ~(index'[p][x].version[p] <= index[Other(p)][x].version[p])
    BY <2>2, <2>5
  <2>. QED BY <2>6 DEF Leq
<1>. QED BY <1>1, AgreedInvariant, HSpecIsSpec, TypeInvInvariant, PTL DEF HSpec, FreshChangesNew

\* What a transfer commits, when it commits, is told from a path nobody knows.
LEMMA TransfersLeaveEntry ==
  ASSUME SnapInv, NEW c \in Cycles, NEW outcome,
         \/ ReuseOnPeer(c, outcome) \/ ReuseLocal(c, outcome)
         \/ Push(c, outcome) \/ Pull(c, outcome) \/ Delete(c, outcome),
         NEW p \in Peers, NEW x \in Paths, index[p][x].deleted
  PROVE  index'[p][x] # Absent
<1>. USE DEF SnapInv, TypeInv
<1>. DEFINE v == Plan(c).vector
<1>1. cycle[c].at \in Paths
  BY DEF ReuseOnPeer, ReuseLocal, Push, Pull, Delete, Applying, AtPath
<1>2. PICK q, entry : /\ Commit(q, cycle[c].at, entry, outcome)
                      /\ entry.deleted \/ IsLive(entry)
  <2>1. ASSUME NEW file, file.hash # NoContent PROVE IsLive(LiveEntry(v, file))
    BY <2>1 DEF LiveEntry, IsLive
  <2>2. FileOf(LocalEntry(c)).hash = LocalEntry(c).hash
    BY DEF FileOf
  <2>3. CASE ReuseOnPeer(c, outcome) \/ Push(c, outcome)
    <3>1. FileOf(LocalEntry(c)).hash # NoContent
      BY <1>1, <2>3, PathTyped, NoContentAssumption DEF ReuseOnPeer, Push, File
    <3>. QED BY <2>1, <2>3, <3>1 DEF ReuseOnPeer, Push, Install
  <2>4. CASE ReuseLocal(c, outcome)
    <3>1. FileOf(LocalEntry(c)).hash # NoContent
      BY <2>2, <2>4 DEF ReuseLocal, Sources, IsLive
    <3>. QED BY <2>1, <2>4, <3>1 DEF ReuseLocal, Install
  <2>5. CASE Pull(c, outcome)
    <3>1. FileOf(RemoteEntry(c)).hash # NoContent
      BY <1>1, <2>5, PathTyped, NoContentAssumption DEF Pull, File
    <3>. QED BY <2>1, <2>5, <3>1 DEF Pull, Install
  <2>6. CASE Delete(c, outcome)
    <3>1. Tombstone(v).deleted
      BY DEF Tombstone
    <3>. QED BY <2>6, <3>1 DEF Delete, Remove
  <2>. QED BY <2>3, <2>4, <2>5, <2>6
<1>3. ~Absent.deleted /\ ~IsLive(Absent)
  BY DEF Absent, IsLive
<1>4. index'[p][x] = index[p][x] \/ index'[p][x] = entry
  BY <1>2 DEF Commit, TypeOK
<1>. QED BY <1>2, <1>3, <1>4

LEMMA CommitsLeaveEntry ==
  ASSUME SnapInv, NEW c \in Cycles, NEW outcome,
         \/ MergeLocal(c) \/ MergePeer(c, outcome)
         \/ ConflictCheck(c) \/ ConflictPreserve(c, outcome) \/ ConflictPush(c, outcome),
         NEW p \in Peers, NEW x \in Paths, index[p][x].deleted
  PROVE  index'[p][x] # Absent
<1>. USE DEF SnapInv, TypeInv
<1>1. cycle[c].at \in Paths /\ ~Absent.deleted /\ ~IsLive(Absent)
  BY DEF MergeLocal, MergePeer, ConflictCheck, ConflictPreserve, ConflictPush, Applying, AtPath,
         Absent, IsLive
<1>2. CASE MergeLocal(c)
  <2>1. cycle[c].at \in Pending(c)
    BY <1>2 DEF MergeLocal, Applying, AtPath, Pending, Paths
  <2>2. index[Initiator][cycle[c].at] = LocalEntry(c) /\ LocalEntry(c) \in Entry
    BY <1>1, <2>1, PathTyped DEF SnapshotsCurrent, SnapshotCurrent, LocalEntry
  <2>3. index'[p][x].deleted
    BY <1>1, <1>2, <2>2, PeersAreTwo DEF MergeLocal, TypeOK, Entry
  <2>. QED BY <1>1, <2>3
<1>3. CASE MergePeer(c, outcome)
  <2>1. index[Responder][cycle[c].at] \in Entry
    BY <1>1, PeersAreTwo DEF TypeOK
  <2>2. index'[p][x].deleted
    BY <1>1, <1>3, <2>1, PeersAreTwo DEF MergePeer, TypeOK, Entry
  <2>. QED BY <1>1, <2>2
<1>4. CASE ConflictCheck(c)
  BY <1>1, <1>4 DEF ConflictCheck
<1>5. CASE ConflictPreserve(c, outcome) \/ ConflictPush(c, outcome)
  <2>1. Plan(c).kind = "conflict"
    BY <1>5 DEF ConflictPreserve, ConflictPush, AtPath, PlanKept
  <2>2. LocalEntry(c).hash # NoContent
    BY <1>1, <2>1, PathTyped, NoContentAssumption DEF File, FileOf
  <2>. DEFINE winner == LiveEntry(Plan(c).vector, FileOf(LocalEntry(c)))
  <2>3. IsLive(winner)
    BY <2>2 DEF LiveEntry, IsLive, FileOf
  <2>4. PICK q : Commit(q, cycle[c].at, winner, outcome)
    BY <1>5 DEF ConflictPreserve, ConflictPush
  <2>. HIDE DEF winner
  <2>5. index'[p][x] = index[p][x] \/ index'[p][x] = winner
    BY <2>4 DEF Commit, TypeOK
  <2>. QED BY <1>1, <2>3, <2>5
<1>. QED BY <1>2, <1>3, <1>4, <1>5

LEMMA ScansLeaveEntry ==
  ASSUME NEW p \in Peers, NEW e \in Entry, e.deleted, NEW file \in File \cup {NoFile}
  PROVE  ScanEntry(p, e, file) # Absent
<1>1. ~Absent.deleted /\ ~IsLive(Absent)
  BY DEF Absent, IsLive
<1>2. file # NoFile => IsLive(LiveEntry(Increment(e.version, p), file))
  BY NoContentAssumption DEF LiveEntry, IsLive, File
<1>3. Tombstone(Increment(e.version, p)).deleted
  BY DEF Tombstone
<1>4. ScanEntry(p, e, file) \in {e, LiveEntry(Increment(e.version, p), file),
                                 Tombstone(Increment(e.version, p))}
      /\ (ScanEntry(p, e, file) = LiveEntry(Increment(e.version, p), file) =>
             IsLive(LiveEntry(Increment(e.version, p), file)) \/ ScanEntry(p, e, file) = e
             \/ ScanEntry(p, e, file) = Tombstone(Increment(e.version, p)))
  BY <1>2 DEF ScanEntry
<1>. QED BY <1>1, <1>3, <1>4

\* Tombstones go where deletions are shared: an installation forgets a deletion only
\* in an acknowledgement, and then its peer has no file left at that path, so the
\* deletion can neither be undone by the peer nor be lost on it.  With the same limits:
\* overlapping cycles, and a lost acknowledgement of this very tombstone.
THEOREM PruningIsShared == HSpec => PruningsShared
<1>1. AgreedUnlessOverlapped /\ [HNext]_hvars =>
        [\A x \in Undisturbed' : PrunedShared(x)]_hvars
  <2>. SUFFICES ASSUME AgreedUnlessOverlapped, HNext, NEW x \in Undisturbed', NEW p \in Peers,
                       index[p][x].deleted, index'[p][x] = Absent
                PROVE  ~IsLive(index[Other(p)][x])
    BY DEF PrunedShared
  <2>0. ~overlapped' /\ AgreeInv /\ x \in Paths \ unacked
    BY OverlapLasts, UnackedGrows DEF Undisturbed, AgreedUnlessOverlapped
  <2>11. SnapInv /\ TypeOK /\ SnapshotsCurrent
    BY <2>0 DEF AgreeInv, SnapInv, TypeInv
  <2>1. index[p][x] # Absent
    BY DEF Absent
  <2>2. ASSUME NEW mine \in Entry, NEW theirs \in Entry, Agree(mine, theirs)
        PROVE  /\ mine.deleted => ~IsLive(theirs)
               /\ theirs.deleted => ~IsLive(mine)
    BY <2>2, EntryFields DEF Agree
  <2>3. /\ index[Initiator][x] \in Entry /\ index[Responder][x] \in Entry
        /\ disk[p][x] \in File \cup {NoFile} /\ index[p][x] \in Entry
    BY <2>0, <2>11, PeersAreTwo DEF TypeOK
  <2>4. ASSUME NEW c \in Cycles, NEW outcome, ProbeResponder(c) \/ List(c, outcome)
        PROVE  FALSE
    <3>1. index'[p][x] \in {index[p][x], ScanEntry(p, index[p][x], disk[p][x])}
      BY <2>0, <2>11, <2>4, PeersAreTwo DEF ProbeResponder, List, TypeOK, Scan
    <3>. QED BY <2>1, <2>3, <3>1, ScansLeaveEntry
  <2>5. ASSUME NEW c \in Cycles, ScanLocal(c) PROVE FALSE
    <3>1. cycle[c].local = index[Initiator]
      BY <2>11, <2>5 DEF ScanLocal, SnapshotsCurrent, SnapshotCurrent
    <3>2. index'[p][x] \in {index[p][x], ScanEntry(p, index[p][x], disk[p][x])}
      BY <2>0, <2>11, <2>5, <3>1, PeersAreTwo DEF ScanLocal, TypeOK, Scan
    <3>. QED BY <2>1, <2>3, <3>2, ScansLeaveEntry
  <2>6. ASSUME NEW c \in Cycles, AckLocal(c)
        PROVE  ~IsLive(index[Other(p)][x])
    <3>1. p = Initiator
      BY <2>11, <2>1, <2>6, PeersAreTwo DEF AckLocal, TypeOK
    <3>2. Agree(index[Initiator][x], index[Responder][x])
      BY <2>0, <2>6 DEF AckLocal, AgreeInv, CycleAgrees, SettledAgree, Settled
    <3>. QED BY <2>2, <2>3, <3>1, <3>2 DEF Other
  <2>7. ASSUME NEW c \in Cycles, NEW outcome, AckPeer(c, outcome)
        PROVE  ~IsLive(index[Other(p)][x])
    <3>1. p = Responder
      BY <2>11, <2>1, <2>7, PeersAreTwo DEF AckPeer, TypeOK
    <3>2. /\ Agree(cycle[c].local[x], index[Responder][x])
          /\ index[Initiator] = Prune(cycle[c].local, GlobalVector(cycle[c].local))
      BY <2>0, <2>7 DEF AckPeer, AgreeInv, CycleAgrees, HalfPruned, Acking
    <3>3. cycle[c].local \in [Paths -> Entry] /\ x \in Paths
      BY <2>0, <2>11, CycleTyped
    <3>4. ~IsLive(cycle[c].local[x])
      BY <2>2, <2>3, <3>1, <3>2, <3>3
    <3>5. index[Initiator][x] \in {cycle[c].local[x], Absent}
      BY <3>2, <3>3, PruneKeepsOrDrops
    <3>. QED BY <3>1, <3>4, <3>5, PeersAreTwo DEF Other, Absent, IsLive
  <2>8. ASSUME NEW q \in Peers, NEW y \in Paths,
               UserDelete(q, y) \/ \E h \in Contents : UserWrite(q, y, h)
        PROVE  FALSE
    BY <2>1, <2>8 DEF UserDelete, UserWrite
  <2>9. ASSUME NEW c \in Cycles, NEW outcome,
               \/ Begin(c) \/ NoReuse(c) \/ ReuseDone(c) \/ Skip(c)
               \/ Fail(c) \/ Abort(c) \/ ApplyDone(c)
        PROVE  FALSE
    BY <2>1, <2>9 DEF Begin, NoReuse, ReuseDone, Skip, Fail, Abort, ApplyDone
  <2>10. Next
    BY HNextIsNext
  <2>. QED BY <2>0, <2>11, <2>4, <2>5, <2>6, <2>7, <2>8, <2>9, <2>10, NextCases,
              TransfersLeaveEntry, CommitsLeaveEntry
<1>. QED BY <1>1, AgreedInvariant, PTL DEF HSpec, PruningsShared

-------------------------------------------------------------------------------
(* That equal versions are of equal contents, with writers on both sides:  *)
(* on the paths of the record, until reuseLocal commits other bytes there   *)
(* than the responder listed.                                              *)

ContentsMatch == \A x \in Paths \ (unacked \cup misreused) : SameContent(x)

Matching(mine, theirs) == mine.version = theirs.version => mine.hash = theirs.hash

\* Only one path's entries change, and they match if that path is still judged.
LEMMA StillMatch ==
  ASSUME ContentsMatch, HNext, NEW x \in Paths,
         \A y \in Paths : y # x => /\ index'[Initiator][y] = index[Initiator][y]
                                   /\ index'[Responder][y] = index[Responder][y],
         x \notin unacked' \cup misreused' => Matching(index'[Initiator][x], index'[Responder][x])
  PROVE  ContentsMatch'
<1>1. ASSUME NEW y \in Paths \ (unacked' \cup misreused')
      PROVE  Matching(index'[Initiator][y], index'[Responder][y])
  BY <1>1, UnackedGrows DEF ContentsMatch, SameContent, Matching
<1>. QED BY <1>1 DEF ContentsMatch, SameContent, Matching

LEMMA MatchStays ==
  ASSUME ContentsMatch, index' = index,
         unacked \subseteq unacked', misreused \subseteq misreused'
  PROVE  ContentsMatch'
BY DEF ContentsMatch, SameContent

\* One commit at q under the planned vector, of what the other side holds.
LEMMA CommitMatches ==
  ASSUME AgreeInv, ContentsMatch, HNext, NEW c \in Cycles, cycle[c].at \in Paths,
         NEW q \in Peers, NEW entry, NEW outcome, Commit(q, cycle[c].at, entry, outcome),
         \/ Matching(entry, index[Other(q)][cycle[c].at])
         \/ index' = index
         \/ cycle[c].at \in unacked' \cup misreused'
  PROVE  ContentsMatch'
<1>. USE DEF AgreeInv, SnapInv, TypeInv
<1>. DEFINE x == cycle[c].at
<1>1. CASE index' = index
  BY <1>1, UnackedGrows, MatchStays
<1>2. CASE index' # index
  <2>1. index' = [index EXCEPT ![q][x] = entry]
    BY <1>2 DEF Commit
  <2>2. /\ Other(q) \in Peers /\ Other(q) # q
        /\ {q, Other(q)} = {Initiator, Responder}
    BY PeersAreTwo DEF Other
  <2>3. /\ index'[q][x] = entry /\ index'[Other(q)] = index[Other(q)]
        /\ \A y \in Paths : y # x => index'[q][y] = index[q][y]
    BY <2>1, <2>2 DEF TypeOK
  <2>4. \A y \in Paths : y # x => /\ index'[Initiator][y] = index[Initiator][y]
                                  /\ index'[Responder][y] = index[Responder][y]
    BY <2>2, <2>3
  <2>5. x \notin unacked' \cup misreused' =>
          Matching(index'[Initiator][x], index'[Responder][x])
    BY <1>2, <2>2, <2>3 DEF Matching
  <2>. QED BY <2>4, <2>5, StillMatch
<1>. QED BY <1>1, <1>2

LEMMA DeletedHasNoContent ==
  ASSUME NEW e \in Entry, e.deleted
  PROVE  e.hash = NoContent
BY EntryFields DEF IsLive

LEMMA TransfersMatch ==
  ASSUME AgreeInv, ContentsMatch, HNext, NEW c \in Cycles, NEW outcome,
         TransferStep(c, outcome)
  PROVE  ContentsMatch'
<1>. USE DEF AgreeInv, SnapInv, TypeInv
<1>. DEFINE x == cycle[c].at
            v == Plan(c).vector
<1>0. Other(Initiator) = Responder /\ Other(Responder) = Initiator
      /\ Initiator \in Peers /\ Responder \in Peers
  BY PeersAreTwo DEF Other
<1>1. x \in Paths /\ x \in Pending(c)
  BY DEF TransferStep, ReuseOnPeer, ReuseLocal, Push, Pull, Delete, Applying, AtPath, Pending,
         Paths
<1>2. /\ index[Initiator][x] = LocalEntry(c) /\ index[Responder][x] = RemoteEntry(c)
      /\ LocalEntry(c) \in Entry /\ RemoteEntry(c) \in Entry
  BY <1>1, PendingPath
<1>3. ASSUME NEW file PROVE LiveEntry(v, file).hash = file.hash
  BY DEF LiveEntry
<1>4. /\ FileOf(LocalEntry(c)).hash = LocalEntry(c).hash
      /\ FileOf(RemoteEntry(c)).hash = RemoteEntry(c).hash
  BY DEF FileOf
<1>5. CASE ReuseOnPeer(c, outcome) \/ Push(c, outcome)
  <2>1. Commit(Responder, x, LiveEntry(v, FileOf(LocalEntry(c))), outcome)
    BY <1>5 DEF ReuseOnPeer, Push, Install
  <2>2. Matching(LiveEntry(v, FileOf(LocalEntry(c))), index[Other(Responder)][x])
    BY <1>0, <1>2, <1>3, <1>4 DEF Matching
  <2>. QED BY <1>0, <1>1, <2>1, <2>2, CommitMatches
<1>6. CASE Pull(c, outcome)
  <2>1. Commit(Initiator, x, LiveEntry(v, FileOf(RemoteEntry(c))), outcome)
    BY <1>6 DEF Pull, Install
  <2>2. Matching(LiveEntry(v, FileOf(RemoteEntry(c))), index[Other(Initiator)][x])
    BY <1>0, <1>2, <1>3, <1>4 DEF Matching
  <2>. QED BY <1>0, <1>1, <2>1, <2>2, CommitMatches
<1>7. CASE ReuseLocal(c, outcome) /\ RecordReuse(c, outcome)
  <2>1. /\ Commit(Initiator, x, LiveEntry(v, FileOf(LocalEntry(c))), outcome)
        /\ outcome # "replyLost"
    BY <1>7 DEF ReuseLocal, Install
  <2>2. CASE outcome = "done" /\ LocalEntry(c).hash # RemoteEntry(c).hash
    <3>1. x \in misreused'
      BY <1>7, <2>2 DEF RecordReuse
    <3>. QED BY <1>0, <1>1, <2>1, <3>1, CommitMatches
  <2>3. CASE outcome # "done"
    <3>1. index' = index
      BY <2>1, <2>3 DEF Commit
    <3>. QED BY <3>1, UnackedGrows, MatchStays
  <2>4. CASE LocalEntry(c).hash = RemoteEntry(c).hash
    <3>1. Matching(LiveEntry(v, FileOf(LocalEntry(c))), index[Other(Initiator)][x])
      BY <1>0, <1>2, <1>3, <1>4, <2>4 DEF Matching
    <3>. QED BY <1>0, <1>1, <2>1, <3>1, CommitMatches
  <2>. QED BY <2>2, <2>3, <2>4
<1>8. CASE Delete(c, outcome)
  <2>1. Plan(c).kind = "delete" /\ Commit(DeleteAt(c), x, Tombstone(v), outcome)
    BY <1>8 DEF Delete, Remove
  <2>2. \/ Plan(c).source = Initiator /\ LocalEntry(c).deleted
        \/ Plan(c).source = Responder /\ RemoteEntry(c).deleted
    BY <1>2, <2>1, DecideReasons DEF Plan
  <2>3. /\ DeleteAt(c) \in Peers
        /\ index[Other(DeleteAt(c))][x] \in Entry /\ index[Other(DeleteAt(c))][x].deleted
    BY <1>0, <1>2, <2>2, PeersAreTwo DEF DeleteAt
  <2>4. Matching(Tombstone(v), index[Other(DeleteAt(c))][x])
    BY <2>3, DeletedHasNoContent DEF Matching, Tombstone
  <2>. QED BY <1>1, <2>1, <2>3, <2>4, CommitMatches
<1>. QED BY <1>5, <1>6, <1>7, <1>8 DEF TransferStep

LEMMA MergesMatch ==
  ASSUME AgreeInv, ContentsMatch, HNext, NEW c \in Cycles, NEW outcome, MergeStep(c, outcome)
  PROVE  ContentsMatch'
<1>. USE DEF AgreeInv, SnapInv, TypeInv
<1>. DEFINE x == cycle[c].at
            merged == [LocalEntry(c) EXCEPT !.version = Plan(c).vector]
<1>1. x \in Paths /\ Plan(c).kind = "merge"
  BY DEF MergeStep, MergeLocal, MergePeer, Applying, AtPath, PlanKept
<1>2. LocalEntry(c) \in Entry /\ RemoteEntry(c) \in Entry
  BY <1>1, PathTyped
<1>3. LocalEntry(c).hash = RemoteEntry(c).hash
  BY <1>1, <1>2, DecideReasons DEF Plan
<1>4. merged.hash = LocalEntry(c).hash
  BY <1>2 DEF Entry
<1>5. CASE MergeLocal(c)
  <2>1. x \in Pending(c)
    BY <1>5 DEF MergeLocal, Applying, AtPath, Pending, Paths
  <2>2. index[Responder][x] = RemoteEntry(c)
    BY <1>1, <2>1, PendingPath
  <2>3. index' = [index EXCEPT ![Initiator][x] = merged]
    BY <1>5 DEF MergeLocal
  <2>4. /\ index'[Initiator][x] = merged /\ index'[Responder] = index[Responder]
        /\ \A y \in Paths : y # x => index'[Initiator][y] = index[Initiator][y]
    BY <1>1, <2>3, PeersAreTwo DEF TypeOK
  <2>5. Matching(index'[Initiator][x], index'[Responder][x])
    BY <1>3, <1>4, <2>2, <2>4 DEF Matching
  <2>. HIDE DEF merged
  <2>. QED BY <1>1, <2>4, <2>5, StillMatch
<1>6. CASE MergePeer(c, outcome)
  <2>1. index[Initiator][x] = merged /\ index[Responder][x] = RemoteEntry(c)
    BY <1>6 DEF MergePeer, AtPath, CycleAgrees, HalfCommitted, SnapshotsCurrent, SnapshotCurrent
  <2>2. index' = [index EXCEPT ![Responder][x].version = Plan(c).vector]
    BY <1>6 DEF MergePeer
  <2>3. /\ index'[Responder][x] = [RemoteEntry(c) EXCEPT !.version = Plan(c).vector]
        /\ index'[Initiator] = index[Initiator]
        /\ \A y \in Paths : y # x => index'[Responder][y] = index[Responder][y]
    BY <1>1, <2>1, <2>2, PeersAreTwo DEF TypeOK
  <2>4. index'[Responder][x].hash = RemoteEntry(c).hash
    BY <1>2, <2>3 DEF Entry
  <2>5. Matching(index'[Initiator][x], index'[Responder][x])
    BY <1>3, <1>4, <2>1, <2>3, <2>4 DEF Matching
  <2>. HIDE DEF merged
  <2>. QED BY <1>1, <2>3, <2>5, StillMatch
<1>. QED BY <1>5, <1>6 DEF MergeStep

LEMMA ConflictsMatch ==
  ASSUME AgreeInv, ContentsMatch, HNext, NEW c \in Cycles, NEW outcome,
         ConflictStep(c, outcome)
  PROVE  ContentsMatch'
<1>. USE DEF AgreeInv, SnapInv, TypeInv
<1>. DEFINE x == cycle[c].at
            winner == LiveEntry(Plan(c).vector, FileOf(LocalEntry(c)))
<1>0. Other(Initiator) = Responder /\ Other(Responder) = Initiator
      /\ Initiator \in Peers /\ Responder \in Peers
  BY PeersAreTwo DEF Other
<1>1. x \in Paths /\ Plan(c).kind = "conflict"
  BY DEF ConflictStep, ConflictCheck, ConflictPreserve, ConflictPush, Applying, AtPath, PlanKept
<1>2. LocalEntry(c) \in Entry /\ RemoteEntry(c) \in Entry
  BY <1>1, PathTyped
<1>3. /\ Plan(c).vector = Merge(LocalEntry(c).version, RemoteEntry(c).version)
      /\ ~Leq(LocalEntry(c).version, RemoteEntry(c).version)
  BY <1>1, <1>2, DecideReasons DEF Plan
<1>4. winner.version # RemoteEntry(c).version
  BY <1>2, <1>3, EntryFields, MergeIsLeastUpperBound DEF LiveEntry
<1>5. CASE ConflictCheck(c)
  BY <1>5, UnackedGrows, MatchStays DEF ConflictCheck
<1>6. CASE ConflictPreserve(c, outcome)
  <2>1. x \in Pending(c)
    BY <1>1, <1>6 DEF ConflictPreserve, AtPath, Pending, Paths, PlanKept
  <2>2. index[Responder][x] = RemoteEntry(c)
    BY <1>1, <2>1, PendingPath
  <2>3. Commit(Initiator, x, winner, outcome)
    BY <1>6 DEF ConflictPreserve
  <2>4. Matching(winner, index[Other(Initiator)][x])
    BY <1>0, <1>4, <2>2 DEF Matching
  <2>. HIDE DEF winner
  <2>. QED BY <1>0, <1>1, <2>3, <2>4, CommitMatches
<1>7. CASE ConflictPush(c, outcome)
  <2>1. index[Initiator][x] = winner
    BY <1>7 DEF ConflictPush, AtPath, CycleAgrees, HalfCommitted
  <2>2. Commit(Responder, x, winner, outcome)
    BY <1>7 DEF ConflictPush
  <2>3. Matching(winner, index[Other(Responder)][x])
    BY <1>0, <2>1 DEF Matching
  <2>. HIDE DEF winner
  <2>. QED BY <1>0, <1>1, <2>2, <2>3, CommitMatches
<1>. QED BY <1>5, <1>6, <1>7 DEF ConflictStep

\* A scan that changes an entry mints a version that the peer's entry does not have.
LEMMA ScanMatches ==
  ASSUME NEW mine \in Entry, NEW theirs \in Entry, Ordered(mine, theirs),
         Matching(mine, theirs), NEW file \in File \cup {NoFile}
  PROVE  /\ Matching(ScanEntry(Initiator, mine, file), theirs)
         /\ Matching(mine, ScanEntry(Responder, theirs, file))
<1>1. ASSUME NEW p \in Peers, NEW e \in Entry
      PROVE  \/ ScanEntry(p, e, file) = e
             \/ ScanEntry(p, e, file).version = Increment(e.version, p)
  BY DEF ScanEntry, LiveEntry, Tombstone
<1>2. Increment(mine.version, Initiator) # theirs.version
  <2>1. Increment(mine.version, Initiator)[Initiator] = mine.version[Initiator] + 1
    BY PairTyped, PeersAreTwo DEF Increment, Version
  <2>. QED BY <2>1, PairTyped DEF Ordered
<1>3. Increment(theirs.version, Responder) # mine.version
  <2>1. Increment(theirs.version, Responder)[Responder] = theirs.version[Responder] + 1
    BY PairTyped, PeersAreTwo DEF Increment, Version
  <2>. QED BY <2>1, PairTyped DEF Ordered
<1>. QED BY <1>1, <1>2, <1>3, PeersAreTwo DEF Matching

LEMMA IndexScanMatches ==
  ASSUME AgreeInv, ContentsMatch, \A d \in Cycles : ~Acking(d),
         unacked' = unacked, misreused' = misreused,
         \/ index' = [index EXCEPT ![Initiator] = Scan(Initiator, @, disk[Initiator])]
         \/ index' = [index EXCEPT ![Responder] = Scan(Responder, @, disk[Responder])]
  PROVE  ContentsMatch'
<1>. USE DEF AgreeInv, SnapInv, TypeInv
<1>1. ASSUME NEW x \in Paths \ (unacked \cup misreused)
      PROVE  Matching(index'[Initiator][x], index'[Responder][x])
  <2>1. /\ Ordered(index[Initiator][x], index[Responder][x])
        /\ Matching(index[Initiator][x], index[Responder][x])
        /\ index[Initiator][x] \in Entry /\ index[Responder][x] \in Entry
        /\ disk[Initiator][x] \in File \cup {NoFile}
        /\ disk[Responder][x] \in File \cup {NoFile}
    BY PeersAreTwo DEF IndexesOrdered, TypeOK, ContentsMatch, SameContent, Matching
  <2>2. \/ /\ index'[Responder][x] = index[Responder][x]
           /\ index'[Initiator][x] = ScanEntry(Initiator, index[Initiator][x], disk[Initiator][x])
        \/ /\ index'[Initiator][x] = index[Initiator][x]
           /\ index'[Responder][x] = ScanEntry(Responder, index[Responder][x], disk[Responder][x])
    BY PeersAreTwo DEF TypeOK, Scan
  <2>. QED BY <2>1, <2>2, ScanMatches
<1>. QED BY <1>1 DEF ContentsMatch, SameContent, Matching

\* Pruning takes only entries without content, and its peer's have none then either.
LEMMA AcksMatch ==
  ASSUME AgreeInv, ContentsMatch, unacked' = unacked, misreused' = misreused,
         NEW c \in Cycles, NEW outcome, AckLocal(c) \/ AckPeer(c, outcome)
  PROVE  ContentsMatch'
<1>. USE DEF AgreeInv, SnapInv, TypeInv
<1>1. ASSUME NEW e \in Entry, e.deleted PROVE e.hash = Absent.hash
  BY <1>1, DeletedHasNoContent DEF Absent
<1>2. ASSUME NEW x \in Paths \ (unacked \cup misreused)
      PROVE  Matching(index'[Initiator][x], index'[Responder][x])
  <2>1. /\ Matching(index[Initiator][x], index[Responder][x])
        /\ index[Initiator][x] \in Entry /\ index[Responder][x] \in Entry
        /\ index[Initiator] \in [Paths -> Entry] /\ index[Responder] \in [Paths -> Entry]
        /\ Initiator \in Peers /\ Responder \in Peers /\ Initiator # Responder
    BY PeersAreTwo DEF TypeOK, ContentsMatch, SameContent, Matching
  <2>2. CASE AckLocal(c)
    <3>1. Agree(index[Initiator][x], index[Responder][x])
      BY <2>2 DEF AckLocal, CycleAgrees, SettledAgree, Settled
    <3>2. /\ index'[Responder] = index[Responder]
          /\ index'[Initiator] = Prune(index[Initiator], GlobalVector(index[Initiator]))
      BY <2>1, <2>2 DEF AckLocal, TypeOK
    <3>3. \/ index'[Initiator][x] = index[Initiator][x]
          \/ index'[Initiator][x] = Absent /\ index[Initiator][x].deleted
      BY <3>2 DEF Prune
    <3>. QED BY <1>1, <2>1, <3>1, <3>2, <3>3 DEF Agree, Matching
  <2>3. CASE AckPeer(c, outcome)
    <3>1. /\ Agree(cycle[c].local[x], index[Responder][x])
          /\ index[Initiator] = Prune(cycle[c].local, GlobalVector(cycle[c].local))
      BY <2>3 DEF AckPeer, CycleAgrees, HalfPruned, Acking
    <3>2. /\ index'[Initiator] = index[Initiator]
          /\ index'[Responder] = Prune(index[Responder], GlobalVector(cycle[c].local))
      BY <2>1, <2>3 DEF AckPeer, TypeOK
    <3>3. \/ index'[Responder][x] = index[Responder][x]
          \/ index'[Responder][x] = Absent /\ index[Responder][x].deleted
      BY <3>2 DEF Prune
    <3>4. index[Responder][x].deleted => index[Initiator][x].hash = Absent.hash
      <4>1. cycle[c].local[x] \in Entry /\ index[Initiator][x] \in {cycle[c].local[x], Absent}
        BY <3>1, CycleTyped, PruneKeepsOrDrops
      <4>. QED BY <1>1, <3>1, <4>1 DEF Agree
    <3>. QED BY <2>1, <3>2, <3>3, <3>4 DEF Matching
  <2>. QED BY <2>2, <2>3
<1>. QED BY <1>2 DEF ContentsMatch, SameContent, Matching

LEMMA ContentsMatchStep ==
  ASSUME AgreeInv, ContentsMatch, HNext, ~overlapped'
  PROVE  ContentsMatch'
<1>. USE DEF AgreeInv, SnapInv, TypeInv
<1>1. ASSUME NEW p \in Peers, NEW x \in Paths,
             UserDelete(p, x) \/ \E h \in Contents : UserWrite(p, x, h)
      PROVE  ContentsMatch'
  BY <1>1, UnackedGrows, MatchStays DEF UserDelete, UserWrite
<1>2. ASSUME NEW c \in Cycles, StartStep(c) PROVE ContentsMatch'
  <2>1. /\ \A d \in Cycles : ~Acking(d)
        /\ unacked' = unacked /\ misreused' = misreused
    BY <1>2, NoneBeside DEF StartStep, RecordStart, AllIdle, Acking
  <2>2. CASE ProbeResponder(c)
    BY <2>1, <2>2, IndexScanMatches DEF ProbeResponder
  <2>3. CASE Begin(c)
    BY <2>3, UnackedGrows, MatchStays DEF Begin
  <2>. QED BY <1>2, <2>2, <2>3 DEF StartStep
<1>3. ASSUME NEW c \in Cycles, NEW outcome, FrameStep(c, outcome) PROVE ContentsMatch'
  <2>1. unacked' = unacked /\ misreused' = misreused
    BY <1>3 DEF FrameStep, history
  <2>2. CASE ScanLocal(c)
    <3>1. cycle[c].local = index[Initiator] /\ \A d \in Cycles : ~Acking(d)
      BY <2>2, NotAcking DEF ScanLocal, SnapshotsCurrent, SnapshotCurrent
    <3>2. index' = [index EXCEPT ![Initiator] = Scan(Initiator, @, disk[Initiator])]
      BY <2>2, <3>1, PeersAreTwo DEF ScanLocal, TypeOK
    <3>. QED BY <2>1, <3>1, <3>2, IndexScanMatches
  <2>3. CASE List(c, outcome)
    <3>1. \A d \in Cycles : ~Acking(d)
      BY <2>3, NotAcking DEF List
    <3>2. index' = [index EXCEPT ![Responder] = Scan(Responder, @, disk[Responder])]
      BY <2>3, PeersAreTwo DEF List, TypeOK
    <3>. QED BY <2>1, <3>1, <3>2, IndexScanMatches
  <2>4. CASE NoReuse(c) \/ ReuseDone(c) \/ Skip(c) \/ Fail(c) \/ ApplyDone(c)
    BY <2>4, UnackedGrows, MatchStays DEF NoReuse, ReuseDone, Skip, Fail, ApplyDone
  <2>5. CASE AckLocal(c) \/ AckPeer(c, outcome)
    BY <2>1, <2>5, AcksMatch
  <2>. QED BY <1>3, <2>2, <2>3, <2>4, <2>5 DEF FrameStep
<1>4. ASSUME NEW c \in Cycles, Abort(c) PROVE ContentsMatch'
  BY <1>4, UnackedGrows, MatchStays DEF Abort
<1>. QED BY <1>1, <1>2, <1>3, <1>4, HNextCases, TransfersMatch, MergesMatch, ConflictsMatch

\* What the other installation has under a version is what this one would have under
\* it: entries of equal versions are of one content, whoever writes, on every path but
\* those of a lost acknowledgement or of a reuse of the wrong bytes, until two cycles
\* have overlapped.
THEOREM VersionsNameContents == HSpec => []OneVersionOneContent
<1>. DEFINE Inv == AgreedUnlessOverlapped /\ (~overlapped => ContentsMatch)
<1>1. HInit => ContentsMatch
  BY PeersAreTwo DEF HInit, Init, NoEntries, ContentsMatch, SameContent
<1>2. AgreedUnlessOverlapped /\ (~overlapped => ContentsMatch) /\ [HNext]_hvars
        => (~overlapped => ContentsMatch)'
  <2>. SUFFICES ASSUME AgreedUnlessOverlapped, ~overlapped => ContentsMatch, [HNext]_hvars,
                       ~overlapped'
                PROVE  ContentsMatch'
    OBVIOUS
  <2>1. CASE HNext
    BY <2>1, OverlapLasts, ContentsMatchStep DEF AgreedUnlessOverlapped
  <2>2. CASE UNCHANGED hvars
    BY <2>2 DEF hvars, ContentsMatch, SameContent
  <2>. QED BY <2>1, <2>2
<1>3. (~overlapped => ContentsMatch) => OneVersionOneContent
  BY DEF ContentsMatch, OneVersionOneContent, Undisturbed
<1>. QED BY <1>1, <1>2, <1>3, AgreedInvariant, PTL DEF HSpec

-------------------------------------------------------------------------------
(* What a cycle deletes is what it planned to, and it went on only because  *)
(* the plan was below the threshold.  Nothing here depends on what other    *)
(* processes, users and faults do.                                          *)

Planning(c) ==
  cycle[c].step \in {"reuse", "apply", "merge", "preserve", "conflict", "ack"}

PlannedDeletes(c) ==
  {x \in Paths : Decide(cycle[c].local[x], cycle[c].remote[x]).kind = "delete"}

PlanFollowed(c) ==
  /\ cycle[c].step \in {"scan", "list"} => removed[c] = {}
  /\ Planning(c) => /\ ~Halted(cycle[c].local, cycle[c].remote)
                    /\ removed[c] \subseteq PlannedDeletes(c)

PlanInv ==
  /\ TypeInv
  /\ removed \in [Cycles -> SUBSET Paths]
  /\ \A c \in Cycles : PlanFollowed(c)

\* What a step leaves of cycle c: it ends, or it goes on with the same plan and
\* has deleted nothing but what that plan says.
GoesOn(c) ==
  \/ cycle'[c].step \in {"idle", "ackPeer"}
  \/ /\ Planning(c)
     /\ cycle'[c].local = cycle[c].local /\ cycle'[c].remote = cycle[c].remote
     /\ removed'[c] \subseteq removed[c] \cup PlannedDeletes(c)
     /\ cycle'[c].step \notin {"scan", "list"}
  \/ cycle'[c].step \in {"scan", "list"} /\ removed'[c] = {}

LEMMA StillFollowed ==
  ASSUME PlanInv, NEW c \in Cycles, GoesOn(c)
  PROVE  PlanFollowed(c)'
<1>. DEFINE deletes == PlannedDeletes(c)
<1>1. CASE cycle'[c].step \in {"idle", "ackPeer"}
  BY <1>1 DEF PlanFollowed, Planning
<1>2. CASE cycle'[c].step \in {"scan", "list"} /\ removed'[c] = {}
  BY <1>2 DEF PlanFollowed, Planning
<1>3. CASE /\ Planning(c)
           /\ cycle'[c].local = cycle[c].local /\ cycle'[c].remote = cycle[c].remote
           /\ removed'[c] \subseteq removed[c] \cup PlannedDeletes(c)
           /\ cycle'[c].step \notin {"scan", "list"}
  <2>1. ~Halted(cycle[c].local, cycle[c].remote) /\ removed[c] \subseteq deletes
    BY <1>3 DEF PlanInv, PlanFollowed
  <2>2. deletes' = deletes
    BY <1>3 DEF PlannedDeletes
  <2>3. Halted(cycle[c].local, cycle[c].remote)' = Halted(cycle[c].local, cycle[c].remote)
    BY <1>3
  <2>. QED BY <1>3, <2>1, <2>2, <2>3 DEF PlanFollowed
<1>. QED BY <1>1, <1>2, <1>3 DEF GoesOn

\* Cycles that a step is not of stay as they are.
LEMMA OthersFollow ==
  ASSUME PlanInv, TypeInv', NEW c \in Cycles, PlanFollowed(c)',
         cycle' = [cycle EXCEPT ![c] = cycle'[c]],
         removed' \in [Cycles -> SUBSET Paths],
         \A d \in Cycles : d # c => removed'[d] = removed[d]
  PROVE  PlanInv'
<1>1. ASSUME NEW d \in Cycles, d # c PROVE PlanFollowed(d)'
  <2>1. cycle'[d] = cycle[d] /\ removed'[d] = removed[d]
    BY <1>1 DEF PlanInv, TypeInv, TypeOK
  <2>2. PlannedDeletes(d)' = PlannedDeletes(d)
    BY <2>1 DEF PlannedDeletes
  <2>3. Halted(cycle[d].local, cycle[d].remote)' = Halted(cycle[d].local, cycle[d].remote)
    BY <2>1
  <2>. QED BY <2>1, <2>2, <2>3 DEF PlanInv, PlanFollowed, Planning
<1>. QED BY <1>1 DEF PlanInv

LEMMA StepFollows ==
  ASSUME PlanInv, TypeInv', NEW c \in Cycles, cycle' = [cycle EXCEPT ![c] = cycle'[c]],
         GoesOn(c), removed' \in [Cycles -> SUBSET Paths],
         \A d \in Cycles : d # c => removed'[d] = removed[d]
  PROVE  PlanInv'
BY StillFollowed, OthersFollow

LEMMA PlanStays ==
  ASSUME PlanInv, TypeInv', cycle' = cycle, removed' = removed
  PROVE  PlanInv'
<1>1. ASSUME NEW c \in Cycles PROVE PlanFollowed(c)'
  <2>1. PlannedDeletes(c)' = PlannedDeletes(c)
    BY DEF PlannedDeletes
  <2>2. Halted(cycle[c].local, cycle[c].remote)' = Halted(cycle[c].local, cycle[c].remote)
    OBVIOUS
  <2>. QED BY <2>1, <2>2 DEF PlanInv, PlanFollowed, Planning
<1>. QED BY <1>1 DEF PlanInv

\* A step that carries a planned cycle on, or ends it.
LEMMA CarriedOn ==
  ASSUME TypeInv, NEW c \in Cycles, Planning(c), NEW outcome, NEW next,
         Proceed(c, outcome, next),
         next.local = cycle[c].local, next.remote = cycle[c].remote,
         next.step \notin {"scan", "list"}
  PROVE  /\ cycle' = [cycle EXCEPT ![c] = cycle'[c]]
         /\ \/ cycle'[c].step = "idle"
            \/ /\ cycle'[c].local = cycle[c].local /\ cycle'[c].remote = cycle[c].remote
               /\ cycle'[c].step \notin {"scan", "list"}
<1>1. PICK state : cycle' = [cycle EXCEPT ![c] = state] /\ state \in {next, IdleCycle}
  BY DEF Proceed
<1>2. cycle'[c] = state
  BY <1>1 DEF TypeInv, TypeOK
<1>3. cycle' = [cycle EXCEPT ![c] = cycle'[c]]
  BY <1>1, <1>2
<1>4. CASE state = IdleCycle
  BY <1>2, <1>3, <1>4 DEF IdleCycle
<1>5. CASE state = next
  BY <1>2, <1>3, <1>5
<1>. QED BY <1>1, <1>4, <1>5

LEMMA TransfersFollow ==
  ASSUME PlanInv, TypeInv', NEW c \in Cycles, NEW outcome, TransferStep(c, outcome)
  PROVE  PlanInv'
<1>. USE DEF PlanInv
<1>1. cycle[c].at \in Paths /\ Planning(c) /\ TypeOK
  BY DEF TransferStep, ReuseOnPeer, ReuseLocal, Push, Pull, Delete, Applying, AtPath, Planning,
         TypeInv
<1>2. PICK next : /\ Proceed(c, outcome, next) /\ next \in {NextPath(c), NextPathReused(c)}
  BY DEF TransferStep, ReuseOnPeer, ReuseLocal, Push, Pull, Delete
<1>3. /\ next.local = cycle[c].local /\ next.remote = cycle[c].remote
      /\ next.step \in {"reuse", "apply"}
  BY <1>1, <1>2, NextPathFields
<1>4. /\ removed' \in [Cycles -> SUBSET Paths]
      /\ \A d \in Cycles : d # c => removed'[d] = removed[d]
      /\ removed'[c] \subseteq removed[c] \cup PlannedDeletes(c)
  <2>1. CASE Delete(c, outcome) /\ RecordDelete(c)
    <3>1. removed' = [removed EXCEPT ![c] = @ \cup {cycle[c].at}]
      BY <2>1 DEF RecordDelete
    <3>2. cycle[c].at \in PlannedDeletes(c)
      BY <1>1, <2>1 DEF Delete, PlannedDeletes, Plan, LocalEntry, RemoteEntry
    <3>. QED BY <1>1, <3>1, <3>2
  <2>2. CASE removed' = removed
    BY <2>2
  <2>3. \/ Delete(c, outcome) /\ RecordDelete(c)
        \/ removed' = removed
    BY DEF TransferStep, RecordReuse, history
  <2>. QED BY <2>1, <2>2, <2>3
<1>5. /\ cycle' = [cycle EXCEPT ![c] = cycle'[c]]
      /\ \/ cycle'[c].step = "idle"
         \/ /\ cycle'[c].local = cycle[c].local /\ cycle'[c].remote = cycle[c].remote
            /\ cycle'[c].step \notin {"scan", "list"}
  BY <1>1, <1>2, <1>3, CarriedOn
<1>. QED BY <1>1, <1>4, <1>5, StepFollows DEF GoesOn

LEMMA CommitsFollow ==
  ASSUME PlanInv, TypeInv', NEW c \in Cycles, NEW outcome,
         MergeStep(c, outcome) \/ ConflictStep(c, outcome)
  PROVE  PlanInv'
<1>. USE DEF PlanInv
<1>1. /\ cycle[c].at \in Paths /\ Planning(c) /\ TypeOK /\ cycle[c] \in Cycle
      /\ removed' = removed
  BY DEF MergeStep, MergeLocal, MergePeer, ConflictStep, ConflictCheck, ConflictPreserve,
         ConflictPush, Applying, AtPath, Planning, TypeInv, TypeOK, PlanKept, history
<1>2. PICK next, o : /\ \/ cycle' = [cycle EXCEPT ![c] = next]
                        \/ Proceed(c, o, next)
                     /\ next.local = cycle[c].local /\ next.remote = cycle[c].remote
                     /\ next.step \notin {"scan", "list"}
  <2>1. CASE MergeLocal(c)
    <3>. DEFINE next == [cycle[c] EXCEPT !.step = "merge"]
    <3>1. cycle' = [cycle EXCEPT ![c] = next]
      BY <1>1, <2>1 DEF MergeLocal, TypeOK
    <3>2. /\ next.local = cycle[c].local /\ next.remote = cycle[c].remote
          /\ next.step = "merge"
      BY <1>1 DEF Cycle
    <3>. HIDE DEF next
    <3>. QED BY <3>1, <3>2
  <2>5. CASE ConflictCheck(c)
    <3>. DEFINE next == [cycle[c] EXCEPT !.step = "preserve",
                                         !.data = disk[Initiator][cycle[c].at].hash]
    <3>1. cycle' = [cycle EXCEPT ![c] = next]
      BY <1>1, <2>5 DEF ConflictCheck, TypeOK
    <3>2. /\ next.local = cycle[c].local /\ next.remote = cycle[c].remote
          /\ next.step = "preserve"
      BY <1>1 DEF Cycle
    <3>. HIDE DEF next
    <3>. QED BY <3>1, <3>2
  <2>2. CASE MergePeer(c, outcome)
    BY <1>1, <2>2, NextPathFields DEF MergePeer, AtPath
  <2>3. CASE ConflictPreserve(c, outcome)
    <3>1. Proceed(c, outcome, [cycle[c] EXCEPT !.step = "conflict"])
      BY <2>3 DEF ConflictPreserve
    <3>2. LET next == [cycle[c] EXCEPT !.step = "conflict"] IN
          /\ next.local = cycle[c].local /\ next.remote = cycle[c].remote
          /\ next.step = "conflict"
      BY <1>1 DEF Cycle
    <3>. QED BY <3>1, <3>2
  <2>4. CASE ConflictPush(c, outcome)
    <3>1. Proceed(c, outcome, [NextPath(c) EXCEPT !.data = NoContent])
      BY <2>4 DEF ConflictPush
    <3>2. LET next == [NextPath(c) EXCEPT !.data = NoContent] IN
          /\ next.local = cycle[c].local /\ next.remote = cycle[c].remote
          /\ next.step = "apply"
      BY <1>1, <2>4, NextPathFields, NextPathTyped DEF ConflictPush, AtPath, Cycle
    <3>. QED BY <3>1, <3>2
  <2>. QED BY <2>1, <2>2, <2>3, <2>4, <2>5 DEF MergeStep, ConflictStep
<1>3. /\ cycle' = [cycle EXCEPT ![c] = cycle'[c]]
      /\ \/ cycle'[c].step = "idle"
         \/ /\ cycle'[c].local = cycle[c].local /\ cycle'[c].remote = cycle[c].remote
            /\ cycle'[c].step \notin {"scan", "list"}
  <2>1. CASE cycle' = [cycle EXCEPT ![c] = next]
    <3>1. cycle'[c] = next
      BY <1>1, <2>1 DEF TypeOK
    <3>. QED BY <1>2, <2>1, <3>1
  <2>2. CASE Proceed(c, o, next)
    BY <1>1, <1>2, <2>2, CarriedOn
  <2>. QED BY <1>2, <2>1, <2>2
<1>. QED BY <1>1, <1>3, StepFollows DEF GoesOn

LEMMA FrameFollows ==
  ASSUME PlanInv, TypeInv', NEW c \in Cycles, NEW outcome, FrameStep(c, outcome)
  PROVE  PlanInv'
<1>. USE DEF PlanInv
<1>1. TypeOK /\ cycle[c] \in Cycle /\ removed' = removed
  BY DEF FrameStep, TypeInv, TypeOK, history
<1>2. CASE ScanLocal(c)
  <2>. DEFINE next == [cycle[c] EXCEPT !.step = "list",
                         !.local = Scan(Initiator, cycle[c].local, disk[Initiator])]
  <2>1. cycle' = [cycle EXCEPT ![c] = next] /\ cycle[c].step = "scan"
    BY <1>1, <1>2 DEF ScanLocal, TypeOK
  <2>2. next.step = "list"
    BY <1>1 DEF Cycle
  <2>. HIDE DEF next
  <2>3. cycle'[c] = next
    BY <1>1, <2>1 DEF TypeOK
  <2>4. removed'[c] = {}
    BY <1>1, <2>1 DEF PlanFollowed
  <2>. QED BY <1>1, <2>1, <2>2, <2>3, <2>4, StepFollows DEF GoesOn
<1>3. CASE List(c, outcome)
  <2>. DEFINE scanned == Scan(Responder, index[Responder], disk[Responder])
              listed == [cycle[c] EXCEPT !.step = "reuse", !.remote = scanned]
  <2>1. /\ cycle[c].step = "list"
        /\ Proceed(c, outcome, IF Halted(cycle[c].local, scanned) THEN IdleCycle ELSE listed)
    BY <1>3 DEF List
  <2>2. PICK state : /\ cycle' = [cycle EXCEPT ![c] = state]
                     /\ \/ state = IdleCycle
                        \/ state = listed /\ ~Halted(cycle[c].local, scanned)
    BY <2>1 DEF Proceed
  <2>3. cycle'[c] = state
    BY <1>1, <2>2 DEF TypeOK
  <2>4. PlanFollowed(c)'
    <3>1. CASE state = IdleCycle
      BY <2>3, <3>1 DEF PlanFollowed, Planning, IdleCycle
    <3>2. CASE state = listed /\ ~Halted(cycle[c].local, scanned)
      <4>1. /\ cycle'[c].local = cycle[c].local /\ cycle'[c].remote = scanned
            /\ cycle'[c].step = "reuse" /\ removed'[c] = {}
        BY <1>1, <2>1, <2>3, <3>2 DEF Cycle, PlanFollowed
      <4>2. ~Halted(cycle'[c].local, cycle'[c].remote)
        BY <3>2, <4>1
      <4>3. Halted(cycle[c].local, cycle[c].remote)' = Halted(cycle'[c].local, cycle'[c].remote)
        BY DEF Halted
      <4>. QED BY <4>1, <4>2, <4>3 DEF PlanFollowed, Planning
    <3>. QED BY <2>2, <3>1, <3>2
  <2>. QED BY <1>1, <2>2, <2>3, <2>4, OthersFollow
<1>4. CASE NoReuse(c) \/ ReuseDone(c) \/ Skip(c) \/ ApplyDone(c)
  <2>1. PICK next : /\ cycle' = [cycle EXCEPT ![c] = next]
                    /\ next.local = cycle[c].local /\ next.remote = cycle[c].remote
                    /\ next.step \notin {"scan", "list"}
    BY <1>1, <1>4, NextPathFields DEF NoReuse, ReuseDone, Skip, ApplyDone, AtPath, TypeOK, Cycle
  <2>2. cycle'[c] = next /\ Planning(c)
    BY <1>1, <1>4, <2>1 DEF TypeOK, NoReuse, ReuseDone, Skip, ApplyDone, AtPath, Planning
  <2>. QED BY <1>1, <2>1, <2>2, StepFollows DEF GoesOn
<1>5. CASE Fail(c) \/ AckPeer(c, outcome)
  <2>1. cycle' = [cycle EXCEPT ![c] = IdleCycle]
    BY <1>5 DEF Fail, AckPeer, Proceed
  <2>2. cycle'[c].step = "idle" /\ cycle' = [cycle EXCEPT ![c] = cycle'[c]]
    BY <1>1, <2>1 DEF TypeOK, IdleCycle
  <2>. QED BY <1>1, <2>2, StepFollows DEF GoesOn
<1>6. CASE AckLocal(c)
  <2>. DEFINE next == [cycle[c] EXCEPT !.step = "ackPeer", !.local = index[Initiator]]
  <2>1. cycle' = [cycle EXCEPT ![c] = next]
    BY <1>1, <1>6 DEF AckLocal, TypeOK
  <2>2. next.step = "ackPeer"
    BY <1>1 DEF Cycle
  <2>. HIDE DEF next
  <2>3. cycle'[c] = next
    BY <1>1, <2>1 DEF TypeOK
  <2>. QED BY <1>1, <2>1, <2>2, <2>3, StepFollows DEF GoesOn
<1>. QED BY <1>2, <1>3, <1>4, <1>5, <1>6 DEF FrameStep

LEMMA StartFollows ==
  ASSUME PlanInv, TypeInv', NEW c \in Cycles, StartStep(c)
  PROVE  PlanInv'
<1>. USE DEF PlanInv
<1>1. /\ TypeOK /\ cycle[c] \in Cycle /\ cycle[c].step = "idle"
      /\ removed' = [removed EXCEPT ![c] = {}]
  BY DEF StartStep, ProbeResponder, Begin, ProcessFree, RecordStart, TypeInv, TypeOK
<1>2. PICK next : /\ cycle' = [cycle EXCEPT ![c] = next]
                  /\ next.step \in {"idle", "scan"}
  <2>1. CASE ProbeResponder(c)
    <3>1. cycle' = [cycle EXCEPT ![c] = cycle[c]]
      BY <1>1, <2>1 DEF ProbeResponder, TypeOK
    <3>. QED BY <1>1, <3>1
  <2>2. CASE Begin(c)
    <3>1. cycle' = [cycle EXCEPT ![c] = [cycle[c] EXCEPT !.step = "scan",
                                                         !.local = index[Initiator]]]
      BY <1>1, <2>2 DEF Begin, TypeOK
    <3>2. [cycle[c] EXCEPT !.step = "scan", !.local = index[Initiator]].step = "scan"
      BY <1>1 DEF Cycle
    <3>. QED BY <3>1, <3>2
  <2>. QED BY <2>1, <2>2 DEF StartStep
<1>3. cycle'[c] = next /\ removed'[c] = {}
  BY <1>1, <1>2 DEF TypeOK
<1>. QED BY <1>1, <1>2, <1>3, StepFollows DEF GoesOn

LEMMA PlanInvInvariant == HSpec => []PlanInv
<1>1. HInit /\ TypeInv => PlanInv
  BY DEF HInit, Init, IdleCycle, PlanInv, PlanFollowed, Planning
<1>2. PlanInv /\ TypeInv' /\ [HNext]_hvars => PlanInv'
  <2>. SUFFICES ASSUME PlanInv, TypeInv', [HNext]_hvars PROVE PlanInv'
    OBVIOUS
  <2>1. CASE UNCHANGED hvars
    BY <2>1, PlanStays DEF hvars
  <2>2. ASSUME NEW p \in Peers, NEW x \in Paths, UNCHANGED history,
               UserDelete(p, x) \/ \E h \in Contents : UserWrite(p, x, h)
        PROVE  PlanInv'
    BY <2>2, PlanStays DEF UserDelete, UserWrite, history
  <2>3. ASSUME NEW c \in Cycles, Abort(c), RecordAbort(c) PROVE PlanInv'
    <3>1. cycle' = [cycle EXCEPT ![c] = IdleCycle] /\ removed' = removed
      BY <2>3 DEF Abort, RecordAbort
    <3>2. cycle'[c].step = "idle" /\ cycle' = [cycle EXCEPT ![c] = cycle'[c]]
      BY <3>1 DEF PlanInv, TypeInv, TypeOK, IdleCycle
    <3>. QED BY <3>1, <3>2, StepFollows DEF GoesOn, PlanInv
  <2>4. CASE HNext
    BY <2>2, <2>3, <2>4, HNextCases, StartFollows, FrameFollows, TransfersFollow, CommitsFollow
  <2>. QED BY <2>1, <2>4
<1>. QED BY <1>1, <1>2, HSpecIsSpec, TypeInvInvariant, PTL DEF HSpec

LEMMA LimitTyped ==
  ASSUME NEW total \in Nat
  PROVE  DeleteLimit(total) \in Int
<1>1. DeletePercent \in Nat /\ DeleteFloor \in Nat
  BY EngineAssumption
<1>2. DeletePercent * total + 99 \in Int
  BY <1>1
<1>3. (DeletePercent * total + 99) \div 100 \in Int
  BY <1>2
<1>. QED BY <1>1, <1>3 DEF DeleteLimit

\* The halt of deletionHalt, decided once from two listings, bounds what the whole
\* cycle deletes at the two sides: users, faults and other processes' cycles meanwhile
\* never take a cycle past the number of files that the threshold allows.
THEOREM ThresholdHolds == HSpec => []DeletesLimited
<1>1. PlanInv => DeletesLimited
  <2>. SUFFICES ASSUME PlanInv, NEW c \in Cycles, cycle[c].step \in {"reuse", "apply", "ack"}
                PROVE  LET known == {x \in Paths : \/ cycle[c].local[x] # Absent
                                                   \/ cycle[c].remote[x] # Absent}
                       IN  Cardinality(removed[c]) <= DeleteLimit(Cardinality(known))
    BY DEF DeletesLimited
  <2>. DEFINE known   == {x \in Paths : cycle[c].local[x] # Absent \/ cycle[c].remote[x] # Absent}
              deletes == PlannedDeletes(c)
  <2>1. /\ ~(Cardinality(deletes) > DeleteLimit(Cardinality(known)))
        /\ removed[c] \subseteq deletes
    BY DEF PlanInv, PlanFollowed, Planning, Halted, PlannedDeletes
  <2>2. IsFiniteSet(Paths)
    BY NumPathsAssumption, FS_Interval DEF Paths
  <2>3. IsFiniteSet(deletes) /\ IsFiniteSet(known) /\ IsFiniteSet(removed[c])
    BY <2>1, <2>2, FS_Subset DEF PlannedDeletes
  <2>. HIDE DEF known, deletes
  <2>4. Cardinality(removed[c]) <= Cardinality(deletes)
    BY <2>1, <2>3, FS_Subset
  <2>5. /\ Cardinality(known) \in Nat /\ Cardinality(deletes) \in Nat
        /\ Cardinality(removed[c]) \in Nat
    BY <2>3, FS_CardinalityType
  <2>6. DeleteLimit(Cardinality(known)) \in Int
    BY <2>5, LimitTyped
  <2>7. Cardinality(removed[c]) <= DeleteLimit(Cardinality(known))
    BY <2>1, <2>4, <2>5, <2>6
  <2>. QED BY <2>7 DEF known
<1>. QED BY <1>1, PlanInvInvariant, PTL
================================================================================
