--------------------------- MODULE FolderIndexProofs ---------------------------
(***************************************************************************)
(* Compare, Merge and Increment do for version vectors what the comments   *)
(* of internal/vector/vector.go say, whatever the set of installations;    *)
(* and what entries of the index are, and what a scan and a prune return   *)
(* for all of them.                                                        *)
(***************************************************************************)
EXTENDS FolderIndex, TLAPS

\* Leq orders the vectors, and Compare names the four ways two of them can
\* stand in that order (vector.Compare).
THEOREM CompareDecidesOrder ==
  ASSUME NEW v \in Version, NEW w \in Version
  PROVE  /\ Compare(v, w) = "equal"      <=> v = w
         /\ Compare(v, w) = "greater"    <=> Leq(w, v) /\ v # w
         /\ Compare(v, w) = "lesser"     <=> Leq(v, w) /\ v # w
         /\ Compare(v, w) = "concurrent" <=> ~Leq(v, w) /\ ~Leq(w, v)
<1>1. AheadSomewhere(v, w) <=> ~Leq(v, w)
  BY DEF AheadSomewhere, Leq, Version
<1>2. AheadSomewhere(w, v) <=> ~Leq(w, v)
  BY DEF AheadSomewhere, Leq, Version
<1>3. Leq(v, w) /\ Leq(w, v) <=> v = w
  <2>1. ASSUME Leq(v, w), Leq(w, v) PROVE v = w
    <3>1. ASSUME NEW p \in Peers PROVE v[p] = w[p]
      <4>1. v[p] <= w[p] /\ w[p] <= v[p]
        BY <2>1 DEF Leq
      <4>. QED BY <4>1 DEF Version
    <3>. QED BY <3>1 DEF Version
  <2>. QED BY <2>1 DEF Leq, Version
<1>. QED BY <1>1, <1>2, <1>3 DEF Compare

LEMMA LeqReflexive ==
  ASSUME NEW v \in Version
  PROVE  Leq(v, v)
BY DEF Leq, Version

LEMMA LeqTransitive ==
  ASSUME NEW u \in Version, NEW v \in Version, NEW w \in Version,
         Leq(u, v), Leq(v, w)
  PROVE  Leq(u, w)
<1>. SUFFICES ASSUME NEW p \in Peers PROVE u[p] <= w[p]
  BY DEF Leq
<1>1. u[p] <= v[p] /\ v[p] <= w[p]
  BY DEF Leq
<1>. QED BY <1>1 DEF Version

\* The merge of two vectors is the least one that counts all that both count
\* (vector.Merge): no change is forgotten, and none is invented.
THEOREM MergeIsLeastUpperBound ==
  ASSUME NEW v \in Version, NEW w \in Version
  PROVE  /\ Merge(v, w) \in Version
         /\ Leq(v, Merge(v, w)) /\ Leq(w, Merge(v, w))
         /\ \A u \in Version : Leq(v, u) /\ Leq(w, u) => Leq(Merge(v, w), u)
BY DEF Merge, Leq, Version

\* An installation's own change takes its entry strictly ahead (vector.Increment).
THEOREM IncrementIsAhead ==
  ASSUME NEW v \in Version, NEW p \in Peers
  PROVE  /\ Increment(v, p) \in Version
         /\ Leq(v, Increment(v, p)) /\ ~Leq(Increment(v, p), v)
BY DEF Increment, Leq, Version

-------------------------------------------------------------------------------
(* Entries. *)

LEMMA ZeroIsLeast ==
  /\ ZeroVersion \in Version
  /\ \A v \in Version : Leq(ZeroVersion, v)
BY DEF ZeroVersion, Version, Leq

LEMMA EntryFields ==
  ASSUME NEW e \in Entry
  PROVE  /\ e.version \in Version /\ e.deleted \in BOOLEAN
         /\ e.hash \in Contents \cup {NoContent} /\ e.mtime \in Nat
         /\ IsLive(e) => ~e.deleted /\ FileOf(e) \in File
         /\ ~IsLive(e) => e.mtime = 0 /\ (e.deleted \/ e = Absent)
BY DEF Entry, IsLive, FileOf, File

LEMMA AbsentIsEntry == Absent \in Entry
BY ZeroIsLeast DEF Absent, Entry, IsLive

LEMMA LiveEntryIsEntry ==
  ASSUME NEW v \in Version, NEW file \in File
  PROVE  LiveEntry(v, file) \in Entry /\ LiveEntry(v, file).version = v
BY NoContentAssumption DEF LiveEntry, Entry, IsLive, File

LEMMA TombstoneIsEntry ==
  ASSUME NEW v \in Version
  PROVE  Tombstone(v) \in Entry /\ Tombstone(v).version = v
BY DEF Tombstone, Entry, IsLive

\* A scanned entry is an entry, and never forgets what the old one counted.
LEMMA ScanEntryAdvances ==
  ASSUME NEW p \in Peers, NEW e \in Entry, NEW file \in File \cup {NoFile}
  PROVE  /\ ScanEntry(p, e, file) \in Entry
         /\ Leq(e.version, ScanEntry(p, e, file).version)
<1>1. e.version \in Version
  BY EntryFields
<1>2. /\ Increment(e.version, p) \in Version
      /\ Leq(e.version, Increment(e.version, p))
      /\ Leq(e.version, e.version)
  BY <1>1, IncrementIsAhead, LeqReflexive
<1>3. CASE file # NoFile /\ file = FileOf(e)
  <2>1. ScanEntry(p, e, file) = e
    BY <1>3 DEF ScanEntry
  <2>. QED BY <1>2, <2>1
<1>4. CASE file # NoFile /\ file # FileOf(e)
  <2>1. ScanEntry(p, e, file) = LiveEntry(Increment(e.version, p), file)
    BY <1>4 DEF ScanEntry
  <2>. QED BY <1>2, <1>4, <2>1, LiveEntryIsEntry
<1>5. CASE file = NoFile /\ IsLive(e)
  <2>1. ScanEntry(p, e, file) = Tombstone(Increment(e.version, p))
    BY <1>5 DEF ScanEntry
  <2>. QED BY <1>2, <2>1, TombstoneIsEntry
<1>6. CASE file = NoFile /\ ~IsLive(e)
  <2>1. ScanEntry(p, e, file) = e
    BY <1>6 DEF ScanEntry
  <2>. QED BY <1>2, <2>1
<1>. QED BY <1>3, <1>4, <1>5, <1>6

LEMMA ScanAdvances ==
  ASSUME NEW p \in Peers, NEW idx \in [Paths -> Entry],
         NEW files \in [Paths -> File \cup {NoFile}]
  PROVE  /\ Scan(p, idx, files) \in [Paths -> Entry]
         /\ \A x \in Paths : Leq(idx[x].version, Scan(p, idx, files)[x].version)
BY ScanEntryAdvances DEF Scan

LEMMA PruneKeepsOrDrops ==
  ASSUME NEW idx \in [Paths -> Entry], NEW acked
  PROVE  /\ Prune(idx, acked) \in [Paths -> Entry]
         /\ \A x \in Paths : Prune(idx, acked)[x] \in {idx[x], Absent}
BY AbsentIsEntry DEF Prune

\* A scan either leaves an entry alone or makes it tell the file it saw.
LEMMA ScanEntryShowsFile ==
  ASSUME NEW p \in Peers, NEW e \in Entry, NEW file \in File \cup {NoFile}
  PROVE  ScanEntry(p, e, file) = e \/ FileOf(ScanEntry(p, e, file)) = file
<1>1. CASE file = NoFile
  BY <1>1 DEF ScanEntry, Tombstone, FileOf, NoFile
<1>2. CASE file # NoFile
  <2>1. file = [hash |-> file.hash, mtime |-> file.mtime]
    BY <1>2 DEF File
  <2>2. FileOf(LiveEntry(Increment(e.version, p), file)) = file
    BY <2>1 DEF LiveEntry, FileOf
  <2>. QED BY <1>2, <2>2 DEF ScanEntry
<1>. QED BY <1>1, <1>2
==============================================================================
