----------------------------- MODULE FolderIndex -----------------------------
(***************************************************************************)
(* One installation's index of one folder (internal/index/index.go) and    *)
(* the scan that brings it up to date with the disk                        *)
(* (internal/scan/scan.go).                                                *)
(*                                                                         *)
(* A file is its content hash and its modification time, the two parts of  *)
(* a regular file's state the program compares.  The inode, ctime and size *)
(* an entry caches only let a scan reuse a hash it already computed; the   *)
(* ctime of a file moves with every write, so the reused hash is the hash. *)
(*                                                                         *)
(* Index.Acknowledged is not kept: Acknowledge overwrites the one member's *)
(* vector immediately before Prune, its only reader, and a scan drops the  *)
(* map (index.New in scan.Reconcile).                                      *)
(***************************************************************************)
EXTENDS VersionVector

CONSTANTS NumPaths,     \* the folder's paths are numbered in sorted order
          Contents,     \* file contents, as told apart by their SHA-256
          NoContent     \* the empty hash of a tombstone and of a missing entry

ASSUME NumPathsAssumption == NumPaths \in Nat \ {0}
ASSUME NoContentAssumption == NoContent \notin Contents

Paths == 1 .. NumPaths

File   == [hash : Contents, mtime : Nat]
NoFile == [hash |-> NoContent, mtime |-> 0]

\* The zero index.Entry a Go map yields for a path it does not hold.
Absent == [version |-> ZeroVersion, deleted |-> FALSE,
           hash |-> NoContent, mtime |-> 0]

LiveEntry(v, file) == [version |-> v, deleted |-> FALSE,
                       hash |-> file.hash, mtime |-> file.mtime]
Tombstone(v)       == [version |-> v, deleted |-> TRUE,
                       hash |-> NoContent, mtime |-> 0]

IsLive(entry) == entry.hash # NoContent
FileOf(entry) == [hash |-> entry.hash, mtime |-> entry.mtime]

\* Live entries, tombstones and the zero entry.
Entry == {e \in [version : Version, deleted : BOOLEAN,
                 hash : Contents \cup {NoContent}, mtime : Nat] :
            IF IsLive(e) THEN ~e.deleted
            ELSE e.mtime = 0 /\ (e.deleted \/ e = Absent)}

\* Slip: a modified file keeps its entry's version.
ScanEntryUncounted(p, entry, file) ==
  CASE file # NoFile /\ ~IsLive(entry) -> LiveEntry(Increment(entry.version, p), file)
    [] file # NoFile /\ IsLive(entry)  -> LiveEntry(entry.version, file)
    [] file = NoFile /\ IsLive(entry)  -> Tombstone(Increment(entry.version, p))
    [] file = NoFile /\ ~IsLive(entry) -> entry

\* Slip: a file that is gone is not noticed.
ScanEntryNoTombstone(p, entry, file) ==
  IF file = NoFile \/ file = FileOf(entry) THEN entry
  ELSE LiveEntry(Increment(entry.version, p), file)

\* A scan of one path by installation p: a file that differs from its entry
\* and a live entry whose file is gone are p's own changes; a tombstone of a
\* file that stays away, and a path nobody knows, are carried over.
ScanEntry(p, entry, file) ==
  CASE file # NoFile /\ file = FileOf(entry) -> entry
    [] file # NoFile /\ file # FileOf(entry) -> LiveEntry(Increment(entry.version, p), file)
    [] file = NoFile /\ IsLive(entry)        -> Tombstone(Increment(entry.version, p))
    [] file = NoFile /\ ~IsLive(entry)       -> entry

Scan(p, previous, files) == [x \in Paths |-> ScanEntry(p, previous[x], files[x])]

\* The componentwise maximum of every entry's version.
GlobalVector(idx) ==
  [p \in Peers |-> CHOOSE n \in {idx[x].version[p] : x \in Paths} :
                      \A x \in Paths : idx[x].version[p] <= n]

\* The peer is known to have reached acked: tombstones at or below it go.
Prune(idx, acked) ==
  [x \in Paths |-> IF idx[x].deleted /\ Leq(idx[x].version, acked)
                   THEN Absent ELSE idx[x]]
==============================================================================
