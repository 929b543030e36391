------------------------------ MODULE FolderLock ------------------------------
(***************************************************************************)
(* The processes of one installation that work on one folder: forced       *)
(* commands serving the peer, the cycle's own writes, ignore and index     *)
(* commit commands.  Each takes the folder's lock (internal/lock/lock.go), *)
(* touches the files, and replaces the index file by what it loaded and    *)
(* changed.  FolderSync takes such a job for one step; here every step of  *)
(* it is apart, the user acts between any two, and the process may die.    *)
(*                                                                         *)
(* A scan is one step: a walk that overlaps a user's edit sees each path   *)
(* before or after it.  Two jobs that the code distinguishes by who asked  *)
(* (a served write and the initiator's pull) are the same job here.        *)
(***************************************************************************)
EXTENDS FolderIndex

CONSTANTS
  Here,         \* this installation
  Away,         \* its peer, whose changes the requests bring
  Jobs,         \* processes that may be at work at once
  Work,         \* Work[w]: the kind of request job w makes
  Unlocked,     \* the jobs that take no folder lock
  NoJob,        \* the holder of a free lock
  NoRequest,
  MaxEdits,     \* bound: user operations in a behaviour
  MaxRequests,  \* bound: requests in a behaviour
  MaxDeaths     \* bound: processes that die

Kinds == {"write", "delete", "scan", "ack", "ignore"}

Request == [kind : Kinds, path : Paths, file : File \cup {NoFile}, version : Version]

ASSUME FolderLockAssumption ==
  /\ Here \in Peers /\ Away \in Peers /\ Here # Away
  /\ Work \in [Jobs -> Kinds] /\ Unlocked \subseteq {w \in Jobs : Work[w] = "scan"}
  /\ NoJob \notin Jobs /\ NoRequest \notin Request
  /\ MaxEdits \in Nat /\ MaxRequests \in Nat /\ MaxDeaths \in Nat

VARIABLES
  disk,      \* disk[x]: the file at path x, or NoFile
  trash,     \* contents in the recoverable trash
  index,     \* the index file
  ignored,   \* the paths that the marker's rules ignore
  lock,      \* the job that holds the folder lock, or NoJob
  job,       \* job[w]: how far job w has got
  edits,     \* user operations so far; the clock of modification times
  requests,  \* requests so far
  deaths     \* deaths so far

vars == <<disk, trash, index, ignored, lock, job, edits, requests, deaths>>

Steps == {"idle", "wait", "clear", "install", "verify",
          "rules", "mark", "load", "scan", "save", "release"}

NoEntries == [x \in Paths |-> Absent]
IdleJob == [step    |-> "idle",
            request |-> NoRequest,
            cleared |-> 0,            \* history: when its path was made free
            rules   |-> {},           \* the ignored paths it read in the marker
            loaded  |-> NoEntries]    \* the index it loaded, then changed

Job == [step : Steps, request : Request \cup {NoRequest}, cleared : Nat,
        rules : SUBSET Paths, loaded : [Paths -> Entry]]

TypeOK ==
  /\ disk     \in [Paths -> File \cup {NoFile}]
  /\ trash    \in SUBSET Contents
  /\ index    \in [Paths -> Entry]
  /\ ignored  \in SUBSET Paths
  /\ lock     \in Jobs \cup {NoJob}
  /\ job      \in [Jobs -> Job]
  /\ edits    \in 0 .. MaxEdits
  /\ requests \in 0 .. MaxRequests
  /\ deaths   \in 0 .. MaxDeaths

Init ==
  /\ disk     = [x \in Paths |-> NoFile]
  /\ trash    = {}
  /\ index    = NoEntries
  /\ ignored  = {}
  /\ lock     = NoJob
  /\ job      = [w \in Jobs |-> IdleJob]
  /\ edits    = 0
  /\ requests = 0
  /\ deaths   = 0

-------------------------------------------------------------------------------
UserWrite(x, h) ==
  /\ edits < MaxEdits
  /\ disk' = [disk EXCEPT ![x] = [hash |-> h, mtime |-> edits]]
  /\ edits' = edits + 1
  /\ UNCHANGED <<trash, index, ignored, lock, job, requests, deaths>>

UserDelete(x) ==
  /\ edits < MaxEdits
  /\ disk[x] # NoFile
  /\ disk' = [disk EXCEPT ![x] = NoFile]
  /\ edits' = edits + 1
  /\ UNCHANGED <<trash, index, ignored, lock, job, requests, deaths>>

-------------------------------------------------------------------------------
(* Asking, and the lock. *)

\* Slips: a listing only reads, so it takes no lock; an ignore edit does not
\* touch the index, so it takes none.
LocksWriters(w) == w \notin Unlocked /\ Work[w] # "scan"
LocksIndex(w)   == w \notin Unlocked /\ Work[w] # "ignore"

\* Handlers and the cycle's own mutations lock; a cycle's first scan and the
\* index commit command do not.
Locks(w) == w \notin Unlocked

\* Where a job starts once it may.
First(kind) ==
  CASE kind \in {"write", "delete"} -> "clear"
    [] kind \in {"scan", "ignore"}  -> "rules"
    [] kind = "ack"                 -> "load"

\* The version a request brings: a change of the peer on what it last listed
\* here for a write or a delete, and for an acknowledgement how far it has got.
Brought(kind, x) ==
  IF kind = "ack" THEN index[x].version
  ELSE [index[x].version EXCEPT ![Away] = requests + 1]

Ask(w, x, h) ==
  LET kind == Work[w]
      file == IF kind = "write" THEN [hash |-> h, mtime |-> edits] ELSE NoFile
      asked == [kind |-> kind, path |-> x, file |-> file, version |-> Brought(kind, x)]
  IN
  /\ job[w].step = "idle"
  /\ requests < MaxRequests
  /\ requests' = requests + 1
  /\ job' = [job EXCEPT ![w] =
       [IdleJob EXCEPT !.step = IF Locks(w) THEN "wait" ELSE First(kind), !.request = asked]]
  /\ UNCHANGED <<disk, trash, index, ignored, lock, edits, deaths>>

At(w, step) == job[w].step = step

\* acquire: the flock is free, or its last owner's descriptor is gone.
Acquire(w) ==
  /\ At(w, "wait")
  /\ lock = NoJob
  /\ lock' = w
  /\ job' = [job EXCEPT ![w].step = First(job[w].request.kind)]
  /\ UNCHANGED <<disk, trash, index, ignored, edits, requests, deaths>>

\* acquireWait gives up while the owner is still alive.
Timeout(w) ==
  /\ At(w, "wait")
  /\ lock # NoJob
  /\ job' = [job EXCEPT ![w] = IdleJob]
  /\ UNCHANGED <<disk, trash, index, ignored, lock, edits, requests, deaths>>

Free(w) == lock' = IF lock = w THEN NoJob ELSE lock

\* The deferred Release, after success or an error.
Release(w) ==
  /\ At(w, "release")
  /\ Free(w)
  /\ job' = [job EXCEPT ![w] = IdleJob]
  /\ UNCHANGED <<disk, trash, index, ignored, edits, requests, deaths>>

\* Slip: the lock is a file that a dead owner leaves behind.
DieHolding(w) ==
  /\ job[w].step # "idle"
  /\ deaths < MaxDeaths
  /\ job' = [job EXCEPT ![w] = IdleJob]
  /\ deaths' = deaths + 1
  /\ UNCHANGED <<disk, trash, index, ignored, lock, edits, requests>>

\* A process dies; the kernel frees its flock.
Die(w) ==
  /\ job[w].step # "idle"
  /\ deaths < MaxDeaths
  /\ Free(w)
  /\ job' = [job EXCEPT ![w] = IdleJob]
  /\ deaths' = deaths + 1
  /\ UNCHANGED <<disk, trash, index, ignored, edits, requests>>

-------------------------------------------------------------------------------
(* A write or a deletion of a file.  A job proceeds from step to step; one *)
(* that meets an error goes straight to its release.                       *)

PathOf(w) == job[w].request.path
FileHere(w) == disk[PathOf(w)]
StepTo(w, step) == job' = [job EXCEPT ![w].step = step]

\* Slips: the old file is removed; a file that is not there is moved as well.
MovedNothing(file) == {}
MovedAlways(file)  == {file.hash}

\* The bytes that trash.Move keeps.
Moved(file) == IF file = NoFile THEN {} ELSE {file.hash}

\* trash.Move, which a write leaves out when there is no file.
Clear(w) ==
  /\ At(w, "clear")
  /\ Work[w] = "delete" => FileHere(w) # NoFile
  /\ trash' = trash \cup Moved(FileHere(w))
  /\ disk' = [disk EXCEPT ![PathOf(w)] = NoFile]
  /\ job' = [job EXCEPT ![w].step = IF Work[w] = "write" THEN "install" ELSE "load",
                        ![w].cleared = edits]
  /\ UNCHANGED <<index, ignored, lock, edits, requests, deaths>>

\* The rename, over whatever is at the path by now.
Install(w) ==
  /\ At(w, "install")
  /\ disk' = [disk EXCEPT ![PathOf(w)] = job[w].request.file]
  /\ StepTo(w, "verify")
  /\ UNCHANGED <<trash, index, ignored, lock, edits, requests, deaths>>

\* verifyInstalled reads the file back.
Verify(w) ==
  /\ At(w, "verify")
  /\ FileHere(w) = job[w].request.file
  /\ StepTo(w, "load")
  /\ UNCHANGED <<disk, trash, index, ignored, lock, edits, requests, deaths>>

Fail(w) ==
  /\ \/ At(w, "clear") /\ Work[w] = "delete" /\ FileHere(w) = NoFile
     \/ At(w, "verify") /\ FileHere(w) # job[w].request.file
  /\ StepTo(w, "release")
  /\ UNCHANGED <<disk, trash, index, ignored, lock, edits, requests, deaths>>

-------------------------------------------------------------------------------
(* The marker and the index file. *)

\* ReadMarker: the rules that a scan goes by and that an ignore edit changes.
ReadRules(w) ==
  /\ At(w, "rules")
  /\ job' = [job EXCEPT ![w].step = IF Work[w] = "ignore" THEN "mark" ELSE "load",
                        ![w].rules = ignored]
  /\ UNCHANGED <<disk, trash, index, ignored, lock, edits, requests, deaths>>

\* WriteMarker, with one path more or one path less to ignore.
WriteRules(w) ==
  /\ At(w, "mark")
  /\ ignored' = IF PathOf(w) \in job[w].rules THEN job[w].rules \ {PathOf(w)}
                ELSE job[w].rules \cup {PathOf(w)}
  /\ StepTo(w, "release")
  /\ UNCHANGED <<disk, trash, index, lock, edits, requests, deaths>>

LoadIndex(w) ==
  /\ At(w, "load")
  /\ job' = [job EXCEPT ![w].step = IF Work[w] = "scan" THEN "scan" ELSE "save",
                        ![w].loaded = index]
  /\ UNCHANGED <<disk, trash, index, ignored, lock, edits, requests, deaths>>

\* Reconcile: a path the rules ignore keeps its entry, whatever is on the disk.
ScanDisk(w) ==
  LET scanned == Scan(Here, job[w].loaded, disk) IN
  /\ At(w, "scan")
  /\ job' = [job EXCEPT ![w].step = "save",
                        ![w].loaded = [x \in Paths |-> IF x \in job[w].rules THEN @[x]
                                                       ELSE scanned[x]]]
  /\ UNCHANGED <<disk, trash, index, ignored, lock, edits, requests, deaths>>

\* The index that job w writes: its loaded one, with its own change.
Result(w) ==
  LET asked == job[w].request  loaded == job[w].loaded IN
  CASE Work[w] = "write"  -> [loaded EXCEPT ![asked.path] = LiveEntry(asked.version, asked.file)]
    [] Work[w] = "delete" -> [loaded EXCEPT ![asked.path] = Tombstone(asked.version)]
    [] Work[w] = "ack"    -> Prune(loaded, asked.version)
    [] Work[w] = "scan"   -> loaded

SaveIndex(w) ==
  /\ At(w, "save")
  /\ index' = Result(w)
  /\ job' = [job EXCEPT ![w].step = "release"]
  /\ UNCHANGED <<disk, trash, ignored, lock, edits, requests, deaths>>

-------------------------------------------------------------------------------
JobStep(w) ==
  \/ Acquire(w) \/ Timeout(w) \/ Release(w)
  \/ Clear(w) \/ Install(w) \/ Verify(w) \/ Fail(w)
  \/ ReadRules(w) \/ WriteRules(w) \/ LoadIndex(w) \/ ScanDisk(w) \/ SaveIndex(w)

Next ==
  \/ \E x \in Paths, h \in Contents : UserWrite(x, h)
  \/ \E x \in Paths : UserDelete(x)
  \/ \E w \in Jobs, x \in Paths, h \in Contents : Ask(w, x, h)
  \/ \E w \in Jobs : JobStep(w) \/ Die(w)

Spec == Init /\ [][Next]_vars

\* A process that has not died runs; nobody has to ask, edit or die.
FairSpec == Spec /\ \A w \in Jobs : WF_vars(JobStep(w))

-------------------------------------------------------------------------------
(* Properties. *)

\* What job w still wants of the index.
Wanted(w) == IF job[w].step \in {"idle", "release"} THEN NoRequest ELSE job[w].request

Store == INSTANCE IndexStore WITH request <- [w \in Jobs |-> Wanted(w)]

\* "mutateAndLog runs op ... under the per-folder mutation lock" (serve.go): a
\* load, a change and a save by different processes never mix, so the index
\* file takes up every committed change whole and loses none.
ImplementsStore == Store!StoreSpec

\* "Kernel flock ownership is tied to the open file description: a dead owner is
\* recovered automatically" (lock.go): whatever dies and whenever, the lock of
\* the folder becomes free again and again.
LockComesFree == []<>(lock = NoJob)

\* What a scan owes to the rules: it leaves the loaded entry of a path that the
\* marker ignores as it is, and the marker ignores the same paths until the
\* scanned index is saved.
FollowsRules(w) ==
  /\ At(w, "scan") /\ job'[w].step = "save" =>
       \A x \in ignored : job'[w].loaded[x] = job[w].loaded[x]
  /\ At(w, "save") /\ Work[w] = "scan" => ignored' = ignored

\* An ignore edit takes the folder lock to stay clear of scans (ignore.go:70-72).
\* The scans that hold the lock too, those served to a peer, go by the rules that
\* the marker has when their index is saved, although they read them some steps
\* before, and whatever the scans without the lock do meanwhile.
IgnoredEntriesKept == [][\A w \in Jobs \ Unlocked : FollowsRules(w)]_vars

\* "The lock keeps this from racing a running cycle's own marker-adjacent scan"
\* (ignore.go:71-72): no scan at all, that of a cycle included, changes the entry
\* of a path that the marker ignores by the time the scan's index is saved.  False
\* of the code: planFolder reads the marker, scans and saves without the lock.
EveryScanFollowsRules ==
  [][\A w \in Jobs : At(w, "save") /\ Work[w] = "scan" /\ job'[w].step = "release" =>
       \A x \in ignored : index'[x] = index[x]]_vars

\* "Existing files are moved to trash before replacement" (apply.go).  A file is
\* lost without trace only if the user put it there after the job at work had
\* already made the path free.
OnlyIntrudersLost ==
  [][\A x \in Paths :
       edits' = edits /\ disk[x] # NoFile /\ disk'[x] # disk[x] =>
         \/ disk[x].hash \in trash'
         \/ \E w \in Jobs : At(w, "install") /\ disk[x].mtime >= job[w].cleared]_vars
==============================================================================
