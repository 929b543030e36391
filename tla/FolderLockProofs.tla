--------------------------- MODULE FolderLockProofs ---------------------------
(***************************************************************************)
(* Theorems about FolderLock for any number of paths, jobs, edits and      *)
(* deaths.  That the jobs implement IndexStore rests on two facts: the     *)
(* holder of the lock is the one job past waiting for it (Held), so what   *)
(* it loaded is still what the index file holds (Fresh).                   *)
(***************************************************************************)
EXTENDS FolderLock, FolderIndexProofs, TLAPS

\* Where each kind of job can be, and that it has a request of its kind.
Asked ==
  \A w \in Jobs :
    /\ job[w].step # "idle" => job[w].request \in Request /\ job[w].request.kind = Work[w]
    /\ job[w].step # "idle" /\ Work[w] = "write" => job[w].request.file \in File
    /\ job[w].step = "clear" => Work[w] \in {"write", "delete"}
    /\ job[w].step \in {"install", "verify"} => Work[w] = "write"
    /\ job[w].step = "rules" => Work[w] \in {"scan", "ignore"}
    /\ job[w].step = "scan" => Work[w] = "scan"
    /\ job[w].step \in {"load", "save"} => Work[w] # "ignore"
    /\ job[w].step = "mark" => Work[w] = "ignore"

TypeInv == TypeOK /\ Asked

LEMMA NoEntriesTyped == NoEntries \in [Paths -> Entry]
BY AbsentIsEntry DEF NoEntries

LEMMA IdleIsJob == IdleJob \in Job
BY NoEntriesTyped DEF IdleJob, Job, Steps

LEMMA JobTyped ==
  ASSUME TypeOK, NEW w \in Jobs
  PROVE  /\ job[w] \in Job
         /\ job[w].step \in Steps /\ job[w].request \in Request \cup {NoRequest}
         /\ job[w].cleared \in Nat /\ job[w].rules \in SUBSET Paths
         /\ job[w].loaded \in [Paths -> Entry]
BY DEF TypeOK, Job

LEMMA RequestTyped ==
  ASSUME TypeInv, NEW w \in Jobs, job[w].step # "idle"
  PROVE  /\ job[w].request.kind = Work[w] /\ Work[w] \in Kinds
         /\ PathOf(w) \in Paths
         /\ job[w].request.file \in File \cup {NoFile}
         /\ Work[w] = "write" => job[w].request.file \in File
         /\ job[w].request.version \in Version
<1>1. job[w].request \in Request /\ job[w].request.kind = Work[w]
  BY DEF TypeInv, Asked
<1>2. Work[w] = "write" => job[w].request.file \in File
  BY DEF TypeInv, Asked
<1>. QED BY <1>1, <1>2 DEF Request, PathOf

LEMMA Bounds ==
  ASSUME TypeOK
  PROVE  edits \in Nat /\ requests \in Nat /\ deaths \in Nat
BY FolderLockAssumption DEF TypeOK

\* A job may become any well-typed one that is where its kind can be.
LEMMA JobBecomes ==
  ASSUME TypeInv, NEW w \in Jobs, NEW next \in Job,
         job' = [job EXCEPT ![w] = next],
         next.step # "idle" => next.request \in Request /\ next.request.kind = Work[w],
         next.step # "idle" /\ Work[w] = "write" => next.request.file \in File,
         next.step = "clear" => Work[w] \in {"write", "delete"},
         next.step \in {"install", "verify"} => Work[w] = "write",
         next.step = "rules" => Work[w] \in {"scan", "ignore"},
         next.step = "scan" => Work[w] = "scan",
         next.step \in {"load", "save"} => Work[w] # "ignore",
         next.step = "mark" => Work[w] = "ignore"
  PROVE  job' \in [Jobs -> Job] /\ Asked'
<1>1. job \in [Jobs -> Job]
  BY DEF TypeInv, TypeOK
<1>2. job' \in [Jobs -> Job]
  BY <1>1
<1>3. job'[w] = next /\ \A v \in Jobs : v # w => job'[v] = job[v]
  BY <1>1
<1>. QED BY <1>2, <1>3 DEF TypeInv, Asked

LEMMA JobStops ==
  ASSUME TypeInv, NEW w \in Jobs, job' = [job EXCEPT ![w] = IdleJob]
  PROVE  job' \in [Jobs -> Job] /\ Asked'
<1>1. IdleJob.step = "idle"
  BY DEF IdleJob
<1>. QED BY <1>1, IdleIsJob, JobBecomes

\* A job at work goes on with the same request.
LEMMA JobProceeds ==
  ASSUME TypeInv, NEW w \in Jobs, job[w].step # "idle",
         NEW next \in Job, job' = [job EXCEPT ![w] = next],
         next.request = job[w].request,
         next.step = "clear" => Work[w] \in {"write", "delete"},
         next.step \in {"install", "verify"} => Work[w] = "write",
         next.step = "rules" => Work[w] \in {"scan", "ignore"},
         next.step = "scan" => Work[w] = "scan",
         next.step \in {"load", "save"} => Work[w] # "ignore",
         next.step = "mark" => Work[w] = "ignore"
  PROVE  job' \in [Jobs -> Job] /\ Asked'
<1>1. /\ job[w].request \in Request /\ job[w].request.kind = Work[w]
      /\ Work[w] = "write" => job[w].request.file \in File
  BY DEF TypeInv, Asked
<1>. QED BY <1>1, JobBecomes

\* A step that changes nothing of the job but where it is.
LEMMA StepProceeds ==
  ASSUME TypeInv, NEW w \in Jobs, job[w].step # "idle",
         NEW step \in Steps, job' = [job EXCEPT ![w].step = step],
         step = "clear" => Work[w] \in {"write", "delete"},
         step \in {"install", "verify"} => Work[w] = "write",
         step = "rules" => Work[w] \in {"scan", "ignore"},
         step = "scan" => Work[w] = "scan",
         step \in {"load", "save"} => Work[w] # "ignore",
         step = "mark" => Work[w] = "ignore"
  PROVE  job' \in [Jobs -> Job] /\ Asked'
<1>. DEFINE next == [job[w] EXCEPT !.step = step]
<1>1. job[w] \in Job
  BY JobTyped DEF TypeInv
<1>2. next \in Job /\ next.step = step /\ next.request = job[w].request
  BY <1>1 DEF Job
<1>3. job' = [job EXCEPT ![w] = next]
  OBVIOUS
<1>. HIDE DEF next
<1>. QED BY <1>2, <1>3, JobProceeds

-------------------------------------------------------------------------------
(* Type correctness. *)

LEMMA UsersTyped ==
  ASSUME TypeInv, NEW x \in Paths,
         UserDelete(x) \/ \E h \in Contents : UserWrite(x, h)
  PROVE  TypeInv'
<1>1. edits \in Nat
  BY Bounds DEF TypeInv
<1>2. PICK file \in File \cup {NoFile} : disk' = [disk EXCEPT ![x] = file]
  BY <1>1 DEF UserWrite, UserDelete, File
<1>3. /\ edits' \in 0 .. MaxEdits
      /\ job' = job /\ index' = index /\ trash' = trash /\ ignored' = ignored
      /\ lock' = lock /\ requests' = requests /\ deaths' = deaths
  BY <1>1, FolderLockAssumption DEF UserWrite, UserDelete, TypeInv, TypeOK
<1>. QED BY <1>2, <1>3 DEF TypeInv, TypeOK, Asked

LEMMA CounterTyped ==
  ASSUME NEW v \in Version, NEW n \in Nat
  PROVE  [v EXCEPT ![Away] = n] \in Version
BY DEF Version

LEMMA AskTyped ==
  ASSUME TypeInv, NEW w \in Jobs, NEW x \in Paths, NEW h \in Contents, Ask(w, x, h)
  PROVE  TypeInv'
<1>. DEFINE file  == IF Work[w] = "write" THEN [hash |-> h, mtime |-> edits] ELSE NoFile
            asked == [kind |-> Work[w], path |-> x, file |-> file,
                      version |-> Brought(Work[w], x)]
            start == IF Locks(w) THEN "wait" ELSE First(Work[w])
            next  == [IdleJob EXCEPT !.step = start, !.request = asked]
<1>1. edits \in Nat /\ requests \in Nat
  BY Bounds DEF TypeInv
<1>2. index[x].version \in Version
  BY EntryFields DEF TypeInv, TypeOK
<1>3. Brought(Work[w], x) \in Version
  <2>1. requests + 1 \in Nat
    BY <1>1
  <2>2. [index[x].version EXCEPT ![Away] = requests + 1] \in Version
    BY <1>2, <2>1, CounterTyped
  <2>. QED BY <1>2, <2>2 DEF Brought
<1>4. Work[w] \in Kinds
  BY FolderLockAssumption
<1>5. asked \in Request /\ (Work[w] = "write" => file \in File)
  BY <1>1, <1>3, <1>4 DEF Request, File
<1>6. /\ start \in Steps
      /\ start = "clear" => Work[w] \in {"write", "delete"}
      /\ start \notin {"install", "verify", "scan", "mark"}
      /\ start = "rules" => Work[w] \in {"scan", "ignore"}
      /\ start \in {"load", "save"} => Work[w] # "ignore"
  BY <1>4 DEF First, Kinds, Steps
<1>7. next \in Job /\ next.step = start /\ next.request = asked
  BY <1>5, <1>6, IdleIsJob DEF Job
<1>8. job' = [job EXCEPT ![w] = next]
  BY DEF Ask
<1>9. asked.kind = Work[w] /\ asked.file = file
  OBVIOUS
<1>. HIDE DEF next, asked, file, start
<1>10. job' \in [Jobs -> Job] /\ Asked'
  BY <1>5, <1>6, <1>7, <1>8, <1>9, JobBecomes
<1>11. requests' \in 0 .. MaxRequests
  BY <1>1, FolderLockAssumption DEF Ask
<1>. QED BY <1>10, <1>11 DEF Ask, TypeInv, TypeOK

LEMMA FirstTyped ==
  ASSUME NEW w \in Jobs
  PROVE  /\ First(Work[w]) \in {"clear", "rules", "load"}
         /\ First(Work[w]) = "clear" => Work[w] \in {"write", "delete"}
         /\ First(Work[w]) = "rules" => Work[w] \in {"scan", "ignore"}
         /\ First(Work[w]) = "load" => Work[w] # "ignore"
BY FolderLockAssumption DEF First, Kinds

LEMMA LockStepsTyped ==
  ASSUME TypeInv, NEW w \in Jobs,
         Acquire(w) \/ Timeout(w) \/ Release(w) \/ Die(w)
  PROVE  TypeInv'
<1>1. CASE Acquire(w)
  <2>1. job[w].step # "idle" /\ job[w].request.kind = Work[w]
    BY <1>1, RequestTyped DEF Acquire, At
  <2>2. job' \in [Jobs -> Job] /\ Asked'
    BY <1>1, <2>1, FirstTyped, StepProceeds DEF Acquire, Steps
  <2>. QED BY <1>1, <2>2 DEF Acquire, TypeInv, TypeOK
<1>2. CASE Timeout(w)
  BY <1>2, JobStops DEF Timeout, TypeInv, TypeOK
<1>3. CASE Release(w)
  BY <1>3, JobStops DEF Release, Free, TypeInv, TypeOK
<1>4. CASE Die(w)
  <2>1. deaths' \in 0 .. MaxDeaths
    BY <1>4, Bounds, FolderLockAssumption DEF Die, TypeInv
  <2>. QED BY <1>4, <2>1, JobStops DEF Die, Free, TypeInv, TypeOK
<1>. QED BY <1>1, <1>2, <1>3, <1>4

LEMMA MovedTyped ==
  ASSUME NEW file \in File \cup {NoFile}
  PROVE  Moved(file) \in SUBSET Contents
BY DEF Moved, File, NoFile

LEMMA FileStepsTyped ==
  ASSUME TypeInv, NEW w \in Jobs,
         Clear(w) \/ Install(w) \/ Verify(w) \/ Fail(w)
  PROVE  TypeInv'
<1>1. job[w].step \in {"clear", "install", "verify"}
  BY DEF Clear, Install, Verify, Fail, At
<1>2. /\ job[w].step # "idle"
      /\ Work[w] \in Kinds /\ PathOf(w) \in Paths
      /\ job[w].request.file \in File \cup {NoFile}
      /\ Work[w] \in {"write", "delete"}
  BY <1>1, RequestTyped DEF TypeInv, Asked
<1>3. CASE Clear(w)
  <2>. DEFINE step == IF Work[w] = "write" THEN "install" ELSE "load"
              next == [job[w] EXCEPT !.step = step, !.cleared = edits]
  <2>1. job[w] \in Job /\ edits \in Nat
    BY JobTyped, Bounds DEF TypeInv
  <2>2. step \in Steps /\ ((step = "install" /\ Work[w] = "write") \/ step = "load")
    BY DEF Steps
  <2>3. job' = [job EXCEPT ![w] = next]
    BY <1>3 DEF Clear
  <2>. HIDE DEF step
  <2>6. next \in Job /\ next.step = step /\ next.request = job[w].request
    BY <2>1, <2>2 DEF Job
  <2>. HIDE DEF next
  <2>4. job' \in [Jobs -> Job] /\ Asked'
    BY <1>2, <2>2, <2>3, <2>6, JobProceeds
  <2>5. FileHere(w) \in File \cup {NoFile}
    BY <1>2 DEF FileHere, TypeInv, TypeOK
  <2>8. trash' \in SUBSET Contents
    BY <1>3, <2>5, MovedTyped DEF Clear, TypeInv, TypeOK
  <2>7. disk' \in [Paths -> File \cup {NoFile}]
    BY <1>2, <1>3 DEF Clear, TypeInv, TypeOK
  <2>. QED BY <1>3, <2>4, <2>7, <2>8 DEF Clear, TypeInv, TypeOK
<1>4. CASE Install(w)
  <2>1. Work[w] = "write"
    BY <1>4 DEF Install, At, TypeInv, Asked
  <2>2. job' \in [Jobs -> Job] /\ Asked'
    BY <1>2, <1>4, <2>1, StepProceeds DEF Install, StepTo, Steps
  <2>3. disk' \in [Paths -> File \cup {NoFile}]
    BY <1>2, <1>4 DEF Install, TypeInv, TypeOK
  <2>. QED BY <1>4, <2>2, <2>3 DEF Install, TypeInv, TypeOK
<1>5. CASE Verify(w)
  <2>1. job' \in [Jobs -> Job] /\ Asked'
    BY <1>1, <1>2, <1>5, StepProceeds DEF Verify, StepTo, Steps
  <2>. QED BY <1>5, <2>1 DEF Verify, TypeInv, TypeOK
<1>6. CASE Fail(w)
  <2>1. job' \in [Jobs -> Job] /\ Asked'
    BY <1>2, <1>6, StepProceeds DEF Fail, StepTo, Steps
  <2>. QED BY <1>6, <2>1 DEF Fail, TypeInv, TypeOK
<1>. QED BY <1>3, <1>4, <1>5, <1>6

LEMMA ResultTyped ==
  ASSUME TypeInv, NEW w \in Jobs, job[w].step = "save"
  PROVE  Result(w) \in [Paths -> Entry]
<1>1. /\ Work[w] \in Kinds \ {"ignore"} /\ PathOf(w) \in Paths
      /\ job[w].request.version \in Version
      /\ Work[w] = "write" => job[w].request.file \in File
  BY RequestTyped DEF TypeInv, Asked
<1>2. job[w].loaded \in [Paths -> Entry]
  BY JobTyped DEF TypeInv
<1>3. CASE Work[w] = "write"
  <2>1. LiveEntry(job[w].request.version, job[w].request.file) \in Entry
    BY <1>1, <1>3, LiveEntryIsEntry
  <2>. QED BY <1>1, <1>2, <1>3, <2>1 DEF Result, PathOf
<1>4. CASE Work[w] = "delete"
  <2>1. Tombstone(job[w].request.version) \in Entry
    BY <1>1, TombstoneIsEntry
  <2>. QED BY <1>1, <1>2, <1>4, <2>1 DEF Result, PathOf
<1>5. CASE Work[w] = "ack"
  BY <1>2, <1>5, PruneKeepsOrDrops DEF Result
<1>6. CASE Work[w] = "scan"
  BY <1>2, <1>6 DEF Result
<1>. QED BY <1>1, <1>3, <1>4, <1>5, <1>6 DEF Kinds

LEMMA IndexStepsTyped ==
  ASSUME TypeInv, NEW w \in Jobs,
         \/ ReadRules(w) \/ WriteRules(w)
         \/ LoadIndex(w) \/ ScanDisk(w) \/ SaveIndex(w)
  PROVE  TypeInv'
<1>1. job[w].step # "idle" /\ job[w] \in Job /\ job[w].rules \in SUBSET Paths
  BY JobTyped DEF TypeInv, ReadRules, WriteRules, LoadIndex, ScanDisk, SaveIndex, At
<1>2. Work[w] \in Kinds /\ PathOf(w) \in Paths
  BY <1>1, RequestTyped
<1>3. CASE ReadRules(w)
  <2>. DEFINE step == IF Work[w] = "ignore" THEN "mark" ELSE "load"
              next == [job[w] EXCEPT !.step = step, !.rules = ignored]
  <2>1. job' = [job EXCEPT ![w] = next]
    BY <1>3 DEF ReadRules
  <2>2. step \in Steps /\ ((step = "mark" /\ Work[w] = "ignore") \/ (step = "load" /\ Work[w] # "ignore"))
    BY DEF Steps
  <2>. HIDE DEF step
  <2>3. next \in Job /\ next.step = step /\ next.request = job[w].request
    BY <1>1, <2>2 DEF Job, TypeInv, TypeOK
  <2>. HIDE DEF next
  <2>4. job' \in [Jobs -> Job] /\ Asked'
    BY <1>1, <2>1, <2>2, <2>3, JobProceeds
  <2>. QED BY <1>3, <2>4 DEF ReadRules, TypeInv, TypeOK
<1>4. CASE WriteRules(w)
  <2>1. job' \in [Jobs -> Job] /\ Asked'
    BY <1>1, <1>4, StepProceeds DEF WriteRules, StepTo, Steps
  <2>2. ignored' \in SUBSET Paths
    BY <1>1, <1>2, <1>4 DEF WriteRules
  <2>. QED BY <1>4, <2>1, <2>2 DEF WriteRules, TypeInv, TypeOK
<1>5. CASE LoadIndex(w)
  <2>. DEFINE step == IF Work[w] = "scan" THEN "scan" ELSE "save"
              next == [job[w] EXCEPT !.step = step, !.loaded = index]
  <2>1. job' = [job EXCEPT ![w] = next]
    BY <1>5 DEF LoadIndex
  <2>2. Work[w] # "ignore"
    BY <1>5 DEF LoadIndex, At, TypeInv, Asked
  <2>3. step \in Steps /\ ((step = "scan" /\ Work[w] = "scan") \/ step = "save")
    BY DEF Steps
  <2>. HIDE DEF step
  <2>4. next \in Job /\ next.step = step /\ next.request = job[w].request
    BY <1>1, <2>3 DEF Job, TypeInv, TypeOK
  <2>. HIDE DEF next
  <2>5. job' \in [Jobs -> Job] /\ Asked'
    BY <1>1, <2>1, <2>2, <2>3, <2>4, JobProceeds
  <2>. QED BY <1>5, <2>5 DEF LoadIndex, TypeInv, TypeOK
<1>6. CASE ScanDisk(w)
  <2>. DEFINE scanned == Scan(Here, job[w].loaded, disk)
              merged == [x \in Paths |-> IF x \in job[w].rules THEN job[w].loaded[x] ELSE scanned[x]]
              next == [job[w] EXCEPT !.step = "save", !.loaded = merged]
  <2>1. job' = [job EXCEPT ![w] = next]
    BY <1>6 DEF ScanDisk
  <2>2. Work[w] = "scan"
    BY <1>6 DEF ScanDisk, At, TypeInv, Asked
  <2>3. job[w].loaded \in [Paths -> Entry]
    BY <1>1 DEF Job
  <2>4. scanned \in [Paths -> Entry]
    BY <2>3, FolderLockAssumption, ScanAdvances DEF TypeInv, TypeOK
  <2>. HIDE DEF scanned
  <2>5. merged \in [Paths -> Entry]
    BY <2>3, <2>4
  <2>. HIDE DEF merged
  <2>6. next \in Job /\ next.step = "save" /\ next.request = job[w].request
    BY <1>1, <2>5 DEF Job, Steps
  <2>. HIDE DEF next
  <2>7. job' \in [Jobs -> Job] /\ Asked'
    BY <1>1, <2>1, <2>2, <2>6, JobProceeds
  <2>. QED BY <1>6, <2>7 DEF ScanDisk, TypeInv, TypeOK
<1>7. CASE SaveIndex(w)
  <2>1. job' \in [Jobs -> Job] /\ Asked'
    BY <1>1, <1>7, StepProceeds DEF SaveIndex, Steps
  <2>2. index' \in [Paths -> Entry]
    BY <1>7, ResultTyped DEF SaveIndex, At
  <2>. QED BY <1>7, <2>1, <2>2 DEF SaveIndex, TypeInv, TypeOK
<1>. QED BY <1>3, <1>4, <1>5, <1>6, <1>7

LEMMA InitTyped == Init => TypeInv
<1>. SUFFICES ASSUME Init PROVE TypeInv
  OBVIOUS
<1>1. \A w \in Jobs : job[w] = IdleJob /\ IdleJob.step = "idle"
  BY DEF Init, IdleJob
<1>2. Asked
  BY <1>1 DEF Asked
<1>3. job \in [Jobs -> Job]
  BY IdleIsJob DEF Init
<1>. QED BY <1>2, <1>3, NoEntriesTyped, FolderLockAssumption DEF Init, TypeInv, TypeOK

LEMMA TypeInvInvariant == Spec => []TypeInv
<1>1. TypeInv /\ [Next]_vars => TypeInv'
  <2>. SUFFICES ASSUME TypeInv, [Next]_vars PROVE TypeInv'
    OBVIOUS
  <2>1. CASE UNCHANGED vars
    BY <2>1 DEF vars, TypeInv, TypeOK, Asked
  <2>2. CASE \E x \in Paths, h \in Contents : UserWrite(x, h)
    BY <2>2, UsersTyped
  <2>3. CASE \E x \in Paths : UserDelete(x)
    BY <2>3, UsersTyped
  <2>4. CASE \E w \in Jobs, x \in Paths, h \in Contents : Ask(w, x, h)
    BY <2>4, AskTyped
  <2>5. CASE \E w \in Jobs : JobStep(w) \/ Die(w)
    BY <2>5, LockStepsTyped, FileStepsTyped, IndexStepsTyped DEF JobStep
  <2>. QED BY <2>1, <2>2, <2>3, <2>4, <2>5 DEF Next
<1>. QED BY <1>1, InitTyped, PTL DEF Spec

\* TypeOK holds in every reachable state, for any jobs, locked or not: whatever
\* a job saves is an index, and whatever it installs is a file.
THEOREM TypeCorrect == Spec => []TypeOK
<1>1. TypeInv => TypeOK
  BY DEF TypeInv
<1>. QED BY <1>1, TypeInvInvariant, PTL

-------------------------------------------------------------------------------
(* Mutual exclusion: a job past waiting holds the lock, and only such a job. *)

Past(w) == job[w].step \notin {"idle", "wait"}

Held == \A w \in Jobs : /\ lock = w <=> Locks(w) /\ Past(w)
                        /\ job[w].step = "wait" => Locks(w)

LEMMA HeldInvariant == Spec => []Held
<1>1. Init => Held
  <2>. SUFFICES ASSUME Init PROVE Held
    OBVIOUS
  <2>1. \A w \in Jobs : job[w].step = "idle" /\ lock # w
    BY FolderLockAssumption DEF Init, IdleJob
  <2>. QED BY <2>1 DEF Held, Past
<1>2. TypeInv /\ Held /\ [Next]_vars => Held'
  <2>. SUFFICES ASSUME TypeInv, Held, [Next]_vars PROVE Held'
    OBVIOUS
  <2>0. job \in [Jobs -> Job]
    BY DEF TypeInv, TypeOK
  <2>1. CASE UNCHANGED vars
    BY <2>1 DEF vars, Held, Past, Locks
  <2>2. CASE \/ \E x \in Paths, h \in Contents : UserWrite(x, h)
             \/ \E x \in Paths : UserDelete(x)
    BY <2>2 DEF UserWrite, UserDelete, Held, Past, Locks
  <2>3. ASSUME NEW w \in Jobs, NEW x \in Paths, NEW h \in Contents, Ask(w, x, h)
        PROVE  Held'
    <3>1. job[w].step = "idle" /\ lock' = lock
      BY <2>3 DEF Ask
    <3>2. /\ \A v \in Jobs : v # w => job'[v] = job[v]
          /\ job'[w].step = IF Locks(w) THEN "wait" ELSE First(Work[w])
      BY <2>0, <2>3 DEF Ask, IdleJob
    <3>3. First(Work[w]) \notin {"idle", "wait"}
      BY FirstTyped
    <3>. QED BY <3>1, <3>2, <3>3 DEF Held, Past, Locks
  <2>4. ASSUME NEW w \in Jobs, Acquire(w) PROVE Held'
    <3>1. /\ job[w].step = "wait" /\ lock = NoJob /\ lock' = w
      BY <2>4 DEF Acquire, At
    <3>2. job[w].request.kind = Work[w]
      BY <3>1, RequestTyped
    <3>3. /\ \A v \in Jobs : v # w => job'[v] = job[v]
          /\ job'[w].step = First(Work[w])
      BY <2>0, <2>4, <3>2 DEF Acquire, Job
    <3>4. First(Work[w]) \notin {"idle", "wait"}
      BY FirstTyped
    <3>. QED BY <3>1, <3>3, <3>4, FolderLockAssumption DEF Held, Past, Locks
  <2>5. ASSUME NEW w \in Jobs, Timeout(w) \/ Release(w) \/ Die(w) PROVE Held'
    <3>1. IdleJob.step = "idle"
      BY DEF IdleJob
    <3>2. /\ \A v \in Jobs : v # w => job'[v] = job[v]
          /\ job'[w].step = "idle"
      BY <2>0, <2>5, <3>1 DEF Timeout, Release, Die
    <3>3. lock' = (IF lock = w THEN NoJob ELSE lock)
      <4>1. CASE Timeout(w)
        <5>1. job[w].step = "wait"
          BY <4>1 DEF Timeout, At
        <5>2. lock # w
          BY <5>1 DEF Held, Past
        <5>. QED BY <4>1, <5>2 DEF Timeout
      <4>2. CASE Release(w) \/ Die(w)
        BY <4>2 DEF Release, Die, Free
      <4>. QED BY <2>5, <4>1, <4>2
    <3>. QED BY <3>2, <3>3, FolderLockAssumption DEF Held, Past, Locks
  <2>6. ASSUME NEW w \in Jobs,
               \/ Clear(w) \/ Install(w) \/ Verify(w) \/ Fail(w) \/ ReadRules(w)
               \/ WriteRules(w) \/ LoadIndex(w) \/ ScanDisk(w) \/ SaveIndex(w)
        PROVE  Held'
    <3>1. lock' = lock /\ job[w].step \notin {"idle", "wait"}
      BY <2>6 DEF Clear, Install, Verify, Fail, ReadRules, WriteRules, LoadIndex,
                  ScanDisk, SaveIndex, At
    <3>2. job[w] \in Job
      BY <2>0
    <3>3. /\ \A v \in Jobs : v # w => job'[v] = job[v]
          /\ job'[w].step \notin {"idle", "wait"}
      <4>1. CASE Clear(w) \/ Install(w) \/ Verify(w) \/ Fail(w)
        BY <2>0, <3>2, <4>1 DEF Clear, Install, Verify, Fail, StepTo, Job
      <4>2. CASE ReadRules(w) \/ WriteRules(w) \/ LoadIndex(w)
        BY <2>0, <3>2, <4>2 DEF ReadRules, WriteRules, LoadIndex, StepTo, Job
      <4>3. CASE ScanDisk(w) \/ SaveIndex(w)
        BY <2>0, <3>2, <4>3 DEF ScanDisk, SaveIndex, Job
      <4>. QED BY <2>6, <4>1, <4>2, <4>3
    <3>. QED BY <3>1, <3>3 DEF Held, Past, Locks
  <2>. QED BY <2>1, <2>2, <2>3, <2>4, <2>5, <2>6 DEF Next, JobStep
<1>. QED BY <1>1, <1>2, TypeInvInvariant, PTL DEF Spec

\* Two jobs that lock are never both past waiting.
LEMMA OneHolder ==
  ASSUME Held, NEW v \in Jobs, NEW w \in Jobs,
         Locks(v), Locks(w), Past(v), Past(w)
  PROVE  v = w
BY DEF Held

\* Only its own steps move a job, and only a save touches the index.
LEMMA StepsOfOne ==
  ASSUME TypeInv, NEW w \in Jobs, JobStep(w) \/ Die(w)
  PROVE  /\ \A v \in Jobs : v # w => job'[v] = job[v]
         /\ ~SaveIndex(w) => index' = index
<1>1. job \in [Jobs -> Job]
  BY DEF TypeInv, TypeOK
<1>2. CASE Acquire(w) \/ Timeout(w) \/ Release(w) \/ Die(w)
  BY <1>1, <1>2 DEF Acquire, Timeout, Release, Die
<1>3. CASE Clear(w) \/ Install(w) \/ Verify(w) \/ Fail(w)
  BY <1>1, <1>3 DEF Clear, Install, Verify, Fail, StepTo
<1>4. CASE ReadRules(w) \/ WriteRules(w) \/ LoadIndex(w) \/ ScanDisk(w)
  BY <1>1, <1>4 DEF ReadRules, WriteRules, LoadIndex, ScanDisk, StepTo
<1>5. CASE SaveIndex(w)
  BY <1>1, <1>5 DEF SaveIndex
<1>. QED BY <1>2, <1>3, <1>4, <1>5 DEF JobStep

-------------------------------------------------------------------------------
(* The bytes of a file that a job removes or replaces. *)

\* What is at a path that a job has made free came after that.
Intruders ==
  \A w \in Jobs : job[w].step = "install" =>
    /\ job[w].cleared <= edits
    /\ disk[PathOf(w)] # NoFile => disk[PathOf(w)].mtime >= job[w].cleared

LEMMA IntrudersInvariant == Spec => []Intruders
<1>1. Init => Intruders
  BY DEF Init, IdleJob, Intruders
<1>2. TypeInv /\ Held /\ Intruders /\ [Next]_vars => Intruders'
  <2>. SUFFICES ASSUME TypeInv, Held, Intruders, [Next]_vars PROVE Intruders'
    OBVIOUS
  <2>1. /\ edits \in Nat /\ \A w \in Jobs : job[w].cleared \in Nat
        /\ job \in [Jobs -> Job] /\ disk \in [Paths -> File \cup {NoFile}]
    BY Bounds, JobTyped DEF TypeInv, TypeOK
  <2>2. CASE UNCHANGED vars
    BY <2>2 DEF vars, Intruders, PathOf
  <2>3. ASSUME NEW x \in Paths, NEW h \in Contents, UserWrite(x, h) PROVE Intruders'
    BY <2>1, <2>3 DEF UserWrite, Intruders, PathOf, File, NoFile
  <2>4. ASSUME NEW x \in Paths, UserDelete(x) PROVE Intruders'
    BY <2>1, <2>4 DEF UserDelete, Intruders, PathOf, NoFile
  <2>5. ASSUME NEW w \in Jobs, NEW x \in Paths, NEW h \in Contents, Ask(w, x, h)
        PROVE  Intruders'
    <3>1. First(Work[w]) # "install"
      BY FirstTyped
    <3>2. job'[w].step # "install" /\ \A v \in Jobs : v # w => job'[v] = job[v]
      BY <2>1, <2>5, <3>1 DEF Ask, IdleJob
    <3>. QED BY <2>5, <3>2 DEF Ask, Intruders, PathOf
  <2>6. ASSUME NEW w \in Jobs, JobStep(w) \/ Die(w) PROVE Intruders'
    <3>1. \A v \in Jobs : v # w => job'[v] = job[v]
      BY <2>6, StepsOfOne
    <3>2. edits' = edits
      BY <2>6 DEF JobStep, Acquire, Timeout, Release, Die, Clear, Install, Verify, Fail,
                  ReadRules, WriteRules, LoadIndex, ScanDisk, SaveIndex
    <3>3. CASE Clear(w)
      <4>1. job[w].step = "clear" /\ Past(w)
        BY <3>3 DEF Clear, At, Past
      <4>2. disk' = [disk EXCEPT ![PathOf(w)] = NoFile]
        BY <3>3 DEF Clear
      <4>3. PathOf(w) \in Paths
        BY <4>1, RequestTyped
      <4>4. /\ job'[w].cleared = edits /\ job'[w].request = job[w].request
        BY <2>1, <3>3 DEF Clear, Job
      <4>5. disk'[PathOf(w)] = NoFile /\ \A x \in Paths : disk'[x] \in {disk[x], NoFile}
        BY <2>1, <4>2, <4>3
      <4>6. \A v \in Jobs : v # w /\ job[v].step = "install" => PathOf(v) \in Paths
        BY RequestTyped
      <4>. QED BY <2>1, <3>1, <3>2, <4>4, <4>5, <4>6 DEF Intruders, PathOf
    <3>4. CASE Install(w)
      <4>1. job[w].step = "install" /\ Locks(w) /\ Past(w)
        BY <3>4, FolderLockAssumption DEF Install, At, Past, Locks, TypeInv, Asked
      <4>2. \A v \in Jobs : job[v].step = "install" => v = w
        <5>1. \A v \in Jobs : job[v].step = "install" => Locks(v) /\ Past(v)
          BY FolderLockAssumption DEF Locks, Past, TypeInv, Asked
        <5>. QED BY <4>1, <5>1, OneHolder
      <4>3. job'[w].step = "verify"
        BY <2>1, <3>4 DEF Install, StepTo, Job
      <4>. QED BY <3>1, <4>2, <4>3 DEF Intruders
    <3>5. CASE ~Clear(w) /\ ~Install(w)
      <4>1. disk' = disk
        BY <2>6, <3>5 DEF JobStep, Acquire, Timeout, Release, Die, Verify, Fail,
                  ReadRules, WriteRules, LoadIndex, ScanDisk, SaveIndex
      <4>2. job'[w].step # "install"
        <5>1. CASE Acquire(w)
          <6>1. job[w].request.kind = Work[w]
            BY <5>1, RequestTyped DEF Acquire, At
          <6>. QED BY <2>1, <5>1, <6>1, FirstTyped DEF Acquire, Job
        <5>2. CASE Timeout(w) \/ Release(w) \/ Die(w)
          BY <2>1, <5>2 DEF Timeout, Release, Die, IdleJob
        <5>3. CASE Verify(w) \/ Fail(w) \/ ReadRules(w) \/ WriteRules(w)
          BY <2>1, <5>3 DEF Verify, Fail, ReadRules, WriteRules, StepTo, Job
        <5>4. CASE LoadIndex(w) \/ ScanDisk(w) \/ SaveIndex(w)
          BY <2>1, <5>4 DEF LoadIndex, ScanDisk, SaveIndex, Job
        <5>. QED BY <2>6, <3>5, <5>1, <5>2, <5>3, <5>4 DEF JobStep
      <4>. QED BY <3>1, <3>2, <4>1, <4>2 DEF Intruders, PathOf
    <3>. QED BY <3>3, <3>4, <3>5
  <2>. QED BY <2>2, <2>3, <2>4, <2>5, <2>6 DEF Next
<1>. QED BY <1>1, <1>2, TypeInvInvariant, HeldInvariant, PTL DEF Spec

\* No job destroys bytes that were at a path before the job made it free: they
\* are in the trash, unless the user put them there since.
THEOREM LossesAreIntruders == Spec => OnlyIntrudersLost
<1>. DEFINE Lost == \A x \in Paths :
              edits' = edits /\ disk[x] # NoFile /\ disk'[x] # disk[x] =>
                \/ disk[x].hash \in trash'
                \/ \E w \in Jobs : At(w, "install") /\ disk[x].mtime >= job[w].cleared
<1>1. TypeInv /\ Intruders /\ [Next]_vars => [Lost]_vars
  <2>. SUFFICES ASSUME TypeInv, Intruders, Next, NEW x \in Paths,
                       edits' = edits, disk[x] # NoFile, disk'[x] # disk[x]
                PROVE  \/ disk[x].hash \in trash'
                       \/ \E w \in Jobs : At(w, "install") /\ disk[x].mtime >= job[w].cleared
    OBVIOUS
  <2>1. disk \in [Paths -> File \cup {NoFile}] /\ edits \in Nat
    BY Bounds DEF TypeInv, TypeOK
  <2>2. PICK w \in Jobs : Clear(w) \/ Install(w)
    <3>1. ~(\E y \in Paths, h \in Contents : UserWrite(y, h)) /\ ~(\E y \in Paths : UserDelete(y))
      BY <2>1 DEF UserWrite, UserDelete
    <3>2. ~(\E w \in Jobs, y \in Paths, h \in Contents : Ask(w, y, h))
      BY DEF Ask
    <3>3. PICK w \in Jobs : JobStep(w) \/ Die(w)
      BY <3>1, <3>2 DEF Next
    <3>4. ~(Acquire(w) \/ Timeout(w) \/ Release(w) \/ Die(w) \/ Verify(w) \/ Fail(w))
      BY DEF Acquire, Timeout, Release, Die, Verify, Fail
    <3>5. ~(ReadRules(w) \/ WriteRules(w) \/ LoadIndex(w) \/ ScanDisk(w) \/ SaveIndex(w))
      BY DEF ReadRules, WriteRules, LoadIndex, ScanDisk, SaveIndex
    <3>. QED BY <3>3, <3>4, <3>5 DEF JobStep
  <2>3. PathOf(w) \in Paths
    BY <2>2, RequestTyped DEF Clear, Install, At
  <2>4. x = PathOf(w)
    BY <2>1, <2>2, <2>3 DEF Clear, Install
  <2>5. CASE Clear(w)
    BY <2>4, <2>5 DEF Clear, FileHere, Moved
  <2>6. CASE Install(w)
    BY <2>4, <2>6 DEF Install, Intruders, At
  <2>. QED BY <2>2, <2>5, <2>6
<1>. QED BY <1>1, TypeInvInvariant, IntrudersInvariant, PTL DEF Spec, OnlyIntrudersLost

-------------------------------------------------------------------------------
(* The refinement. *)

Rescan(old, new) ==
  \A x \in Paths : new[x] = old[x] \/ new[x] = ScanEntry(Here, old[x], FileOf(new[x]))

\* While job w works on the index it loaded, the index file is that one still.
FreshFor(w) ==
  /\ job[w].step = "scan" => job[w].loaded = index
  /\ job[w].step = "save" /\ Work[w] # "scan" => job[w].loaded = index
  /\ job[w].step = "save" /\ Work[w] = "scan" => Rescan(index, job[w].loaded)

Fresh == \A w \in Jobs : FreshFor(w)

LEMMA FreshKept ==
  ASSUME NEW w \in Jobs, FreshFor(w), job'[w] = job[w], index' = index
  PROVE  FreshFor(w)'
BY DEF FreshFor, Rescan

LEMMA FreshInvariant ==
  ASSUME Unlocked = {}
  PROVE  Spec => []Fresh
<1>1. Init => Fresh
  BY DEF Init, IdleJob, Fresh, FreshFor
<1>2. TypeInv /\ Held /\ Fresh /\ [Next]_vars => Fresh'
  <2>. SUFFICES ASSUME TypeInv, Held, Fresh, [Next]_vars PROVE Fresh'
    OBVIOUS
  <2>1. job \in [Jobs -> Job]
    BY DEF TypeInv, TypeOK
  <2>2. CASE \/ UNCHANGED vars
             \/ \E x \in Paths, h \in Contents : UserWrite(x, h)
             \/ \E x \in Paths : UserDelete(x)
    <3>1. job' = job /\ index' = index
      BY <2>2 DEF vars, UserWrite, UserDelete
    <3>. QED BY <3>1, FreshKept DEF Fresh
  <2>3. ASSUME NEW w \in Jobs, NEW x \in Paths, NEW h \in Contents, Ask(w, x, h)
        PROVE  Fresh'
    <3>1. First(Work[w]) \in {"clear", "rules", "load"}
      BY FirstTyped
    <3>2. /\ job'[w].step \notin {"scan", "save"} /\ index' = index
          /\ \A v \in Jobs : v # w => job'[v] = job[v]
      BY <2>1, <2>3, <3>1 DEF Ask, IdleJob
    <3>. QED BY <3>2, FreshKept DEF Fresh, FreshFor
  <2>4. ASSUME NEW w \in Jobs, JobStep(w) \/ Die(w) PROVE Fresh'
    <3>1. \A v \in Jobs : v # w => job'[v] = job[v]
      BY <2>4, StepsOfOne
    <3>2. CASE SaveIndex(w)
      <4>1. Locks(w) /\ Past(w)
        BY <3>2 DEF Locks, Past, SaveIndex, At
      <4>2. \A v \in Jobs : v # w => job[v].step \notin {"scan", "save"}
        BY <4>1, OneHolder DEF Locks, Past
      <4>3. job'[w].step = "release"
        BY <2>1, <3>2 DEF SaveIndex, Job
      <4>. QED BY <3>1, <4>2, <4>3 DEF Fresh, FreshFor
    <3>3. CASE ~SaveIndex(w)
      <4>1. index' = index
        BY <2>4, <3>3, StepsOfOne
      <4>2. \A v \in Jobs : v # w => FreshFor(v)'
        BY <3>1, <4>1, FreshKept DEF Fresh
      <4>3. CASE LoadIndex(w)
        <5>1. job'[w].loaded = index /\ job'[w].step \in {"scan", "save"}
              /\ (job'[w].step = "save" => Work[w] # "scan")
          BY <2>1, <4>3 DEF LoadIndex, Job
        <5>2. FreshFor(w)'
          BY <4>1, <5>1 DEF FreshFor
        <5>. QED BY <4>2, <5>2 DEF Fresh
      <4>4. CASE ScanDisk(w)
        <5>. DEFINE scanned == Scan(Here, job[w].loaded, disk)
        <5>1. job[w].step = "scan" /\ job[w].loaded = index
          BY <4>4 DEF ScanDisk, At, Fresh, FreshFor
        <5>2. /\ job'[w].step = "save"
              /\ job'[w].loaded = [x \in Paths |-> IF x \in job[w].rules THEN job[w].loaded[x]
                                                   ELSE scanned[x]]
          BY <2>1, <4>4 DEF ScanDisk, Job
        <5>3. \A x \in Paths : job'[w].loaded[x] \in {index[x], ScanEntry(Here, index[x], disk[x])}
          BY <5>1, <5>2 DEF Scan
        <5>4. \A x \in Paths :
                LET new == ScanEntry(Here, index[x], disk[x]) IN
                new = index[x] \/ FileOf(new) = disk[x]
          BY ScanEntryShowsFile, FolderLockAssumption DEF TypeInv, TypeOK
        <5>5. Rescan(index, job'[w].loaded)
          BY <5>3, <5>4 DEF Rescan
        <5>6. Work[w] = "scan"
          BY <4>4 DEF ScanDisk, At, TypeInv, Asked
        <5>7. FreshFor(w)'
          BY <4>1, <5>2, <5>5, <5>6 DEF FreshFor, Rescan
        <5>. QED BY <4>2, <5>7 DEF Fresh
      <4>5. CASE ~LoadIndex(w) /\ ~ScanDisk(w)
        <5>1. job'[w].step \notin {"scan", "save"}
          <6>1. CASE Acquire(w)
            <7>1. job[w].request.kind = Work[w]
              BY <6>1, RequestTyped DEF Acquire, At
            <7>. QED BY <2>1, <6>1, <7>1, FirstTyped DEF Acquire, Job
          <6>2. CASE Timeout(w) \/ Release(w) \/ Die(w)
            BY <2>1, <6>2 DEF Timeout, Release, Die, IdleJob
          <6>3. CASE Clear(w) \/ Install(w) \/ Verify(w) \/ Fail(w)
            BY <2>1, <6>3 DEF Clear, Install, Verify, Fail, StepTo, Job
          <6>4. CASE ReadRules(w) \/ WriteRules(w)
            BY <2>1, <6>4 DEF ReadRules, WriteRules, StepTo, Job
          <6>. QED BY <2>4, <3>3, <4>5, <6>1, <6>2, <6>3, <6>4 DEF JobStep
        <5>2. FreshFor(w)'
          BY <5>1 DEF FreshFor
        <5>. QED BY <4>2, <5>2 DEF Fresh
      <4>. QED BY <4>3, <4>4, <4>5
    <3>. QED BY <3>2, <3>3
  <2>. QED BY <2>2, <2>3, <2>4 DEF Next
<1>. QED BY <1>1, <1>2, TypeInvInvariant, HeldInvariant, PTL DEF Spec

\* What a job that wants something wants, and that it is a request.
LEMMA WantedTyped ==
  ASSUME TypeInv, NEW w \in Jobs
  PROVE  /\ job[w].step \in {"idle", "release"} => Wanted(w) = NoRequest
         /\ job[w].step \notin {"idle", "release"} =>
              /\ Wanted(w) = job[w].request /\ job[w].request \in Request
              /\ Wanted(w) # NoRequest /\ Wanted(w).kind = Work[w]
BY FolderLockAssumption DEF Wanted, TypeInv, Asked

\* A save is the one step of its job that the store sees, carried out whole.
LEMMA SaveServes ==
  ASSUME TypeInv, Fresh, NEW w \in Jobs, SaveIndex(w)
  PROVE  Store!Effect(Wanted(w), index, index')
<1>1. job[w].step = "save" /\ index' = Result(w)
  BY DEF SaveIndex, At
<1>2. Wanted(w) = job[w].request /\ Wanted(w).kind = Work[w]
  BY <1>1, WantedTyped
<1>3. Work[w] \in {"write", "delete", "scan", "ack"}
  BY <1>1, FolderLockAssumption DEF Kinds, TypeInv, Asked
<1>4. Work[w] # "scan" => job[w].loaded = index
  BY <1>1 DEF Fresh, FreshFor
<1>5. CASE Work[w] = "write"
  BY <1>1, <1>2, <1>4, <1>5 DEF Result, Store!Effect, LiveEntry, Store!LiveEntry
<1>6. CASE Work[w] = "delete"
  BY <1>1, <1>2, <1>4, <1>6 DEF Result, Store!Effect, Tombstone, Store!Tombstone
<1>7. CASE Work[w] = "ack"
  BY <1>1, <1>2, <1>4, <1>7 DEF Result, Store!Effect, Prune, Store!Prune, Absent, Store!Absent,
       Leq, Store!Leq, ZeroVersion, Store!ZeroVersion, Paths, Store!Paths
<1>8. CASE Work[w] = "scan"
  <2>1. Rescan(index, job[w].loaded) /\ index' = job[w].loaded
    BY <1>1, <1>8 DEF Fresh, FreshFor, Result
  <2>2. Store!Rescanned(index, index')
    BY <2>1 DEF Rescan, Store!Rescanned, ScanEntry, Store!ScanEntry, FileOf, Store!FileOf,
         LiveEntry, Store!LiveEntry, Tombstone, Store!Tombstone, Increment, Store!Increment,
         NoFile, Store!NoFile, IsLive, Store!IsLive, Paths, Store!Paths
  <2>. QED BY <1>2, <1>8, <2>2 DEF Store!Effect
<1>. QED BY <1>3, <1>5, <1>6, <1>7, <1>8

\* What every step is for the store.
LEMMA StepRefines ==
  ASSUME TypeInv, TypeInv', Held, Fresh, [Next]_vars
  PROVE  [Store!StoreNext]_(Store!storeVars)
<1>. DEFINE wanted == [v \in Jobs |-> Wanted(v)]
<1>0. job \in [Jobs -> Job]
  BY DEF TypeInv, TypeOK
<1>1. CASE job' = job /\ index' = index
  BY <1>1 DEF Store!storeVars, Wanted
<1>2. ASSUME NEW w \in Jobs, \A v \in Jobs : v # w => job'[v] = job[v]
      PROVE  wanted' = [wanted EXCEPT ![w] = Wanted(w)']
  BY <1>2 DEF Wanted
<1>3. ASSUME NEW w \in Jobs, NEW x \in Paths, NEW h \in Contents, Ask(w, x, h)
      PROVE  [Store!StoreNext]_(Store!storeVars)
  <2>1. First(Work[w]) \in {"clear", "rules", "load"}
    BY FirstTyped
  <2>2. /\ \A v \in Jobs : v # w => job'[v] = job[v]
        /\ job[w].step = "idle" /\ job'[w].step \notin {"idle", "release"}
        /\ index' = index
    BY <1>0, <1>3, <2>1 DEF Ask, IdleJob
  <2>3. Wanted(w) = NoRequest /\ Wanted(w)' \in Request
    BY <2>2 DEF Wanted, TypeInv, Asked
  <2>4. Wanted(w)' \in Store!Request
    BY <2>3 DEF Request, Store!Request, Kinds, Store!Kinds, Paths, Store!Paths,
                File, Store!File, NoFile, Store!NoFile, Version, Store!Version
  <2>5. wanted' = [wanted EXCEPT ![w] = Wanted(w)'] /\ wanted'[w] = Wanted(w)'
    BY <1>2, <2>2
  <2>6. Store!Ask(w)
    BY <2>2, <2>3, <2>4, <2>5 DEF Store!Ask
  <2>. QED BY <2>6 DEF Store!StoreNext
<1>4. ASSUME NEW w \in Jobs, JobStep(w) \/ Die(w)
      PROVE  [Store!StoreNext]_(Store!storeVars)
  <2>1. \A v \in Jobs : v # w => job'[v] = job[v]
    BY <1>4, StepsOfOne
  <2>2. wanted' = [wanted EXCEPT ![w] = Wanted(w)']
    BY <1>2, <2>1
  <2>3. CASE SaveIndex(w)
    <3>1. job[w].step = "save" /\ job'[w].step = "release"
      BY <1>0, <2>3 DEF SaveIndex, At, Job
    <3>2. Wanted(w) # NoRequest /\ Wanted(w)' = NoRequest
      BY <3>1, WantedTyped DEF Wanted
    <3>3. Store!Serve(w)
      BY <2>2, <2>3, <3>2, SaveServes DEF Store!Serve
    <3>. QED BY <3>3 DEF Store!StoreNext
  <2>4. CASE ~SaveIndex(w)
    <3>1. index' = index
      BY <1>4, <2>4, StepsOfOne
    <3>2. CASE job'[w].step \in {"idle", "release"}
      <4>1. Wanted(w)' = NoRequest
        BY <3>2 DEF Wanted
      <4>2. Store!Withdraw(w)
        BY <2>2, <3>1, <4>1 DEF Store!Withdraw
      <4>. QED BY <4>2 DEF Store!StoreNext
    <3>3. CASE job'[w].step \notin {"idle", "release"}
      <4>1. job'[w].request = job[w].request /\ job[w].step \notin {"idle", "release"}
        <5>1. ~(Timeout(w) \/ Release(w) \/ Die(w))
          BY <1>0, <3>3 DEF Timeout, Release, Die, IdleJob
        <5>2. CASE Acquire(w) \/ Clear(w) \/ Install(w) \/ Verify(w) \/ Fail(w)
          BY <1>0, <5>2 DEF Acquire, Clear, Install, Verify, Fail, StepTo, At, Job
        <5>3. CASE ReadRules(w) \/ WriteRules(w) \/ LoadIndex(w) \/ ScanDisk(w)
          BY <1>0, <5>3 DEF ReadRules, WriteRules, LoadIndex, ScanDisk, StepTo, At, Job
        <5>. QED BY <1>4, <2>4, <5>1, <5>2, <5>3 DEF JobStep
      <4>2. Wanted(w)' = Wanted(w)
        BY <3>3, <4>1 DEF Wanted
      <4>3. wanted' = wanted
        BY <2>2, <4>2
      <4>. QED BY <3>1, <4>3 DEF Store!storeVars
    <3>. QED BY <3>2, <3>3
  <2>. QED BY <2>3, <2>4
<1>5. CASE \/ UNCHANGED vars
           \/ \E x \in Paths, h \in Contents : UserWrite(x, h)
           \/ \E x \in Paths : UserDelete(x)
  BY <1>1, <1>5 DEF vars, UserWrite, UserDelete
<1>. QED BY <1>3, <1>4, <1>5 DEF Next

\* Where every job takes the lock, the jobs implement the store of atomic
\* requests, whatever the users do and whichever processes die.
THEOREM FolderLockImplementsStore ==
  ASSUME Unlocked = {}
  PROVE  Spec => ImplementsStore
<1>1. Init => Store!StoreInit
  <2>. SUFFICES ASSUME Init PROVE Store!StoreInit
    OBVIOUS
  <2>1. \A w \in Jobs : Wanted(w) = NoRequest
    BY DEF Init, IdleJob, Wanted
  <2>2. index = [x \in Store!Paths |-> Store!Absent]
    BY DEF Init, NoEntries, Paths, Store!Paths, Absent, Store!Absent, ZeroVersion, Store!ZeroVersion
  <2>. QED BY <2>1, <2>2 DEF Store!StoreInit
<1>2. TypeInv /\ TypeInv' /\ Held /\ Fresh /\ [Next]_vars => [Store!StoreNext]_(Store!storeVars)
  BY StepRefines
<1>. QED BY <1>1, <1>2, TypeInvInvariant, HeldInvariant, FreshInvariant, PTL
       DEF Spec, ImplementsStore, Store!StoreSpec
-------------------------------------------------------------------------------
(* Scans and the rules they go by. *)

\* While a scan under the lock is under way, the marker says what it has read.
RulesCurrent ==
  \A w \in Jobs \ Unlocked :
    Work[w] = "scan" /\ job[w].step \in {"load", "scan", "save"} => job[w].rules = ignored

LEMMA RulesCurrentInvariant ==
  Spec => []RulesCurrent
<1>1. Init => RulesCurrent
  BY DEF Init, IdleJob, RulesCurrent
<1>2. TypeInv /\ Held /\ RulesCurrent /\ [Next]_vars => RulesCurrent'
  <2>. SUFFICES ASSUME TypeInv, Held, RulesCurrent, [Next]_vars PROVE RulesCurrent'
    OBVIOUS
  <2>1. job \in [Jobs -> Job]
    BY DEF TypeInv, TypeOK
  <2>2. CASE \/ UNCHANGED vars
             \/ \E x \in Paths, h \in Contents : UserWrite(x, h)
             \/ \E x \in Paths : UserDelete(x)
    BY <2>2 DEF vars, UserWrite, UserDelete, RulesCurrent
  <2>3. ASSUME NEW w \in Jobs, NEW x \in Paths, NEW h \in Contents, Ask(w, x, h)
        PROVE  RulesCurrent'
    <3>1. /\ \A v \in Jobs : v # w => job'[v] = job[v]
          /\ w \notin Unlocked => job'[w].step = "wait"
          /\ ignored' = ignored
      BY <2>1, <2>3 DEF Ask, IdleJob, Locks
    <3>. QED BY <3>1 DEF RulesCurrent
  <2>4. ASSUME NEW w \in Jobs, JobStep(w) \/ Die(w) PROVE RulesCurrent'
    <3>1. \A v \in Jobs : v # w => job'[v] = job[v]
      BY <2>4, StepsOfOne
    <3>2. job[w] \in Job
      BY <2>1
    <3>3. CASE WriteRules(w)
      <4>1. Locks(w) /\ Past(w)
        <5>1. job[w].step = "mark" /\ w \notin Unlocked
          BY <3>3, FolderLockAssumption DEF WriteRules, At, TypeInv, Asked
        <5>. QED BY <5>1 DEF Locks, Past
      <4>2. \A v \in Jobs \ Unlocked : v # w => job[v].step \notin {"load", "scan", "save"}
        BY <4>1, OneHolder DEF Locks, Past
      <4>3. job'[w].step = "release"
        BY <2>1, <3>2, <3>3 DEF WriteRules, StepTo, Job
      <4>. QED BY <3>1, <4>2, <4>3 DEF RulesCurrent
    <3>4. CASE ~WriteRules(w)
      <4>1. ignored' = ignored
        BY <2>4, <3>4 DEF JobStep, Die, Acquire, Timeout, Release, Clear, Install, Verify, Fail,
                          ReadRules, LoadIndex, ScanDisk, SaveIndex
      <4>2. SUFFICES Work[w] = "scan" /\ w \notin Unlocked
                       /\ job'[w].step \in {"load", "scan", "save"} => job'[w].rules = ignored
        BY <3>1, <4>1 DEF RulesCurrent
      <4>3. CASE Acquire(w)
        <5>1. job[w].request.kind = Work[w]
          BY <4>3, RequestTyped DEF Acquire, At
        <5>2. job'[w].step = First(Work[w])
          BY <2>1, <3>2, <4>3, <5>1 DEF Acquire, Job
        <5>. QED BY <5>2 DEF First
      <4>4. CASE Timeout(w) \/ Release(w) \/ Die(w)
        BY <2>1, <4>4 DEF Timeout, Release, Die, IdleJob
      <4>5. CASE Clear(w) \/ Install(w) \/ Verify(w) \/ Fail(w)
        <5>1. Work[w] # "scan" \/ job'[w].step = "release"
          BY <2>1, <3>2, <4>5 DEF Clear, Install, Verify, Fail, StepTo, Job, At, TypeInv, Asked
        <5>. QED BY <5>1
      <4>6. CASE ReadRules(w)
        BY <2>1, <3>2, <4>6 DEF ReadRules, Job
      <4>7. CASE LoadIndex(w) \/ ScanDisk(w)
        <5>1. job[w].step \in {"load", "scan"} /\ job'[w].rules = job[w].rules
          BY <2>1, <3>2, <4>7 DEF LoadIndex, ScanDisk, At, Job
        <5>. QED BY <5>1 DEF RulesCurrent
      <4>8. CASE SaveIndex(w)
        BY <2>1, <3>2, <4>8 DEF SaveIndex, Job
      <4>. QED BY <2>4, <3>4, <4>3, <4>4, <4>5, <4>6, <4>7, <4>8 DEF JobStep
    <3>. QED BY <3>3, <3>4
  <2>. QED BY <2>2, <2>3, <2>4 DEF Next
<1>. QED BY <1>1, <1>2, TypeInvInvariant, HeldInvariant, PTL DEF Spec

\* A scan that holds the folder lock leaves every path that the marker ignores
\* as it was in the index it loaded, and no ignore edit comes before its save,
\* whatever the scans without the lock do beside it.
THEOREM ScansFollowRules ==
  Spec => IgnoredEntriesKept
<1>1. TypeInv /\ Held /\ RulesCurrent /\ [Next]_vars => [\A w \in Jobs \ Unlocked : FollowsRules(w)]_vars
  <2>. SUFFICES ASSUME TypeInv, Held, RulesCurrent, Next, NEW w \in Jobs \ Unlocked
                PROVE  FollowsRules(w)
    OBVIOUS
  <2>1. job \in [Jobs -> Job] /\ ignored \subseteq Paths
    BY DEF TypeInv, TypeOK
  <2>2. ASSUME At(w, "scan"), job'[w].step = "save", NEW x \in ignored
        PROVE  job'[w].loaded[x] = job[w].loaded[x]
    <3>1. job'[w].step # job[w].step
      BY <2>2 DEF At
    <3>2. ~\E y \in Paths, h \in Contents : UserWrite(y, h)
      BY <3>1 DEF UserWrite
    <3>3. ~\E y \in Paths : UserDelete(y)
      BY <3>1 DEF UserDelete
    <3>4. ~\E v \in Jobs, y \in Paths, h \in Contents : Ask(v, y, h)
      BY <2>1, <2>2 DEF Ask, At
    <3>5. PICK v \in Jobs : JobStep(v) \/ Die(v)
      BY <3>2, <3>3, <3>4 DEF Next
    <3>6. v = w
      BY <3>1, <3>5, StepsOfOne
    <3>7. ScanDisk(w)
      <4>1. ~Die(w)
        BY <2>1, <2>2 DEF Die, IdleJob
      <4>. QED BY <2>2, <3>5, <3>6, <4>1 DEF JobStep, Acquire, Timeout, Release, Clear, Install, Verify,
                    Fail, ReadRules, WriteRules, LoadIndex, SaveIndex, At
    <3>8. x \in job[w].rules
      <4>1. Work[w] = "scan"
        BY <2>2 DEF At, TypeInv, Asked
      <4>. QED BY <2>2, <4>1 DEF At, RulesCurrent
    <3>. QED BY <2>1, <2>2, <3>7, <3>8 DEF ScanDisk, Job
  <2>3. ASSUME At(w, "save"), Work[w] = "scan"
        PROVE  ignored' = ignored
    <3>1. ASSUME NEW v \in Jobs, WriteRules(v) PROVE FALSE
      <4>1. job[v].step = "mark" /\ v \notin Unlocked /\ Work[v] # "scan"
        BY <3>1, FolderLockAssumption DEF WriteRules, At, TypeInv, Asked
      <4>. QED BY <2>3, <4>1, OneHolder DEF At, Locks, Past
    <3>2. ASSUME NEW v \in Jobs, JobStep(v) \/ Die(v) PROVE ignored' = ignored
      BY <3>1, <3>2 DEF JobStep, Die, Acquire, Timeout, Release, Clear, Install, Verify, Fail,
                        ReadRules, LoadIndex, ScanDisk, SaveIndex
    <3>. QED BY <3>2 DEF Next, UserWrite, UserDelete, Ask
  <2>. QED BY <2>2, <2>3 DEF FollowsRules
<1>. QED BY <1>1, TypeInvInvariant, HeldInvariant, RulesCurrentInvariant, PTL DEF Spec, IgnoredEntriesKept
==============================================================================
